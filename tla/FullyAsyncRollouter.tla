------------------------ MODULE FullyAsyncRollouter ------------------------
(***************************************************************************)
(* The rollouter of the fully asynchronous pipeline                        *)
(* (verl/experimental/fully_async_policy/fully_async_rollouter.py).        *)
(*                                                                         *)
(* The coroutines of one event loop share its state: the feeder, the       *)
(* processor, one task per sample, the monitor, the main coroutine and the *)
(* remote call reset_staleness.  The loop runs one of them at a time: the  *)
(* others step only while the processor has Yielded.  `lock' is the        *)
(* asyncio.Lock under the condition variable, a FIFO queue of the          *)
(* coroutines that hold (its head) or wait for it; a section that takes    *)
(* the free lock and does not suspend never shows in it.                   *)
(***************************************************************************)
EXTENDS MessageQueue

CONSTANTS
  ServerSlots,      \* 16 requests for each inference server
  PendingSize,      \* maxsize of pending_queue (128)
  CanFail           \* the samples whose task may raise

ASSUME RollouterAssumption ==
  /\ ServerSlots \in Nat \ {0}
  /\ PendingSize \in Nat \ {0}
  /\ CanFail \subseteq Samples

\* max_concurrent_samples
MaxConcurrent == IF ServerSlots < MaxRequired THEN ServerSlots ELSE MaxRequired

VARIABLES
  fed,              \* entries the feeder has put into pending_queue
  taken,            \* entries the processor has taken out of it
  pc,               \* where the processor is
  active,           \* active_tasks
  stage,            \* how far the task of each sample is
  staleness,        \* staleness_samples
  paused,           \* paused
  lock,             \* the lock: its owner, then who waits for it
  reset,            \* the call of reset_staleness
  sized,            \* len(active_tasks) as that call read it
  monitor,          \* _async_monitor_loop
  running,          \* running
  main              \* _streaming_generation_main

workVars == <<taken, pc, active, staleness>>
lockVars == <<paused, lock>>
callVars == <<reset, sized>>
lifeVars == <<monitor, running, main>>
loopVars == <<fed, stage, workVars, lockVars, callVars, lifeVars>>

Loops == {"drain", "slot", "finish"}
WaitOf == [drain |-> "drainWait", slot |-> "slotWait", finish |-> "finishWait"]

ProcessorPCs ==
  {"top", "pause", "parked", "notified", "getting", "done", "raised"}
    \cup Loops \cup {WaitOf[l] : l \in Loops}

Stages == {"none", "generating", "aborted", "generated", "queued", "done", "failed"}

RollouterTypeOK ==
  /\ fed \in 0..None
  /\ taken \in 0..fed
  /\ pc \in ProcessorPCs
  /\ active \subseteq Samples
  /\ stage \in [Samples -> Stages]
  /\ staleness \in Nat
  /\ paused \in BOOLEAN
  /\ lock \in Seq({"processor", "reset", "monitor"})
  /\ reset \in {"idle", "called", "queued", "sizing"}
  /\ sized \in Nat
  /\ monitor \in {"asleep", "queued", "ended"}
  /\ running \in BOOLEAN
  /\ main \in {"serving", "closing", "ended"}

RollouterInit ==
  /\ fed = 0
  /\ taken = 0
  /\ pc = "top"
  /\ active = {}
  /\ stage = [s \in Samples |-> "none"]
  /\ staleness = 0
  /\ paused = FALSE
  /\ lock = <<>>
  /\ reset = "idle"
  /\ sized = 0
  /\ monitor = "asleep"
  /\ running = TRUE
  /\ main = "serving"

Finished(s) == stage[s] \in {"done", "failed"}

(***************************************************************************)
(* The lock                                                                *)
(***************************************************************************)
Holds(c) == lock # <<>> /\ Head(lock) = c
InLine(c) == c \in {lock[i] : i \in 1..Len(lock)}
\* c takes the free lock, or is woken as its new owner.
Enters(c) == lock = <<>> \/ Holds(c)
Released(c) == IF Holds(c) THEN Tail(lock) ELSE lock
GetsInLine(c) == lock # <<>> /\ ~InLine(c) /\ lock' = Append(lock, c)
Kept(c) == IF Holds(c) THEN lock ELSE <<c>>

\* The processor is suspended: other coroutines of the loop may run.
Yielded ==
  \/ pc \in {"parked", "notified", "getting", "done", "raised"}
  \/ InLine("processor")

\* condition.notify_all()
Notified == IF pc = "parked" THEN "notified" ELSE pc

(***************************************************************************)
(* Feeder and tasks                                                        *)
(***************************************************************************)
\* _feed_samples: runs until pending_queue is full or None is in it.
Feed ==
  /\ Yielded
  /\ main = "serving"
  /\ fed < None
  /\ fed - taken < PendingSize
  /\ fed' = IF taken + PendingSize < None THEN taken + PendingSize ELSE None
  /\ UNCHANGED <<queueVars, stage, workVars, lockVars, callVars, lifeVars>>

\* _process_single_sample_streaming(s): the put arrives at the queue ...
Put(s) ==
  /\ stage[s] = "generated"
  /\ PutSample(s)
  /\ stage' = [stage EXCEPT ![s] = "queued"]
  /\ UNCHANGED <<fed, workVars, lockVars, callVars, lifeVars>>

\* ... its answer, with which the task ends ...
EndTask(s) ==
  /\ Yielded
  /\ stage[s] = "queued"
  /\ stage' = [stage EXCEPT ![s] = "done"]
  /\ UNCHANGED <<queueVars, fed, workVars, lockVars, callVars, lifeVars>>

\* ... or the exception of one of its calls.
FailTask(s) ==
  /\ Yielded
  /\ s \in CanFail
  /\ stage[s] \in {"generating", "aborted", "generated"}
  /\ stage' = [stage EXCEPT ![s] = "failed"]
  /\ UNCHANGED <<queueVars, fed, workVars, lockVars, callVars, lifeVars>>

(***************************************************************************)
(* The processor                                                           *)
(***************************************************************************)
\* Mutant: only the size of the queue is looked at.
MutShouldPause == Full

\* _should_pause_generation
ShouldPause == Full \/ staleness >= MaxRequired

\* At the head of its loop the processor sees that it has to pause ...
SeePause ==
  /\ pc = "top"
  /\ paused \/ ShouldPause
  /\ pc' = "pause"
  /\ UNCHANGED <<queueVars, fed, stage, taken, active, staleness, lockVars,
                 callVars, lifeVars>>

\* ... and does, once it has the lock, whatever became of the reason.
Pause ==
  /\ pc = "pause"
  /\ Enters("processor")
  /\ paused' = TRUE
  /\ lock' = Released("processor")
  /\ pc' = "drain"
  /\ UNCHANGED <<queueVars, fed, stage, taken, active, staleness, callVars,
                 lifeVars>>

GoesOn == pc = "top" /\ ~(paused \/ ShouldPause)

\* An entry leaves pending_queue and is counted before it is a task.
Take ==
  /\ GoesOn \/ pc = "getting"
  /\ fed > taken
  /\ taken' = taken + 1
  /\ staleness' = staleness + 1
  /\ pc' = IF taken' = None THEN "finish" ELSE "slot"
  /\ UNCHANGED <<queueVars, fed, stage, active, lockVars, callVars, lifeVars>>

\* pending_queue is empty.
AwaitSample ==
  /\ GoesOn
  /\ fed = taken
  /\ pc' = "getting"
  /\ UNCHANGED <<queueVars, fed, stage, taken, active, staleness, lockVars,
                 callVars, lifeVars>>

\* Whether a loop over active_tasks goes on waiting.
Goes(l) == IF l = "slot" THEN Cardinality(active) >= MaxConcurrent
                         ELSE active # {}

\* asyncio.wait(active_tasks) under the lock, which stays taken meanwhile.
AwaitTasks(l) ==
  /\ pc = l
  /\ Goes(l)
  /\ Enters("processor")
  /\ lock' = Kept("processor")
  /\ pc' = WaitOf[l]
  /\ UNCHANGED <<queueVars, fed, stage, taken, active, staleness, paused,
                 callVars, lifeVars>>

\* The finished tasks are reaped; the exception of one is raised.
Reap(l) ==
  /\ pc = WaitOf[l]
  /\ \E s \in active : Finished(s)
  /\ active' = {s \in active : ~Finished(s)}
  /\ lock' = Tail(lock)
  /\ pc' = IF \E s \in active : stage[s] = "failed" THEN "raised" ELSE l
  /\ UNCHANGED <<queueVars, fed, stage, taken, staleness, paused, callVars,
                 lifeVars>>

\* Behind the drain: while self.paused: await self.condition.wait()
Park ==
  /\ pc = "notified" \/ (pc = "drain" /\ ~Goes("drain"))
  /\ Enters("processor")
  /\ lock' = Released("processor")
  /\ pc' = IF paused THEN "parked" ELSE "top"
  /\ UNCHANGED <<queueVars, fed, stage, taken, active, staleness, paused,
                 callVars, lifeVars>>

\* The task of the sample in hand is created.  The code would wait here
\* while paused is set, which it never is.
Submit ==
  /\ pc = "slot" /\ ~Goes("slot")
  /\ ~paused
  /\ Enters("processor")
  /\ lock' = Released("processor")
  /\ active' = active \cup {taken}
  /\ stage' = [stage EXCEPT ![taken] = "generating"]
  /\ pc' = "top"
  /\ UNCHANGED <<queueVars, fed, taken, staleness, paused, callVars, lifeVars>>

\* Mutant: at the end signal the processor does not wait for its tasks.
MutReturn ==
  /\ pc = "finish"
  /\ pc' = "done"
  /\ UNCHANGED <<queueVars, fed, stage, taken, active, staleness, lockVars,
                 callVars, lifeVars>>

\* The end signal was met and every task has been reaped.
Return ==
  /\ pc = "finish" /\ ~Goes("finish")
  /\ pc' = "done"
  /\ UNCHANGED <<queueVars, fed, stage, taken, active, staleness, lockVars,
                 callVars, lifeVars>>

\* The processor wants the lock and does not get it at once.
Queue ==
  /\ \/ pc \in {"pause", "drain", "slot", "notified"}
     \/ pc = "finish" /\ Goes("finish")
  /\ GetsInLine("processor")
  /\ UNCHANGED <<queueVars, fed, stage, workVars, paused, callVars, lifeVars>>

Processor ==
  \/ SeePause \/ Pause \/ Take \/ AwaitSample \/ Park \/ Submit \/ Return \/ Queue
  \/ \E l \in Loops : AwaitTasks(l) \/ Reap(l)

(***************************************************************************)
(* reset_staleness, called by the trainer after every new version          *)
(***************************************************************************)
\* The active tasks are counted when the lock is taken ...
EnterReset ==
  /\ Yielded
  /\ reset \in {"called", "queued"}
  /\ Enters("reset")
  /\ lock' = Kept("reset")
  /\ reset' = "sizing"
  /\ paused' = FALSE
  /\ pc' = Notified
  /\ sized' = Cardinality(active)
  /\ UNCHANGED <<queueVars, fed, stage, taken, active, staleness, lifeVars>>

QueueReset ==
  /\ Yielded
  /\ reset = "called"
  /\ GetsInLine("reset")
  /\ reset' = "queued"
  /\ UNCHANGED <<queueVars, fed, stage, workVars, paused, sized, lifeVars>>

\* ... and the queue when it answers: a task that ends in between is
\* counted twice, the sample the processor has in hand not at all.
EndReset ==
  /\ Yielded
  /\ reset = "sizing"
  /\ staleness' = sized + Len(mq)
  /\ sized' = 0
  /\ lock' = Tail(lock)
  /\ reset' = "idle"
  /\ UNCHANGED <<queueVars, fed, stage, taken, pc, active, paused, lifeVars>>

(***************************************************************************)
(* _async_monitor_loop and the end of _streaming_generation_main           *)
(***************************************************************************)
\* Every ten seconds: a pause whose reason is gone is lifted.  The reason is
\* looked at before the lock is waited for, and not again after.
Recover ==
  /\ Yielded
  /\ \/ monitor = "asleep" /\ paused /\ ~ShouldPause
     \/ monitor = "queued"
  /\ Enters("monitor")
  /\ lock' = Released("monitor")
  /\ monitor' = "asleep"
  /\ paused' = FALSE
  /\ pc' = Notified
  /\ UNCHANGED <<queueVars, fed, stage, taken, active, staleness, callVars,
                 running, main>>

QueueMonitor ==
  /\ Yielded
  /\ monitor = "asleep" /\ paused /\ ~ShouldPause
  /\ GetsInLine("monitor")
  /\ monitor' = "queued"
  /\ UNCHANGED <<queueVars, fed, stage, workVars, paused, callVars, running,
                 main>>

\* As long as running is set the monitor wakes and sleeps again.
Watch ==
  /\ monitor = "asleep"
  /\ running
  /\ UNCHANGED <<queueVars, loopVars>>

EndMonitor ==
  /\ Yielded
  /\ monitor = "asleep"
  /\ ~running
  /\ lock = <<>>
  /\ monitor' = "ended"
  /\ UNCHANGED <<queueVars, fed, stage, workVars, lockVars, callVars, running,
                 main>>

\* The finally clause: None is put, whether the processor returned or raised.
Close ==
  /\ main = "serving"
  /\ pc \in {"done", "raised"}
  /\ PutSample(None)
  /\ main' = "closing"
  /\ UNCHANGED <<fed, stage, workVars, lockVars, callVars, monitor, running>>

\* Behind the try statement: running is cleared only without an exception.
StopRunning ==
  /\ main = "closing"
  /\ pc = "done"
  /\ lock = <<>>
  /\ running' = FALSE
  /\ main' = "ended"
  /\ UNCHANGED <<queueVars, fed, stage, workVars, lockVars, callVars, monitor>>

\* fit has gathered both coroutines.
FitReturned == main = "ended" /\ monitor = "ended"

Others ==
  \/ Feed \/ EnterReset \/ QueueReset \/ EndReset
  \/ Recover \/ QueueMonitor \/ Watch \/ EndMonitor \/ Close \/ StopRunning
  \/ \E s \in Samples : Put(s) \/ EndTask(s) \/ FailTask(s)

RollouterNext == Processor \/ Others
=============================================================================
