--------------------------- MODULE FullyAsyncProofs ---------------------------
(***************************************************************************)
(* FullyAsync for any number of samples, any sizes and any order of the    *)
(* coroutines: the types, the bound on the samples taken on between two    *)
(* synchronizations of the weights, and what the end of the stream leaves. *)
(***************************************************************************)
EXTENDS FullyAsync, FiniteSetTheorems, TLAPS

---------------------------------------------------------------------------
\* Types

WaitPCs == {"drainWait", "slotWait", "finishWait"}

\* Who suspends under the lock keeps it.
LockHeld ==
  /\ pc \in WaitPCs => Holds("processor")
  /\ reset = "sizing" => Holds("reset")

\* The sample in hand is not the end signal.
HandTaken == pc \in {"slot", "slotWait"} => taken \in Samples

TypeInv == TypeOK /\ LockHeld /\ HandTaken

Coroutines == {"processor", "reset", "monitor"}

\* Whoever waits, enters or leaves, the lock stays a sequence of coroutines.
LEMMA LockTypes ==
  ASSUME lock \in Seq(Coroutines), NEW c \in Coroutines
  PROVE  /\ Append(lock, c) \in Seq(Coroutines)
         /\ lock # <<>> => Tail(lock) \in Seq(Coroutines)
         /\ Released(c) \in Seq(Coroutines)
         /\ Kept(c) \in Seq(Coroutines)
<1>1. <<c>> \in Seq(Coroutines)
  OBVIOUS
<1>2. lock # <<>> => Tail(lock) \in Seq(Coroutines)
  OBVIOUS
<1>3. QED
  BY <1>1, <1>2 DEF Released, Kept, Holds

\* Who waits comes behind the holder, who enters is the holder, and who leaves
\* without having suspended leaves it as it was.
LEMMA LockHolders ==
  ASSUME lock \in Seq(Coroutines), NEW c \in Coroutines, NEW d \in Coroutines
  PROVE  /\ GetsInLine(c) /\ Holds(d) => Holds(d)'
         /\ lock' = Kept(c) /\ Enters(c) => Holds(c)'
         /\ Enters(c) /\ Holds(d) => c = d
<1>1. lock # <<>> => Append(lock, c) # <<>> /\ Head(Append(lock, c)) = Head(lock)
  OBVIOUS
<1>2. <<c>> # <<>> /\ Head(<<c>>) = c
  OBVIOUS
<1>3. QED
  BY <1>1, <1>2 DEF GetsInLine, Holds, Kept, Enters

\* A put leaves the queue within its length.
LEMMA PutTypes ==
  ASSUME QueueTypeOK, NEW x \in Entries, PutSample(x)
  PROVE  QueueTypeOK'
<1> USE QueueAssumption DEF QueueTypeOK
<1>1. CASE Full
  <2>1. mq # <<>> /\ Len(mq) = MaxRequired
    BY <1>1 DEF Full
  <2>2. Tail(mq) \in Seq(Entries) /\ Len(Tail(mq)) = Len(mq) - 1 /\ Head(mq) \in Entries
    BY <2>1
  <2>3. QED
    BY <1>1, <2>1, <2>2 DEF PutSample
<1>2. CASE ~Full
  BY <1>2 DEF PutSample, Full
<1>3. QED
  BY <1>1, <1>2

\* The active tasks can be counted.
LEMMA ActiveFinite ==
  ASSUME RollouterTypeOK
  PROVE  IsFiniteSet(active)
<1>1. IsFiniteSet(Samples)
  BY QueueAssumption, FS_Interval DEF Samples
<1>2. QED
  BY <1>1, FS_Subset DEF RollouterTypeOK

\* No step of a coroutine of the rollouter leaves the types.
LEMMA RollouterTypes ==
  ASSUME TypeInv, RollouterNext, UNCHANGED <<trainerVars, serverVars>>
  PROVE  TypeInv'
<1> USE QueueAssumption, RollouterAssumption
    DEF TypeInv, TypeOK, RollouterTypeOK, LockHeld, HandTaken, queueVars,
        workVars, lockVars, callVars, lifeVars, loopVars, trainerVars, serverVars,
        Stages, WaitPCs
<1>1. /\ lock \in Seq(Coroutines)
      /\ \A c \in Coroutines : Append(lock, c) \in Seq(Coroutines)
      /\ lock # <<>> => Tail(lock) \in Seq(Coroutines)
      /\ \A c \in Coroutines : Released(c) \in Seq(Coroutines)
      /\ \A c \in Coroutines : Kept(c) \in Seq(Coroutines)
  BY LockTypes DEF Coroutines
<1>2. \A c, d \in Coroutines :
        /\ GetsInLine(c) /\ Holds(d) => Holds(d)'
        /\ lock' = Kept(c) /\ Enters(c) => Holds(c)'
        /\ Enters(c) /\ Holds(d) => c = d
  BY <1>1, LockHolders
<1>3. {"processor", "reset", "monitor"} = Coroutines
  BY DEF Coroutines
<1>4. /\ WaitOf["drain"] = "drainWait" /\ WaitOf["slot"] = "slotWait"
      /\ WaitOf["finish"] = "finishWait"
      /\ Loops = {"drain", "slot", "finish"}
      /\ \A l \in Loops : WaitOf[l] \in WaitPCs
  BY DEF WaitOf, Loops
<1>5. QueueTypeOK /\ (UNCHANGED queueVars => QueueTypeOK')
  BY DEF QueueTypeOK
<1>6. ProcessorPCs = {"top", "pause", "parked", "notified", "getting", "done", "raised",
                      "drain", "slot", "finish", "drainWait", "slotWait", "finishWait"}
  BY DEF ProcessorPCs, WaitOf, Loops
<1>7. QueueTypeOK' /\ RollouterTypeOK' /\ LockHeld' /\ HandTaken' => TypeInv'
  OBVIOUS
<1> USE <1>3, <1>5, <1>6
<1>8. ASSUME SeePause PROVE TypeInv'
  BY <1>8 DEF SeePause, Holds
<1>9. ASSUME Pause PROVE TypeInv'
  <2>1. lock' \in Seq(Coroutines)
    BY <1>1, <1>9 DEF Pause
  <2>2. pc' = "drain" /\ reset # "sizing"
    BY <1>2, <1>9 DEF Pause
  <2>3. LockHeld'
    BY <1>9, <2>2 DEF Pause
  <2>4. QED
    BY <1>9, <2>1, <2>2, <2>3 DEF Pause
<1>10. ASSUME AwaitSample PROVE TypeInv'
  BY <1>10 DEF AwaitSample, GoesOn, Holds
<1>11. ASSUME Take PROVE TypeInv'
  BY <1>11 DEF Take, GoesOn, Holds, Samples, None
<1>12. ASSUME Park PROVE TypeInv'
  <2>1. lock' \in Seq(Coroutines)
    BY <1>1, <1>12 DEF Park
  <2>2. pc' \in {"parked", "top"} /\ reset # "sizing"
    BY <1>2, <1>12 DEF Park
  <2>3. LockHeld'
    BY <1>2, <1>12, <2>2 DEF Park
  <2>4. QED
    BY <1>12, <2>1, <2>2, <2>3 DEF Park
<1>13. ASSUME Submit PROVE TypeInv'
  <2>1. lock' \in Seq(Coroutines)
    BY <1>1, <1>13 DEF Submit
  <2>2. pc' = "top" /\ reset # "sizing" /\ taken \in Samples
    BY <1>2, <1>13 DEF Submit
  <2>3. LockHeld'
    BY <1>2, <1>13, <2>2 DEF Submit
  <2>4. QED
    BY <1>13, <2>1, <2>2, <2>3 DEF Submit
<1>14. ASSUME Return PROVE TypeInv'
  BY <1>14 DEF Return, Holds
<1>15. ASSUME Queue PROVE TypeInv'
  <2>1. lock' \in Seq(Coroutines)
    BY <1>1, <1>15 DEF Queue, GetsInLine
  <2>2. pc \notin WaitPCs
    BY <1>15 DEF Queue
  <2>3. LockHeld'
    BY <1>2, <1>15, <2>2 DEF Queue
  <2>4. QED
    BY <1>15, <2>1, <2>2, <2>3 DEF Queue
<1>16. ASSUME NEW l \in Loops, AwaitTasks(l) PROVE TypeInv'
  <2>1. lock' \in Seq(Coroutines)
    BY <1>1, <1>4, <1>16 DEF AwaitTasks
  <2>2. /\ pc' \in WaitPCs /\ (pc' = "slotWait" => pc = "slot")
        /\ Holds("processor")' /\ reset # "sizing"
    BY <1>2, <1>4, <1>16 DEF AwaitTasks
  <2>3. LockHeld'
    BY <1>2, <1>4, <1>16, <2>2 DEF AwaitTasks
  <2>4. QED
    BY <1>4, <1>16, <2>1, <2>2, <2>3 DEF AwaitTasks
<1>17. ASSUME NEW l \in Loops, Reap(l) PROVE TypeInv'
  <2>1. lock' \in Seq(Coroutines)
    BY <1>1, <1>4, <1>17 DEF Reap, Holds
  <2>2. /\ pc' \in {"drain", "slot", "finish", "raised"}
        /\ (pc' = "slot" => pc = "slotWait")
        /\ lock # <<>> /\ reset # "sizing"
    BY <1>2, <1>4, <1>17 DEF Reap, Holds
  <2>3. LockHeld'
    BY <1>2, <1>4, <1>17, <2>2 DEF Reap, Holds
  <2>4. active' \subseteq Samples
    BY <1>4, <1>17 DEF Reap
  <2>5. TypeOK'
    BY <1>4, <1>17, <2>1, <2>2, <2>4 DEF Reap
  <2>6. HandTaken'
    BY <1>4, <1>17, <2>2 DEF Reap
  <2>7. QED
    BY <2>3, <2>5, <2>6
<1>18. ASSUME Feed PROVE TypeInv'
  BY <1>18 DEF Feed, None, Samples, Holds
<1>19. ASSUME EnterReset PROVE TypeInv'
  <2>1. Cardinality(active) \in Nat
    BY ActiveFinite, FS_CardinalityType
  <2>2. lock' \in Seq(Coroutines)
    BY <1>1, <1>19 DEF EnterReset
  <2>3. pc' \in ProcessorPCs \ WaitPCs /\ (pc' = "slot" => pc = "slot")
    <3>1. pc \notin WaitPCs
      BY <1>2, <1>19 DEF EnterReset
    <3>2. QED
      BY <1>19, <3>1 DEF EnterReset, Notified
  <2>4. LockHeld'
    BY <1>2, <1>19, <2>3 DEF EnterReset
  <2>5. QED
    <3>1. RollouterTypeOK'
      BY <1>19, <2>1, <2>2, <2>3 DEF EnterReset
    <3>2. HandTaken'
      BY <1>19, <2>3 DEF EnterReset
    <3>3. QED
      BY <1>7, <1>19, <2>4, <3>1, <3>2 DEF EnterReset
<1>20. ASSUME QueueReset PROVE TypeInv'
  <2>1. lock' \in Seq(Coroutines)
    BY <1>1, <1>20 DEF QueueReset, GetsInLine
  <2>2. pc \in WaitPCs => Holds("processor")'
    BY <1>2, <1>20 DEF QueueReset
  <2>3. LockHeld'
    BY <1>2, <1>20, <2>2 DEF QueueReset
  <2>4. QED
    BY <1>20, <2>1, <2>2, <2>3 DEF QueueReset
<1>21. ASSUME EndReset PROVE TypeInv'
  <2>1. Len(mq) \in Nat
    BY DEF QueueTypeOK
  <2>2. QED
    BY <1>21, <2>1 DEF EndReset, Holds
<1>22. ASSUME Recover PROVE TypeInv'
  <2>1. lock' \in Seq(Coroutines)
    BY <1>1, <1>22 DEF Recover, Notified
  <2>2. /\ pc' \in ProcessorPCs \ WaitPCs /\ (pc' = "slot" => pc = "slot")
        /\ reset # "sizing"
    BY <1>2, <1>22 DEF Recover, Notified
  <2>3. LockHeld'
    BY <1>2, <1>22, <2>2 DEF Recover, Notified
  <2>4. QED
    <3>1. RollouterTypeOK'
      BY <1>22, <2>1, <2>2 DEF Recover
    <3>2. HandTaken'
      BY <1>22, <2>2 DEF Recover
    <3>3. QED
      BY <1>7, <1>22, <2>3, <3>1, <3>2 DEF Recover
<1>23. ASSUME QueueMonitor PROVE TypeInv'
  <2>1. lock' \in Seq(Coroutines)
    BY <1>1, <1>23 DEF QueueMonitor, GetsInLine
  <2>2. /\ pc \in WaitPCs => Holds("processor")'
        /\ reset = "sizing" => Holds("reset")'
    BY <1>2, <1>23 DEF QueueMonitor
  <2>3. LockHeld'
    BY <1>2, <1>23, <2>2 DEF QueueMonitor
  <2>4. QED
    BY <1>23, <2>1, <2>2, <2>3 DEF QueueMonitor
<1>24. ASSUME Watch PROVE TypeInv'
  BY <1>24 DEF Watch, Holds
<1>25. ASSUME EndMonitor PROVE TypeInv'
  BY <1>25 DEF EndMonitor, Holds
<1>26. ASSUME StopRunning PROVE TypeInv'
  <2>1. RollouterTypeOK'
    BY <1>26 DEF StopRunning
  <2>2. LockHeld'
    BY <1>26 DEF StopRunning, Holds
  <2>3. QED
    BY <1>7, <1>26, <2>1, <2>2 DEF StopRunning
<1>27. ASSUME Close PROVE TypeInv'
  <2>1. QueueTypeOK'
    BY <1>27, PutTypes DEF Close, Holds, Entries
  <2>2. QED
    BY <1>27, <2>1 DEF Close, Holds
<1>28. ASSUME NEW s \in Samples, Put(s) PROVE TypeInv'
  <2>1. QueueTypeOK'
    BY <1>28, PutTypes DEF Put, Holds, Entries
  <2>2. QED
    BY <1>28, <2>1 DEF Put, Holds
<1>29. ASSUME NEW s \in Samples, EndTask(s) PROVE TypeInv'
  BY <1>29 DEF EndTask, Holds
<1>30. ASSUME NEW s \in Samples, FailTask(s) PROVE TypeInv'
  BY <1>30 DEF FailTask, Holds
<1>31. QED
  BY <1>8, <1>9, <1>10, <1>11, <1>12, <1>13, <1>14, <1>15, <1>16, <1>17, <1>18,
     <1>19, <1>20, <1>21, <1>22, <1>23, <1>24, <1>25, <1>26, <1>27, <1>28, <1>29, <1>30
     DEF RollouterNext, Processor, Others

\* Nor does a step of the servers or the trainer.
LEMMA TrainerTypes ==
  ASSUME TypeInv, Trainer \/ \E s \in Samples : Generate(s) \/ SendAgain(s)
  PROVE  TypeInv'
<1> USE QueueAssumption, TrainerAssumption
    DEF TypeInv, TypeOK, RollouterTypeOK, QueueTypeOK, LockHeld, HandTaken, Holds,
        queueVars, workVars, lockVars, callVars, lifeVars, loopVars, trainerVars,
        serverVars, Stages
<1>1. ASSUME NEW s \in Samples, Generate(s) \/ SendAgain(s) PROVE TypeInv'
  <2>1. CASE Generate(s)
    BY <2>1 DEF Generate
  <2>2. CASE SendAgain(s)
    BY <2>2 DEF SendAgain
  <2>3. QED
    BY <1>1, <2>1, <2>2
<1>2. ASSUME Abort PROVE TypeInv'
  BY <1>2 DEF Abort
<1>3. ASSUME Load PROVE TypeInv'
  BY <1>3 DEF Load, PausedAfterLoad
<1>4. ASSUME Collect PROVE TypeInv'
  <2>1. PICK x \in Entries : /\ GetSample(x)
                             /\ batch' = IF x = None THEN <<>> ELSE Append(batch, x)
    BY <1>4 DEF Collect
  <2>2. mq' \in Seq(Entries) /\ Len(mq') <= MaxRequired /\ UNCHANGED dropped
    BY <2>1 DEF GetSample
  <2>3. batch' \in Seq(Samples)
    BY <2>1 DEF Entries
  <2>4. QED
    <3>1. TypeOK'
      BY <1>4, <2>2, <2>3 DEF Collect
    <3>2. LockHeld' /\ HandTaken'
      BY <1>4 DEF Collect
    <3>3. QED
      BY <3>1, <3>2
<1>5. ASSUME Train PROVE TypeInv'
  BY <1>5 DEF Train
<1>6. ASSUME Save PROVE TypeInv'
  BY <1>6 DEF Save
<1>7. ASSUME Stop PROVE TypeInv'
  BY <1>7 DEF Stop
<1>8. QED
  BY <1>1, <1>2, <1>3, <1>4, <1>5, <1>6, <1>7 DEF Trainer

\* The types hold in every state.
LEMMA TypeInvariant == Spec => []TypeInv
<1>1. Init => TypeInv
  <2> SUFFICES ASSUME Init PROVE TypeInv
    OBVIOUS
  <2>1. QueueTypeOK
    BY QueueAssumption DEF Init, QueueInit, QueueTypeOK
  <2>2. RollouterTypeOK
    <3>1. 0 \in 0..None /\ 0 \in 0..0 /\ <<>> \in Seq({"processor", "reset", "monitor"})
      BY QueueAssumption DEF None
    <3>2. [s \in Samples |-> "none"] \in [Samples -> Stages]
      BY DEF Stages
    <3>3. QED
      BY <3>1, <3>2 DEF Init, RollouterInit, RollouterTypeOK, ProcessorPCs
  <2>3. TypeOK
    <3>1. 1 \in 1..TriggerSteps /\ <<>> \in Seq(Samples)
      BY TrainerAssumption
    <3>2. QED
      BY <2>1, <2>2, <3>1 DEF Init, TypeOK
  <2>4. LockHeld /\ HandTaken
    BY DEF Init, RollouterInit, LockHeld, HandTaken, WaitPCs
  <2>5. QED
    BY <2>3, <2>4 DEF TypeInv
<1>2. TypeInv /\ [Next]_vars => TypeInv'
  <2> SUFFICES ASSUME TypeInv, [Next]_vars PROVE TypeInv'
    OBVIOUS
  <2>1. CASE Trainer \/ \E s \in Samples : Generate(s) \/ SendAgain(s)
    BY <2>1, TrainerTypes
  <2>2. CASE RollouterNext /\ UNCHANGED <<trainerVars, serverVars>>
    BY <2>2, RollouterTypes
  <2>3. CASE UNCHANGED vars
    BY <2>3 DEF vars, TypeInv, TypeOK, QueueTypeOK, RollouterTypeOK, LockHeld,
                HandTaken, Holds, queueVars,
                loopVars, workVars, lockVars, callVars, lifeVars, trainerVars, serverVars
  <2>4. QED
    BY <2>1, <2>2, <2>3 DEF Next, AtRest
<1>3. QED
  BY <1>1, <1>2, PTL DEF Spec

\* The state of the pipeline keeps its types: the queue stays within
\* max_required_samples, whoever puts, and no step of a coroutine loses the lock.
THEOREM AsyncTypeCorrect == Spec => []TypeOK
<1>1. TypeInv => TypeOK
  BY DEF TypeInv
<1>2. QED
  BY <1>1, TypeInvariant, PTL

---------------------------------------------------------------------------
\* The structure of the state

\* What the places of the trainer say of its batch and of the call it waits for.
Phases ==
  /\ tpc = "collect" => Len(batch) < RequiredSamples
  /\ tpc = "train" => Len(batch) = RequiredSamples
  /\ tpc \notin {"collect", "train"} => batch = <<>>
  /\ tpc \in {"sync", "load"} => localStep = 1
  /\ stopping => tpc \notin {"collect", "train"}
  /\ tpc = "stop" => stopping
  /\ reset # "idle" => tpc = "save" /\ localStep = 1

\* A sample has a task once it is submitted, and a task that goes on is active.
Tasks ==
  /\ \A s \in Samples : s > taken => stage[s] = "none"
  /\ pc \in {"slot", "slotWait"} => stage[taken] = "none"
  /\ \A s \in Samples : stage[s] \in {"generating", "aborted", "generated"} => s \in active

\* A sample is in the queue at most once, and after its generation.
QueuedOnce ==
  /\ \A i, j \in 1..Len(mq) : mq[i] = mq[j] /\ mq[i] # None => i = j
  /\ \A i \in 1..Len(mq) : mq[i] # None => stage[mq[i]] \in {"queued", "done"}

\* While reset_staleness asks the queue for its size, no task is submitted or
\* reaped.
Sized == reset = "sizing" => sized = Cardinality(active)

StructInv == TypeInv /\ Phases /\ Tasks /\ QueuedOnce /\ Sized

\* The trainer keeps its phases, and nobody else disturbs them.
LEMMA PhasesStep ==
  ASSUME TypeInv, Phases, [Next]_vars
  PROVE  Phases'
<1> USE TrainerAssumption DEF TypeInv, TypeOK, Phases
<1>1. ASSUME Abort PROVE Phases'
  BY <1>1 DEF Abort, lockVars, lifeVars, callVars
<1>2. ASSUME Load PROVE Phases'
  BY <1>2 DEF Load
<1>3. ASSUME Collect PROVE Phases'
  <2>1. PICK x \in Entries :
          /\ stopping' = (x = None)
          /\ batch' = IF x = None THEN <<>> ELSE Append(batch, x)
          /\ tpc' = CASE x = None                      -> "stop"
                      [] Len(batch') = RequiredSamples -> "train"
                      [] OTHER                         -> "collect"
    BY <1>3 DEF Collect
  <2>2. /\ tpc = "collect" /\ UNCHANGED <<localStep, reset>>
    BY <1>3 DEF Collect, loopVars, callVars
  <2>3. CASE x = None
    BY <2>1, <2>2, <2>3
  <2>4. CASE x # None
    <3>1. batch' = Append(batch, x) /\ Len(batch') = Len(batch) + 1 /\ Len(batch) \in Nat
      BY <2>1, <2>4
    <3>2. tpc' = IF Len(batch') = RequiredSamples THEN "train" ELSE "collect"
      BY <2>1, <2>4
    <3>3. ~stopping'
      BY <2>1, <2>4
    <3>4. QED
      BY <2>2, <3>1, <3>2, <3>3
  <2>5. QED
    BY <2>3, <2>4
<1>4. ASSUME Train PROVE Phases'
  BY <1>4 DEF Train, loopVars, callVars
<1>5. ASSUME Save PROVE Phases'
  BY <1>5 DEF Save, loopVars, callVars
<1>6. ASSUME Stop PROVE Phases'
  BY <1>6 DEF Stop, loopVars, callVars
<1>7. ASSUME NEW s \in Samples, Generate(s) \/ SendAgain(s) PROVE Phases'
  BY <1>7 DEF Generate, SendAgain, trainerVars, callVars
<1>8. ASSUME RollouterNext, UNCHANGED <<trainerVars, serverVars>> PROVE Phases'
  <2>1. reset' # "idle" => reset # "idle"
    BY <1>8 DEF RollouterNext, Processor, Others, SeePause, Pause, Take, AwaitSample,
         Park, Submit, Return, Queue, AwaitTasks, Reap, Feed, EnterReset, QueueReset,
         EndReset, Recover, QueueMonitor, Watch, EndMonitor, Close, StopRunning, Put,
         EndTask, FailTask, callVars, loopVars
  <2>2. QED
    BY <1>8, <2>1 DEF trainerVars
<1>9. ASSUME UNCHANGED vars PROVE Phases'
  BY <1>9 DEF vars, trainerVars, loopVars, callVars
<1>10. QED
  BY <1>1, <1>2, <1>3, <1>4, <1>5, <1>6, <1>7, <1>8, <1>9 DEF Next, Trainer, AtRest

\* What a put adds to the queue is the entry that is put.
LEMMA PutEntries ==
  ASSUME QueueTypeOK, NEW x \in Entries, PutSample(x)
  PROVE  \E d \in {0, 1} :
           /\ Len(mq') = Len(mq) - d + 1
           /\ d <= Len(mq)
           /\ \A i \in 1..(Len(mq') - 1) : mq'[i] = mq[i + d]
           /\ mq'[Len(mq')] = x
<1> USE QueueAssumption DEF QueueTypeOK
<1>1. CASE Full
  <2>1. mq # <<>> /\ mq' = Append(Tail(mq), x)
    BY <1>1 DEF Full, PutSample
  <2>2. /\ Tail(mq) \in Seq(Entries) /\ Len(Tail(mq)) = Len(mq) - 1 /\ Len(mq) >= 1
        /\ \A i \in 1..(Len(mq) - 1) : Tail(mq)[i] = mq[i + 1]
    BY <2>1
  <2>3. /\ Len(mq') = Len(mq)
        /\ \A i \in 1..(Len(mq) - 1) : mq'[i] = mq[i + 1]
        /\ mq'[Len(mq)] = x
    BY <2>1, <2>2
  <2>4. Len(mq') = Len(mq) - 1 + 1 /\ 1 \in {0, 1} /\ 1 <= Len(mq)
    BY <2>2, <2>3
  <2>5. QED
    BY <2>3, <2>4
<1>2. CASE ~Full
  BY <1>2 DEF PutSample, Full
<1>3. QED
  BY <1>1, <1>2

\* A put of an entry that is not in the queue, or of the end signal, keeps what is
\* in the queue distinct.
LEMMA PutOnce ==
  ASSUME TypeInv, QueuedOnce, NEW x \in Entries, PutSample(x),
         stage' \in [Samples -> Stages],
         \A s \in Samples : stage[s] \in {"queued", "done"} =>
                              stage'[s] \in {"queued", "done"},
         x # None => /\ stage[x] \notin {"queued", "done"}
                     /\ stage'[x] \in {"queued", "done"}
  PROVE  QueuedOnce'
<1> USE DEF QueuedOnce
<1>1. QueueTypeOK
  BY DEF TypeInv, TypeOK
<1>2. PICK d \in {0, 1} :
        /\ Len(mq') = Len(mq) - d + 1
        /\ d <= Len(mq)
        /\ \A i \in 1..(Len(mq') - 1) : mq'[i] = mq[i + d]
        /\ mq'[Len(mq')] = x
  BY <1>1, PutEntries
<1>3. /\ Len(mq) \in Nat
      /\ \A i \in 1..Len(mq) : mq[i] \in Entries
  BY <1>1 DEF QueueTypeOK
<1>4. \A i \in 1..(Len(mq') - 1) : i + d \in 1..Len(mq) /\ mq'[i] = mq[i + d]
  BY <1>2, <1>3
<1>5. \A i \in 1..(Len(mq') - 1) :
        mq'[i] # None => mq'[i] \in Samples /\ stage[mq'[i]] \in {"queued", "done"}
  BY <1>3, <1>4 DEF Entries
<1>6. ASSUME NEW i \in 1..Len(mq'), mq'[i] # None
      PROVE  stage'[mq'[i]] \in {"queued", "done"}
  <2>1. CASE i = Len(mq')
    BY <1>2, <1>6, <2>1
  <2>2. CASE i # Len(mq')
    BY <1>2, <1>3, <1>5, <1>6, <2>2
  <2>3. QED
    BY <2>1, <2>2
<1>7. ASSUME NEW i \in 1..Len(mq'), NEW j \in 1..Len(mq'),
             mq'[i] = mq'[j], mq'[i] # None
      PROVE  i = j
  <2>1. CASE i < Len(mq') /\ j < Len(mq')
    <3>1. i \in 1..(Len(mq') - 1) /\ j \in 1..(Len(mq') - 1)
      BY <1>2, <1>3, <2>1
    <3>2. i + d = j + d
      BY <1>4, <1>7, <3>1
    <3>3. i \in Int /\ j \in Int /\ d \in Int
      BY <3>1
    <3>4. QED
      BY <3>2, <3>3
  <2>2. CASE i = Len(mq') /\ j < Len(mq')
    <3>1. j \in 1..(Len(mq') - 1)
      BY <1>2, <1>3, <2>2
    <3>2. QED
      BY <1>2, <1>5, <1>7, <2>2, <3>1
  <2>3. CASE j = Len(mq') /\ i < Len(mq')
    <3>1. i \in 1..(Len(mq') - 1)
      BY <1>2, <1>3, <2>3
    <3>2. QED
      BY <1>2, <1>5, <1>7, <2>3, <3>1
  <2>4. /\ i \in Int /\ j \in Int /\ Len(mq') \in Int
        /\ i <= Len(mq') /\ j <= Len(mq')
    BY <1>2, <1>3
  <2>5. QED
    BY <2>1, <2>2, <2>3, <2>4
<1>8. QED
  BY <1>6, <1>7

\* No sample enters the queue twice.
LEMMA QueuedOnceStep ==
  ASSUME StructInv, TypeInv', [Next]_vars
  PROVE  QueuedOnce'
<1> USE DEF StructInv
<1>1. QueueTypeOK /\ stage \in [Samples -> Stages] /\ stage' \in [Samples -> Stages]
  BY DEF TypeInv, TypeOK, RollouterTypeOK
<1>2. /\ Len(mq) \in Nat
      /\ \A i \in 1..Len(mq) : mq[i] \in Samples \/ mq[i] = None
  BY <1>1 DEF QueueTypeOK, Entries
<1>3. ASSUME mq' = mq, \A s \in Samples : stage[s] \in {"queued", "done"} =>
                                            stage'[s] \in {"queued", "done"}
      PROVE  QueuedOnce'
  BY <1>2, <1>3 DEF QueuedOnce
<1>4. ASSUME NEW s \in Samples, Put(s) PROVE QueuedOnce'
  BY <1>1, <1>4, PutOnce DEF Put, Entries, Stages
<1>5. ASSUME Close PROVE QueuedOnce'
  BY <1>1, <1>5, PutOnce DEF Close, Entries
<1>6. ASSUME Collect PROVE QueuedOnce'
  <2>1. mq # <<>> /\ mq' = Tail(mq) /\ stage' = stage
    BY <1>6 DEF Collect, GetSample, loopVars
  <2>2. /\ Len(mq') = Len(mq) - 1
        /\ \A i \in 1..Len(mq') : mq'[i] = mq[i + 1]
    BY <1>1, <2>1 DEF QueueTypeOK
  <2>3. \A i \in 1..Len(mq') : i + 1 \in 1..Len(mq)
    BY <1>2, <2>2
  <2>4. ASSUME NEW i \in 1..Len(mq'), NEW j \in 1..Len(mq'),
               mq'[i] = mq'[j], mq'[i] # None
        PROVE  i = j
    <3>1. i + 1 = j + 1
      BY <2>2, <2>3, <2>4 DEF QueuedOnce
    <3>2. QED
      BY <3>1
  <2>5. QED
    BY <2>1, <2>2, <2>3, <2>4 DEF QueuedOnce
<1>7. ASSUME NEW s \in Samples, EndTask(s) \/ FailTask(s) \/ Generate(s) \/ SendAgain(s)
      PROVE  QueuedOnce'
  BY <1>1, <1>3, <1>7 DEF EndTask, FailTask, Generate, SendAgain, queueVars
<1>8. ASSUME Abort PROVE QueuedOnce'
  BY <1>1, <1>3, <1>8 DEF Abort, queueVars
<1>9. ASSUME Load \/ Train \/ Save \/ Stop PROVE QueuedOnce'
  BY <1>3, <1>9 DEF Load, Train, Save, Stop, queueVars, loopVars
<1>10. ASSUME Submit PROVE QueuedOnce'
  <2>1. stage[taken] = "none" /\ taken \in Samples
    BY <1>10 DEF Submit, Tasks, TypeInv, HandTaken
  <2>2. QED
    BY <1>1, <1>3, <1>10, <2>1 DEF Submit, queueVars
<1>11. ASSUME \/ SeePause \/ Pause \/ Take \/ AwaitSample \/ Park \/ Return \/ Queue
              \/ \E l \in Loops : AwaitTasks(l) \/ Reap(l)
       PROVE  QueuedOnce'
  BY <1>3, <1>11 DEF SeePause, Pause, Take, AwaitSample, Park, Return, Queue,
                     AwaitTasks, Reap, queueVars
<1>12. ASSUME \/ Feed \/ EnterReset \/ QueueReset \/ EndReset \/ Recover
              \/ QueueMonitor \/ Watch \/ EndMonitor \/ StopRunning
       PROVE  QueuedOnce'
  BY <1>3, <1>12 DEF Feed, EnterReset, QueueReset, EndReset, Recover, QueueMonitor,
                     Watch, EndMonitor, StopRunning, queueVars, loopVars
<1>13. ASSUME UNCHANGED vars PROVE QueuedOnce'
  BY <1>3, <1>13 DEF vars, queueVars, loopVars
<1>14. QED
  BY <1>4, <1>5, <1>6, <1>7, <1>8, <1>9, <1>10, <1>11, <1>12, <1>13
     DEF Next, Trainer, RollouterNext, Processor, Others, AtRest

\* A task begins when its sample is submitted, and is active until it has ended.
LEMMA TasksStep ==
  ASSUME StructInv, TypeInv', [Next]_vars
  PROVE  Tasks'
<1> USE DEF StructInv
<1>1. /\ stage \in [Samples -> Stages] /\ active \subseteq Samples
      /\ taken \in Nat /\ Samples \subseteq Nat
  <2>1. stage \in [Samples -> Stages] /\ active \subseteq Samples
    BY DEF TypeInv, TypeOK, RollouterTypeOK
  <2>2. fed \in 0..None /\ taken \in 0..fed
    BY DEF TypeInv, TypeOK, RollouterTypeOK
  <2>3. Samples \subseteq Nat /\ None \in Nat
    BY QueueAssumption DEF Samples, None
  <2>4. QED
    BY <2>1, <2>2, <2>3
<1>2. ASSUME stage' = stage, active' = active, taken' = taken,
             pc' \in {"slot", "slotWait"} => pc \in {"slot", "slotWait"}
      PROVE  Tasks'
  BY <1>2 DEF Tasks
<1>3. ASSUME NEW s \in Samples,
             Put(s) \/ EndTask(s) \/ FailTask(s) \/ Generate(s) \/ SendAgain(s)
      PROVE  Tasks'
  <2>1. /\ UNCHANGED <<taken, pc, active>>
        /\ stage[s] \in {"generating", "aborted", "generated", "queued"}
        /\ \E v \in {"queued", "done", "failed", "generated", "generating"} :
             /\ stage' = [stage EXCEPT ![s] = v]
             /\ v \in {"generated", "generating"} =>
                               stage[s] \in {"generating", "aborted"}
    BY <1>3 DEF Put, EndTask, FailTask, Generate, SendAgain, workVars
  <2>2. \A t \in Samples : stage[t] = "none" => stage'[t] = "none"
    BY <1>1, <2>1
  <2>3. \A t \in Samples : stage'[t] \in {"generating", "aborted", "generated"} =>
                             stage[t] \in {"generating", "aborted", "generated"}
    BY <1>1, <2>1
  <2>4. QED
    BY <2>1, <2>2, <2>3 DEF Tasks, TypeInv, HandTaken
<1>4. ASSUME Abort PROVE Tasks'
  <2>1. /\ UNCHANGED <<taken, pc, active>>
        /\ \A t \in Samples : stage[t] = "none" => stage'[t] = "none"
        /\ \A t \in Samples : stage'[t] \in {"generating", "aborted", "generated"} =>
                                stage[t] \in {"generating", "aborted", "generated"}
    BY <1>1, <1>4 DEF Abort, workVars
  <2>2. QED
    BY <2>1 DEF Tasks, TypeInv, HandTaken
<1>5. ASSUME Load \/ Collect \/ Train \/ Save \/ Stop PROVE Tasks'
  BY <1>2, <1>5 DEF Load, Collect, Train, Save, Stop, loopVars, workVars
<1>6. ASSUME Take PROVE Tasks'
  <2>1. UNCHANGED <<stage, active>> /\ taken' = taken + 1
    BY <1>6 DEF Take
  <2>2. pc' \in {"slot", "slotWait"} => taken' \in Samples
    BY <1>6 DEF TypeInv, HandTaken
  <2>3. QED
    BY <1>1, <2>1, <2>2 DEF Tasks
<1>7. ASSUME Submit PROVE Tasks'
  <2>1. /\ taken \in Samples /\ taken' = taken /\ pc' = "top"
        /\ active' = active \cup {taken}
        /\ stage' = [stage EXCEPT ![taken] = "generating"]
    BY <1>7 DEF Submit, TypeInv, HandTaken
  <2>2. QED
    BY <1>1, <2>1 DEF Tasks
<1>8. ASSUME NEW l \in Loops, Reap(l) PROVE Tasks'
  <2>1. /\ UNCHANGED <<stage, taken>> /\ active' = {s \in active : ~Finished(s)}
        /\ pc' \in {"slot", "slotWait"} => pc \in {"slot", "slotWait"}
    BY <1>8 DEF Reap, WaitOf, Loops
  <2>2. \A s \in Samples : stage[s] \in {"generating", "aborted", "generated"} => s \in active'
    BY <2>1 DEF Tasks, Finished
  <2>3. QED
    BY <2>1, <2>2 DEF Tasks
<1>9. ASSUME NEW l \in Loops, AwaitTasks(l) PROVE Tasks'
  <2>1. pc' \in {"slot", "slotWait"} => pc \in {"slot", "slotWait"}
    BY <1>9 DEF AwaitTasks, WaitOf, Loops
  <2>2. QED
    BY <1>2, <1>9, <2>1 DEF AwaitTasks
<1>10. ASSUME SeePause \/ Pause \/ AwaitSample \/ Park \/ Return \/ Queue
       PROVE  Tasks'
  BY <1>2, <1>10 DEF SeePause, Pause, AwaitSample, Park, Return, Queue, workVars
<1>11. ASSUME \/ Feed \/ EnterReset \/ QueueReset \/ EndReset \/ Recover
              \/ QueueMonitor \/ Watch \/ EndMonitor \/ StopRunning \/ Close
       PROVE  Tasks'
  BY <1>2, <1>11 DEF Feed, EnterReset, QueueReset, EndReset, Recover, QueueMonitor,
                     Watch, EndMonitor, StopRunning, Close, loopVars, workVars,
                     Notified
<1>12. ASSUME UNCHANGED vars PROVE Tasks'
  BY <1>2, <1>12 DEF vars, loopVars, workVars
<1>13. QED
  BY <1>3, <1>4, <1>5, <1>6, <1>7, <1>8, <1>9, <1>10, <1>11, <1>12
     DEF Next, Trainer, RollouterNext, Processor, Others, AtRest

\* Only a holder of the lock changes the tasks, and reset_staleness holds it.
LEMMA SizedStep ==
  ASSUME StructInv, [Next]_vars
  PROVE  Sized'
<1> USE DEF StructInv
<1>1. ASSUME UNCHANGED <<active, sized>>, reset' = "sizing" => reset = "sizing"
      PROVE  Sized'
  BY <1>1 DEF Sized
<1>2. reset = "sizing" => ~Enters("processor")
  BY DEF TypeInv, LockHeld, Holds, Enters
<1>3. ASSUME NEW l \in Loops, Reap(l) PROVE Sized'
  <2>1. reset # "sizing" /\ reset' = reset
    BY <1>2, <1>3 DEF Reap, TypeInv, LockHeld, Holds, Enters, WaitPCs, WaitOf, Loops,
                      callVars
  <2>2. QED
    BY <2>1 DEF Sized
<1>4. ASSUME Submit PROVE Sized'
  BY <1>2, <1>4 DEF Submit, Sized, callVars
<1>5. ASSUME EnterReset PROVE Sized'
  BY <1>5 DEF EnterReset, Sized
<1>6. ASSUME EndReset \/ QueueReset PROVE Sized'
  BY <1>6 DEF EndReset, QueueReset, Sized
<1>7. ASSUME Load PROVE Sized'
  BY <1>7 DEF Load, Sized
<1>8. ASSUME Abort \/ Collect \/ Train \/ Save \/ Stop \/ \E s \in Samples : Generate(s) \/ SendAgain(s)
      PROVE  Sized'
  BY <1>1, <1>8 DEF Abort, Collect, Train, Save, Stop, Generate, SendAgain, loopVars, workVars,
                    callVars
<1>9. ASSUME \/ SeePause \/ Pause \/ Take \/ AwaitSample \/ Park \/ Return \/ Queue
             \/ \E l \in Loops : AwaitTasks(l)
       PROVE  Sized'
  BY <1>1, <1>9 DEF SeePause, Pause, Take, AwaitSample, Park, Return, Queue,
                    AwaitTasks, workVars, callVars
<1>10. ASSUME \/ Feed \/ Recover \/ QueueMonitor \/ Watch \/ EndMonitor
              \/ StopRunning \/ Close
              \/ \E s \in Samples : Put(s) \/ EndTask(s) \/ FailTask(s)
       PROVE  Sized'
  BY <1>1, <1>10 DEF Feed, Recover, QueueMonitor, Watch, EndMonitor, StopRunning,
                     Close, Put, EndTask, FailTask, loopVars, workVars, callVars
<1>11. ASSUME UNCHANGED vars PROVE Sized'
  BY <1>1, <1>11 DEF vars, loopVars, workVars, callVars
<1>12. QED
  BY <1>3, <1>4, <1>5, <1>6, <1>7, <1>8, <1>9, <1>10, <1>11
     DEF Next, Trainer, RollouterNext, Processor, Others, AtRest

\* The structure holds in every state.
LEMMA StructInvariant == Spec => []StructInv
<1>1. Init => Phases /\ Tasks /\ QueuedOnce /\ Sized
  <2> SUFFICES ASSUME Init PROVE Phases /\ Tasks /\ QueuedOnce /\ Sized
    OBVIOUS
  <2>1. Phases
    BY TrainerAssumption DEF Init, RollouterInit, Phases
  <2>2. Tasks /\ QueuedOnce /\ Sized
    BY DEF Init, RollouterInit, QueueInit, Tasks, QueuedOnce, Sized
  <2>3. QED
    BY <2>1, <2>2
<1>2. TypeInv /\ TypeInv' /\ (Phases /\ Tasks /\ QueuedOnce /\ Sized) /\ [Next]_vars
        => (Phases /\ Tasks /\ QueuedOnce /\ Sized)'
  BY PhasesStep, QueuedOnceStep, TasksStep, SizedStep DEF StructInv
<1>3. QED
  BY <1>1, <1>2, TypeInvariant, PTL DEF Spec, StructInv

---------------------------------------------------------------------------
\* The samples under way

\* The samples taken on since the last synchronization.
Underway == Cardinality(Backlog) + Consumed

\* They are counted but for the sample in hand, and the processor waits for a new
\* one only below the limit.
Counted ==
  /\ Underway <= staleness + 1
  /\ pc = "getting" => Underway <= MaxRequired
  /\ Underway <= MaxRequired + 1

\* So can the samples under way.
LEMMA BacklogFinite ==
  ASSUME TypeInv
  PROVE  IsFiniteSet(Backlog) /\ Cardinality(Backlog) \in Nat
<1>1. IsFiniteSet(Samples)
  BY QueueAssumption, FS_Interval DEF Samples
<1>2. EntriesOf(mq) \subseteq Entries
  BY DEF TypeInv, TypeOK, QueueTypeOK, EntriesOf
<1>3. Backlog \subseteq Samples
  BY <1>2 DEF Backlog, Hand, TypeInv, HandTaken, Entries
<1>4. IsFiniteSet(Backlog)
  BY <1>1, <1>3, FS_Subset
<1>5. QED
  BY <1>4, FS_CardinalityType

\* A smaller backlog has fewer samples.
LEMMA BacklogSmaller ==
  ASSUME TypeInv, NEW B, B \subseteq Backlog
  PROVE  IsFiniteSet(B) /\ Cardinality(B) \in Nat /\ Cardinality(B) <= Cardinality(Backlog)
BY BacklogFinite, FS_Subset, FS_CardinalityType

\* The queue holds no more samples than it is long.
LEMMA QueueBound ==
  ASSUME QueueTypeOK
  PROVE  /\ IsFiniteSet(EntriesOf(mq))
         /\ Cardinality(EntriesOf(mq)) <= Len(mq)
<1>1. Len(mq) \in Nat /\ mq \in [1..Len(mq) -> EntriesOf(mq)]
  BY DEF QueueTypeOK, EntriesOf
<1>2. mq \in Surjection(1..Len(mq), EntriesOf(mq))
  BY <1>1 DEF Surjection, EntriesOf
<1>3. IsFiniteSet(1..Len(mq)) /\ Cardinality(1..Len(mq)) = Len(mq)
  <2>1. \A n \in Nat : IsFiniteSet(1..n) /\ Cardinality(1..n) = n
    BY FS_Interval
  <2>2. QED
    BY <1>1, <2>1
<1>4. QED
  BY <1>2, <1>3, FS_Surjection

\* What was consumed is a whole version, or the local updates and the samples
\* gathered since.
LEMMA ConsumedCases ==
  /\ stopping => Consumed = 0
  /\ ~stopping /\ (tpc \in {"sync", "load"} \/ reset # "idle") =>
       Consumed = RequiredSamples * TriggerSteps
  /\ ~stopping /\ tpc \notin {"sync", "load"} /\ reset = "idle" =>
       Consumed = (localStep - 1) * RequiredSamples + Len(batch)
BY DEF Consumed

\* The same in the next state.
LEMMA ConsumedCasesNext ==
  /\ stopping' => Consumed' = 0
  /\ ~stopping' /\ (tpc' \in {"sync", "load"} \/ reset' # "idle") =>
       Consumed' = RequiredSamples * TriggerSteps
  /\ ~stopping' /\ tpc' \notin {"sync", "load"} /\ reset' = "idle" =>
       Consumed' = (localStep' - 1) * RequiredSamples + Len(batch')
BY DEF Consumed

\* The arithmetic of whole local updates.
LEMMA ProductFacts ==
  ASSUME NEW k \in Nat, NEW r \in Nat
  PROVE  /\ k * r \in Nat
         /\ (k + 1) * r = k * r + r
         /\ 0 * r = 0
         /\ k * r = r * k
OBVIOUS

\* What was consumed is a number.
LEMMA ConsumedType ==
  ASSUME TypeInv
  PROVE  Consumed \in Nat
<1>1. /\ RequiredSamples \in Nat /\ TriggerSteps \in Nat
      /\ localStep - 1 \in Nat /\ Len(batch) \in Nat
  BY TrainerAssumption DEF TypeInv, TypeOK
<1>2. /\ RequiredSamples * TriggerSteps \in Nat
      /\ (localStep - 1) * RequiredSamples \in Nat
  BY <1>1, ProductFacts
<1>3. (localStep - 1) * RequiredSamples + Len(batch) \in Nat
  BY <1>1, <1>2
<1>4. QED
  BY <1>2, <1>3, ConsumedCases

\* The same in the next state.
LEMMA ConsumedTypeNext ==
  ASSUME TypeInv'
  PROVE  Consumed' \in Nat
<1>1. localStep' \in 1..TriggerSteps /\ batch' \in Seq(Samples)
  BY DEF TypeInv, TypeOK
<1>2. RequiredSamples \in Nat /\ TriggerSteps \in Nat
  BY TrainerAssumption
<1>3. \A n \in Nat : \A k \in 1..n : k - 1 \in Nat
  OBVIOUS
<1>4. localStep' - 1 \in Nat /\ Len(batch') \in Nat
  <2>1. localStep' - 1 \in Nat
    BY <1>1, <1>2, <1>3
  <2>2. Len(batch') \in Nat
    BY <1>1
  <2>3. QED
    BY <2>1, <2>2
<1>5. /\ RequiredSamples * TriggerSteps \in Nat
      /\ (localStep' - 1) * RequiredSamples \in Nat
  BY <1>2, <1>4, ProductFacts
<1>6. (localStep' - 1) * RequiredSamples + Len(batch') \in Nat
  BY <1>4, <1>5
<1>7. QED
  BY <1>5, <1>6, ConsumedCasesNext

\* What is behind the head of the queue was in it.
LEMMA TailEntries ==
  ASSUME QueueTypeOK, mq # <<>>, mq' = Tail(mq)
  PROVE  EntriesOf(mq)' \subseteq EntriesOf(mq)
<1>1. /\ Len(mq) \in Nat /\ Len(mq') = Len(mq) - 1
      /\ \A i \in 1..Len(mq') : mq'[i] = mq[i + 1]
  BY DEF QueueTypeOK
<1>2. \A i \in 1..Len(mq') : i + 1 \in 1..Len(mq)
  BY <1>1
<1>3. QED
  BY <1>1, <1>2 DEF EntriesOf

\* The step that takes a sample is not one in which the trainer gets one.
LEMMA CollectIsNotTake ==
  ASSUME TypeInv
  PROVE  ~(Take /\ Collect)
BY DEF TypeInv, TypeOK, RollouterTypeOK, Take, Collect, loopVars, workVars

\* A sample is taken by the processor, while the trainer does nothing.
LEMMA TakeAlone ==
  ASSUME TypeInv, [Next]_vars, Take
  PROVE  UNCHANGED <<trainerVars, serverVars>>
<1>1. taken' # taken
  BY DEF Take, TypeInv, TypeOK, RollouterTypeOK
<1>2. ~Trainer /\ (\A s \in Samples : ~(Generate(s) \/ SendAgain(s))) /\ ~(UNCHANGED vars)
  BY <1>1 DEF Trainer, Abort, Load, Collect, Train, Save, Stop, Generate, SendAgain, vars,
              loopVars, workVars
<1>3. QED
  BY <1>2 DEF Next, AtRest

\* Only a sample that the trainer gets is consumed.
LEMMA ConsumedStep ==
  ASSUME StructInv, TypeInv', [Next]_vars, ~Collect
  PROVE  Consumed' <= Consumed
<1> USE DEF StructInv
<1>1. /\ RequiredSamples \in Nat \ {0} /\ TriggerSteps \in Nat \ {0}
      /\ localStep \in 1..TriggerSteps /\ localStep - 1 \in Nat /\ Len(batch) \in Nat
      /\ Consumed \in Nat /\ Consumed' \in Nat
  BY TrainerAssumption, ConsumedType, ConsumedTypeNext DEF TypeInv, TypeOK
<1>2. ASSUME UNCHANGED <<stopping, tpc, localStep, batch>>,
             reset' # "idle" <=> reset # "idle"
      PROVE  Consumed' <= Consumed
  BY <1>1, <1>2, ConsumedCases, ConsumedCasesNext
<1>3. ASSUME EndReset, UNCHANGED trainerVars PROVE Consumed' <= Consumed
  <2>1. /\ localStep = 1 /\ batch = <<>> /\ tpc = "save"
        /\ UNCHANGED <<stopping, tpc, localStep, batch>> /\ reset' = "idle"
    BY <1>3 DEF EndReset, Phases, trainerVars
  <2>2. (localStep' - 1) * RequiredSamples + Len(batch') = 0
    <3>1. localStep' - 1 = 0 /\ Len(batch') = 0
      BY <2>1
    <3>2. 0 * RequiredSamples = 0
      BY <1>1, ProductFacts
    <3>3. QED
      BY <3>1, <3>2
  <2>3. Consumed' = 0
    BY <2>1, <2>2, ConsumedCasesNext
  <2>4. QED
    BY <1>1, <2>3
<1>4. ASSUME Train PROVE Consumed' <= Consumed
  <2>1. /\ ~stopping /\ ~stopping' /\ reset = "idle" /\ reset' = "idle"
        /\ tpc = "train" /\ Len(batch) = RequiredSamples /\ batch' = <<>>
    BY <1>4 DEF Train, Phases, loopVars, callVars
  <2>2. Consumed = localStep * RequiredSamples
    <3>1. Consumed = (localStep - 1) * RequiredSamples + RequiredSamples
      BY <2>1, ConsumedCases
    <3>2. (localStep - 1) + 1 = localStep
      BY <1>1
    <3>3. QED
      BY <1>1, <3>1, <3>2, ProductFacts
  <2>3. CASE localStep < TriggerSteps
    <3>1. localStep' - 1 = localStep /\ tpc' = "collect" /\ Len(batch') = 0
      BY <1>1, <1>4, <2>1, <2>3 DEF Train
    <3>2. Consumed' = localStep * RequiredSamples + 0
      BY <2>1, <3>1, ConsumedCasesNext
    <3>3. localStep * RequiredSamples \in Nat
      BY <1>1, ProductFacts
    <3>4. QED
      BY <2>2, <3>2, <3>3
  <2>4. CASE localStep >= TriggerSteps
    <3>1. localStep = TriggerSteps /\ tpc' = "sync"
      BY <1>1, <1>4, <2>4 DEF Train
    <3>2. Consumed' = RequiredSamples * TriggerSteps
      BY <2>1, <3>1, ConsumedCasesNext
    <3>3. TriggerSteps * RequiredSamples = RequiredSamples * TriggerSteps
      BY <1>1, ProductFacts
    <3>4. QED
      BY <1>1, <2>2, <3>1, <3>2, <3>3
  <2>5. QED
    BY <1>1, <2>3, <2>4
<1>5. ASSUME Abort PROVE Consumed' <= Consumed
  <2>1. /\ tpc = "sync" /\ tpc' = "load"
        /\ UNCHANGED <<stopping, localStep, batch, reset>>
    BY <1>5 DEF Abort, callVars
  <2>2. QED
    BY <1>1, <2>1, ConsumedCases, ConsumedCasesNext
<1>6. ASSUME Load PROVE Consumed' <= Consumed
  <2>1. /\ tpc = "load" /\ reset' = "called" /\ UNCHANGED stopping
    BY <1>6 DEF Load
  <2>2. QED
    BY <1>1, <2>1, ConsumedCases, ConsumedCasesNext
<1>7. ASSUME Save PROVE Consumed' <= Consumed
  <2>1. /\ tpc = "save" /\ tpc' \in {"done", "collect"}
        /\ reset = "idle" /\ reset' = "idle"
        /\ UNCHANGED <<stopping, localStep, batch>>
    BY <1>7 DEF Save, loopVars, callVars
  <2>2. QED
    BY <1>1, <2>1, ConsumedCases, ConsumedCasesNext
<1>8. ASSUME Stop PROVE Consumed' <= Consumed
  <2>1. stopping /\ stopping'
    BY <1>8 DEF Stop, Phases
  <2>2. QED
    BY <1>1, <2>1, ConsumedCases, ConsumedCasesNext
<1>9. ASSUME NEW s \in Samples, Generate(s) \/ SendAgain(s) PROVE Consumed' <= Consumed
  BY <1>2, <1>9 DEF Generate, SendAgain, trainerVars, callVars
<1>10. ASSUME RollouterNext, ~EndReset, UNCHANGED <<trainerVars, serverVars>>
       PROVE  Consumed' <= Consumed
  <2>1. reset' # "idle" <=> reset # "idle"
    BY <1>10 DEF RollouterNext, Processor, Others, SeePause, Pause, Take, AwaitSample,
         Park, Submit, Return, Queue, AwaitTasks, Reap, Feed, EnterReset, QueueReset,
         Recover, QueueMonitor, Watch, EndMonitor, Close, StopRunning, Put,
         EndTask, FailTask, callVars, loopVars
  <2>2. QED
    BY <1>2, <1>10, <2>1 DEF trainerVars
<1>11. ASSUME UNCHANGED vars PROVE Consumed' <= Consumed
  BY <1>2, <1>11 DEF vars, trainerVars, loopVars, callVars
<1>12. QED
  BY <1>3, <1>4, <1>5, <1>6, <1>7, <1>8, <1>9, <1>10, <1>11
     DEF Next, Trainer, AtRest

\* Only Take adds to the backlog.
LEMMA BacklogStep ==
  ASSUME StructInv, TypeInv', [Next]_vars, ~Take
  PROVE  Backlog' \subseteq Backlog
<1> USE DEF StructInv
<1>1. stage \in [Samples -> Stages] /\ QueueTypeOK
  BY DEF TypeInv, TypeOK, RollouterTypeOK
<1>2. ASSUME EntriesOf(mq)' \ {None} \subseteq Backlog,
             Hand' \subseteq Hand,
             \A s \in Samples : stage'[s] \in {"generating", "aborted", "generated"} => s \in Backlog
      PROVE  Backlog' \subseteq Backlog
  BY <1>2 DEF Backlog
<1>3. ASSUME UNCHANGED <<mq, stage, taken>>,
             pc' \in {"slot", "slotWait"} => pc \in {"slot", "slotWait"}
      PROVE  Backlog' \subseteq Backlog
  BY <1>3 DEF Backlog, Hand, EntriesOf
<1>4. ASSUME NEW x \in Entries, PutSample(x), x # None => x \in Backlog
      PROVE  EntriesOf(mq)' \ {None} \subseteq Backlog
  <2>1. PICK d \in {0, 1} :
          /\ Len(mq') = Len(mq) - d + 1
          /\ d <= Len(mq)
          /\ \A i \in 1..(Len(mq') - 1) : mq'[i] = mq[i + d]
          /\ mq'[Len(mq')] = x
    BY <1>1, <1>4, PutEntries
  <2>2. Len(mq) \in Nat
    BY <1>1 DEF QueueTypeOK
  <2>3. ASSUME NEW i \in 1..Len(mq')
        PROVE  mq'[i] = x \/ mq'[i] \in EntriesOf(mq)
    <3>1. CASE i = Len(mq')
      BY <2>1, <3>1
    <3>2. CASE i # Len(mq')
      <4>1. i \in 1..(Len(mq') - 1) /\ i + d \in 1..Len(mq)
        BY <2>1, <2>2, <3>2
      <4>2. QED
        BY <2>1, <4>1 DEF EntriesOf
    <3>3. QED
      BY <3>1, <3>2
  <2>4. EntriesOf(mq)' \subseteq EntriesOf(mq) \cup {x}
    BY <2>3 DEF EntriesOf
  <2>5. QED
    BY <1>4, <2>4 DEF Backlog
<1>5. ASSUME NEW s \in Samples, Put(s) PROVE Backlog' \subseteq Backlog
  <2>1. s \in Backlog /\ s \in Entries
    BY <1>5 DEF Put, Backlog, Entries
  <2>2. EntriesOf(mq)' \ {None} \subseteq Backlog
    BY <1>4, <1>5, <2>1 DEF Put
  <2>3. \A t \in Samples : stage'[t] \in {"generating", "aborted", "generated"} => t \in Backlog
    BY <1>1, <1>5 DEF Put, Backlog
  <2>4. Hand' = Hand
    BY <1>5 DEF Put, Hand, workVars
  <2>5. QED
    BY <1>2, <2>2, <2>3, <2>4
<1>6. ASSUME Close PROVE Backlog' \subseteq Backlog
  <2>1. EntriesOf(mq)' \ {None} \subseteq Backlog
    BY <1>4, <1>6 DEF Close, Entries
  <2>2. UNCHANGED <<stage, pc, taken>>
    BY <1>6 DEF Close, workVars
  <2>3. QED
    BY <1>2, <2>1, <2>2 DEF Backlog, Hand
<1>7. ASSUME Collect PROVE Backlog' \subseteq Backlog
  <2>1. mq # <<>> /\ mq' = Tail(mq) /\ UNCHANGED <<stage, pc, taken>>
    BY <1>7 DEF Collect, GetSample, loopVars, workVars
  <2>2. EntriesOf(mq)' \subseteq EntriesOf(mq)
    BY <1>1, <2>1, TailEntries
  <2>3. QED
    BY <1>2, <2>1, <2>2 DEF Backlog, Hand
<1>8. ASSUME NEW s \in Samples, EndTask(s) \/ FailTask(s) \/ Generate(s) \/ SendAgain(s)
      PROVE  Backlog' \subseteq Backlog
  <2>1. UNCHANGED <<mq, pc, taken>>
    BY <1>8 DEF EndTask, FailTask, Generate, SendAgain, queueVars, workVars
  <2>2. \A t \in Samples : stage'[t] \in {"generating", "aborted", "generated"} => t \in Backlog
    BY <1>1, <1>8 DEF EndTask, FailTask, Generate, SendAgain, Backlog
  <2>3. QED
    BY <1>2, <2>1, <2>2 DEF Backlog, Hand, EntriesOf
<1>9. ASSUME Abort PROVE Backlog' \subseteq Backlog
  <2>1. UNCHANGED <<mq, pc, taken>>
    BY <1>9 DEF Abort, queueVars, workVars
  <2>2. \A t \in Samples : stage'[t] \in {"generating", "aborted", "generated"} => t \in Backlog
    BY <1>1, <1>9 DEF Abort, Backlog
  <2>3. QED
    BY <1>2, <2>1, <2>2 DEF Backlog, Hand, EntriesOf
<1>10. ASSUME Submit PROVE Backlog' \subseteq Backlog
  <2>1. /\ pc = "slot" /\ pc' = "top" /\ UNCHANGED <<mq, taken>>
        /\ stage' = [stage EXCEPT ![taken] = "generating"]
    BY <1>10 DEF Submit, queueVars
  <2>2. Hand = {taken} /\ Hand' = {}
    BY <2>1 DEF Hand
  <2>3. \A t \in Samples : stage'[t] \in {"generating", "aborted", "generated"} => t \in Backlog
    BY <1>1, <2>1, <2>2 DEF Backlog
  <2>4. QED
    BY <1>2, <2>1, <2>2, <2>3 DEF Backlog, EntriesOf
<1>11. ASSUME NEW l \in Loops, AwaitTasks(l) \/ Reap(l)
       PROVE  Backlog' \subseteq Backlog
  <2>1. /\ UNCHANGED <<mq, stage, taken>>
        /\ pc' \in {"slot", "slotWait"} => pc \in {"slot", "slotWait"}
    BY <1>11 DEF AwaitTasks, Reap, WaitOf, Loops, queueVars
  <2>2. QED
    BY <1>3, <2>1
<1>12. ASSUME SeePause \/ Pause \/ AwaitSample \/ Park \/ Return \/ Queue
       PROVE  Backlog' \subseteq Backlog
  BY <1>3, <1>12 DEF SeePause, Pause, AwaitSample, Park, Return, Queue, workVars,
                     queueVars
<1>13. ASSUME \/ Feed \/ EnterReset \/ QueueReset \/ EndReset \/ Recover
              \/ QueueMonitor \/ Watch \/ EndMonitor \/ StopRunning
       PROVE  Backlog' \subseteq Backlog
  BY <1>3, <1>13 DEF Feed, EnterReset, QueueReset, EndReset, Recover, QueueMonitor,
                     Watch, EndMonitor, StopRunning, loopVars, workVars, queueVars,
                     Notified
<1>14. ASSUME Load \/ Train \/ Save \/ Stop PROVE Backlog' \subseteq Backlog
  BY <1>3, <1>14 DEF Load, Train, Save, Stop, loopVars, workVars, queueVars
<1>15. ASSUME UNCHANGED vars PROVE Backlog' \subseteq Backlog
  BY <1>3, <1>15 DEF vars, loopVars, workVars, queueVars
<1>16. QED
  BY <1>5, <1>6, <1>7, <1>8, <1>9, <1>10, <1>11, <1>12, <1>13, <1>14, <1>15
     DEF Next, Trainer, RollouterNext, Processor, Others, AtRest

\* A sample the trainer gets leaves the backlog.
LEMMA CollectStep ==
  ASSUME StructInv, TypeInv', Collect
  PROVE  Underway' <= Underway
<1> USE DEF StructInv
<1>1. /\ Cardinality(Backlog) \in Nat /\ IsFiniteSet(Backlog)
      /\ Consumed \in Nat /\ Consumed' \in Nat
  BY BacklogFinite, ConsumedType, ConsumedTypeNext
<1>2. Backlog' \subseteq Backlog
  <2>1. Next /\ ~Take
    BY CollectIsNotTake DEF Next, Trainer
  <2>2. QED
    BY <2>1, BacklogStep
<1>3. /\ Cardinality(Backlog') \in Nat /\ Cardinality(Backlog') <= Cardinality(Backlog)
  BY <1>2, BacklogSmaller
<1>4. PICK x \in Entries :
        /\ GetSample(x)
        /\ stopping' = (x = None)
        /\ batch' = IF x = None THEN <<>> ELSE Append(batch, x)
        /\ tpc' \in {"stop", "train", "collect"}
        /\ UNCHANGED <<loopVars, localStep>>
  BY DEF Collect
<1>5. tpc = "collect" /\ ~stopping /\ reset = "idle"
  BY DEF Collect, Phases
<1>6. CASE x = None
  <2>1. Consumed' = 0
    BY <1>4, <1>6, ConsumedCasesNext
  <2>2. QED
    BY <1>1, <1>3, <2>1 DEF Underway
<1>7. CASE x # None
  <2>1. Consumed' = Consumed + 1
    <3>1. Len(batch') = Len(batch) + 1 /\ Len(batch) \in Nat
      BY <1>4, <1>7 DEF TypeInv, TypeOK
    <3>2. /\ ~stopping' /\ tpc' \notin {"sync", "load"} /\ reset' = "idle"
          /\ localStep' = localStep
      BY <1>4, <1>5, <1>7 DEF loopVars, callVars
    <3>3. /\ Consumed = (localStep - 1) * RequiredSamples + Len(batch)
          /\ Consumed' = (localStep - 1) * RequiredSamples + (Len(batch) + 1)
      BY <1>5, <3>1, <3>2, ConsumedCases, ConsumedCasesNext
    <3>4. (localStep - 1) * RequiredSamples \in Nat
      <4>1. localStep - 1 \in Nat /\ RequiredSamples \in Nat
        BY TrainerAssumption DEF TypeInv, TypeOK
      <4>2. QED
        BY <4>1, ProductFacts
    <3>5. QED
      BY <3>1, <3>3, <3>4
  <2>2. x \in Samples /\ x \in Backlog /\ stage[x] \in {"queued", "done"}
    <3>1. /\ x \in Samples /\ 1 \in 1..Len(mq) /\ mq[1] = x
      BY <1>4, <1>7 DEF GetSample, Entries, TypeInv, TypeOK, QueueTypeOK
    <3>2. QED
      BY <1>7, <3>1 DEF QueuedOnce, Backlog, EntriesOf
  <2>3. x \notin Backlog'
    <3>1. UNCHANGED <<stage, pc, taken>>
      BY <1>4 DEF loopVars, workVars
    <3>2. x \notin Hand'
      BY <2>2, <3>1 DEF Hand, Tasks
    <3>3. x \notin EntriesOf(mq)'
      <4>1. /\ mq # <<>> /\ mq' = Tail(mq) /\ x = Head(mq) /\ QueueTypeOK
        BY <1>4 DEF GetSample, TypeInv, TypeOK
      <4>2. /\ Len(mq) \in Nat /\ Len(mq') = Len(mq) - 1 /\ mq[1] = x /\ 1 \in 1..Len(mq)
            /\ \A i \in 1..Len(mq') : mq'[i] = mq[i + 1]
        BY <4>1 DEF QueueTypeOK
      <4>3. ASSUME NEW i \in 1..Len(mq') PROVE mq'[i] # x
        <5>1. i + 1 \in 1..Len(mq) /\ i + 1 # 1
          BY <4>2
        <5>2. QED
          BY <1>7, <4>2, <5>1 DEF QueuedOnce
      <4>4. QED
        BY <4>3 DEF EntriesOf
    <3>4. QED
      BY <2>2, <3>1, <3>2, <3>3 DEF Backlog
  <2>4. Cardinality(Backlog') <= Cardinality(Backlog) - 1
    <3>1. Backlog' \subseteq Backlog \ {x}
      BY <1>2, <2>3
    <3>2. /\ IsFiniteSet(Backlog \ {x})
          /\ Cardinality(Backlog \ {x}) = Cardinality(Backlog) - 1
      BY <1>1, <2>2, FS_RemoveElement
    <3>3. QED
      BY <3>1, <3>2, FS_Subset
  <2>5. QED
    BY <1>1, <1>3, <2>1, <2>4 DEF Underway
<1>8. QED
  BY <1>6, <1>7

\* No step but Take lets the samples under way grow.
LEMMA UnderwayShrinks ==
  ASSUME StructInv, TypeInv', [Next]_vars, ~Take
  PROVE  Underway' <= Underway /\ Underway' \in Nat /\ Underway \in Nat
<1>1. TypeInv
  BY DEF StructInv
<1>2. /\ Cardinality(Backlog) \in Nat /\ Consumed \in Nat /\ Consumed' \in Nat
  BY <1>1, BacklogFinite, ConsumedType, ConsumedTypeNext
<1>3. Backlog' \subseteq Backlog
  BY BacklogStep
<1>4. Cardinality(Backlog') \in Nat /\ Cardinality(Backlog') <= Cardinality(Backlog)
  BY <1>1, <1>3, BacklogSmaller
<1>5. CASE Collect
  BY <1>2, <1>4, <1>5, CollectStep DEF Underway
<1>6. CASE ~Collect
  BY <1>2, <1>4, <1>6, ConsumedStep DEF Underway
<1>7. QED
  BY <1>5, <1>6

\* Take adds one sample at most.
LEMMA TakeStep ==
  ASSUME StructInv, TypeInv', Take, UNCHANGED <<trainerVars, serverVars>>
  PROVE  Underway' <= Underway + 1 /\ Underway' \in Nat /\ Underway \in Nat
<1> USE DEF StructInv
<1>1. /\ IsFiniteSet(Backlog) /\ Cardinality(Backlog) \in Nat
      /\ Consumed \in Nat /\ Consumed' \in Nat
  BY BacklogFinite, ConsumedType, ConsumedTypeNext
<1>2. Consumed' <= Consumed
  <2>1. Next /\ ~Collect
    BY CollectIsNotTake DEF Next, RollouterNext, Processor
  <2>2. QED
    BY <2>1, ConsumedStep
<1>3. Backlog' \subseteq Backlog \cup {taken'}
  <2>1. UNCHANGED <<mq, stage>>
    BY DEF Take, queueVars
  <2>2. QED
    BY <2>1 DEF Backlog, Hand, EntriesOf
<1>4. /\ IsFiniteSet(Backlog \cup {taken'})
      /\ Cardinality(Backlog \cup {taken'}) <= Cardinality(Backlog) + 1
      /\ Cardinality(Backlog \cup {taken'}) \in Nat
  BY <1>1, FS_AddElement, FS_CardinalityType
<1>5. Cardinality(Backlog') \in Nat /\ Cardinality(Backlog') <= Cardinality(Backlog) + 1
  <2>1. /\ IsFiniteSet(Backlog')
        /\ Cardinality(Backlog') <= Cardinality(Backlog \cup {taken'})
    BY <1>3, <1>4, FS_Subset
  <2>2. Cardinality(Backlog') \in Nat
    BY <2>1, FS_CardinalityType
  <2>3. QED
    BY <1>1, <1>4, <2>1, <2>2
<1>6. QED
  BY <1>1, <1>2, <1>5 DEF Underway

\* When reset_staleness returns, what it has counted are all the samples under way
\* but the one in hand: no task was submitted or reaped since it counted them.
LEMMA EndResetCounts ==
  ASSUME StructInv, TypeInv', EndReset, UNCHANGED <<trainerVars, serverVars>>
  PROVE  Underway' <= staleness' + 1
<1> USE DEF StructInv
<1>1. /\ sized = Cardinality(active) /\ staleness' = Cardinality(active) + Len(mq)
      /\ UNCHANGED <<mq, stage, pc, taken, active>>
  BY DEF EndReset, Sized, queueVars
<1>2. QueueTypeOK /\ RollouterTypeOK /\ Len(mq) \in Nat
  BY DEF TypeInv, TypeOK, QueueTypeOK
<1>3. IsFiniteSet(active) /\ Cardinality(active) \in Nat
  BY <1>2, ActiveFinite, FS_CardinalityType
<1>4. IsFiniteSet(EntriesOf(mq)) /\ Cardinality(EntriesOf(mq)) <= Len(mq)
  BY <1>2, QueueBound
<1>5. /\ IsFiniteSet(active \cup EntriesOf(mq))
      /\ Cardinality(active \cup EntriesOf(mq)) \in Nat
      /\ Cardinality(active \cup EntriesOf(mq)) <= Cardinality(active) + Len(mq)
  <2>1. /\ IsFiniteSet(active \cap EntriesOf(mq))
        /\ IsFiniteSet(active \cup EntriesOf(mq))
        /\ Cardinality(active \cup EntriesOf(mq)) =
             Cardinality(active) + Cardinality(EntriesOf(mq))
               - Cardinality(active \cap EntriesOf(mq))
    BY <1>3, <1>4, FS_Union, FS_Subset
  <2>2. /\ Cardinality(active \cap EntriesOf(mq)) \in Nat
        /\ Cardinality(EntriesOf(mq)) \in Nat
        /\ Cardinality(active \cup EntriesOf(mq)) \in Nat
    BY <1>4, <2>1, FS_CardinalityType
  <2>3. QED
    BY <1>2, <1>3, <1>4, <2>1, <2>2
<1>6. Backlog' \subseteq (active \cup EntriesOf(mq)) \cup {taken}
  BY <1>1 DEF Backlog, Hand, Tasks, EntriesOf
<1>7. /\ Cardinality(Backlog') <= Cardinality(active) + Len(mq) + 1
      /\ Cardinality(Backlog') \in Nat
  <2>1. /\ IsFiniteSet((active \cup EntriesOf(mq)) \cup {taken})
        /\ Cardinality((active \cup EntriesOf(mq)) \cup {taken})
             <= Cardinality(active) + Len(mq) + 1
        /\ Cardinality((active \cup EntriesOf(mq)) \cup {taken}) \in Nat
    <3> DEFINE S == active \cup EntriesOf(mq)
    <3>1. /\ IsFiniteSet(S) /\ Cardinality(S) \in Nat
          /\ Cardinality(S) <= Cardinality(active) + Len(mq)
      BY <1>5
    <3>2. /\ IsFiniteSet(S \cup {taken})
          /\ Cardinality(S \cup {taken}) =
               IF taken \in S THEN Cardinality(S) ELSE Cardinality(S) + 1
      BY <3>1, FS_AddElement
    <3>3. QED
      BY <1>2, <1>3, <3>1, <3>2
  <2>2. /\ IsFiniteSet(Backlog')
        /\ Cardinality(Backlog') <= Cardinality((active \cup EntriesOf(mq)) \cup {taken})
    BY <1>6, <2>1, FS_Subset
  <2>3. Cardinality(Backlog') \in Nat
    BY <2>2, FS_CardinalityType
  <2>4. QED
    BY <1>2, <1>3, <2>1, <2>2, <2>3
<1>8. Consumed' = 0
  <2>1. /\ localStep' = 1 /\ batch' = <<>> /\ tpc' = "save" /\ reset' = "idle"
    BY DEF EndReset, Phases, trainerVars
  <2>2. (localStep' - 1) * RequiredSamples + Len(batch') = 0
    <3>1. localStep' - 1 = 0 /\ Len(batch') = 0
      BY <2>1
    <3>2. 0 * RequiredSamples = 0
      BY TrainerAssumption, ProductFacts
    <3>3. QED
      BY <3>1, <3>2
  <2>3. QED
    BY <2>1, <2>2, ConsumedCasesNext
<1>9. QED
  BY <1>1, <1>2, <1>3, <1>7, <1>8 DEF Underway

\* The count and the limit hold through every step.
LEMMA CountedStep ==
  ASSUME StructInv, StructInv', Counted, [Next]_vars
  PROVE  Counted'
<1>1. /\ TypeInv /\ TypeInv' /\ MaxRequired \in Nat
      /\ staleness \in Nat /\ staleness' \in Nat
  BY QueueAssumption DEF StructInv, TypeInv, TypeOK, RollouterTypeOK
<1>2. CASE Take /\ UNCHANGED <<trainerVars, serverVars>>
  <2>1. /\ Underway' <= Underway + 1 /\ Underway' \in Nat /\ Underway \in Nat
    BY <1>1, <1>2, TakeStep
  <2>2. /\ staleness' = staleness + 1 /\ pc' # "getting"
        /\ GoesOn \/ pc = "getting"
    BY <1>2 DEF Take
  <2>3. Underway <= MaxRequired
    <3>1. CASE GoesOn
      BY <1>1, <2>1, <3>1 DEF GoesOn, ShouldPause, Counted
    <3>2. CASE pc = "getting"
      BY <3>2 DEF Counted
    <3>3. QED
      BY <2>2, <3>1, <3>2
  <2>4. QED
    BY <1>1, <2>1, <2>2, <2>3 DEF Counted
<1>3. CASE ~Take
  <2>1. /\ Underway' <= Underway /\ Underway' \in Nat /\ Underway \in Nat
    BY <1>1, <1>3, UnderwayShrinks
  <2>2. pc' = "getting" => Underway' <= MaxRequired
    <3>1. CASE AwaitSample
      BY <1>1, <2>1, <3>1 DEF AwaitSample, GoesOn, ShouldPause, Counted
    <3>2. CASE ~AwaitSample
      <4>1. pc' = "getting" => pc = "getting"
        BY <1>3, <3>2 DEF Next, Trainer, RollouterNext, Processor, Others, SeePause,
             Pause, Park, Submit, Return, Queue, AwaitTasks, Reap, Feed, EnterReset,
             QueueReset, EndReset, Recover, QueueMonitor, Watch, EndMonitor, Close,
             StopRunning, Put, EndTask, FailTask, Notified, Loops, WaitOf, Abort,
             Load, Collect, Train, Save, Stop, Generate, SendAgain, AtRest, vars, loopVars,
             workVars
      <4>2. QED
        BY <1>1, <2>1, <4>1 DEF Counted
    <3>3. QED
      BY <3>1, <3>2
  <2>3. Underway' <= staleness' + 1
    <3>1. CASE EndReset /\ UNCHANGED <<trainerVars, serverVars>>
      BY <1>1, <3>1, EndResetCounts
    <3>2. CASE ~(EndReset /\ UNCHANGED <<trainerVars, serverVars>>)
      <4>1. staleness' = staleness
        BY <1>3, <3>2 DEF Next, Trainer, RollouterNext, Processor, Others, SeePause,
             Pause, AwaitSample, Park, Submit, Return, Queue, AwaitTasks, Reap, Feed,
             EnterReset, QueueReset, Recover, QueueMonitor, Watch, EndMonitor, Close,
             StopRunning, Put, EndTask, FailTask, Abort, Load, Collect, Train, Save,
             Stop, Generate, SendAgain, AtRest, vars, loopVars, workVars
      <4>2. QED
        BY <1>1, <2>1, <4>1 DEF Counted
    <3>3. QED
      BY <3>1, <3>2
  <2>4. Underway' <= MaxRequired + 1
    BY <1>1, <2>1 DEF Counted
  <2>5. QED
    BY <2>2, <2>3, <2>4 DEF Counted
<1>4. Take => UNCHANGED <<trainerVars, serverVars>>
  BY <1>1, TakeAlone
<1>5. QED
  BY <1>2, <1>3, <1>4

\* Between two synchronizations of the weights the rollouter takes on no more than
\* max_required_samples less what it had left over, and the one sample that
\* reset_staleness does not see, for any sizes, any number of samples and whatever
\* the coroutines do while one of them waits.
THEOREM StaleCorrect == Spec => []StaleBounded
<1>1. Init => Counted
  <2> SUFFICES ASSUME Init PROVE Counted
    OBVIOUS
  <2>1. Backlog = {}
    BY DEF Init, RollouterInit, QueueInit, Backlog, Hand, EntriesOf
  <2>2. Consumed = 0
    <3>1. localStep - 1 = 0 /\ Len(batch) = 0
      BY DEF Init
    <3>2. 0 * RequiredSamples = 0
      BY TrainerAssumption, ProductFacts
    <3>3. Consumed = (localStep - 1) * RequiredSamples + Len(batch)
      BY ConsumedCases DEF Init, RollouterInit
    <3>4. QED
      BY <3>1, <3>2, <3>3
  <2>3. Underway = 0
    BY <2>1, <2>2, FS_EmptySet DEF Underway
  <2>4. QED
    BY <2>3, QueueAssumption DEF Init, RollouterInit, Counted
<1>2. StructInv /\ StructInv' /\ Counted /\ [Next]_vars => Counted'
  BY CountedStep
<1>3. StructInv /\ Counted => StaleBounded
  BY DEF Counted, Underway, StaleBounded
<1>4. QED
  BY <1>1, <1>2, <1>3, StructInvariant, PTL DEF Spec

---------------------------------------------------------------------------
\* What the end of the stream leaves

\* Every sample taken on has a task, which the processor knows of until it has
\* ended, and the processor returns only when there is nothing left to do.
Progress ==
  /\ \A s \in Samples : stage[s] = "none" =>
                          s > taken \/ (s = taken /\ pc \in {"slot", "slotWait", "raised"})
  /\ \A s \in Samples : stage[s] = "queued" => s \in active
  /\ pc \in {"finish", "finishWait", "done"} => taken = None
  /\ pc = "done" => active = {}
  /\ pc = "raised" => Failed

\* The end signal is the last entry of the queue.
EndsStream ==
  /\ mq # <<>> /\ mq[Len(mq)] = None
  /\ \A i \in 1..Len(mq) : mq[i] = None => i = Len(mq)

\* It is put once, behind every sample if no task has failed, and the trainer that
\* meets it leaves nothing in the queue.
EndSignal ==
  /\ main = "serving" => ~stopping /\ \A i \in 1..Len(mq) : mq[i] # None
  /\ main # "serving" => pc \in {"done", "raised"}
  /\ main # "serving" /\ ~Failed => IF stopping THEN mq = <<>> ELSE EndsStream
  /\ tpc = "done" => stopping

\* The samples put into the queue that are neither in it nor dropped: the trainer
\* has got them.
Got == {s \in Samples : /\ stage[s] \in {"queued", "done"}
                        /\ s \notin dropped
                        /\ s \notin EntriesOf(mq)}

\* The trainer keeps account of what it has got, the incomplete batch it gives up
\* at the end included.
Ledger ==
  /\ \A s \in dropped \ {None} : stage[s] \in {"queued", "done"}
                                   /\ s \notin EntriesOf(mq)
  /\ ~stopping => Cardinality(Got) = Updates * RequiredSamples + Len(batch)
  /\ stopping => Cardinality(Got) \div RequiredSamples = Updates

EndInv == Progress /\ EndSignal /\ Ledger

\* How far a task can come in one step.
Moves(a, b) ==
  \/ b = a
  \/ a = "none" /\ b = "generating"
  \/ a = "generating" /\ b \in {"aborted", "generated", "failed"}
  \/ a = "aborted" /\ b \in {"generating", "failed"}
  \/ a = "generated" /\ b \in {"queued", "failed"}
  \/ a = "queued" /\ b = "done"

\* A task goes through its stages one by one.
LEMMA StageMoves ==
  ASSUME StructInv, [Next]_vars, NEW s \in Samples
  PROVE  Moves(stage[s], stage'[s])
<1>1. stage \in [Samples -> Stages]
  BY DEF StructInv, TypeInv, TypeOK, RollouterTypeOK
<1>2. ASSUME UNCHANGED stage PROVE Moves(stage[s], stage'[s])
  BY <1>2 DEF Moves
<1>3. ASSUME NEW t \in Samples, Put(t) \/ EndTask(t) \/ FailTask(t) \/ Generate(t) \/ SendAgain(t)
      PROVE  Moves(stage[s], stage'[s])
  BY <1>1, <1>3 DEF Put, EndTask, FailTask, Generate, SendAgain, Moves
<1>4. ASSUME Abort PROVE Moves(stage[s], stage'[s])
  BY <1>1, <1>4 DEF Abort, Moves
<1>5. ASSUME Submit PROVE Moves(stage[s], stage'[s])
  <2>1. stage[taken] = "none" /\ taken \in Samples
    BY <1>5 DEF Submit, StructInv, Tasks, TypeInv, HandTaken
  <2>2. QED
    BY <1>1, <1>5, <2>1 DEF Submit, Moves
<1>6. ASSUME Load \/ Collect \/ Train \/ Save \/ Stop
      PROVE  Moves(stage[s], stage'[s])
  BY <1>2, <1>6 DEF Load, Collect, Train, Save, Stop, loopVars
<1>7. ASSUME \/ SeePause \/ Pause \/ Take \/ AwaitSample \/ Park \/ Return \/ Queue
             \/ \E l \in Loops : AwaitTasks(l) \/ Reap(l)
      PROVE  Moves(stage[s], stage'[s])
  BY <1>2, <1>7 DEF SeePause, Pause, Take, AwaitSample, Park, Return, Queue,
                    AwaitTasks, Reap
<1>8. ASSUME \/ Feed \/ EnterReset \/ QueueReset \/ EndReset \/ Recover
             \/ QueueMonitor \/ Watch \/ EndMonitor \/ StopRunning \/ Close
      PROVE  Moves(stage[s], stage'[s])
  BY <1>2, <1>8 DEF Feed, EnterReset, QueueReset, EndReset, Recover, QueueMonitor,
                    Watch, EndMonitor, StopRunning, Close, loopVars
<1>9. ASSUME UNCHANGED vars PROVE Moves(stage[s], stage'[s])
  BY <1>2, <1>9 DEF vars, loopVars
<1>10. QED
  BY <1>3, <1>4, <1>5, <1>6, <1>7, <1>8, <1>9
     DEF Next, Trainer, RollouterNext, Processor, Others, AtRest

\* A task that has raised stays so.
LEMMA FailedStays ==
  ASSUME StructInv, [Next]_vars, Failed
  PROVE  Failed'
BY StageMoves DEF Failed, Moves

\* Only a put brings a sample behind its generation.
LEMMA PlacedMoves ==
  ASSUME StructInv, [Next]_vars, ~\E s \in Samples : Put(s), NEW t \in Samples
  PROVE  stage'[t] \in {"queued", "done"} <=> stage[t] \in {"queued", "done"}
<1>1. stage \in [Samples -> Stages]
  BY DEF StructInv, TypeInv, TypeOK, RollouterTypeOK
<1>2. Moves(stage[t], stage'[t])
  BY StageMoves
<1>3. ~(stage[t] = "generated" /\ stage'[t] = "queued")
  <2> SUFFICES ASSUME stage[t] = "generated", stage'[t] = "queued" PROVE FALSE
    OBVIOUS
  <2>1. stage' # stage
    OBVIOUS
  <2>2. ~Abort /\ ~Submit
    BY <1>1 DEF Abort, Submit
  <2>3. \A s \in Samples : ~EndTask(s) /\ ~FailTask(s) /\ ~(Generate(s) \/ SendAgain(s))
    BY <1>1 DEF EndTask, FailTask, Generate, SendAgain
  <2>4. ~(Load \/ Collect \/ Train \/ Save \/ Stop)
    BY <2>1 DEF Load, Collect, Train, Save, Stop, loopVars
  <2>5. ~(\/ SeePause \/ Pause \/ Take \/ AwaitSample \/ Park \/ Return \/ Queue
          \/ \E l \in Loops : AwaitTasks(l) \/ Reap(l))
    BY <2>1 DEF SeePause, Pause, Take, AwaitSample, Park, Return, Queue,
                AwaitTasks, Reap
  <2>6. ~(\/ Feed \/ EnterReset \/ QueueReset \/ EndReset \/ Recover
          \/ QueueMonitor \/ Watch \/ EndMonitor \/ StopRunning \/ Close)
    BY <2>1 DEF Feed, EnterReset, QueueReset, EndReset, Recover, QueueMonitor,
                Watch, EndMonitor, StopRunning, Close, loopVars
  <2>7. ~UNCHANGED vars
    BY <2>1 DEF vars, loopVars
  <2>8. QED
    BY <2>2, <2>3, <2>4, <2>5, <2>6, <2>7
       DEF Next, Trainer, RollouterNext, Processor, Others, AtRest
<1>4. QED
  BY <1>2, <1>3 DEF Moves

\* The processor ends where no task is left, or where one has raised.
LEMMA ProgressStep ==
  ASSUME StructInv, TypeInv', Progress, [Next]_vars
  PROVE  Progress'
<1>1. /\ stage \in [Samples -> Stages] /\ active \subseteq Samples
      /\ taken \in Nat /\ Samples \subseteq Nat /\ None \notin Samples
  <2>1. stage \in [Samples -> Stages] /\ active \subseteq Samples
    BY DEF StructInv, TypeInv, TypeOK, RollouterTypeOK
  <2>2. fed \in 0..None /\ taken \in 0..fed
    BY DEF StructInv, TypeInv, TypeOK, RollouterTypeOK
  <2>3. Samples \subseteq Nat /\ None \notin Samples /\ None \in Nat
    BY QueueAssumption DEF Samples, None
  <2>4. QED
    BY <2>1, <2>2, <2>3
<1>2. \A s \in Samples : Moves(stage[s], stage'[s])
  BY StageMoves
<1>3. Failed => Failed'
  BY FailedStays
<1>4. \A s \in Samples : stage[s] \in {"generating", "aborted", "generated"} => s \in active
  BY DEF StructInv, Tasks
<1>5. ASSUME UNCHANGED <<taken, pc, active>> PROVE Progress'
  <2>1. \A s \in Samples : /\ stage'[s] = "none" => stage[s] = "none"
                           /\ stage'[s] = "queued" => s \in active
    BY <1>2, <1>4 DEF Moves, Progress
  <2>2. QED
    BY <1>3, <1>5, <2>1 DEF Progress
<1>6. ASSUME UNCHANGED <<taken, active, stage>>, pc # "raised",
             pc \in {"slot", "slotWait"} => pc' \in {"slot", "slotWait"},
             pc' \in {"finish", "finishWait"} => pc \in {"finish", "finishWait"},
             pc' = "done" => active = {} /\ pc = "finish",
             pc' # "raised"
      PROVE  Progress'
  BY <1>6 DEF Progress
<1>7. ASSUME Take PROVE Progress'
  <2>1. /\ pc \in {"top", "getting"} /\ taken' = taken + 1 /\ UNCHANGED <<stage, active>>
        /\ pc' = IF taken' = None THEN "finish" ELSE "slot"
    BY <1>7 DEF Take, GoesOn
  <2>2. \A s \in Samples : stage'[s] = "none" => s > taken
    BY <2>1 DEF Progress
  <2>3. \A s \in Samples : s > taken => s > taken' \/ (s = taken' /\ pc' = "slot")
    BY <1>1, <2>1
  <2>4. QED
    BY <2>1, <2>2, <2>3 DEF Progress
<1>8. ASSUME Submit PROVE Progress'
  <2>1. /\ pc = "slot" /\ pc' = "top" /\ taken' = taken /\ taken \in Samples
        /\ active' = active \cup {taken}
        /\ stage' = [stage EXCEPT ![taken] = "generating"]
    BY <1>8 DEF Submit, StructInv, TypeInv, HandTaken
  <2>2. \A s \in Samples : /\ stage'[s] = "none" => stage[s] = "none" /\ s # taken
                           /\ stage'[s] = "queued" => stage[s] = "queued"
    BY <1>1, <2>1
  <2>3. QED
    BY <2>1, <2>2 DEF Progress
<1>9. ASSUME NEW l \in Loops, Reap(l) PROVE Progress'
  <2>1. /\ pc = WaitOf[l] /\ active' = {s \in active : ~Finished(s)}
        /\ pc' = IF \E s \in active : stage[s] = "failed" THEN "raised" ELSE l
        /\ UNCHANGED <<stage, taken>>
    BY <1>9 DEF Reap
  <2>2. \/ l = "slot" /\ pc = "slotWait"
        \/ l = "finish" /\ pc = "finishWait"
        \/ l = "drain" /\ pc = "drainWait"
    BY <2>1 DEF WaitOf, Loops
  <2>3. \A s \in Samples : stage'[s] = "queued" => s \in active'
    BY <2>1 DEF Progress, Finished
  <2>4. pc' = "raised" => Failed'
    BY <1>1, <2>1, <2>2 DEF Failed
  <2>5. \A s \in Samples : stage'[s] = "none" =>
            s > taken' \/ (s = taken' /\ pc' \in {"slot", "slotWait", "raised"})
    BY <2>1, <2>2 DEF Progress
  <2>6. pc' \in {"finish", "finishWait", "done"} => taken' = None
    BY <2>1, <2>2 DEF Progress
  <2>7. pc' # "done"
    BY <2>1, <2>2
  <2>8. QED
    BY <2>3, <2>4, <2>5, <2>6, <2>7 DEF Progress
<1>10. ASSUME NEW l \in Loops, AwaitTasks(l) PROVE Progress'
  <2>1. /\ UNCHANGED <<taken, active, stage>>
        /\ \/ pc = "slot" /\ pc' = "slotWait"
           \/ pc = "finish" /\ pc' = "finishWait"
           \/ pc = "drain" /\ pc' = "drainWait"
    BY <1>10 DEF AwaitTasks, WaitOf, Loops
  <2>2. QED
    BY <1>6, <2>1
<1>11. ASSUME SeePause \/ Pause \/ AwaitSample \/ Park \/ Return PROVE Progress'
  <2>1. /\ UNCHANGED <<taken, active, stage>>
        /\ pc \in {"top", "pause", "drain", "notified", "finish"}
        /\ pc' \in {"pause", "drain", "getting", "parked", "top", "done"}
        /\ pc' = "done" => active = {} /\ pc = "finish"
    BY <1>11 DEF SeePause, Pause, AwaitSample, Park, Return, GoesOn, Goes
  <2>2. QED
    BY <1>6, <2>1
<1>12. ASSUME EnterReset \/ Recover PROVE Progress'
  <2>1. UNCHANGED <<taken, active, stage>> /\ pc' = Notified
    BY <1>12 DEF EnterReset, Recover
  <2>2. QED
    BY <1>5, <1>6, <2>1 DEF Notified
<1>13. ASSUME \/ Feed \/ QueueReset \/ EndReset \/ Queue
              \/ QueueMonitor \/ Watch \/ EndMonitor \/ StopRunning \/ Close
       PROVE  Progress'
  BY <1>5, <1>13 DEF Feed, QueueReset, EndReset, Queue, QueueMonitor, Watch,
                     EndMonitor, StopRunning, Close, loopVars, workVars
<1>14. ASSUME NEW s \in Samples, Put(s) \/ EndTask(s) \/ FailTask(s) \/ Generate(s) \/ SendAgain(s)
       PROVE  Progress'
  BY <1>5, <1>14 DEF Put, EndTask, FailTask, Generate, SendAgain, workVars
<1>15. ASSUME Abort \/ Load \/ Collect \/ Train \/ Save \/ Stop PROVE Progress'
  BY <1>5, <1>15 DEF Abort, Load, Collect, Train, Save, Stop, loopVars, workVars
<1>16. ASSUME UNCHANGED vars PROVE Progress'
  BY <1>5, <1>16 DEF vars, loopVars, workVars
<1>17. QED
  BY <1>7, <1>8, <1>9, <1>10, <1>11, <1>12, <1>13, <1>14, <1>15, <1>16
     DEF Next, Trainer, RollouterNext, Processor, Others, AtRest

\* The end signal is put once, behind everything else, and not lost.
LEMMA EndSignalStep ==
  ASSUME StructInv, TypeInv', Progress, EndSignal, [Next]_vars
  PROVE  EndSignal'
<1>1. /\ QueueTypeOK /\ stage \in [Samples -> Stages] /\ None \notin Samples
      /\ Len(mq) \in Nat /\ None \in Entries /\ Samples \subseteq Entries
  <2>1. QueueTypeOK /\ stage \in [Samples -> Stages]
    BY DEF StructInv, TypeInv, TypeOK, RollouterTypeOK
  <2>2. Len(mq) \in Nat
    BY <2>1 DEF QueueTypeOK
  <2>3. None \notin Samples
    BY QueueAssumption DEF Samples, None
  <2>4. QED
    BY <2>1, <2>2, <2>3 DEF Entries
<1>2. ~Failed' => ~Failed
  BY FailedStays
<1>3. ASSUME UNCHANGED <<main, stopping, mq>>,
             tpc' = "done" => tpc = "done" \/ stopping,
             pc \in {"done", "raised"} => pc' = pc
      PROVE  EndSignal'
  BY <1>2, <1>3 DEF EndSignal, EndsStream
<1>4. ASSUME NEW x \in Entries, PutSample(x)
      PROVE  /\ Len(mq') \in Nat \ {0} /\ mq' # <<>> /\ mq'[Len(mq')] = x
             /\ (\A i \in 1..Len(mq) : mq[i] # None) =>
                   \A i \in 1..Len(mq') : mq'[i] = None => x = None /\ i = Len(mq')
  <2>1. PICK d \in {0, 1} :
           /\ Len(mq') = Len(mq) - d + 1
           /\ d <= Len(mq)
           /\ \A i \in 1..(Len(mq') - 1) : mq'[i] = mq[i + d]
           /\ mq'[Len(mq')] = x
    BY <1>1, <1>4, PutEntries
  <2>2. Len(mq') \in Nat \ {0} /\ mq' # <<>>
    <3>1. mq' \in Seq(Entries)
      BY DEF TypeInv, TypeOK, QueueTypeOK
    <3>2. Len(mq') \in Nat \ {0}
      BY <1>1, <2>1
    <3>3. QED
      BY <3>1, <3>2
  <2>3. \A i \in 1..(Len(mq') - 1) : i + d \in 1..Len(mq)
    BY <1>1, <2>1
  <2>4. \A i \in 1..Len(mq') : i # Len(mq') => i \in 1..(Len(mq') - 1)
    BY <2>2
  <2>5. QED
    BY <2>1, <2>2, <2>3, <2>4
<1>5. ASSUME NEW s \in Samples, Put(s), UNCHANGED trainerVars
      PROVE  EndSignal'
  <2>1. /\ PutSample(s) /\ stage[s] = "generated" /\ s \in active /\ s # None
        /\ UNCHANGED <<main, stopping, pc, tpc>>
    BY <1>1, <1>5 DEF Put, workVars, lifeVars, trainerVars, StructInv, Tasks
  <2>2. main = "serving" \/ Failed
    BY <2>1 DEF EndSignal, Progress
  <2>3. main = "serving" => \A i \in 1..Len(mq') : mq'[i] # None
    BY <1>1, <1>4, <2>1 DEF EndSignal
  <2>4. QED
    BY <1>2, <2>1, <2>2, <2>3 DEF EndSignal
<1>6. ASSUME Close, UNCHANGED trainerVars PROVE EndSignal'
  <2>1. /\ main = "serving" /\ main' = "closing" /\ pc \in {"done", "raised"}
        /\ PutSample(None) /\ UNCHANGED <<pc, stopping, tpc>>
    BY <1>6 DEF Close, workVars, trainerVars
  <2>2. EndsStream'
    BY <1>1, <1>4, <2>1 DEF EndSignal, EndsStream
  <2>3. QED
    BY <2>1, <2>2 DEF EndSignal
<1>7. ASSUME Collect PROVE EndSignal'
  <2>1. PICK x \in Entries :
          /\ mq # <<>> /\ x = Head(mq) /\ mq' = Tail(mq)
          /\ stopping' = (x = None)
          /\ tpc = "collect" /\ tpc' # "done" /\ UNCHANGED <<main, pc, stage>>
    BY <1>7 DEF Collect, GetSample, loopVars, workVars, lifeVars
  <2>2. ~stopping
    BY <2>1 DEF StructInv, Phases
  <2>3. /\ 1 \in 1..Len(mq) /\ Len(mq') = Len(mq) - 1 /\ x = mq[1]
        /\ \A i \in 1..Len(mq') : mq'[i] = mq[i + 1]
    BY <1>1, <2>1 DEF QueueTypeOK
  <2>4. \A i \in 1..Len(mq') : i + 1 \in 1..Len(mq)
    BY <1>1, <2>3
  <2>5. main = "serving" => ~stopping' /\ \A i \in 1..Len(mq') : mq'[i] # None
    BY <1>1, <2>1, <2>3, <2>4 DEF EndSignal
  <2>6. ASSUME main # "serving", ~Failed', x = None PROVE stopping' /\ mq' = <<>>
    <3>1. EndsStream
      BY <1>2, <2>2, <2>6 DEF EndSignal
    <3>2. Len(mq) = 1
      BY <1>1, <2>3, <2>6, <3>1 DEF EndsStream
    <3>3. mq' \in Seq(Entries) /\ Len(mq') = 0
      BY <1>1, <2>1, <2>3, <3>2 DEF QueueTypeOK
    <3>4. mq' = <<>>
      BY <3>3
    <3>5. stopping'
      BY <2>1, <2>6
    <3>6. QED
      BY <3>4, <3>5
  <2>7. ASSUME main # "serving", ~Failed', x # None PROVE ~stopping' /\ EndsStream'
    <3>1. EndsStream
      BY <1>2, <2>2, <2>7 DEF EndSignal
    <3>2. Len(mq) # 1
      BY <1>1, <2>3, <2>7, <3>1 DEF EndsStream
    <3>3. Len(mq') \in Nat \ {0} /\ Len(mq') \in 1..Len(mq') /\ Len(mq') + 1 = Len(mq)
      BY <1>1, <2>3, <3>2
    <3>4. mq' # <<>>
      BY <3>3
    <3>5. mq'[Len(mq')] = None
      BY <2>3, <3>1, <3>3 DEF EndsStream
    <3>6. ASSUME NEW i \in 1..Len(mq'), mq'[i] = None PROVE i = Len(mq')
      <4>1. i + 1 = Len(mq)
        BY <2>3, <2>4, <3>1, <3>6 DEF EndsStream
      <4>2. QED
        BY <3>3, <4>1
    <3>7. QED
      BY <2>1, <2>7, <3>4, <3>5, <3>6 DEF EndsStream
  <2>8. QED
    BY <2>1, <2>5, <2>6, <2>7 DEF EndSignal
<1>8. ASSUME Save \/ Stop \/ Load \/ Abort \/ Train PROVE EndSignal'
  <2>1. /\ UNCHANGED <<main, stopping, mq, pc>>
        /\ tpc' = "done" => stopping
    BY <1>8 DEF Save, Stop, Load, Abort, Train, queueVars, loopVars, workVars, lifeVars
  <2>2. QED
    BY <1>3, <2>1
<1>9. ASSUME NEW s \in Samples, EndTask(s) \/ FailTask(s), UNCHANGED trainerVars
      PROVE  EndSignal'
  BY <1>3, <1>9 DEF EndTask, FailTask, queueVars, workVars, lifeVars, trainerVars
<1>10. ASSUME NEW s \in Samples, Generate(s) \/ SendAgain(s) PROVE EndSignal'
  BY <1>3, <1>10 DEF Generate, SendAgain, queueVars, workVars, lifeVars, trainerVars
<1>11. ASSUME Processor, UNCHANGED trainerVars PROVE EndSignal'
  <2>1. pc \notin {"done", "raised"}
    BY <1>11 DEF Processor, SeePause, Pause, Take, AwaitSample, Park, Submit, Return,
                 Queue, AwaitTasks, Reap, GoesOn, WaitOf, Loops
  <2>2. UNCHANGED <<main, stopping, mq, tpc>>
    BY <1>11 DEF Processor, SeePause, Pause, Take, AwaitSample, Park, Submit, Return,
                 Queue, AwaitTasks, Reap, queueVars, lifeVars, trainerVars
  <2>3. QED
    BY <1>3, <2>1, <2>2
<1>12. ASSUME \/ Feed \/ EnterReset \/ QueueReset \/ EndReset \/ Recover
              \/ QueueMonitor \/ Watch \/ EndMonitor, UNCHANGED trainerVars
       PROVE  EndSignal'
  <2>1. /\ UNCHANGED <<main, stopping, mq, tpc>>
        /\ pc \in {"done", "raised"} => pc' = pc
    BY <1>12 DEF Feed, EnterReset, QueueReset, EndReset, Recover, QueueMonitor, Watch,
                 EndMonitor, queueVars, loopVars, workVars, lifeVars, trainerVars,
                 Notified
  <2>2. QED
    BY <1>3, <2>1
<1>13. ASSUME StopRunning, UNCHANGED trainerVars PROVE EndSignal'
  <2>1. /\ main = "closing" /\ main' = "ended"
        /\ UNCHANGED <<stopping, mq, tpc, pc, stage>>
    BY <1>13 DEF StopRunning, queueVars, workVars, trainerVars
  <2>2. QED
    BY <1>2, <2>1 DEF EndSignal, EndsStream
<1>14. ASSUME UNCHANGED vars PROVE EndSignal'
  BY <1>3, <1>14 DEF vars, queueVars, loopVars, workVars, lifeVars, trainerVars
<1>15. QED
  BY <1>5, <1>6, <1>7, <1>8, <1>9, <1>10, <1>11, <1>12, <1>13, <1>14
     DEF Next, Trainer, RollouterNext, Others, AtRest

\* A put moves what it drops out of the queue, and loses nothing else.
LEMMA PutSets ==
  ASSUME QueueTypeOK, QueuedOnce, NEW x \in Entries, PutSample(x)
  PROVE  /\ EntriesOf(mq)' \subseteq EntriesOf(mq) \cup {x}
         /\ x \in EntriesOf(mq)'
         /\ EntriesOf(mq) \cup dropped \subseteq EntriesOf(mq)' \cup dropped'
         /\ dropped \subseteq dropped'
         /\ \A y \in dropped' \ dropped : y \in EntriesOf(mq)
         /\ \A y \in dropped' \ dropped : y # None /\ y # x => y \notin EntriesOf(mq)'
<1> USE QueueAssumption
<1>1. Len(mq) \in Nat
  BY DEF QueueTypeOK
<1>2. CASE Full
  <2>1. /\ mq # <<>> /\ mq' = Append(Tail(mq), x) /\ dropped' = dropped \cup {Head(mq)}
    BY <1>1, <1>2 DEF Full, PutSample, QueueTypeOK
  <2>2. /\ Len(mq) \in Nat \ {0} /\ Len(mq') = Len(mq) /\ Head(mq) = mq[1]
        /\ mq'[Len(mq)] = x
        /\ \A i \in 1..(Len(mq) - 1) : mq'[i] = mq[i + 1]
    BY <2>1 DEF QueueTypeOK
  <2>3. /\ \A i \in 1..(Len(mq) - 1) : /\ i + 1 \in 1..Len(mq) /\ i + 1 # 1
                                       /\ i \in 1..Len(mq)
        /\ \A i \in 1..Len(mq) : i = Len(mq) \/ i \in 1..(Len(mq) - 1)
        /\ \A i \in 1..Len(mq) : i = 1 \/ (i - 1 \in 1..(Len(mq) - 1) /\ i - 1 + 1 = i)
        /\ 1 \in 1..Len(mq) /\ Len(mq) \in 1..Len(mq)
    BY <2>2
  <2>4. EntriesOf(mq)' \subseteq EntriesOf(mq) \cup {x}
    BY <2>2, <2>3 DEF EntriesOf
  <2>5. x \in EntriesOf(mq)'
    BY <2>2, <2>3 DEF EntriesOf
  <2>6. EntriesOf(mq) \subseteq EntriesOf(mq)' \cup {mq[1]}
    <3> SUFFICES ASSUME NEW i \in 1..Len(mq), i # 1 PROVE mq[i] \in EntriesOf(mq)'
      BY DEF EntriesOf
    <3>1. i - 1 \in 1..(Len(mq) - 1) /\ i - 1 + 1 = i /\ i - 1 \in 1..Len(mq)
      BY <2>3
    <3>2. mq'[i - 1] = mq[i]
      BY <2>2, <3>1
    <3>3. QED
      BY <2>2, <3>1, <3>2 DEF EntriesOf
  <2>7. mq[1] \in EntriesOf(mq)
    BY <2>3 DEF EntriesOf
  <2>8. mq[1] # None /\ mq[1] # x => mq[1] \notin EntriesOf(mq)'
    <3> SUFFICES ASSUME mq[1] # None, mq[1] # x, NEW i \in 1..Len(mq), mq'[i] = mq[1]
                 PROVE  FALSE
      BY <2>2 DEF EntriesOf
    <3>1. i \in 1..(Len(mq) - 1)
      BY <2>2, <2>3
    <3>2. mq[i + 1] = mq[1]
      BY <2>2, <3>1
    <3>3. QED
      BY <2>3, <3>1, <3>2 DEF QueuedOnce
  <2>9. QED
    BY <2>1, <2>2, <2>4, <2>5, <2>6, <2>7, <2>8
<1>3. CASE ~Full
  <2>1. mq' = Append(mq, x) /\ dropped' = dropped
    BY <1>3 DEF PutSample
  <2>2. /\ Len(mq') = Len(mq) + 1
        /\ mq'[Len(mq) + 1] = x
        /\ \A i \in 1..Len(mq) : mq'[i] = mq[i]
    BY <2>1 DEF QueueTypeOK
  <2>3. /\ \A i \in 1..Len(mq) : i \in 1..(Len(mq) + 1)
        /\ \A i \in 1..(Len(mq) + 1) : i = Len(mq) + 1 \/ i \in 1..Len(mq)
        /\ Len(mq) + 1 \in 1..(Len(mq) + 1)
    BY <1>1
  <2>4. EntriesOf(mq)' = EntriesOf(mq) \cup {x}
    <3>1. EntriesOf(mq)' \subseteq EntriesOf(mq) \cup {x}
      BY <2>2, <2>3 DEF EntriesOf
    <3>2. x \in EntriesOf(mq)'
      BY <2>2, <2>3 DEF EntriesOf
    <3>3. EntriesOf(mq) \subseteq EntriesOf(mq)'
      BY <2>2, <2>3 DEF EntriesOf
    <3>4. QED
      BY <3>1, <3>2, <3>3
  <2>5. QED
    BY <2>1, <2>4
<1>4. QED
  BY <1>2, <1>3

\* The account of the incomplete batch.
LEMMA WholeBatches ==
  ASSUME NEW n \in Nat, NEW k \in Nat, NEW r \in Nat, NEW b \in Nat,
         b < r, n = k * r + b
  PROVE  n \div r = k
OBVIOUS

\* What was got can be counted.
LEMMA GotFinite == IsFiniteSet(Got) /\ Cardinality(Got) \in Nat
<1>1. IsFiniteSet(Samples)
  BY QueueAssumption, FS_Interval DEF Samples
<1>2. QED
  BY <1>1, FS_Subset, FS_CardinalityType DEF Got

\* A local update is one more, whether it makes a version or not.
LEMMA TrainCounts ==
  ASSUME TypeInv, Train
  PROVE  Updates' = Updates + 1 /\ Updates \in Nat
<1>1. /\ version \in Nat /\ TriggerSteps \in Nat /\ localStep \in 1..TriggerSteps
      /\ localStep - 1 \in Nat
  BY TrainerAssumption DEF TypeInv, TypeOK
<1>2. /\ version * TriggerSteps \in Nat
      /\ (version + 1) * TriggerSteps = version * TriggerSteps + TriggerSteps
  BY <1>1, ProductFacts
<1> DEFINE p == version * TriggerSteps
<1>3. p \in Nat /\ Updates = p + localStep - 1
  BY <1>2 DEF Updates
<1>4. CASE localStep < TriggerSteps
  <2>1. localStep' = localStep + 1 /\ version' = version
    BY <1>4 DEF Train
  <2>2. Updates' = p + (localStep + 1) - 1
    BY <2>1 DEF Updates
  <2>3. QED
    <3> HIDE DEF p
    <3> QED
      BY <1>1, <1>3, <2>2
<1>5. CASE ~(localStep < TriggerSteps)
  <2>1. localStep' = 1 /\ version' = version + 1 /\ localStep = TriggerSteps
    BY <1>1, <1>5 DEF Train
  <2>2. Updates' = p + TriggerSteps + 1 - 1
    BY <1>2, <2>1 DEF Updates
  <2>3. QED
    <3> HIDE DEF p
    <3> QED
      BY <1>1, <1>3, <2>1, <2>2
<1>6. QED
  BY <1>4, <1>5

\* Where no sample is put or got, the account stays.
LEMMA LedgerKept ==
  ASSUME StructInv, Ledger, [Next]_vars, ~\E s \in Samples : Put(s),
         UNCHANGED <<mq, dropped, version, localStep, batch, stopping>>
  PROVE  Ledger'
<1>1. \A t \in Samples : stage'[t] \in {"queued", "done"} <=>
                           stage[t] \in {"queued", "done"}
  BY PlacedMoves
<1>2. EntriesOf(mq)' = EntriesOf(mq)
  BY DEF EntriesOf
<1>3. Got' = Got
  BY <1>1, <1>2 DEF Got
<1>4. Updates' = Updates
  BY DEF Updates
<1>5. dropped \ {None} \subseteq Samples
  BY DEF StructInv, TypeInv, TypeOK, QueueTypeOK, Entries
<1>6. QED
  BY <1>1, <1>2, <1>3, <1>4, <1>5 DEF Ledger

\* Whatever the queue drops is neither got nor in it.
LEMMA PutLedger ==
  ASSUME StructInv, TypeInv', Ledger, NEW x \in Entries, PutSample(x),
         x # None => stage[x] \notin {"queued", "done"},
         \A t \in Samples : stage'[t] \in {"queued", "done"} <=>
                              stage[t] \in {"queued", "done"} \/ t = x,
         UNCHANGED <<version, localStep, batch, stopping>>
  PROVE  Ledger'
<1>1. QueueTypeOK /\ QueuedOnce /\ EntriesOf(mq) \subseteq Entries
  BY DEF StructInv, TypeInv, TypeOK, QueueTypeOK, EntriesOf
<1>2. /\ EntriesOf(mq)' \subseteq EntriesOf(mq) \cup {x}
      /\ x \in EntriesOf(mq)'
      /\ EntriesOf(mq) \cup dropped \subseteq EntriesOf(mq)' \cup dropped'
      /\ dropped \subseteq dropped'
      /\ \A y \in dropped' \ dropped : y \in EntriesOf(mq)
      /\ \A y \in dropped' \ dropped : y # None /\ y # x => y \notin EntriesOf(mq)'
  BY <1>1, PutSets
<1>3. \A y \in EntriesOf(mq) \ {None} : y \in Samples /\ stage[y] \in {"queued", "done"}
  BY <1>1 DEF QueuedOnce, EntriesOf, Entries
<1>4. dropped \subseteq Entries
  BY DEF StructInv, TypeInv, TypeOK, QueueTypeOK
<1>5. ASSUME NEW y \in dropped' \ {None}
      PROVE  stage'[y] \in {"queued", "done"} /\ y \notin EntriesOf(mq)'
  <2>1. CASE y \in dropped
    BY <1>2, <1>4, <2>1 DEF Ledger, Entries
  <2>2. CASE y \notin dropped
    <3>1. y \in Samples /\ stage[y] \in {"queued", "done"}
      BY <1>2, <1>3, <1>5, <2>2
    <3>2. y # x
      BY <1>5, <3>1
    <3>3. QED
      BY <1>2, <1>5, <2>2, <3>1, <3>2
  <2>3. QED
    BY <2>1, <2>2
<1>6. Got' = Got
  <2>1. ASSUME NEW t \in Samples PROVE t \in Got' <=> t \in Got
    <3>1. CASE t = x
      <4>1. x # None /\ stage[x] \notin {"queued", "done"}
        BY <3>1, QueueAssumption DEF Samples, None
      <4>2. QED
        BY <1>2, <3>1, <4>1 DEF Got
    <3>2. CASE t # x
      <4>1. t \in EntriesOf(mq)' \cup dropped' <=> t \in EntriesOf(mq) \cup dropped
        BY <1>2, <3>2
      <4>2. QED
        BY <3>2, <4>1 DEF Got
    <3>3. QED
      BY <3>1, <3>2
  <2>2. QED
    BY <2>1 DEF Got
<1>7. Updates' = Updates
  BY DEF Updates
<1>8. QED
  BY <1>5, <1>6, <1>7 DEF Ledger

\* What the trainer takes from the queue is entered.
LEMMA CollectLedger ==
  ASSUME StructInv, TypeInv', Ledger, Collect
  PROVE  Ledger'
<1>1. PICK x \in Entries :
        /\ mq # <<>> /\ x = Head(mq) /\ mq' = Tail(mq) /\ dropped' = dropped
        /\ stopping' = (x = None)
        /\ batch' = IF x = None THEN <<>> ELSE Append(batch, x)
        /\ tpc = "collect"
        /\ UNCHANGED <<stage, version, localStep>>
  BY DEF Collect, GetSample, loopVars
<1>2. /\ QueueTypeOK /\ ~stopping /\ Len(batch) \in Nat /\ Len(batch) < RequiredSamples
      /\ RequiredSamples \in Nat /\ batch \in Seq(Samples)
  BY <1>1, TrainerAssumption DEF StructInv, Phases, TypeInv, TypeOK
<1>3. Updates' = Updates
  BY <1>1 DEF Updates
<1>4. /\ Len(mq) \in Nat /\ Len(mq') = Len(mq) - 1 /\ mq[1] = x /\ 1 \in 1..Len(mq)
      /\ \A i \in 1..Len(mq') : mq'[i] = mq[i + 1]
  BY <1>1, <1>2 DEF QueueTypeOK
<1>5. /\ \A i \in 1..Len(mq') : i + 1 \in 1..Len(mq) /\ i + 1 # 1
      /\ \A i \in 1..Len(mq) : i = 1 \/ (i - 1 \in 1..Len(mq') /\ i - 1 + 1 = i)
  BY <1>4
<1>6. EntriesOf(mq)' \subseteq EntriesOf(mq)
  BY <1>4, <1>5 DEF EntriesOf
<1>7. EntriesOf(mq) \subseteq EntriesOf(mq)' \cup {x}
  <2> SUFFICES ASSUME NEW i \in 1..Len(mq), i # 1 PROVE mq[i] \in EntriesOf(mq)'
    BY <1>4 DEF EntriesOf
  <2>1. i - 1 \in 1..Len(mq') /\ i - 1 + 1 = i
    BY <1>5
  <2>2. mq'[i - 1] = mq[i]
    BY <1>4, <2>1
  <2>3. QED
    BY <2>1, <2>2 DEF EntriesOf
<1>8. x \in EntriesOf(mq)
  BY <1>4 DEF EntriesOf
<1>9. x # None => x \notin EntriesOf(mq)'
  <2> SUFFICES ASSUME x # None, NEW i \in 1..Len(mq'), mq'[i] = x PROVE FALSE
    BY DEF EntriesOf
  <2>1. i + 1 \in 1..Len(mq) /\ i + 1 # 1 /\ mq[i + 1] = mq[1]
    BY <1>4, <1>5
  <2>2. QED
    BY <1>4, <2>1 DEF StructInv, QueuedOnce
<1>10. \A y \in dropped' \ {None} : stage'[y] \in {"queued", "done"}
                                      /\ y \notin EntriesOf(mq)'
  BY <1>1, <1>6 DEF Ledger
<1>11. CASE x = None
  <2>1. None \notin Samples
    BY QueueAssumption DEF Samples, None
  <2>2. Got' = Got
    BY <1>1, <1>6, <1>7, <1>11, <2>1 DEF Got
  <2>3. Updates \in Nat /\ Cardinality(Got) \in Nat
    <3>1. /\ version \in Nat /\ TriggerSteps \in Nat /\ localStep \in 1..TriggerSteps
      BY TrainerAssumption DEF StructInv, TypeInv, TypeOK
    <3>2. version * TriggerSteps \in Nat /\ localStep - 1 \in Nat
      BY <3>1, ProductFacts
    <3>3. Updates \in Nat
      BY <3>1, <3>2 DEF Updates
    <3>4. QED
      BY <3>3, GotFinite
  <2>4. Cardinality(Got) = Updates * RequiredSamples + Len(batch)
    BY <1>2 DEF Ledger
  <2>5. Cardinality(Got) \div RequiredSamples = Updates
    BY <1>2, <2>3, <2>4, WholeBatches
  <2>6. stopping'
    BY <1>1, <1>11
  <2>7. QED
    BY <1>3, <1>10, <2>2, <2>5, <2>6 DEF Ledger
<1>12. CASE x # None
  <2>1. ~stopping'
    BY <1>1, <1>12
  <2>2. Len(batch') = Len(batch) + 1
    BY <1>1, <1>2, <1>12 DEF Entries
  <2>3. x \in Samples /\ stage[x] \in {"queued", "done"} /\ x \notin dropped
    BY <1>1, <1>4, <1>8, <1>12 DEF StructInv, QueuedOnce, Ledger, Entries
  <2>4. Got' = Got \cup {x} /\ x \notin Got
    <3>1. x \notin Got
      BY <1>8 DEF Got
    <3>2. x \in Got'
      BY <1>1, <1>9, <1>12, <2>3 DEF Got
    <3>3. ASSUME NEW t \in Samples, t # x PROVE t \in Got' <=> t \in Got
      BY <1>1, <1>6, <1>7, <3>3 DEF Got
    <3>4. Got' \subseteq Samples /\ Got \subseteq Samples
      BY DEF Got
    <3>5. QED
      BY <2>3, <3>1, <3>2, <3>3, <3>4
  <2>5. Cardinality(Got') = Cardinality(Got) + 1
    BY <2>4, GotFinite, FS_AddElement
  <2>6. Cardinality(Got) = Updates * RequiredSamples + Len(batch)
    BY <1>2 DEF Ledger
  <2>7. Cardinality(Got') = Updates * RequiredSamples + Len(batch')
    <3> DEFINE p == Updates * RequiredSamples
    <3>1. Cardinality(Got) = p + Len(batch) /\ Cardinality(Got) \in Nat
      BY <2>6, GotFinite
    <3>2. p \in Int
      <4>1. version \in Int /\ TriggerSteps \in Int /\ localStep \in Int
        BY TrainerAssumption DEF StructInv, TypeInv, TypeOK
      <4>2. Updates \in Int
        BY <4>1 DEF Updates
      <4>3. QED
        BY <1>2, <4>2
    <3> HIDE DEF p
    <3>3. Cardinality(Got') = p + Len(batch')
      BY <1>2, <2>2, <2>5, <3>1, <3>2
    <3>4. QED
      BY <3>3 DEF p
  <2>8. QED
    BY <1>3, <1>10, <2>1, <2>7 DEF Ledger
<1>13. QED
  BY <1>11, <1>12

\* The account is kept in every step.
LEMMA LedgerStep ==
  ASSUME StructInv, TypeInv', Ledger, [Next]_vars
  PROVE  Ledger'
<1>1. /\ stage \in [Samples -> Stages] /\ None \notin Samples /\ None \in Entries
      /\ Samples \subseteq Entries
  <2>1. stage \in [Samples -> Stages]
    BY DEF StructInv, TypeInv, TypeOK, RollouterTypeOK
  <2>2. None \notin Samples
    BY QueueAssumption DEF Samples, None
  <2>3. QED
    BY <2>1, <2>2 DEF Entries
<1>2. ASSUME NEW s \in Samples, Put(s), UNCHANGED trainerVars PROVE Ledger'
  <2>1. /\ PutSample(s) /\ stage[s] = "generated"
        /\ stage' = [stage EXCEPT ![s] = "queued"]
        /\ UNCHANGED <<version, localStep, batch, stopping>>
    BY <1>2 DEF Put, trainerVars
  <2>2. \A t \in Samples : stage'[t] \in {"queued", "done"} <=>
                             stage[t] \in {"queued", "done"} \/ t = s
    BY <1>1, <2>1
  <2>3. QED
    BY <1>1, <2>1, <2>2, PutLedger
<1>3. CASE \E s \in Samples : Put(s)
  <2>1. PICK s \in Samples : Put(s)
    BY <1>3
  <2>2. stage[s] = "generated" /\ stage'[s] = "queued" /\ stage' # stage
    BY <1>1, <2>1 DEF Put
  <2>3. ~Collect /\ ~Load /\ ~Train /\ ~Save /\ ~Stop /\ ~UNCHANGED vars
    BY <2>2 DEF Collect, Load, Train, Save, Stop, vars, loopVars
  <2>4. ~Abort /\ \A t \in Samples : ~(Generate(t) \/ SendAgain(t))
    BY <1>1, <2>2 DEF Abort, Generate, SendAgain
  <2>5. UNCHANGED trainerVars
    BY <2>3, <2>4 DEF Next, Trainer, AtRest
  <2>6. QED
    BY <1>2, <2>1, <2>5
<1>4. CASE ~\E s \in Samples : Put(s)
  <2>1. ASSUME UNCHANGED <<mq, dropped, version, localStep, batch, stopping>>
        PROVE  Ledger'
    BY <1>4, <2>1, LedgerKept
  <2>2. ASSUME Close, UNCHANGED trainerVars PROVE Ledger'
    <3>1. /\ PutSample(None) /\ UNCHANGED <<stage, version, localStep, batch, stopping>>
      BY <2>2 DEF Close, trainerVars
    <3>2. \A t \in Samples : stage'[t] \in {"queued", "done"} <=>
                               stage[t] \in {"queued", "done"} \/ t = None
      BY <1>1, <3>1
    <3>3. QED
      BY <1>1, <3>1, <3>2, PutLedger
  <2>3. ASSUME Train PROVE Ledger'
    <3>1. /\ tpc = "train" /\ batch' = <<>>
          /\ UNCHANGED <<mq, dropped, stage, stopping>>
      BY <2>3 DEF Train, queueVars, loopVars
    <3>2. ~stopping /\ Len(batch) = RequiredSamples
      BY <3>1 DEF StructInv, Phases
    <3>3. Updates' = Updates + 1 /\ Updates \in Nat
      BY <2>3, TrainCounts DEF StructInv
    <3>4. EntriesOf(mq)' = EntriesOf(mq)
      BY <3>1 DEF EntriesOf
    <3>5. Got' = Got
      BY <3>1, <3>4 DEF Got
    <3>6. Cardinality(Got) = Updates * RequiredSamples + RequiredSamples
      BY <3>2 DEF Ledger
    <3>7. /\ RequiredSamples \in Nat /\ Len(batch') = 0
          /\ (Updates + 1) * RequiredSamples = Updates * RequiredSamples + RequiredSamples
          /\ (Updates + 1) * RequiredSamples \in Nat
      BY <3>1, <3>3, ProductFacts, TrainerAssumption
    <3>8. Cardinality(Got') = Updates' * RequiredSamples + Len(batch')
      BY <3>3, <3>5, <3>6, <3>7
    <3>9. QED
      BY <3>1, <3>2, <3>4, <3>8 DEF Ledger
  <2>4. ASSUME Abort \/ Load \/ Save \/ Stop PROVE Ledger'
    BY <2>1, <2>4 DEF Abort, Load, Save, Stop, queueVars
  <2>5. ASSUME NEW s \in Samples, Generate(s) \/ SendAgain(s) PROVE Ledger'
    BY <2>1, <2>5 DEF Generate, SendAgain, queueVars, trainerVars
  <2>6. ASSUME NEW s \in Samples, EndTask(s) \/ FailTask(s), UNCHANGED trainerVars
        PROVE  Ledger'
    BY <2>1, <2>6 DEF EndTask, FailTask, queueVars, trainerVars
  <2>7. ASSUME Processor, UNCHANGED trainerVars PROVE Ledger'
    <3>1. UNCHANGED queueVars
      BY <2>7 DEF Processor, SeePause, Pause, Take, AwaitSample, Park, Submit, Return,
                  Queue, AwaitTasks, Reap
    <3>2. QED
      BY <2>1, <2>7, <3>1 DEF queueVars, trainerVars
  <2>8. ASSUME \/ Feed \/ EnterReset \/ QueueReset \/ EndReset \/ Recover
               \/ QueueMonitor \/ Watch \/ EndMonitor \/ StopRunning,
               UNCHANGED trainerVars
        PROVE  Ledger'
    BY <2>1, <2>8 DEF Feed, EnterReset, QueueReset, EndReset, Recover, QueueMonitor,
                      Watch, EndMonitor, StopRunning, queueVars, trainerVars
  <2>9. ASSUME UNCHANGED vars PROVE Ledger'
    BY <2>1, <2>9 DEF vars, queueVars, trainerVars
  <2>10. QED
    BY <1>4, <2>2, <2>3, <2>4, <2>5, <2>6, <2>7, <2>8, <2>9, CollectLedger
       DEF Next, Trainer, RollouterNext, Others, AtRest
<1>5. QED
  BY <1>3, <1>4

\* The order in which the stream ends and the account of it hold in every state.
LEMMA EndInvariant == Spec => [](StructInv /\ EndInv)
<1>1. Init => EndInv
  <2> SUFFICES ASSUME Init PROVE EndInv
    OBVIOUS
  <2>1. Progress
    BY QueueAssumption DEF Init, RollouterInit, Progress, Samples
  <2>2. EndSignal
    BY DEF Init, RollouterInit, QueueInit, EndSignal
  <2>3. Ledger
    <3>1. Got = {}
      BY DEF Init, RollouterInit, Got
    <3>2. Updates = 0 /\ Len(batch) = 0 /\ ~stopping /\ dropped = {}
      <4>1. 0 * TriggerSteps = 0
        BY TrainerAssumption, ProductFacts
      <4>2. QED
        BY <4>1 DEF Init, QueueInit, Updates
    <3>3. 0 * RequiredSamples = 0
      BY TrainerAssumption, ProductFacts
    <3>4. QED
      BY <3>1, <3>2, <3>3, FS_EmptySet DEF Ledger
  <2>4. QED
    BY <2>1, <2>2, <2>3 DEF EndInv
<1>2. StructInv /\ StructInv' /\ EndInv /\ [Next]_vars => EndInv'
  <2>1. StructInv' => TypeInv'
    BY DEF StructInv
  <2>2. QED
    BY <2>1, ProgressStep, EndSignalStep, LedgerStep DEF EndInv
<1>3. QED
  BY <1>1, <1>2, StructInvariant, PTL DEF Spec

\* At the end of the stream, where no task has raised, the updates made are those of
\* the whole batches of the samples not dropped: whatever the order of the coroutines
\* and of the trainer, no sample is lost in between, none is counted twice, and the
\* end signal overtakes none of them.
THEOREM StreamCorrect == Spec => []NothingLeftBehind
<1>1. ASSUME StructInv, EndInv, tpc \in {"stop", "done"}, ~Failed
      PROVE  Updates = (TotalRollout - Cardinality(dropped \ {None})) \div RequiredSamples
  <2>1. stopping
    BY <1>1 DEF StructInv, Phases, EndInv, EndSignal
  <2>2. mq = <<>> /\ pc = "done"
    BY <1>1, <2>1 DEF EndInv, EndSignal, Progress
  <2>3. taken = None /\ active = {}
    BY <1>1, <2>2 DEF EndInv, Progress
  <2>4. \A s \in Samples : stage[s] \in {"queued", "done"}
    <3> SUFFICES ASSUME NEW s \in Samples PROVE stage[s] \in {"queued", "done"}
      OBVIOUS
    <3>1. stage[s] \in Stages
      BY <1>1 DEF StructInv, TypeInv, TypeOK, RollouterTypeOK
    <3>2. ~(s > None) /\ s # None
      BY QueueAssumption DEF Samples, None
    <3>3. stage[s] # "none"
      BY <1>1, <2>3, <3>2 DEF EndInv, Progress
    <3>4. stage[s] \notin {"generating", "aborted", "generated"}
      BY <1>1, <2>3 DEF StructInv, Tasks
    <3>5. stage[s] # "failed"
      BY <1>1 DEF Failed
    <3>6. QED
      BY <3>1, <3>3, <3>4, <3>5 DEF Stages
  <2>5. EntriesOf(mq) = {}
    BY <2>2 DEF EntriesOf
  <2>6. dropped \ {None} \subseteq Samples
    BY <1>1 DEF StructInv, TypeInv, TypeOK, QueueTypeOK, Entries
  <2>7. None \notin Samples
    BY QueueAssumption DEF Samples, None
  <2>8. Got = Samples \ (dropped \ {None})
    BY <2>4, <2>5, <2>6, <2>7 DEF Got
  <2>9. /\ IsFiniteSet(Samples) /\ Cardinality(Samples) = TotalRollout
    BY QueueAssumption, FS_Interval DEF Samples
  <2>10. Cardinality(Got) = TotalRollout - Cardinality(dropped \ {None})
    <3>1. Samples \cap (dropped \ {None}) = dropped \ {None}
      BY <2>6
    <3>2. Cardinality(Samples \ (dropped \ {None})) =
            Cardinality(Samples) - Cardinality(Samples \cap (dropped \ {None}))
      BY <2>9, FS_Difference
    <3>3. QED
      BY <2>8, <2>9, <3>1, <3>2
  <2>11. QED
    BY <1>1, <2>1, <2>10 DEF EndInv, Ledger
<1>2. StructInv /\ EndInv => NothingLeftBehind
  BY <1>1 DEF NothingLeftBehind
<1>3. QED
  BY <1>2, EndInvariant, PTL
===============================================================================
