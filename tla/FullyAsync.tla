----------------------------- MODULE FullyAsync -----------------------------
(***************************************************************************)
(* The fully asynchronous pipeline: the rollouter and its message queue,   *)
(* the inference servers, and the trainer                                  *)
(* (verl/experimental/fully_async_policy/fully_async_trainer.py), which    *)
(* updates the weights of the servers through CheckpointEngineManager      *)
(* (verl/checkpoint_engine/base.py).                                       *)
(***************************************************************************)
EXTENDS FullyAsyncRollouter

CONSTANTS
  RequiredSamples,  \* samples of one local update
  TriggerSteps,     \* trigger_parameter_sync_step
  SaveFreq,         \* save_freq
  TestFreq,         \* test_freq
  PartialRollout    \* partial_rollout

\* int(required_samples * (staleness_threshold + 1) * trigger), with a
\* threshold that is not negative
ASSUME TrainerAssumption ==
  /\ RequiredSamples \in Nat \ {0}
  /\ TriggerSteps \in Nat \ {0}
  /\ MaxRequired >= RequiredSamples * TriggerSteps
  /\ SaveFreq \in Nat \ {0}
  /\ TestFreq \in Nat \ {0}
  /\ PartialRollout \in BOOLEAN

VARIABLES
  version,          \* current_param_version
  localStep,        \* local_trigger_step
  batch,            \* the samples gathered for the next local update
  lastCkpt,         \* last_ckpt_version
  tpc,              \* where the trainer is
  stopping,         \* it has met None
  enginePaused      \* between abort_all_requests and resume_generation

trainerVars == <<version, localStep, batch, lastCkpt, tpc, stopping>>
serverVars == <<enginePaused>>
vars == <<queueVars, loopVars, trainerVars, serverVars>>

TypeOK ==
  /\ QueueTypeOK
  /\ RollouterTypeOK
  /\ version \in Nat
  /\ localStep \in 1..TriggerSteps
  /\ batch \in Seq(Samples)
  /\ lastCkpt \in Nat
  /\ tpc \in {"collect", "train", "stop", "sync", "load", "save",
              "done"}
  /\ stopping \in BOOLEAN
  /\ enginePaused \in BOOLEAN

Init ==
  /\ QueueInit
  /\ RollouterInit
  /\ version = 0
  /\ localStep = 1
  /\ batch = <<>>
  /\ lastCkpt = 0
  /\ tpc = "collect"
  /\ stopping = FALSE
  /\ enginePaused = FALSE

(***************************************************************************)
(* The servers                                                             *)
(***************************************************************************)
\* The last request of s is answered.
Generate(s) ==
  /\ stage[s] = "generating"
  /\ ~enginePaused
  /\ stage' = [stage EXCEPT ![s] = "generated"]
  /\ UNCHANGED <<queueVars, fed, workVars, lockVars, callVars, lifeVars,
                 trainerVars, serverVars>>

\* abort_all_requests: without partial_rollout what there is of an aborted
\* request is the answer.  One still on its way to the engine is not aborted.
Abort ==
  /\ tpc = "sync"
  /\ tpc' = "load"
  /\ enginePaused' = TRUE
  /\ \E aborted \in SUBSET {s \in Samples : stage[s] = "generating"} :
       stage' = [s \in Samples |->
                   IF s \notin aborted THEN stage[s]
                   ELSE IF PartialRollout THEN "aborted" ELSE "generated"]
  /\ UNCHANGED <<queueVars, fed, workVars, lockVars, callVars, lifeVars,
                 version, localStep, batch, lastCkpt, stopping>>

\* With partial_rollout the client sends an aborted request again, with what was
\* generated so far, to an engine that may still be paused.
SendAgain(s) ==
  /\ stage[s] = "aborted"
  /\ stage' = [stage EXCEPT ![s] = "generating"]
  /\ UNCHANGED <<queueVars, fed, workVars, lockVars, callVars, lifeVars,
                 trainerVars, serverVars>>

\* Mutant: generation is not resumed.
MutPausedAfterLoad == TRUE

PausedAfterLoad == FALSE

\* The weights are sent, generation resumes and reset_staleness is called.
Load ==
  /\ tpc = "load"
  /\ tpc' = "save"
  /\ enginePaused' = PausedAfterLoad
  /\ reset' = "called"
  /\ UNCHANGED <<queueVars, fed, stage, workVars, lockVars, sized, lifeVars,
                 version, localStep, batch, lastCkpt, stopping>>

(***************************************************************************)
(* The trainer                                                             *)
(***************************************************************************)
\* _get_samples_from_queue: one sample more, or the end of the stream, at
\* which an incomplete batch is given up.
Collect ==
  /\ tpc = "collect"
  /\ \E x \in Entries :
       /\ GetSample(x)
       /\ stopping' = (x = None)
       /\ batch' = IF x = None THEN <<>> ELSE Append(batch, x)
       /\ tpc' = CASE x = None                      -> "stop"
                  [] Len(batch') = RequiredSamples  -> "train"
                  [] OTHER                          -> "collect"
  /\ UNCHANGED <<loopVars, serverVars, version, localStep, lastCkpt>>

\* fit_step up to _fit_update_local_step: a local update, and after every
\* TriggerSteps of them a new version, which the servers are to get.
Train ==
  /\ tpc = "train"
  /\ batch' = <<>>
  /\ IF localStep < TriggerSteps
     THEN /\ localStep' = localStep + 1
          /\ tpc' = "collect"
          /\ UNCHANGED version
     ELSE /\ localStep' = 1
          /\ version' = version + 1
          /\ tpc' = "sync"
  /\ UNCHANGED <<queueVars, loopVars, serverVars, lastCkpt, stopping>>

\* _fit_save_checkpoint, once reset_staleness has returned; forced at the end
\* of fit.
Save ==
  /\ tpc = "save"
  /\ reset = "idle"
  /\ lastCkpt' = IF stopping \/ version % SaveFreq = 0 THEN version ELSE lastCkpt
  /\ tpc' = IF stopping THEN "done" ELSE "collect"
  /\ UNCHANGED <<queueVars, loopVars, serverVars, version, localStep, batch,
                 stopping>>

\* The end of fit: the weights are sent once more if this version was not
\* validated, unless local updates of the next version were made.
Stop ==
  /\ tpc = "stop"
  /\ tpc' = IF version % TestFreq # 0 /\ localStep = 1 THEN "sync" ELSE "save"
  /\ UNCHANGED <<queueVars, loopVars, serverVars, version, localStep, batch,
                 lastCkpt, stopping>>

Trainer == Abort \/ Load \/ Collect \/ Train \/ Save \/ Stop

\* Both components have ended.
AtRest ==
  /\ tpc = "done"
  /\ FitReturned
  /\ UNCHANGED vars

Next ==
  \/ Trainer
  \/ \E s \in Samples : Generate(s) \/ SendAgain(s)
  \/ RollouterNext /\ UNCHANGED <<trainerVars, serverVars>>
  \/ AtRest

\* The loop runs every coroutine that is ready, the servers answer, the
\* monitor wakes, and the trainer goes on.
Fairness ==
  /\ WF_vars(Trainer)
  /\ WF_vars(Processor /\ UNCHANGED <<trainerVars, serverVars>>)
  /\ WF_vars(Feed /\ UNCHANGED <<trainerVars, serverVars>>)
  /\ WF_vars((EnterReset \/ QueueReset \/ EndReset)
                /\ UNCHANGED <<trainerVars, serverVars>>)
  /\ WF_vars((Recover \/ QueueMonitor \/ EndMonitor)
                /\ UNCHANGED <<trainerVars, serverVars>>)
  /\ WF_vars((Close \/ StopRunning) /\ UNCHANGED <<trainerVars, serverVars>>)
  /\ \A s \in Samples :
       /\ WF_vars(Generate(s))
       /\ WF_vars(SendAgain(s))
       /\ WF_vars((Put(s) \/ EndTask(s)) /\ UNCHANGED <<trainerVars, serverVars>>)

Spec == Init /\ [][Next]_vars
FairSpec == Spec /\ Fairness

(***************************************************************************)
(* Properties                                                              *)
(***************************************************************************)
Failed == \E s \in Samples : stage[s] = "failed"

\* The samples the rollouter has taken on and the trainer has not yet got.
Hand == IF pc \in {"slot", "slotWait"} THEN {taken} ELSE {}
Backlog ==
  Hand \cup {s \in Samples : stage[s] \in {"generating", "aborted", "generated"}}
       \cup (EntriesOf(mq) \ {None})

\* The samples the trainer has got since the servers last got new weights.
Consumed ==
  CASE stopping                                       -> 0
    [] ~stopping /\ (tpc \in {"sync", "load"} \/ reset # "idle")
                                                      -> RequiredSamples * TriggerSteps
    [] OTHER                    -> (localStep - 1) * RequiredSamples + Len(batch)

\* What the README of the pipeline promises: between two synchronizations the
\* rollouter takes on at most max_required_samples less those it had left over.
AtMostRolloutNum == Cardinality(Backlog) + Consumed <= MaxRequired

\* What the code keeps, whatever the order of the coroutines: one more, the
\* sample that reset_staleness does not see because the processor has it in hand.
StaleBounded == Cardinality(Backlog) + Consumed <= MaxRequired + 1

\* The updates made are those of the whole batches that the samples not
\* dropped make: no sample is left behind at the end of the stream.
Updates == version * TriggerSteps + localStep - 1
NothingLeftBehind ==
  tpc \in {"stop", "done"} /\ ~Failed =>
    Updates = (TotalRollout - Cardinality(dropped \ {None})) \div RequiredSamples

\* What the README promises in every mode: a trainer that waits for a sample gets
\* it, or the end of the stream.
TrainerIsServed == tpc = "collect" ~> tpc # "collect"

\* The staleness threshold leaves room for every task that may be running:
\* reset_staleness counts those that have put their sample but are not reaped.
RoomForTasks == MaxConcurrent <= MaxRequired - RequiredSamples * TriggerSteps

\* With that room the job is over in the end: the trainer returns even if a task
\* raises, and without an exception the rollouter returns too.  A pause whose
\* reason is gone is lifted, an aborted request is sent again and answered, and
\* nobody waits for samples that will not come.
JobEnds == RoomForTasks => <>(tpc = "done" /\ (Failed \/ FitReturned))
=============================================================================
