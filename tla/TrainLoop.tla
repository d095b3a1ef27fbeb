----------------------------- MODULE TrainLoop -----------------------------
(***************************************************************************)
(* RayPPOTrainer.fit and the jobs that run it: a job resumes from the      *)
(* latest checkpoint, takes batches from a stateful loader, gathers        *)
(* prompts whose rewards differ, updates critic and actor, validates,      *)
(* saves, and may die between any two steps; the next job starts from what *)
(* is on disk.                                                             *)
(*                                                                         *)
(* The weights of a role are the batches its updates have learnt from, one *)
(* set of batches per update.                                              *)
(***************************************************************************)
EXTENDS CheckpointManager

CONSTANTS
  TotalSteps,       \* total_training_steps
  TotalEpochs,      \* trainer.total_epochs
  EpochLength,      \* len(train_dataloader)
  SaveFreq,         \* trainer.save_freq
  TestFreq,         \* trainer.test_freq (with a val_reward_fn)
  CriticWarmup,     \* trainer.critic_warmup
  FilterGroups,     \* algorithm.filter_groups.enable
  TrainBatchSize,   \* data.train_batch_size, the prompts of a batch
  MaxGenBatches,    \* algorithm.filter_groups.max_num_gen_batches
  ResumeModes,      \* the resume_mode a job may be given
  PathStep,         \* the step of the path in resume_mode or resume_from_path
  ResumeFromPath,   \* resume_from_path is set
  ValOnly,          \* whether a job may or must have val_only, and val_before_train
  MaxJobs           \* bound: jobs launched on the same directory

ASSUME TrainAssumption ==
  /\ {TotalSteps, TotalEpochs, EpochLength, TrainBatchSize, MaxJobs}
       \subseteq Nat \ {0}
  /\ TotalSteps + MaxJobs <= MaxStep
  /\ {SaveFreq, TestFreq, MaxGenBatches} \subseteq Int
  /\ CriticWarmup \in Nat
  /\ {FilterGroups, ResumeFromPath} \subseteq BOOLEAN
  /\ ResumeModes \subseteq {"disable", "auto", "path", "resume_path"}
  /\ ResumeModes # {}
  /\ ValOnly \subseteq BOOLEAN /\ ValOnly # {}
  /\ PathStep \in Steps

VARIABLES
  pc,           \* where fit is
  jobs,         \* jobs launched so far
  resumeMode,   \* resume_mode of this job
  globalSteps,  \* global_steps
  weights,      \* of each role
  loader,       \* the state of train_dataloader
  epoch,        \* the counter of the epoch loop
  pending,      \* batches gathered in batch
  keptPrompts,  \* num_prompt_in_batch
  genBatches,   \* num_gen_batches
  validated,    \* last_val_metrics is bound
  saving,       \* the role being saved, by position in Roles
  dataFile,     \* data.pt of each step
  tracker,      \* latest_checkpointed_iteration.txt
  completed     \* history: the last step whose _save_checkpoint returned

gathering == <<pending, keptPrompts, genBatches>>
memory == <<globalSteps, weights, loader, epoch, gathering, validated, saving>>
store == <<dataFile, tracker>>
vars == <<pc, jobs, resumeMode, memory, store, completed, managerVars>>

\* passed counts the batches ever taken, yielded those of this epoch.  A state
\* that was loaded continues its epoch, with no batch if it had taken them all.
FreshLoader == [yielded |-> 0, passed |-> 0, loaded |-> FALSE]

NoTracker == [state |-> "missing", step |-> 0]
NoWeights == [role \in RoleSet |-> <<>>]

\* The role that learns in every step: the actor may wait for critic_warmup.
Learner == IF UseCritic THEN "critic" ELSE "actor"

\* Mutant: one step too many.
MutPastLast == globalSteps > TotalSteps

IsLastStep == globalSteps >= TotalSteps

Init ==
  /\ ManagerInit
  /\ pc = "start"
  /\ jobs = 1
  /\ resumeMode \in ResumeModes
  /\ globalSteps = 0
  /\ weights = NoWeights
  /\ loader = FreshLoader
  /\ epoch = 0
  /\ pending = <<>>
  /\ keptPrompts = 0
  /\ genBatches = 0
  /\ validated = FALSE
  /\ saving = 0
  /\ dataFile = [s \in Steps |-> Absent]
  /\ tracker = NoTracker
  /\ completed = 0

---------------------------------------------------------------------------
\* _load_checkpoint

\* Mutant: any checkpoint that has a folder.
MutHighestFolder ==
  IF folders = {} THEN 0 ELSE CHOOSE s \in folders : \A u \in folders : u <= s

\* find_latest_ckpt_path: 0 for None.
LatestStep ==
  IF tracker.state = "number" /\ tracker.step \in folders THEN tracker.step ELSE 0

\* With resume_from_path set, an existing latest checkpoint is taken whatever
\* the path; otherwise resume_mode itself has to be a path.
TakesLatest ==
  resumeMode = "auto" \/ (ResumeFromPath /\ LatestStep # 0)

\* The step whose folder is loaded, 0 to start from scratch.
StepToResume ==
  IF resumeMode = "disable" THEN 0
  ELSE IF TakesLatest THEN LatestStep ELSE PathStep

\* int('') of an empty tracker raises, whatever the mode that reads it;
\* 'resume_path' is no path.
CannotResume ==
  /\ resumeMode # "disable"
  /\ \/ tracker.state = "empty"
     \/ resumeMode = "resume_path" /\ ~TakesLatest
     \/ /\ StepToResume # 0
        /\ \/ \E role \in RoleSet : ~Loadable(StepToResume, role)
           \/ dataFile[StepToResume].state = "torn"

\* Mutant: the loader starts over.
MutLoaderStartsOver(step) == FreshLoader

\* A missing data.pt only prints a warning.
ResumedLoader(step) ==
  IF dataFile[step].state = "absent" THEN FreshLoader
  ELSE [dataFile[step].holds[1] EXCEPT !.loaded = TRUE]

\* Mutant: the saved step is done again.
MutRepeatStep(step) == step

\* "we start from step 1"
FirstStepAfter(step) == step + 1

\* From the start of fit to its first step, or to its return behind the initial
\* validation with val_only.
Resume ==
  /\ pc = "start"
  /\ IF CannotResume
     THEN /\ pc' = "raised"
          /\ UNCHANGED memory
     ELSE /\ \/ /\ FALSE \in ValOnly
                /\ pc' = "epoch"
                /\ globalSteps' = FirstStepAfter(StepToResume)
             \/ /\ TRUE \in ValOnly
                /\ pc' = "returned"
                /\ globalSteps' = StepToResume
          /\ IF StepToResume = 0 THEN UNCHANGED <<weights, loader>>
             ELSE /\ weights' = [role \in RoleSet |-> Loaded(StepToResume, role)]
                  /\ loader' = ResumedLoader(StepToResume)
          /\ UNCHANGED <<epoch, gathering, validated, saving>>
  /\ UNCHANGED <<jobs, resumeMode, store, completed, managerVars>>

---------------------------------------------------------------------------
\* fit

\* The head of the epoch loop; the job returns when it is exhausted.
StartEpoch ==
  /\ pc = "epoch"
  /\ IF epoch < TotalEpochs
     THEN /\ pc' = "fetch"
          /\ loader' = [loader EXCEPT !.loaded = FALSE,
                          !.yielded = IF loader.loaded THEN @ ELSE 0]
     ELSE /\ pc' = "returned"
          /\ UNCHANGED loader
  /\ UNCHANGED <<jobs, resumeMode, globalSteps, weights, epoch, gathering, validated, saving>>
  /\ UNCHANGED <<store, completed, managerVars>>

EndEpoch ==
  /\ pc = "fetch"
  /\ loader.yielded = EpochLength
  /\ pc' = "epoch"
  /\ epoch' = epoch + 1
  /\ UNCHANGED <<jobs, resumeMode, globalSteps, weights, loader, gathering, validated, saving>>
  /\ UNCHANGED <<store, completed, managerVars>>

\* With filter_groups, kept of the batch's prompts have rewards that differ:
\* too few, and the next batch joins them, up to max_num_gen_batches.
FetchBatch(kept) ==
  /\ pc = "fetch"
  /\ loader.yielded < EpochLength
  /\ loader' = [loader EXCEPT !.yielded = @ + 1, !.passed = @ + 1]
  /\ pending' = Append(pending, loader.passed + 1)
  /\ genBatches' = genBatches + 1
  /\ keptPrompts' = IF FilterGroups THEN keptPrompts + kept ELSE 0
  /\ pc' = IF ~FilterGroups \/ keptPrompts + kept >= TrainBatchSize THEN "update"
           ELSE IF MaxGenBatches <= 0 \/ genBatches + 1 < MaxGenBatches
           THEN "fetch" ELSE "raised"
  /\ UNCHANGED <<jobs, resumeMode, globalSteps, weights, epoch, validated, saving>>
  /\ UNCHANGED <<store, completed, managerVars>>

\* The critic learns in every step, the actor from critic_warmup on.
Update ==
  /\ pc = "update"
  /\ weights' = [role \in RoleSet |->
       IF role = "critic" \/ CriticWarmup <= globalSteps
       THEN Append(weights[role], pending) ELSE weights[role]]
  /\ pc' = "validate"
  /\ UNCHANGED <<jobs, resumeMode, globalSteps, loader, epoch, gathering, validated, saving>>
  /\ UNCHANGED <<store, completed, managerVars>>

Validates == TestFreq > 0 /\ (IsLastStep \/ globalSteps % TestFreq = 0)

\* Mutant: a step is saved only if it was validated.
MutSaves == Validates /\ SaveFreq > 0 /\ globalSteps % SaveFreq = 0

Saves == SaveFreq > 0 /\ globalSteps % SaveFreq = 0

Validate ==
  /\ pc = "validate"
  /\ validated' = (validated \/ (Validates /\ IsLastStep))
  /\ pc' = IF Saves THEN "save" ELSE "log"
  /\ saving' = 1
  /\ UNCHANGED <<jobs, resumeMode, globalSteps, weights, loader, epoch, gathering>>
  /\ UNCHANGED <<store, completed, managerVars>>

\* _save_checkpoint saves the actor, then the critic, ...
SaveRole ==
  /\ pc = "save"
  /\ pc' = "saving"
  /\ CallSave
  /\ UNCHANGED <<jobs, resumeMode, memory, store, completed>>

RankSaves(r) ==
  /\ pc = "saving"
  /\ RankStep(r, Roles[saving], globalSteps, weights[Roles[saving]])
  /\ UNCHANGED <<pc, jobs, resumeMode, memory, store, completed>>

\* Mutant: the actor is saved again instead of the critic.
MutSameRole ==
  IF saving < Len(Roles) THEN [pc |-> "save", saving |-> saving]
  ELSE [pc |-> "open_data", saving |-> saving]

AfterRole ==
  IF saving < Len(Roles) THEN [pc |-> "save", saving |-> saving + 1]
  ELSE [pc |-> "open_data", saving |-> saving]

RoleSaved ==
  /\ pc = "saving"
  /\ SaveReturned
  /\ pc' = AfterRole.pc
  /\ saving' = AfterRole.saving
  /\ stage' = [r \in Ranks |-> "idle"]
  /\ UNCHANGED <<jobs, resumeMode, globalSteps, weights, loader, epoch, gathering, validated>>
  /\ UNCHANGED <<store, completed, disk, savedPaths, written>>

\* ... then the loader's state, ...
OpenData ==
  /\ pc = "open_data"
  /\ dataFile' = [dataFile EXCEPT ![globalSteps] = Torn]
  /\ pc' = "write_data"
  /\ UNCHANGED <<jobs, resumeMode, memory, tracker, completed, managerVars>>

WriteData ==
  /\ pc = "write_data"
  /\ dataFile' = [dataFile EXCEPT ![globalSteps] = Whole(<<loader>>)]
  /\ pc' = "open_tracker"
  /\ UNCHANGED <<jobs, resumeMode, memory, tracker, completed, managerVars>>

\* ... and names the step in the tracker, which open(..., 'w') empties first.
OpenTracker ==
  /\ pc = "open_tracker"
  /\ tracker' = [state |-> "empty", step |-> 0]
  /\ pc' = "write_tracker"
  /\ UNCHANGED <<jobs, resumeMode, memory, dataFile, completed, managerVars>>

WriteTracker ==
  /\ pc = "write_tracker"
  /\ tracker' = [state |-> "number", step |-> globalSteps]
  /\ completed' = globalSteps
  /\ pc' = "log"
  /\ UNCHANGED <<jobs, resumeMode, memory, dataFile, managerVars>>

\* The last step prints last_val_metrics: UnboundLocalError if it did not
\* validate.
EndStep ==
  /\ pc = "log"
  /\ IF IsLastStep
     THEN /\ pc' = IF validated THEN "returned" ELSE "raised"
          /\ UNCHANGED <<globalSteps, gathering>>
     ELSE /\ pc' = "fetch"
          /\ globalSteps' = globalSteps + 1
          /\ pending' = <<>>
          /\ keptPrompts' = 0
          /\ genBatches' = 0
  /\ UNCHANGED <<jobs, resumeMode, weights, loader, epoch, validated, saving>>
  /\ UNCHANGED <<store, completed, managerVars>>

---------------------------------------------------------------------------
\* Jobs

Forget ==
  /\ globalSteps' = 0
  /\ weights' = NoWeights
  /\ loader' = FreshLoader
  /\ epoch' = 0
  /\ pending' = <<>>
  /\ keptPrompts' = 0
  /\ genBatches' = 0
  /\ validated' = FALSE
  /\ saving' = 0
  /\ ManagersDie

\* A machine fails, the job is killed, or one of its calls raises.
Die ==
  /\ pc \notin {"down", "returned", "raised"}
  /\ jobs < MaxJobs
  /\ pc' = "down"
  /\ Forget
  /\ UNCHANGED <<jobs, resumeMode, store, completed>>

\* The next job on the same directory.
Launch ==
  /\ pc \in {"down", "returned", "raised"}
  /\ jobs < MaxJobs
  /\ jobs' = jobs + 1
  /\ resumeMode' \in ResumeModes
  /\ pc' = "start"
  /\ Forget
  /\ UNCHANGED <<store, completed>>

Stopped ==
  /\ pc \in {"returned", "raised"}
  /\ jobs = MaxJobs
  /\ UNCHANGED vars

Trainer ==
  \/ Resume \/ StartEpoch \/ EndEpoch \/ Update \/ Validate
  \/ SaveRole \/ RoleSaved
  \/ OpenData \/ WriteData \/ OpenTracker \/ WriteTracker
  \/ EndStep
  \/ \E kept \in 0..TrainBatchSize : FetchBatch(kept)

Next ==
  \/ Trainer
  \/ \E r \in Ranks : RankSaves(r)
  \/ Die \/ Launch \/ Stopped

\* A job that lives takes its next step, and the operator launches the next
\* job after one that died; nothing makes a job die.
Fairness ==
  /\ WF_vars(Trainer)
  /\ \A r \in Ranks : WF_vars(RankSaves(r))
  /\ WF_vars(pc = "down" /\ Launch)

Spec == Init /\ [][Next]_vars /\ Fairness
---------------------------------------------------------------------------
\* Properties

TrainTypeOK ==
  /\ ManagerTypeOK
  /\ pc \in {"start", "epoch", "fetch", "update", "validate", "save", "saving",
             "open_data", "write_data", "open_tracker", "write_tracker", "log",
             "returned", "raised", "down"}
  /\ jobs \in 1..MaxJobs
  /\ globalSteps \in 0..(TotalSteps + jobs - 1)
  /\ loader.yielded \in 0..EpochLength
  /\ epoch \in 0..TotalEpochs
  /\ keptPrompts \in 0..(2 * TrainBatchSize - 1)
  /\ saving \in 0..Len(Roles)
  /\ tracker.step \in 0..MaxStep

\* Every file of the step was written from the same update, and the loader's
\* state from the batch that update learnt from last.
CompleteAt(step) ==
  /\ \A role \in RoleSet : \A r \in Ranks : \A k \in 1..Len(SaveContents) :
       files[step][role][r][k] = Whole(Loaded(step, role))
  /\ dataFile[step].state = "whole"
  /\ CriticWarmup <= 1 \/ UseCritic =>
       Last(Last(Loaded(step, Learner))) = dataFile[step].holds[1].passed

\* The tracker is the last thing a save writes: a checkpoint it names is all
\* there, on every rank, whenever the job dies and whatever was removed.
TrackerNamesComplete ==
  tracker.state = "number" => CompleteAt(tracker.step)

Trains == pc \in {"epoch", "fetch", "update", "validate", "save", "saving",
                  "open_data", "write_data", "open_tracker", "write_tracker", "log"}

\* However often the training is interrupted, what has been learnt from and
\* what is being gathered are the batches from the first to the last one taken,
\* each once: no batch is skipped or seen twice.
EachBatchOnce ==
  Trains =>
    LET taken == FlattenSeq(weights[Learner])
                   \o (IF pc \in {"epoch", "fetch", "update"} THEN pending ELSE <<>>)
    IN  taken = [i \in 1..loader.passed |-> i]

\* global_steps counts updates across jobs: the step a job resumes at is the
\* one after the last update it loaded.
StepsCountUpdates ==
  pc = "update" => Len(weights[Learner]) = globalSteps - 1

\* A job that resumes goes on from the last save that completed, never from
\* an older one.
ResumesFromLastSave ==
  resumeMode = "auto" /\ pc = "epoch" /\ epoch = 0 =>
    globalSteps = completed + 1

\* The updates of the learner that a job resuming now would have to repeat.
Unsaved == Len(weights[Learner]) - LatestStep

\* The step has learnt, and is saved next if it is to be.
SaveDue == pc \in {"validate", "save", "saving", "open_data", "write_data",
                   "open_tracker", "write_tracker"}

\* However a job ends, killed between two steps, out of epochs before its last
\* step or behind a last step that save_freq does not divide, fewer than save_freq
\* updates are lost, and one more only while the save that is due is under way.
LosesFewUpdates ==
  SaveFreq > 0 /\ tracker.state # "empty" =>
    Unsaved < SaveFreq + (IF SaveDue THEN 1 ELSE 0)

\* Once a save has completed, the tracker always holds a number.
TrackerReadable == completed # 0 /\ pc = "start" => tracker.state = "number"

\* Jobs end: no barrier is waited on for ever, and no batch is gathered for.
JobsEnd == <>[](pc \in {"returned", "raised"})
===========================================================================
