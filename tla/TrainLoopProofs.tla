--------------------------- MODULE TrainLoopProofs ---------------------------
(***************************************************************************)
(* TrainLoop for any number of ranks, steps, epochs and jobs.              *)
(***************************************************************************)
EXTENDS TrainLoop, FoldLemmas, SequenceTheorems, TLAPS

---------------------------------------------------------------------------
\* Types

FileStates == {"absent", "torn", "whole"}
Batches == Seq(Seq(Nat))
Loaders == [yielded : 0..EpochLength, passed : Nat, loaded : BOOLEAN]
Shards == [state : FileStates, holds : Batches]
Contents == 1..Len(SaveContents)
ShardFiles == [Steps -> [RoleSet -> [Ranks -> [Contents -> Shards]]]]
DataFiles == [state : FileStates, holds : Seq(Loaders)]
Trackers == [state : {"missing", "empty", "number"}, step : 0..MaxStep]
Stages == {"idle", "enter", "write", "writing", "written", "returned"}

\* The places of fit before the update of a step, and after it.
Learning == {"epoch", "fetch", "update"}
Learnt == {"validate", "save", "saving", "open_data", "write_data", "open_tracker",
           "write_tracker", "log"}
Running == Learning \cup Learnt

Types ==
  /\ folders \subseteq Steps
  /\ files \in ShardFiles
  /\ savedPaths \in [RoleSet -> Seq(Steps)]
  /\ stage \in [Ranks -> Stages]
  /\ written \in [Ranks -> 0..Len(SaveContents)]
  /\ pc \in Running \cup {"start", "returned", "raised", "down"}
  /\ jobs \in 1..MaxJobs
  /\ resumeMode \in ResumeModes
  /\ globalSteps \in Nat
  /\ weights \in [RoleSet -> Batches]
  /\ loader \in Loaders
  /\ epoch \in 0..TotalEpochs
  /\ pending \in Seq(Nat)
  /\ keptPrompts \in 0..(2 * TrainBatchSize - 1)
  /\ genBatches \in Nat
  /\ validated \in BOOLEAN
  /\ saving \in 0..Len(Roles)
  /\ dataFile \in [Steps -> DataFiles]
  /\ tracker \in Trackers
  /\ completed \in 0..MaxStep

\* What is true of the steps, the epoch and the gathered prompts at each place.
Places ==
  /\ globalSteps <= TotalSteps + jobs - 1
  /\ pc \in Running => globalSteps # 0
  /\ pc \in Running \ {"epoch"} => epoch < TotalEpochs
  /\ pc \in {"epoch", "fetch"} => keptPrompts < TrainBatchSize
  /\ pc \in {"save", "saving"} => saving # 0
  /\ pc = "start" => /\ globalSteps = 0 /\ weights = NoWeights
                     /\ loader = FreshLoader /\ epoch = 0
                     /\ pending = <<>> /\ keptPrompts = 0
                     /\ savedPaths = [role \in RoleSet |-> <<>>]

\* Where the ranks are in save_checkpoint, and how much they have written.
RanksInStep ==
  /\ pc # "saving" => \A r \in Ranks : stage[r] = "idle"
  /\ \A r \in Ranks :
       /\ pc = "saving" => stage[r] # "idle"
       /\ stage[r] = "enter" => written[r] = 0
       /\ stage[r] \in {"write", "writing"} => written[r] < Len(SaveContents)
       /\ stage[r] \in {"written", "returned"} => written[r] = Len(SaveContents)

\* A file was written in a step that this job, or one before it, has reached.
Reached ==
  \A s \in Steps : \A role \in RoleSet : \A r \in Ranks : \A k \in Contents :
    files[s][role][r][k].state # "absent" =>
      s <= TotalSteps + jobs - (IF pc = "start" THEN 2 ELSE 1)

\* What a file holds that was closed: the loader, and a step.
Closed ==
  /\ \A s \in Steps : dataFile[s].state = "whole" => Len(dataFile[s].holds) = 1
  /\ tracker.state = "number" => tracker.step # 0

TypeInv == Types /\ Places /\ RanksInStep /\ Reached /\ Closed

\* The constants.
LEMMA Constants ==
  /\ TotalSteps \in Nat \ {0} /\ TotalEpochs \in Nat \ {0}
  /\ EpochLength \in Nat \ {0} /\ TrainBatchSize \in Nat \ {0}
  /\ MaxJobs \in Nat \ {0} /\ MaxStep \in Nat \ {0}
  /\ TotalSteps + MaxJobs <= MaxStep
  /\ SaveFreq \in Int /\ TestFreq \in Int /\ MaxGenBatches \in Int
  /\ CriticWarmup \in Nat /\ FilterGroups \in BOOLEAN
  /\ WorldSize \in Nat \ {0} /\ UseCritic \in BOOLEAN /\ MaxToKeep \in Nat
  /\ Len(SaveContents) \in Nat \ {0}
<1>1. SaveContents \in Seq({"model", "optimizer", "extra"}) /\ SaveContents # <<>>
  BY ManagerAssumption
<1>2. Len(SaveContents) \in Nat \ {0}
  BY <1>1
<1>3. QED
  BY <1>2, ManagerAssumption, TrainAssumption DEF Steps

\* The roles are one or two, and the learner is the last of them.
LEMMA RoleFacts ==
  /\ Len(Roles) \in {1, 2}
  /\ \A i \in 1..Len(Roles) : Roles[i] \in RoleSet
  /\ \A i, j \in 1..Len(Roles) : Roles[i] = Roles[j] => i = j
  /\ \A role \in RoleSet : \E i \in 1..Len(Roles) : Roles[i] = role
  /\ Learner \in RoleSet
  /\ ~UseCritic => RoleSet = {"actor"} /\ Learner = "actor"
  /\ UseCritic => Learner = "critic"
<1>1. CASE UseCritic
  BY <1>1 DEF Roles, RoleSet, Learner
<1>2. CASE ~UseCritic
  BY <1>2 DEF Roles, RoleSet, Learner
<1>3. QED
  BY <1>1, <1>2

\* There is a rank 0 and a first file.
LEMMA RankFacts ==
  0 \in Ranks /\ 1 \in Contents
BY Constants DEF Ranks, Contents

\* g is f but for the k-th file of a rank, which is x.
ButOne(f, g, s, role, r, k, x) ==
  \A s2 \in Steps : \A role2 \in RoleSet : \A r2 \in Ranks : \A k2 \in Contents :
    g[s2][role2][r2][k2] =
      IF s2 = s /\ role2 = role /\ r2 = r /\ k2 = k THEN x
      ELSE f[s2][role2][r2][k2]

\* One file is written: the others stay as they are.
LEMMA OneFile ==
  ASSUME NEW f \in ShardFiles, NEW s \in Steps, NEW role \in RoleSet,
         NEW r \in Ranks, NEW k \in Contents, NEW x \in Shards,
         NEW g, g = [f EXCEPT ![s][role][r][k] = x]
  PROVE  /\ g \in ShardFiles
         /\ ButOne(f, g, s, role, r, k, x)
<1>1. f[s][role][r] \in [Contents -> Shards] /\ f[s][role] \in [Ranks -> [Contents -> Shards]]
      /\ f[s] \in [RoleSet -> [Ranks -> [Contents -> Shards]]]
  BY DEF ShardFiles
<1> DEFINE row == [f[s][role][r] EXCEPT ![k] = x]
           rows == [f[s][role] EXCEPT ![r] = row]
           roles == [f[s] EXCEPT ![role] = rows]
<1>2. row \in [Contents -> Shards] 
      /\ \A k2 \in Contents : row[k2] = IF k2 = k THEN x ELSE f[s][role][r][k2]
  BY <1>1
<1>3. rows \in [Ranks -> [Contents -> Shards]]
      /\ \A r2 \in Ranks : rows[r2] = IF r2 = r THEN row ELSE f[s][role][r2]
  <2> HIDE DEF row
  <2> QED
    BY <1>1, <1>2
<1>4. /\ roles \in [RoleSet -> [Ranks -> [Contents -> Shards]]]
      /\ \A role2 \in RoleSet : roles[role2] = IF role2 = role THEN rows ELSE f[s][role2]
  <2> HIDE DEF rows
  <2> QED
    BY <1>1, <1>3
<1>5. g = [f EXCEPT ![s] = roles]
  OBVIOUS
<1>6. g \in ShardFiles /\ \A s2 \in Steps : g[s2] = IF s2 = s THEN roles ELSE f[s2]
  <2> HIDE DEF roles
  <2> QED
    BY <1>4, <1>5 DEF ShardFiles
<1>7. QED
  <2> HIDE DEF roles, rows, row
  <2> QED
    BY <1>2, <1>3, <1>4, <1>6 DEF ButOne

\* The files of some steps are removed for a role: the others stay.
LEMMA FilesRemoved ==
  ASSUME NEW f \in ShardFiles, NEW role \in RoleSet, NEW paths, NEW g,
         g = Without(f, role, paths)
  PROVE  /\ g \in ShardFiles
         /\ \A s2 \in Steps : \A role2 \in RoleSet : \A r2 \in Ranks : \A k2 \in Contents :
              g[s2][role2][r2][k2] =
                IF s2 \in ToSet(paths) /\ role2 = role THEN Absent
                ELSE f[s2][role2][r2][k2]
<1>1. Absent \in Shards
  BY DEF Absent, Shards, FileStates, Batches
<1>2. NoFiles \in [Ranks -> [Contents -> Shards]]
      /\ \A r2 \in Ranks : \A k2 \in Contents : NoFiles[r2][k2] = Absent
  BY <1>1 DEF NoFiles, Contents
<1>3. \A s2 \in Steps : /\ f[s2] \in [RoleSet -> [Ranks -> [Contents -> Shards]]]
                        /\ g[s2] = IF s2 \in ToSet(paths) THEN [f[s2] EXCEPT ![role] = NoFiles] ELSE f[s2]
  BY DEF ShardFiles, Without
<1>4. \A s2 \in Steps : /\ g[s2] \in [RoleSet -> [Ranks -> [Contents -> Shards]]]
                        /\ \A role2 \in RoleSet : g[s2][role2] =
                             IF s2 \in ToSet(paths) /\ role2 = role THEN NoFiles ELSE f[s2][role2]
  BY <1>2, <1>3
<1>5. g \in ShardFiles
  BY <1>4 DEF ShardFiles, Without
<1>6. QED
  BY <1>2, <1>4, <1>5

\* What stays of the saved paths are the last of them.
LEMMA PathsKept ==
  ASSUME NEW paths \in Seq(Steps), NEW keep \in Nat, keep <= Len(paths)
  PROVE  /\ Newest(paths, keep) \in Seq(Steps)
         /\ Len(Newest(paths, keep)) = keep
         /\ \A i \in 1..keep :
              /\ Len(paths) - keep + i \in 1..Len(paths)
              /\ Newest(paths, keep)[i] = paths[Len(paths) - keep + i]
         /\ \A s \in ToSet(Oldest(paths, keep)) :
              \E i \in 1..(Len(paths) - keep) : s = paths[i]
<1>1. /\ Newest(paths, keep) \in Seq(Steps)
      /\ Len(Newest(paths, keep)) = keep
      /\ \A i \in 1..keep :
           /\ Len(paths) - keep + i \in 1..Len(paths)
           /\ Newest(paths, keep)[i] = paths[Len(paths) - keep + i]
  BY DEF Newest
<1>2. \A s \in ToSet(Oldest(paths, keep)) : \E i \in 1..(Len(paths) - keep) : s = paths[i]
  BY DEF Oldest, ToSet
<1>3. QED
  BY <1>1, <1>2

\* The step of fit has a folder.
LEMMA StepInRange ==
  ASSUME TypeInv, pc \in Running
  PROVE  globalSteps \in Steps
BY Constants DEF TypeInv, Types, Places, Steps

\* A first job has them.
LEMMA TypeInit == Init => TypeInv
<1> SUFFICES ASSUME Init PROVE TypeInv
  OBVIOUS
<1> USE Constants DEF Init, ManagerInit
<1>1. /\ <<>> \in Batches /\ Absent \in Shards /\ Absent \in DataFiles
      /\ FreshLoader \in Loaders /\ NoTracker \in Trackers /\ Absent.state = "absent"
  BY DEF Absent, Shards, FileStates, Batches, DataFiles, FreshLoader, Loaders,
         NoTracker, Trackers
<1>2. NoFiles \in [Ranks -> [Contents -> Shards]]
      /\ \A r \in Ranks : \A k \in Contents : NoFiles[r][k] = Absent
  BY <1>1 DEF NoFiles, Contents
<1>3. files \in ShardFiles
  BY <1>2 DEF ShardFiles
<1>4. weights \in [RoleSet -> Batches] /\ savedPaths \in [RoleSet -> Seq(Steps)]
  BY <1>1 DEF NoWeights
<1>5. /\ stage \in [Ranks -> Stages] /\ written \in [Ranks -> 0..Len(SaveContents)]
      /\ dataFile \in [Steps -> DataFiles]
  BY <1>1 DEF Stages
<1>6. saving \in 0..Len(Roles)
  BY RoleFacts
<1>7. Types
  <2>1. /\ <<>> \in Seq(Nat) /\ folders \subseteq Steps /\ pc = "start"
        /\ jobs \in 1..MaxJobs /\ resumeMode \in ResumeModes /\ globalSteps \in Nat
        /\ loader \in Loaders /\ epoch \in 0..TotalEpochs /\ pending \in Seq(Nat)
        /\ keptPrompts \in 0..(2 * TrainBatchSize - 1) /\ genBatches \in Nat
        /\ validated \in BOOLEAN /\ tracker \in Trackers /\ completed \in 0..MaxStep
    <3>1. <<>> \in Seq(Nat)
      OBVIOUS
    <3>2. 1 \in 1..MaxJobs /\ 0 \in 0..TotalEpochs /\ 0 \in 0..MaxStep
          /\ 0 \in 0..(2 * TrainBatchSize - 1)
      OBVIOUS
    <3>3. QED
      BY <1>1, <3>1, <3>2
  <2>2. QED
    BY <1>3, <1>4, <1>5, <1>6, <2>1 DEF Types
<1>8. Places
  BY DEF Places, Running, Learning, Learnt
<1>9. RanksInStep
  BY DEF RanksInStep
<1>10. Reached
  BY <1>1, <1>2 DEF Reached
<1>11. Closed
  BY <1>1 DEF Closed, NoTracker
<1>12. QED
  BY <1>7, <1>8, <1>9, <1>10, <1>11 DEF TypeInv

\* A loader whose fields change.
LEMMA LoaderFields ==
  ASSUME NEW l \in Loaders, NEW y \in 0..EpochLength, NEW p \in Nat, NEW b \in BOOLEAN
  PROVE  /\ [l EXCEPT !.loaded = b] \in Loaders
         /\ [l EXCEPT !.loaded = b, !.yielded = y] \in Loaders
         /\ [l EXCEPT !.yielded = y, !.passed = p] \in Loaders
BY DEF Loaders

\* What is said of ranks and files does not change with the rest of fit.
LEMMA SameFiles ==
  ASSUME TypeInv, UNCHANGED <<jobs, store, managerVars>>,
         pc \notin {"start", "saving"}, pc' \notin {"start", "saving"}
  PROVE  RanksInStep' /\ Reached' /\ Closed'
BY DEF TypeInv, RanksInStep, Reached, Closed, managerVars, disk, ranks, store

\* The steps of the trainer that do not save keep the types.
LEMMA FitTypes ==
  ASSUME TypeInv, StartEpoch \/ EndEpoch \/ Update \/ Validate \/ EndStep
  PROVE  TypeInv'
<1>1. ASSUME StartEpoch PROVE TypeInv'
  <2>1. RanksInStep' /\ Reached' /\ Closed'
    BY <1>1, SameFiles DEF StartEpoch
  <2>2. loader' \in Loaders
    <3>1. loader \in Loaders
      BY DEF TypeInv, Types
    <3>2. loader.yielded \in 0..EpochLength /\ 0 \in 0..EpochLength
      BY <3>1, Constants DEF Loaders
    <3>3. \A y \in 0..EpochLength : [loader EXCEPT !.loaded = FALSE, !.yielded = y] \in Loaders
      BY <3>1, LoaderFields, Constants
    <3>4. QED
      BY <1>1, <3>1, <3>2, <3>3 DEF StartEpoch
  <2>3. Types' /\ Places'
    BY <1>1, <2>2, Constants
    DEF StartEpoch, TypeInv, Types, Places, gathering, store, managerVars, disk, ranks,
        Running, Learning, Learnt
  <2>4. QED
    BY <2>1, <2>3 DEF TypeInv
<1>2. ASSUME EndEpoch PROVE TypeInv'
  <2>1. RanksInStep' /\ Reached' /\ Closed'
    BY <1>2, SameFiles DEF EndEpoch
  <2>2. Types' /\ Places'
    BY <1>2, Constants
    DEF EndEpoch, TypeInv, Types, Places, gathering, store, managerVars, disk, ranks,
        Running, Learning, Learnt
  <2>3. QED
    BY <2>1, <2>2 DEF TypeInv
<1>3. ASSUME Update PROVE TypeInv'
  <2>1. RanksInStep' /\ Reached' /\ Closed'
    BY <1>3, SameFiles DEF Update
  <2>2. weights' \in [RoleSet -> Batches]
    <3>1. \A role \in RoleSet :
            weights[role] \in Batches /\ Append(weights[role], pending) \in Batches
      BY DEF TypeInv, Types, Batches
    <3>2. QED
      BY <1>3, <3>1 DEF Update
  <2>3. Types' /\ Places'
    BY <1>3, <2>2, Constants
    DEF Update, TypeInv, Types, Places, gathering, store, managerVars, disk, ranks,
        Running, Learning, Learnt
  <2>4. QED
    BY <2>1, <2>3 DEF TypeInv
<1>4. ASSUME Validate PROVE TypeInv'
  <2>1. RanksInStep' /\ Reached' /\ Closed'
    BY <1>4, SameFiles DEF Validate
  <2>2. Types' /\ Places'
    BY <1>4, Constants, RoleFacts
    DEF Validate, TypeInv, Types, Places, gathering, store, managerVars, disk, ranks,
        Running, Learning, Learnt
  <2>3. QED
    BY <2>1, <2>2 DEF TypeInv
<1>5. ASSUME EndStep PROVE TypeInv'
  <2>1. RanksInStep' /\ Reached' /\ Closed'
    BY <1>5, SameFiles DEF EndStep
  <2>2. <<>> \in Seq(Nat) /\ globalSteps + 1 \in Nat
    BY DEF TypeInv, Types
  <2>3. CASE IsLastStep
    BY <1>5, <2>1, <2>3, Constants
    DEF EndStep, TypeInv, Types, Places, gathering, store, managerVars, disk, ranks,
        Running, Learning, Learnt
  <2>4. CASE ~IsLastStep
    <3>1. globalSteps' = globalSteps + 1 /\ globalSteps < TotalSteps /\ jobs \in Nat \ {0}
      BY <1>5, <2>4, Constants DEF EndStep, IsLastStep, TypeInv, Types
    <3>2. Types'
      BY <1>5, <2>2, <2>4, Constants
      DEF EndStep, TypeInv, Types, Places, gathering, store, managerVars, disk, ranks,
          Running, Learning, Learnt
    <3>3. Places'
      BY <1>5, <2>4, <3>1, Constants
      DEF EndStep, TypeInv, Types, Places, Running, Learning, Learnt
    <3>4. QED
      BY <2>1, <3>2, <3>3 DEF TypeInv
  <2>5. QED
    BY <2>3, <2>4
<1>6. QED
  BY <1>1, <1>2, <1>3, <1>4, <1>5

\* A batch is taken.
LEMMA FetchTypes ==
  ASSUME TypeInv, NEW kept \in 0..TrainBatchSize, FetchBatch(kept)
  PROVE  TypeInv'
<1>1. RanksInStep' /\ Reached' /\ Closed'
  <2>1. pc = "fetch" /\ pc' \in {"fetch", "update", "raised"}
    BY DEF FetchBatch
  <2>2. QED
    BY <2>1, SameFiles DEF FetchBatch
<1>2. loader \in Loaders /\ loader.yielded < EpochLength
  BY DEF TypeInv, Types, FetchBatch
<1>3. loader' = [loader EXCEPT !.yielded = @ + 1, !.passed = @ + 1]
  BY DEF FetchBatch
<1>4. loader' \in Loaders /\ loader.passed + 1 \in Nat
  <2>1. loader.yielded \in 0..EpochLength /\ loader.passed \in Nat
    BY <1>2 DEF Loaders
  <2>2. loader.yielded + 1 \in 0..EpochLength /\ loader.passed + 1 \in Nat
    BY <1>2, <2>1, Constants
  <2>3. QED
    BY <1>2, <1>3, <2>2, LoaderFields
<1>5. pending' \in Seq(Nat) /\ genBatches' \in Nat
  <2>1. pending \in Seq(Nat) /\ genBatches \in Nat
    BY DEF TypeInv, Types
  <2>2. pending' = Append(pending, loader.passed + 1) /\ genBatches' = genBatches + 1
    BY DEF FetchBatch
  <2>3. QED
    BY <1>4, <2>1, <2>2
<1>6. /\ keptPrompts' \in 0..(2 * TrainBatchSize - 1)
      /\ pc' = "fetch" => keptPrompts' < TrainBatchSize
      /\ pc' \in {"fetch", "update", "raised"}
  <2>1. keptPrompts \in Nat /\ keptPrompts < TrainBatchSize
    BY DEF TypeInv, Types, Places, FetchBatch
  <2>2. /\ keptPrompts' = IF FilterGroups THEN keptPrompts + kept ELSE 0
        /\ pc' = IF ~FilterGroups \/ keptPrompts + kept >= TrainBatchSize THEN "update"
                 ELSE IF MaxGenBatches <= 0 \/ genBatches + 1 < MaxGenBatches
                 THEN "fetch" ELSE "raised"
    BY DEF FetchBatch
  <2>3. TrainBatchSize \in Nat \ {0} /\ FilterGroups \in BOOLEAN
    BY Constants
  <2>4. CASE FilterGroups /\ keptPrompts + kept < TrainBatchSize
    BY <2>1, <2>2, <2>3, <2>4
  <2>5. CASE ~(FilterGroups /\ keptPrompts + kept < TrainBatchSize)
    BY <2>1, <2>2, <2>3, <2>5
  <2>6. QED
    BY <2>4, <2>5
<1>7. Types' /\ Places'
  BY <1>4, <1>5, <1>6, Constants
  DEF FetchBatch, TypeInv, Types, Places, store, managerVars, disk, ranks,
      Running, Learning, Learnt
<1>8. QED
  BY <1>1, <1>7 DEF TypeInv

\* What is loaded has the types of what was saved, and a step that was reached.
LEMMA LoadTypes ==
  ASSUME TypeInv, pc = "start", ~CannotResume, StepToResume # 0
  PROVE  /\ StepToResume \in Steps /\ StepToResume <= TotalSteps + jobs - 2
         /\ \A role \in RoleSet : Loaded(StepToResume, role) \in Batches
         /\ ResumedLoader(StepToResume) \in Loaders
         /\ \A role \in RoleSet : Loadable(StepToResume, role)
<1> DEFINE s == StepToResume
<1>1. s \in Steps
  BY Constants, TrainAssumption DEF StepToResume, LatestStep, TypeInv, Types, Trackers, Steps
<1>2. resumeMode # "disable" /\ \A role \in RoleSet : Loadable(s, role)
  BY DEF CannotResume, StepToResume
<1>3. dataFile[s].state # "torn"
  BY <1>2 DEF CannotResume
<1> HIDE DEF s
<1>4. \A role \in RoleSet : files[s][role][0][1] \in Shards
  BY <1>1, RankFacts DEF TypeInv, Types, ShardFiles
<1>5. \A role \in RoleSet : Loaded(s, role) \in Batches
  BY <1>4 DEF Loaded, Shards
<1>6. s <= TotalSteps + jobs - 2
  <2>1. files[s][Learner][0][1].state = "whole"
    BY <1>2, RoleFacts, RankFacts DEF Loadable, Contents
  <2>2. QED
    BY <1>1, <2>1, RoleFacts, RankFacts DEF TypeInv, Reached
<1>7. ResumedLoader(s) \in Loaders
  <2>1. dataFile[s] \in DataFiles
    BY <1>1 DEF TypeInv, Types
  <2>2. CASE dataFile[s].state = "absent"
    BY <2>2, Constants DEF ResumedLoader, FreshLoader, Loaders
  <2>3. CASE dataFile[s].state # "absent"
    <3>1. dataFile[s].holds \in Seq(Loaders) /\ Len(dataFile[s].holds) = 1
      BY <1>1, <1>3, <2>1, <2>3 DEF DataFiles, FileStates, TypeInv, Closed
    <3>2. dataFile[s].holds[1] \in Loaders
      BY <3>1
    <3>3. QED
      BY <2>3, <3>2 DEF ResumedLoader, Loaders
  <2>4. QED
    BY <2>2, <2>3
<1>8. QED
  BY <1>1, <1>2, <1>5, <1>6, <1>7 DEF s

\* A job resumes, from scratch or from a checkpoint.
LEMMA ResumeTypes ==
  ASSUME TypeInv, Resume
  PROVE  TypeInv'
<1>0. ~CannotResume =>
        \/ pc' = "epoch" /\ globalSteps' = StepToResume + 1
        \/ pc' = "returned" /\ globalSteps' = StepToResume
  BY DEF Resume, FirstStepAfter
<1> USE Constants DEF TypeInv, managerVars, disk, ranks, store, Resume
<1>1. pc = "start" /\ pc' \in {"raised", "epoch", "returned"}
  OBVIOUS
<1>2. RanksInStep' /\ Reached' /\ Closed'
  <2>1. jobs \in Nat
    BY DEF Types
  <2>2. QED
    BY <1>1, <2>1 DEF RanksInStep, Reached, Closed, Steps
<1>3. CASE CannotResume
  BY <1>2, <1>3 DEF Types, Places, memory, gathering, Running, Learning, Learnt
<1>4. CASE ~CannotResume /\ StepToResume = 0
  <2>1. globalSteps' \in {0, 1} /\ (pc' = "epoch" => globalSteps' = 1)
    BY <1>0, <1>4
  <2>2. QED
    BY <1>1, <1>2, <1>4, <2>1 DEF Types, Places, gathering, Running, Learning, Learnt
<1>5. CASE ~CannotResume /\ StepToResume # 0
  <2>1. /\ globalSteps' \in Nat \ {0} /\ globalSteps' <= TotalSteps + jobs - 1
        /\ weights' \in [RoleSet -> Batches]
        /\ loader' \in Loaders
    <3> HIDE DEF TypeInv
    <3>1. jobs \in Nat
      BY DEF TypeInv, Types
    <3>2. StepToResume \in Nat \ {0} /\ StepToResume <= TotalSteps + jobs - 2
      BY <1>1, <1>5, LoadTypes DEF Steps
    <3>3. weights' \in [RoleSet -> Batches] /\ loader' \in Loaders
      BY <1>1, <1>5, LoadTypes
    <3> HIDE DEF Resume
    <3>4. QED
      BY <1>0, <1>5, <3>1, <3>2, <3>3
  <2>2. UNCHANGED <<epoch, gathering, validated, saving, jobs, resumeMode, store,
                    completed, managerVars>> /\ pc' \in {"epoch", "returned"}
    BY <1>5
  <2> HIDE DEF Resume
  <2>3. Types' /\ Places'
    BY <1>1, <2>1, <2>2 DEF Types, Places, gathering, Running, Learning, Learnt
  <2>4. QED
    BY <1>2, <2>3
<1>6. QED
  BY <1>3, <1>4, <1>5

\* Where the ranks may be when one of them takes a step of the save.
LEMMA SavingFacts ==
  ASSUME TypeInv, pc = "saving"
  PROVE  /\ saving \in 1..Len(Roles) /\ Roles[saving] \in RoleSet
         /\ globalSteps \in Steps
         /\ weights[Roles[saving]] \in Batches
         /\ stage \in [Ranks -> Stages] /\ written \in [Ranks -> 0..Len(SaveContents)]
<1>1. saving \in 1..Len(Roles)
  BY RoleFacts DEF TypeInv, Types, Places
<1>2. globalSteps \in Steps
  BY StepInRange DEF Running, Learnt
<1>3. QED
  BY <1>1, <1>2, RoleFacts DEF TypeInv, Types

\* The files of role lose the steps of paths that are too old, and nothing else.
Removed(role, paths, keep) ==
  \A s \in Steps : \A role2 \in RoleSet : \A r \in Ranks : \A k \in Contents :
    files'[s][role2][r][k] =
      IF s \in ToSet(Oldest(paths, keep)) /\ role2 = role THEN Absent
      ELSE files[s][role2][r][k]

\* Rank 0 removes the files of some of the paths it knows, and forgets them.
LEMMA RemovalTypes ==
  ASSUME TypeInv, NEW role \in RoleSet, NEW paths \in Seq(Steps), NEW keep \in Nat,
         keep <= Len(paths),
         files' = Without(files, role, Oldest(paths, keep)),
         savedPaths' = [savedPaths EXCEPT ![role] = Newest(paths, keep)]
  PROVE  /\ files' \in ShardFiles
         /\ savedPaths' \in [RoleSet -> Seq(Steps)]
         /\ Removed(role, paths, keep)
<1>1. Newest(paths, keep) \in Seq(Steps)
  BY PathsKept
<1>2. files \in ShardFiles /\ savedPaths \in [RoleSet -> Seq(Steps)]
  BY DEF TypeInv, Types
<1>3. QED
  BY <1>1, <1>2, FilesRemoved DEF Removed

\* A rank enters the save.
LEMMA EnterEffect ==
  ASSUME TypeInv, pc = "saving", NEW r \in Ranks,
         NEW role, role = Roles[saving], NEW paths, paths = savedPaths[role],
         EnterSave(r, role, globalSteps)
  PROVE  /\ files' \in ShardFiles
         /\ savedPaths' \in [RoleSet -> Seq(Steps)]
         /\ paths \in Seq(Steps)
         /\ \/ UNCHANGED <<files, savedPaths>>
            \/ /\ r = 0 /\ MaxToKeep > 1
               /\ MaxToKeep - 1 \in Nat /\ MaxToKeep - 1 <= Len(paths)
               /\ savedPaths' = [savedPaths EXCEPT ![role] = Newest(paths, MaxToKeep - 1)]
               /\ Removed(role, paths, MaxToKeep - 1)
<1>1. role \in RoleSet /\ files \in ShardFiles /\ savedPaths \in [RoleSet -> Seq(Steps)]
      /\ paths \in Seq(Steps)
  BY SavingFacts DEF TypeInv, Types
<1>2. CASE r = 0 /\ OverCapacity(role)
  <2>1. MaxToKeep > 1 /\ MaxToKeep - 1 \in Nat /\ MaxToKeep - 1 <= Len(paths)
    BY <1>1, <1>2, Constants DEF OverCapacity
  <2>2. /\ files' = Without(files, role, Oldest(paths, MaxToKeep - 1))
        /\ savedPaths' = [savedPaths EXCEPT ![role] = Newest(paths, MaxToKeep - 1)]
    BY <1>2 DEF EnterSave
  <2>3. QED
    BY <1>1, <1>2, <2>1, <2>2, RemovalTypes
<1>3. CASE ~(r = 0 /\ OverCapacity(role))
  BY <1>1, <1>3 DEF EnterSave
<1>4. QED
  BY <1>2, <1>3

\* A rank leaves the save, and rank 0 registers the path.
LEMMA LeaveEffect ==
  ASSUME TypeInv, pc = "saving", NEW r \in Ranks,
         NEW role, role = Roles[saving],
         NEW paths, paths = Append(savedPaths[role], globalSteps),
         LeaveSave(r, role, globalSteps)
  PROVE  /\ files' \in ShardFiles
         /\ savedPaths' \in [RoleSet -> Seq(Steps)]
         /\ paths \in Seq(Steps)
         /\ \/ r # 0 /\ UNCHANGED <<files, savedPaths>>
            \/ /\ r = 0 /\ UNCHANGED files
               /\ savedPaths' = [savedPaths EXCEPT ![role] = paths]
            \/ /\ r = 0 /\ MaxToKeep > 0 /\ MaxToKeep <= Len(paths)
               /\ savedPaths' = [savedPaths EXCEPT ![role] = Newest(paths, MaxToKeep)]
               /\ Removed(role, paths, MaxToKeep)
<1>1. role \in RoleSet /\ files \in ShardFiles /\ savedPaths \in [RoleSet -> Seq(Steps)]
      /\ globalSteps \in Steps
  BY SavingFacts DEF TypeInv, Types
<1>2. paths \in Seq(Steps)
  BY <1>1
<1>3. CASE r # 0
  BY <1>1, <1>2, <1>3 DEF LeaveSave
<1>4. CASE r = 0 /\ MaxToKeep > 0 /\ Len(paths) > MaxToKeep
  <2>1. /\ files' = Without(files, role, Oldest(paths, MaxToKeep))
        /\ savedPaths' = [savedPaths EXCEPT ![role] = Newest(paths, MaxToKeep)]
    BY <1>4 DEF LeaveSave
  <2>2. MaxToKeep \in Nat /\ MaxToKeep <= Len(paths)
    BY <1>2, <1>4, Constants
  <2>3. QED
    BY <1>1, <1>2, <1>4, <2>1, <2>2, RemovalTypes
<1>5. CASE r = 0 /\ ~(MaxToKeep > 0 /\ Len(paths) > MaxToKeep)
  <2>1. savedPaths' = [savedPaths EXCEPT ![role] = paths] /\ UNCHANGED files
    BY <1>5 DEF LeaveSave
  <2>2. QED
    BY <1>1, <1>2, <1>5, <2>1
<1>6. QED
  BY <1>3, <1>4, <1>5

\* The file x becomes the next one of r, and no other file changes.
Rewritten(role, r, x) ==
  ButOne(files, files', globalSteps, role, r, written[r] + 1, x)

\* A rank opens or closes a file.
LEMMA ShardEffect ==
  ASSUME TypeInv, pc = "saving", NEW r \in Ranks, NEW role, role = Roles[saving],
         OpenShard(r, role, globalSteps) \/ CloseShard(r, role, globalSteps, weights[role])
  PROVE  /\ files' \in ShardFiles
         /\ written[r] + 1 \in Contents
         /\ OpenShard(r, role, globalSteps) => Rewritten(role, r, Torn)
         /\ CloseShard(r, role, globalSteps, weights[role])
              => Rewritten(role, r, Whole(weights[role]))
<1>1. /\ role \in RoleSet /\ globalSteps \in Steps /\ weights[role] \in Batches
      /\ files \in ShardFiles
  BY SavingFacts DEF TypeInv, Types
<1>2. stage[r] \in {"write", "writing"}
  BY DEF OpenShard, CloseShard
<1>3. written[r] + 1 \in Contents
  BY <1>2, SavingFacts, Constants DEF TypeInv, RanksInStep, Contents
<1>4. Torn \in Shards /\ Whole(weights[role]) \in Shards
  BY <1>1 DEF Torn, Whole, Shards, FileStates, Batches
<1>5. ASSUME NEW x \in Shards,
             files' = [files EXCEPT ![globalSteps][role][r][written[r] + 1] = x]
      PROVE  files' \in ShardFiles /\ Rewritten(role, r, x)
  BY <1>1, <1>3, <1>5, OneFile DEF Rewritten
<1>6. CASE OpenShard(r, role, globalSteps)
  <2>1. files' = [files EXCEPT ![globalSteps][role][r][written[r] + 1] = Torn]
        /\ stage[r] = "write"
    BY <1>6 DEF OpenShard
  <2>2. QED
    BY <1>3, <1>4, <1>5, <2>1 DEF CloseShard
<1>7. CASE CloseShard(r, role, globalSteps, weights[role])
  <2>1. /\ files' = [files EXCEPT ![globalSteps][role][r][written[r] + 1] = Whole(weights[role])]
        /\ stage[r] = "writing"
    BY <1>7 DEF CloseShard
  <2>2. QED
    BY <1>3, <1>4, <1>5, <2>1 DEF OpenShard
<1>8. QED
  BY <1>6, <1>7

\* The ranks keep the types while they save.
LEMMA RankTypes ==
  ASSUME TypeInv, NEW r \in Ranks, RankSaves(r)
  PROVE  TypeInv'
<1> DEFINE role == Roles[saving]
<1>1. /\ pc = "saving"
      /\ UNCHANGED <<pc, jobs, resumeMode, memory, store, completed>>
      /\ RankStep(r, role, globalSteps, weights[role])
  BY DEF RankSaves
<1>2. /\ role \in RoleSet /\ globalSteps \in Steps
      /\ stage \in [Ranks -> Stages] /\ written \in [Ranks -> 0..Len(SaveContents)]
  BY <1>1, SavingFacts
<1>3. /\ files' \in ShardFiles /\ savedPaths' \in [RoleSet -> Seq(Steps)]
      /\ folders' \subseteq Steps
  <2>1. CASE EnterSave(r, role, globalSteps)
    BY <1>1, <1>2, <2>1, EnterEffect DEF EnterSave, TypeInv, Types
  <2>2. CASE LeaveSave(r, role, globalSteps)
    BY <1>1, <1>2, <2>2, LeaveEffect DEF LeaveSave, TypeInv, Types
  <2>3. CASE OpenShard(r, role, globalSteps)
    BY <1>1, <1>2, <2>3, ShardEffect DEF OpenShard, TypeInv, Types
  <2>4. CASE CloseShard(r, role, globalSteps, weights[role])
    BY <1>1, <1>2, <2>4, ShardEffect DEF CloseShard, TypeInv, Types
  <2>5. QED
    BY <1>1, <2>1, <2>2, <2>3, <2>4 DEF RankStep
<1>4. /\ stage' \in [Ranks -> Stages] /\ written' \in [Ranks -> 0..Len(SaveContents)]
      /\ RanksInStep'
  <2>1. \A q \in Ranks : stage[q] # "idle"
    BY <1>1 DEF TypeInv, RanksInStep
  <2>2. CASE EnterSave(r, role, globalSteps)
    BY <1>1, <1>2, <2>2, Constants DEF EnterSave, TypeInv, RanksInStep, Stages
  <2>3. CASE LeaveSave(r, role, globalSteps)
    BY <1>1, <1>2, <2>3, Constants DEF LeaveSave, TypeInv, RanksInStep, Stages
  <2>4. CASE OpenShard(r, role, globalSteps)
    BY <1>1, <1>2, <2>4, Constants DEF OpenShard, TypeInv, RanksInStep, Stages
  <2>5. CASE CloseShard(r, role, globalSteps, weights[role])
    <3>1. /\ written' = [written EXCEPT ![r] = @ + 1] /\ stage[r] = "writing"
          /\ stage' = [stage EXCEPT ![r] =
               IF written[r] + 1 < Len(SaveContents) THEN "write" ELSE "written"]
      BY <2>5 DEF CloseShard
    <3>2. /\ written[r] \in 0..Len(SaveContents) /\ written[r] < Len(SaveContents)
          /\ pc' = "saving"
      BY <1>1, <1>2, <3>1 DEF TypeInv, RanksInStep
    <3> DEFINE n == Len(SaveContents)
               next == IF written[r] + 1 < n THEN "write" ELSE "written"
    <3>3. /\ n \in Nat /\ written[r] + 1 \in 0..n
          /\ next \in {"write", "written"}
          /\ next = "write" => written[r] + 1 < n
          /\ next = "written" => written[r] + 1 = n
      BY <3>2, Constants
    <3>4. /\ stage' = [stage EXCEPT ![r] = next] /\ written' = [written EXCEPT ![r] = @ + 1]
      BY <3>1
    <3> HIDE DEF n, next
    <3>5. /\ stage'[r] = next /\ written'[r] = written[r] + 1
          /\ \A q \in Ranks \ {r} : stage'[q] = stage[q] /\ written'[q] = written[q]
          /\ stage' \in [Ranks -> Stages] /\ written' \in [Ranks -> 0..n]
      BY <1>2, <3>3, <3>4 DEF Stages, n
    <3>6. RanksInStep'
      <4>1. ASSUME NEW q \in Ranks
            PROVE  /\ stage'[q] # "idle"
                   /\ stage'[q] = "enter" => written'[q] = 0
                   /\ stage'[q] \in {"write", "writing"} => written'[q] < n
                   /\ stage'[q] \in {"written", "returned"} => written'[q] = n
        <5>1. CASE q = r
          BY <3>3, <3>5, <5>1
        <5>2. CASE q # r
          BY <2>1, <3>5, <5>2 DEF TypeInv, RanksInStep, n
        <5>3. QED
          BY <5>1, <5>2
      <4>2. QED
        BY <3>2, <4>1 DEF RanksInStep, n
    <3>7. QED
      BY <3>5, <3>6 DEF n
  <2>6. QED
    BY <1>1, <2>2, <2>3, <2>4, <2>5 DEF RankStep
<1>5. Reached'
  <2>1. \A s \in Steps : \A role2 \in RoleSet : \A q \in Ranks : \A k \in Contents :
          files'[s][role2][q][k].state # "absent" =>
            files[s][role2][q][k].state # "absent" \/ s = globalSteps
    <3>1. Absent.state = "absent"
      BY DEF Absent
    <3>2. CASE EnterSave(r, role, globalSteps)
      <4>1. \/ UNCHANGED files
            \/ Removed(role, savedPaths[role], MaxToKeep - 1)
        BY <1>1, <3>2, EnterEffect
      <4>2. QED
        BY <3>1, <4>1 DEF Removed
    <3>3. CASE LeaveSave(r, role, globalSteps)
      <4>1. \/ UNCHANGED files
            \/ Removed(role, Append(savedPaths[role], globalSteps), MaxToKeep)
        BY <1>1, <3>3, LeaveEffect
      <4>2. QED
        BY <3>1, <4>1 DEF Removed
    <3>4. CASE OpenShard(r, role, globalSteps) \/ CloseShard(r, role, globalSteps, weights[role])
      <4>1. \E x : Rewritten(role, r, x)
        BY <1>1, <3>4, ShardEffect
      <4>2. QED
        BY <4>1 DEF Rewritten, ButOne
    <3>5. QED
      BY <1>1, <3>2, <3>3, <3>4 DEF RankStep
  <2>2. globalSteps <= TotalSteps + jobs - 1
    BY DEF TypeInv, Places
  <2>3. QED
    BY <1>1, <2>1, <2>2 DEF TypeInv, Reached
<1>6. QED
  BY <1>1, <1>3, <1>4, <1>5
  DEF TypeInv, Types, Places, Closed, memory, gathering, store, Running, Learning, Learnt

\* The other steps of a save keep them too.
LEMMA SaveTypes ==
  ASSUME TypeInv,
         \/ SaveRole \/ RoleSaved \/ OpenData \/ WriteData \/ OpenTracker \/ WriteTracker
  PROVE  TypeInv'
<1>1. ASSUME SaveRole PROVE TypeInv'
  <2>1. stage' \in [Ranks -> Stages] /\ written' \in [Ranks -> 0..Len(SaveContents)]
        /\ RanksInStep'
    BY <1>1, Constants DEF SaveRole, CallSave, RanksInStep, Stages
  <2>2. QED
    BY <1>1, <2>1
    DEF SaveRole, CallSave, TypeInv, Types, Places, Reached, Closed, memory, gathering,
        store, disk, Running, Learning, Learnt
<1>2. ASSUME RoleSaved PROVE TypeInv'
  <2>1. stage' \in [Ranks -> Stages] /\ RanksInStep' /\ pc = "saving"
    BY <1>2 DEF RoleSaved, AfterRole, RanksInStep, Stages
  <2>2. saving' \in 1..Len(Roles) /\ pc' \in {"save", "open_data"}
    <3>1. saving \in 1..Len(Roles)
      BY <2>1, SavingFacts
    <3>2. QED
      BY <1>2, <3>1, RoleFacts DEF RoleSaved, AfterRole
  <2>3. UNCHANGED <<jobs, resumeMode, globalSteps, weights, loader, epoch, gathering,
                    validated, store, completed, disk, savedPaths, written>>
    BY <1>2 DEF RoleSaved
  <2>4. saving' \in 0..Len(Roles) /\ saving' # 0
    BY <2>2, RoleFacts
  <2>5. Types'
    BY <2>1, <2>2, <2>3, <2>4
    DEF TypeInv, Types, gathering, store, disk, Running, Learning, Learnt
  <2>6. Places' /\ Reached' /\ Closed'
    BY <2>1, <2>2, <2>3, <2>4
    DEF TypeInv, Types, Places, Reached, Closed, gathering, store, disk,
        Running, Learning, Learnt
  <2>7. QED
    BY <2>1, <2>5, <2>6 DEF TypeInv
<1>3. ASSUME OpenData \/ WriteData \/ OpenTracker \/ WriteTracker PROVE TypeInv'
  <2>1. pc \in {"open_data", "write_data", "open_tracker", "write_tracker"}
    BY <1>3 DEF OpenData, WriteData, OpenTracker, WriteTracker
  <2>2. globalSteps \in Steps /\ globalSteps \in 0..MaxStep
    BY <2>1, StepInRange, Constants DEF Running, Learnt, Steps
  <2>3. /\ Torn \in DataFiles /\ Torn.state = "torn"
        /\ Whole(<<loader>>) \in DataFiles /\ Len(Whole(<<loader>>).holds) = 1
    BY DEF Torn, Whole, DataFiles, FileStates, TypeInv, Types
  <2>4. dataFile' \in [Steps -> DataFiles]
        /\ \A s \in Steps : dataFile'[s].state = "whole" => Len(dataFile'[s].holds) = 1
    BY <1>3, <2>2, <2>3
    DEF OpenData, WriteData, OpenTracker, WriteTracker, TypeInv, Types, Closed
  <2>5. tracker' \in Trackers /\ (tracker'.state = "number" => tracker'.step # 0)
        /\ completed' \in 0..MaxStep
    <3>1. CASE OpenData \/ WriteData
      BY <3>1 DEF OpenData, WriteData, TypeInv, Types, Closed
    <3>2. CASE OpenTracker
      <4>1. tracker' = [state |-> "empty", step |-> 0] /\ completed' = completed
        BY <3>2 DEF OpenTracker
      <4>2. 0 \in 0..MaxStep /\ completed \in 0..MaxStep
        BY Constants DEF TypeInv, Types
      <4>3. QED
        BY <4>1, <4>2 DEF Trackers
    <3>3. CASE WriteTracker
      <4>1. tracker' = [state |-> "number", step |-> globalSteps] /\ completed' = globalSteps
        BY <3>3 DEF WriteTracker
      <4>2. globalSteps # 0
        BY <2>2 DEF Steps
      <4>3. QED
        BY <4>1, <4>2, <2>2 DEF Trackers
    <3>4. QED
      BY <1>3, <3>1, <3>2, <3>3
  <2>6. /\ UNCHANGED <<jobs, resumeMode, memory, managerVars>>
        /\ pc' \in {"write_data", "open_tracker", "write_tracker", "log"}
    BY <1>3 DEF OpenData, WriteData, OpenTracker, WriteTracker
  <2>7. Types'
    <3>1. pc' \in Running \cup {"start", "returned", "raised", "down"}
      BY <2>6 DEF Running, Learning, Learnt
    <3>2. QED
      BY <2>4, <2>5, <2>6, <3>1
      DEF TypeInv, Types, memory, gathering, managerVars, disk, ranks
  <2>8. Places' /\ Closed'
    BY <2>1, <2>4, <2>5, <2>6
    DEF TypeInv, Places, Closed, memory, gathering, managerVars, Running, Learning, Learnt
  <2>9. RanksInStep' /\ Reached'
    BY <2>1, <2>4, <2>5, <2>6
    DEF TypeInv, RanksInStep, Reached, memory, managerVars, disk, ranks
  <2>10. QED
    BY <2>7, <2>8, <2>9 DEF TypeInv
<1>4. QED
  BY <1>1, <1>2, <1>3

\* A job that starts anew has the types of Init.
LEMMA JobTypes ==
  ASSUME TypeInv, Die \/ Launch
  PROVE  TypeInv'
<1>1. Forget /\ UNCHANGED <<store, completed, disk>>
  BY DEF Die, Launch, Forget, ManagersDie
<1>2. /\ pc' \in {"down", "start"} /\ jobs' \in 1..MaxJobs
      /\ jobs' = IF pc' = "start" THEN jobs + 1 ELSE jobs
      /\ pc' = "start" => pc # "start"
      /\ pc' = "down" => pc # "down"
      /\ resumeMode' \in ResumeModes /\ jobs \in Nat
  BY Constants DEF Die, Launch, TypeInv, Types
<1>3. /\ weights' \in [RoleSet -> Batches] /\ savedPaths' \in [RoleSet -> Seq(Steps)]
      /\ loader' \in Loaders /\ pending' \in Seq(Nat)
      /\ stage' \in [Ranks -> Stages] /\ written' \in [Ranks -> 0..Len(SaveContents)]
  <2>1. <<>> \in Batches /\ <<>> \in Seq(Steps) /\ FreshLoader \in Loaders /\ <<>> \in Seq(Nat)
    BY Constants DEF Batches, FreshLoader, Loaders
  <2>2. QED
    BY <1>1, <2>1, Constants DEF Forget, ManagersDie, NoWeights, Stages
<1>4. Types'
  <2>1. globalSteps' \in Nat /\ epoch' \in 0..TotalEpochs /\ genBatches' \in Nat
        /\ keptPrompts' \in 0..(2 * TrainBatchSize - 1) /\ validated' \in BOOLEAN
        /\ saving' \in 0..Len(Roles)
    <3>1. 0 \in 0..TotalEpochs /\ 0 \in 0..(2 * TrainBatchSize - 1) /\ 0 \in 0..Len(Roles)
      BY Constants, RoleFacts
    <3>2. QED
      BY <1>1, <3>1 DEF Forget
  <2>2. QED
    BY <1>1, <1>2, <1>3, <2>1 DEF TypeInv, Types, store, disk
<1>5. Places' /\ RanksInStep'
  BY <1>1, <1>2, Constants
  DEF Forget, ManagersDie, Places, RanksInStep, Running, Learning, Learnt
<1>6. Reached' /\ Closed'
  BY <1>1, <1>2, Constants DEF TypeInv, Reached, Closed, store, disk, Steps
<1>7. QED
  BY <1>4, <1>5, <1>6 DEF TypeInv

\* Every step keeps the types.
LEMMA TypeInvariant == Spec => []TypeInv
<1>1. TypeInv /\ [Next]_vars => TypeInv'
  <2> SUFFICES ASSUME TypeInv, [Next]_vars PROVE TypeInv'
    OBVIOUS
  <2>1. CASE UNCHANGED vars
    <3>1. /\ UNCHANGED <<pc, jobs, resumeMode, globalSteps, weights, loader, epoch>>
          /\ UNCHANGED <<pending, keptPrompts, genBatches, validated, saving>>
          /\ UNCHANGED <<dataFile, tracker, completed, folders, files>>
          /\ UNCHANGED <<savedPaths, stage, written>>
      BY <2>1 DEF vars, memory, gathering, store, managerVars, disk, ranks
    <3>2. Types' /\ Places'
      BY <3>1 DEF TypeInv, Types, Places
    <3>3. RanksInStep' /\ Reached' /\ Closed'
      BY <3>1 DEF TypeInv, RanksInStep, Reached, Closed
    <3>4. QED
      BY <3>2, <3>3 DEF TypeInv
  <2>2. CASE Trainer
    BY <2>2, ResumeTypes, FitTypes, FetchTypes, SaveTypes DEF Trainer
  <2>3. CASE \E r \in Ranks : RankSaves(r)
    BY <2>3, RankTypes
  <2>4. CASE Die \/ Launch
    BY <2>4, JobTypes
  <2>5. QED
    BY <2>1, <2>2, <2>3, <2>4 DEF Next, Stopped
<1>2. QED
  BY TypeInit, <1>1, PTL DEF Spec

\* Every variable keeps its type, and no counter exceeds the limit the code sets
\* it: global_steps passes total_training_steps by at most one step a job.
THEOREM TrainTypeCorrect == Spec => []TrainTypeOK
<1>1. TypeInv => TrainTypeOK
  <2> SUFFICES ASSUME TypeInv PROVE TrainTypeOK
    OBVIOUS
  <2>1. \A s \in Steps : \A role \in RoleSet : \A r \in Ranks : \A k \in Contents :
          files[s][role][r][k] \in Shards
    BY DEF TypeInv, Types, ShardFiles
  <2>2. ManagerTypeOK
    BY <2>1 DEF ManagerTypeOK, TypeInv, Types, Shards, FileStates, Stages, Contents
  <2>3. loader.yielded \in 0..EpochLength /\ tracker.step \in 0..MaxStep
    BY DEF TypeInv, Types, Loaders, Trackers
  <2>4. QED
    BY <2>2, <2>3, Constants
    DEF TrainTypeOK, TypeInv, Types, Places, Running, Learning, Learnt
<1>2. QED
  BY <1>1, TypeInvariant, PTL

---------------------------------------------------------------------------
\* Steps and updates

\* The learner learns in every step: there is a critic, or no warm-up for it.
LearnsEveryStep == UseCritic \/ CriticWarmup <= 1

\* The learner has one update for each step behind it, in memory and on disk.
Counted ==
  /\ pc \in Learning => Len(weights[Learner]) = globalSteps - 1
  /\ pc \in Learnt => Len(weights[Learner]) = globalSteps
  /\ \A s \in Steps : \A r \in Ranks : \A k \in Contents :
       files[s][Learner][r][k].state = "whole" => Len(files[s][Learner][r][k].holds) = s

\* The learner learns from what was gathered.
LEMMA LearnerLearns ==
  ASSUME LearnsEveryStep, TypeInv, Update
  PROVE  weights'[Learner] = Append(weights[Learner], pending)
<1>1. globalSteps # 0 /\ CriticWarmup \in Nat /\ globalSteps \in Nat
  BY Constants DEF Update, TypeInv, Types, Places, Running, Learning
<1>2. Learner = "critic" \/ CriticWarmup <= globalSteps
  BY <1>1, RoleFacts DEF LearnsEveryStep
<1>3. QED
  BY <1>2, RoleFacts DEF Update

\* A job that resumes has the updates of the step whose checkpoint it loads.
LEMMA ResumeLoads ==
  ASSUME TypeInv, Counted, Resume, ~CannotResume
  PROVE  /\ Len(weights'[Learner]) = StepToResume
         /\ UNCHANGED files
         /\ \/ pc' = "epoch" /\ globalSteps' = StepToResume + 1
            \/ pc' = "returned" /\ globalSteps' = StepToResume
<1>1. /\ pc = "start" /\ UNCHANGED files
      /\ \/ pc' = "epoch" /\ globalSteps' = StepToResume + 1
         \/ pc' = "returned" /\ globalSteps' = StepToResume
  BY DEF Resume, FirstStepAfter, managerVars, disk
<1>2. CASE StepToResume = 0
  <2>1. weights' = weights
    BY <1>2 DEF Resume
  <2>2. weights[Learner] = <<>>
    BY <1>1, RoleFacts DEF TypeInv, Places, NoWeights
  <2>3. QED
    BY <1>1, <1>2, <2>1, <2>2
<1>3. CASE StepToResume # 0
  <2>1. weights'[Learner] = files[StepToResume][Learner][0][1].holds
    BY <1>3, RoleFacts DEF Resume, Loaded
  <2>2. StepToResume \in Steps /\ files[StepToResume][Learner][0][1].state = "whole"
    BY <1>1, <1>3, LoadTypes, RoleFacts, RankFacts DEF Loadable, Contents
  <2>3. Len(weights'[Learner]) = StepToResume
    BY <2>1, <2>2, RankFacts DEF Counted
  <2>4. QED
    BY <1>1, <2>3
<1>4. QED
  BY <1>2, <1>3

\* What the learner has learnt changes in Update only.
LEMMA CountedStep ==
  ASSUME LearnsEveryStep, TypeInv, TypeInv', Counted, [Next]_vars
  PROVE  Counted'
<1>1. weights[Learner] \in Batches /\ globalSteps \in Nat
  BY RoleFacts DEF TypeInv, Types
<1>2. CASE Resume
  <2>1. CASE CannotResume
    BY <1>2, <2>1 DEF Resume, Counted, memory, managerVars, disk, Learning, Learnt
  <2>2. CASE ~CannotResume
    BY <1>2, <2>2, ResumeLoads DEF Counted, Learning, Learnt
  <2>3. QED
    BY <2>1, <2>2
<1>3. CASE Update
  <2>2. weights'[Learner] = Append(weights[Learner], pending)
    BY <1>3, LearnerLearns
  <2>3. Len(weights'[Learner]) = Len(weights[Learner]) + 1
    BY <1>1, <2>2 DEF Batches
  <2>4. Len(weights[Learner]) = globalSteps - 1
    BY <1>3 DEF Update, Counted, Learning
  <2>5. QED
    BY <1>1, <1>3, <2>3, <2>4 DEF Update, Counted, managerVars, disk, Learning, Learnt
<1>4. CASE EndStep
  BY <1>1, <1>4 DEF EndStep, Counted, managerVars, disk, Learning, Learnt
<1>5. ASSUME NEW r \in Ranks, RankSaves(r) PROVE Counted'
  <2> DEFINE role == Roles[saving]
  <2>1. /\ pc = "saving" /\ UNCHANGED <<pc, globalSteps, weights>>
        /\ RankStep(r, role, globalSteps, weights[role])
    BY <1>5 DEF RankSaves, memory
  <2>2. \A s \in Steps : \A q \in Ranks : \A k \in Contents :
          \/ files'[s][Learner][q][k] = files[s][Learner][q][k]
          \/ files'[s][Learner][q][k].state # "whole"
          \/ s = globalSteps /\ files'[s][Learner][q][k].holds = weights[Learner]
    <3>1. /\ Absent.state # "whole" /\ Torn.state # "whole"
          /\ \A h : Whole(h).holds = h
      BY DEF Absent, Torn, Whole
    <3>2. CASE EnterSave(r, role, globalSteps)
      BY <2>1, <3>1, <3>2, EnterEffect, RoleFacts DEF Removed
    <3>3. CASE LeaveSave(r, role, globalSteps)
      <4>1. \/ UNCHANGED files
            \/ Removed(role, Append(savedPaths[role], globalSteps), MaxToKeep)
        BY <2>1, <3>3, LeaveEffect
      <4>2. QED
        BY <3>1, <4>1, RoleFacts DEF Removed
    <3>4. CASE OpenShard(r, role, globalSteps)
      BY <2>1, <3>1, <3>4, ShardEffect, RoleFacts DEF Rewritten, ButOne
    <3>5. CASE CloseShard(r, role, globalSteps, weights[role])
      BY <2>1, <3>1, <3>5, ShardEffect, RoleFacts DEF Rewritten, ButOne
    <3>6. QED
      BY <2>1, <3>2, <3>3, <3>4, <3>5 DEF RankStep
  <2>3. ASSUME NEW s \in Steps, NEW q \in Ranks, NEW k \in Contents,
               files'[s][Learner][q][k].state = "whole"
        PROVE  Len(files'[s][Learner][q][k].holds) = s
    <3>1. CASE files'[s][Learner][q][k] = files[s][Learner][q][k]
      BY <2>3, <3>1 DEF Counted
    <3>2. CASE s = globalSteps /\ files'[s][Learner][q][k].holds = weights[Learner]
      BY <2>1, <3>2 DEF Counted, Learnt
    <3>3. QED
      BY <2>2, <2>3, <3>1, <3>2
  <2>4. QED
    BY <2>1, <2>3 DEF Counted, Learning, Learnt
<1>6. CASE UNCHANGED <<weights, globalSteps, files>> /\
           (pc' \in Learning => pc \in Learning) /\ (pc' \in Learnt => pc \in Learnt)
  BY <1>6 DEF Counted
<1>7. CASE UNCHANGED files /\ pc' \notin Running
  BY <1>7 DEF Counted, Running
<1>8. QED
  <2>1. CASE SaveRole \/ RoleSaved \/ OpenData \/ WriteData \/ OpenTracker \/ WriteTracker
    BY <1>6, <2>1
    DEF SaveRole, CallSave, RoleSaved, AfterRole, OpenData, WriteData, OpenTracker,
        WriteTracker, memory, managerVars, disk, Learning, Learnt
  <2>2. CASE StartEpoch \/ EndEpoch \/ Validate \/ \E kept \in 0..TrainBatchSize : FetchBatch(kept)
    BY <1>6, <1>7, <2>2
    DEF StartEpoch, EndEpoch, Validate, FetchBatch, managerVars, disk, Running, Learning, Learnt
  <2>3. CASE Die \/ Launch
    BY <1>7, <2>3 DEF Die, Launch, Forget, ManagersDie, disk, Running, Learning, Learnt
  <2>4. CASE UNCHANGED vars
    BY <1>6, <2>4 DEF vars, memory, managerVars, disk
  <2>5. QED
    BY <1>2, <1>3, <1>4, <1>5, <2>1, <2>2, <2>3, <2>4 DEF Next, Trainer, Stopped

\* It is counted at first, when nothing was learnt, and after every step.
LEMMA CountedInvariant ==
  ASSUME LearnsEveryStep
  PROVE  Spec => []Counted
<1>1. Init => Counted
  <2> SUFFICES ASSUME Init PROVE Counted
    OBVIOUS
  <2>1. \A s \in Steps : \A r \in Ranks : \A k \in Contents :
          files[s][Learner][r][k].state = "absent"
    BY RoleFacts DEF Init, ManagerInit, NoFiles, Absent, Contents
  <2>2. QED
    BY <2>1 DEF Init, Counted, Learning, Learnt
<1>2. TypeInv /\ TypeInv' /\ Counted /\ [Next]_vars => Counted'
  BY CountedStep
<1>3. QED
  BY <1>1, <1>2, TypeInvariant, PTL DEF Spec

\* global_steps counts updates across jobs, for any number of interruptions, any
\* resume mode and any checkpoint that is loaded.
THEOREM StepsCorrect ==
  ASSUME LearnsEveryStep
  PROVE  Spec => []StepsCountUpdates
<1>1. Counted => StepsCountUpdates
  BY DEF Counted, StepsCountUpdates, Learning
<1>2. QED
  BY <1>1, CountedInvariant, PTL

---------------------------------------------------------------------------
\* Checkpoints

\* At least two checkpoints are kept, or none is ever removed.
KeepsTwo == MaxToKeep # 1

\* Every job resumes from the latest checkpoint.
ResumesLatest == ResumeModes \subseteq {"auto", "resume_path"}

\* The end of a save, behind the files of the ranks.
Sealing == {"open_data", "write_data", "open_tracker", "write_tracker"}

\* The tracker names the last save, and the running job is ahead of it.
Ahead ==
  /\ tracker.state = "missing" => completed = 0
  /\ tracker.state = "number" => tracker.step = completed /\ completed \in folders
  /\ tracker.state = "empty" => pc \in {"write_tracker", "down", "start", "raised"}
  /\ pc \in Running \ {"log"} => completed < globalSteps
  /\ pc = "log" => completed <= globalSteps
  /\ pc = "epoch" /\ epoch = 0 => globalSteps = completed + 1

\* The step has its folder once a rank has entered the save.
HasFolder ==
  /\ pc = "saving" /\ (\E r \in Ranks : stage[r] # "enter") => globalSteps \in folders
  /\ pc = "save" /\ saving > 1 => globalSteps \in folders
  /\ pc \in Sealing => globalSteps \in folders

\* Rank 0 has registered the path of the running save for the i-th role.
Registered(i) ==
  \/ pc \in Sealing
  \/ pc \in {"save", "saving"} /\ i < saving
  \/ pc = "saving" /\ i = saving /\ stage[0] = "returned"

\* The paths of a role ascend to the last save, or to the running one.
PathsAscend ==
  \A i \in 1..Len(Roles) :
    LET paths == savedPaths[Roles[i]]
    IN  /\ \A a, b \in 1..Len(paths) : a < b => paths[a] < paths[b]
        /\ paths # <<>> =>
             paths[Len(paths)] = IF Registered(i) THEN globalSteps ELSE completed

\* The files of a role that the running save has written.
AllWritten(role) ==
  \A r \in Ranks : \A k \in Contents :
    files[globalSteps][role][r][k] = Whole(weights[role])

Saved ==
  /\ pc \in {"save", "saving"} => \A i \in 1..(saving - 1) : AllWritten(Roles[i])
  /\ pc = "saving" =>
       \A r \in Ranks : \A k \in 1..written[r] :
         files[globalSteps][Roles[saving]][r][k] = Whole(weights[Roles[saving]])
  /\ pc \in Sealing => \A role \in RoleSet : AllWritten(role)
  /\ pc \in {"open_tracker", "write_tracker"} => dataFile[globalSteps] = Whole(<<loader>>)

\* The learner has learnt last from the batches that were gathered last.
Gathered ==
  /\ pc \in Learnt \cup {"update"} =>
       pending # <<>> /\ pending[Len(pending)] = loader.passed
  /\ LearnsEveryStep /\ pc \in Learnt =>
       /\ weights[Learner] # <<>>
       /\ weights[Learner][Len(weights[Learner])] = pending

SaveInv ==
  TypeInv /\ Ahead /\ HasFolder /\ PathsAscend /\ Saved /\ Gathered /\ TrackerNamesComplete

\* There is no checkpoint at first.
LEMMA SaveInit == Init => SaveInv
<1> SUFFICES ASSUME Init PROVE SaveInv
  OBVIOUS
<1>1. pc = "start" /\ tracker.state = "missing" /\ completed = 0
  BY DEF Init, NoTracker
<1>2. \A i \in 1..Len(Roles) : savedPaths[Roles[i]] = <<>>
  BY RoleFacts DEF Init, ManagerInit
<1>3. QED
  BY <1>1, <1>2, TypeInit
  DEF SaveInv, Ahead, HasFolder, PathsAscend, Saved, Gathered, TrackerNamesComplete,
      Running, Learning, Learnt, Sealing

\* Which steps a removal takes: those before the last save.
LEMMA RemovesOlder ==
  ASSUME KeepsTwo, TypeInv, Ahead, PathsAscend, pc = "saving", NEW r \in Ranks,
         \/ EnterSave(r, Roles[saving], globalSteps)
         \/ LeaveSave(r, Roles[saving], globalSteps)
  PROVE  \A s \in Steps : \A role \in RoleSet : \A q \in Ranks : \A k \in Contents :
           files'[s][role][q][k] # files[s][role][q][k] => s < completed
<1> DEFINE role == Roles[saving]
           paths == savedPaths[role]
<1>1. /\ saving \in 1..Len(Roles) /\ role \in RoleSet
      /\ paths \in Seq(Steps) /\ completed \in Nat /\ MaxToKeep \in Nat
      /\ globalSteps \in Steps
  BY SavingFacts, Constants DEF TypeInv, Types
<1>2. stage[0] # "returned" =>
        \A i \in 1..Len(paths) : i < Len(paths) => paths[i] < completed
  BY <1>1 DEF PathsAscend, Registered, Sealing
<1>3. CASE EnterSave(r, role, globalSteps)
  <2>1. CASE UNCHANGED files
    BY <2>1
  <2>2. CASE /\ r = 0 /\ MaxToKeep > 1 /\ MaxToKeep - 1 <= Len(paths)
             /\ Removed(role, paths, MaxToKeep - 1)
    <3>1. stage[0] # "returned"
      BY <1>3, <2>2 DEF EnterSave
    <3>2. \A s \in ToSet(Oldest(paths, MaxToKeep - 1)) : s < completed
      <4>1. MaxToKeep - 1 \in Nat
        BY <1>1, <2>2
      <4>2. \A s \in ToSet(Oldest(paths, MaxToKeep - 1)) :
              \E i \in 1..(Len(paths) - (MaxToKeep - 1)) : s = paths[i]
        BY <1>1, <2>2, <4>1, PathsKept
      <4>3. \A i \in 1..(Len(paths) - (MaxToKeep - 1)) : paths[i] < completed
        <5>1. Len(paths) \in Nat
          BY <1>1
        <5> HIDE DEF paths
        <5>2. QED
          BY <1>1, <1>2, <2>2, <3>1, <5>1
      <4>4. QED
        BY <4>2, <4>3
    <3>3. QED
      BY <2>2, <3>2 DEF Removed
  <2>3. QED
    BY <1>1, <1>3, <2>1, <2>2, EnterEffect
<1>4. CASE LeaveSave(r, role, globalSteps)
  <2> DEFINE paths2 == Append(paths, globalSteps)
  <2>1. CASE UNCHANGED files
    BY <2>1
  <2>2. CASE /\ r = 0 /\ MaxToKeep > 0 /\ MaxToKeep <= Len(paths2)
             /\ Removed(role, paths2, MaxToKeep)
    <3>1. stage[0] # "returned"
      BY <1>4, <2>2 DEF LeaveSave
    <3>2. \A s \in ToSet(Oldest(paths2, MaxToKeep)) : s < completed
      <4>1. paths2 \in Seq(Steps) /\ Len(paths2) = Len(paths) + 1 /\ Len(paths) \in Nat
            /\ \A i \in 1..Len(paths) : paths2[i] = paths[i]
        BY <1>1
      <4> HIDE DEF paths2
      <4>2. \A s \in ToSet(Oldest(paths2, MaxToKeep)) :
              \E i \in 1..(Len(paths2) - MaxToKeep) : s = paths2[i]
        BY <1>1, <2>2, <4>1, PathsKept
      <4>3. \A i \in 1..(Len(paths2) - MaxToKeep) : paths2[i] < completed
        <5>1. MaxToKeep >= 2
          BY <1>1, <2>2 DEF KeepsTwo
        <5> HIDE DEF paths
        <5>2. \A i \in 1..(Len(paths2) - MaxToKeep) : i \in 1..Len(paths) /\ i < Len(paths)
          BY <1>1, <4>1, <5>1
        <5>3. QED
          BY <1>2, <3>1, <4>1, <5>2
      <4>4. QED
        BY <4>2, <4>3
    <3>3. QED
      BY <2>2, <3>2 DEF Removed
  <2>3. QED
    BY <1>1, <1>4, <2>1, <2>2, LeaveEffect
<1>5. QED
  BY <1>3, <1>4

\* What a rank does to the files of a save: it writes the next one of its own, or
\* older checkpoints go.
LEMMA FilesWritten ==
  ASSUME KeepsTwo, TypeInv, Ahead, PathsAscend, NEW r \in Ranks, RankSaves(r)
  PROVE  \A s \in Steps : \A role \in RoleSet : \A q \in Ranks : \A k \in Contents :
           \/ files'[s][role][q][k] = files[s][role][q][k]
           \/ s < completed
           \/ /\ s = globalSteps /\ role = Roles[saving]
              /\ q = r /\ k = written[r] + 1
<1>1. pc = "saving" /\ RankStep(r, Roles[saving], globalSteps, weights[Roles[saving]])
  BY DEF RankSaves
<1>2. CASE EnterSave(r, Roles[saving], globalSteps) \/ LeaveSave(r, Roles[saving], globalSteps)
  BY <1>1, <1>2, RemovesOlder
<1>3. CASE OpenShard(r, Roles[saving], globalSteps)
           \/ CloseShard(r, Roles[saving], globalSteps, weights[Roles[saving]])
  BY <1>1, <1>3, ShardEffect DEF Rewritten, ButOne
<1>4. QED
  BY <1>1, <1>2, <1>3 DEF RankStep

\* A job that resumes takes the last checkpoint that was completed.
LEMMA ResumesAtLatest ==
  ASSUME ResumesLatest, TypeInv, Ahead, pc = "start", ~CannotResume
  PROVE  /\ StepToResume = completed
         /\ completed # 0 => tracker.state = "number"
<1>1. resumeMode \in {"auto", "resume_path"} /\ tracker.state \in {"missing", "empty", "number"}
  BY DEF ResumesLatest, TypeInv, Types, Trackers
<1>2. TakesLatest /\ tracker.state # "empty"
  BY <1>1 DEF CannotResume, TakesLatest
<1>3. StepToResume = LatestStep
  BY <1>1, <1>2 DEF StepToResume
<1>4. QED
  BY <1>1, <1>2, <1>3 DEF LatestStep, Ahead

\* The tracker stays at the last save, and the job ahead of it.
LEMMA AheadStep ==
  ASSUME ResumesLatest, TypeInv, Ahead, HasFolder, [Next]_vars
  PROVE  Ahead'
<1>1. globalSteps \in Nat /\ completed \in Nat /\ epoch \in Nat
  BY Constants DEF TypeInv, Types
<1>2. CASE Resume
  <2>1. UNCHANGED <<tracker, completed, folders>> /\ pc = "start"
    BY <1>2 DEF Resume, store, managerVars, disk
  <2>2. CASE CannotResume
    <3>1. pc' = "raised"
      BY <1>2, <2>2 DEF Resume
    <3>2. QED
      BY <2>1, <3>1 DEF Ahead, Running, Learning, Learnt
  <2>3. CASE ~CannotResume
    <3>1. \/ pc' = "epoch" /\ globalSteps' = completed + 1
          \/ pc' = "returned"
      BY <1>2, <2>1, <2>3, ResumesAtLatest DEF Resume, FirstStepAfter
    <3>2. tracker.state # "empty"
      BY <2>1, <2>3 DEF CannotResume, ResumesLatest, TypeInv, Types
    <3>3. QED
      BY <1>1, <2>1, <3>1, <3>2 DEF Ahead, Running, Learning, Learnt
  <2>4. QED
    BY <2>2, <2>3
<1>3. CASE StartEpoch \/ EndEpoch \/ Validate \/ Update
           \/ \E kept \in 0..TrainBatchSize : FetchBatch(kept)
  BY <1>1, <1>3
  DEF StartEpoch, EndEpoch, Validate, Update, FetchBatch, store, managerVars, disk,
      Ahead, Running, Learning, Learnt
<1>4. CASE EndStep
  BY <1>1, <1>4 DEF EndStep, store, managerVars, disk, Ahead, Running, Learning, Learnt
<1>5. CASE SaveRole \/ RoleSaved \/ OpenData \/ WriteData \/ OpenTracker
  BY <1>1, <1>5
  DEF SaveRole, CallSave, RoleSaved, AfterRole, OpenData, WriteData, OpenTracker, memory,
      store, managerVars, disk, Ahead, Running, Learning, Learnt
<1>6. CASE WriteTracker
  <2>1. globalSteps \in folders
    BY <1>6 DEF WriteTracker, HasFolder, Sealing
  <2>2. QED
    BY <1>1, <1>6, <2>1
    DEF WriteTracker, memory, managerVars, disk, Ahead, Running, Learning, Learnt
<1>7. CASE \E r \in Ranks : RankSaves(r)
  <2>1. folders \subseteq folders'
    BY <1>7 DEF RankSaves, RankStep, EnterSave, OpenShard, CloseShard, LeaveSave
  <2>2. QED
    BY <1>7, <2>1 DEF RankSaves, memory, store, Ahead
<1>8. CASE Die \/ Launch
  BY <1>8
  DEF Die, Launch, Forget, ManagersDie, store, disk, Ahead, Running, Learning, Learnt
<1>9. CASE UNCHANGED vars
  BY <1>9 DEF vars, memory, store, managerVars, disk, Ahead
<1>10. QED
  BY <1>2, <1>3, <1>4, <1>5, <1>6, <1>7, <1>8, <1>9 DEF Next, Trainer, Stopped

\* No folder is ever removed.
LEMMA HasFolderStep ==
  ASSUME TypeInv, HasFolder, [Next]_vars
  PROVE  HasFolder'
<1>1. CASE SaveRole
  <2>1. pc' = "saving" /\ \A r \in Ranks : stage'[r] = "enter"
    BY <1>1 DEF SaveRole, CallSave
  <2>2. QED
    BY <2>1 DEF HasFolder, Sealing
<1>2. CASE RoleSaved
  <2>1. pc = "saving" /\ stage[0] = "returned" /\ 0 \in Ranks
    BY <1>2, RankFacts DEF RoleSaved, SaveReturned
  <2>2. globalSteps \in folders
    BY <2>1 DEF HasFolder
  <2>3. globalSteps' = globalSteps /\ folders' = folders
    BY <1>2 DEF RoleSaved, disk
  <2>4. QED
    BY <2>2, <2>3 DEF HasFolder
<1>3. ASSUME NEW r \in Ranks, RankSaves(r) PROVE HasFolder'
  <2>1. pc = "saving" /\ pc' = "saving" /\ globalSteps' = globalSteps
    BY <1>3 DEF RankSaves, memory
  <2>2. EnterSave(r, Roles[saving], globalSteps) => globalSteps \in folders'
    BY DEF EnterSave
  <2>3. ~EnterSave(r, Roles[saving], globalSteps) => stage[r] # "enter" /\ folders' = folders
    BY <1>3 DEF RankSaves, RankStep, OpenShard, CloseShard, LeaveSave
  <2>4. globalSteps \in folders'
    BY <2>1, <2>2, <2>3 DEF HasFolder
  <2>5. QED
    BY <2>1, <2>4 DEF HasFolder
<1>4. CASE OpenData \/ WriteData \/ OpenTracker \/ WriteTracker
  BY <1>4
  DEF OpenData, WriteData, OpenTracker, WriteTracker, memory, managerVars, disk,
      HasFolder, Sealing
<1>5. CASE pc' \notin {"save", "saving"} \cup Sealing
  BY <1>5 DEF HasFolder, Sealing
<1>6. CASE Validate
  BY <1>6 DEF Validate, HasFolder, Sealing
<1>7. CASE UNCHANGED vars
  BY <1>7 DEF vars, memory, managerVars, disk, ranks, HasFolder
<1>8. QED
  <2>1. CASE Resume \/ StartEpoch \/ EndEpoch \/ Update \/ EndStep \/ Die \/ Launch
             \/ \E kept \in 0..TrainBatchSize : FetchBatch(kept)
    BY <1>5, <2>1
    DEF Resume, StartEpoch, EndEpoch, Update, EndStep, Die, Launch, FetchBatch, Sealing
  <2>2. QED
    BY <1>1, <1>2, <1>3, <1>4, <1>6, <1>7, <2>1 DEF Next, Trainer, Stopped

\* The newest of ascending paths ascend to the same end.
LEMMA NewestAscends ==
  ASSUME NEW paths \in Seq(Steps), NEW keep \in Nat, keep <= Len(paths),
         \A a, b \in 1..Len(paths) : a < b => paths[a] < paths[b]
  PROVE  LET newest == Newest(paths, keep)
         IN  /\ \A a, b \in 1..Len(newest) : a < b => newest[a] < newest[b]
             /\ newest # <<>> => /\ paths # <<>>
                                 /\ newest[Len(newest)] = paths[Len(paths)]
<1> DEFINE newest == Newest(paths, keep)
<1>1. /\ newest \in Seq(Steps) /\ Len(newest) = keep
      /\ \A i \in 1..keep : /\ Len(paths) - keep + i \in 1..Len(paths)
                            /\ newest[i] = paths[Len(paths) - keep + i]
  BY PathsKept
<1> HIDE DEF newest
<1>2. ASSUME NEW a \in 1..Len(newest), NEW b \in 1..Len(newest), a < b
      PROVE  newest[a] < newest[b]
  <2>1. Len(paths) - keep + a < Len(paths) - keep + b
    BY <1>1, <1>2
  <2>2. QED
    BY <1>1, <2>1
<1>3. ASSUME newest # <<>>
      PROVE  paths # <<>> /\ newest[Len(newest)] = paths[Len(paths)]
  <2>1. keep \in 1..keep /\ Len(paths) - keep + keep = Len(paths)
    BY <1>1, <1>3
  <2>2. Len(paths) \in 1..Len(paths)
    BY <1>1, <2>1
  <2>3. QED
    BY <1>1, <2>1, <2>2
<1>4. QED
  BY <1>2, <1>3 DEF newest

\* The paths of one role may change, and whether they end at the running save.
LEMMA PathsRankStep ==
  ASSUME TypeInv, Ahead, PathsAscend, NEW r \in Ranks, RankSaves(r)
  PROVE  PathsAscend'
<1> DEFINE role == Roles[saving]
           paths == savedPaths[role]
<1>1. /\ pc = "saving" /\ UNCHANGED <<pc, saving, globalSteps, completed>>
      /\ RankStep(r, role, globalSteps, weights[role])
  BY DEF RankSaves, memory
<1>2. /\ saving \in 1..Len(Roles) /\ role \in RoleSet /\ globalSteps \in Steps
      /\ paths \in Seq(Steps) /\ savedPaths \in [RoleSet -> Seq(Steps)]
      /\ stage \in [Ranks -> Stages] /\ completed \in Nat
      /\ completed < globalSteps /\ globalSteps \in Nat
  BY <1>1, SavingFacts, Constants
  DEF TypeInv, Types, Steps, Ahead, Running, Learnt
<1>3. \A i \in 1..Len(Roles) : i # saving =>
        (Registered(i)' <=> Registered(i)) /\ Roles[i] \in RoleSet /\ Roles[i] # role
  BY <1>1, <1>2, RoleFacts DEF Registered, Sealing
<1>4. ASSUME NEW paths2, savedPaths' = [savedPaths EXCEPT ![role] = paths2],
             \A a, b \in 1..Len(paths2) : a < b => paths2[a] < paths2[b],
             paths2 # <<>> =>
               paths2[Len(paths2)] = IF Registered(saving)' THEN globalSteps ELSE completed
      PROVE  PathsAscend'
  <2>1. savedPaths'[role] = paths2
    BY <1>2, <1>4
  <2>2. \A i \in 1..Len(Roles) : i # saving => savedPaths'[Roles[i]] = savedPaths[Roles[i]]
    BY <1>2, <1>3, <1>4
  <2>3. ASSUME NEW i \in 1..Len(Roles)
        PROVE  /\ \A a, b \in 1..Len(savedPaths'[Roles[i]]) :
                    a < b => savedPaths'[Roles[i]][a] < savedPaths'[Roles[i]][b]
               /\ savedPaths'[Roles[i]] # <<>> =>
                    savedPaths'[Roles[i]][Len(savedPaths'[Roles[i]])] =
                      IF Registered(i)' THEN globalSteps ELSE completed
    <3>1. CASE i = saving
      <4>1. savedPaths'[Roles[i]] = paths2 /\ (Registered(i)' <=> Registered(saving)')
        BY <1>1, <2>1, <3>1 DEF Registered
      <4>2. QED
        BY <1>4, <4>1
    <3>2. CASE i # saving
      BY <1>3, <2>2, <3>2 DEF PathsAscend
    <3>3. QED
      BY <3>1, <3>2
  <2>4. QED
    BY <1>1, <2>3 DEF PathsAscend
<1>5. ASSUME UNCHANGED savedPaths, Registered(saving)' <=> Registered(saving)
      PROVE  PathsAscend'
  BY <1>1, <1>3, <1>5 DEF PathsAscend
<1>6. Registered(saving) <=> stage[0] = "returned"
  BY <1>1, <1>2 DEF Registered, Sealing
<1>7. Registered(saving)' <=> stage'[0] = "returned"
  BY <1>1, <1>2 DEF Registered, Sealing
<1>8. \A a, b \in 1..Len(paths) : a < b => paths[a] < paths[b]
  BY <1>2 DEF PathsAscend
<1>9. paths # <<>> =>
        paths[Len(paths)] = IF Registered(saving) THEN globalSteps ELSE completed
  BY <1>2 DEF PathsAscend
<1>10. CASE EnterSave(r, role, globalSteps)
  <2>1. Registered(saving)' <=> Registered(saving)
    BY <1>2, <1>6, <1>7, <1>10, RankFacts DEF EnterSave
  <2>2. CASE UNCHANGED savedPaths
    BY <1>5, <2>1, <2>2
  <2>3. CASE /\ MaxToKeep - 1 \in Nat /\ MaxToKeep - 1 <= Len(paths)
             /\ savedPaths' = [savedPaths EXCEPT ![role] = Newest(paths, MaxToKeep - 1)]
    <3> HIDE DEF role, paths
    <3>1. QED
      BY <1>2, <1>4, <1>8, <1>9, <2>1, <2>3, NewestAscends
  <2>4. QED
    BY <1>1, <1>10, <2>2, <2>3, EnterEffect
<1>11. CASE OpenShard(r, role, globalSteps) \/ CloseShard(r, role, globalSteps, weights[role])
  <2>1. UNCHANGED savedPaths /\ (stage'[0] = "returned" <=> stage[0] = "returned")
    BY <1>2, <1>11, RankFacts DEF OpenShard, CloseShard
  <2>2. QED
    BY <1>5, <1>6, <1>7, <2>1
<1>12. CASE LeaveSave(r, role, globalSteps) /\ r # 0
  <2>1. UNCHANGED savedPaths /\ (stage'[0] = "returned" <=> stage[0] = "returned")
    BY <1>2, <1>12, RankFacts DEF LeaveSave
  <2>2. QED
    BY <1>5, <1>6, <1>7, <2>1
<1>13. CASE LeaveSave(r, role, globalSteps) /\ r = 0
  <2> DEFINE paths2 == Append(paths, globalSteps)
  <2>1. stage[0] = "written" /\ stage'[0] = "returned"
    BY <1>2, <1>13, RankFacts DEF LeaveSave
  <2>2. /\ paths2 \in Seq(Steps) /\ Len(paths2) = Len(paths) + 1 /\ Len(paths) \in Nat
        /\ paths2[Len(paths2)] = globalSteps
        /\ \A i \in 1..Len(paths) : paths2[i] = paths[i] /\ paths[i] \in Nat
    <3> HIDE DEF paths
    <3>1. /\ paths2 \in Seq(Steps) /\ Len(paths2) = Len(paths) + 1 /\ Len(paths) \in Nat
          /\ paths2[Len(paths2)] = globalSteps
      BY <1>2
    <3>2. \A i \in 1..Len(paths) : paths2[i] = paths[i] /\ paths[i] \in Steps
      BY <1>2
    <3>3. QED
      BY <3>1, <3>2 DEF Steps
  <2>3. \A i \in 1..Len(paths) : paths[i] <= completed
    <3>1. paths # <<>> => paths[Len(paths)] = completed
      BY <1>6, <1>9, <2>1
    <3> HIDE DEF paths
    <3>2. ASSUME NEW i \in 1..Len(paths) PROVE paths[i] <= completed
      <4>1. paths # <<>> /\ Len(paths) \in 1..Len(paths) /\ paths[i] \in Nat
        BY <1>2, <2>2, EmptySeq
      <4>2. CASE i = Len(paths)
        BY <3>1, <4>1, <4>2
      <4>3. CASE i # Len(paths)
        <5>1. i < Len(paths) /\ paths[Len(paths)] \in Nat
          BY <2>2, <4>1, <4>3
        <5>2. paths[i] < paths[Len(paths)]
          BY <1>8, <4>1, <5>1
        <5>3. QED
          BY <3>1, <4>1, <5>1, <5>2
      <4>4. QED
        BY <4>2, <4>3
    <3>3. QED
      BY <3>2
  <2>4. \A a, b \in 1..Len(paths2) : a < b => paths2[a] < paths2[b]
    <3> HIDE DEF paths, paths2
    <3>1. ASSUME NEW a \in 1..Len(paths2), NEW b \in 1..Len(paths2), a < b
          PROVE  paths2[a] < paths2[b]
      <4>1. a \in 1..Len(paths)
        BY <2>2, <3>1
      <4>2. CASE b \in 1..Len(paths)
        BY <1>8, <2>2, <3>1, <4>1, <4>2
      <4>3. CASE b \notin 1..Len(paths)
        <5>1. b = Len(paths2) /\ paths2[a] <= completed /\ paths2[a] \in Nat
          BY <2>2, <2>3, <3>1, <4>1, <4>3
        <5>2. QED
          BY <1>2, <2>2, <5>1
      <4>4. QED
        BY <4>2, <4>3
    <3>2. QED
      BY <3>1
  <2>5. CASE savedPaths' = [savedPaths EXCEPT ![role] = paths2]
    <3> HIDE DEF role, paths, paths2
    <3>1. QED
      BY <1>4, <1>7, <2>1, <2>2, <2>4, <2>5
  <2>6. CASE /\ MaxToKeep <= Len(paths2)
             /\ savedPaths' = [savedPaths EXCEPT ![role] = Newest(paths2, MaxToKeep)]
    <3> HIDE DEF role, paths, paths2
    <3>1. QED
      BY <1>4, <1>7, <2>1, <2>2, <2>4, <2>6, NewestAscends, Constants
  <2>7. QED
    BY <1>1, <1>13, <2>5, <2>6, LeaveEffect
<1>14. QED
  BY <1>1, <1>10, <1>11, <1>12, <1>13 DEF RankStep

\* Only a save changes the paths, and a job starts without any.
LEMMA PathsAscendStep ==
  ASSUME TypeInv, Ahead, PathsAscend, [Next]_vars
  PROVE  PathsAscend'
<1>1. CASE \E r \in Ranks : RankSaves(r)
  BY <1>1, PathsRankStep
<1>2. CASE \A i \in 1..Len(Roles) : savedPaths'[Roles[i]] = <<>>
  BY <1>2 DEF PathsAscend
<1>3. CASE UNCHANGED savedPaths /\ \A i \in 1..Len(Roles) :
             IF Registered(i)
             THEN \/ Registered(i)' /\ UNCHANGED globalSteps
                  \/ ~Registered(i)' /\ completed' = globalSteps
             ELSE ~Registered(i)' /\ UNCHANGED completed
  BY <1>3 DEF PathsAscend
<1>4. CASE Resume \/ Die \/ Launch
  <2>1. savedPaths' = [role \in RoleSet |-> <<>>]
    BY <1>4 DEF Resume, Die, Launch, Forget, ManagersDie, managerVars, TypeInv, Places
  <2>2. QED
    BY <1>2, <2>1, RoleFacts
<1>5. CASE StartEpoch \/ EndEpoch \/ Update \/ Validate \/ EndStep
           \/ \E kept \in 0..TrainBatchSize : FetchBatch(kept)
  BY <1>3, <1>5
  DEF StartEpoch, EndEpoch, Update, Validate, EndStep, FetchBatch, managerVars,
      Registered, Sealing
<1>6. CASE SaveRole
  <2>1. stage'[0] = "enter" /\ pc = "save" /\ pc' = "saving"
    BY <1>6, RankFacts DEF SaveRole, CallSave
  <2>2. UNCHANGED <<savedPaths, saving, globalSteps, completed>>
    BY <1>6 DEF SaveRole, CallSave, memory
  <2>3. \A i \in 1..Len(Roles) : Registered(i) <=> Registered(i)'
    BY <2>1, <2>2 DEF Registered, Sealing
  <2>4. QED
    BY <1>3, <2>2, <2>3
<1>7. CASE RoleSaved
  <2>1. pc = "saving" /\ stage[0] = "returned" /\ saving \in 1..Len(Roles)
        /\ UNCHANGED <<savedPaths, globalSteps, completed>>
    BY <1>7, RankFacts, SavingFacts DEF RoleSaved, SaveReturned
  <2>2. \/ pc' = "save" /\ saving' = saving + 1
        \/ pc' = "open_data" /\ saving = Len(Roles)
    BY <1>7, <2>1, RoleFacts DEF RoleSaved, AfterRole
  <2>3. \A i \in 1..Len(Roles) : Registered(i) <=> Registered(i)'
    BY <2>1, <2>2, RoleFacts DEF Registered, Sealing
  <2>4. QED
    BY <1>3, <2>1, <2>3
<1>8. CASE OpenData \/ WriteData \/ OpenTracker \/ WriteTracker
  BY <1>3, <1>8
  DEF OpenData, WriteData, OpenTracker, WriteTracker, memory, managerVars, Registered, Sealing
<1>9. CASE UNCHANGED vars
  BY <1>9 DEF vars, memory, managerVars, ranks, PathsAscend, Registered
<1>10. QED
  BY <1>1, <1>4, <1>5, <1>6, <1>7, <1>8, <1>9 DEF Next, Trainer, Stopped

\* What the running save has written stays as it is.
LEMMA SavedStep ==
  ASSUME KeepsTwo, TypeInv, Ahead, PathsAscend, Saved, [Next]_vars
  PROVE  Saved'
<1>1. CASE SaveRole
  <2>1. /\ pc = "save" /\ pc' = "saving" /\ \A r \in Ranks : written'[r] = 0
        /\ UNCHANGED <<saving, files, weights, globalSteps>>
    BY <1>1 DEF SaveRole, CallSave, memory, disk
  <2>2. \A r \in Ranks : 1..written'[r] = {}
    BY <2>1
  <2>3. QED
    BY <2>1, <2>2 DEF Saved, AllWritten, Sealing
<1>2. ASSUME NEW r \in Ranks, RankSaves(r) PROVE Saved'
  <2> DEFINE role == Roles[saving]
  <2>1. /\ pc = "saving" /\ UNCHANGED <<pc, saving, globalSteps, weights>>
        /\ RankStep(r, role, globalSteps, weights[role])
    BY <1>2 DEF RankSaves, memory
  <2>2. /\ saving \in 1..Len(Roles) /\ role \in RoleSet /\ globalSteps \in Steps
        /\ written \in [Ranks -> 0..Len(SaveContents)] /\ ~(globalSteps < completed)
    BY <2>1, SavingFacts, Constants
    DEF TypeInv, Types, Steps, Ahead, Running, Learnt
  <2>3. \A role2 \in RoleSet : \A q \in Ranks : \A k \in Contents :
          \/ files'[globalSteps][role2][q][k] = files[globalSteps][role2][q][k]
          \/ role2 = role /\ q = r /\ k = written[r] + 1
    BY <1>2, <2>2, FilesWritten
  <2>4. \A i \in 1..(saving - 1) : AllWritten(Roles[i])'
    <3>1. \A i \in 1..(saving - 1) : Roles[i] \in RoleSet /\ Roles[i] # role
      BY <2>2, RoleFacts
    <3>2. \A i \in 1..(saving - 1) : AllWritten(Roles[i])
      BY <2>1 DEF Saved
    <3>3. QED
      BY <2>1, <2>3, <3>1, <3>2 DEF AllWritten
  <2>5. ASSUME NEW q \in Ranks, NEW k \in 1..written'[q]
        PROVE  files'[globalSteps][role][q][k] = Whole(weights[role])
    <3>1. CASE CloseShard(r, role, globalSteps, weights[role])
      <4>1. /\ Rewritten(role, r, Whole(weights[role])) /\ written[r] + 1 \in Contents
            /\ written' = [written EXCEPT ![r] = @ + 1]
        BY <2>1, <3>1, ShardEffect DEF CloseShard
      <4>2. CASE q = r /\ k = written[r] + 1
        BY <2>2, <4>1, <4>2 DEF Rewritten, ButOne
      <4>3. CASE ~(q = r /\ k = written[r] + 1)
        <5>1. k \in 1..written[q] /\ k \in Contents
          BY <2>2, <2>5, <4>1, <4>3, Constants DEF Contents
        <5>2. files[globalSteps][role][q][k] = Whole(weights[role])
          BY <2>1, <5>1 DEF Saved
        <5>3. QED
          BY <2>2, <2>3, <4>3, <5>1, <5>2
      <4>4. QED
        BY <4>2, <4>3
    <3>2. CASE written' = written
      <4>1. k \in 1..written[q] /\ k \in Contents /\ ~(q = r /\ k = written[r] + 1)
        BY <2>2, <2>5, <3>2, Constants DEF Contents
      <4>2. files[globalSteps][role][q][k] = Whole(weights[role])
        BY <2>1, <4>1 DEF Saved
      <4>3. QED
        BY <2>2, <2>3, <4>1, <4>2
    <3>3. QED
      BY <2>1, <3>1, <3>2 DEF RankStep, EnterSave, OpenShard, LeaveSave
  <2>6. QED
    BY <2>1, <2>4, <2>5 DEF Saved, Sealing
<1>3. CASE RoleSaved
  <2>1. pc = "saving" /\ UNCHANGED <<files, weights, globalSteps, dataFile, loader>>
    BY <1>3 DEF RoleSaved, disk, store
  <2>2. saving \in 1..Len(Roles)
    BY <2>1, SavingFacts
  <2>3. \A r \in Ranks : written[r] = Len(SaveContents)
    BY <1>3 DEF RoleSaved, SaveReturned, TypeInv, RanksInStep
  <2>4. AllWritten(Roles[saving])
    BY <2>1, <2>3 DEF Saved, AllWritten, Contents
  <2>5. \A i \in 1..saving : AllWritten(Roles[i])'
    <3>1. \A i \in 1..saving : AllWritten(Roles[i])
      BY <2>1, <2>2, <2>4, RoleFacts DEF Saved
    <3>2. QED
      BY <2>1, <3>1 DEF AllWritten
  <2>6. \/ pc' = "save" /\ saving' = saving + 1
        \/ pc' = "open_data" /\ saving = Len(Roles)
    BY <1>3, <2>2, RoleFacts DEF RoleSaved, AfterRole
  <2>7. CASE pc' = "save" /\ saving' = saving + 1
    BY <2>2, <2>5, <2>7, RoleFacts DEF Saved, Sealing
  <2>8. CASE pc' = "open_data" /\ saving = Len(Roles)
    BY <2>5, <2>8, RoleFacts DEF Saved, Sealing
  <2>9. QED
    BY <2>6, <2>7, <2>8
<1>4. CASE OpenData \/ WriteData \/ OpenTracker \/ WriteTracker
  <2>1. globalSteps \in Steps /\ dataFile \in [Steps -> DataFiles]
    BY <1>4, StepInRange
    DEF OpenData, WriteData, OpenTracker, WriteTracker, Running, Learnt, TypeInv, Types
  <2>2. UNCHANGED <<files, weights, globalSteps, loader>> /\ pc \in Sealing
    BY <1>4
    DEF OpenData, WriteData, OpenTracker, WriteTracker, memory, managerVars, disk, Sealing
  <2>3. \A role \in RoleSet : AllWritten(role)'
    BY <2>2 DEF Saved, AllWritten
  <2>4. pc' = "open_tracker" => dataFile'[globalSteps] = Whole(<<loader>>)
    BY <1>4, <2>1 DEF OpenData, WriteData, OpenTracker, WriteTracker
  <2>5. pc' = "write_tracker" => dataFile'[globalSteps] = Whole(<<loader>>)
    BY <1>4, <2>1 DEF OpenData, WriteData, OpenTracker, WriteTracker, Saved
  <2>6. pc' \notin {"save", "saving"}
    BY <1>4 DEF OpenData, WriteData, OpenTracker, WriteTracker
  <2>7. QED
    BY <2>2, <2>3, <2>4, <2>5, <2>6 DEF Saved, Sealing
<1>5. CASE Validate
  <2>1. saving' = 1 /\ pc' \in {"save", "log"}
    BY <1>5 DEF Validate
  <2>2. 1..(saving' - 1) = {}
    BY <2>1
  <2>3. QED
    BY <2>1, <2>2 DEF Saved, Sealing
<1>6. CASE Resume \/ StartEpoch \/ EndEpoch \/ Update \/ EndStep \/ Die \/ Launch
           \/ \E kept \in 0..TrainBatchSize : FetchBatch(kept)
  <2>1. pc' \notin {"save", "saving"} \cup Sealing
    BY <1>6
    DEF Resume, StartEpoch, EndEpoch, Update, EndStep, Die, Launch, FetchBatch, Sealing
  <2>2. QED
    BY <2>1 DEF Saved, Sealing
<1>7. CASE UNCHANGED vars
  BY <1>7 DEF vars, memory, store, managerVars, disk, ranks, Saved, AllWritten
<1>8. QED
  BY <1>1, <1>2, <1>3, <1>4, <1>5, <1>6, <1>7 DEF Next, Trainer, Stopped

\* What is appended to the second of two sequences is appended to both.
LEMMA ConcatAppend ==
  ASSUME NEW A, NEW x \in Seq(A), NEW y \in Seq(A), NEW z \in A
  PROVE  x \o Append(y, z) = Append(x \o y, z)
OBVIOUS

\* What is appended is last.
LEMMA LastAppended ==
  ASSUME NEW A, NEW seq \in Seq(A), NEW x \in A
  PROVE  Append(seq, x) # <<>> /\ Append(seq, x)[Len(Append(seq, x))] = x
OBVIOUS

\* Batches are gathered before the update, which learns from all of them.
LEMMA GatheredStep ==
  ASSUME TypeInv, Gathered, [Next]_vars
  PROVE  Gathered'
<1>1. ASSUME NEW kept \in 0..TrainBatchSize, FetchBatch(kept) PROVE Gathered'
  <2>1. /\ pending' = Append(pending, loader.passed + 1)
        /\ pc' \in {"fetch", "update", "raised"}
        /\ loader' = [loader EXCEPT !.yielded = @ + 1, !.passed = @ + 1]
    BY <1>1 DEF FetchBatch
  <2>2. loader'.passed = loader.passed + 1 /\ loader.passed + 1 \in Nat
    <3>1. loader \in Loaders
      BY DEF TypeInv, Types
    <3>2. QED
      BY <2>1, <3>1 DEF Loaders
  <2>3. pending' # <<>> /\ pending'[Len(pending')] = loader'.passed
    <3> DEFINE x == loader.passed + 1
    <3>1. pending \in Seq(Nat) /\ x \in Nat
      BY <2>2 DEF TypeInv, Types
    <3>2. pending' = Append(pending, x) /\ loader'.passed = x
      BY <2>1, <2>2
    <3> HIDE DEF x
    <3>3. Append(pending, x) # <<>> /\ Append(pending, x)[Len(Append(pending, x))] = x
      BY <3>1, LastAppended
    <3>4. QED
      BY <3>2, <3>3
  <2>4. QED
    BY <2>1, <2>3 DEF Gathered, Learnt
<1>2. CASE Update
  <2>1. UNCHANGED <<pending, loader>> /\ pc = "update"
    BY <1>2 DEF Update, gathering
  <2>2. ASSUME LearnsEveryStep
        PROVE  weights'[Learner] # <<>> /\ weights'[Learner][Len(weights'[Learner])] = pending
    <3>1. weights'[Learner] = Append(weights[Learner], pending)
      BY <1>2, <2>2, LearnerLearns
    <3>2. weights[Learner] \in Batches /\ pending \in Seq(Nat)
      BY RoleFacts DEF TypeInv, Types
    <3> DEFINE w == weights[Learner]
               w2 == weights'[Learner]
    <3>3. w2 = Append(w, pending) /\ w \in Seq(Seq(Nat)) /\ pending \in Seq(Nat)
      BY <3>1, <3>2 DEF Batches
    <3> HIDE DEF w, w2
    <3>4. Append(w, pending) # <<>> /\ Append(w, pending)[Len(Append(w, pending))] = pending
      BY <3>3, LastAppended
    <3>5. QED
      BY <3>3, <3>4 DEF w2
  <2>3. QED
    BY <2>1, <2>2 DEF Gathered
<1>3. CASE UNCHANGED <<pending, loader, weights>> /\ (pc' \in Learnt => pc \in Learnt)
           /\ pc' # "update"
  BY <1>3 DEF Gathered
<1>4. CASE pc' \notin Learnt \cup {"update"}
  BY <1>4 DEF Gathered
<1>5. CASE Resume \/ StartEpoch \/ EndEpoch \/ EndStep \/ Die \/ Launch
  BY <1>4, <1>5 DEF Resume, StartEpoch, EndEpoch, EndStep, Die, Launch, Learnt
<1>6. CASE Validate \/ SaveRole \/ RoleSaved \/ OpenData \/ WriteData \/ OpenTracker
           \/ WriteTracker
  BY <1>3, <1>6
  DEF Validate, SaveRole, CallSave, RoleSaved, AfterRole, OpenData, WriteData, OpenTracker,
      WriteTracker, memory, gathering, Learnt
<1>7. CASE \E r \in Ranks : RankSaves(r)
  BY <1>3, <1>7 DEF RankSaves, memory, gathering, Learnt
<1>8. CASE UNCHANGED vars
  BY <1>8 DEF vars, memory, gathering, Gathered
<1>9. QED
  BY <1>1, <1>2, <1>5, <1>6, <1>7, <1>8 DEF Next, Trainer, Stopped

\* As long as the tracker names it, a checkpoint is neither removed nor written.
LEMMA CheckpointKept ==
  ASSUME KeepsTwo, TypeInv, Ahead, PathsAscend, [Next]_vars,
         tracker.state = "number", UNCHANGED tracker
  PROVE  /\ completed \in Steps /\ completed = tracker.step /\ UNCHANGED completed
         /\ dataFile'[completed] = dataFile[completed]
         /\ \A role \in RoleSet : \A r \in Ranks : \A k \in Contents :
              files'[completed][role][r][k] = files[completed][role][r][k]
<1>1. completed = tracker.step /\ completed \in Steps
  BY Constants DEF TypeInv, Types, Closed, Trackers, Ahead, Steps
<1>2. CASE \E r \in Ranks : RankSaves(r)
  <2>1. PICK r \in Ranks : RankSaves(r)
    BY <1>2
  <2>2. UNCHANGED <<dataFile, completed>> /\ completed < globalSteps /\ completed \in Nat
        /\ globalSteps \in Nat
    BY <2>1, Constants
    DEF RankSaves, memory, store, Ahead, Running, Learnt, TypeInv, Types
  <2>3. ~(completed < completed) /\ completed # globalSteps
    BY <2>2
  <2>4. QED
    BY <1>1, <2>1, <2>2, <2>3, FilesWritten
<1>3. CASE OpenData \/ WriteData
  <2>1. UNCHANGED <<files, completed>> /\ completed # globalSteps
    BY <1>3, Constants
    DEF OpenData, WriteData, memory, managerVars, disk, Ahead, Running, Learnt,
        TypeInv, Types
  <2>2. \A s \in Steps : s # globalSteps => dataFile'[s] = dataFile[s]
    BY <1>3 DEF OpenData, WriteData, TypeInv, Types
  <2>3. QED
    BY <1>1, <2>1, <2>2
<1>4. CASE WriteTracker
  <2>1. UNCHANGED <<files, dataFile>> /\ tracker'.step = globalSteps /\ completed' = globalSteps
    BY <1>4 DEF WriteTracker, memory, managerVars, disk
  <2>2. QED
    BY <1>1, <2>1
<1>5. CASE UNCHANGED <<dataFile, files, completed>>
  BY <1>1, <1>5
<1>6. CASE Resume \/ StartEpoch \/ EndEpoch \/ Update \/ EndStep \/ Die \/ Launch
           \/ \E kept \in 0..TrainBatchSize : FetchBatch(kept)
  BY <1>5, <1>6
  DEF Resume, StartEpoch, EndEpoch, Update, EndStep, Die, Launch, FetchBatch, Forget,
      ManagersDie, store, managerVars, disk
<1>7. CASE Validate \/ SaveRole \/ RoleSaved \/ OpenTracker \/ UNCHANGED vars
  BY <1>5, <1>7
  DEF Validate, SaveRole, CallSave, RoleSaved, OpenTracker, vars, store, managerVars, disk
<1>8. QED
  BY <1>2, <1>3, <1>4, <1>6, <1>7 DEF Next, Trainer, Stopped

\* The step whose tracker is written holds what the job has in memory.
LEMMA TrackerNamesMemory ==
  ASSUME Saved, WriteTracker
  PROVE  /\ UNCHANGED <<files, dataFile, weights, globalSteps, loader>>
         /\ tracker'.step = globalSteps /\ completed' = globalSteps
         /\ \A role \in RoleSet :
              /\ Loaded(globalSteps, role) = weights[role]
              /\ \A r \in Ranks : \A k \in Contents :
                   files[globalSteps][role][r][k] = Whole(weights[role])
         /\ dataFile[globalSteps].state = "whole" /\ dataFile[globalSteps].holds[1] = loader
<1>1. /\ UNCHANGED <<files, dataFile, weights, globalSteps, loader>>
      /\ pc = "write_tracker" /\ tracker'.step = globalSteps /\ completed' = globalSteps
  BY DEF WriteTracker, memory, managerVars, disk
<1>2. /\ \A role \in RoleSet : \A r \in Ranks : \A k \in Contents :
           files[globalSteps][role][r][k] = Whole(weights[role])
      /\ dataFile[globalSteps] = Whole(<<loader>>)
  BY <1>1 DEF Saved, AllWritten, Sealing
<1>3. \A role \in RoleSet : files[globalSteps][role][0][1] = Whole(weights[role])
  BY <1>2, RankFacts
<1>4. /\ \A h : Whole(h).holds = h /\ Whole(h).state = "whole"
      /\ <<loader>>[1] = loader
  BY DEF Whole
<1>5. QED
  BY <1>1, <1>2, <1>3, <1>4 DEF Loaded

\* A checkpoint is all there by the time the tracker names it.
LEMMA CompleteStep ==
  ASSUME KeepsTwo, TypeInv, Ahead, PathsAscend, Saved, Gathered, TrackerNamesComplete,
         [Next]_vars
  PROVE  TrackerNamesComplete'
<1>1. CASE UNCHANGED tracker
  <2> DEFINE step == tracker.step
  <2>1. SUFFICES ASSUME tracker.state = "number" PROVE CompleteAt(step)'
    BY <1>1 DEF TrackerNamesComplete
  <2>2. CompleteAt(step)
    BY <2>1 DEF TrackerNamesComplete
  <2>3. /\ step' = step /\ step = completed /\ dataFile'[step] = dataFile[step]
        /\ \A role \in RoleSet : \A r \in Ranks : \A k \in Contents :
             files'[step][role][r][k] = files[step][role][r][k]
    BY <1>1, <2>1, CheckpointKept
  <2>4. \A role \in RoleSet : files'[step][role][0][1] = files[step][role][0][1]
    BY <2>3, RankFacts
  <2>5. \A role \in RoleSet : Loaded(step, role)' = Loaded(step, role)
    BY <2>3, <2>4 DEF Loaded
  <2> HIDE DEF step
  <2>6. QED
    BY <2>2, <2>3, <2>5, RoleFacts DEF CompleteAt, Contents
<1>2. CASE OpenTracker
  BY <1>2 DEF OpenTracker, TrackerNamesComplete
<1>3. CASE WriteTracker
  <2>1. \A role \in RoleSet : Loaded(tracker.step, role)' = weights[role]
    BY <1>3, TrackerNamesMemory DEF Loaded
  <2>2. LearnsEveryStep => Last(Last(weights[Learner])) = loader.passed
    BY <1>3 DEF WriteTracker, Gathered, Last, Learnt
  <2>3. QED
    BY <1>3, <2>1, <2>2, TrackerNamesMemory, RoleFacts
    DEF TrackerNamesComplete, CompleteAt, LearnsEveryStep, Contents
<1>4. QED
  BY <1>1, <1>2, <1>3
  DEF Next, Trainer, Stopped, Resume, StartEpoch, EndEpoch, Update, EndStep, Die, Launch,
      FetchBatch, Validate, SaveRole, RoleSaved, OpenData, WriteData, RankSaves, vars, store

\* All of it together.
LEMMA SaveInvariant ==
  ASSUME KeepsTwo, ResumesLatest
  PROVE  Spec => []SaveInv
<1>1. TypeInv /\ TypeInv' /\ SaveInv /\ [Next]_vars => SaveInv'
  BY AheadStep, HasFolderStep, PathsAscendStep, SavedStep, GatheredStep, CompleteStep
  DEF SaveInv
<1>2. QED
  BY <1>1, SaveInit, TypeInvariant, PTL DEF Spec

\* With two checkpoints kept, the one that the tracker names is all there, on
\* every rank and for every role, whenever the job dies and whatever it removes,
\* for any number of ranks, files, steps and jobs.
THEOREM TrackerCorrect ==
  ASSUME KeepsTwo, ResumesLatest
  PROVE  Spec => []TrackerNamesComplete
<1>1. SaveInv => TrackerNamesComplete
  BY DEF SaveInv
<1>2. QED
  BY <1>1, SaveInvariant, PTL

\* A job goes on from the last save that was completed by the jobs before it.
THEOREM ResumeCorrect ==
  ASSUME KeepsTwo, ResumesLatest
  PROVE  Spec => []ResumesFromLastSave
<1>1. SaveInv => ResumesFromLastSave
  BY DEF SaveInv, Ahead, ResumesFromLastSave
<1>2. QED
  BY <1>1, SaveInvariant, PTL

---------------------------------------------------------------------------
\* Updates that are lost

\* The saves that completed are save_freq steps apart, and what the running job
\* has learnt since the last of them is less than that, but for a save that is due.
FewUnsaved ==
  SaveFreq > 0 =>
    /\ completed % SaveFreq = 0
    /\ pc \in {"save", "saving"} \cup Sealing => globalSteps % SaveFreq = 0
    /\ Len(weights[Learner]) < completed + SaveFreq + (IF SaveDue THEN 1 ELSE 0)

\* Multiples of d are d apart.
LEMMA NextMultiple ==
  ASSUME NEW n \in Nat, NEW d \in Nat \ {0}, n % d = 0
  PROVE  (n + d) % d = 0
<1> DEFINE q == n \div d
           m == n + d
           p == m \div d
           r == m % d
<1>1. n = d * q /\ q \in Int
  OBVIOUS
<1>2. m = d * p + r /\ r \in 0..(d - 1) /\ p \in Int
  OBVIOUS
<1>3. m = d * (q + 1)
  BY <1>1
<1> HIDE DEF q, m, p, r
<1>4. d * (q + 1 - p) = r
  BY <1>1, <1>2, <1>3
<1>5. CASE q + 1 - p <= 0
  <2>1. d * (q + 1 - p) <= 0
    BY <1>1, <1>2, <1>5
  <2>2. QED
    BY <1>2, <1>4, <2>1 DEF r, m
<1>6. CASE q + 1 - p >= 1
  <2>1. d * (q + 1 - p) >= d
    BY <1>1, <1>2, <1>6
  <2>2. QED
    BY <1>2, <1>4, <2>1
<1>7. QED
  BY <1>1, <1>2, <1>5, <1>6

\* The bound holds across saves, ends of jobs and resumes.
LEMMA FewUnsavedStep ==
  ASSUME ResumesLatest, LearnsEveryStep, SaveInv, Counted, FewUnsaved, [Next]_vars
  PROVE  FewUnsaved'
<1>1. SUFFICES ASSUME SaveFreq > 0 PROVE FewUnsaved'
  BY DEF FewUnsaved
<1>2. /\ TypeInv /\ SaveFreq \in Nat \ {0} /\ completed \in Nat /\ globalSteps \in Nat
      /\ weights[Learner] \in Batches /\ Len(weights[Learner]) \in Nat
      /\ completed % SaveFreq = 0
  BY <1>1, RoleFacts, Constants DEF FewUnsaved, SaveInv, TypeInv, Types, Batches
<1>3. CASE Resume
  <2>1. /\ pc = "start" /\ UNCHANGED completed
        /\ pc' \in {"epoch", "returned", "raised"}
    BY <1>3 DEF Resume
  <2>2. Len(weights'[Learner]) <= completed
    <3>1. CASE CannotResume
      <4>1. weights' = weights
        BY <1>3, <3>1 DEF Resume, memory
      <4>2. weights[Learner] = <<>>
        BY <1>2, <2>1, RoleFacts DEF TypeInv, Places, NoWeights
      <4>3. QED
        BY <1>2, <4>1, <4>2
    <3>2. CASE ~CannotResume
      BY <1>2, <1>3, <2>1, <3>2, ResumeLoads, ResumesAtLatest DEF SaveInv
    <3>3. QED
      BY <3>1, <3>2
  <2>3. Len(weights'[Learner]) \in Nat
    <3>1. TypeInv'
      BY <1>2, <1>3, ResumeTypes
    <3>2. weights'[Learner] \in Batches
      BY <3>1, RoleFacts DEF TypeInv, Types
    <3>3. QED
      BY <3>2 DEF Batches
  <2>4. QED
    BY <1>2, <2>1, <2>2, <2>3 DEF FewUnsaved, SaveDue, Sealing
<1>4. CASE Update
  <2>1. Len(weights'[Learner]) = Len(weights[Learner]) + 1
    <3> DEFINE w == weights[Learner]
    <3>1. weights'[Learner] = Append(w, pending)
      BY <1>2, <1>4, LearnerLearns
    <3>2. w \in Seq(Seq(Nat)) /\ pending \in Seq(Nat)
      BY <1>2 DEF Batches, TypeInv, Types
    <3> HIDE DEF w
    <3>3. Len(Append(w, pending)) = Len(w) + 1
      BY <3>2
    <3>4. QED
      BY <3>1, <3>3 DEF w
  <2>2. pc = "update" /\ pc' = "validate" /\ UNCHANGED completed
    BY <1>4 DEF Update
  <2>3. QED
    BY <1>2, <2>1, <2>2 DEF FewUnsaved, SaveDue, Sealing
<1>5. CASE Validate
  <2>1. /\ pc = "validate" /\ UNCHANGED <<completed, weights, globalSteps>>
        /\ pc' = IF Saves THEN "save" ELSE "log"
    BY <1>5 DEF Validate
  <2>2. Len(weights[Learner]) = globalSteps
    BY <2>1 DEF Counted, Learnt
  <2>3. globalSteps <= completed + SaveFreq
    BY <1>2, <2>1, <2>2 DEF FewUnsaved, SaveDue
  <2>4. CASE Saves
    BY <1>2, <2>1, <2>2, <2>3, <2>4 DEF Saves, FewUnsaved, SaveDue, Sealing
  <2>5. CASE ~Saves
    <3>1. globalSteps # completed + SaveFreq
      BY <1>1, <1>2, <2>5, NextMultiple DEF Saves
    <3>2. globalSteps < completed + SaveFreq
      BY <1>2, <2>3, <3>1
    <3>3. QED
      BY <1>2, <2>1, <2>2, <2>5, <3>2 DEF FewUnsaved, SaveDue, Sealing
  <2>6. QED
    BY <2>4, <2>5
<1>6. CASE WriteTracker
  <2>1. /\ pc = "write_tracker" /\ pc' = "log" /\ completed' = globalSteps
        /\ UNCHANGED <<weights, globalSteps>>
    BY <1>6 DEF WriteTracker, memory
  <2>2. Len(weights[Learner]) = globalSteps /\ globalSteps % SaveFreq = 0
    BY <1>1, <2>1 DEF Counted, Learnt, FewUnsaved, Sealing
  <2>3. QED
    BY <1>2, <2>1, <2>2 DEF FewUnsaved, SaveDue, Sealing
<1>7. CASE Die \/ Launch
  <2>1. /\ weights'[Learner] = <<>> /\ UNCHANGED completed
        /\ pc' \in {"down", "start"}
    BY <1>7, RoleFacts DEF Die, Launch, Forget, NoWeights
  <2>2. QED
    BY <1>2, <2>1 DEF FewUnsaved, SaveDue, Sealing
<1>8. CASE /\ UNCHANGED <<completed, weights>> /\ (SaveDue' <=> SaveDue)
           /\ pc' \in {"save", "saving"} \cup Sealing =>
                pc \in {"save", "saving"} \cup Sealing /\ UNCHANGED globalSteps
  BY <1>1, <1>8 DEF FewUnsaved
<1>9. CASE SaveRole \/ RoleSaved \/ OpenData \/ WriteData \/ OpenTracker
  BY <1>8, <1>9
  DEF SaveRole, RoleSaved, AfterRole, OpenData, WriteData, OpenTracker, memory,
      SaveDue, Sealing
<1>10. CASE StartEpoch \/ EndEpoch \/ EndStep
            \/ \E kept \in 0..TrainBatchSize : FetchBatch(kept)
  BY <1>8, <1>10 DEF StartEpoch, EndEpoch, EndStep, FetchBatch, SaveDue, Sealing
<1>11. CASE \E r \in Ranks : RankSaves(r)
  BY <1>8, <1>11 DEF RankSaves, memory, SaveDue, Sealing
<1>12. CASE UNCHANGED vars
  BY <1>8, <1>12 DEF vars, memory, SaveDue, Sealing
<1>13. QED
  BY <1>3, <1>4, <1>5, <1>6, <1>7, <1>9, <1>10, <1>11, <1>12 DEF Next, Trainer, Stopped

\* Whenever a job dies, raises or returns, fewer than save_freq of the updates it
\* has made are lost to the next one, or save_freq if it dies before the save that
\* is due has completed.
THEOREM LossCorrect ==
  ASSUME KeepsTwo, ResumesLatest, LearnsEveryStep
  PROVE  Spec => []LosesFewUpdates
<1>1. Init => FewUnsaved
  BY RoleFacts, Constants DEF Init, NoWeights, FewUnsaved, SaveDue, Sealing
<1>2. SaveInv /\ Counted /\ FewUnsaved /\ [Next]_vars => FewUnsaved'
  BY FewUnsavedStep
<1>3. SaveInv /\ FewUnsaved => LosesFewUpdates
  <2> SUFFICES ASSUME SaveInv, FewUnsaved, SaveFreq > 0, tracker.state # "empty"
               PROVE  LosesFewUpdates
    BY DEF LosesFewUpdates
  <2>1. LatestStep = completed
    BY DEF LatestStep, SaveInv, Ahead, TypeInv, Types, Trackers
  <2>2. /\ weights[Learner] \in Batches /\ Len(weights[Learner]) \in Nat
        /\ completed \in Nat /\ SaveFreq \in Nat
    BY RoleFacts, Constants DEF SaveInv, TypeInv, Types, Batches
  <2>3. QED
    BY <2>1, <2>2 DEF FewUnsaved, LosesFewUpdates, Unsaved
<1>4. QED
  BY <1>1, <1>2, <1>3, SaveInvariant, CountedInvariant, PTL DEF Spec

---------------------------------------------------------------------------
\* Batches

UpTo(n) == [i \in 1..n |-> i]

\* The learner has learnt from the batches that were taken, in order and once
\* each, in memory and in the checkpoint that the tracker names.
Once ==
  /\ pc \in Learning => FlattenSeq(weights[Learner]) \o pending = UpTo(loader.passed)
  /\ pc \in Learnt => FlattenSeq(weights[Learner]) = UpTo(loader.passed)
  /\ tracker.state = "number" =>
       FlattenSeq(Loaded(completed, Learner)) = UpTo(dataFile[completed].holds[1].passed)

\* One more.
LEMMA UpToNext ==
  ASSUME NEW n \in Nat
  PROVE  Append(UpTo(n), n + 1) = UpTo(n + 1) /\ UpTo(n) \in Seq(Nat) /\ UpTo(0) = <<>>
<1>1. UpTo(n) \in Seq(Nat) /\ Len(UpTo(n)) = n
  BY DEF UpTo
<1>2. UpTo(n + 1) \in Seq(Nat) /\ Len(UpTo(n + 1)) = n + 1
  BY DEF UpTo
<1>3. /\ Append(UpTo(n), n + 1) \in Seq(Nat) /\ Len(Append(UpTo(n), n + 1)) = n + 1
      /\ \A i \in 1..n : Append(UpTo(n), n + 1)[i] = UpTo(n)[i]
      /\ Append(UpTo(n), n + 1)[n + 1] = n + 1
  BY <1>1
<1>4. \A i \in 1..(n + 1) : Append(UpTo(n), n + 1)[i] = UpTo(n + 1)[i]
  BY <1>3 DEF UpTo
<1>5. Append(UpTo(n), n + 1) = UpTo(n + 1)
  BY <1>2, <1>3, <1>4
<1>6. UpTo(0) = <<>>
  BY DEF UpTo
<1>7. QED
  BY <1>1, <1>5, <1>6

\* The learner has learnt from nothing, and nothing is appended to a sequence.
LEMMA FlattenEmpty ==
  /\ FlattenSeq(<<>>) = <<>>
  /\ \A s \in Seq(Nat) : s \o <<>> = s
<1>1. Len(<<>>) = 0
  OBVIOUS
<1>2. FlattenSeq(<<>>) = <<>>
  BY <1>1, FlattenIsFlat
<1>3. QED
  BY <1>2

\* A batch is taken, then learnt from, then saved, then resumed from.
LEMMA OnceStep ==
  ASSUME KeepsTwo, ResumesLatest, LearnsEveryStep, SaveInv, Once, [Next]_vars
  PROVE  Once'
<1>1. /\ TypeInv /\ weights[Learner] \in Batches /\ pending \in Seq(Nat)
      /\ loader \in Loaders /\ loader.passed \in Nat
  BY RoleFacts DEF SaveInv, TypeInv, Types, Loaders
<1>2. FlattenSeq(weights[Learner]) \in Seq(Nat)
  BY <1>1, FlattenAppend DEF Batches
<1>3. ASSUME tracker'.state = "number", ~WriteTracker
      PROVE  FlattenSeq(Loaded(completed, Learner)') =
               UpTo(dataFile'[completed'].holds[1].passed)
  <2>1. UNCHANGED tracker
    <3>1. Resume => UNCHANGED tracker
      BY DEF Resume, store
    <3>2. QED
      BY <1>3, <3>1
      DEF Next, Trainer, Stopped, StartEpoch, EndEpoch, Update, EndStep, Die, Launch,
          FetchBatch, Validate, SaveRole, RoleSaved, OpenData, WriteData, OpenTracker,
          RankSaves, vars, store
  <2>2. /\ UNCHANGED completed /\ dataFile'[completed] = dataFile[completed]
        /\ files'[completed][Learner][0][1] = files[completed][Learner][0][1]
    BY <1>3, <2>1, CheckpointKept, RoleFacts, RankFacts DEF SaveInv
  <2>3. Loaded(completed, Learner)' = Loaded(completed, Learner)
    BY <2>2 DEF Loaded
  <2>4. QED
    BY <1>3, <2>1, <2>2, <2>3 DEF Once
<1>4. CASE Resume
  <2>1. pc = "start" /\ pending' = <<>> /\ ~WriteTracker
        /\ pc' \in {"raised", "epoch", "returned"}
    BY <1>1, <1>4 DEF Resume, TypeInv, Places, WriteTracker, memory, gathering
  <2>2. CASE CannotResume
    <3>1. pc' = "raised"
      BY <1>4, <2>2 DEF Resume
    <3>2. QED
      BY <1>3, <2>1, <3>1 DEF Once, Learning, Learnt
  <2>3. CASE ~CannotResume /\ StepToResume = 0
    <3>1. weights'[Learner] = <<>> /\ loader'.passed = 0
      BY <1>1, <1>4, <2>3, RoleFacts
      DEF Resume, TypeInv, Places, NoWeights, FreshLoader
    <3>2. FlattenSeq(weights'[Learner]) \o pending' = UpTo(loader'.passed)
      BY <2>1, <3>1, FlattenEmpty, UpToNext
    <3>3. QED
      BY <1>3, <2>1, <3>2 DEF Once, Learning, Learnt
  <2>4. CASE ~CannotResume /\ StepToResume # 0
    <3>1. StepToResume = completed /\ tracker.state = "number" /\ tracker.step = completed
      BY <2>1, <2>4, ResumesAtLatest DEF SaveInv, Ahead
    <3>2. weights'[Learner] = Loaded(completed, Learner)
      BY <1>4, <2>4, <3>1, RoleFacts DEF Resume
    <3>3. dataFile[completed].state = "whole"
      BY <3>1 DEF SaveInv, TrackerNamesComplete, CompleteAt
    <3>4. loader'.passed = dataFile[completed].holds[1].passed
      <4>1. loader' = [dataFile[completed].holds[1] EXCEPT !.loaded = TRUE]
        BY <1>4, <2>4, <3>1, <3>3 DEF Resume, ResumedLoader
      <4>2. completed \in Steps
        BY <2>1, <2>4, <3>1, <1>1, LoadTypes
      <4>3. dataFile[completed].holds[1] \in Loaders
        <5>1. dataFile[completed].holds \in Seq(Loaders) /\ Len(dataFile[completed].holds) = 1
          BY <1>1, <3>3, <4>2 DEF TypeInv, Types, DataFiles, Closed
        <5>2. QED
          BY <5>1
      <4>4. QED
        BY <4>1, <4>3 DEF Loaders
    <3>5. FlattenSeq(weights'[Learner]) = UpTo(loader'.passed)
      BY <3>1, <3>2, <3>4 DEF Once
    <3>6. FlattenSeq(weights'[Learner]) \in Seq(Nat)
      <4>1. weights'[Learner] \in Batches
        BY <1>1, <2>1, <2>4, <3>1, <3>2, LoadTypes, RoleFacts
      <4>2. QED
        BY <4>1, FlattenAppend DEF Batches
    <3>7. FlattenSeq(weights'[Learner]) \o pending' = UpTo(loader'.passed)
      BY <2>1, <3>5, <3>6, FlattenEmpty
    <3>8. QED
      BY <1>3, <2>1, <3>5, <3>7 DEF Once, Learning, Learnt
  <2>5. QED
    BY <2>2, <2>3, <2>4
<1>5. ASSUME NEW kept \in 0..TrainBatchSize, FetchBatch(kept) PROVE Once'
  <2>1. /\ pc = "fetch" /\ pc' \in {"fetch", "update", "raised"} /\ weights' = weights
        /\ pending' = Append(pending, loader.passed + 1)
        /\ loader' = [loader EXCEPT !.yielded = @ + 1, !.passed = @ + 1]
        /\ ~WriteTracker
    BY <1>5 DEF FetchBatch, WriteTracker
  <2>2. loader'.passed = loader.passed + 1
    BY <1>1, <2>1 DEF Loaders
  <2>3. FlattenSeq(weights[Learner]) \o pending = UpTo(loader.passed)
    BY <2>1 DEF Once, Learning
  <2>4. FlattenSeq(weights[Learner]) \o Append(pending, loader.passed + 1)
          = Append(FlattenSeq(weights[Learner]) \o pending, loader.passed + 1)
    <3> DEFINE x == FlattenSeq(weights[Learner])
               z == loader.passed + 1
    <3>1. x \in Seq(Nat) /\ pending \in Seq(Nat) /\ z \in Nat
      BY <1>1, <1>2 DEF Loaders
    <3> HIDE DEF x, z
    <3>2. x \o Append(pending, z) = Append(x \o pending, z)
      BY <3>1, ConcatAppend
    <3>3. QED
      BY <3>2 DEF x, z
  <2>5. FlattenSeq(weights'[Learner]) \o pending' = UpTo(loader'.passed)
    BY <1>1, <2>1, <2>2, <2>3, <2>4, UpToNext
  <2>6. QED
    BY <1>3, <2>1, <2>5 DEF Once, Learning, Learnt
<1>6. CASE Update
  <2>1. /\ pc = "update" /\ pc' = "validate" /\ UNCHANGED <<loader, pending>> /\ ~WriteTracker
    BY <1>6 DEF Update, gathering, WriteTracker
  <2>2. FlattenSeq(weights'[Learner]) = FlattenSeq(weights[Learner]) \o pending
    BY <1>1, <1>6, LearnerLearns, FlattenAppend DEF Batches
  <2>3. QED
    BY <1>3, <2>1, <2>2 DEF Once, Learning, Learnt
<1>7. CASE EndStep
  <2>1. /\ pc = "log" /\ UNCHANGED <<weights, loader>> /\ ~WriteTracker
        /\ \/ pc' \in {"returned", "raised"}
           \/ pc' = "fetch" /\ pending' = <<>>
    BY <1>7 DEF EndStep, WriteTracker
  <2>2. FlattenSeq(weights[Learner]) = UpTo(loader.passed)
    BY <2>1 DEF Once, Learnt
  <2>3. FlattenSeq(weights[Learner]) \o <<>> = UpTo(loader.passed)
    BY <1>2, <2>2, FlattenEmpty
  <2>4. QED
    BY <1>3, <2>1, <2>3 DEF Once, Learning, Learnt
<1>8. CASE WriteTracker
  <2>1. /\ pc = "write_tracker" /\ pc' = "log" /\ UNCHANGED <<weights, loader>>
    BY <1>8 DEF WriteTracker, memory
  <2>2. FlattenSeq(weights[Learner]) = UpTo(loader.passed)
    BY <2>1 DEF Once, Learnt
  <2>3. /\ completed' = globalSteps /\ dataFile'[globalSteps].holds[1] = loader
        /\ Loaded(globalSteps, Learner) = weights[Learner] /\ UNCHANGED files
    BY <1>8, TrackerNamesMemory, RoleFacts DEF SaveInv
  <2>4. Loaded(completed, Learner)' = weights[Learner]
    BY <2>3 DEF Loaded
  <2>5. QED
    BY <2>1, <2>2, <2>3, <2>4 DEF Once, Learning, Learnt
<1>9. CASE StartEpoch
  <2>1. pc = "epoch" /\ UNCHANGED <<weights, pending>> /\ pc' \in {"fetch", "returned"}
        /\ ~WriteTracker
    BY <1>9 DEF StartEpoch, gathering, WriteTracker
  <2>2. loader'.passed = loader.passed
    BY <1>1, <1>9 DEF StartEpoch, Loaders
  <2>3. QED
    BY <1>3, <2>1, <2>2 DEF Once, Learning, Learnt
<1>10. CASE UNCHANGED <<weights, pending, loader>> /\ ~WriteTracker
            /\ (pc' \in Learning => pc \in Learning) /\ (pc' \in Learnt => pc \in Learnt)
  BY <1>3, <1>10 DEF Once
<1>11. CASE EndEpoch \/ Validate \/ SaveRole \/ RoleSaved \/ OpenData \/ WriteData \/ OpenTracker
  BY <1>10, <1>11
  DEF EndEpoch, Validate, SaveRole, CallSave, RoleSaved, AfterRole, OpenData, WriteData,
      OpenTracker, WriteTracker, memory, gathering, Learning, Learnt
<1>12. CASE \E r \in Ranks : RankSaves(r)
  BY <1>10, <1>12 DEF RankSaves, WriteTracker, memory, gathering
<1>13. CASE Die \/ Launch
  <2>1. pc' \in {"down", "start"} /\ ~WriteTracker
    BY <1>13 DEF Die, Launch, WriteTracker
  <2>2. QED
    BY <1>3, <2>1 DEF Once, Learning, Learnt
<1>14. CASE UNCHANGED vars
  <2>1. UNCHANGED <<weights, pending, loader, pc, tracker, completed, dataFile, files>>
    BY <1>14 DEF vars, memory, gathering, store, managerVars, disk
  <2>2. QED
    BY <2>1 DEF Once, Loaded
<1>15. QED
  BY <1>4, <1>5, <1>6, <1>7, <1>8, <1>9, <1>11, <1>12, <1>13, <1>14
  DEF Next, Trainer, Stopped

\* However often the training is interrupted, the batches that were learnt from
\* are those from the first to the last one taken, each once and in order.
THEOREM BatchesCorrect ==
  ASSUME KeepsTwo, ResumesLatest, LearnsEveryStep
  PROVE  Spec => []EachBatchOnce
<1>1. Init => Once
  BY DEF Init, NoTracker, Once, Learning, Learnt
<1>2. SaveInv /\ Once /\ [Next]_vars => Once'
  BY OnceStep
<1>3. SaveInv /\ Once => EachBatchOnce
  <2> SUFFICES ASSUME SaveInv, Once, Trains PROVE EachBatchOnce
    BY DEF EachBatchOnce
  <2>1. CASE pc \in Learning
    BY <2>1 DEF Once, EachBatchOnce, Learning, UpTo
  <2>2. CASE pc \in Learnt
    <3>1. FlattenSeq(weights[Learner]) = UpTo(loader.passed) /\ loader.passed \in Nat
      BY <2>2 DEF Once, SaveInv, TypeInv, Types, Loaders
    <3>2. FlattenSeq(weights[Learner]) \o <<>> = UpTo(loader.passed)
      BY <3>1, FlattenEmpty, UpToNext
    <3>3. pc \notin {"epoch", "fetch", "update"}
      BY <2>2 DEF Learnt
    <3>4. QED
      BY <3>2, <3>3 DEF EachBatchOnce, UpTo
  <2>3. QED
    BY <2>1, <2>2 DEF Trains, Learning, Learnt
<1>4. QED
  BY <1>1, <1>2, <1>3, SaveInvariant, PTL DEF Spec
============================================================================
