------------------------- MODULE CheckpointManager -------------------------
(***************************************************************************)
(* save_checkpoint of FSDPCheckpointManager, one process per rank: rank 0  *)
(* makes room, every rank writes its shards between two barriers, and rank *)
(* 0 registers the new path and removes the oldest.  The list of saved     *)
(* paths lives in memory, the files on a disk that outlives the job.       *)
(***************************************************************************)
EXTENDS Integers, FiniteSets, Sequences, SequencesExt

CONSTANTS
  WorldSize,     \* torch.distributed.get_world_size()
  MaxStep,       \* bound: the highest global step a job reaches
  UseCritic,     \* use_critic, which is saved after the actor
  MaxToKeep,     \* max_actor_ckpt_to_keep and max_critic_ckpt_to_keep (None: 0)
  SaveContents   \* checkpoint.save_contents, in the order it is written

ASSUME ManagerAssumption ==
  /\ WorldSize \in Nat \ {0}
  /\ MaxStep \in Nat \ {0}
  /\ UseCritic \in BOOLEAN
  /\ MaxToKeep \in Nat
  /\ SaveContents \in Seq({"model", "optimizer", "extra"}) \ {<<>>}
  /\ IsInjective(SaveContents)

Ranks == 0 .. (WorldSize - 1)
Steps == 1 .. MaxStep
Roles == IF UseCritic THEN <<"actor", "critic">> ELSE <<"actor">>
RoleSet == {Roles[i] : i \in 1..Len(Roles)}

VARIABLES
  folders,     \* steps whose global_step folder exists
  files,       \* files[step][role][rank], one per entry of SaveContents
  savedPaths,  \* previous_saved_paths of each role, on rank 0
  stage,       \* where each rank is in save_checkpoint
  written      \* how many of its files a rank has written

disk == <<folders, files>>
ranks == <<stage, written>>
managerVars == <<disk, savedPaths, ranks>>

Absent == [state |-> "absent", holds |-> <<>>]
Torn == [state |-> "torn", holds |-> <<>>]
Whole(holds) == [state |-> "whole", holds |-> holds]
NoFiles == [r \in Ranks |-> [k \in 1..Len(SaveContents) |-> Absent]]

ManagerInit ==
  /\ folders = {}
  /\ files = [s \in Steps |-> [role \in RoleSet |-> NoFiles]]
  /\ savedPaths = [role \in RoleSet |-> <<>>]
  /\ stage = [r \in Ranks |-> "idle"]
  /\ written = [r \in Ranks |-> 0]

\* remove_previous_save_local_path: the steps of paths lose this role's files
\* (the folder of the step, and its data.pt, stay).
Without(disk0, role, paths) ==
  [s \in Steps |-> IF s \in ToSet(paths)
                   THEN [disk0[s] EXCEPT ![role] = NoFiles] ELSE disk0[s]]

\* Mutant: the first ones are kept.
MutNewestRemoved(paths, keep) == SubSeq(paths, keep + 1, Len(paths))

\* All but the last keep of paths, which are the oldest, and the last keep.
Oldest(paths, keep) == SubSeq(paths, 1, Len(paths) - keep)
Newest(paths, keep) == SubSeq(paths, Len(paths) - keep + 1, Len(paths))

\* ensure_checkpoint_capacity: the old ones go before the new one is written,
\* unless only one is kept.
OverCapacity(role) == MaxToKeep > 1 /\ Len(savedPaths[role]) >= MaxToKeep

\* The trainer calls save_checkpoint on every worker of a role.
CallSave ==
  /\ stage' = [r \in Ranks |-> "enter"]
  /\ written' = [r \in Ranks |-> 0]
  /\ UNCHANGED <<disk, savedPaths>>

\* Up to the first barrier.
EnterSave(r, role, step) ==
  /\ stage[r] = "enter"
  /\ stage' = [stage EXCEPT ![r] = "write"]
  /\ folders' = folders \cup {step}
  /\ IF r = 0 /\ OverCapacity(role)
     THEN LET paths == savedPaths[role]
          IN  /\ files' = Without(files, role, Oldest(paths, MaxToKeep - 1))
              /\ savedPaths' =
                   [savedPaths EXCEPT ![role] = Newest(paths, MaxToKeep - 1)]
     ELSE UNCHANGED <<files, savedPaths>>
  /\ UNCHANGED written

\* torch.save opens the next file of the rank: what was there is gone.
OpenShard(r, role, step) ==
  /\ stage[r] = "write"
  /\ \A q \in Ranks : stage[q] # "enter"
  /\ stage' = [stage EXCEPT ![r] = "writing"]
  /\ files' = [files EXCEPT ![step][role][r][written[r] + 1] = Torn]
  /\ UNCHANGED <<folders, savedPaths, written>>

\* The file is whole; after the last one the rank waits at the second barrier.
CloseShard(r, role, step, holds) ==
  /\ stage[r] = "writing"
  /\ files' = [files EXCEPT ![step][role][r][written[r] + 1] = Whole(holds)]
  /\ written' = [written EXCEPT ![r] = @ + 1]
  /\ stage' = [stage EXCEPT ![r] =
       IF written[r] + 1 < Len(SaveContents) THEN "write" ELSE "written"]
  /\ UNCHANGED <<folders, savedPaths>>

\* Past the second barrier, where every rank's files are on disk.  Rank 0 runs
\* register_checkpoint.
LeaveSave(r, role, step) ==
  /\ stage[r] = "written"
  /\ \A q \in Ranks : stage[q] \in {"written", "returned"}
  /\ stage' = [stage EXCEPT ![r] = "returned"]
  /\ LET paths == Append(savedPaths[role], step)
     IN  IF r # 0 THEN UNCHANGED <<files, savedPaths>>
         ELSE IF MaxToKeep > 0 /\ Len(paths) > MaxToKeep
         THEN /\ files' = Without(files, role, Oldest(paths, MaxToKeep))
              /\ savedPaths' =
                   [savedPaths EXCEPT ![role] = Newest(paths, MaxToKeep)]
         ELSE /\ savedPaths' = [savedPaths EXCEPT ![role] = paths]
              /\ UNCHANGED files
  /\ UNCHANGED <<folders, written>>

SaveReturned == \A r \in Ranks : stage[r] = "returned"

RankStep(r, role, step, holds) ==
  \/ EnterSave(r, role, step)
  \/ OpenShard(r, role, step)
  \/ CloseShard(r, role, step, holds)
  \/ LeaveSave(r, role, step)

\* load_checkpoint fails on every rank if it fails on one, and it fails on a
\* file that is missing or cut short.
Loadable(step, role) ==
  \A r \in Ranks : \A k \in 1..Len(SaveContents) :
    files[step][role][r][k].state = "whole"

Loaded(step, role) == files[step][role][0][1].holds

\* The job dies with what it kept in memory.
ManagersDie ==
  /\ savedPaths' = [role \in RoleSet |-> <<>>]
  /\ stage' = [r \in Ranks |-> "idle"]
  /\ written' = [r \in Ranks |-> 0]
  /\ UNCHANGED disk

ManagerTypeOK ==
  /\ folders \subseteq Steps
  /\ \A s \in Steps : \A role \in RoleSet : \A r \in Ranks :
       \A k \in 1..Len(SaveContents) :
         files[s][role][r][k].state \in {"absent", "torn", "whole"}
  /\ \A role \in RoleSet : savedPaths[role] \in Seq(Steps)
  /\ stage \in [Ranks -> {"idle", "enter", "write", "writing", "written", "returned"}]
  /\ written \in [Ranks -> 0..Len(SaveContents)]
===========================================================================
