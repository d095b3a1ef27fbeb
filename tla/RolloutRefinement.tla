------------------------- MODULE RolloutRefinement -------------------------
(***************************************************************************)
(* MultiTurnRollout implements SearchDialogue: what a trajectory looks     *)
(* like when the rounds, the loops and the thread pool are not seen.       *)
(***************************************************************************)
EXTENDS MultiTurnRollout

\* Out of the dialogue: it left to_generate, or will at the end of the loop.
Closed(t) ==
  \/ t \notin toGenerate
  \/ t \in idxToRemove
  \/ pc \in {"rebuild", "done"}

\* From the time it has asked until its result is appended.
Asking(t) ==
  \/ pc = "trigger" /\ t \notin left
  \/ pc = "call"
  \/ pc = "process" /\ t \in left

Phase(t) ==
  IF pc = "failed" THEN "lost"
  ELSE IF Closed(t) THEN "closed"
  ELSE IF Asking(t) THEN "tool" ELSE "model"

\* The rollout is a search dialogue for every trajectory: rounds, loops and
\* the thread pool of generate_sequences add no behaviour and lose none.
Dialogue == INSTANCE SearchDialogue WITH
  phase <- [t \in Traj |-> Phase(t)],
  images <- imageCnt,
  texts <- textCnt,
  outcome <- IF pc = "done" THEN "returned"
             ELSE IF pc = "failed" THEN "lost" ELSE "open"

IsSearchDialogue == Dialogue!Spec
===========================================================================
