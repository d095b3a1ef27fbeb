-------------------------- MODULE SearchDialogue --------------------------
(***************************************************************************)
(* What a multi-turn rollout promises, trajectory by trajectory and with   *)
(* no rounds, loops or threads: the model either asks a question of a      *)
(* search tool, within the limits, and gets an answer, or closes; the      *)
(* batch is returned when every trajectory has closed, or lost as a whole. *)
(***************************************************************************)
EXTENDS Naturals

CONSTANTS Traj, MaxGenRound, ImageSearchLimit, TextSearchLimit

VARIABLES
  phase,   \* whose turn it is in a trajectory: "model", "tool", or none
           \* ("closed" in a batch that may return, "lost" in one that raised)
  images,  \* image searches asked by each trajectory
  texts,   \* text searches asked by each trajectory
  outcome  \* "open", "returned" or "lost"

vars == <<phase, images, texts, outcome>>

Init ==
  /\ phase = [t \in Traj |-> "model"]
  /\ images = [t \in Traj |-> 0]
  /\ texts = [t \in Traj |-> 0]
  /\ outcome = "open"

MayAsk(t) ==
  /\ outcome = "open"
  /\ phase[t] = "model"
  /\ images[t] + texts[t] < MaxGenRound - 1
  /\ phase' = [phase EXCEPT ![t] = "tool"]
  /\ UNCHANGED outcome

AskImage(t) ==
  /\ MayAsk(t)
  /\ images[t] < ImageSearchLimit
  /\ images' = [images EXCEPT ![t] = @ + 1]
  /\ UNCHANGED texts

AskText(t) ==
  /\ MayAsk(t)
  /\ texts[t] < TextSearchLimit
  /\ texts' = [texts EXCEPT ![t] = @ + 1]
  /\ UNCHANGED images

Answer(t) ==
  /\ outcome = "open"
  /\ phase[t] = "tool"
  /\ phase' = [phase EXCEPT ![t] = "model"]
  /\ UNCHANGED <<images, texts, outcome>>

Close(t) ==
  /\ outcome = "open"
  /\ phase[t] = "model"
  /\ phase' = [phase EXCEPT ![t] = "closed"]
  /\ UNCHANGED <<images, texts, outcome>>

Return ==
  /\ outcome = "open"
  /\ \A t \in Traj : phase[t] = "closed"
  /\ outcome' = "returned"
  /\ UNCHANGED <<phase, images, texts>>

Lose ==
  /\ outcome = "open"
  /\ outcome' = "lost"
  /\ phase' = [t \in Traj |-> "lost"]
  /\ UNCHANGED <<images, texts>>

Advance ==
  \/ Return
  \/ Lose
  \/ \E t \in Traj : AskImage(t) \/ AskText(t) \/ Answer(t) \/ Close(t)

Terminated == outcome # "open" /\ UNCHANGED vars

Next == Advance \/ Terminated

Spec == Init /\ [][Next]_vars /\ WF_vars(Advance)
===========================================================================
