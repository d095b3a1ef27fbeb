---------------------------- MODULE MessageQueue ----------------------------
(***************************************************************************)
(* The message queue between the rollouter and the trainer of the fully    *)
(* asynchronous pipeline (verl/experimental/fully_async_policy/            *)
(* message_queue.py): an actor that holds a deque of at most MaxRequired   *)
(* samples.  A put never waits: on a full queue it drops the oldest entry. *)
(* A get waits for an entry.  The end of the stream is the entry None,     *)
(* here the number behind the last sample.                                 *)
(***************************************************************************)
EXTENDS Naturals, Sequences, FiniteSets

CONSTANTS
  TotalRollout,     \* total_rollout_steps: the samples of one job
  MaxRequired       \* max_required_samples, also the maxlen of the queue

ASSUME QueueAssumption ==
  /\ TotalRollout \in Nat \ {0}
  /\ MaxRequired \in Nat \ {0}

Samples == 1..TotalRollout
None == TotalRollout + 1
Entries == Samples \cup {None}

VARIABLES
  mq,               \* the deque, oldest first
  dropped           \* the entries a put on a full queue removed

queueVars == <<mq, dropped>>

QueueTypeOK ==
  /\ mq \in Seq(Entries)
  /\ Len(mq) <= MaxRequired
  /\ dropped \subseteq Entries

QueueInit ==
  /\ mq = <<>>
  /\ dropped = {}

Full == Len(mq) >= MaxRequired

\* Mutant: the deque is unbounded.
MutPutUnbounded(x) == mq' = Append(mq, x) /\ UNCHANGED dropped

\* put_sample
PutSample(x) ==
  IF Full
  THEN /\ mq' = Append(Tail(mq), x)
       /\ dropped' = dropped \cup {Head(mq)}
  ELSE /\ mq' = Append(mq, x)
       /\ UNCHANGED dropped

\* get_sample, for a caller that does something with the entry x
GetSample(x) ==
  /\ mq # <<>>
  /\ x = Head(mq)
  /\ mq' = Tail(mq)
  /\ UNCHANGED dropped

EntriesOf(q) == {q[i] : i \in 1..Len(q)}
=============================================================================
