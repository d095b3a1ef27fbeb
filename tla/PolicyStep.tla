----------------------------- MODULE PolicyStep -----------------------------
(***************************************************************************)
(* One step of RayPPOTrainer.fit between the rollout and the update: the   *)
(* rows of a generation batch are rewarded one after the other, groups     *)
(* whose rewards are all alike are filtered out, more is generated until   *)
(* enough prompts are left, GRPO makes advantages of the rewards of a      *)
(* group, and every rank of the actor splits its share of the batch into   *)
(* mini-batches, one optimizer step each, and these into micro-batches.    *)
(*                                                                         *)
(* Only the first row of the step is any row at all; those behind it are   *)
(* OtherRows.  The rewards are integers, so the mean of a group is kept    *)
(* multiplied by its size, and its standard deviation, which is the same   *)
(* for every row of the group, is left out.                                *)
(***************************************************************************)
EXTENDS RewardManager

CONSTANTS
  BatchSize,        \* prompts of a generation batch
  N,                \* rollout.n
  TrainBatchSize,   \* data.train_batch_size
  FilterGroups,     \* the settings of filter_groups.enable
  MaxGenBatches,    \* filter_groups.max_num_gen_batches, which is positive
  UseKlLoss,        \* the settings of actor.use_kl_loss
  Ranks,            \* data-parallel ranks of the actor
  LogProbMicroBatchSizes, \* log_prob_micro_batch_size_per_gpu
  MiniBatchSizes,   \* ppo_mini_batch_size
  MicroBatchSizes,  \* ppo_micro_batch_size_per_gpu
  PpoEpochs,        \* ppo_epochs
  OtherRows         \* bound: the rows behind the first one

ASSUME StepAssumption ==
  /\ {BatchSize, N, TrainBatchSize, MaxGenBatches, Ranks, PpoEpochs}
       \subseteq Nat \ {0}
  /\ LogProbMicroBatchSizes \cup MiniBatchSizes \cup MicroBatchSizes
       \subseteq Nat \ {0}
  /\ FilterGroups \cup UseKlLoss \subseteq BOOLEAN
  /\ OtherRows \subseteq Rows

VARIABLES
  pc,           \* where fit is: "reward", "filter", "log_prob", "advantage",
                \* "update", "done" or "raised"
  numGenBatches,\* num_gen_batches
  newBatch,     \* the rows of the generation batch that have their reward
  batch,        \* the rows gathered for training
  advantages,   \* the advantage of each row of batch
  steps         \* the optimizer steps of each rank

batchVars == <<numGenBatches, newBatch, batch>>
vars == <<rewardVars, pc, batchVars, advantages, steps>>

Init ==
  /\ RewardInit
  /\ pc = "reward"
  /\ numGenBatches = 1
  /\ newBatch = <<>>
  /\ batch = <<>>
  /\ advantages = <<>>
  /\ steps = <<>>

---------------------------------------------------------------------------
\* The reward of a batch

\* The prompt of row i of a batch, whose samples the rollout keeps together.
PromptOf(i) == <<numGenBatches, ((i - 1) \div N) + 1>>

\* Mutant: the uids are repeated one after the other.
MutUidOf(i) == <<numGenBatches, ((i - 1) % BatchSize) + 1>>

\* The uid of row i: one for each prompt, repeated interleaved.
UidOf(i) == <<numGenBatches, ((i - 1) \div N) + 1>>

RewardedRow ==
  LET i == Len(newBatch) + 1
  IN  [uid |-> UidOf(i), prompt |-> PromptOf(i), reward |-> RowReward,
       correct |-> Correct]

\* The next row: the samples of a prompt share its offline edge.
TakeRow(i) ==
  /\ row' \in OtherRows
  /\ status' = "waiting"
  /\ \E edge \in IF (i - 1) % N = 0 THEN Edges(info.mode) ELSE {info.edge} :
       info' = [info EXCEPT !.edge = edge]

\* Behind the last row of a batch.
NoRow ==
  /\ row' = <<>>
  /\ status' = "batched"
  /\ info' = [info EXCEPT !.edge = "none"]

RewardRow == pc = "reward" /\ Score /\ UNCHANGED <<pc, batchVars, advantages, steps>>

NextRow ==
  /\ pc = "reward"
  /\ status = "scored"
  /\ Len(newBatch) + 1 < BatchSize * N
  /\ newBatch' = Append(newBatch, RewardedRow)
  /\ TakeRow(Len(newBatch) + 2)
  /\ score' = 0
  /\ spans' = <<>>
  /\ UNCHANGED <<pc, numGenBatches, batch, advantages, steps>>

\* The rewards of the batch are complete.  Without use_kl_loss they would lose
\* a KL penalty here, for which the batch has no log-probabilities yet.
EndReward ==
  /\ pc = "reward"
  /\ status = "scored"
  /\ Len(newBatch) + 1 = BatchSize * N
  /\ newBatch' = Append(newBatch, RewardedRow)
  /\ NoRow
  /\ score' = 0
  /\ spans' = <<>>
  /\ \E klLoss \in UseKlLoss : pc' = IF klLoss THEN "filter" ELSE "raised"
  /\ UNCHANGED <<numGenBatches, batch, advantages, steps>>

---------------------------------------------------------------------------
\* filter_groups

UidsOf(b) == {b[i].uid : i \in DOMAIN b}
GroupOf(b, uid) == {i \in DOMAIN b : b[i].uid = uid}
RewardsOf(b, uid) == {b[i].reward : i \in GroupOf(b, uid)}

\* The standard deviation of a group is above 0.  Rounding lets it be so of
\* more than two rewards that are all alike and not 0.
Varied(b) == {uid \in UidsOf(b) : Cardinality(RewardsOf(b, uid)) > 1}
MayPass(b) ==
  {uid \in UidsOf(b) : N > 2 /\ RewardsOf(b, uid) # {0}} \ Varied(b)

\* Mutant: the batch is cut to its prompts, not to their samples.
MutAligned(b) == SubSeq(b, 1, TrainBatchSize)

\* batch[:traj_bsz]
Aligned(b) == SubSeq(b, 1, TrainBatchSize * N)

KeepAll ==
  /\ pc = "filter"
  /\ FALSE \in FilterGroups
  /\ batch' = newBatch
  /\ newBatch' = <<>>
  /\ pc' = "log_prob"
  /\ UNCHANGED <<rewardVars, numGenBatches, advantages, steps>>

KeepGroups ==
  /\ pc = "filter"
  /\ TRUE \in FilterGroups
  /\ \E passed \in SUBSET MayPass(newBatch) :
       LET kept == Varied(newBatch) \cup passed
           gathered ==
             batch \o Keep(newBatch, {r \in ToSet(newBatch) : r.uid \in kept})
           enough == Cardinality(UidsOf(gathered)) >= TrainBatchSize
           goesOn == ~enough /\ numGenBatches < MaxGenBatches
       IN  /\ batch' = IF enough THEN Aligned(gathered) ELSE gathered
           /\ pc' = CASE enough -> "log_prob"
                      [] goesOn -> "reward"
                      [] OTHER  -> "raised"
           /\ IF goesOn
              THEN /\ numGenBatches' = numGenBatches + 1
                   /\ TakeRow(1)
              ELSE UNCHANGED <<numGenBatches, row, status, info>>
  /\ newBatch' = <<>>
  /\ UNCHANGED <<score, spans, advantages, steps>>

---------------------------------------------------------------------------
\* Equal chunks, which DataProto.chunk asserts that there are.

Divides(k, n) == k > 0 /\ n % k = 0
Chunk(s, k) ==
  LET size == Len(s) \div k
  IN  [c \in 1..k |-> SubSeq(s, (c - 1) * size + 1, c * size)]

\* The batch as the ranks get it: row numbers.
Shares == Chunk([i \in 1..Len(batch) |-> i], Ranks)

\* compute_log_prob, for the policy and the reference: row by row, in order,
\* unless a rank's share is too small or does not divide.
ComputeLogProb ==
  /\ pc = "log_prob"
  /\ \E micro \in LogProbMicroBatchSizes :
       LET share == Len(batch) \div Ranks
       IN  pc' = IF /\ Divides(Ranks, Len(batch))
                    /\ Divides(share \div micro, share)
                 THEN "advantage" ELSE "raised"
  /\ UNCHANGED <<rewardVars, batchVars, advantages, steps>>

---------------------------------------------------------------------------
\* compute_grpo_outcome_advantage

TotalOf(rows) == FoldFunctionOnSet(+, 0, [i \in DOMAIN batch |-> batch[i].reward], rows)

\* Mutant: the mean is that of the batch.
MutMean(rows) == (Cardinality(rows) * TotalOf(DOMAIN batch)) \div Len(batch)

\* The mean of a group's rewards, times its size; 0 for a group of one.
Mean(rows) == IF Cardinality(rows) = 1 THEN 0 ELSE TotalOf(rows)

ComputeAdvantage ==
  /\ pc = "advantage"
  /\ advantages' =
       [i \in DOMAIN batch |->
         LET group == GroupOf(batch, batch[i].uid)
         IN  Cardinality(group) * batch[i].reward - Mean(group)]
  /\ pc' = "update"
  /\ UNCHANGED <<rewardVars, batchVars, steps>>

---------------------------------------------------------------------------
\* update_policy of MmDataParallelPPOActor, on rows with images

\* ppo_mini_batch_size as the worker normalizes it, within the share.
EffectiveMini(mini, share) ==
  LET normalized == (mini * N) \div Ranks
      within == IF normalized < share THEN normalized ELSE share
  IN  IF within > 1 THEN within ELSE 1

\* Pieces of the given size, or all in one piece if that does not divide.
Pieces(s, size) == Chunk(s, IF Divides(size, Len(s)) THEN Len(s) \div size ELSE 1)

\* Mutant: the accumulation is the quotient of the sizes in the configuration.
MutAccumulation(micros, mini, micro) == IF mini > micro THEN mini \div micro ELSE 1

\* What the loss of a micro-batch is divided by.
Accumulation(micros, mini, micro) == Len(micros)

\* An optimizer step on a mini-batch: the micro-batches that add to it.
OptimizerStep(rows, mini, micro) ==
  LET micros == Pieces(rows, micro)
  IN  [micros |-> micros, accumulation |-> Accumulation(micros, mini, micro)]

RankSteps(share, mini, micro) ==
  LET size == EffectiveMini(mini, Len(share))
      minis == Pieces(share, size)
      epoch == [m \in 1..Len(minis) |-> OptimizerStep(minis[m], size, micro)]
  IN  FlattenSeq([e \in 1..PpoEpochs |-> epoch])

UpdateActor ==
  /\ pc = "update"
  /\ \E mini \in MiniBatchSizes, micro \in MicroBatchSizes :
       steps' = [rank \in 1..Ranks |-> RankSteps(Shares[rank], mini, micro)]
  /\ pc' = "done"
  /\ UNCHANGED <<rewardVars, batchVars, advantages>>

Done ==
  /\ pc \in {"done", "raised"} \/ status = "raised"
  /\ UNCHANGED vars

Next ==
  \/ RewardRow \/ NextRow \/ EndReward \/ KeepAll \/ KeepGroups
  \/ ComputeLogProb \/ ComputeAdvantage \/ UpdateActor \/ Done

Spec == Init /\ [][Next]_vars
---------------------------------------------------------------------------
\* Properties

Gathered == pc \in {"log_prob", "advantage", "update", "done"}
RowsOf(prompt) == {i \in DOMAIN batch : batch[i].prompt = prompt}
PromptsOf(b) == {b[i].prompt : i \in DOMAIN b}

\* A group is a prompt with all its samples: neither the repetition of the
\* uids, nor the filter over several generation batches, nor the cut to the
\* size of a batch joins the rows of two prompts or parts those of one.
GroupsArePrompts ==
  Gathered =>
    \A i \in DOMAIN batch :
      /\ GroupOf(batch, batch[i].uid) = RowsOf(batch[i].prompt)
      /\ Cardinality(RowsOf(batch[i].prompt)) = N

\* The advantages of a prompt's samples cancel out: whatever the other prompts
\* of the batch earn, no prompt as a whole is reinforced or discouraged.
AdvantagesCancel ==
  pc \in {"update", "done"} =>
    \A prompt \in PromptsOf(batch) :
      FoldFunctionOnSet(+, 0, advantages, RowsOf(prompt)) = 0

\* No bonus is paid, or only with a correct answer: the default of
\* search_success_shaping and of the proxy.
PaysCorrectOnly == info.mode = "outcome_only" \/ info.correctOnly

\* Where wrong answers are not paid for their searches, a correct answer is ahead
\* of every wrong one to the same prompt, although each <text_search> of a turn
\* earns a bonus and a turn may hold any number of them, and although a correct
\* answer pays for its searches.
CorrectIsAhead ==
  pc \in {"update", "done"} /\ PaysCorrectOnly =>
    \A i, j \in DOMAIN batch :
      batch[i].prompt = batch[j].prompt /\ batch[i].correct /\ ~batch[j].correct =>
        advantages[i] > advantages[j]

\* However the sizes divide, every rank makes the same number of optimizer
\* steps, each row is in one micro-batch of every epoch, and the gradient of a
\* step is the mean over its micro-batches.
EachRowOncePerEpoch ==
  pc = "done" =>
    LET Uses(i) == {u \in UNION {[rank : {r}, step : {s},
                                  micro : 1..Len(steps[r][s].micros)] :
                        r \in 1..Ranks, s \in DOMAIN steps[1]} :
                      Contains(steps[u.rank][u.step].micros[u.micro], i)}
    IN  /\ \A r \in 1..Ranks : DOMAIN steps[r] = DOMAIN steps[1]
        /\ \A i \in DOMAIN batch : Cardinality(Uses(i)) = PpoEpochs
        /\ \A r \in 1..Ranks : \A s \in DOMAIN steps[r] :
             steps[r][s].accumulation = Len(steps[r][s].micros)
=============================================================================
