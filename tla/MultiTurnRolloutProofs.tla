---------------------- MODULE MultiTurnRolloutProofs ----------------------
(***************************************************************************)
(* MultiTurnRollout for every batch, limit, length and pool: its types,    *)
(* what the model owns of a response, who has the last word of a           *)
(* conversation, that a rollout is a dialogue of SearchDialogue for every  *)
(* trajectory, step by step, and the batch it returns: its mask, its       *)
(* images and its attention mask, after the image_pads were multiplied and *)
(* the tail was cut.                                                       *)
(***************************************************************************)
EXTENDS RolloutRefinement, FoldLemmas, SequenceTheorems, FiniteSetTheorems, TLAPS

USE DEF TokenIds, Kinds

\* The prompt a trajectory samples, and the one whose image it would search,
\* are prompts of the batch.
LEMMA PromptsAreInBatch ==
  ASSUME NEW t \in Traj
  PROVE  PromptOf(t) \in Prompts /\ ImageUrl(t) = PromptOf(t)
<1>1. SamplesPerPrompt \in Nat \ {0}
  BY ConstantsAssumption DEF SamplesPerPrompt
<1>2. ASSUME NEW n \in Nat \ {0}, NEW b \in Nat \ {0}, NEW k \in 0..(b * n - 1)
      PROVE  k \div n \in 0..(b - 1)
  <2>1. k = n * (k \div n) + (k % n) /\ k % n \in 0..(n - 1) /\ k \div n \in Int
    BY <1>2
  <2>2. k \div n >= 0
    BY <2>1, <1>2
  <2>3. ASSUME k \div n >= b PROVE FALSE
    <3>1. n * (k \div n) >= n * b
      BY <2>1, <2>3, <1>2
    <3>2. QED
      BY <3>1, <2>1, <1>2
  <2>4. QED
    BY <2>1, <2>2, <2>3, <1>2
<1>3. QED
  BY <1>1, <1>2, ConstantsAssumption
     DEF Traj, PromptOf, Prompts, ImageUrl, SamplesPerPrompt

\* _extend_prompt_token_ids appends a prefix of the new tokens: all of them,
\* or as many as bring the prompt to max_model_len.
LEMMA AppendedLenBounds ==
  ASSUME NEW S, NEW prompt \in Seq(S), NEW new \in Seq(S)
  PROVE  /\ AppendedLen(prompt, new) \in 0..Len(new)
         /\ \/ AppendedLen(prompt, new) = Len(new)
            \/ Len(prompt) + AppendedLen(prompt, new) >= MaxModelLen
<1>1. Len(prompt) \in Nat /\ Len(new) \in Nat /\ MaxModelLen \in Nat
  BY LenProperties, ConstantsAssumption
<1>2. QED
  BY <1>1 DEF AppendedLen

\* A prompt longer by what is appended: the prompt is still in front of it.
LEMMA ExtendProperties ==
  ASSUME NEW S, NEW prompt \in Seq(S), NEW new \in Seq(S)
  PROVE  LET n == AppendedLen(prompt, new)
             longer == Extend(prompt, new)
         IN  /\ longer \in Seq(S)
             /\ Len(longer) = Len(prompt) + n
             /\ \A i \in 1..Len(prompt) : longer[i] = prompt[i]
             /\ \A i \in 1..n : longer[Len(prompt) + i] = new[i]
<1> DEFINE n == AppendedLen(prompt, new)
           kept == SubSeq(new, 1, n)
<1>1. n \in 0..Len(new) /\ Len(new) \in Nat /\ Len(prompt) \in Nat
  BY AppendedLenBounds, LenProperties
<1>2. \A i \in 1..n : new[i] \in S
  BY <1>1, ElementOfSeq
<1>3. kept \in Seq(S) /\ Len(kept) = n /\ \A i \in 1..n : kept[i] = new[i]
  <2>1. /\ kept \in Seq(S)
        /\ Len(kept) = IF 1 <= n THEN n - 1 + 1 ELSE 0
        /\ \A i \in 1..(n - 1 + 1) : kept[i] = new[1 + i - 1]
    <3> HIDE DEF n
    <3> QED
      BY <1>1, <1>2, SubSeqProperties
  <2>2. QED
    BY <2>1, <1>1
<1>4. /\ prompt \o kept \in Seq(S)
      /\ Len(prompt \o kept) = Len(prompt) + Len(kept)
      /\ \A i \in 1..Len(prompt) + Len(kept) : (prompt \o kept)[i] =
           IF i <= Len(prompt) THEN prompt[i] ELSE kept[i - Len(prompt)]
  BY <1>3, ConcatProperties
<1>5. Extend(prompt, new) = prompt \o kept
  BY DEF Extend
<1> HIDE DEF n, kept
<1>6. QED
  BY <1>1, <1>3, <1>4, <1>5 DEF n

\* What is appended to the mask for n tokens is n times the bit.
LEMMA MarksProperties ==
  ASSUME NEW bit \in {0, 1}, NEW n \in Nat
  PROVE  /\ Marks(bit, n) \in Seq({0, 1})
         /\ Len(Marks(bit, n)) = n
         /\ \A i \in 1..n : Marks(bit, n)[i] = bit
BY DEF Marks

\* Ids that are written keep their order, and each notes who wrote it.
LEMMA WrittenProperties ==
  ASSUME NEW ids \in Seq(TokenIds), NEW owner \in Owners,
         NEW by \in {"prompt", "assistant", "tool"}
  PROVE  /\ Written(ids, by, owner) \in Seq(Tokens)
         /\ Len(Written(ids, by, owner)) = Len(ids)
         /\ \A i \in 1..Len(ids) :
              /\ Written(ids, by, owner)[i].by = by
              /\ Written(ids, by, owner)[i].owner = owner
BY DEF Written, Tokens

\* The repair of an output that was cut short keeps its length.
LEMMA FilteredProperties ==
  ASSUME NEW out \in Outputs, out.ids # <<>>
  PROVE  /\ Filtered(out) \in Seq(TokenIds)
         /\ Len(Filtered(out)) > 0
<1>1. out.ids \in Seq(TokenIds)
  BY ToolsAssumption
<1>2. Len(out.ids) \in Nat /\ Len(out.ids) > 0
  BY <1>1, EmptySeq, LenProperties
<1>3. [out.ids EXCEPT ![Len(out.ids)] = "im_end"] \in Seq(TokenIds)
      /\ Len([out.ids EXCEPT ![Len(out.ids)] = "im_end"]) = Len(out.ids)
  BY <1>1, <1>2
<1>4. QED
  BY <1>1, <1>2, <1>3 DEF Filtered

\* A result between the markers of a user turn is ids again.
LEMMA UserTurnType ==
  ASSUME NEW result \in Results
  PROVE  UserTurn(result) \in Seq(TokenIds)
<1>1. result.ids \in Seq(TokenIds) /\ <<"text">> \in Seq(TokenIds)
      /\ <<"im_end", "text">> \in Seq(TokenIds)
  BY DEF Results
<1>2. <<"text">> \o result.ids \in Seq(TokenIds)
  BY <1>1, ConcatProperties
<1>3. QED
  BY <1>1, <1>2, ConcatProperties DEF UserTurn

\* toks2 is toks and n tokens of a turn: what was there stays.
IsToksAndTurn(toks2, toks, n, by, owner) ==
  /\ toks2 \in Seq(Tokens)
  /\ Len(toks2) = Len(toks) + n
  /\ \A i \in 1..Len(toks) : toks2[i] = toks[i]
  /\ \A i \in 1..n : /\ toks2[Len(toks) + i].by = by
                    /\ toks2[Len(toks) + i].owner = owner

IsMarksAndBits(marks2, marks, n, bit) ==
  /\ marks2 \in Seq({0, 1})
  /\ Len(marks2) = Len(marks) + n
  /\ \A i \in 1..Len(marks) : marks2[i] = marks[i]
  /\ \A i \in 1..n : marks2[Len(marks) + i] = bit

\* A turn is appended whole, unless max_model_len is reached.
LEMMA ExtendTurn ==
  ASSUME NEW toks \in Seq(Tokens), NEW ids \in Seq(TokenIds),
         NEW owner \in Owners, NEW by \in {"prompt", "assistant", "tool"}
  PROVE  /\ AppendedLen(toks, ids) \in Nat
         /\ IsToksAndTurn(Extend(toks, Written(ids, by, owner)), toks,
                          AppendedLen(toks, ids), by, owner)
         /\ \/ AppendedLen(toks, ids) = Len(ids)
            \/ Len(toks) + AppendedLen(toks, ids) >= MaxModelLen
<1> DEFINE turn == Written(ids, by, owner)
           toks2 == Extend(toks, turn)
           n == AppendedLen(toks, ids)
<1>1. /\ turn \in Seq(Tokens)
      /\ Len(turn) = Len(ids)
      /\ \A i \in 1..Len(ids) : turn[i].by = by /\ turn[i].owner = owner
  BY WrittenProperties
<1>2. AppendedLen(toks, turn) = n
  BY <1>1 DEF AppendedLen
<1>3. Len(ids) \in Nat /\ Len(toks) \in Nat
  BY LenProperties
<1>4. /\ n \in 0..Len(ids)
      /\ n = Len(ids) \/ Len(toks) + n >= MaxModelLen
  <2> HIDE DEF turn, n
  <2> QED
    BY <1>1, <1>2, AppendedLenBounds
<1>5. /\ toks2 \in Seq(Tokens)
      /\ Len(toks2) = Len(toks) + n
      /\ \A i \in 1..Len(toks) : toks2[i] = toks[i]
      /\ \A i \in 1..n : toks2[Len(toks) + i] = turn[i]
  <2> HIDE DEF turn, n
  <2> QED
    BY <1>1, <1>2, ExtendProperties
<1> HIDE DEF turn, n, toks2
<1>6. ASSUME NEW i \in 1..n
      PROVE  toks2[Len(toks) + i].by = by /\ toks2[Len(toks) + i].owner = owner
  <2>1. i \in 1..Len(ids) /\ toks2[Len(toks) + i] = turn[i]
    BY <1>3, <1>4, <1>5
  <2>2. QED
    BY <2>1, <1>1
<1>7. n \in Nat /\ IsToksAndTurn(toks2, toks, n, by, owner)
  BY <1>3, <1>4, <1>5, <1>6 DEF IsToksAndTurn
<1>8. QED
  BY <1>4, <1>7 DEF n, toks2, turn

\* A mask with a turn behind it.
LEMMA MarkTurn ==
  ASSUME NEW marks \in Seq({0, 1}), NEW bit \in {0, 1}, NEW n \in Nat
  PROVE  IsMarksAndBits(marks \o Marks(bit, n), marks, n, bit)
<1> DEFINE marks2 == marks \o Marks(bit, n)
<1>1. /\ Marks(bit, n) \in Seq({0, 1})
      /\ Len(Marks(bit, n)) = n
      /\ \A i \in 1..n : Marks(bit, n)[i] = bit
  BY MarksProperties
<1>2. Len(marks) \in Nat
  BY LenProperties
<1>3. /\ marks2 \in Seq({0, 1})
      /\ Len(marks2) = Len(marks) + n
      /\ \A i \in 1..Len(marks) + n : marks2[i] =
           IF i <= Len(marks) THEN marks[i] ELSE Marks(bit, n)[i - Len(marks)]
  BY <1>1, ConcatProperties
<1> HIDE DEF marks2
<1>4. ASSUME NEW i \in 1..Len(marks) PROVE marks2[i] = marks[i]
  BY <1>2, <1>3
<1>5. ASSUME NEW i \in 1..n PROVE marks2[Len(marks) + i] = bit
  <2>1. Len(marks) + i \in 1..Len(marks) + n /\ ~(Len(marks) + i <= Len(marks))
        /\ (Len(marks) + i) - Len(marks) = i
    BY <1>2
  <2>2. marks2[Len(marks) + i] = Marks(bit, n)[i]
    BY <2>1, <1>3
  <2>3. QED
    BY <2>2, <1>1
<1>6. QED
  BY <1>3, <1>4, <1>5 DEF marks2, IsMarksAndBits

\* Tokens and mask keep their types when a turn is appended.
LEMMA AppendTurnTypes ==
  ASSUME NEW toks \in Seq(Tokens), NEW marks \in Seq({0, 1}),
         NEW ids \in Seq(TokenIds), NEW owner \in Owners,
         NEW by \in {"prompt", "assistant", "tool"}, NEW bit \in {0, 1}
  PROVE  /\ Extend(toks, Written(ids, by, owner)) \in Seq(Tokens)
         /\ marks \o Marks(bit, AppendedLen(toks, ids)) \in Seq({0, 1})
<1>1. /\ AppendedLen(toks, ids) \in Nat
      /\ Extend(toks, Written(ids, by, owner)) \in Seq(Tokens)
  BY ExtendTurn DEF IsToksAndTurn
<1>2. ASSUME NEW n \in Nat PROVE marks \o Marks(bit, n) \in Seq({0, 1})
  BY MarkTurn DEF IsMarksAndBits
<1>3. QED
  BY <1>1, <1>2

---------------------------------------------------------------------------
\* Type correctness

OwnOwner(t) == [traj |-> t, prompt |-> PromptOf(t)]

\* Who a trajectory's turns and calls are written for.
LEMMA OwnersAreOwners ==
  ASSUME NEW t \in Traj
  PROVE  /\ OwnOwner(t) \in Owners
         /\ [traj |-> t, prompt |-> ImageUrl(t)] \in Owners
         /\ NoOwner \in Owners
<1>1. PromptOf(t) \in Prompts /\ ImageUrl(t) \in Prompts
  BY PromptsAreInBatch
<1>2. 0 \in Traj /\ 0 \in Prompts
  <2>1. BatchSize \in Nat \ {0} /\ SamplesPerPrompt \in Nat
    BY ConstantsAssumption DEF SamplesPerPrompt
  <2>2. BatchSize * SamplesPerPrompt \in Nat
    BY <2>1
  <2>3. QED
    BY <2>1, <2>2 DEF Traj, Prompts
<1>3. QED
  BY <1>1, <1>2 DEF OwnOwner, Owners, NoOwner

\* A call that was never sent, and one that was.
LEMMA IdleIsAFuture ==
  ASSUME NEW t \in Traj
  PROVE  Idle \in Futures /\ [Idle EXCEPT !.state = "queued"] \in Futures
<1>1. NoResult \in Results
  BY EmptySeq DEF NoResult, Results
<1>2. QED
  BY <1>1, OwnersAreOwners DEF Idle, Futures

\* The types hold before the first round,
LEMMA InitTypeOK == Init => TypeOK
<1> SUFFICES ASSUME Init PROVE TypeOK
  OBVIOUS
<1> USE DEF Init
<1>1. query \in [Traj -> Queries]
  BY OwnersAreOwners DEF Queries, NoQuery
<1>2. future \in [Traj -> Futures]
  BY IdleIsAFuture
<1>3. tokens \in [Traj -> Seq(Tokens)]
  <2>1. ASSUME NEW t \in Traj
        PROVE  [i \in 1..PrefixLength |->
                 [id |-> "text", by |-> "prompt",
                  owner |-> [traj |-> t, prompt |-> PromptOf(t)]]] \in Seq(Tokens)
    <3>1. [id |-> "text", by |-> "prompt", owner |-> OwnOwner(t)] \in Tokens
      BY OwnersAreOwners DEF Tokens
    <3>2. QED
      BY <3>1, ConstantsAssumption, IsASeq DEF OwnOwner
  <2>2. QED
    BY <2>1
<1>4. mask \in [Traj -> Seq({0, 1})]
  BY ConstantsAssumption, MarksProperties
<1>5. searchImages \in [Traj -> Seq(Images)] /\ completed \in Seq(Traj)
  BY EmptySeq
<1>6. /\ pc = "generate"
      /\ iteration \in 0..MaxGenRound
      /\ toGenerate \subseteq Traj /\ left \subseteq Traj /\ idxToRemove \subseteq Traj
      /\ imageCnt \in [Traj -> 0..ImageSearchLimit]
      /\ textCnt \in [Traj -> 0..TextSearchLimit]
  BY ConstantsAssumption
<1>7. QED
  BY <1>1, <1>2, <1>3, <1>4, <1>5, <1>6 DEF TypeOK

\* behind a trajectory's model output,
LEMMA TriggerTypeOK ==
  ASSUME TypeOK, NEW t \in Traj, NEW out \in Outputs, Trigger(t, out)
  PROVE  TypeOK'
<1> USE DEF Trigger
<1>1. tokens' \in [Traj -> Seq(Tokens)] /\ mask' \in [Traj -> Seq({0, 1})]
  <2>1. Filtered(out) \in Seq(TokenIds) /\ OwnOwner(t) \in Owners
    BY FilteredProperties, OwnersAreOwners
  <2>2. tokens[t] \in Seq(Tokens) /\ mask[t] \in Seq({0, 1})
    BY DEF TypeOK
  <2>3. /\ Extend(tokens[t], Written(Filtered(out), "assistant", OwnOwner(t)))
             \in Seq(Tokens)
        /\ mask[t] \o Marks(1, AppendedLen(tokens[t], Filtered(out)))
             \in Seq({0, 1})
    BY <2>1, <2>2, AppendTurnTypes
  <2>4. QED
    BY <2>3 DEF TypeOK, AppendResponse, OwnOwner
<1>2. idxToRemove' \subseteq Traj /\ left' \subseteq Traj
  BY DEF TypeOK
<1>3. query' \in [Traj -> Queries]
  <2>1. /\ [type |-> "image", owner |-> [traj |-> t, prompt |-> ImageUrl(t)]]
             \in Queries
        /\ [type |-> "text", owner |-> [traj |-> t, prompt |-> PromptOf(t)]]
             \in Queries
    BY OwnersAreOwners DEF Queries, OwnOwner
  <2>2. QED
    BY <2>1 DEF TypeOK
<1>4. /\ imageCnt' \in [Traj -> 0..ImageSearchLimit]
      /\ textCnt' \in [Traj -> 0..TextSearchLimit]
  <2>1. CASE EndsTrajectory(t, Asks(out))
    BY <2>1 DEF TypeOK, counts
  <2>2. CASE ~EndsTrajectory(t, Asks(out)) /\ Asks(out) = "image"
    <3>1. imageCnt[t] + 1 \in 0..ImageSearchLimit
      BY <2>2, ConstantsAssumption DEF TypeOK, EndsTrajectory
    <3>2. QED
      BY <2>2, <3>1 DEF TypeOK
  <2>3. CASE ~EndsTrajectory(t, Asks(out)) /\ Asks(out) = "text"
    <3>1. textCnt[t] + 1 \in 0..TextSearchLimit
      BY <2>3, ConstantsAssumption DEF TypeOK, EndsTrajectory
    <3>2. QED
      BY <2>3, <3>1 DEF TypeOK
  <2>4. QED
    BY <2>1, <2>2, <2>3
<1>5. UNCHANGED <<pc, iteration, toGenerate, future, completed, searchImages>>
  BY DEF AppendResponse, batch
<1>6. QED
  BY <1>1, <1>2, <1>3, <1>4, <1>5 DEF TypeOK

\* behind a tool result,
LEMMA ProcessResultTypeOK ==
  ASSUME TypeOK, NEW t \in Traj, ProcessResult(t)
  PROVE  TypeOK'
<1> DEFINE r == future[t]
           turn == UserTurn(r.result)
<1> USE DEF ProcessResult, SearchResult
<1>1. r \in Futures /\ r.result \in Results /\ r.owner \in Owners
  BY DEF TypeOK, Futures
<1>2. tokens' \in [Traj -> Seq(Tokens)] /\ mask' \in [Traj -> Seq({0, 1})]
  <2>1. turn \in Seq(TokenIds)
    BY <1>1, UserTurnType
  <2>2. tokens[t] \in Seq(Tokens) /\ mask[t] \in Seq({0, 1})
    BY DEF TypeOK
  <2>3. /\ Extend(tokens[t], Written(turn, "tool", r.owner)) \in Seq(Tokens)
        /\ mask[t] \o Marks(0, AppendedLen(tokens[t], turn)) \in Seq({0, 1})
    <3> HIDE DEF r, turn
    <3> QED
      BY <1>1, <2>1, <2>2, AppendTurnTypes
  <2>4. QED
    BY <2>3 DEF TypeOK
<1>3. searchImages' \in [Traj -> Seq(Images)]
  <2> DEFINE new == [k \in 1..Len(r.result.grids) |->
                      [grid |-> r.result.grids[k], owner |-> r.owner]]
  <2>1. r.result.grids \in Seq(Nat)
    BY <1>1 DEF Results
  <2>2. new \in Seq(Images)
    BY <1>1, <2>1 DEF Images
  <2>3. searchImages[t] \o new \in Seq(Images)
    BY <2>2, ConcatProperties DEF TypeOK
  <2>4. QED
    BY <2>3 DEF TypeOK
<1>4. /\ left' \subseteq Traj
      /\ UNCHANGED <<pc, iteration, toGenerate, idxToRemove, query, future,
                     completed, imageCnt, textCnt>>
  BY DEF TypeOK, calls, counts
<1>5. QED
  BY <1>2, <1>3, <1>4 DEF TypeOK

\* and behind a step of the tool pool.
LEMMA CallsTypeOK ==
  ASSUME TypeOK, NEW t \in Traj, Pool(t)
  PROVE  TypeOK'
<1>1. CASE StartCall(t)
  <2>1. [future[t] EXCEPT !.state = "running"] \in Futures
    BY DEF TypeOK, Futures
  <2>2. QED
    BY <1>1, <2>1
       DEF StartCall, TypeOK, control, counts, conversation
<1>2. ASSUME NEW result \in ResultsOf(t), FinishCall(t, result)
      PROVE  TypeOK'
  <2>1. result \in Results /\ query[t].owner \in Owners
    BY ToolsAssumption DEF ResultsOf, Results, TypeOK, Queries
  <2>2. AfterCall(t, result) \in Futures
    BY <2>1 DEF AfterCall, Finished, Futures
  <2>3. Append(completed, t) \in Seq(Traj)
    BY AppendProperties DEF TypeOK
  <2>4. QED
    BY <1>2, <2>2, <2>3 DEF FinishCall, TypeOK, counts, conversation
<1>3. QED
  BY <1>1, <1>2 DEF Pool

\* A round is under way only below max_gen_round.
RoundBound == pc \in {"trigger", "call", "process"} => iteration < MaxGenRound
TypeInv == TypeOK /\ RoundBound

\* The types hold in every state, and no round starts beyond the last one.
LEMMA TypeInvariant == Spec => []TypeInv
<1>1. Init => TypeInv
  BY InitTypeOK DEF Init, TypeInv, RoundBound
<1>2. TypeInv /\ [Next]_vars => TypeInv'
  <2> SUFFICES ASSUME TypeInv, [Next]_vars
               PROVE  TypeInv'
    OBVIOUS
  <2> USE DEF TypeInv
  <2>1. RoundBound'
    <3>1. ASSUME NEW t \in Traj, Pool(t) PROVE RoundBound'
      BY <3>1 DEF Pool, StartCall, FinishCall, RoundBound, TypeOK, control
    <3>2. ASSUME NEW t \in Traj, EmptyOutput(t) \/ ProcessResult(t) \/ Rebuild(t)
          PROVE  RoundBound'
      BY <3>2 DEF EmptyOutput, ProcessResult, Rebuild, RoundBound
    <3>3. ASSUME NEW t \in Traj, NEW out \in Outputs, Trigger(t, out)
          PROVE  RoundBound'
      BY <3>3 DEF Trigger, RoundBound
    <3>4. CASE StartRound \/ SubmitCalls \/ CollectResults
      BY <3>4 DEF StartRound, SubmitCalls, CollectResults, RoundBound
    <3>5. CASE EndRound \/ StopGenerating \/ ReturnBatch
      BY <3>5 DEF EndRound, StopGenerating, ReturnBatch, RoundBound
    <3>6. CASE UNCHANGED vars
      BY <3>6 DEF RoundBound, vars, control
    <3>7. QED
      BY <3>1, <3>2, <3>3, <3>4, <3>5, <3>6 DEF Next, Main, Terminating
  <2>2. TypeOK'
    <3> USE DEF TypeOK, calls, counts, conversation
    <3>1. CASE StartRound
      <4>1. ASSUME NEW t \in Traj PROVE NoQuery \in Queries
        BY OwnersAreOwners DEF NoQuery, Queries
      <4>2. QED
        BY <3>1, <4>1 DEF StartRound
    <3>2. CASE SubmitCalls
      BY <3>2, IdleIsAFuture, EmptySeq DEF SubmitCalls
    <3>3. CASE CollectResults
      BY <3>3 DEF CollectResults
    <3>4. CASE EndRound
      <4>1. iteration' \in 0..MaxGenRound
        BY <3>4, ConstantsAssumption DEF EndRound, RoundBound
      <4>2. QED
        BY <3>4, <4>1 DEF EndRound
    <3>5. CASE StopGenerating
      BY <3>5 DEF StopGenerating
    <3>6. CASE ReturnBatch
      BY <3>6 DEF ReturnBatch
    <3>7. ASSUME NEW t \in Traj, EmptyOutput(t) PROVE TypeOK'
      BY <3>7 DEF EmptyOutput
    <3>8. ASSUME NEW t \in Traj, NEW out \in Outputs, Trigger(t, out)
          PROVE  TypeOK'
      BY <3>8, TriggerTypeOK
    <3>9. ASSUME NEW t \in Traj, ProcessResult(t) PROVE TypeOK'
      BY <3>9, ProcessResultTypeOK
    <3>10. ASSUME NEW t \in Traj, Rebuild(t) PROVE TypeOK'
      BY <3>10 DEF Rebuild
    <3>11. ASSUME NEW t \in Traj, Pool(t) PROVE TypeOK'
      BY <3>11, CallsTypeOK
    <3>12. CASE UNCHANGED vars
      BY <3>12 DEF vars, control
    <3>13. QED
      BY <3>1, <3>2, <3>3, <3>4, <3>5, <3>6, <3>7, <3>8, <3>9, <3>10, <3>11,
         <3>12 DEF Next, Main, Terminating
  <2>3. QED
    BY <2>1, <2>2
<1>3. QED
  BY <1>1, <1>2, PTL DEF Spec

\* The types hold in every state; the searches a trajectory has asked stay
\* within the limits.
THEOREM TypeCorrect == Spec => []TypeOK
<1>1. TypeInv => TypeOK
  BY DEF TypeInv
<1>2. QED
  BY <1>1, TypeInvariant, PTL
---------------------------------------------------------------------------
\* The mask

InStep(toks, marks) ==
  /\ Len(marks) = Len(toks)
  /\ \A i \in 1..Len(toks) : marks[i] = 1 <=> toks[i].by = "assistant"

\* A turn of the model marked 1, or of a tool marked 0, keeps the mask in step.
LEMMA MaskStep ==
  ASSUME NEW toks \in Seq(Tokens), NEW marks \in Seq({0, 1}),
         NEW ids \in Seq(TokenIds), NEW owner \in Owners,
         NEW by \in {"prompt", "assistant", "tool"}, NEW bit \in {0, 1},
         bit = 1 <=> by = "assistant",
         InStep(toks, marks)
  PROVE  InStep(Extend(toks, Written(ids, by, owner)),
                marks \o Marks(bit, AppendedLen(toks, ids)))
<1> DEFINE n == AppendedLen(toks, ids)
           toks2 == Extend(toks, Written(ids, by, owner))
           marks2 == marks \o Marks(bit, n)
<1>1. n \in Nat /\ IsToksAndTurn(toks2, toks, n, by, owner)
  BY ExtendTurn
<1> HIDE DEF n
<1>2. IsMarksAndBits(marks2, marks, n, bit)
  BY <1>1, MarkTurn
<1> HIDE DEF toks2, marks2
<1>3. Len(toks) \in Nat /\ Len(marks) = Len(toks)
      /\ \A i \in 1..Len(toks) : marks[i] = 1 <=> toks[i].by = "assistant"
  BY LenProperties DEF InStep
<1> USE DEF IsToksAndTurn, IsMarksAndBits
<1>4. ASSUME NEW i \in 1..Len(toks2)
      PROVE  marks2[i] = 1 <=> toks2[i].by = "assistant"
  <2>1. CASE i \in 1..Len(toks)
    BY <2>1, <1>1, <1>2, <1>3
  <2>2. CASE i \notin 1..Len(toks)
    <3>1. i - Len(toks) \in 1..n /\ i = Len(toks) + (i - Len(toks))
      BY <2>2, <1>1, <1>3
    <3>2. toks2[i].by = by /\ marks2[i] = bit
      BY <3>1, <1>1, <1>2, <1>3
    <3>3. QED
      BY <3>2
  <2>3. QED
    BY <2>1, <2>2
<1>5. InStep(toks2, marks2)
  BY <1>1, <1>2, <1>3, <1>4 DEF InStep
<1>6. QED
  BY <1>5 DEF n, toks2, marks2

\* The mask is in step with the authors at the start,
LEMMA InitMask == Init => MaskMatchesAuthor
<1> SUFFICES ASSUME Init, NEW t \in Traj PROVE InStep(tokens[t], mask[t])
  BY DEF MaskMatchesAuthor, InStep
<1>1. PrefixLength \in Nat
  BY ConstantsAssumption
<1>2. /\ mask[t] = Marks(0, PrefixLength)
      /\ tokens[t] = [i \in 1..PrefixLength |->
           [id |-> "text", by |-> "prompt",
            owner |-> [traj |-> t, prompt |-> PromptOf(t)]]]
  BY DEF Init
<1>3. Len(mask[t]) = PrefixLength
      /\ \A i \in 1..PrefixLength : mask[t][i] = 0
  BY <1>1, <1>2 DEF Marks
<1>4. Len(tokens[t]) = PrefixLength
      /\ \A i \in 1..PrefixLength : tokens[t][i].by = "prompt"
  BY <1>1, <1>2
<1>5. QED
  BY <1>3, <1>4 DEF InStep

\* behind a trajectory's model output
LEMMA TriggerMask ==
  ASSUME TypeOK, MaskMatchesAuthor,
         NEW t \in Traj, NEW out \in Outputs, Trigger(t, out)
  PROVE  MaskMatchesAuthor'
<1>1. Filtered(out) \in Seq(TokenIds) /\ OwnOwner(t) \in Owners
  BY FilteredProperties, OwnersAreOwners DEF Trigger
<1>2. /\ tokens[t] \in Seq(Tokens) /\ mask[t] \in Seq({0, 1})
      /\ InStep(tokens[t], mask[t])
  BY DEF TypeOK, MaskMatchesAuthor, InStep
<1>3. InStep(Extend(tokens[t], Written(Filtered(out), "assistant", OwnOwner(t))),
             mask[t] \o Marks(1, AppendedLen(tokens[t], Filtered(out))))
  BY <1>1, <1>2, MaskStep
<1>4. InStep(tokens'[t], mask'[t])
  BY <1>3 DEF Trigger, AppendResponse, TypeOK, OwnOwner
<1>5. \A u \in Traj \ {t} : tokens'[u] = tokens[u] /\ mask'[u] = mask[u]
  BY DEF Trigger, AppendResponse, TypeOK
<1>6. QED
  BY <1>4, <1>5 DEF MaskMatchesAuthor, InStep

\* and behind a tool result.
LEMMA ProcessResultMask ==
  ASSUME TypeOK, MaskMatchesAuthor, NEW t \in Traj, ProcessResult(t)
  PROVE  MaskMatchesAuthor'
<1> DEFINE r == future[t]
           turn == UserTurn(r.result)
<1>1. turn \in Seq(TokenIds) /\ r.owner \in Owners
  BY UserTurnType DEF TypeOK, Futures
<1>2. /\ tokens[t] \in Seq(Tokens) /\ mask[t] \in Seq({0, 1})
      /\ InStep(tokens[t], mask[t])
  BY DEF TypeOK, MaskMatchesAuthor, InStep
<1>3. InStep(Extend(tokens[t], Written(turn, "tool", r.owner)),
             mask[t] \o Marks(0, AppendedLen(tokens[t], turn)))
  <2> HIDE DEF r, turn
  <2> QED
    BY <1>1, <1>2, MaskStep
<1>4. InStep(tokens'[t], mask'[t])
  BY <1>3 DEF ProcessResult, SearchResult, TypeOK
<1>5. \A u \in Traj \ {t} : tokens'[u] = tokens[u] /\ mask'[u] = mask[u]
  BY DEF ProcessResult, TypeOK
<1>6. QED
  BY <1>4, <1>5 DEF MaskMatchesAuthor, InStep

\* Whatever the engine samples, the tools return and max_model_len cuts off,
\* multi_turn_response_mask keeps an entry for every token and marks exactly
\* those the model wrote.
THEOREM MaskCorrect == Spec => []MaskMatchesAuthor
<1>1. Init => MaskMatchesAuthor
  BY InitMask
<1>2. TypeOK /\ MaskMatchesAuthor /\ [Next]_vars => MaskMatchesAuthor'
  <2> SUFFICES ASSUME TypeOK, MaskMatchesAuthor, [Next]_vars
               PROVE  MaskMatchesAuthor'
    OBVIOUS
  <2>1. ASSUME NEW t \in Traj, NEW out \in Outputs, Trigger(t, out)
        PROVE  MaskMatchesAuthor'
    BY <2>1, TriggerMask
  <2>2. ASSUME NEW t \in Traj, ProcessResult(t)
        PROVE  MaskMatchesAuthor'
    BY <2>2, ProcessResultMask
  <2>3. ASSUME UNCHANGED conversation
        PROVE  MaskMatchesAuthor'
    BY <2>3 DEF conversation, MaskMatchesAuthor
  <2>4. ASSUME NEW t \in Traj, Pool(t)
        PROVE  UNCHANGED conversation
    BY <2>4 DEF Pool, StartCall, FinishCall
  <2>5. QED
    BY <2>1, <2>2, <2>3, <2>4
       DEF Next, Main, Terminating, StartRound, SubmitCalls, CollectResults,
           EndRound, StopGenerating, ReturnBatch, EmptyOutput, Rebuild, vars
<1>3. QED
  BY <1>1, <1>2, TypeCorrect, PTL DEF Spec
---------------------------------------------------------------------------
\* Every result reaches its own trajectory

\* While a round is under way each trajectory that searches has its own query,
\* then its own result.
CallsAreOwn ==
  /\ pc = "trigger" =>
       \A t \in toGenerate \ (left \cup idxToRemove) : query[t].owner = OwnOwner(t)
  /\ pc = "call" =>
       \A t \in toGenerate :
         /\ query[t].owner = OwnOwner(t)
         /\ future[t].state = "done" => future[t].owner = OwnOwner(t)
  /\ pc = "process" =>
       /\ left \subseteq toGenerate
       /\ \A t \in toGenerate : future[t].owner = OwnOwner(t)

\* A conversation holds nothing but what it wrote or asked for itself.
OwnResults ==
  \A t \in Traj :
    /\ \A i \in 1..Len(tokens[t]) : tokens[t][i].owner = OwnOwner(t)
    /\ \A k \in 1..Len(searchImages[t]) : searchImages[t][k].owner = OwnOwner(t)

OwnInv == CallsAreOwn /\ OwnResults

\* A trajectory that is its own stays so with a turn of its own behind it.
LEMMA OwnTurn ==
  ASSUME NEW toks \in Seq(Tokens), NEW t \in Traj, NEW toks2, NEW n \in Nat,
         NEW by, NEW owner, IsToksAndTurn(toks2, toks, n, by, owner),
         \A i \in 1..Len(toks) : toks[i].owner = OwnOwner(t),
         owner = OwnOwner(t)
  PROVE  \A i \in 1..Len(toks2) : toks2[i].owner = OwnOwner(t)
<1> USE DEF IsToksAndTurn
<1>1. Len(toks) \in Nat
  BY LenProperties
<1> SUFFICES ASSUME NEW i \in 1..Len(toks2) PROVE toks2[i].owner = OwnOwner(t)
  OBVIOUS
<1>2. CASE i \in 1..Len(toks)
  BY <1>2
<1>3. CASE i \notin 1..Len(toks)
  <2>1. i - Len(toks) \in 1..n /\ i = Len(toks) + (i - Len(toks))
    BY <1>1, <1>3
  <2>2. toks2[i].owner = owner
    BY <2>1
  <2>3. QED
    BY <2>2
<1>4. QED
  BY <1>2, <1>3

\* A model output leaves every trajectory and every call its own,
LEMMA TriggerOwn ==
  ASSUME TypeOK, OwnInv, NEW t \in Traj, NEW out \in Outputs, Trigger(t, out)
  PROVE  OwnInv'
<1> USE DEF OwnInv
<1>1. CallsAreOwn'
  <2>1. pc = "trigger" /\ UNCHANGED <<pc, toGenerate>> /\ left' = left \ {t}
    BY DEF Trigger
  <2>2. CASE EndsTrajectory(t, Asks(out))
    BY <2>1, <2>2 DEF Trigger, CallsAreOwn
  <2>3. CASE ~EndsTrajectory(t, Asks(out))
    <3>1. query'[t].owner = OwnOwner(t)
      BY <2>3, PromptsAreInBatch DEF Trigger, TypeOK, OwnOwner
    <3>2. \A u \in Traj \ {t} : query'[u] = query[u]
      BY <2>3 DEF Trigger, TypeOK
    <3>3. idxToRemove' = idxToRemove /\ toGenerate \subseteq Traj
      BY <2>3 DEF Trigger, TypeOK
    <3>4. QED
      BY <2>1, <3>1, <3>2, <3>3 DEF CallsAreOwn
  <2>4. QED
    BY <2>2, <2>3
<1>2. OwnResults'
  <2> DEFINE ids == Filtered(out)
             toks2 == Extend(tokens[t], Written(ids, "assistant", OwnOwner(t)))
             n == AppendedLen(tokens[t], ids)
  <2>1. ids \in Seq(TokenIds) /\ OwnOwner(t) \in Owners /\ tokens[t] \in Seq(Tokens)
    BY FilteredProperties, OwnersAreOwners DEF Trigger, TypeOK
  <2>2. n \in Nat /\ IsToksAndTurn(toks2, tokens[t], n, "assistant", OwnOwner(t))
    <3> HIDE DEF ids
    <3> QED
      BY <2>1, ExtendTurn
  <2>3. \A i \in 1..Len(tokens[t]) : tokens[t][i].owner = OwnOwner(t)
    BY DEF OwnResults
  <2>4. \A i \in 1..Len(toks2) : toks2[i].owner = OwnOwner(t)
    <3> HIDE DEF toks2, n, ids
    <3> QED
      BY <2>1, <2>2, <2>3, OwnTurn
  <2>5. tokens'[t] = toks2 /\ \A u \in Traj \ {t} : tokens'[u] = tokens[u]
    BY DEF Trigger, AppendResponse, TypeOK, OwnOwner
  <2>6. searchImages' = searchImages
    BY DEF Trigger, AppendResponse
  <2> HIDE DEF toks2
  <2>7. QED
    BY <2>4, <2>5, <2>6 DEF OwnResults
<1>3. QED
  BY <1>1, <1>2

\* a result goes to the trajectory that asked for it,
LEMMA ProcessResultOwn ==
  ASSUME TypeOK, OwnInv, NEW t \in Traj, ProcessResult(t)
  PROVE  OwnInv'
<1> USE DEF OwnInv
<1> DEFINE r == future[t]
<1>1. /\ pc = "process" /\ pc' = "process" /\ t \in left
      /\ left' = left \ {t}
      /\ UNCHANGED <<toGenerate, query, future>>
  BY DEF ProcessResult, NextInLoop, calls
<1>2. CallsAreOwn'
  BY <1>1 DEF CallsAreOwn
<1>3. r.owner = OwnOwner(t)
  BY <1>1 DEF CallsAreOwn
<1>4. r.result \in Results /\ r.owner \in Owners
  BY DEF TypeOK, Futures
<1>5. ASSUME NEW u \in Traj, NEW i \in 1..Len(tokens'[u])
      PROVE  tokens'[u][i].owner = OwnOwner(u)
  <2> DEFINE ids == UserTurn(r.result)
             toks2 == Extend(tokens[t], Written(ids, "tool", r.owner))
             n == AppendedLen(tokens[t], ids)
  <2>1. ids \in Seq(TokenIds) /\ tokens[t] \in Seq(Tokens)
    BY <1>4, UserTurnType DEF TypeOK
  <2>2. n \in Nat /\ IsToksAndTurn(toks2, tokens[t], n, "tool", r.owner)
    <3> HIDE DEF ids, r
    <3> QED
      BY <1>4, <2>1, ExtendTurn
  <2>3. \A j \in 1..Len(tokens[t]) : tokens[t][j].owner = OwnOwner(t)
    BY DEF OwnResults
  <2>4. \A j \in 1..Len(toks2) : toks2[j].owner = OwnOwner(t)
    <3> HIDE DEF toks2, n, ids, r
    <3> QED
      BY <1>3, <2>1, <2>2, <2>3, OwnTurn
  <2>5. tokens'[t] = toks2 /\ (u # t => tokens'[u] = tokens[u])
    BY DEF ProcessResult, SearchResult, TypeOK
  <2> HIDE DEF toks2
  <2>6. QED
    BY <2>4, <2>5, <1>5 DEF OwnResults
<1>6. ASSUME NEW u \in Traj, NEW k \in 1..Len(searchImages'[u])
      PROVE  searchImages'[u][k].owner = OwnOwner(u)
  <2> DEFINE new == [j \in 1..Len(r.result.grids) |->
                      [grid |-> r.result.grids[j], owner |-> r.owner]]
             images == searchImages[t]
  <2>1. r.result.grids \in Seq(Nat) /\ images \in Seq(Images)
    BY <1>4 DEF Results, TypeOK
  <2>2. /\ new \in Seq(Images) /\ Len(new) = Len(r.result.grids)
        /\ \A j \in 1..Len(new) : new[j].owner = r.owner
    <3>1. Len(r.result.grids) \in Nat
          /\ \A j \in 1..Len(r.result.grids) : r.result.grids[j] \in Nat
      BY <2>1, LenProperties, ElementOfSeq
    <3>2. new \in Seq(Images) /\ Len(new) = Len(r.result.grids)
      <4> HIDE DEF r
      <4>1. \A j \in 1..Len(r.result.grids) :
              [grid |-> r.result.grids[j], owner |-> r.owner] \in Images
        BY <1>4, <3>1 DEF Images
      <4>2. QED
        BY <3>1, <4>1
    <3>3. \A j \in 1..Len(r.result.grids) : new[j].owner = r.owner
      OBVIOUS
    <3> HIDE DEF new
    <3>4. QED
      BY <3>2, <3>3
  <2>3. Len(images) \in Nat /\ Len(new) \in Nat
    <3> HIDE DEF new, images
    <3> QED
      BY <2>1, <2>2, LenProperties
  <2>4. /\ Len(images \o new) = Len(images) + Len(new)
        /\ \A j \in 1..Len(images) + Len(new) : (images \o new)[j] =
             IF j <= Len(images) THEN images[j] ELSE new[j - Len(images)]
    <3> HIDE DEF new, images
    <3> QED
      BY <2>1, <2>2, ConcatProperties
  <2>5. \A j \in 1..Len(images) : images[j].owner = OwnOwner(t)
    BY DEF OwnResults
  <2>6. searchImages'[t] = images \o new
        /\ (u # t => searchImages'[u] = searchImages[u])
    BY DEF ProcessResult, SearchResult, TypeOK
  <2>7. CASE u # t
    BY <2>6, <2>7, <1>6 DEF OwnResults
  <2>8. CASE u = t
    <3> HIDE DEF new, images, r
    <3>1. k \in 1..Len(images) + Len(new) /\ searchImages'[u][k] = (images \o new)[k]
      BY <2>4, <2>6, <2>8, <1>6
    <3>2. CASE k <= Len(images)
      BY <3>1, <3>2, <2>3, <2>4, <2>5, <2>8
    <3>3. CASE ~(k <= Len(images))
      <4>1. k - Len(images) \in 1..Len(new)
        BY <3>1, <3>3, <2>3
      <4>2. searchImages'[u][k] = new[k - Len(images)]
        BY <3>1, <3>3, <2>4
      <4>3. QED
        BY <4>1, <4>2, <2>2, <2>8, <1>3
    <3>4. QED
      BY <3>2, <3>3
  <2>9. QED
    BY <2>7, <2>8
<1>7. QED
  BY <1>2, <1>5, <1>6 DEF OwnResults

\* and the pool's steps leave each call with the trajectory that sent it.
LEMMA PoolOwn ==
  ASSUME TypeOK, OwnInv, NEW t \in Traj, Pool(t)
  PROVE  OwnInv'
<1> USE DEF OwnInv
<1>1. UNCHANGED <<conversation, toGenerate, query>> /\ pc = "call" /\ t \in toGenerate
  BY DEF Pool, StartCall, FinishCall, Queued, Running, control, conversation
<1>2. OwnResults'
  BY <1>1 DEF OwnResults, conversation
<1>3. CASE StartCall(t)
  <2>1. /\ pc' = "call" /\ toGenerate \subseteq Traj
        /\ future' = [future EXCEPT ![t].state = "running"]
    BY <1>1, <1>3 DEF StartCall, TypeOK, control
  <2>2. future'[t].state = "running"
    BY <2>1 DEF TypeOK, Futures
  <2>3. \A u \in Traj \ {t} : future'[u] = future[u]
    BY <2>1 DEF TypeOK
  <2>4. CallsAreOwn'
    BY <1>1, <2>1, <2>2, <2>3 DEF CallsAreOwn
  <2>5. QED
    BY <1>2, <2>4
<1>4. ASSUME NEW result \in ResultsOf(t), FinishCall(t, result)
      PROVE  CallsAreOwn'
  <2>1. CASE pc' = "failed"
    BY <2>1 DEF CallsAreOwn
  <2>2. CASE pc' # "failed"
    <3>1. pc' = "call" /\ future' = [future EXCEPT ![t] = AfterCall(t, result)]
      BY <1>1, <1>4, <2>2 DEF FinishCall
    <3>2. future'[t].owner = OwnOwner(t)
      BY <1>1, <3>1 DEF AfterCall, Finished, CallsAreOwn, TypeOK
    <3>3. \A u \in Traj \ {t} : future'[u] = future[u]
      BY <3>1 DEF TypeOK
    <3>4. toGenerate \subseteq Traj
      BY DEF TypeOK
    <3>5. QED
      BY <1>1, <3>1, <3>2, <3>3, <3>4 DEF CallsAreOwn
  <2>3. QED
    BY <2>1, <2>2
<1>5. QED
  BY <1>2, <1>3, <1>4 DEF Pool

\* Queries, results and conversations are their own trajectory's in every state.
LEMMA OwnInvariant == Spec => [](TypeOK /\ OwnInv)
<1>1. Init => OwnInv
  <2> SUFFICES ASSUME Init PROVE OwnInv
    OBVIOUS
  <2>1. CallsAreOwn
    BY DEF Init, CallsAreOwn
  <2>2. ASSUME NEW t \in Traj
        PROVE  /\ \A i \in 1..Len(tokens[t]) : tokens[t][i].owner = OwnOwner(t)
               /\ Len(searchImages[t]) = 0
    BY ConstantsAssumption, EmptySeq DEF Init, OwnOwner
  <2>3. QED
    BY <2>1, <2>2 DEF OwnInv, OwnResults
<1>2. TypeOK /\ OwnInv /\ [Next]_vars => OwnInv'
  <2> SUFFICES ASSUME TypeOK, OwnInv, [Next]_vars
               PROVE  OwnInv'
    OBVIOUS
  <2>1. ASSUME NEW t \in Traj, NEW out \in Outputs, Trigger(t, out)
        PROVE  OwnInv'
    BY <2>1, TriggerOwn
  <2>2. ASSUME NEW t \in Traj, ProcessResult(t) PROVE OwnInv'
    BY <2>2, ProcessResultOwn
  <2>3. ASSUME NEW t \in Traj, Pool(t) PROVE OwnInv'
    BY <2>3, PoolOwn
  <2> USE DEF OwnInv, conversation
  <2>4. ASSUME UNCHANGED conversation PROVE OwnResults'
    BY <2>4 DEF OwnResults
  <2>5. CASE StartRound
    BY <2>4, <2>5 DEF StartRound, CallsAreOwn
  <2>6. CASE SubmitCalls
    <3>1. CallsAreOwn'
      <4>1. ASSUME NEW t \in toGenerate'
            PROVE  query'[t].owner = OwnOwner(t) /\ future'[t].state # "done"
        <5>1. t \in toGenerate \ (left \cup idxToRemove) /\ t \in Traj
          BY <2>6 DEF SubmitCalls, TypeOK
        <5>2. query'[t].owner = OwnOwner(t)
          BY <2>6, <5>1 DEF SubmitCalls, CallsAreOwn
        <5>3. future'[t] = [Idle EXCEPT !.state = "queued"]
          BY <2>6, <5>1 DEF SubmitCalls
        <5>4. QED
          BY <5>2, <5>3 DEF Idle
      <4>2. QED
        BY <2>6, <4>1 DEF SubmitCalls, CallsAreOwn
    <3>2. QED
      BY <2>4, <2>6, <3>1 DEF SubmitCalls
  <2>7. CASE CollectResults
    BY <2>4, <2>7 DEF CollectResults, AllDone, CallsAreOwn, calls
  <2>8. CASE EndRound
    BY <2>4, <2>8 DEF EndRound, CallsAreOwn
  <2>9. CASE StopGenerating
    BY <2>4, <2>9 DEF StopGenerating, CallsAreOwn
  <2>10. CASE ReturnBatch
    BY <2>4, <2>10 DEF ReturnBatch, CallsAreOwn
  <2>11. ASSUME NEW t \in Traj, EmptyOutput(t) PROVE OwnInv'
    BY <2>4, <2>11 DEF EmptyOutput, CallsAreOwn
  <2>12. ASSUME NEW t \in Traj, Rebuild(t) PROVE OwnInv'
    BY <2>4, <2>12 DEF Rebuild, CallsAreOwn
  <2>13. CASE UNCHANGED vars
    BY <2>4, <2>13 DEF vars, control, calls, CallsAreOwn
  <2>14. QED
    BY <2>1, <2>2, <2>3, <2>5, <2>6, <2>7, <2>8, <2>9, <2>10, <2>11, <2>12,
       <2>13 DEF Next, Main, Terminating
<1>3. QED
  BY <1>1, <1>2, TypeCorrect, PTL DEF Spec

\* Whatever order the threads end in, no conversation ever holds a text or an
\* image that another trajectory's call returned.
THEOREM OwnCorrect == Spec => []ResultsAreOwn
<1>1. \A t \in Traj : OwnOwner(t).traj = t
  BY DEF OwnOwner
<1>2. OwnInv => ResultsAreOwn
  BY <1>1 DEF OwnInv, OwnResults, ResultsAreOwn
<1>3. QED
  BY <1>2, OwnInvariant, PTL

\* A trajectory only searches for the image and the question of its prompt.
THEOREM OwnImageCorrect == Spec => []SearchesOwnImage
<1>1. \A t \in Traj : OwnOwner(t).prompt = PromptOf(t)
  BY DEF OwnOwner
<1>2. OwnInv => SearchesOwnImage
  BY <1>1 DEF OwnInv, OwnResults, SearchesOwnImage
<1>3. QED
  BY <1>2, OwnInvariant, PTL

---------------------------------------------------------------------------
\* Who has the last word: a trajectory that asks in a round takes part in the next
\* one, and in the last round none may ask.

\* The model wrote the last token, or there was no room for more.
HasLastWord(t) ==
  \/ Len(tokens[t]) >= MaxModelLen
  \/ tokens[t] # <<>> /\ Last(tokens[t]).by = "assistant"

\* Only who takes part in the round may be waiting for its turn.
OthersHaveLastWord ==
  /\ \A t \in Traj \ toGenerate : HasLastWord(t)
  /\ pc = "trigger" => \A t \in toGenerate \ left : HasLastWord(t)
  /\ pc \in {"rebuild", "done"} => \A t \in Traj : HasLastWord(t)

\* Nobody is left to answer when the rounds are used up.
LastRoundEndsAll ==
  /\ pc = "trigger" /\ LastIteration => toGenerate \ left \subseteq idxToRemove
  /\ pc = "trigger" => idxToRemove \cap left = {}
  /\ pc \in {"call", "process"} /\ LastIteration => toGenerate = {}
  /\ pc = "generate" /\ iteration >= MaxGenRound => toGenerate = {}

LastWordInv == OthersHaveLastWord /\ LastRoundEndsAll

\* After a turn of the model the model has the last word.
LEMMA TurnHasLastWord ==
  ASSUME TypeOK, NEW t \in Traj, NEW out \in Outputs, Trigger(t, out)
  PROVE  HasLastWord(t)'
<1> DEFINE ids == Filtered(out)
           toks == tokens[t]
           toks2 == Extend(toks, Written(ids, "assistant", OwnOwner(t)))
           n == AppendedLen(toks, ids)
<1>1. ids \in Seq(TokenIds) /\ Len(ids) > 0
  BY FilteredProperties DEF Trigger
<1>2. toks \in Seq(Tokens) /\ OwnOwner(t) \in Owners
  BY OwnersAreOwners DEF TypeOK
<1>3. /\ n \in Nat
      /\ IsToksAndTurn(toks2, toks, n, "assistant", OwnOwner(t))
      /\ n = Len(ids) \/ Len(toks) + n >= MaxModelLen
  <2> HIDE DEF ids, toks
  <2> QED
    BY <1>1, <1>2, ExtendTurn
<1>4. tokens'[t] = toks2
  BY DEF Trigger, AppendResponse, TypeOK, OwnOwner
<1>5. Len(toks) \in Nat /\ Len(ids) \in Nat
  <2> HIDE DEF ids, toks
  <2> QED
    BY <1>1, <1>2, LenProperties
<1> HIDE DEF ids, toks, toks2, n
<1>6. Len(toks2) = Len(toks) + n /\ toks2 \in Seq(Tokens)
  BY <1>3 DEF IsToksAndTurn
<1>7. CASE Len(toks) + n >= MaxModelLen
  BY <1>4, <1>6, <1>7 DEF HasLastWord
<1>8. CASE n = Len(ids)
  <2>1. n \in 1..n /\ Len(toks2) > 0
    BY <1>1, <1>3, <1>5, <1>6, <1>8
  <2>2. toks2[Len(toks2)].by = "assistant"
    BY <1>3, <1>6, <2>1 DEF IsToksAndTurn
  <2>3. toks2 # <<>>
    BY <1>6, <2>1, EmptySeq
  <2>4. QED
    BY <1>4, <2>2, <2>3 DEF HasLastWord, Last
<1>9. QED
  BY <1>3, <1>7, <1>8

\* A conversation that does not change keeps its last word.
LEMMA KeepsLastWord ==
  ASSUME NEW t \in Traj, tokens'[t] = tokens[t], HasLastWord(t)
  PROVE  HasLastWord(t)'
BY DEF HasLastWord

\* Nobody has spoken before the first round.
LEMMA LastWordInit == Init => LastWordInv
BY ConstantsAssumption
   DEF Init, LastWordInv, OthersHaveLastWord, LastRoundEndsAll

\* A model output is a trajectory's last word until a result follows it.
LEMMA TriggerLastWord ==
  ASSUME TypeOK, LastWordInv, NEW t \in Traj, NEW out \in Outputs, Trigger(t, out)
  PROVE  LastWordInv'
<1> USE DEF LastWordInv
<1>1. /\ pc = "trigger" /\ UNCHANGED <<pc, toGenerate, iteration>>
      /\ left' = left \ {t} /\ t \in left
  BY DEF Trigger, NextInLoop
<1>2. HasLastWord(t)'
  BY TurnHasLastWord
<1>3. \A u \in Traj \ {t} : tokens'[u] = tokens[u]
  BY DEF Trigger, AppendResponse, TypeOK
<1>4. \A u \in Traj : HasLastWord(u) => HasLastWord(u)'
  BY <1>2, <1>3, KeepsLastWord
<1>5. OthersHaveLastWord'
  <2>1. toGenerate \subseteq Traj
    BY DEF TypeOK
  <2>2. QED
    BY <1>1, <1>2, <1>4, <2>1 DEF OthersHaveLastWord
<1>6. LastRoundEndsAll'
  <2>1. EndsTrajectory(t, Asks(out)) => idxToRemove' = idxToRemove \cup {t}
    BY DEF Trigger
  <2>2. ~EndsTrajectory(t, Asks(out)) => idxToRemove' = idxToRemove /\ ~LastIteration
    BY DEF Trigger, EndsTrajectory
  <2>3. QED
    BY <1>1, <2>1, <2>2 DEF LastRoundEndsAll, LastIteration
<1>7. QED
  BY <1>5, <1>6

\* A result is written only where another round follows.
LEMMA ProcessResultLastWord ==
  ASSUME TypeOK, LastWordInv, NEW t \in Traj, ProcessResult(t), left \subseteq toGenerate
  PROVE  LastWordInv'
<1> USE DEF LastWordInv
<1>1. /\ pc = "process" /\ UNCHANGED <<pc, toGenerate, iteration, idxToRemove>>
      /\ t \in toGenerate
  BY DEF ProcessResult, NextInLoop
<1>2. \A u \in Traj \ {t} : tokens'[u] = tokens[u]
  BY DEF ProcessResult, TypeOK
<1>3. \A u \in Traj \ toGenerate' : HasLastWord(u)'
  BY <1>1, <1>2, KeepsLastWord DEF OthersHaveLastWord
<1>4. QED
  BY <1>1, <1>3 DEF OthersHaveLastWord, LastRoundEndsAll, LastIteration

\* The invariant holds in every state of a rollout.
LEMMA LastWordInvariant == Spec => []LastWordInv
<1>1. TypeInv /\ OwnInv /\ LastWordInv /\ [Next]_vars => LastWordInv'
  <2> SUFFICES ASSUME TypeInv, OwnInv, LastWordInv, [Next]_vars
               PROVE  LastWordInv'
    OBVIOUS
  <2> TypeOK /\ RoundBound
    BY DEF TypeInv
  <2>1. ASSUME NEW t \in Traj, NEW out \in Outputs, Trigger(t, out)
        PROVE  LastWordInv'
    BY <2>1, TriggerLastWord
  <2>2. ASSUME NEW t \in Traj, ProcessResult(t) PROVE LastWordInv'
    <3>1. left \subseteq toGenerate
      BY <2>2 DEF OwnInv, CallsAreOwn, ProcessResult
    <3>2. QED
      BY <2>2, <3>1, ProcessResultLastWord
  <2> USE DEF LastWordInv
  <2>3. ASSUME tokens' = tokens
        PROVE  \A t \in Traj : HasLastWord(t) => HasLastWord(t)'
    BY <2>3, KeepsLastWord
  <2>4. ASSUME NEW t \in Traj, Pool(t) PROVE LastWordInv'
    <3>1. UNCHANGED <<tokens, toGenerate, iteration, idxToRemove>>
          /\ pc = "call" /\ pc' \in {"call", "failed"}
      BY <2>4 DEF Pool, StartCall, FinishCall, control, conversation
    <3>2. QED
      BY <2>3, <3>1 DEF OthersHaveLastWord, LastRoundEndsAll, LastIteration
  <2>5. ASSUME NEW t \in Traj, EmptyOutput(t) PROVE LastWordInv'
    BY <2>3, <2>5
       DEF EmptyOutput, OthersHaveLastWord, LastRoundEndsAll, conversation
  <2>6. ASSUME NEW t \in Traj, Rebuild(t) PROVE LastWordInv'
    BY <2>3, <2>6 DEF Rebuild, OthersHaveLastWord, LastRoundEndsAll, conversation
  <2>7. CASE StartRound
    BY <2>3, <2>7 DEF StartRound, OthersHaveLastWord, LastRoundEndsAll, conversation
  <2>8. CASE SubmitCalls
    <3>1. /\ pc = "trigger" /\ left = {} /\ pc' = "call"
          /\ toGenerate' = toGenerate \ idxToRemove
          /\ UNCHANGED <<tokens, iteration>>
      BY <2>8 DEF SubmitCalls, conversation
    <3>2. \A t \in Traj : HasLastWord(t)'
      BY <2>3, <3>1 DEF OthersHaveLastWord
    <3>3. QED
      BY <3>1, <3>2 DEF OthersHaveLastWord, LastRoundEndsAll, LastIteration
  <2>9. CASE CollectResults
    BY <2>3, <2>9
       DEF CollectResults, OthersHaveLastWord, LastRoundEndsAll, LastIteration,
           conversation
  <2>10. CASE EndRound
    <3>1. iteration \in Nat /\ MaxGenRound \in Nat
      BY ConstantsAssumption DEF TypeOK
    <3>2. iteration + 1 >= MaxGenRound => LastIteration
      BY <2>10, <3>1 DEF EndRound, RoundBound, LastIteration
    <3>3. QED
      BY <2>3, <2>10, <3>2
         DEF EndRound, OthersHaveLastWord, LastRoundEndsAll, conversation
  <2>11. CASE StopGenerating
    <3>1. toGenerate = {}
      BY <2>11, ConstantsAssumption DEF StopGenerating, LastRoundEndsAll, TypeOK
    <3>2. QED
      BY <2>3, <2>11, <3>1
         DEF StopGenerating, OthersHaveLastWord, LastRoundEndsAll, conversation
  <2>12. CASE ReturnBatch
    BY <2>3, <2>12
       DEF ReturnBatch, OthersHaveLastWord, LastRoundEndsAll, conversation
  <2>13. CASE UNCHANGED vars
    <3>1. /\ pc' = pc /\ iteration' = iteration /\ tokens' = tokens
          /\ toGenerate' = toGenerate /\ left' = left /\ idxToRemove' = idxToRemove
      BY <2>13 DEF vars, control, conversation
    <3>2. OthersHaveLastWord'
      BY <2>3, <3>1 DEF OthersHaveLastWord, TypeOK
    <3>3. LastRoundEndsAll'
      BY <3>1 DEF LastRoundEndsAll, LastIteration
    <3>4. QED
      BY <3>2, <3>3
  <2>14. QED
    BY <2>1, <2>2, <2>4, <2>5, <2>6, <2>7, <2>8, <2>9, <2>10, <2>11, <2>12,
       <2>13 DEF Next, Main, Terminating
<1>2. QED
  BY <1>1, LastWordInit, TypeInvariant, OwnInvariant, PTL DEF Spec

\* Every conversation of the batch ends with the model's words, unless it
\* filled max_model_len.
THEOREM LastWordCorrect == Spec => []ModelHasLastWord
<1>1. LastWordInv => (pc \in {"rebuild", "done"} => \A t \in Traj : HasLastWord(t))
  BY DEF LastWordInv, OthersHaveLastWord
<1>2. LastWordInv => ModelHasLastWord
  BY <1>1 DEF HasLastWord, ModelHasLastWord
<1>3. QED
  BY <1>2, LastWordInvariant, PTL

---------------------------------------------------------------------------
\* The refinement: every step of a rollout is a step of SearchDialogue, or shows
\* nothing there.

InRounds == pc \in {"generate", "trigger", "call", "process"}

\* Whoever takes part in a round has asked once in each round before it, and
\* once in this round if it has asked already.
HasAsked(t) ==
  \/ pc = "trigger" /\ t \notin left /\ t \notin idxToRemove
  \/ pc \in {"call", "process"}

RoundsAreSearches ==
  \A t \in toGenerate :
    imageCnt[t] + textCnt[t] = IF HasAsked(t) THEN iteration + 1 ELSE iteration

RemovedAreOut == pc # "trigger" => idxToRemove \cap toGenerate = {}

\* The loop over the engine's outputs visits who takes part.
LeftTakesPart == pc = "trigger" => left \subseteq toGenerate

RoundInv == InRounds => RoundsAreSearches /\ RemovedAreOut /\ LeftTakesPart

\* What is known of every state.
Known == TypeInv /\ OwnInv /\ LastWordInv

---------------------------------------------------------------------------
\* Rounds and searches

\* A trajectory that asks in this round has asked once more.
LEMMA TriggerRounds ==
  ASSUME Known, RoundInv, NEW t \in Traj, NEW out \in Outputs, Trigger(t, out)
  PROVE  RoundInv'
<1> USE DEF Known, TypeInv, RoundInv, InRounds
<1>1. /\ pc = "trigger" /\ UNCHANGED <<pc, iteration, toGenerate>>
      /\ left' = left \ {t} /\ t \in left /\ t \notin idxToRemove
  BY DEF Trigger, NextInLoop, LastWordInv, LastRoundEndsAll
<1>2. CASE EndsTrajectory(t, Asks(out))
  <2>1. idxToRemove' = idxToRemove \cup {t} /\ UNCHANGED <<imageCnt, textCnt>>
    BY <1>2 DEF Trigger, counts
  <2>2. \A u \in toGenerate : HasAsked(u)' <=> HasAsked(u)
    BY <1>1, <2>1 DEF HasAsked
  <2>3. QED
    BY <1>1, <2>1, <2>2 DEF RoundsAreSearches, RemovedAreOut, LeftTakesPart
<1>3. CASE ~EndsTrajectory(t, Asks(out))
  <2>1. /\ idxToRemove' = idxToRemove
        /\ \/ imageCnt' = [imageCnt EXCEPT ![t] = @ + 1] /\ textCnt' = textCnt
           \/ textCnt' = [textCnt EXCEPT ![t] = @ + 1] /\ imageCnt' = imageCnt
    BY <1>3 DEF Trigger
  <2>2. \A u \in Traj \ {t} : imageCnt'[u] = imageCnt[u] /\ textCnt'[u] = textCnt[u]
    BY <2>1 DEF TypeOK
  <2>3. imageCnt[t] \in Nat /\ textCnt[t] \in Nat /\ iteration \in Nat
    BY ConstantsAssumption DEF TypeOK
  <2>4. imageCnt'[t] + textCnt'[t] = imageCnt[t] + textCnt[t] + 1
    BY <2>1, <2>3 DEF TypeOK
  <2>5. ~HasAsked(t) /\ HasAsked(t)'
    BY <1>1, <2>1 DEF HasAsked
  <2>6. \A u \in toGenerate \ {t} : HasAsked(u)' <=> HasAsked(u)
    BY <1>1, <2>1 DEF HasAsked
  <2>7. toGenerate \subseteq Traj
    BY DEF TypeOK
  <2>8. ASSUME NEW u \in toGenerate
        PROVE  imageCnt'[u] + textCnt'[u] =
                 IF HasAsked(u)' THEN iteration + 1 ELSE iteration
    <3>1. CASE u = t
      BY <1>1, <2>4, <2>5, <3>1 DEF RoundsAreSearches
    <3>2. CASE u # t
      BY <1>1, <2>2, <2>6, <2>7, <3>2 DEF RoundsAreSearches
    <3>3. QED
      BY <3>1, <3>2
  <2>9. QED
    BY <1>1, <2>8 DEF RoundsAreSearches, RemovedAreOut, LeftTakesPart
<1>4. QED
  BY <1>2, <1>3

\* A step in which nobody asks and nobody leaves.
LEMMA QuietRounds ==
  ASSUME RoundInv, UNCHANGED <<iteration, toGenerate, idxToRemove, imageCnt, textCnt>>,
         InRounds, pc # "trigger", pc' # "trigger",
         \A t \in toGenerate : HasAsked(t)' <=> HasAsked(t)
  PROVE  RoundInv'
BY DEF RoundInv, RoundsAreSearches, RemovedAreOut, LeftTakesPart

\* The rounds of a rollout count the searches of who is still in it.
LEMMA RoundInvariant == Spec => []RoundInv
<1>1. Init => RoundInv
  BY DEF Init, RoundInv, RoundsAreSearches, RemovedAreOut, LeftTakesPart,
         HasAsked
<1>2. Known /\ RoundInv /\ [Next]_vars => RoundInv'
  <2> SUFFICES ASSUME Known, RoundInv, [Next]_vars PROVE RoundInv'
    OBVIOUS
  <2> USE DEF InRounds
  <2>1. ASSUME NEW t \in Traj, NEW out \in Outputs, Trigger(t, out)
        PROVE  RoundInv'
    BY <2>1, TriggerRounds
  <2>2. ASSUME ~InRounds' PROVE RoundInv'
    BY <2>2 DEF RoundInv
  <2>3. ASSUME NEW t \in Traj, ProcessResult(t) PROVE RoundInv'
    BY <2>3, QuietRounds DEF ProcessResult, HasAsked, counts
  <2>4. ASSUME NEW t \in Traj, Pool(t) PROVE RoundInv'
    <3>1. /\ UNCHANGED <<iteration, toGenerate, idxToRemove, imageCnt, textCnt>>
          /\ pc = "call" /\ pc' \in {"call", "failed"}
      BY <2>4 DEF Pool, StartCall, FinishCall, control, counts
    <3>2. QED
      BY <2>2, <3>1, QuietRounds DEF HasAsked
  <2>5. ASSUME NEW t \in Traj, EmptyOutput(t) \/ Rebuild(t) PROVE RoundInv'
    BY <2>2, <2>5 DEF EmptyOutput, Rebuild
  <2>6. CASE StartRound
    <3>1. /\ pc = "generate" /\ pc' = "trigger" /\ left' = toGenerate
          /\ UNCHANGED <<iteration, toGenerate, imageCnt, textCnt>>
      BY <2>6 DEF StartRound, counts
    <3>2. \A t \in toGenerate : ~HasAsked(t) /\ ~HasAsked(t)'
      BY <3>1 DEF HasAsked
    <3>3. QED
      BY <3>1, <3>2
         DEF RoundInv, RoundsAreSearches, RemovedAreOut, LeftTakesPart
  <2>7. CASE SubmitCalls
    <3>1. /\ pc = "trigger" /\ left = {} /\ pc' = "call"
          /\ toGenerate' = toGenerate \ idxToRemove
          /\ UNCHANGED <<iteration, idxToRemove, imageCnt, textCnt>>
      BY <2>7 DEF SubmitCalls, counts
    <3>2. \A t \in toGenerate' : HasAsked(t) /\ HasAsked(t)'
      BY <3>1 DEF HasAsked
    <3>3. QED
      BY <3>1, <3>2
         DEF RoundInv, RoundsAreSearches, RemovedAreOut, LeftTakesPart
  <2>8. CASE CollectResults
    <3>1. /\ UNCHANGED <<iteration, toGenerate, idxToRemove, imageCnt, textCnt>>
          /\ pc = "call" /\ pc' \in {"process", "failed"}
      BY <2>8 DEF CollectResults, counts
    <3>2. QED
      BY <2>2, <3>1, QuietRounds DEF HasAsked
  <2>9. CASE EndRound
    <3>1. /\ pc = "process" /\ pc' = "generate" /\ iteration' = iteration + 1
          /\ UNCHANGED <<toGenerate, idxToRemove, imageCnt, textCnt>>
      BY <2>9 DEF EndRound, counts
    <3>2. \A t \in toGenerate : HasAsked(t) /\ ~HasAsked(t)'
      BY <3>1 DEF HasAsked
    <3>3. QED
      BY <3>1, <3>2
         DEF RoundInv, RoundsAreSearches, RemovedAreOut, LeftTakesPart
  <2>10. CASE StopGenerating \/ ReturnBatch
    BY <2>2, <2>10 DEF StopGenerating, ReturnBatch
  <2>11. CASE UNCHANGED vars
    <3>1. /\ pc' = pc /\ iteration' = iteration /\ toGenerate' = toGenerate
          /\ left' = left /\ idxToRemove' = idxToRemove
          /\ imageCnt' = imageCnt /\ textCnt' = textCnt
      BY <2>11 DEF vars, control, counts
    <3>2. \A t \in toGenerate : HasAsked(t)' <=> HasAsked(t)
      BY <3>1 DEF HasAsked
    <3>3. QED
      BY <3>1, <3>2
         DEF RoundInv, RoundsAreSearches, RemovedAreOut, LeftTakesPart
  <2>12. QED
    BY <2>1, <2>3, <2>4, <2>5, <2>6, <2>7, <2>8, <2>9, <2>10, <2>11
       DEF Next, Main, Terminating
<1>3. QED
  BY <1>1, <1>2, TypeInvariant, OwnInvariant, LastWordInvariant, PTL DEF Spec, Known

---------------------------------------------------------------------------
\* Steps

Phases == [t \in Traj |-> Phase(t)]
Outcome == IF pc = "done" THEN "returned"
           ELSE IF pc = "failed" THEN "lost" ELSE "open"

\* A rollout starts as a dialogue does.
LEMMA RefinesInit == Init => Dialogue!Init
BY DEF Init, Dialogue!Init, Phase, Closed, Asking

\* What a step of one trajectory changes in the phases.
LEMMA PhasesChange ==
  ASSUME NEW t \in Traj, NEW phase, Phase(t)' = phase,
         \A u \in Traj \ {t} : Phase(u)' = Phase(u)
  PROVE  Phases' = [Phases EXCEPT ![t] = phase]
BY DEF Phases

\* The engine's output: the model asks, or closes.
LEMMA TriggerRefines ==
  ASSUME Known, RoundInv, NEW t \in Traj, NEW out \in Outputs, Trigger(t, out)
  PROVE  Dialogue!Next
<1> USE DEF Known, TypeInv
<1>1. /\ pc = "trigger" /\ pc' = "trigger" /\ UNCHANGED <<iteration, toGenerate>>
      /\ left' = left \ {t} /\ t \in left /\ t \notin idxToRemove
  BY DEF Trigger, NextInLoop, LastWordInv, LastRoundEndsAll
<1>2. Outcome = "open" /\ UNCHANGED Outcome
  BY <1>1 DEF Outcome
<1>3. t \in toGenerate
  BY <1>1 DEF RoundInv, InRounds, LeftTakesPart
<1>4. Phases[t] = "model"
  BY <1>1, <1>3 DEF Phases, Phase, Closed, Asking
<1>5. CASE EndsTrajectory(t, Asks(out))
  <2>1. idxToRemove' = idxToRemove \cup {t} /\ UNCHANGED <<imageCnt, textCnt>>
    BY <1>5 DEF Trigger, counts
  <2>2. Phase(t)' = "closed" /\ \A u \in Traj \ {t} : Phase(u)' = Phase(u)
    BY <1>1, <2>1 DEF Phase, Closed, Asking
  <2>3. Phases' = [Phases EXCEPT ![t] = "closed"]
    BY <2>2, PhasesChange
  <2>4. Dialogue!Close(t)
    BY <1>2, <1>4, <2>1, <2>3 DEF Dialogue!Close, Phases, Outcome
  <2>5. QED
    BY <2>4 DEF Dialogue!Next, Dialogue!Advance
<1>6. CASE ~EndsTrajectory(t, Asks(out))
  <2>1. idxToRemove' = idxToRemove
    BY <1>6 DEF Trigger
  <2>2. Phase(t)' = "tool" /\ \A u \in Traj \ {t} : Phase(u)' = Phase(u)
    BY <1>1, <1>3, <2>1 DEF Phase, Closed, Asking
  <2>3. Phases' = [Phases EXCEPT ![t] = "tool"]
    BY <2>2, PhasesChange
  <2>4. imageCnt[t] + textCnt[t] < MaxGenRound - 1
    <3>1. ~HasAsked(t) /\ InRounds
      BY <1>1 DEF HasAsked, InRounds
    <3>2. imageCnt[t] + textCnt[t] = iteration
      BY <1>3, <3>1 DEF RoundInv, RoundsAreSearches
    <3>3. iteration < MaxGenRound /\ iteration # MaxGenRound - 1
      BY <1>1, <1>6 DEF RoundBound, EndsTrajectory, LastIteration
    <3>4. iteration \in Nat /\ MaxGenRound \in Nat
      BY ConstantsAssumption DEF TypeOK
    <3>5. QED
      BY <3>2, <3>3, <3>4
  <2>5. Dialogue!MayAsk(t)
    BY <1>2, <1>4, <2>3, <2>4 DEF Dialogue!MayAsk, Phases, Outcome
  <2>6. CASE Asks(out) = "image"
    <3>1. imageCnt[t] < ImageSearchLimit
      BY <1>6, <2>6, ConstantsAssumption DEF EndsTrajectory, TypeOK
    <3>2. imageCnt' = [imageCnt EXCEPT ![t] = @ + 1] /\ textCnt' = textCnt
      BY <1>6, <2>6 DEF Trigger
    <3>3. Dialogue!AskImage(t)
      BY <2>5, <3>1, <3>2 DEF Dialogue!AskImage
    <3>4. QED
      BY <3>3 DEF Dialogue!Next, Dialogue!Advance
  <2>7. CASE Asks(out) = "text"
    <3>1. textCnt[t] < TextSearchLimit
      BY <1>6, <2>7, ConstantsAssumption DEF EndsTrajectory, TypeOK
    <3>2. textCnt' = [textCnt EXCEPT ![t] = @ + 1] /\ imageCnt' = imageCnt
      BY <1>6, <2>7 DEF Trigger
    <3>3. Dialogue!AskText(t)
      BY <2>5, <3>1, <3>2 DEF Dialogue!AskText
    <3>4. QED
      BY <3>3 DEF Dialogue!Next, Dialogue!Advance
  <2>8. QED
    BY <1>6, <2>6, <2>7 DEF Trigger
<1>7. QED
  BY <1>5, <1>6

\* The result of a search is appended: the tool answers.
LEMMA ProcessResultRefines ==
  ASSUME Known, RoundInv, NEW t \in Traj, ProcessResult(t)
  PROVE  Dialogue!Next
<1>1. /\ pc = "process" /\ pc' = "process" /\ t \in left /\ left' = left \ {t}
      /\ UNCHANGED <<toGenerate, idxToRemove, imageCnt, textCnt>>
  BY DEF ProcessResult, NextInLoop, counts
<1>2. t \in toGenerate /\ t \notin idxToRemove
  BY <1>1 DEF Known, OwnInv, CallsAreOwn, RoundInv, InRounds, RemovedAreOut
<1>3. Phases[t] = "tool" /\ Phase(t)' = "model"
  BY <1>1, <1>2 DEF Phases, Phase, Closed, Asking
<1>4. \A u \in Traj \ {t} : Phase(u)' = Phase(u)
  BY <1>1 DEF Phase, Closed, Asking
<1>5. Phases' = [Phases EXCEPT ![t] = "model"]
  BY <1>3, <1>4, PhasesChange
<1>6. Outcome = "open" /\ UNCHANGED Outcome
  BY <1>1 DEF Outcome
<1>7. Dialogue!Answer(t)
  BY <1>1, <1>3, <1>5, <1>6 DEF Dialogue!Answer, Phases, Outcome
<1>8. QED
  BY <1>7 DEF Dialogue!Next, Dialogue!Advance

\* Whatever raises loses the whole batch.
LEMMA FailureRefines ==
  ASSUME pc \notin {"done", "failed"}, pc' = "failed",
         UNCHANGED <<imageCnt, textCnt>>
  PROVE  Dialogue!Next
<1>1. Outcome = "open" /\ Outcome' = "lost"
  BY DEF Outcome
<1>2. Phases' = [t \in Traj |-> "lost"]
  BY DEF Phases, Phase
<1>3. Dialogue!Lose
  BY <1>1, <1>2 DEF Dialogue!Lose, Phases, Outcome
<1>4. QED
  BY <1>3 DEF Dialogue!Next, Dialogue!Advance

\* A step that changes no phase shows nothing in the dialogue.
LEMMA QuietRefines ==
  ASSUME UNCHANGED <<imageCnt, textCnt, Outcome>>,
         \A t \in Traj : Phase(t)' = Phase(t)
  PROVE  UNCHANGED Dialogue!vars
<1>1. Phases' = Phases
  BY DEF Phases
<1>2. QED
  BY <1>1 DEF Dialogue!vars, Phases, Outcome

\* The batch is returned when every trajectory is closed.
LEMMA ReturnRefines ==
  ASSUME ReturnBatch
  PROVE  Dialogue!Next
<1>1. pc = "rebuild" /\ pc' = "done" /\ UNCHANGED <<imageCnt, textCnt>>
  BY DEF ReturnBatch, counts
<1>2. \A t \in Traj : Phase(t) = "closed" /\ Phase(t)' = "closed"
  BY <1>1 DEF Phase, Closed
<1>3. Phases' = Phases /\ \A t \in Traj : Phases[t] = "closed"
  BY <1>2 DEF Phases
<1>4. Outcome = "open" /\ Outcome' = "returned"
  BY <1>1 DEF Outcome
<1>5. Dialogue!Return
  BY <1>1, <1>3, <1>4 DEF Dialogue!Return, Phases, Outcome
<1>6. QED
  BY <1>5 DEF Dialogue!Next, Dialogue!Advance

\* A step of a rollout is one of the dialogue, or none.
LEMMA StepRefines ==
  ASSUME Known, RoundInv, [Next]_vars
  PROVE  [Dialogue!Next]_Dialogue!vars
<1>1. ASSUME NEW t \in Traj, NEW out \in Outputs, Trigger(t, out)
      PROVE  Dialogue!Next
  BY <1>1, TriggerRefines
<1>2. ASSUME NEW t \in Traj, ProcessResult(t) PROVE Dialogue!Next
  BY <1>2, ProcessResultRefines
<1>3. CASE ReturnBatch
  BY <1>3, ReturnRefines
<1>4. ASSUME NEW t \in Traj, EmptyOutput(t) PROVE Dialogue!Next
  BY <1>4, FailureRefines DEF EmptyOutput, counts
<1>5. ASSUME NEW t \in Traj, Rebuild(t) PROVE [Dialogue!Next]_Dialogue!vars
  <2>1. /\ pc = "rebuild" /\ pc' \in {"rebuild", "failed"}
        /\ UNCHANGED <<toGenerate, idxToRemove, imageCnt, textCnt>>
    BY <1>5 DEF Rebuild, counts
  <2>2. CASE pc' = "failed"
    BY <2>1, <2>2, FailureRefines
  <2>3. CASE pc' = "rebuild"
    <3>1. \A u \in Traj : Phase(u)' = Phase(u)
      BY <2>1, <2>3 DEF Phase, Closed
    <3>2. UNCHANGED Outcome
      BY <2>1, <2>3 DEF Outcome
    <3>3. QED
      BY <2>1, <3>1, <3>2, QuietRefines
  <2>4. QED
    BY <2>1, <2>2, <2>3
<1>6. ASSUME NEW t \in Traj, Pool(t) PROVE [Dialogue!Next]_Dialogue!vars
  <2>1. /\ pc = "call" /\ pc' \in {"call", "failed"}
        /\ UNCHANGED <<toGenerate, idxToRemove, left, imageCnt, textCnt>>
    BY <1>6 DEF Pool, StartCall, FinishCall, control, counts
  <2>2. CASE pc' = "failed"
    BY <2>1, <2>2, FailureRefines
  <2>3. CASE pc' = "call"
    <3>1. \A u \in Traj : Phase(u)' = Phase(u)
      BY <2>1, <2>3 DEF Phase, Closed, Asking
    <3>2. UNCHANGED Outcome
      BY <2>1, <2>3 DEF Outcome
    <3>3. QED
      BY <2>1, <3>1, <3>2, QuietRefines
  <2>4. QED
    BY <2>1, <2>2, <2>3
<1>7. CASE CollectResults
  <2>1. /\ pc = "call" /\ pc' \in {"process", "failed"}
        /\ pc' = "process" => left' = toGenerate
        /\ UNCHANGED <<toGenerate, idxToRemove, imageCnt, textCnt>>
    BY <1>7 DEF CollectResults, counts
  <2>2. CASE pc' = "failed"
    BY <2>1, <2>2, FailureRefines
  <2>3. CASE pc' = "process"
    <3>1. \A u \in Traj : Phase(u)' = Phase(u)
      BY <2>1, <2>3 DEF Phase, Closed, Asking
    <3>2. UNCHANGED Outcome
      BY <2>1, <2>3 DEF Outcome
    <3>3. QED
      BY <2>1, <3>1, <3>2, QuietRefines
  <2>4. QED
    BY <2>1, <2>2, <2>3
<1>8. CASE StartRound
  <2>1. /\ pc = "generate" /\ pc' = "trigger"
        /\ left' = toGenerate /\ idxToRemove' = {}
        /\ UNCHANGED <<toGenerate, imageCnt, textCnt>>
    BY <1>8 DEF StartRound, counts
  <2>2. idxToRemove \cap toGenerate = {}
    BY <2>1 DEF RoundInv, InRounds, RemovedAreOut
  <2>3. \A u \in Traj : Phase(u)' = Phase(u)
    BY <2>1, <2>2 DEF Phase, Closed, Asking
  <2>4. UNCHANGED Outcome
    BY <2>1 DEF Outcome
  <2>5. QED
    BY <2>1, <2>3, <2>4, QuietRefines
<1>9. CASE SubmitCalls
  <2>1. /\ pc = "trigger" /\ pc' = "call" /\ left = {}
        /\ toGenerate' = toGenerate \ idxToRemove
        /\ UNCHANGED <<idxToRemove, imageCnt, textCnt>>
    BY <1>9 DEF SubmitCalls, counts
  <2>2. \A u \in Traj : Phase(u)' = Phase(u)
    BY <2>1 DEF Phase, Closed, Asking
  <2>3. UNCHANGED Outcome
    BY <2>1 DEF Outcome
  <2>4. QED
    BY <2>1, <2>2, <2>3, QuietRefines
<1>10. CASE EndRound
  <2>1. /\ pc = "process" /\ pc' = "generate" /\ left = {}
        /\ UNCHANGED <<toGenerate, idxToRemove, imageCnt, textCnt>>
    BY <1>10 DEF EndRound, counts
  <2>2. \A u \in Traj : Phase(u)' = Phase(u)
    BY <2>1 DEF Phase, Closed, Asking
  <2>3. UNCHANGED Outcome
    BY <2>1 DEF Outcome
  <2>4. QED
    BY <2>1, <2>2, <2>3, QuietRefines
<1>11. CASE StopGenerating
  <2>1. /\ pc = "generate" /\ pc' = "rebuild"
        /\ UNCHANGED <<toGenerate, imageCnt, textCnt>>
    BY <1>11 DEF StopGenerating, counts
  <2>2. toGenerate = {}
    BY <1>11, ConstantsAssumption
       DEF StopGenerating, Known, LastWordInv, LastRoundEndsAll, TypeInv, TypeOK
  <2>3. \A u \in Traj : Phase(u)' = Phase(u)
    BY <2>1, <2>2 DEF Phase, Closed
  <2>4. UNCHANGED Outcome
    BY <2>1 DEF Outcome
  <2>5. QED
    BY <2>1, <2>3, <2>4, QuietRefines
<1>12. CASE UNCHANGED vars
  <2>1. /\ pc' = pc /\ toGenerate' = toGenerate /\ left' = left
        /\ idxToRemove' = idxToRemove
        /\ imageCnt' = imageCnt /\ textCnt' = textCnt
    BY <1>12 DEF vars, control, counts
  <2>2. \A u \in Traj : Phase(u)' = Phase(u)
    BY <2>1 DEF Phase, Closed, Asking
  <2>3. UNCHANGED Outcome
    BY <2>1 DEF Outcome
  <2>4. QED
    BY <2>1, <2>2, <2>3, QuietRefines
<1>13. QED
  BY <1>1, <1>2, <1>3, <1>4, <1>5, <1>6, <1>7, <1>8, <1>9, <1>10, <1>11, <1>12
     DEF Next, Main, Terminating

\* Up to fairness, a rollout is a search dialogue: it starts as one, and each of
\* its steps is a question, an answer, a close, a return, a loss, or nothing.
THEOREM RolloutRefinesDialogue ==
  Spec => Dialogue!Init /\ [][Dialogue!Next]_Dialogue!vars
<1>1. Known /\ RoundInv /\ [Next]_vars => [Dialogue!Next]_Dialogue!vars
  BY StepRefines
<1>2. QED
  BY <1>1, RefinesInit, RoundInvariant, TypeInvariant, OwnInvariant,
     LastWordInvariant, PTL DEF Spec, Known

---------------------------------------------------------------------------
\* Turns

\* toks2 is toks and the first n tokens of a turn, which is all of it unless
\* max_model_len is reached.
TurnAppended(toks2, toks, ids, n, by, owner) ==
  /\ n \in 0..Len(ids)
  /\ toks2 \in Seq(Tokens)
  /\ Len(toks2) = Len(toks) + n
  /\ \A i \in 1..Len(toks) : toks2[i] = toks[i]
  /\ \A i \in 1..n : toks2[Len(toks) + i] = [id |-> ids[i], by |-> by, owner |-> owner]
  /\ n = Len(ids) \/ Len(toks2) >= MaxModelLen

\* That is what _extend_prompt_token_ids does.
LEMMA ExtendAppends ==
  ASSUME NEW toks \in Seq(Tokens), NEW ids \in Seq(TokenIds),
         NEW owner \in Owners, NEW by \in {"prompt", "assistant", "tool"}
  PROVE  TurnAppended(Extend(toks, Written(ids, by, owner)), toks, ids,
                      AppendedLen(toks, ids), by, owner)
<1> DEFINE turn == Written(ids, by, owner)
           toks2 == Extend(toks, turn)
           n == AppendedLen(toks, ids)
<1>1. /\ turn \in Seq(Tokens) /\ Len(turn) = Len(ids) /\ Len(ids) \in Nat
      /\ \A i \in 1..Len(ids) : turn[i] = [id |-> ids[i], by |-> by, owner |-> owner]
  BY WrittenProperties, LenProperties DEF Written
<1>2. AppendedLen(toks, turn) = n
  BY <1>1 DEF AppendedLen
<1> HIDE DEF turn, n
<1>3. /\ n \in 0..Len(ids)
      /\ n = Len(ids) \/ Len(toks) + n >= MaxModelLen
  BY <1>1, <1>2, AppendedLenBounds
<1>4. /\ toks2 \in Seq(Tokens)
      /\ Len(toks2) = Len(toks) + n
      /\ \A i \in 1..Len(toks) : toks2[i] = toks[i]
      /\ \A i \in 1..n : toks2[Len(toks) + i] = turn[i]
  BY <1>1, <1>2, ExtendProperties
<1> HIDE DEF toks2
<1>5. \A i \in 1..n : toks2[Len(toks) + i] = [id |-> ids[i], by |-> by, owner |-> owner]
  <2>1. \A i \in 1..n : i \in 1..Len(ids)
    BY <1>1, <1>3
  <2>2. QED
    BY <1>1, <1>4, <2>1
<1>6. TurnAppended(toks2, toks, ids, n, by, owner)
  BY <1>3, <1>4, <1>5 DEF TurnAppended
<1>7. QED
  BY <1>6 DEF turn, toks2, n

\* A turn of the model.
ModelTurn(t) ==
  \E out \in Outputs, n \in Nat :
    /\ out.ids # <<>>
    /\ TurnAppended(tokens'[t], tokens[t], Filtered(out), n, "assistant", OwnOwner(t))
    /\ searchImages' = searchImages

\* A turn of a tool, and its images.
ToolTurn(t) ==
  \E n \in Nat :
    /\ pc = "process" /\ t \in left
    /\ TurnAppended(tokens'[t], tokens[t], UserTurn(future[t].result), n, "tool",
                    future[t].owner)
    /\ searchImages'[t] = searchImages[t] \o
         [k \in 1..Len(future[t].result.grids) |->
            [grid |-> future[t].result.grids[k], owner |-> future[t].owner]]

\* The other conversations stay.
OthersStay(t) ==
  \A u \in Traj \ {t} : tokens'[u] = tokens[u] /\ searchImages'[u] = searchImages[u]

\* An output the engine sampled becomes a turn of the model.
LEMMA TriggerIsTurn ==
  ASSUME TypeOK, NEW t \in Traj, NEW out \in Outputs, Trigger(t, out)
  PROVE  ModelTurn(t) /\ OthersStay(t)
<1> DEFINE ids == Filtered(out)
           toks2 == Extend(tokens[t], Written(ids, "assistant", OwnOwner(t)))
           n == AppendedLen(tokens[t], ids)
<1>1. ids \in Seq(TokenIds) /\ out.ids # <<>>
  BY FilteredProperties DEF Trigger
<1>2. tokens[t] \in Seq(Tokens) /\ OwnOwner(t) \in Owners
  BY OwnersAreOwners DEF TypeOK
<1>3. TurnAppended(toks2, tokens[t], ids, n, "assistant", OwnOwner(t))
  <2> HIDE DEF ids
  <2> QED
    BY <1>1, <1>2, ExtendAppends
<1>4. /\ tokens'[t] = toks2 /\ \A u \in Traj \ {t} : tokens'[u] = tokens[u]
      /\ searchImages' = searchImages
  BY DEF Trigger, AppendResponse, TypeOK, OwnOwner
<1>5. n \in Nat
  <2> HIDE DEF ids, toks2, n
  <2>1. Len(ids) \in Nat
    BY <1>1
  <2>2. QED
    BY <1>3, <2>1 DEF TurnAppended
<1> HIDE DEF toks2, n
<1>6. QED
  BY <1>1, <1>3, <1>4, <1>5 DEF ModelTurn, OthersStay

\* The result of a search becomes a turn of the tool that returned it.
LEMMA ProcessResultIsTurn ==
  ASSUME TypeOK, NEW t \in Traj, ProcessResult(t)
  PROVE  ToolTurn(t) /\ OthersStay(t)
<1> DEFINE r == future[t]
           ids == UserTurn(r.result)
           toks2 == Extend(tokens[t], Written(ids, "tool", r.owner))
           n == AppendedLen(tokens[t], ids)
<1>1. r.result \in Results /\ r.owner \in Owners
  BY DEF TypeOK, Futures
<1>2. ids \in Seq(TokenIds) /\ tokens[t] \in Seq(Tokens)
  BY <1>1, UserTurnType DEF TypeOK
<1>3. TurnAppended(toks2, tokens[t], ids, n, "tool", r.owner)
  <2> HIDE DEF ids, r
  <2> QED
    BY <1>1, <1>2, ExtendAppends
<1>4. /\ tokens'[t] = toks2 /\ \A u \in Traj \ {t} : tokens'[u] = tokens[u]
      /\ searchImages'[t] = searchImages[t] \o
           [k \in 1..Len(r.result.grids) |->
              [grid |-> r.result.grids[k], owner |-> r.owner]]
      /\ \A u \in Traj \ {t} : searchImages'[u] = searchImages[u]
      /\ pc = "process" /\ t \in left
  BY DEF ProcessResult, SearchResult, NextInLoop, TypeOK
<1>5. n \in Nat
  <2> HIDE DEF ids, toks2, n
  <2>1. Len(ids) \in Nat
    BY <1>2
  <2>2. QED
    BY <1>3, <2>1 DEF TurnAppended
<1> HIDE DEF toks2, n
<1>6. QED
  BY <1>3, <1>4, <1>5 DEF ToolTurn, OthersStay

\* Whatever else happens, conversations only change by turns.
LEMMA OnlyTurns ==
  ASSUME TypeOK, [Next]_vars
  PROVE  \/ UNCHANGED <<tokens, searchImages>>
         \/ \E t \in Traj : (ModelTurn(t) \/ ToolTurn(t)) /\ OthersStay(t)
<1> USE DEF conversation
<1>1. ASSUME NEW t \in Traj, NEW out \in Outputs, Trigger(t, out)
      PROVE  ModelTurn(t) /\ OthersStay(t)
  BY <1>1, TriggerIsTurn
<1>2. ASSUME NEW t \in Traj, ProcessResult(t)
      PROVE  ToolTurn(t) /\ OthersStay(t)
  BY <1>2, ProcessResultIsTurn
<1>3. ASSUME NEW t \in Traj, Pool(t) \/ EmptyOutput(t) \/ Rebuild(t)
      PROVE  UNCHANGED conversation
  BY <1>3 DEF Pool, StartCall, FinishCall, EmptyOutput, Rebuild
<1>4. CASE StartRound \/ SubmitCalls \/ CollectResults \/ EndRound \/ StopGenerating
           \/ ReturnBatch
  BY <1>4 DEF StartRound, SubmitCalls, CollectResults, EndRound, StopGenerating,
              ReturnBatch
<1>5. CASE UNCHANGED vars
  BY <1>5 DEF vars
<1>6. QED
  BY <1>1, <1>2, <1>3, <1>4, <1>5 DEF Next, Main, Terminating

---------------------------------------------------------------------------
\* The mask of the batch

\* The engine samples no image_pad: the filter of the ids would let it pass.
NoPadsSampled ==
  \A out \in Outputs : \A i \in 1..Len(out.ids) : out.ids[i] # "image_pad"

\* Each image_pad of the conversation of t stands in a turn of a tool.
PadsAreTools(t) ==
  \A i \in 1..Len(tokens[t]) :
    tokens[t][i].id = "image_pad" => tokens[t][i].by # "assistant"

\* What is left of an output keeps its ids, but for an im_end at the end.
LEMMA FilteredIds ==
  ASSUME NEW out \in Outputs, out.ids # <<>>, NEW i \in 1..Len(Filtered(out))
  PROVE  /\ Len(Filtered(out)) = Len(out.ids)
         /\ Filtered(out)[i] = out.ids[i] \/ Filtered(out)[i] = "im_end"
<1>1. out.ids \in Seq(TokenIds) /\ Len(out.ids) \in Nat
  BY ToolsAssumption
<1>2. QED
  BY <1>1 DEF Filtered

\* The i-th token was there, or is one of the turn's.
WasOrNew(toks2, toks, ids, n, by, owner, i) ==
  \/ i \in 1..Len(toks) /\ toks2[i] = toks[i]
  \/ \E k \in 1..n :
       /\ k \in 1..Len(ids) /\ i = Len(toks) + k
       /\ toks2[i] = [id |-> ids[k], by |-> by, owner |-> owner]

\* After a turn, that is all there is.
LEMMA TurnElements ==
  ASSUME NEW toks2, NEW toks \in Seq(Tokens), NEW ids \in Seq(TokenIds), NEW n,
         NEW by, NEW owner, TurnAppended(toks2, toks, ids, n, by, owner),
         NEW i \in 1..Len(toks2)
  PROVE  WasOrNew(toks2, toks, ids, n, by, owner, i)
<1>1. Len(toks) \in Nat /\ Len(ids) \in Nat /\ n \in 0..Len(ids) /\ Len(toks2) = Len(toks) + n
  BY DEF TurnAppended
<1>2. CASE i <= Len(toks)
  BY <1>1, <1>2 DEF TurnAppended, WasOrNew
<1>3. CASE ~(i <= Len(toks))
  <2> DEFINE k == i - Len(toks)
  <2>1. k \in 1..n /\ k \in 1..Len(ids) /\ Len(toks) + k = i
    BY <1>1, <1>3
  <2> HIDE DEF k
  <2>2. toks2[i] = [id |-> ids[k], by |-> by, owner |-> owner]
    BY <2>1 DEF TurnAppended
  <2>3. QED
    BY <2>1, <2>2 DEF k, WasOrNew
<1>4. QED
  BY <1>2, <1>3

\* What holds of every token before a turn, and of the turn's, holds after it.
LEMMA TurnKeeps ==
  ASSUME NEW toks2, NEW toks \in Seq(Tokens), NEW ids \in Seq(TokenIds), NEW n,
         NEW by, NEW owner, TurnAppended(toks2, toks, ids, n, by, owner), NEW Good,
         \A i \in 1..Len(toks) : toks[i] \in Good,
         \A k \in 1..Len(ids) : [id |-> ids[k], by |-> by, owner |-> owner] \in Good
  PROVE  \A i \in 1..Len(toks2) : toks2[i] \in Good
<1>1. SUFFICES ASSUME NEW i \in 1..Len(toks2) PROVE toks2[i] \in Good
  OBVIOUS
<1>2. WasOrNew(toks2, toks, ids, n, by, owner, i)
  BY TurnElements
<1>3. QED
  BY <1>2 DEF WasOrNew

\* The tokens that are no image_pad of the model.
Honest == {x \in Tokens : x.id = "image_pad" => x.by # "assistant"}

\* The model samples no image_pad, so each one stays a tool's.
LEMMA PadsAreToolsStep ==
  ASSUME NoPadsSampled, TypeOK, \A t \in Traj : PadsAreTools(t), [Next]_vars, NEW u \in Traj
  PROVE  PadsAreTools(u)'
<1>1. ASSUME UNCHANGED <<tokens, searchImages>> PROVE PadsAreTools(u)'
  BY <1>1 DEF PadsAreTools
<1>2. ASSUME NEW t \in Traj, OthersStay(t), u # t PROVE PadsAreTools(u)'
  BY <1>2 DEF PadsAreTools, OthersStay
<1>3. tokens[u] \in Seq(Tokens) /\ \A i \in 1..Len(tokens[u]) : tokens[u][i] \in Honest
  <2>1. tokens[u] \in Seq(Tokens) /\ Len(tokens[u]) \in Nat
    BY DEF TypeOK
  <2>2. \A i \in 1..Len(tokens[u]) : tokens[u][i] \in Tokens
    BY <2>1
  <2>3. QED
    BY <2>1, <2>2 DEF PadsAreTools, Honest
<1>4. ASSUME NEW toks2, tokens'[u] = toks2,
             \A i \in 1..Len(toks2) : toks2[i] \in Honest
      PROVE  PadsAreTools(u)'
  BY <1>4 DEF PadsAreTools, Honest
<1>5. ASSUME ModelTurn(u) PROVE PadsAreTools(u)'
  <2>1. PICK out \in Outputs, n \in Nat :
          /\ out.ids # <<>>
          /\ TurnAppended(tokens'[u], tokens[u], Filtered(out), n, "assistant", OwnOwner(u))
    BY <1>5 DEF ModelTurn
  <2>2. Filtered(out) \in Seq(TokenIds) /\ OwnOwner(u) \in Owners
    BY <2>1, FilteredProperties, OwnersAreOwners
  <2>3. ASSUME NEW k \in 1..Len(Filtered(out))
        PROVE  [id |-> Filtered(out)[k], by |-> "assistant", owner |-> OwnOwner(u)] \in Honest
    <3>1. Len(Filtered(out)) = Len(out.ids)
          /\ (Filtered(out)[k] = out.ids[k] \/ Filtered(out)[k] = "im_end")
      BY <2>1, FilteredIds
    <3>2. Filtered(out)[k] # "image_pad" /\ Filtered(out)[k] \in TokenIds
      BY <2>2, <3>1 DEF NoPadsSampled
    <3>3. QED
      BY <2>2, <3>2 DEF Honest, Tokens
  <2> DEFINE toks2 == tokens'[u]
             toks == tokens[u]
             ids == Filtered(out)
  <2>4. TurnAppended(toks2, toks, ids, n, "assistant", OwnOwner(u))
    BY <2>1
  <2>5. \A i \in 1..Len(toks2) : toks2[i] \in Honest
    <3>1. ids \in Seq(TokenIds) /\ toks \in Seq(Tokens)
      BY <1>3, <2>2
    <3>2. /\ \A k \in 1..Len(ids) :
               [id |-> ids[k], by |-> "assistant", owner |-> OwnOwner(u)] \in Honest
          /\ \A i \in 1..Len(toks) : toks[i] \in Honest
      BY <1>3, <2>3
    <3> HIDE DEF toks2, toks, ids
    <3>3. QED
      BY <2>4, <3>1, <3>2, TurnKeeps
  <2>6. QED
    BY <1>4, <2>5
<1>6. ASSUME ToolTurn(u) PROVE PadsAreTools(u)'
  <2> DEFINE toks2 == tokens'[u]
             toks == tokens[u]
             ids == UserTurn(future[u].result)
             owner == future[u].owner
  <2>1. PICK n \in Nat : TurnAppended(toks2, toks, ids, n, "tool", owner)
    BY <1>6 DEF ToolTurn
  <2>2. ids \in Seq(TokenIds) /\ owner \in Owners
    BY UserTurnType DEF TypeOK, Futures
  <2>3. \A k \in 1..Len(ids) : [id |-> ids[k], by |-> "tool", owner |-> owner] \in Honest
    <3> HIDE DEF ids, owner
    <3> QED
      BY <2>2 DEF Honest, Tokens
  <2>4. \A i \in 1..Len(toks2) : toks2[i] \in Honest
    <3> HIDE DEF toks2, toks, ids, owner
    <3> QED
      BY <1>3, <2>1, <2>2, <2>3, TurnKeeps DEF toks
  <2>5. QED
    BY <1>4, <2>4
<1>7. QED
  BY <1>1, <1>2, <1>5, <1>6, OnlyTurns

---------------------------------------------------------------------------
\* Rebuild

\* A token of the response and its bit.
Marked == {p \in Tokens \X {0, 1} : p[2] = 1 <=> p[1].by = "assistant"}

\* The response is what follows the prompt, element by element.
LEMMA AfterPromptProperties ==
  ASSUME NEW A, NEW seq \in Seq(A)
  PROVE  /\ AfterPrompt(seq) \in Seq(A)
         /\ Len(AfterPrompt(seq)) =
              IF PrefixLength < Len(seq) THEN Len(seq) - PrefixLength ELSE 0
         /\ \A i \in 1..Len(AfterPrompt(seq)) :
              PrefixLength + i \in 1..Len(seq) /\ AfterPrompt(seq)[i] = seq[PrefixLength + i]
<1>1. PrefixLength \in Nat /\ Len(seq) \in Nat
  BY ConstantsAssumption
<1>2. \A i \in (PrefixLength + 1)..Len(seq) : seq[i] \in A
  BY <1>1
<1>3. /\ SubSeq(seq, PrefixLength + 1, Len(seq)) \in Seq(A)
      /\ Len(SubSeq(seq, PrefixLength + 1, Len(seq))) =
           IF PrefixLength + 1 <= Len(seq) THEN Len(seq) - (PrefixLength + 1) + 1 ELSE 0
      /\ \A i \in 1..(Len(seq) - (PrefixLength + 1) + 1) :
           SubSeq(seq, PrefixLength + 1, Len(seq))[i] = seq[PrefixLength + 1 + i - 1]
  BY <1>1, <1>2, SubSeqProperties
<1> DEFINE x == SubSeq(seq, PrefixLength + 1, Len(seq))
<1>4. AfterPrompt(seq) = x
  BY DEF AfterPrompt
<1> HIDE DEF x
<1>5. Len(x) = IF PrefixLength < Len(seq) THEN Len(seq) - PrefixLength ELSE 0
  BY <1>1, <1>3 DEF x
<1>6. ASSUME NEW i \in 1..Len(x)
      PROVE  PrefixLength + i \in 1..Len(seq) /\ x[i] = seq[PrefixLength + i]
  <2>1. i \in 1..(Len(seq) - (PrefixLength + 1) + 1) /\ PrefixLength + i \in 1..Len(seq)
        /\ PrefixLength + 1 + i - 1 = PrefixLength + i
    BY <1>1, <1>5
  <2>2. x[i] = seq[PrefixLength + 1 + i - 1]
    BY <1>3, <2>1 DEF x
  <2>3. QED
    BY <2>1, <2>2
<1>7. QED
  BY <1>3, <1>4, <1>5, <1>6 DEF x

\* The rank of an image_pad is that of one of the images, if there are enough.
LEMMA PadRanks ==
  ASSUME NEW toks \in Seq(Tokens), NEW i \in Pads(toks)
  PROVE  PadRank(toks, i) \in 1..Cardinality(Pads(toks))
<1> DEFINE S == {j \in 1..i : toks[j].id = "image_pad"}
<1>1. Len(toks) \in Nat /\ i \in 1..Len(toks) /\ toks[i].id = "image_pad"
  BY DEF Pads
<1>2. IsFiniteSet(Pads(toks))
  <2>1. IsFiniteSet(1..Len(toks)) /\ Pads(toks) \in SUBSET (1..Len(toks))
    BY <1>1, FS_Interval DEF Pads
  <2>2. QED
    BY <2>1, FS_Subset
<1>3. S \in SUBSET Pads(toks)
  BY <1>1 DEF Pads
<1>4. IsFiniteSet(S) /\ Cardinality(S) <= Cardinality(Pads(toks)) /\ i \in S
  <2>1. i \in S
    BY <1>1
  <2> HIDE DEF S
  <2>2. QED
    BY <1>2, <1>3, <2>1, FS_Subset
<1> HIDE DEF S
<1>5. Cardinality(S) \in Nat /\ Cardinality(Pads(toks)) \in Nat /\ Cardinality(S) # 0
  BY <1>2, <1>4, FS_CardinalityType, FS_EmptySet
<1>6. PadRank(toks, i) = Cardinality(S)
  BY DEF PadRank, S
<1>7. QED
  BY <1>4, <1>5, <1>6

\* The pieces seq is expanded to.
Pieces(seq, toks, images) ==
  [i \in 1..Len(toks) |->
    IF i \in Pads(toks)
    THEN [k \in 1..images[PadRank(toks, i)].grid |-> seq[i]]
    ELSE <<seq[i]>>]

\* An image_pad becomes as many as its image has patches, another token one.
ArePieces(p, seq, toks, images) ==
  /\ Len(p) = Len(toks)
  /\ \A i \in 1..Len(toks) :
       \/ /\ i \in Pads(toks)
          /\ PadRank(toks, i) \in 1..Len(images)
          /\ images[PadRank(toks, i)].grid \in Nat
          /\ Len(p[i]) = images[PadRank(toks, i)].grid
          /\ \A k \in 1..Len(p[i]) : p[i][k] = seq[i]
       \/ i \notin Pads(toks) /\ p[i] = <<seq[i]>>

\* With an image for each image_pad, the pieces are as above.
LEMMA PiecesType ==
  ASSUME NEW A, NEW toks \in Seq(Tokens), NEW images \in Seq(Images),
         NEW seq \in Seq(A), Len(seq) = Len(toks),
         Cardinality(Pads(toks)) <= Len(images)
  PROVE  /\ Pieces(seq, toks, images) \in Seq(Seq(A))
         /\ ArePieces(Pieces(seq, toks, images), seq, toks, images)
<1> DEFINE p == Pieces(seq, toks, images)
<1>1. Len(toks) \in Nat /\ Len(images) \in Nat
  OBVIOUS
<1>2. ASSUME NEW i \in Pads(toks)
      PROVE  PadRank(toks, i) \in 1..Len(images) /\ images[PadRank(toks, i)].grid \in Nat
  <2>1. IsFiniteSet(Pads(toks))
    <3>1. IsFiniteSet(1..Len(toks)) /\ Pads(toks) \in SUBSET (1..Len(toks))
      BY <1>1, FS_Interval DEF Pads
    <3>2. QED
      BY <3>1, FS_Subset
  <2>2. Cardinality(Pads(toks)) \in Nat
    BY <2>1, FS_CardinalityType
  <2>3. PadRank(toks, i) \in 1..Len(images)
    BY <1>1, <2>2, PadRanks
  <2>4. images[PadRank(toks, i)] \in Images
    BY <2>3
  <2>5. QED
    BY <2>3, <2>4 DEF Images
<1>3. ASSUME NEW i \in 1..Len(toks), i \in Pads(toks)
      PROVE  /\ p[i] \in Seq(A) /\ Len(p[i]) = images[PadRank(toks, i)].grid
             /\ \A k \in 1..Len(p[i]) : p[i][k] = seq[i]
  <2> DEFINE g == images[PadRank(toks, i)].grid
  <2>1. g \in Nat /\ seq[i] \in A /\ p[i] = [k \in 1..g |-> seq[i]]
    BY <1>2, <1>3 DEF Pieces
  <2> HIDE DEF p, g
  <2>2. p[i] \in Seq(A) /\ Len(p[i]) = g /\ \A k \in 1..g : p[i][k] = seq[i]
    <3>1. \A k \in 1..g : seq[i] \in A
      BY <2>1
    <3> DEFINE same == [k \in 1..g |-> seq[i]]
    <3>2. same \in Seq(A) /\ Len(same) = g /\ \A k \in 1..g : same[k] = seq[i]
      BY <2>1, <3>1
    <3> HIDE DEF same
    <3>3. QED
      BY <2>1, <3>2 DEF same
  <2>3. QED
    BY <2>2 DEF g
<1>4. ASSUME NEW i \in 1..Len(toks), i \notin Pads(toks)
      PROVE  p[i] = <<seq[i]>> /\ p[i] \in Seq(A)
  <2>1. p[i] = <<seq[i]>> /\ seq[i] \in A
    BY <1>4 DEF Pieces
  <2>2. QED
    BY <2>1
<1>5. p \in Seq(Seq(A)) /\ Len(p) = Len(toks)
  <2>1. p = [i \in 1..Len(toks) |-> p[i]]
    BY DEF Pieces
  <2> HIDE DEF p
  <2>2. \A i \in 1..Len(toks) : p[i] \in Seq(A)
    BY <1>3, <1>4
  <2>3. QED
    BY <1>1, <2>1, <2>2, IsASeq
<1> HIDE DEF p
<1>6. QED
  <2>1. ASSUME NEW i \in 1..Len(toks)
        PROVE  \/ /\ i \in Pads(toks)
                  /\ PadRank(toks, i) \in 1..Len(images)
                  /\ images[PadRank(toks, i)].grid \in Nat
                  /\ Len(p[i]) = images[PadRank(toks, i)].grid
                  /\ \A k \in 1..Len(p[i]) : p[i][k] = seq[i]
               \/ /\ i \notin Pads(toks)
                  /\ p[i] = <<seq[i]>>
    BY <1>2, <1>3, <1>4
  <2>2. QED
    BY <1>5, <2>1 DEF p, ArePieces

\* The response and its mask after the prompt, in step.
LEMMA AfterPromptInStep ==
  ASSUME TypeOK, MaskMatchesAuthor, NEW t \in Traj
  PROVE  /\ AfterPrompt(tokens[t]) \in Seq(Tokens) /\ AfterPrompt(mask[t]) \in Seq({0, 1})
         /\ Fits(Marked, AfterPrompt(tokens[t]), AfterPrompt(mask[t]))
<1> DEFINE toks == tokens[t]
           bits == mask[t]
           x == AfterPrompt(toks)
           y == AfterPrompt(bits)
<1>1. /\ toks \in Seq(Tokens) /\ bits \in Seq({0, 1}) /\ Len(bits) = Len(toks)
      /\ \A i \in 1..Len(toks) : bits[i] = 1 <=> toks[i].by = "assistant"
  BY DEF TypeOK, MaskMatchesAuthor
<1>2. /\ \A i \in 1..Len(toks) : toks[i] \in Tokens
      /\ \A i \in 1..Len(toks) : bits[i] \in {0, 1}
  BY <1>1
<1> HIDE DEF toks, bits
<1>3. /\ x \in Seq(Tokens)
      /\ Len(x) = IF PrefixLength < Len(toks) THEN Len(toks) - PrefixLength ELSE 0
      /\ \A i \in 1..Len(x) : PrefixLength + i \in 1..Len(toks) /\ x[i] = toks[PrefixLength + i]
  BY <1>1, AfterPromptProperties
<1>4. /\ y \in Seq({0, 1})
      /\ Len(y) = IF PrefixLength < Len(bits) THEN Len(bits) - PrefixLength ELSE 0
      /\ \A i \in 1..Len(y) : PrefixLength + i \in 1..Len(bits) /\ y[i] = bits[PrefixLength + i]
  BY <1>1, AfterPromptProperties
<1> HIDE DEF x, y
<1>5. Len(x) = Len(y)
  BY <1>1, <1>3, <1>4
<1>6. ASSUME NEW i \in 1..Len(x) PROVE <<x[i], y[i]>> \in Marked
  <2>1. PrefixLength + i \in 1..Len(toks) /\ x[i] = toks[PrefixLength + i]
        /\ y[i] = bits[PrefixLength + i]
    BY <1>3, <1>4, <1>5
  <2>2. QED
    BY <1>1, <1>2, <2>1 DEF Marked
<1>7. QED
  BY <1>3, <1>4, <1>5, <1>6 DEF Fits, toks, bits, x, y

\* Where there are images, a response that is rebuilt has no more image_pads.
LEMMA PadsOfRebuilt ==
  ASSUME TypeOK, NEW t \in Traj, ~CannotRebuild(t), searchImages[t] # <<>>
  PROVE  /\ Cardinality(Pads(AfterPrompt(tokens[t]))) <= Len(searchImages[t])
         /\ AfterPrompt(tokens[t]) # <<>>
<1> DEFINE toks == AfterPrompt(tokens[t])
<1>1. tokens[t] \in Seq(Tokens) /\ Len(searchImages[t]) \in Nat
  BY DEF TypeOK
<1>2. toks \in Seq(Tokens)
  BY <1>1, AfterPromptProperties
<1>3. ~(Cardinality(Pads(toks)) > Len(searchImages[t])) /\ toks # <<>>
  BY DEF CannotRebuild
<1> HIDE DEF toks
<1>4. Cardinality(Pads(toks)) \in Nat
  <2>1. IsFiniteSet(1..Len(toks)) /\ Pads(toks) \in SUBSET (1..Len(toks))
    BY <1>2, FS_Interval DEF Pads
  <2>2. QED
    BY <2>1, FS_Subset, FS_CardinalityType
<1>5. QED
  BY <1>1, <1>3, <1>4 DEF toks

\* What is rebuilt of one trajectory is in step again: the pieces its tokens and
\* its bits are multiplied to have the same lengths, and a multiplied bit is 0.
LEMMA RebuiltInStep ==
  ASSUME TypeOK, MaskMatchesAuthor, NEW t \in Traj, PadsAreTools(t), ~CannotRebuild(t)
  PROVE  /\ RebuiltTokens(t) \in Seq(Tokens) /\ RebuiltMask(t) \in Seq({0, 1})
         /\ Fits(Marked, RebuiltTokens(t), RebuiltMask(t))
<1> DEFINE toks == AfterPrompt(tokens[t])
           bits == AfterPrompt(mask[t])
           images == searchImages[t]
<1>1. toks \in Seq(Tokens) /\ bits \in Seq({0, 1}) /\ Fits(Marked, toks, bits)
  BY AfterPromptInStep
<1>2. CASE images = <<>>
  BY <1>1, <1>2 DEF RebuiltTokens, RebuiltMask
<1>3. CASE images # <<>>
  <2> DEFINE padless == [i \in 1..Len(bits) |-> IF i \in Pads(toks) THEN 0 ELSE bits[i]]
             r == Pieces(toks, toks, images)
             s == Pieces(padless, toks, images)
  <2>1. /\ RebuiltTokens(t) = FlattenSeq(r)
        /\ RebuiltMask(t) = FlattenSeq(s)
        /\ Cardinality(Pads(toks)) <= Len(images) /\ toks # <<>>
    <3>1. Cardinality(Pads(toks)) <= Len(images) /\ toks # <<>>
      BY <1>3, PadsOfRebuilt
    <3>2. RebuiltTokens(t) = FlattenSeq(r) /\ RebuiltMask(t) = FlattenSeq(s)
      BY <1>3 DEF RebuiltTokens, RebuiltMask, Expanded, Pieces
    <3>3. QED
      BY <3>1, <3>2
  <2>2. images \in Seq(Images)
    BY DEF TypeOK
  <2>3. /\ Len(bits) = Len(toks) /\ Len(toks) \in Nat
        /\ \A i \in 1..Len(toks) : <<toks[i], bits[i]>> \in Marked
    <3> HIDE DEF toks, bits
    <3> QED
      BY <1>1 DEF Fits
\* A token that is multiplied is not the model's.
  <2>4. ASSUME NEW i \in Pads(toks) PROVE toks[i].by # "assistant"
    <3>1. tokens[t] \in Seq(Tokens)
      BY DEF TypeOK
    <3>2. i \in 1..Len(toks) /\ toks[i].id = "image_pad"
      BY DEF Pads
    <3>3. PrefixLength + i \in 1..Len(tokens[t]) /\ toks[i] = tokens[t][PrefixLength + i]
      BY <3>1, <3>2, AfterPromptProperties
    <3>4. QED
      BY <3>2, <3>3 DEF PadsAreTools
  <2> HIDE DEF toks, bits, images
  <2>5. padless \in Seq({0, 1}) /\ Len(padless) = Len(toks)
    <3>1. \A i \in 1..Len(bits) : bits[i] \in {0, 1}
      BY <1>1
    <3>2. \A i \in 1..Len(bits) : (IF i \in Pads(toks) THEN 0 ELSE bits[i]) \in {0, 1}
      BY <3>1
    <3>3. QED
      BY <2>3, <3>2, IsASeq
  <2>6. ASSUME NEW i \in 1..Len(toks) PROVE <<toks[i], padless[i]>> \in Marked
    <3>1. CASE i \in Pads(toks)
      <4>1. padless[i] = 0 /\ toks[i].by # "assistant" /\ toks[i] \in Tokens
        BY <1>1, <2>3, <2>4, <3>1
      <4>2. QED
        BY <4>1 DEF Marked
    <3>2. CASE i \notin Pads(toks)
      <4>1. padless[i] = bits[i]
        BY <2>3, <3>2
      <4>2. QED
        BY <2>3, <4>1
    <3>3. QED
      BY <3>1, <3>2
  <2> HIDE DEF padless, r, s
  <2>7. /\ r \in Seq(Seq(Tokens)) /\ ArePieces(r, toks, toks, images)
    BY <1>1, <2>1, <2>2, PiecesType DEF r
  <2>8. /\ s \in Seq(Seq({0, 1})) /\ ArePieces(s, padless, toks, images)
    BY <1>1, <2>1, <2>2, <2>5, PiecesType DEF s
  <2>9. ASSUME NEW i \in 1..Len(r) PROVE Fits(Marked, r[i], s[i])
    <3> USE DEF ArePieces
    <3>1. CASE i \in Pads(toks)
      <4>1. Len(r[i]) = Len(s[i])
            /\ \A k \in 1..Len(r[i]) : r[i][k] = toks[i] /\ s[i][k] = padless[i]
        BY <2>7, <2>8, <3>1
      <4>2. QED
        BY <2>6, <2>7, <4>1 DEF Fits
    <3>2. CASE i \notin Pads(toks)
      <4>1. r[i] = <<toks[i]>> /\ s[i] = <<padless[i]>>
        BY <2>7, <2>8, <3>2
      <4>2. <<toks[i], padless[i]>> \in Marked
        BY <2>6, <2>7
      <4>3. QED
        BY <4>1, <4>2 DEF Fits
    <3>3. QED
      BY <3>1, <3>2
  <2>10. Len(r) # 0 /\ Len(r) = Len(s)
    BY <1>1, <2>1, <2>7, <2>8, EmptySeq DEF ArePieces
  <2>11. /\ FlattenSeq(r) \in Seq(Tokens) /\ FlattenSeq(s) \in Seq({0, 1})
         /\ Fits(Marked, FlattenSeq(r), FlattenSeq(s))
    BY <2>7, <2>8, <2>9, <2>10, FlattenFits
  <2>12. QED
    BY <2>1, <2>11
<1>4. QED
  BY <1>2, <1>3

\* The row of t in the batch is in step with its mask.
Rebuilt(t) ==
  /\ response[t] \in Seq(Tokens) /\ responseMask[t] \in Seq({0, 1})
  /\ Fits(Marked, response[t], responseMask[t])

\* Who has been rebuilt.
RowsInStep ==
  /\ DOMAIN response = Traj /\ DOMAIN responseMask = Traj
  /\ pc = "rebuild" => \A t \in Traj \ left : Rebuilt(t)
  /\ pc = "done" => \A t \in Traj : Rebuilt(t)

\* The cut keeps a row in step.
LEMMA CutInStep ==
  ASSUME NEW x \in Seq(Tokens), NEW y \in Seq({0, 1}), Fits(Marked, x, y)
  PROVE  /\ Cut(x) \in Seq(Tokens) /\ Cut(y) \in Seq({0, 1})
         /\ Fits(Marked, Cut(x), Cut(y))
<1> DEFINE n == ResponseLengthTotal
<1>1. n \in Nat /\ Len(x) \in Nat /\ Len(x) = Len(y)
      /\ \A i \in 1..Len(x) : <<x[i], y[i]>> \in Marked
  BY ConstantsAssumption DEF Fits
<1>2. CASE ~(Len(x) > n)
  BY <1>1, <1>2 DEF Cut
<1>3. CASE Len(x) > n
  <2>1. \A i \in 1..n : x[i] \in Tokens /\ y[i] \in {0, 1} /\ i \in 1..Len(x)
    BY <1>1, <1>3
  <2>2. /\ SubSeq(x, 1, n) \in Seq(Tokens)
        /\ Len(SubSeq(x, 1, n)) = IF 1 <= n THEN n - 1 + 1 ELSE 0
        /\ \A i \in 1..(n - 1 + 1) : SubSeq(x, 1, n)[i] = x[1 + i - 1]
    <3> HIDE DEF n
    <3> QED
      BY <1>1, <2>1, SubSeqProperties
  <2>3. /\ SubSeq(y, 1, n) \in Seq({0, 1})
        /\ Len(SubSeq(y, 1, n)) = IF 1 <= n THEN n - 1 + 1 ELSE 0
        /\ \A i \in 1..(n - 1 + 1) : SubSeq(y, 1, n)[i] = y[1 + i - 1]
    <3> HIDE DEF n
    <3> QED
      BY <1>1, <2>1, SubSeqProperties
  <2> DEFINE u == SubSeq(x, 1, n)
             v == SubSeq(y, 1, n)
  <2>4. Cut(x) = u /\ Cut(y) = v
    BY <1>1, <1>3 DEF Cut
  <2> HIDE DEF u, v, n
  <2>5. Len(u) = n /\ Len(v) = n /\ \A i \in 1..n : u[i] = x[i] /\ v[i] = y[i]
    <3>1. \A i \in 1..n : i \in 1..(n - 1 + 1) /\ 1 + i - 1 = i
      BY <1>1
    <3>2. QED
      BY <1>1, <2>2, <2>3, <3>1 DEF u, v
  <2>6. Fits(Marked, u, v)
    BY <1>1, <2>1, <2>5 DEF Fits
  <2>7. QED
    BY <2>2, <2>3, <2>4, <2>6 DEF u, v
<1>4. QED
  BY <1>2, <1>3

\* Rebuilding and cutting keep the rows in step, and no other step writes them.
LEMMA RowsInStepStep ==
  ASSUME TypeOK, MaskMatchesAuthor, \A t \in Traj : PadsAreTools(t), RowsInStep, [Next]_vars
  PROVE  RowsInStep'
<1>1. ASSUME UNCHANGED batch, pc' \notin {"rebuild", "done"} PROVE RowsInStep'
  BY <1>1 DEF RowsInStep, batch
<1>2. CASE StopGenerating
  BY <1>2 DEF StopGenerating, RowsInStep, batch
<1>3. CASE ReturnBatch
  <2>1. /\ pc = "rebuild" /\ left = {} /\ pc' = "done"
        /\ response' = [t \in Traj |-> Cut(response[t])]
        /\ responseMask' = [t \in Traj |-> Cut(responseMask[t])]
    BY <1>3 DEF ReturnBatch
  <2>2. ASSUME NEW t \in Traj PROVE Rebuilt(t)'
    <3>1. Rebuilt(t)
      BY <2>1 DEF RowsInStep
    <3>2. /\ Cut(response[t]) \in Seq(Tokens) /\ Cut(responseMask[t]) \in Seq({0, 1})
          /\ Fits(Marked, Cut(response[t]), Cut(responseMask[t]))
      BY <3>1, CutInStep DEF Rebuilt
    <3>3. response'[t] = Cut(response[t]) /\ responseMask'[t] = Cut(responseMask[t])
      BY <2>1
    <3>4. QED
      BY <3>2, <3>3 DEF Rebuilt
  <2>3. QED
    BY <2>1, <2>2 DEF RowsInStep
<1>4. ASSUME NEW t \in Traj, Rebuild(t) PROVE RowsInStep'
  <2>1. CASE CannotRebuild(t)
    BY <1>4, <2>1 DEF Rebuild, RowsInStep
  <2>2. CASE ~CannotRebuild(t)
    <3>1. /\ pc = "rebuild" /\ pc' = "rebuild" /\ left' = left \ {t}
          /\ response' = [response EXCEPT ![t] = RebuiltTokens(t)]
          /\ responseMask' = [responseMask EXCEPT ![t] = RebuiltMask(t)]
      BY <1>4, <2>2 DEF Rebuild
    <3>2. /\ DOMAIN response' = Traj /\ DOMAIN responseMask' = Traj
          /\ response'[t] = RebuiltTokens(t) /\ responseMask'[t] = RebuiltMask(t)
          /\ \A u \in Traj \ {t} :
               response'[u] = response[u] /\ responseMask'[u] = responseMask[u]
      BY <3>1 DEF RowsInStep
    <3>3. Rebuilt(t)'
      BY <2>2, <3>2, RebuiltInStep DEF Rebuilt
    <3>4. ASSUME NEW u \in Traj \ left', u # t PROVE Rebuilt(u)'
      BY <3>1, <3>2, <3>4 DEF RowsInStep, Rebuilt
    <3>5. QED
      BY <3>1, <3>2, <3>3, <3>4 DEF RowsInStep
  <2>3. QED
    BY <2>1, <2>2
<1>5. ASSUME NEW t \in Traj, Pool(t) \/ EmptyOutput(t) \/ ProcessResult(t)
      PROVE  RowsInStep'
  BY <1>1, <1>5 DEF Pool, StartCall, FinishCall, EmptyOutput, ProcessResult, control
<1>6. ASSUME NEW t \in Traj, NEW out \in Outputs, Trigger(t, out) PROVE RowsInStep'
  BY <1>1, <1>6 DEF Trigger
<1>7. CASE StartRound \/ SubmitCalls \/ CollectResults \/ EndRound
  BY <1>1, <1>7 DEF StartRound, SubmitCalls, CollectResults, EndRound
<1>8. CASE UNCHANGED vars
  BY <1>8 DEF vars, control, batch, RowsInStep, Rebuilt
<1>9. QED
  BY <1>2, <1>3, <1>4, <1>5, <1>6, <1>7, <1>8 DEF Next, Main, Terminating

\* In the batch the response mask marks exactly the tokens the model wrote, for
\* any number of images of any size and wherever response_length_total cuts.
THEOREM ResponseMaskCorrect ==
  ASSUME NoPadsSampled
  PROVE  Spec => []ResponseMaskMatchesAuthor
<1> DEFINE Inv == (\A t \in Traj : PadsAreTools(t)) /\ RowsInStep
<1>1. Init => Inv
  <2> SUFFICES ASSUME Init PROVE Inv
    OBVIOUS
  <2>1. \A t \in Traj : PadsAreTools(t)
    BY ConstantsAssumption DEF Init, PadsAreTools
  <2>2. QED
    BY <2>1 DEF Init, RowsInStep
<1>2. TypeOK /\ MaskMatchesAuthor /\ Inv /\ [Next]_vars => Inv'
  BY PadsAreToolsStep, RowsInStepStep
<1>3. Inv => ResponseMaskMatchesAuthor
  <2> SUFFICES ASSUME RowsInStep, pc = "done", NEW t \in Traj
               PROVE  /\ Len(responseMask[t]) = Len(response[t])
                      /\ \A i \in 1..Len(response[t]) :
                           responseMask[t][i] = 1 <=> response[t][i].by = "assistant"
    BY DEF ResponseMaskMatchesAuthor
  <2>1. Fits(Marked, response[t], responseMask[t])
    BY DEF RowsInStep, Rebuilt
  <2>2. QED
    BY <2>1 DEF Fits, Marked
<1>4. QED
  BY <1>1, <1>2, <1>3, TypeCorrect, MaskCorrect, PTL DEF Spec

---------------------------------------------------------------------------
\* The attention mask of the batch

\* im_end is an end-of-sequence id of the engine, which stops at it.
StopsAtEnd ==
  \A out \in Outputs : EndsTurn(out) => out.ids[Len(out.ids)] = "im_end"

Assistants == {x \in Tokens : x.by = "assistant"}
Ends == {x \in Tokens : x.id = "im_end"}

\* Unless it met max_model_len, each turn of the model in the conversation of t
\* ends with an im_end.
TurnsEnd(t) == Len(tokens[t]) < MaxModelLen => IsClosed(tokens[t], Assistants, Ends)

\* An output that did not end its turn gets an im_end, the others end with one.
LEMMA FilteredEnds ==
  ASSUME StopsAtEnd, NEW out \in Outputs, out.ids # <<>>
  PROVE  Filtered(out)[Len(Filtered(out))] = "im_end"
<1>1. out.ids \in Seq(TokenIds) /\ Len(out.ids) \in Nat /\ Len(out.ids) > 0
  <2>1. out.ids \in Seq(TokenIds)
    BY ToolsAssumption
  <2>2. QED
    BY <2>1, EmptySeq
<1>2. CASE EndsTurn(out)
  BY <1>2 DEF Filtered, StopsAtEnd
<1>3. CASE ~EndsTurn(out)
  <2> DEFINE ids == out.ids
             cut == [ids EXCEPT ![Len(ids)] = "im_end"]
  <2>1. Filtered(out) = cut
    BY <1>3 DEF Filtered
  <2>2. Len(cut) = Len(ids) /\ cut[Len(ids)] = "im_end"
    <3> HIDE DEF ids
    <3> QED
      BY <1>1 DEF ids
  <2>3. QED
    BY <2>1, <2>2
<1>4. QED
  BY <1>2, <1>3

\* A turn that ends with im_end closes what is before it.
LEMMA ModelTurnEnds ==
  ASSUME NEW toks2, NEW toks \in Seq(Tokens), NEW ids \in Seq(TokenIds), NEW n,
         NEW by \in {"prompt", "assistant", "tool"}, NEW owner \in Owners,
         TurnAppended(toks2, toks, ids, n, by, owner),
         Len(toks2) < MaxModelLen, Len(ids) > 0, ids[Len(ids)] = "im_end"
  PROVE  IsClosed(toks2, Assistants, Ends)
<1>1. /\ Len(toks) \in Nat /\ Len(ids) \in Nat /\ MaxModelLen \in Nat
      /\ Len(toks2) = Len(toks) + n /\ n \in 0..Len(ids)
  BY ConstantsAssumption DEF TurnAppended
<1>2. n = Len(ids)
  BY <1>1 DEF TurnAppended
<1>3. toks2[Len(toks) + n] = [id |-> ids[n], by |-> by, owner |-> owner]
  <2>1. n \in 1..n
    BY <1>1, <1>2
  <2>2. QED
    BY <2>1 DEF TurnAppended
<1>4. toks2[Len(toks2)] \in Ends
  <2>1. toks2[Len(toks2)] = [id |-> "im_end", by |-> by, owner |-> owner]
    BY <1>1, <1>2, <1>3
  <2>2. QED
    BY <2>1 DEF Ends, Tokens
<1>5. \A i \in 1..Len(toks2) : Len(toks2) \in i..Len(toks2)
  BY <1>1
<1>6. QED
  BY <1>4, <1>5 DEF IsClosed

\* A turn of a tool leaves closed what was closed.
LEMMA ToolTurnEnds ==
  ASSUME NEW toks2, NEW toks \in Seq(Tokens), NEW ids \in Seq(TokenIds), NEW n,
         NEW owner, TurnAppended(toks2, toks, ids, n, "tool", owner),
         IsClosed(toks, Assistants, Ends)
  PROVE  IsClosed(toks2, Assistants, Ends)
<1>1. SUFFICES ASSUME NEW i \in 1..Len(toks2), toks2[i] \in Assistants
               PROVE  \E j \in i..Len(toks2) : toks2[j] \in Ends
  BY DEF IsClosed
<1>2. /\ Len(toks) \in Nat /\ Len(ids) \in Nat
      /\ Len(toks2) = Len(toks) + n /\ n \in 0..Len(ids)
      /\ \A k \in 1..Len(toks) : toks2[k] = toks[k]
  BY DEF TurnAppended
<1>3. i \in 1..Len(toks) /\ toks2[i] = toks[i]
  <2>1. WasOrNew(toks2, toks, ids, n, "tool", owner, i)
    BY TurnElements
  <2>2. toks2[i].by = "assistant"
    BY <1>1 DEF Assistants
  <2>3. ASSUME NEW k, toks2[i] = [id |-> ids[k], by |-> "tool", owner |-> owner]
        PROVE  FALSE
    <3>1. toks2[i].by = "tool"
      BY <2>3
    <3>2. QED
      BY <2>2, <3>1
  <2>4. QED
    BY <2>1, <2>3 DEF WasOrNew
<1>4. PICK j \in i..Len(toks) : toks[j] \in Ends
  BY <1>1, <1>3 DEF IsClosed
<1>5. j \in i..Len(toks2) /\ toks2[j] = toks[j]
  BY <1>2, <1>3, <1>4
<1>6. QED
  BY <1>4, <1>5

\* A turn of the model ends with im_end, and one of a tool opens none.
LEMMA TurnsEndStep ==
  ASSUME StopsAtEnd, TypeOK, \A t \in Traj : TurnsEnd(t), [Next]_vars, NEW u \in Traj
  PROVE  TurnsEnd(u)'
<1>1. ASSUME UNCHANGED <<tokens, searchImages>> PROVE TurnsEnd(u)'
  BY <1>1 DEF TurnsEnd
<1>2. ASSUME NEW t \in Traj, OthersStay(t), u # t PROVE TurnsEnd(u)'
  BY <1>2 DEF TurnsEnd, OthersStay
<1>3. tokens[u] \in Seq(Tokens)
  BY DEF TypeOK
<1>4. ASSUME NEW toks2, tokens'[u] = toks2,
             Len(toks2) < MaxModelLen => IsClosed(toks2, Assistants, Ends)
      PROVE  TurnsEnd(u)'
  BY <1>4 DEF TurnsEnd
<1>5. ASSUME ModelTurn(u) PROVE TurnsEnd(u)'
  <2> DEFINE toks2 == tokens'[u]
             toks == tokens[u]
  <2>1. PICK out \in Outputs, n \in Nat :
          /\ out.ids # <<>>
          /\ TurnAppended(toks2, toks, Filtered(out), n, "assistant", OwnOwner(u))
    BY <1>5 DEF ModelTurn
  <2> DEFINE ids == Filtered(out)
  <2>2. /\ ids \in Seq(TokenIds) /\ Len(ids) > 0 /\ OwnOwner(u) \in Owners
        /\ ids[Len(ids)] = "im_end"
    BY <2>1, FilteredProperties, FilteredEnds, OwnersAreOwners
  <2>3. Len(toks2) < MaxModelLen => IsClosed(toks2, Assistants, Ends)
    <3>1. TurnAppended(toks2, toks, ids, n, "assistant", OwnOwner(u))
      BY <2>1
    <3> HIDE DEF toks2, toks, ids
    <3>2. QED
      BY <1>3, <2>2, <3>1, ModelTurnEnds DEF toks
  <2>4. QED
    BY <1>4, <2>3
<1>6. ASSUME ToolTurn(u) PROVE TurnsEnd(u)'
  <2> DEFINE toks2 == tokens'[u]
             toks == tokens[u]
             ids == UserTurn(future[u].result)
             owner == future[u].owner
  <2>1. PICK n \in Nat : TurnAppended(toks2, toks, ids, n, "tool", owner)
    BY <1>6 DEF ToolTurn
  <2>2. ids \in Seq(TokenIds)
    BY UserTurnType DEF TypeOK, Futures
  <2>3. Len(toks2) < MaxModelLen => Len(toks) < MaxModelLen
    <3> HIDE DEF toks2, toks, ids, owner
    <3>1. /\ Len(toks) \in Nat /\ MaxModelLen \in Nat /\ Len(ids) \in Nat
          /\ Len(toks2) = Len(toks) + n /\ n \in 0..Len(ids)
      BY <1>3, <2>1, <2>2, ConstantsAssumption DEF TurnAppended, toks
    <3>2. QED
      BY <3>1
  <2>4. Len(toks2) < MaxModelLen => IsClosed(toks2, Assistants, Ends)
    <3>1. Len(toks) < MaxModelLen => IsClosed(toks, Assistants, Ends)
      BY DEF TurnsEnd
    <3> HIDE DEF toks2, toks, ids, owner
    <3>2. QED
      BY <1>3, <2>1, <2>2, <2>3, <3>1, ToolTurnEnds DEF toks
  <2>5. QED
    BY <1>4, <2>4
<1>7. QED
  BY <1>1, <1>2, <1>5, <1>6, OnlyTurns

\* What is closed in the conversation is closed in the rebuilt response: an im_end
\* is no image_pad and stays one token.
LEMMA RebuiltClosed ==
  ASSUME TypeOK, NEW t \in Traj, ~CannotRebuild(t),
         IsClosed(tokens[t], Assistants, Ends)
  PROVE  IsClosed(RebuiltTokens(t), Assistants, Ends)
<1> DEFINE toks == AfterPrompt(tokens[t])
           images == searchImages[t]
<1>1. /\ tokens[t] \in Seq(Tokens) /\ images \in Seq(Images)
      /\ Len(tokens[t]) \in Nat /\ PrefixLength \in Nat
  BY ConstantsAssumption DEF TypeOK
<1>2. /\ toks \in Seq(Tokens)
      /\ Len(toks) = IF PrefixLength < Len(tokens[t]) THEN Len(tokens[t]) - PrefixLength ELSE 0
      /\ \A i \in 1..Len(toks) :
           PrefixLength + i \in 1..Len(tokens[t]) /\ toks[i] = tokens[t][PrefixLength + i]
  BY <1>1, AfterPromptProperties
<1> HIDE DEF toks
<1>3. ASSUME NEW i \in 1..Len(toks), toks[i] \in Assistants
      PROVE  \E j \in i..Len(toks) : toks[j] \in Ends
  <2>1. PICK j \in (PrefixLength + i)..Len(tokens[t]) : tokens[t][j] \in Ends
    BY <1>2, <1>3 DEF IsClosed
  <2>2. j - PrefixLength \in i..Len(toks) /\ PrefixLength + (j - PrefixLength) = j
    BY <1>1, <1>2, <2>1
  <2>3. toks[j - PrefixLength] = tokens[t][j]
    <3>1. j - PrefixLength \in 1..Len(toks)
      BY <2>2
    <3>2. QED
      BY <1>2, <2>2, <3>1
  <2>4. QED
    BY <2>1, <2>2, <2>3
<1>4. CASE images = <<>>
  BY <1>3, <1>4 DEF RebuiltTokens, IsClosed, toks
<1>5. CASE images # <<>>
  <2> DEFINE s == Pieces(toks, toks, images)
  <2>1. /\ RebuiltTokens(t) = FlattenSeq(s)
        /\ Cardinality(Pads(toks)) <= Len(images) /\ toks # <<>>
    BY <1>5, PadsOfRebuilt DEF toks, RebuiltTokens, Expanded, Pieces
  <2> HIDE DEF images, s
  <2>2. s \in Seq(Seq(Tokens)) /\ ArePieces(s, toks, toks, images)
    BY <1>1, <1>2, <2>1, PiecesType DEF s
  <2>3. Len(s) = Len(toks) /\ Len(s) # 0
    BY <1>2, <2>1, <2>2, EmptySeq DEF ArePieces
  <2>4. ASSUME NEW i \in 1..Len(s), NEW k \in 1..Len(s[i]), s[i][k] \in Assistants
        PROVE  \E j \in i..Len(s) : EndsIn(s[j], Ends)
    <3>1. s[i][k] = toks[i]
      <4>1. CASE i \in Pads(toks)
        BY <2>2, <2>3, <2>4, <4>1 DEF ArePieces
      <4>2. CASE i \notin Pads(toks)
        <5>1. s[i] = <<toks[i]>>
          BY <2>2, <2>3, <4>2 DEF ArePieces
        <5>2. k = 1
          BY <2>4, <5>1
        <5>3. QED
          BY <5>1, <5>2
      <4>3. QED
        BY <4>1, <4>2
    <3>2. PICK j \in i..Len(toks) : toks[j] \in Ends
      BY <1>3, <2>3, <2>4, <3>1
    <3>3. j \in 1..Len(toks) /\ j \notin Pads(toks)
      BY <1>2, <2>3, <3>2 DEF Pads, Ends
    <3>4. s[j] = <<toks[j]>>
      BY <2>2, <3>3 DEF ArePieces
    <3>5. EndsIn(s[j], Ends)
      BY <3>2, <3>4 DEF EndsIn
    <3>6. QED
      BY <2>3, <3>2, <3>5
  <2>5. IsClosed(FlattenSeq(s), Assistants, Ends)
    BY <2>2, <2>3, <2>4, FlattenClosed
  <2>6. QED
    BY <2>1, <2>5
<1>6. QED
  BY <1>4, <1>5

\* Rows that were not cut are closed.
RowsClosed ==
  /\ pc = "rebuild" => \A t \in Traj \ left :
       Len(tokens[t]) < MaxModelLen => IsClosed(response[t], Assistants, Ends)
  /\ pc = "done" => \A t \in Traj : Uncut(t) => IsClosed(response[t], Assistants, Ends)

\* What the cut leaves shorter than response_length_total it leaves alone.
LEMMA ShortIsUncut ==
  ASSUME NEW x \in Seq(Tokens), Len(Cut(x)) < ResponseLengthTotal
  PROVE  Cut(x) = x
<1>1. ResponseLengthTotal \in Nat /\ Len(x) \in Nat
  BY ConstantsAssumption
<1>2. CASE Len(x) > ResponseLengthTotal
  <2> DEFINE n == ResponseLengthTotal
  <2>1. \A i \in 1..n : x[i] \in Tokens
    BY <1>1, <1>2
  <2>2. Len(SubSeq(x, 1, n)) = IF 1 <= n THEN n - 1 + 1 ELSE 0
    <3> HIDE DEF n
    <3>1. n \in Int
      BY <1>1 DEF n
    <3>2. QED
      BY <2>1, <3>1, SubSeqProperties
  <2>3. Len(Cut(x)) = n
    BY <1>1, <1>2, <2>2 DEF Cut
  <2>4. QED
    BY <1>1, <2>3
<1>3. QED
  BY <1>2 DEF Cut

\* Rebuilding keeps a row closed, and the cut leaves alone the rows shorter than it.
LEMMA RowsClosedStep ==
  ASSUME TypeOK, \A t \in Traj : TurnsEnd(t), RowsInStep, RowsClosed, [Next]_vars
  PROVE  RowsClosed'
<1>1. ASSUME pc' \notin {"rebuild", "done"} PROVE RowsClosed'
  BY <1>1 DEF RowsClosed
<1>2. CASE StopGenerating
  BY <1>2 DEF StopGenerating, RowsClosed
<1>3. CASE ReturnBatch
  <2>1. /\ pc = "rebuild" /\ left = {} /\ pc' = "done" /\ UNCHANGED tokens
        /\ response' = [t \in Traj |-> Cut(response[t])]
    BY <1>3 DEF ReturnBatch, conversation
  <2>2. ASSUME NEW t \in Traj, Uncut(t)'
        PROVE  IsClosed(response'[t], Assistants, Ends)
    <3>1. response[t] \in Seq(Tokens)
      BY <2>1 DEF RowsInStep, Rebuilt
    <3>2. Len(tokens[t]) < MaxModelLen /\ response'[t] = Cut(response[t])
          /\ Len(Cut(response[t])) < ResponseLengthTotal
      BY <2>1, <2>2 DEF Uncut
    <3>3. response'[t] = response[t]
      BY <3>1, <3>2, ShortIsUncut
    <3>4. QED
      BY <2>1, <3>2, <3>3 DEF RowsClosed
  <2>3. QED
    BY <2>1, <2>2 DEF RowsClosed
<1>4. ASSUME NEW t \in Traj, Rebuild(t) PROVE RowsClosed'
  <2>1. CASE CannotRebuild(t)
    BY <1>4, <2>1 DEF Rebuild, RowsClosed
  <2>2. CASE ~CannotRebuild(t)
    <3>1. /\ pc = "rebuild" /\ pc' = "rebuild" /\ left' = left \ {t} /\ UNCHANGED tokens
          /\ response' = [response EXCEPT ![t] = RebuiltTokens(t)]
      BY <1>4, <2>2 DEF Rebuild, conversation
    <3>2. /\ response'[t] = RebuiltTokens(t)
          /\ \A u \in Traj \ {t} : response'[u] = response[u]
      BY <3>1 DEF RowsInStep
    <3>3. Len(tokens[t]) < MaxModelLen => IsClosed(response'[t], Assistants, Ends)
      BY <2>2, <3>2, RebuiltClosed DEF TurnsEnd
    <3>4. ASSUME NEW u \in Traj \ left', u # t
          PROVE  Len(tokens[u]) < MaxModelLen => IsClosed(response'[u], Assistants, Ends)
      BY <3>1, <3>2, <3>4 DEF RowsClosed
    <3>5. QED
      BY <3>1, <3>3, <3>4 DEF RowsClosed
  <2>3. QED
    BY <2>1, <2>2
<1>5. ASSUME NEW t \in Traj, Pool(t) \/ EmptyOutput(t) \/ ProcessResult(t)
      PROVE  RowsClosed'
  BY <1>1, <1>5 DEF Pool, StartCall, FinishCall, EmptyOutput, ProcessResult, control
<1>6. ASSUME NEW t \in Traj, NEW out \in Outputs, Trigger(t, out) PROVE RowsClosed'
  BY <1>1, <1>6 DEF Trigger
<1>7. CASE StartRound \/ SubmitCalls \/ CollectResults \/ EndRound
  BY <1>1, <1>7 DEF StartRound, SubmitCalls, CollectResults, EndRound
<1>8. CASE UNCHANGED vars
  BY <1>8 DEF vars, control, batch, conversation, RowsClosed, Uncut
<1>9. QED
  BY <1>2, <1>3, <1>4, <1>5, <1>6, <1>7, <1>8 DEF Next, Main, Terminating

\* Every token that the mask gives to the model is attended in the attention mask
\* of the batch, whatever the tools return, unless the response was cut.
THEOREM AttendedCorrect ==
  ASSUME NoPadsSampled, StopsAtEnd
  PROVE  Spec => []MarkedTokensAttended
<1> DEFINE Inv == /\ \A t \in Traj : PadsAreTools(t) /\ TurnsEnd(t)
                  /\ RowsInStep /\ RowsClosed
<1>1. Init => Inv
  <2> SUFFICES ASSUME Init PROVE Inv
    OBVIOUS
  <2>1. \A t \in Traj : PadsAreTools(t) /\ TurnsEnd(t)
    BY ConstantsAssumption DEF Init, PadsAreTools, TurnsEnd, IsClosed, Assistants
  <2>2. QED
    BY <2>1 DEF Init, RowsInStep, RowsClosed
<1>2. TypeOK /\ MaskMatchesAuthor /\ Inv /\ [Next]_vars => Inv'
  <2> SUFFICES ASSUME TypeOK, MaskMatchesAuthor, Inv, [Next]_vars PROVE Inv'
    OBVIOUS
  <2>1. \A t \in Traj : PadsAreTools(t)' /\ TurnsEnd(t)'
    BY PadsAreToolsStep, TurnsEndStep
  <2>2. RowsInStep' /\ RowsClosed'
    BY RowsInStepStep, RowsClosedStep
  <2>3. QED
    BY <2>1, <2>2
<1>3. Inv => MarkedTokensAttended
  <2> SUFFICES ASSUME Inv, pc = "done", NEW t \in Traj, Uncut(t),
                      NEW i \in 1..Len(response[t]), responseMask[t][i] = 1
               PROVE  i \in Attended(response[t])
    BY DEF MarkedTokensAttended, MarksAttended
  <2>1. /\ Fits(Marked, response[t], responseMask[t])
        /\ IsClosed(response[t], Assistants, Ends)
    BY DEF RowsInStep, Rebuilt, RowsClosed
  <2>2. response[t][i] \in Assistants
    BY <2>1 DEF Fits, Marked, Assistants
  <2>3. PICK j \in i..Len(response[t]) : response[t][j] \in Ends
    BY <2>1, <2>2 DEF IsClosed
  <2>4. QED
    BY <2>3 DEF Attended, Ends
<1>4. QED
  BY <1>1, <1>2, <1>3, TypeCorrect, MaskCorrect, PTL DEF Spec

---------------------------------------------------------------------------
\* The images of the batch

\* Each result has an image_pad for each of its images.
PadsPerImage ==
  \A r \in TextResults \cup ImageResults :
    Cardinality({i \in 1..Len(r.ids) : r.ids[i] = "image_pad"}) = Len(r.grids)

PadIds(ids) == {i \in 1..Len(ids) : ids[i] = "image_pad"}

\* A future that is done holds what a tool has returned; when results are processed,
\* all are.
FuturesReturned ==
  /\ \A t \in Traj :
       future[t].state = "done" => future[t].result \in TextResults \cup ImageResults
  /\ pc = "process" => \A t \in toGenerate : future[t].state = "done"

\* Only the end of a call sets a result, and the results are read when all are in.
LEMMA FuturesReturnedStep ==
  ASSUME TypeOK, FuturesReturned, [Next]_vars
  PROVE  FuturesReturned'
<1>1. ASSUME UNCHANGED future,
             pc' = "process" => \A t \in toGenerate' : future'[t].state = "done"
      PROVE  FuturesReturned'
  BY <1>1 DEF FuturesReturned
<1>2. CASE SubmitCalls
  <2>1. pc' = "call" /\ \A t \in Traj : future'[t].state # "done"
    BY <1>2 DEF SubmitCalls, Idle
  <2>2. QED
    BY <2>1 DEF FuturesReturned
<1>3. ASSUME NEW t \in Traj, StartCall(t) PROVE FuturesReturned'
  <2>1. future' = [future EXCEPT ![t].state = "running"] /\ pc' = "call"
    BY <1>3 DEF StartCall, control
  <2>2. future'[t].state = "running" /\ \A u \in Traj \ {t} : future'[u] = future[u]
    BY <2>1 DEF TypeOK, Futures
  <2>3. QED
    BY <2>1, <2>2 DEF FuturesReturned
<1>4. ASSUME NEW t \in Traj, NEW result \in ResultsOf(t), FinishCall(t, result)
      PROVE  FuturesReturned'
  <2>0. pc' # "process"
    BY <1>4 DEF FinishCall
  <2>1. CASE UNCHANGED future
    BY <1>1, <2>0, <2>1
  <2>2. CASE future' = [future EXCEPT ![t] = AfterCall(t, result)]
    <3>1. /\ future'[t] = Finished(t, result)
          /\ \A u \in Traj \ {t} : future'[u] = future[u]
      BY <2>2 DEF TypeOK, AfterCall
    <3>2. future'[t].result \in TextResults \cup ImageResults
      BY <1>4, <3>1 DEF Finished, ResultsOf
    <3>3. QED
      BY <2>0, <3>1, <3>2 DEF FuturesReturned
  <2>3. QED
    BY <1>4, <2>1, <2>2 DEF FinishCall
<1>5. ASSUME NEW t \in Traj, EmptyOutput(t) \/ ProcessResult(t) \/ Rebuild(t)
      PROVE  FuturesReturned'
  BY <1>1, <1>5 DEF EmptyOutput, ProcessResult, Rebuild, calls, FuturesReturned
<1>6. ASSUME NEW t \in Traj, NEW out \in Outputs, Trigger(t, out) PROVE FuturesReturned'
  BY <1>1, <1>6 DEF Trigger
<1>7. CASE StartRound \/ EndRound \/ StopGenerating \/ ReturnBatch
  BY <1>1, <1>7 DEF StartRound, EndRound, StopGenerating, ReturnBatch, calls
<1>8. CASE CollectResults
  BY <1>1, <1>8 DEF CollectResults, AllDone, calls
<1>9. CASE UNCHANGED vars
  BY <1>1, <1>9 DEF vars, control, calls, FuturesReturned
<1>10. QED
  BY <1>2, <1>3, <1>4, <1>5, <1>6, <1>7, <1>8, <1>9 DEF Next, Main, Pool, Terminating

\* Unless it met max_model_len, the conversation of t has as many image_pads as
\* images, and none of them in the prompt.
ImagesPlaced(t) ==
  /\ PrefixLength <= Len(tokens[t])
  /\ \A i \in 1..PrefixLength : tokens[t][i].id # "image_pad"
  /\ Len(tokens[t]) < MaxModelLen => Cardinality(Pads(tokens[t])) = Len(searchImages[t])

\* A whole turn adds the image_pads among its ids.
LEMMA TurnPads ==
  ASSUME NEW toks2, NEW toks \in Seq(Tokens), NEW ids \in Seq(TokenIds), NEW n,
         NEW by, NEW owner, TurnAppended(toks2, toks, ids, n, by, owner),
         Len(toks2) < MaxModelLen
  PROVE  /\ Len(toks) < MaxModelLen
         /\ Cardinality(Pads(toks)) \in Nat /\ Cardinality(PadIds(ids)) \in Nat
         /\ Cardinality(Pads(toks2)) = Cardinality(Pads(toks)) + Cardinality(PadIds(ids))
<1>1. /\ Len(toks) \in Nat /\ Len(ids) \in Nat /\ MaxModelLen \in Nat
      /\ Len(toks2) = Len(toks) + n /\ n \in 0..Len(ids)
  BY ConstantsAssumption DEF TurnAppended
<1>2. n = Len(ids) /\ Len(toks) < MaxModelLen
  BY <1>1 DEF TurnAppended
<1>3. /\ Pads(toks) \in SUBSET (1..Len(toks)) /\ PadIds(ids) \in SUBSET (1..Len(ids))
      /\ Pads(toks2) \in SUBSET (1..(Len(toks) + Len(ids)))
  BY <1>1, <1>2 DEF Pads, PadIds
<1>4. ASSUME NEW i \in 1..Len(toks) PROVE i \in Pads(toks2) <=> i \in Pads(toks)
  <2>1. toks2[i] = toks[i] /\ i \in 1..Len(toks2)
    BY <1>1 DEF TurnAppended
  <2>2. QED
    BY <2>1 DEF Pads
<1>5. ASSUME NEW i \in 1..Len(ids) PROVE Len(toks) + i \in Pads(toks2) <=> i \in PadIds(ids)
  <2>1. toks2[Len(toks) + i] = [id |-> ids[i], by |-> by, owner |-> owner]
        /\ Len(toks) + i \in 1..Len(toks2)
    BY <1>1, <1>2 DEF TurnAppended
  <2>2. QED
    BY <2>1 DEF Pads, PadIds
<1>6. IsSplit(Len(toks), Len(ids), Pads(toks), PadIds(ids), Pads(toks2))
  BY <1>1, <1>3, <1>4, <1>5 DEF IsSplit
<1>7. QED
  BY <1>2, <1>6, CountSplit

\* The header and the end of a tool's turn have none.
LEMMA UserTurnPads ==
  ASSUME NEW result \in Results
  PROVE  Cardinality(PadIds(UserTurn(result))) = Cardinality(PadIds(result.ids))
<1> DEFINE x == <<"text">>
           y == result.ids
           z == <<"im_end", "text">>
           xy == x \o y
           all == xy \o z
<1>1. x \in Seq(TokenIds) /\ y \in Seq(TokenIds) /\ z \in Seq(TokenIds)
      /\ Len(x) = 1 /\ Len(z) = 2 /\ Len(y) \in Nat
      /\ x[1] = "text" /\ z[1] = "im_end" /\ z[2] = "text"
  <2>1. y \in Seq(TokenIds)
    BY DEF Results
  <2>2. Len(y) \in Nat
    <3> HIDE DEF y
    <3> QED
      BY <2>1
  <2>3. <<"text">> \in Seq(TokenIds) /\ <<"im_end", "text">> \in Seq(TokenIds)
    BY DEF TokenIds
  <2>4. /\ Len(<<"text">>) = 1 /\ Len(<<"im_end", "text">>) = 2 /\ <<"text">>[1] = "text"
        /\ <<"im_end", "text">>[1] = "im_end" /\ <<"im_end", "text">>[2] = "text"
    OBVIOUS
  <2>5. QED
    BY <2>1, <2>2, <2>3, <2>4
<1> HIDE DEF x, y, z
<1>2. /\ xy \in Seq(TokenIds) /\ Len(xy) = Len(x) + Len(y)
      /\ \A i \in 1..Len(x) + Len(y) : xy[i] = IF i <= Len(x) THEN x[i] ELSE y[i - Len(x)]
  BY <1>1, ConcatProperties
<1> HIDE DEF xy
<1>3. /\ all \in Seq(TokenIds) /\ Len(all) = Len(xy) + Len(z)
      /\ \A i \in 1..Len(xy) + Len(z) :
           all[i] = IF i <= Len(xy) THEN xy[i] ELSE z[i - Len(xy)]
  <2>1. xy \in Seq(TokenIds) /\ z \in Seq(TokenIds)
    BY <1>1, <1>2
  <2>2. QED
    BY <2>1, ConcatProperties
<1>4. UserTurn(result) = all
  BY DEF UserTurn, all, xy, x, y, z
<1> HIDE DEF all
<1>5. PadIds(x) = {} /\ PadIds(z) = {}
  <2>1. \A i \in 1..1 : i = 1
    OBVIOUS
  <2>2. \A i \in 1..2 : i = 1 \/ i = 2
    OBVIOUS
  <2>3. QED
    BY <1>1, <2>1, <2>2 DEF PadIds
<1>6. Cardinality({}) = 0
  BY FS_EmptySet
<1>7. Cardinality(PadIds(xy)) = Cardinality(PadIds(y)) /\ Cardinality(PadIds(y)) \in Nat
  <2>1. /\ PadIds(x) \in SUBSET (1..Len(x)) /\ PadIds(y) \in SUBSET (1..Len(y))
        /\ PadIds(xy) \in SUBSET (1..(Len(x) + Len(y)))
    BY <1>2 DEF PadIds
  <2>2. \A i \in 1..Len(x) : i \in PadIds(xy) <=> i \in PadIds(x)
    <3>1. SUFFICES ASSUME NEW i \in 1..Len(x) PROVE xy[i] = x[i] /\ i \in 1..Len(xy)
      BY DEF PadIds
    <3>2. QED
      BY <1>1, <1>2
  <2>3. \A i \in 1..Len(y) : Len(x) + i \in PadIds(xy) <=> i \in PadIds(y)
    <3>1. SUFFICES ASSUME NEW i \in 1..Len(y)
                   PROVE  xy[Len(x) + i] = y[i] /\ Len(x) + i \in 1..Len(xy)
      BY DEF PadIds
    <3>2. Len(x) + i \in 1..Len(x) + Len(y) /\ ~(Len(x) + i <= Len(x))
          /\ (Len(x) + i) - Len(x) = i
      BY <1>1
    <3>3. QED
      BY <1>2, <3>2
  <2>4. /\ Cardinality(PadIds(x)) \in Nat /\ Cardinality(PadIds(y)) \in Nat
        /\ Cardinality(PadIds(xy)) = Cardinality(PadIds(x)) + Cardinality(PadIds(y))
    <3>1. IsSplit(Len(x), Len(y), PadIds(x), PadIds(y), PadIds(xy))
      BY <1>1, <2>1, <2>2, <2>3 DEF IsSplit
    <3>2. QED
      BY <3>1, CountSplit
  <2>5. QED
    BY <1>5, <1>6, <2>4
<1>8. Cardinality(PadIds(all)) = Cardinality(PadIds(xy))
  <2>1. /\ PadIds(xy) \in SUBSET (1..Len(xy)) /\ PadIds(z) \in SUBSET (1..Len(z))
        /\ PadIds(all) \in SUBSET (1..(Len(xy) + Len(z))) /\ Len(xy) \in Nat
    BY <1>1, <1>2, <1>3 DEF PadIds
  <2>2. \A i \in 1..Len(xy) : i \in PadIds(all) <=> i \in PadIds(xy)
    <3>1. SUFFICES ASSUME NEW i \in 1..Len(xy) PROVE all[i] = xy[i] /\ i \in 1..Len(all)
      BY DEF PadIds
    <3>2. QED
      BY <1>1, <1>3, <2>1
  <2>3. \A i \in 1..Len(z) : Len(xy) + i \in PadIds(all) <=> i \in PadIds(z)
    <3>1. SUFFICES ASSUME NEW i \in 1..Len(z)
                   PROVE  all[Len(xy) + i] = z[i] /\ Len(xy) + i \in 1..Len(all)
      BY DEF PadIds
    <3>2. Len(xy) + i \in 1..Len(xy) + Len(z) /\ ~(Len(xy) + i <= Len(xy))
          /\ (Len(xy) + i) - Len(xy) = i
      BY <1>1, <2>1
    <3>3. QED
      BY <1>3, <3>2
  <2>4. /\ Cardinality(PadIds(xy)) \in Nat /\ Cardinality(PadIds(z)) \in Nat
        /\ Cardinality(PadIds(all)) = Cardinality(PadIds(xy)) + Cardinality(PadIds(z))
    <3>1. IsSplit(Len(xy), Len(z), PadIds(xy), PadIds(z), PadIds(all))
      BY <1>1, <2>1, <2>2, <2>3 DEF IsSplit
    <3>2. QED
      BY <3>1, CountSplit
  <2>5. QED
    BY <1>5, <1>6, <2>4
<1>9. QED
  BY <1>4, <1>7, <1>8 DEF y

\* The prompt stays where it is.
LEMMA TurnKeepsPrompt ==
  ASSUME NEW toks2, NEW toks \in Seq(Tokens), NEW ids \in Seq(TokenIds), NEW n,
         NEW by, NEW owner, TurnAppended(toks2, toks, ids, n, by, owner),
         PrefixLength <= Len(toks)
  PROVE  PrefixLength <= Len(toks2) /\ \A i \in 1..PrefixLength : toks2[i] = toks[i]
<1>1. /\ Len(toks) \in Nat /\ Len(ids) \in Nat /\ PrefixLength \in Nat
      /\ Len(toks2) = Len(toks) + n /\ n \in 0..Len(ids)
  BY ConstantsAssumption DEF TurnAppended
<1>2. QED
  BY <1>1 DEF TurnAppended

\* A turn of the model adds no image_pad; one of a tool adds one for each image it
\* returns, with the image.
LEMMA ImagesPlacedStep ==
  ASSUME NoPadsSampled, PadsPerImage, TypeOK, OwnInv, FuturesReturned,
         \A t \in Traj : ImagesPlaced(t), [Next]_vars, NEW u \in Traj
  PROVE  ImagesPlaced(u)'
<1>1. ASSUME UNCHANGED <<tokens, searchImages>> PROVE ImagesPlaced(u)'
  BY <1>1 DEF ImagesPlaced
<1>2. ASSUME NEW t \in Traj, OthersStay(t), u # t PROVE ImagesPlaced(u)'
  BY <1>2 DEF ImagesPlaced, OthersStay
<1> DEFINE toks == tokens[u]
           images == searchImages[u]
<1>3. /\ toks \in Seq(Tokens) /\ images \in Seq(Images)
      /\ PrefixLength <= Len(toks) /\ \A i \in 1..PrefixLength : toks[i].id # "image_pad"
      /\ Len(toks) < MaxModelLen => Cardinality(Pads(toks)) = Len(images)
  BY DEF TypeOK, ImagesPlaced
<1> HIDE DEF toks, images
<1>4. ASSUME NEW toks2, tokens'[u] = toks2, NEW images2, searchImages'[u] = images2,
             PrefixLength <= Len(toks2), \A i \in 1..PrefixLength : toks2[i] = toks[i],
             Len(toks2) < MaxModelLen => Cardinality(Pads(toks2)) = Len(images2)
      PROVE  ImagesPlaced(u)'
  BY <1>3, <1>4 DEF ImagesPlaced
<1>5. ASSUME ModelTurn(u) PROVE ImagesPlaced(u)'
  <2> DEFINE toks2 == tokens'[u]
  <2>1. PICK out \in Outputs, n \in Nat :
          /\ out.ids # <<>>
          /\ TurnAppended(toks2, toks, Filtered(out), n, "assistant", OwnOwner(u))
          /\ searchImages' = searchImages
    BY <1>5 DEF ModelTurn, toks
  <2> DEFINE ids == Filtered(out)
  <2>2. ids \in Seq(TokenIds)
    BY <2>1, FilteredProperties
  <2>3. Cardinality(PadIds(ids)) = 0
    <3>1. ASSUME NEW i \in 1..Len(ids) PROVE ids[i] # "image_pad"
      <4>1. Len(ids) = Len(out.ids) /\ (ids[i] = out.ids[i] \/ ids[i] = "im_end")
        BY <2>1, FilteredIds
      <4>2. QED
        BY <4>1 DEF NoPadsSampled
    <3>2. PadIds(ids) = {}
      BY <3>1 DEF PadIds
    <3>3. QED
      BY <3>2, FS_EmptySet
  <2>4. TurnAppended(toks2, toks, ids, n, "assistant", OwnOwner(u))
    BY <2>1
  <2>5. searchImages'[u] = images
    BY <2>1 DEF images
  <2> HIDE DEF ids, toks2
  <2>6. Len(toks2) < MaxModelLen => Cardinality(Pads(toks2)) = Len(images)
    BY <1>3, <2>2, <2>3, <2>4, TurnPads
  <2>7. PrefixLength <= Len(toks2) /\ \A i \in 1..PrefixLength : toks2[i] = toks[i]
    BY <1>3, <2>2, <2>4, TurnKeepsPrompt
  <2>8. QED
    BY <1>4, <2>5, <2>6, <2>7 DEF toks2
<1>6. ASSUME ToolTurn(u) PROVE ImagesPlaced(u)'
  <2> DEFINE toks2 == tokens'[u]
             r == future[u].result
             ids == UserTurn(r)
             new == [k \in 1..Len(r.grids) |->
                     [grid |-> r.grids[k], owner |-> future[u].owner]]
  <2>1. PICK n \in Nat : TurnAppended(toks2, toks, ids, n, "tool", future[u].owner)
    BY <1>6 DEF ToolTurn, toks
  <2>2. /\ r \in Results /\ r \in TextResults \cup ImageResults
        /\ searchImages'[u] = images \o new
    <3>1. pc = "process" /\ u \in left
      BY <1>6 DEF ToolTurn
    <3>2. future[u].state = "done"
      BY <3>1 DEF OwnInv, CallsAreOwn, FuturesReturned
    <3>3. QED
      BY <1>6, <3>2 DEF ToolTurn, FuturesReturned, TypeOK, Futures, images
  <2>3. ids \in Seq(TokenIds) /\ Cardinality(PadIds(ids)) = Len(r.grids)
    <3> HIDE DEF r
    <3>1. Cardinality(PadIds(r.ids)) = Len(r.grids)
      BY <2>2 DEF PadsPerImage, PadIds
    <3>2. QED
      BY <2>2, <3>1, UserTurnType, UserTurnPads
  <2>4. Len(images \o new) = Len(images) + Len(r.grids)
    <3>1. r.grids \in Seq(Nat) /\ future[u].owner \in Owners
      BY <2>2 DEF Results, TypeOK, Futures
    <3> HIDE DEF r
    <3>2. Len(r.grids) \in Nat /\ \A k \in 1..Len(r.grids) : r.grids[k] \in Nat
      BY <3>1
    <3>3. \A k \in 1..Len(r.grids) :
            [grid |-> r.grids[k], owner |-> future[u].owner] \in Images
      BY <3>1, <3>2 DEF Images
    <3>4. new \in Seq(Images) /\ Len(new) = Len(r.grids)
      BY <3>2, <3>3
    <3> HIDE DEF new
    <3>5. images \in Seq(Images)
      BY <1>3
    <3>6. Len(images \o new) = Len(images) + Len(new)
      BY <3>4, <3>5, ConcatProperties
    <3>7. QED
      BY <3>4, <3>6
  <2> HIDE DEF ids, toks2, r, new
  <2>5. ASSUME Len(toks2) < MaxModelLen PROVE Cardinality(Pads(toks2)) = Len(images \o new)
    <3>1. /\ Len(toks) < MaxModelLen
          /\ Cardinality(Pads(toks2)) = Cardinality(Pads(toks)) + Cardinality(PadIds(ids))
      BY <1>3, <2>1, <2>3, <2>5, TurnPads
    <3>2. Cardinality(Pads(toks)) = Len(images)
      BY <1>3, <3>1
    <3>3. QED
      BY <2>3, <2>4, <3>1, <3>2
  <2>6. PrefixLength <= Len(toks2) /\ \A i \in 1..PrefixLength : toks2[i] = toks[i]
    BY <1>3, <2>1, <2>3, TurnKeepsPrompt
  <2>7. QED
    BY <1>4, <2>2, <2>5, <2>6 DEF toks2
<1>7. QED
  BY <1>1, <1>2, <1>5, <1>6, OnlyTurns

\* What precedes the response has no image_pad: the response has them all.
LEMMA PadsAfterPrompt ==
  ASSUME TypeOK, NEW t \in Traj, ImagesPlaced(t)
  PROVE  Cardinality(Pads(AfterPrompt(tokens[t]))) = Cardinality(Pads(tokens[t]))
<1> DEFINE all == tokens[t]
           toks == AfterPrompt(all)
           m == PrefixLength
           n == Len(toks)
<1>1. /\ all \in Seq(Tokens) /\ Len(all) \in Nat /\ m \in Nat /\ m <= Len(all)
      /\ \A i \in 1..m : all[i].id # "image_pad"
  BY ConstantsAssumption DEF TypeOK, ImagesPlaced
<1>2. /\ toks \in Seq(Tokens)
      /\ Len(toks) = IF m < Len(all) THEN Len(all) - m ELSE 0
      /\ \A i \in 1..Len(toks) : m + i \in 1..Len(all) /\ toks[i] = all[m + i]
  BY <1>1, AfterPromptProperties
<1> HIDE DEF all, toks, m
<1>3. n \in Nat /\ m + n = Len(all)
  BY <1>1, <1>2
<1>4. /\ {} \subseteq 1..m /\ Pads(toks) \subseteq 1..n /\ Pads(all) \subseteq 1..(m + n)
  BY <1>3 DEF Pads
<1>5. \A i \in 1..m : i \notin Pads(all)
  BY <1>1 DEF Pads
<1>6. \A i \in 1..n : m + i \in Pads(all) <=> i \in Pads(toks)
  BY <1>2 DEF Pads
<1>7. IsSplit(m, n, {}, Pads(toks), Pads(all))
  BY <1>1, <1>3, <1>4, <1>5, <1>6 DEF IsSplit
<1>8. /\ Cardinality(Pads(toks)) \in Nat
      /\ Cardinality(Pads(all)) = Cardinality({}) + Cardinality(Pads(toks))
  BY <1>7, CountSplit
<1>9. Cardinality({}) = 0
  BY FS_EmptySet
<1>10. QED
  BY <1>8, <1>9 DEF toks, all

\* Two sequences have as many image_pads together as each on its own.
LEMMA PadsConcat ==
  ASSUME NEW x \in Seq(Tokens), NEW y \in Seq(Tokens)
  PROVE  /\ Cardinality(Pads(x)) \in Nat /\ Cardinality(Pads(y)) \in Nat
         /\ Cardinality(Pads(x \o y)) = Cardinality(Pads(x)) + Cardinality(Pads(y))
<1> DEFINE z == x \o y
<1>1. /\ Len(x) \in Nat /\ Len(y) \in Nat /\ Len(z) = Len(x) + Len(y)
      /\ \A i \in 1..Len(x) + Len(y) : z[i] = IF i <= Len(x) THEN x[i] ELSE y[i - Len(x)]
  BY ConcatProperties
<1> HIDE DEF z
<1>2. ASSUME NEW i \in 1..Len(x) PROVE i \in Pads(z) <=> i \in Pads(x)
  <2>1. z[i] = x[i] /\ i \in 1..Len(z)
    BY <1>1
  <2>2. QED
    BY <2>1 DEF Pads
<1>3. ASSUME NEW i \in 1..Len(y) PROVE Len(x) + i \in Pads(z) <=> i \in Pads(y)
  <2>1. Len(x) + i \in 1..Len(x) + Len(y) /\ ~(Len(x) + i <= Len(x))
        /\ (Len(x) + i) - Len(x) = i
    BY <1>1
  <2>2. z[Len(x) + i] = y[i] /\ Len(x) + i \in 1..Len(z)
    BY <1>1, <2>1
  <2>3. QED
    BY <2>2 DEF Pads
<1>4. /\ Pads(x) \subseteq 1..Len(x) /\ Pads(y) \subseteq 1..Len(y)
      /\ Pads(z) \subseteq 1..(Len(x) + Len(y))
  BY <1>1 DEF Pads
<1>5. IsSplit(Len(x), Len(y), Pads(x), Pads(y), Pads(z))
  BY <1>1, <1>2, <1>3, <1>4 DEF IsSplit
<1>6. QED
  BY <1>5, CountSplit DEF z

\* The rank counts the image_pads so far.
LEMMA PadRankSteps ==
  ASSUME NEW toks \in Seq(Tokens)
  PROVE  /\ PadRank(toks, 0) = 0
         /\ PadRank(toks, Len(toks)) = Cardinality(Pads(toks))
         /\ \A i \in 1..Len(toks) :
              /\ PadRank(toks, i - 1) \in Nat
              /\ PadRank(toks, i) <= Cardinality(Pads(toks))
              /\ PadRank(toks, i) = PadRank(toks, i - 1) + IF i \in Pads(toks) THEN 1 ELSE 0
<1> DEFINE S(i) == {j \in 1..i : toks[j].id = "image_pad"}
<1>1. Len(toks) \in Nat /\ \A i \in 0..Len(toks) : S(i) \in SUBSET (1..i)
  OBVIOUS
<1>2. PadRank(toks, 0) = 0
  <2>1. S(0) = {}
    BY <1>1
  <2>2. QED
    BY <2>1, FS_EmptySet DEF PadRank
<1>3. PadRank(toks, Len(toks)) = Cardinality(Pads(toks))
  BY DEF PadRank, Pads
<1>4. ASSUME NEW i \in 1..Len(toks)
      PROVE  /\ PadRank(toks, i - 1) \in Nat
             /\ PadRank(toks, i) <= Cardinality(Pads(toks))
             /\ PadRank(toks, i) = PadRank(toks, i - 1) + IF i \in Pads(toks) THEN 1 ELSE 0
  <2>1. IsFiniteSet(S(i - 1)) /\ Cardinality(S(i - 1)) \in Nat
    <3>1. IsFiniteSet(1..(i - 1)) /\ S(i - 1) \in SUBSET (1..(i - 1))
      BY FS_Interval
    <3> HIDE DEF S
    <3>2. QED
      BY <3>1, FS_Subset, FS_CardinalityType
  <2>2. Cardinality(S(i)) <= Cardinality(Pads(toks))
    <3>1. IsFiniteSet(1..Len(toks)) /\ Pads(toks) \in SUBSET (1..Len(toks))
      BY <1>1, FS_Interval DEF Pads
    <3>2. S(i) \in SUBSET Pads(toks)
      BY <1>1 DEF Pads
    <3> HIDE DEF S
    <3>3. IsFiniteSet(Pads(toks))
      BY <3>1, FS_Subset
    <3>4. QED
      BY <3>2, <3>3, FS_Subset
  <2>3. Cardinality(S(i)) = Cardinality(S(i - 1)) + IF i \in Pads(toks) THEN 1 ELSE 0
    <3>1. CASE i \in Pads(toks)
      <4>1. S(i) = S(i - 1) \cup {i} /\ i \notin S(i - 1)
        BY <1>1, <3>1 DEF Pads
      <4> HIDE DEF S
      <4>2. Cardinality(S(i - 1) \cup {i}) = Cardinality(S(i - 1)) + 1
        BY <2>1, <4>1, FS_AddElement
      <4>3. QED
        BY <3>1, <4>1, <4>2
    <3>2. CASE i \notin Pads(toks)
      <4>1. S(i) = S(i - 1)
        BY <1>1, <3>2 DEF Pads
      <4> HIDE DEF S
      <4>2. QED
        BY <2>1, <3>2, <4>1
    <3>3. QED
      BY <3>1, <3>2
  <2>4. PadRank(toks, i) = Cardinality(S(i)) /\ PadRank(toks, i - 1) = Cardinality(S(i - 1))
    BY DEF PadRank
  <2> HIDE DEF S
  <2>5. QED
    BY <2>1, <2>2, <2>3, <2>4
<1>5. QED
  BY <1>2, <1>3, <1>4

\* The sum over the first images grows by the next.
LEMMA SumUpto ==
  ASSUME NEW m \in Nat, NEW f, \A k \in 1..m : f[k] \in Int
  PROVE  /\ Sum(f, 1..m)[1..0] = 0
         /\ \A r \in 0..m : Sum(f, 1..m)[1..r] \in Int
         /\ \A r \in 0..(m - 1) : Sum(f, 1..m)[1..(r + 1)] = Sum(f, 1..m)[1..r] + f[r + 1]
<1> DEFINE sum == Sum(f, 1..m)
<1>1. IsFiniteSet(1..m)
  BY FS_Interval
<1>2. \A s \in SUBSET (1..m) :
        /\ sum[s] \in Int
        /\ sum[s] = IF s = {} THEN 0 ELSE f[Pick(s)] + sum[s \ {Pick(s)}]
  BY <1>1, SumSteps
<1> HIDE DEF sum
<1>3. \A r \in 0..m : 1..r \in SUBSET (1..m)
  OBVIOUS
<1>4. 1..0 = {} /\ 1..0 \in SUBSET (1..m)
  OBVIOUS
<1>5. sum[1..0] = 0
  BY <1>2, <1>4
<1>6. ASSUME NEW r \in 0..(m - 1) PROVE sum[1..(r + 1)] = sum[1..r] + f[r + 1]
  <2>1. 1..(r + 1) \in SUBSET (1..m) /\ r + 1 \in 1..(r + 1)
        /\ (1..(r + 1)) \ {r + 1} = 1..r /\ r \in 0..m /\ r + 1 \in 1..m
    OBVIOUS
  <2>2. sum[1..(r + 1)] = f[r + 1] + sum[(1..(r + 1)) \ {r + 1}]
    BY <1>1, <2>1, SumRemove DEF sum
  <2> DEFINE next == sum[1..(r + 1)]
             now == sum[1..r]
             v == f[r + 1]
  <2>3. next = v + now /\ now \in Int /\ v \in Int
    BY <1>2, <1>3, <2>1, <2>2
  <2> HIDE DEF next, now, v
  <2>4. next = now + v
    BY <2>3
  <2>5. QED
    BY <2>4 DEF next, now, v
<1>7. QED
  BY <1>2, <1>3, <1>5, <1>6 DEF sum

\* Expanded, a sequence with an image_pad for each image has one for each patch.
LEMMA PadsExpanded ==
  ASSUME NEW toks \in Seq(Tokens), NEW images \in Seq(Images), toks # <<>>,
         Cardinality(Pads(toks)) = Len(images)
  PROVE  Cardinality(Pads(FlattenSeq(Pieces(toks, toks, images)))) = SumOfGrids(images)
<1> DEFINE s == Pieces(toks, toks, images)
           l == Len(toks)
           m == Len(images)
           f == [k \in DOMAIN images |-> images[k].grid]
           sum == Sum(f, 1..m)
           Rank(n) == PadRank(toks, n)
           Half(n) == Cardinality(Pads(Flat(s)[n])) = sum[1..Rank(n)]
           T == {n \in Nat : n \in 1..l => Half(n)}
<1>1. l \in Nat /\ m \in Nat /\ l # 0
  BY EmptySeq
<1>2. /\ s \in Seq(Seq(Tokens)) /\ ArePieces(s, toks, toks, images)
  BY <1>1, PiecesType
<1>3. Len(s) = l
  BY <1>2 DEF ArePieces
<1>4. SumOfGrids(images) = sum[1..m]
  <2>1. DOMAIN f = 1..m
    OBVIOUS
  <2> HIDE DEF f
  <2>2. FoldFunctionOnSet(+, 0, f, 1..m) = Sum(f, 1..m)[1..m]
    BY FoldIsSum
  <2>3. FoldFunction(+, 0, f) = FoldFunctionOnSet(+, 0, f, 1..m)
    BY <2>1 DEF FoldFunction
  <2>4. SumOfGrids(images) = FoldFunction(+, 0, f)
    BY DEF SumOfGrids, f
  <2>5. QED
    BY <2>2, <2>3, <2>4
<1>5. \A k \in 1..m : f[k] = images[k].grid /\ f[k] \in Int
  <2>1. \A k \in 1..m : images[k] \in Images /\ k \in DOMAIN images
    OBVIOUS
  <2>2. QED
    BY <2>1 DEF Images
<1> HIDE DEF s, f
<1>6. /\ sum[1..0] = 0
      /\ \A r \in 0..m : sum[1..r] \in Int
      /\ \A r \in 0..(m - 1) : sum[1..(r + 1)] = sum[1..r] + f[r + 1]
  BY <1>1, <1>5, SumUpto
<1>7. /\ Rank(0) = 0 /\ Rank(l) = m
      /\ \A i \in 1..l : /\ Rank(i - 1) \in Nat /\ Rank(i) <= m
                         /\ Rank(i) = Rank(i - 1) + IF i \in Pads(toks) THEN 1 ELSE 0
  BY PadRankSteps
<1>8. \A i \in 1..l : /\ Flat(s)[i] \in Seq(Tokens)
                      /\ Flat(s)[i] = IF i = 1 THEN s[i] ELSE Flat(s)[i - 1] \o s[i]
  BY <1>2, <1>3, FlatSteps
<1> HIDE DEF l, m, sum, Rank
\* The image_pads of a piece.
<1>9. ASSUME NEW i \in 1..l
      PROVE  /\ s[i] \in Seq(Tokens)
             /\ i \in Pads(toks) => Cardinality(Pads(s[i])) = f[Rank(i)]
             /\ i \notin Pads(toks) => Cardinality(Pads(s[i])) = 0
  <2>1. s[i] \in Seq(Tokens)
    BY <1>2, <1>3
  <2>2. ASSUME i \in Pads(toks) PROVE Cardinality(Pads(s[i])) = f[Rank(i)]
    <3> DEFINE g == images[PadRank(toks, i)].grid
               p == s[i]
    <3>1. /\ PadRank(toks, i) \in 1..m /\ g \in Nat /\ Len(p) = g
          /\ \A k \in 1..Len(p) : p[k] = toks[i]
      BY <1>2, <2>2 DEF ArePieces, l, m
    <3>2. toks[i].id = "image_pad"
      BY <2>2 DEF Pads
    <3>3. f[Rank(i)] = g
      BY <1>5, <3>1 DEF Rank
    <3> HIDE DEF g, p
    <3>4. Pads(p) = 1..g
      BY <3>1, <3>2 DEF Pads
    <3>5. Cardinality(1..g) = g
      BY <3>1, FS_Interval
    <3>6. QED
      BY <3>3, <3>4, <3>5 DEF p
  <2>3. ASSUME i \notin Pads(toks) PROVE Cardinality(Pads(s[i])) = 0
    <3>1. s[i] = <<toks[i]>>
      BY <1>2, <2>3 DEF ArePieces, l
    <3>2. toks[i].id # "image_pad"
      BY <2>3 DEF Pads, l
    <3>3. \A k \in 1..Len(s[i]) : s[i][k] = toks[i]
      BY <3>1
    <3>4. Pads(s[i]) = {}
      BY <3>2, <3>3 DEF Pads
    <3>5. QED
      BY <3>4, FS_EmptySet
  <2>4. QED
    BY <2>1, <2>2, <2>3
\* So the sum grows with the pieces.
<1>10. ASSUME NEW i \in 1..l
       PROVE  /\ Rank(i - 1) \in 0..m /\ Rank(i) \in 0..m
              /\ sum[1..Rank(i)] = sum[1..Rank(i - 1)] + Cardinality(Pads(s[i]))
  <2> DEFINE r == Rank(i - 1)
  <2>1. /\ r \in Nat /\ Rank(i) <= m
        /\ Rank(i) = r + IF i \in Pads(toks) THEN 1 ELSE 0
    BY <1>7
  <2> HIDE DEF r
  <2>2. r \in 0..m /\ Rank(i) \in 0..m /\ sum[1..r] \in Int
    BY <1>1, <1>6, <2>1 DEF m
  <2>3. CASE i \in Pads(toks)
    <3>1. Rank(i) = r + 1 /\ r \in 0..(m - 1)
      BY <1>1, <2>1, <2>2, <2>3 DEF m
    <3>2. sum[1..(r + 1)] = sum[1..r] + f[r + 1]
      BY <1>6, <3>1
    <3>3. Cardinality(Pads(s[i])) = f[r + 1]
      BY <1>9, <2>3, <3>1
    <3>4. QED
      BY <2>2, <3>1, <3>2, <3>3 DEF r
  <2>4. CASE i \notin Pads(toks)
    <3>1. Rank(i) = r /\ Cardinality(Pads(s[i])) = 0
      BY <1>9, <2>1, <2>4
    <3>2. QED
      BY <2>2, <3>1 DEF r
  <2>5. QED
    BY <2>3, <2>4
<1>11. 1 \in 1..l => Half(1)
  <2> SUFFICES ASSUME 1 \in 1..l PROVE Half(1)
    OBVIOUS
  <2>1. Flat(s)[1] = s[1]
    BY <1>8
  <2>2. s[1] \in Seq(Tokens) /\ sum[1..Rank(1)] = sum[1..Rank(1 - 1)] + Cardinality(Pads(s[1]))
    BY <1>9, <1>10
  <2>3. Cardinality(Pads(s[1])) \in Nat
    BY <2>2, PadsConcat
  <2>4. 1 - 1 = 0
    OBVIOUS
  <2>5. sum[1..Rank(1 - 1)] = 0
    BY <1>6, <1>7, <2>4
  <2>6. QED
    BY <2>1, <2>2, <2>3, <2>5
<1>12. ASSUME NEW n \in 1..l, n + 1 \in 1..l, Half(n) PROVE Half(n + 1)
  <2>1. n + 1 # 1 /\ (n + 1) - 1 = n
    BY <1>12
  <2>2. Flat(s)[n + 1] = Flat(s)[n] \o s[n + 1] /\ Flat(s)[n] \in Seq(Tokens)
    BY <1>8, <1>12, <2>1
  <2>3. /\ s[n + 1] \in Seq(Tokens)
        /\ sum[1..Rank(n + 1)] = sum[1..Rank(n)] + Cardinality(Pads(s[n + 1]))
    BY <1>9, <1>10, <1>12, <2>1
  <2>4. Cardinality(Pads(Flat(s)[n] \o s[n + 1])) =
          Cardinality(Pads(Flat(s)[n])) + Cardinality(Pads(s[n + 1]))
    BY <2>2, <2>3, PadsConcat
  <2>5. QED
    BY <1>12, <2>2, <2>3, <2>4
<1> HIDE DEF Half
<1>13. Nat \subseteq T
  <2>1. 0 \in T
    OBVIOUS
  <2>2. ASSUME NEW n \in Nat, n \in T PROVE n + 1 \in T
    <3>1. n + 1 \in Nat /\ (n = 0 \/ (n + 1 \in 1..l => n \in 1..l))
      BY <1>1 DEF l
    <3>2. n \in 1..l => Half(n)
      BY <2>2
    <3>3. n + 1 \in 1..l => Half(n + 1)
      BY <1>11, <1>12, <3>1, <3>2
    <3>4. QED
      BY <3>1, <3>3
  <2>3. QED
    <3> HIDE DEF T
    <3> QED
      BY <2>1, <2>2, NatAll
<1>14. l \in 1..l /\ l \in Nat
  BY <1>1 DEF l
<1>15. Half(l)
  BY <1>13, <1>14
<1>16. FlattenSeq(s) = Flat(s)[l]
  BY <1>1, <1>3, FlattenIsFlat DEF l
<1>17. QED
  BY <1>4, <1>7, <1>15, <1>16 DEF Half, s

\* A row with an image_pad for each image is rebuilt to one with one for each patch.
LEMMA RebuiltPads ==
  ASSUME TypeOK, NEW t \in Traj, ~CannotRebuild(t), ImagesPlaced(t),
         Len(tokens[t]) < MaxModelLen
  PROVE  Cardinality(Pads(RebuiltTokens(t))) = SumOfGrids(searchImages[t])
<1> DEFINE toks == AfterPrompt(tokens[t])
           images == searchImages[t]
<1>1. toks \in Seq(Tokens) /\ images \in Seq(Images)
  <2>1. tokens[t] \in Seq(Tokens) /\ images \in Seq(Images)
    BY DEF TypeOK
  <2>2. QED
    BY <2>1, AfterPromptProperties
<1>2. Cardinality(Pads(toks)) = Len(images) /\ toks # <<>>
  BY PadsAfterPrompt DEF ImagesPlaced, CannotRebuild
<1>3. CASE images = <<>>
  <2>1. RebuiltTokens(t) = toks /\ Len(images) = 0
    BY <1>3 DEF RebuiltTokens
  <2>2. SumOfGrids(images) = 0
    <3> DEFINE f == [k \in DOMAIN images |-> images[k].grid]
    <3>1. DOMAIN f = {}
      BY <1>1, <2>1
    <3> HIDE DEF f
    <3>2. FoldFunction(+, 0, f) = Sum(f, {})[{}]
      BY <3>1, FoldIsSum DEF FoldFunction
    <3>3. IsFiniteSet({}) /\ \A x \in {} : f[x] \in Int
      BY FS_EmptySet
    <3>4. Sum(f, {})[{}] = 0
      BY <3>3, SumSteps
    <3>5. QED
      BY <3>2, <3>4 DEF SumOfGrids, f
  <2>3. QED
    BY <1>2, <2>1, <2>2
<1>4. CASE images # <<>>
  <2>1. RebuiltTokens(t) = FlattenSeq(Pieces(toks, toks, images))
    BY <1>4 DEF RebuiltTokens, Expanded, Pieces
  <2> HIDE DEF toks, images
  <2>2. QED
    BY <1>1, <1>2, <2>1, PadsExpanded DEF images
<1>5. QED
  BY <1>3, <1>4

\* Rows that were not cut have as many image_pads as patches.
RowsPlaced ==
  /\ pc = "rebuild" => \A t \in Traj \ left :
       Len(tokens[t]) < MaxModelLen =>
         Cardinality(Pads(response[t])) = SumOfGrids(searchImages[t])
  /\ pc = "done" => \A t \in Traj :
       Uncut(t) => Cardinality(Pads(response[t])) = SumOfGrids(searchImages[t])

\* The cut leaves alone the rows that end up shorter than it.
LEMMA RowsPlacedStep ==
  ASSUME TypeOK, \A t \in Traj : ImagesPlaced(t), RowsInStep, RowsPlaced, [Next]_vars
  PROVE  RowsPlaced'
<1>1. ASSUME pc' \notin {"rebuild", "done"} PROVE RowsPlaced'
  BY <1>1 DEF RowsPlaced
<1>2. CASE StopGenerating
  BY <1>2 DEF StopGenerating, RowsPlaced
<1>3. CASE ReturnBatch
  <2>1. /\ pc = "rebuild" /\ left = {} /\ pc' = "done" /\ UNCHANGED <<tokens, searchImages>>
        /\ response' = [t \in Traj |-> Cut(response[t])]
    BY <1>3 DEF ReturnBatch, conversation
  <2>2. ASSUME NEW t \in Traj, Uncut(t)'
        PROVE  Cardinality(Pads(response'[t])) = SumOfGrids(searchImages'[t])
    <3>1. response[t] \in Seq(Tokens)
      BY <2>1 DEF RowsInStep, Rebuilt
    <3>2. Len(tokens[t]) < MaxModelLen /\ response'[t] = Cut(response[t])
          /\ Len(Cut(response[t])) < ResponseLengthTotal
      BY <2>1, <2>2 DEF Uncut
    <3>3. response'[t] = response[t]
      BY <3>1, <3>2, ShortIsUncut
    <3>4. Cardinality(Pads(response[t])) = SumOfGrids(searchImages[t])
      BY <2>1, <3>2 DEF RowsPlaced
    <3>5. QED
      BY <2>1, <3>3, <3>4
  <2>3. QED
    BY <2>1, <2>2 DEF RowsPlaced
<1>4. ASSUME NEW t \in Traj, Rebuild(t) PROVE RowsPlaced'
  <2>1. CASE CannotRebuild(t)
    BY <1>4, <2>1 DEF Rebuild, RowsPlaced
  <2>2. CASE ~CannotRebuild(t)
    <3>1. /\ pc = "rebuild" /\ pc' = "rebuild" /\ left' = left \ {t}
          /\ UNCHANGED <<tokens, searchImages>>
          /\ response' = [response EXCEPT ![t] = RebuiltTokens(t)]
      BY <1>4, <2>2 DEF Rebuild, conversation
    <3>2. /\ response'[t] = RebuiltTokens(t)
          /\ \A u \in Traj \ {t} : response'[u] = response[u]
      BY <3>1 DEF RowsInStep
    <3>3. Len(tokens[t]) < MaxModelLen =>
            Cardinality(Pads(response'[t])) = SumOfGrids(searchImages[t])
      BY <2>2, <3>2, RebuiltPads
    <3>4. ASSUME NEW u \in Traj \ left', u # t, Len(tokens[u]) < MaxModelLen
          PROVE  Cardinality(Pads(response'[u])) = SumOfGrids(searchImages[u])
      <4>1. u \in Traj \ left /\ response'[u] = response[u]
        BY <3>1, <3>2, <3>4
      <4>2. Cardinality(Pads(response[u])) = SumOfGrids(searchImages[u])
        BY <3>1, <3>4, <4>1 DEF RowsPlaced
      <4>3. QED
        BY <4>1, <4>2
    <3>5. QED
      BY <3>1, <3>3, <3>4 DEF RowsPlaced
  <2>3. QED
    BY <2>1, <2>2
<1>5. ASSUME NEW t \in Traj, Pool(t) \/ EmptyOutput(t) \/ ProcessResult(t)
      PROVE  RowsPlaced'
  BY <1>1, <1>5 DEF Pool, StartCall, FinishCall, EmptyOutput, ProcessResult, control
<1>6. ASSUME NEW t \in Traj, NEW out \in Outputs, Trigger(t, out) PROVE RowsPlaced'
  BY <1>1, <1>6 DEF Trigger
<1>7. CASE StartRound \/ SubmitCalls \/ CollectResults \/ EndRound
  BY <1>1, <1>7 DEF StartRound, SubmitCalls, CollectResults, EndRound
<1>8. CASE UNCHANGED vars
  BY <1>8 DEF vars, control, batch, conversation, RowsPlaced, Uncut
<1>9. QED
  BY <1>2, <1>3, <1>4, <1>5, <1>6, <1>7, <1>8 DEF Next, Main, Terminating

\* The batch of a sampled rollout has as many image_pads as its searched images have
\* patches, whatever order the searches end in and however many images each
\* returns, unless the response was cut.
THEOREM ImagesCorrect ==
  ASSUME N > 1, ~Validate, NoPadsSampled, PadsPerImage
  PROVE  Spec => []PadsMatchImages
<1> DEFINE Inv == /\ \A t \in Traj : PadsAreTools(t) /\ ImagesPlaced(t)
                  /\ FuturesReturned /\ RowsInStep /\ RowsPlaced
<1>1. Init => Inv
  <2> SUFFICES ASSUME Init PROVE Inv
    OBVIOUS
  <2>1. FuturesReturned
    BY DEF Init, FuturesReturned, Idle
  <2>2. RowsInStep /\ RowsPlaced
    BY DEF Init, RowsInStep, RowsPlaced
  <2>3. ASSUME NEW t \in Traj PROVE PadsAreTools(t) /\ ImagesPlaced(t)
    <3> DEFINE start == [i \in 1..PrefixLength |->
                          [id |-> "text", by |-> "prompt",
                           owner |-> [traj |-> t, prompt |-> PromptOf(t)]]]
    <3>1. tokens[t] = start /\ searchImages[t] = <<>>
      BY DEF Init
    <3>2. Len(start) = PrefixLength /\ \A i \in 1..PrefixLength : start[i].id = "text"
      BY ConstantsAssumption
    <3> HIDE DEF start
    <3>3. Pads(tokens[t]) = {} /\ Len(searchImages[t]) = 0
      BY <3>1, <3>2 DEF Pads
    <3>4. Cardinality({}) = 0 /\ PrefixLength \in Nat
      BY FS_EmptySet, ConstantsAssumption
    <3>5. QED
      BY <3>1, <3>2, <3>3, <3>4 DEF PadsAreTools, ImagesPlaced
  <2>4. QED
    BY <2>1, <2>2, <2>3
<1>2. TypeOK /\ OwnInv /\ MaskMatchesAuthor /\ Inv /\ [Next]_vars => Inv'
  <2> SUFFICES ASSUME TypeOK, OwnInv, MaskMatchesAuthor, Inv, [Next]_vars PROVE Inv'
    OBVIOUS
  <2>1. \A t \in Traj : PadsAreTools(t)' /\ ImagesPlaced(t)'
    BY PadsAreToolsStep, ImagesPlacedStep
  <2>2. FuturesReturned' /\ RowsInStep' /\ RowsPlaced'
    BY FuturesReturnedStep, RowsInStepStep, RowsPlacedStep
  <2>3. QED
    BY <2>1, <2>2
<1>3. Inv => PadsMatchImages
  BY DEF PadsMatchImages, RowsPlaced, BatchImages
<1>4. QED
  BY <1>1, <1>2, <1>3, OwnInvariant, MaskCorrect, PTL DEF Spec
=============================================================================
