------------------------- MODULE MultiTurnRollout -------------------------
(***************************************************************************)
(* One call of generate_sequences: BatchSize prompts are each sampled n    *)
(* times, and every trajectory alternates model turns with search results  *)
(* for at most MaxGenRound rounds.  A round has three stages:              *)
(*                                                                         *)
(*   trigger  the engine's outputs are appended, in trajectory order, and  *)
(*            each one either asks for a search or ends its trajectory;    *)
(*   call     the searches run, on a pool of threads that finish in any    *)
(*            order (or one by one);                                       *)
(*   process  the results are appended, in trajectory order.               *)
(*                                                                         *)
(* A token is its id and its author: the code keeps only ids, and marks    *)
(* the author in multi_turn_response_mask.  Author and owner are history   *)
(* the properties compare with what the code keeps.                        *)
(***************************************************************************)
EXTENDS Integers, FiniteSets, Sequences, SequencesExt

CONSTANTS
  BatchSize,           \* prompts in the batch
  N,                   \* config.n, samples per prompt
  Validate,            \* meta_info['validate'], which also turns sampling off
  MaxGenRound,         \* config.max_gen_round
  ImageSearchLimit,    \* config.search.image_search_limit
  TextSearchLimit,     \* config.search.text_search_limit
  MaxModelLen,         \* config.max_model_len (None: a length never reached)
  ResponseLengthTotal, \* config.response_length_total
  ParallelToolCall,    \* config.search.parallel_tool_call
  Threads,             \* config.search.parallel_tool_call_threads
  PrefixLength,        \* tokens of the first prompt
  Outputs,             \* what the engine may sample in a turn
  TextResults,         \* what call_text_search may do
  ImageResults         \* what call_image_search may do

TokenIds == {"text", "im_end", "image_pad"}
Kinds == {"image", "text", "empty_text", "answer"}

ASSUME ConstantsAssumption ==
  /\ BatchSize \in Nat \ {0}
  /\ N \in Nat \ {0}
  /\ Validate \in BOOLEAN
  /\ MaxGenRound \in Nat \ {0}
  /\ ImageSearchLimit \in Nat
  /\ TextSearchLimit \in Nat
  /\ MaxModelLen \in Nat
  /\ ResponseLengthTotal \in Nat
  /\ ParallelToolCall \in BOOLEAN
  /\ Threads \in Nat \ {0}
  /\ PrefixLength \in Nat

ASSUME ToolsAssumption ==
  /\ Outputs \subseteq [kind : Kinds, ids : Seq(TokenIds)]
  /\ TextResults \cup ImageResults
       \subseteq [raised : BOOLEAN, ids : Seq(TokenIds), grids : Seq(Nat)]

\* Trajectories are numbered prompt by prompt, n to a prompt.
SamplesPerPrompt == IF Validate THEN 1 ELSE N
Traj == 0 .. (BatchSize * SamplesPerPrompt - 1)
Prompts == 0 .. (BatchSize - 1)
PromptOf(t) == t \div SamplesPerPrompt

\* Mutant: the list as a whole is repeated, not each entry.
MutTiledImageUrl(t) == t % BatchSize

\* Entry t of image_urls, repeated N times per prompt unless validating.
ImageUrl(t) == t \div (IF Validate THEN 1 ELSE N)

VARIABLES
  pc,           \* the stage generate_sequences is in
  iteration,    \* current_iteration
  toGenerate,   \* to_generate, a list in increasing order
  left,         \* trajectories the running for loop has still to visit
  idxToRemove,  \* idx_to_remove
  query,        \* id_search_query_mapping
  future,       \* search_call_futures, one per trajectory that searches
  completed,    \* the order as_completed yields them in
  imageCnt,     \* id_image_gen_cnt
  textCnt,      \* id_text_gen_cnt
  tokens,       \* vllm_inputs[t]['prompt_token_ids']
  mask,         \* multi_turn_response_mask[t], concatenated
  searchImages, \* search_tool_return_images
  response,     \* response, after the prompt
  responseMask  \* response_generation_mask

control == <<pc, iteration, toGenerate, left, idxToRemove>>
calls == <<query, future, completed>>
counts == <<imageCnt, textCnt>>
conversation == <<tokens, mask, searchImages>>
batch == <<response, responseMask>>
vars == <<control, calls, counts, conversation, batch>>

NoOwner == [traj |-> 0, prompt |-> 0]
Owners == [traj : Traj, prompt : Prompts]
Tokens == [id : TokenIds, by : {"prompt", "assistant", "tool"}, owner : Owners]
Images == [grid : Nat, owner : Owners]
Queries == [type : {"none", "image", "text"}, owner : Owners]
NoQuery == [type |-> "none", owner |-> NoOwner]
NoResult == [raised |-> FALSE, ids |-> <<>>, grids |-> <<>>]
Results == [raised : BOOLEAN, ids : Seq(TokenIds), grids : Seq(Nat)]
Futures == [state : {"idle", "queued", "running", "done"},
            result : Results, owner : Owners]
Idle == [state |-> "idle", result |-> NoResult, owner |-> NoOwner]

---------------------------------------------------------------------------
\* Helpers

Written(ids, by, owner) ==
  [i \in 1..Len(ids) |-> [id |-> ids[i], by |-> by, owner |-> owner]]

\* How much of new _extend_prompt_token_ids keeps: what max_model_len leaves.
AppendedLen(prompt, new) ==
  LET remaining == MaxModelLen - Len(prompt)
  IN  IF remaining <= 0 THEN 0
      ELSE IF Len(new) > remaining THEN remaining ELSE Len(new)

Extend(prompt, new) == prompt \o SubSeq(new, 1, AppendedLen(prompt, new))

Marks(bit, length) == [i \in 1..length |-> bit]

\* out.ids is an output without the ids above the vocabulary.  One that does
\* not end its turn loses its last token to im_end.
EndsTurn(out) == Contains(out.ids, "im_end")

\* Mutant: an output that was cut short stays without im_end.
MutUnterminated(out) == out.ids

Filtered(out) ==
  IF EndsTurn(out) THEN out.ids
  ELSE [out.ids EXCEPT ![Len(out.ids)] = "im_end"]

\* The patterns are anchored at the end of the text, so an output that was
\* cut short, and lost the end of its tag to im_end, asks for nothing.
Asks(out) == IF EndsTurn(out) THEN out.kind ELSE "answer"

\* The result between the end of the header and the next assistant header.
UserTurn(result) == <<"text">> \o result.ids \o <<"im_end", "text">>

\* Each for loop visits its trajectories in increasing order.
NextInLoop(t) == t \in left /\ \A u \in left : t <= u

LastIteration == iteration = MaxGenRound - 1

Running == {t \in toGenerate : future[t].state = "running"}
Queued == {t \in toGenerate : future[t].state = "queued"}
PoolSize == IF ParallelToolCall THEN Threads ELSE 1

\* The k-th image_pad, which gets the grid of the k-th returned image.
PadRank(toks, i) == Cardinality({j \in 1..i : toks[j].id = "image_pad"})
Pads(toks) == {i \in 1..Len(toks) : toks[i].id = "image_pad"}

Expanded(seq, toks, images) ==
  FlattenSeq([i \in 1..Len(toks) |->
    IF i \in Pads(toks)
    THEN [k \in 1..images[PadRank(toks, i)].grid |-> seq[i]]
    ELSE <<seq[i]>>])

Cut(seq) ==
  IF Len(seq) > ResponseLengthTotal THEN SubSeq(seq, 1, ResponseLengthTotal)
  ELSE seq

---------------------------------------------------------------------------
Init ==
  /\ pc = "generate"
  /\ iteration = 0
  /\ toGenerate = Traj
  /\ left = {}
  /\ idxToRemove = {}
  /\ query = [t \in Traj |-> NoQuery]
  /\ future = [t \in Traj |-> Idle]
  /\ completed = <<>>
  /\ imageCnt = [t \in Traj |-> 0]
  /\ textCnt = [t \in Traj |-> 0]
  /\ tokens = [t \in Traj |->
       [i \in 1..PrefixLength |->
         [id |-> "text", by |-> "prompt",
          owner |-> [traj |-> t, prompt |-> PromptOf(t)]]]]
  /\ mask = [t \in Traj |-> Marks(0, PrefixLength)]
  /\ searchImages = [t \in Traj |-> <<>>]
  /\ response = [t \in Traj |-> <<>>]
  /\ responseMask = [t \in Traj |-> <<>>]

\* The head of the while loop, with work to do.
StartRound ==
  /\ pc = "generate"
  /\ iteration < MaxGenRound
  /\ toGenerate # {}
  /\ pc' = "trigger"
  /\ left' = toGenerate
  /\ idxToRemove' = {}
  /\ query' = [t \in Traj |-> NoQuery]
  /\ UNCHANGED <<iteration, toGenerate, future, completed>>
  /\ UNCHANGED <<counts, conversation, batch>>

\* An output with no id left has no last token to replace: IndexError.
EmptyOutput(t) ==
  /\ pc = "trigger"
  /\ NextInLoop(t)
  /\ \E out \in Outputs : out.ids = <<>>
  /\ pc' = "failed"
  /\ UNCHANGED <<iteration, toGenerate, left, idxToRemove>>
  /\ UNCHANGED <<calls, counts, conversation, batch>>

\* Mutant: the mask grows by what was sampled, not by what was kept.
MutAppendUncut(t, out) ==
  /\ tokens' = [tokens EXCEPT ![t] =
       Extend(@, Written(Filtered(out), "assistant",
                         [traj |-> t, prompt |-> PromptOf(t)]))]
  /\ mask' = [mask EXCEPT ![t] = @ \o Marks(1, Len(Filtered(out)))]
  /\ UNCHANGED searchImages

AppendResponse(t, out) ==
  /\ tokens' = [tokens EXCEPT ![t] =
       Extend(@, Written(Filtered(out), "assistant",
                         [traj |-> t, prompt |-> PromptOf(t)]))]
  /\ mask' = [mask EXCEPT ![t] =
       @ \o Marks(1, AppendedLen(tokens[t], Filtered(out)))]
  /\ UNCHANGED searchImages

\* Mutant: the last round may still search.
MutSearchInLastRound(t, kind) ==
  \/ kind \in {"answer", "empty_text"}
  \/ kind = "image" /\ imageCnt[t] >= ImageSearchLimit
  \/ kind = "text" /\ textCnt[t] >= TextSearchLimit

\* Mutant: one search more than the limit.
MutOverLimit(t, kind) ==
  \/ kind \in {"answer", "empty_text"}
  \/ kind = "image" /\ imageCnt[t] > ImageSearchLimit
  \/ kind = "text" /\ textCnt[t] > TextSearchLimit
  \/ LastIteration

\* Over its limit, in the last round, with no query, or with an answer.
EndsTrajectory(t, kind) ==
  \/ kind \in {"answer", "empty_text"}
  \/ kind = "image" /\ imageCnt[t] >= ImageSearchLimit
  \/ kind = "text" /\ textCnt[t] >= TextSearchLimit
  \/ LastIteration

\* One iteration of the loop over the engine's outputs.
Trigger(t, out) ==
  /\ pc = "trigger"
  /\ NextInLoop(t)
  /\ out.ids # <<>>
  /\ AppendResponse(t, out)
  /\ left' = left \ {t}
  /\ IF EndsTrajectory(t, Asks(out))
     THEN /\ idxToRemove' = idxToRemove \cup {t}
          /\ UNCHANGED <<query, counts>>
     ELSE /\ \/ /\ Asks(out) = "image"
                /\ query' = [query EXCEPT ![t] =
                     [type |-> "image",
                      owner |-> [traj |-> t, prompt |-> ImageUrl(t)]]]
                /\ imageCnt' = [imageCnt EXCEPT ![t] = @ + 1]
                /\ UNCHANGED textCnt
             \/ /\ Asks(out) = "text"
                /\ query' = [query EXCEPT ![t] =
                     [type |-> "text",
                      owner |-> [traj |-> t, prompt |-> PromptOf(t)]]]
                /\ textCnt' = [textCnt EXCEPT ![t] = @ + 1]
                /\ UNCHANGED imageCnt
          /\ UNCHANGED idxToRemove
  /\ UNCHANGED <<pc, iteration, toGenerate, future, completed, batch>>

\* After the loop: ended trajectories leave to_generate, the others' calls
\* are submitted.
SubmitCalls ==
  /\ pc = "trigger"
  /\ left = {}
  /\ pc' = "call"
  /\ toGenerate' = toGenerate \ idxToRemove
  /\ future' = [t \in Traj |->
       IF t \in toGenerate \ idxToRemove
       THEN [Idle EXCEPT !.state = "queued"] ELSE Idle]
  /\ completed' = <<>>
  /\ UNCHANGED <<iteration, left, idxToRemove, query>>
  /\ UNCHANGED <<counts, conversation, batch>>

\* A free worker takes the oldest call.
StartCall(t) ==
  /\ pc = "call"
  /\ t \in Queued
  /\ \A u \in Queued : t <= u
  /\ Cardinality(Running) < PoolSize
  /\ future' = [future EXCEPT ![t].state = "running"]
  /\ UNCHANGED <<control, query, completed, counts, conversation, batch>>

ResultsOf(t) == IF query[t].type = "image" THEN ImageResults ELSE TextResults

Finished(t, result) ==
  [state |-> "done", result |-> result, owner |-> query[t].owner]

\* Mutant: a call that raised is submitted again.
MutRetryForever(t, result) ==
  IF result.raised THEN [Idle EXCEPT !.state = "queued"]
  ELSE Finished(t, result)

\* What the future of a call that has ended holds.
AfterCall(t, result) == Finished(t, result)

\* A call ends with a result or an exception, which its future keeps; run
\* one by one, an exception leaves generate_sequences at once.
FinishCall(t, result) ==
  /\ pc = "call"
  /\ t \in Running
  /\ IF result.raised /\ ~ParallelToolCall
     THEN /\ pc' = "failed"
          /\ UNCHANGED <<future, completed>>
     ELSE /\ future' = [future EXCEPT ![t] = AfterCall(t, result)]
          /\ completed' = IF AfterCall(t, result).state = "done"
                          THEN Append(completed, t) ELSE completed
          /\ UNCHANGED pc
  /\ UNCHANGED <<iteration, toGenerate, left, idxToRemove, query>>
  /\ UNCHANGED <<counts, conversation, batch>>

AllDone == \A t \in toGenerate : future[t].state = "done"

\* [f.result() for f in search_call_futures]: one exception fails the batch.
CollectResults ==
  /\ pc = "call"
  /\ AllDone
  /\ IF \E t \in toGenerate : future[t].result.raised
     THEN /\ pc' = "failed"
          /\ UNCHANGED left
     ELSE /\ pc' = "process"
          /\ left' = toGenerate
  /\ UNCHANGED <<iteration, toGenerate, idxToRemove>>
  /\ UNCHANGED <<calls, counts, conversation, batch>>

\* Mutant: the results are read in the order as_completed yields them.
MutInCompletionOrder(t) ==
  future[completed[Cardinality({u \in toGenerate : u <= t})]]

\* search_result is read in the order of submission, which is that of
\* to_generate, whatever order the calls ended in.
SearchResult(t) == future[t]

\* One iteration of the loop over the search results.
ProcessResult(t) ==
  /\ pc = "process"
  /\ NextInLoop(t)
  /\ LET r == SearchResult(t)
         turn == UserTurn(r.result)
     IN  /\ tokens' = [tokens EXCEPT ![t] =
              Extend(@, Written(turn, "tool", r.owner))]
         /\ mask' = [mask EXCEPT ![t] =
              @ \o Marks(0, AppendedLen(tokens[t], turn))]
         /\ searchImages' = [searchImages EXCEPT ![t] =
              @ \o [k \in 1..Len(r.result.grids) |->
                     [grid |-> r.result.grids[k], owner |-> r.owner]]]
  /\ left' = left \ {t}
  /\ UNCHANGED <<pc, iteration, toGenerate, idxToRemove, calls, counts, batch>>

EndRound ==
  /\ pc = "process"
  /\ left = {}
  /\ pc' = "generate"
  /\ iteration' = iteration + 1
  /\ UNCHANGED <<toGenerate, left, idxToRemove, calls, counts>>
  /\ UNCHANGED <<conversation, batch>>

\* The while loop ends.
StopGenerating ==
  /\ pc = "generate"
  /\ ~(iteration < MaxGenRound /\ toGenerate # {})
  /\ pc' = "rebuild"
  /\ left' = Traj
  /\ UNCHANGED <<iteration, toGenerate, idxToRemove>>
  /\ UNCHANGED <<calls, counts, conversation, batch>>

AfterPrompt(seq) == SubSeq(seq, PrefixLength + 1, Len(seq))

\* Nothing was ever appended (torch.cat of no tensors), or there are more
\* image_pads than returned images.
CannotRebuild(t) ==
  LET toks == AfterPrompt(tokens[t])
      images == searchImages[t]
  IN  \/ toks = <<>>
      \/ images # <<>> /\ Cardinality(Pads(toks)) > Len(images)

RebuiltTokens(t) ==
  LET toks == AfterPrompt(tokens[t])
  IN  IF searchImages[t] = <<>> THEN toks
      ELSE Expanded(toks, toks, searchImages[t])

\* Mutant: the mask keeps one entry for each image_pad.
MutMaskNotExpanded(t) == AfterPrompt(mask[t])

RebuiltMask(t) ==
  IF searchImages[t] = <<>> THEN AfterPrompt(mask[t])
  ELSE LET toks == AfterPrompt(tokens[t])
           bits == AfterPrompt(mask[t])
           padless == [i \in 1..Len(bits) |-> IF i \in Pads(toks) THEN 0 ELSE bits[i]]
       IN  Expanded(padless, toks, searchImages[t])

\* Each image_pad becomes as many as its image has merged patches, in the
\* response and, as user tokens, in its mask.
Rebuild(t) ==
  /\ pc = "rebuild"
  /\ NextInLoop(t)
  /\ IF CannotRebuild(t)
     THEN /\ pc' = "failed"
          /\ UNCHANGED <<left, response, responseMask>>
     ELSE /\ response' = [response EXCEPT ![t] = RebuiltTokens(t)]
          /\ responseMask' = [responseMask EXCEPT ![t] = RebuiltMask(t)]
          /\ left' = left \ {t}
          /\ UNCHANGED pc
  /\ UNCHANGED <<iteration, toGenerate, idxToRemove>>
  /\ UNCHANGED <<calls, counts, conversation>>

\* The responses are cut to response_length_total (the padding is left out).
ReturnBatch ==
  /\ pc = "rebuild"
  /\ left = {}
  /\ pc' = "done"
  /\ response' = [t \in Traj |-> Cut(response[t])]
  /\ responseMask' = [t \in Traj |-> Cut(responseMask[t])]
  /\ UNCHANGED <<iteration, toGenerate, left, idxToRemove>>
  /\ UNCHANGED <<calls, counts, conversation>>

Terminating == pc \in {"done", "failed"} /\ UNCHANGED vars

Main ==
  \/ StartRound
  \/ SubmitCalls
  \/ CollectResults
  \/ EndRound
  \/ StopGenerating
  \/ ReturnBatch
  \/ \E t \in Traj :
       \/ EmptyOutput(t)
       \/ \E out \in Outputs : Trigger(t, out)
       \/ ProcessResult(t)
       \/ Rebuild(t)

Pool(t) == StartCall(t) \/ \E result \in ResultsOf(t) : FinishCall(t, result)

Next == Main \/ (\E t \in Traj : Pool(t)) \/ Terminating

\* The loop is one thread that runs on; every call has a timeout.
Fairness == WF_vars(Main) /\ \A t \in Traj : WF_vars(Pool(t))

Spec == Init /\ [][Next]_vars /\ Fairness
---------------------------------------------------------------------------
\* What the batch carries besides the response

\* Mutant: the images are looked up by prompt, before they are repeated.
MutImagesOfPrompt(t) == IF N > 1 /\ ~Validate THEN searchImages[t \div N] ELSE <<>>

\* multi_modal_data of the batch: the searched images join the prompt's own
\* when the prompts are repeated, which takes n > 1 and sampling.
BatchImages(t) == IF N > 1 /\ ~Validate THEN searchImages[t] ELSE <<>>

\* get_final_eos_mask: every position up to the last im_end.
Attended(seq) ==
  {i \in 1..Len(seq) : \E j \in i..Len(seq) : seq[j].id = "im_end"}

SumOfGrids(images) == FoldFunction(+, 0, [k \in DOMAIN images |-> images[k].grid])

---------------------------------------------------------------------------
\* Properties

TypeOK ==
  /\ pc \in {"generate", "trigger", "call", "process", "rebuild", "done", "failed"}
  /\ iteration \in 0..MaxGenRound
  /\ toGenerate \subseteq Traj
  /\ left \subseteq Traj
  /\ idxToRemove \subseteq Traj
  /\ query \in [Traj -> Queries]
  /\ future \in [Traj -> Futures]
  /\ completed \in Seq(Traj)
  /\ imageCnt \in [Traj -> 0..ImageSearchLimit]
  /\ textCnt \in [Traj -> 0..TextSearchLimit]
  /\ tokens \in [Traj -> Seq(Tokens)]
  /\ mask \in [Traj -> Seq({0, 1})]
  /\ searchImages \in [Traj -> Seq(Images)]

\* In every state the mask of a conversation has an entry for each token, and
\* marks exactly the tokens the model wrote: truncation at max_model_len
\* shortens both alike, in whichever turn it falls.
MaskMatchesAuthor ==
  \A t \in Traj :
    /\ Len(mask[t]) = Len(tokens[t])
    /\ \A i \in 1..Len(tokens[t]) :
         mask[t][i] = 1 <=> tokens[t][i].by = "assistant"

\* Whatever order the tool threads end in, a conversation only ever holds
\* text and images its own call returned.
ResultsAreOwn ==
  \A t \in Traj :
    /\ \A i \in 1..Len(tokens[t]) : tokens[t][i].owner.traj = t
    /\ \A k \in 1..Len(searchImages[t]) : searchImages[t][k].owner.traj = t

\* A trajectory searches for the image of the prompt it was sampled from:
\* image_urls is repeated in the order the prompts are.
SearchesOwnImage ==
  \A t \in Traj :
    /\ \A i \in 1..Len(tokens[t]) : tokens[t][i].owner.prompt = PromptOf(t)
    /\ \A k \in 1..Len(searchImages[t]) :
         searchImages[t][k].owner.prompt = PromptOf(t)

\* No conversation stops on a search result the model never saw: unless it
\* filled max_model_len, the model has the last word.
ModelHasLastWord ==
  pc \in {"rebuild", "done"} =>
    \A t \in Traj :
      \/ Len(tokens[t]) >= MaxModelLen
      \/ tokens[t] # <<>> /\ Last(tokens[t]).by = "assistant"

\* In the batch, after the image_pads are multiplied and the tail is cut, the
\* response mask still marks exactly the model's tokens.
ResponseMaskMatchesAuthor ==
  pc = "done" =>
    \A t \in Traj :
      /\ Len(responseMask[t]) = Len(response[t])
      /\ \A i \in 1..Len(response[t]) :
           responseMask[t][i] = 1 <=> response[t][i].by = "assistant"

\* t met neither max_model_len nor response_length_total.
Uncut(t) ==
  /\ Len(tokens[t]) < MaxModelLen
  /\ Len(response[t]) < ResponseLengthTotal

\* The batch has as many image_pads as its returned images have patches, so
\* that the actor can place their features, unless the response was cut.  It
\* needs results with one image_pad per image, which those of
\* search_google_lens are not.
PadsMatchImages ==
  pc = "done" =>
    \A t \in Traj :
      Uncut(t) => Cardinality(Pads(response[t])) = SumOfGrids(BatchImages(t))

MarksAttended(t) ==
  \A i \in 1..Len(response[t]) :
    responseMask[t][i] = 1 => i \in Attended(response[t])

\* Every token the mask gives to the model is attended: the actor multiplies the
\* two masks, so another one would drop out of the loss unnoticed.  In a
\* response that was cut, those behind the last im_end do.
MarkedTokensAttended == pc = "done" => \A t \in Traj : Uncut(t) => MarksAttended(t)

\* Every call of generate_sequences returns a batch or raises.
Completes == <>(pc \in {"done", "failed"})
===========================================================================
