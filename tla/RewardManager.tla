--------------------------- MODULE RewardManager ---------------------------
(***************************************************************************)
(* MMSearchR1_RewardManager on a row of the batch: the model's turns are   *)
(* found again from multi_turn_response_mask, scored for their answer and  *)
(* their format, and in the shaping modes the searches among them earn a   *)
(* bonus.                                                                  *)
(*                                                                         *)
(* A token stands for what the reward looks for: a <reason> block, the     *)
(* image search, the tags of a text search, an <answer> that is right or   *)
(* wrong, the header of a result, or text that holds a gold answer.        *)
(* Rewards are in thousandths, penalties in tenths.                        *)
(***************************************************************************)
EXTENDS Integers, FiniteSets, Sequences, SequencesExt

CONSTANTS
  Searches,             \* model turns that ask for a search
  LastTurns,            \* model turns that end a trajectory
  ToolTurns,            \* user turns with a search result
  MaxRounds,            \* bound: model turns in a row
  ResponseLengthTotals, \* widths of a batch of responses
  FormatPenalty,        \* format_penalty, in tenths
  Prices                \* search_penalty, in tenths, with the bonus of an action,
                        \* in thousandths

Ids == {"text", "gold", "results", "reason", "image_search", "open", "close",
        "right", "wrong", "im_end", "pad"}
Modes == {"outcome_only", "search_success_shaping", "dagig_lite_proxy",
          "dagig_offline"}
Tools == {"image_search", "text_search"}

ASSUME RewardAssumption ==
  /\ Searches \cup LastTurns \cup ToolTurns \subseteq Seq(Ids \ {"pad"}) \ {<<>>}
  /\ MaxRounds \in Nat \ {0}
  /\ ResponseLengthTotals \subseteq Nat \ {0}
  /\ FormatPenalty \in 0..10
  /\ Prices \subseteq (-10..10) \X Nat

VARIABLES
  row,      \* the response and the author of its tokens
  info,     \* extra_info
  status,   \* "waiting", "scored", or "raised"
  score,    \* compute_score
  spans     \* the actions that earned the bonus, spread over their tokens

rewardVars == <<row, info, status, score, spans>>

---------------------------------------------------------------------------
\* The elements of s that are in S, in their order.
Keep(s, S) == FoldLeft(LAMBDA kept, x : IF x \in S THEN Append(kept, x) ELSE kept, <<>>, s)

\* The k-th of a set of positions.
Nth(S, k) == CHOOSE i \in S : Cardinality({j \in S : j < i}) = k - 1

---------------------------------------------------------------------------
\* Rows, as a rollout returns them

Written(ids, turn) == [i \in 1..Len(ids) |-> [id |-> ids[i], turn |-> turn]]

\* Searches with their results, and a last model turn.  The model's turns are
\* the odd ones.
Dialogues ==
  {FlattenSeq([i \in 1..Len(d) |-> Written(d[i], i)]) :
    d \in UNION {
      {FlattenSeq(rounds) \o <<last>> :
         rounds \in [1..n -> Searches \X ToolTurns], last \in LastTurns} :
      n \in 0..(MaxRounds - 1)}}

\* Cut, or padded on the right, to the width of the batch.
Fit(tokens, width) ==
  [i \in 1..width |->
    IF i <= Len(tokens) THEN tokens[i] ELSE [id |-> "pad", turn |-> 0]]

Rows == {Fit(tokens, width) :
          tokens \in Dialogues, width \in ResponseLengthTotals}

ByModel(token) == token.turn % 2 = 1
IdsOf(tokens) == [i \in 1..Len(tokens) |-> tokens[i].id]

\* multi_turn_response_mask after the prompt.
Mask == [i \in 1..Len(row) |-> IF ByModel(row[i]) THEN 1 ELSE 0]

\* The sum of the response's attention_mask, which ends at the last im_end.
ValidLength ==
  Cardinality({i \in 1..Len(row) : \E j \in i..Len(row) : row[j].id = "im_end"})
ValidIds == IdsOf(SubSeq(row, 1, ValidLength))

---------------------------------------------------------------------------
\* The model's turns

SegmentStarts == {i \in 1..Len(row) : Mask[i] = 1 /\ (i = 1 \/ Mask[i - 1] = 0)}

\* Mutant: no 0 is appended to the mask.
MutNothingAppended ==
  {i \in 1..(Len(row) - 1) : Mask[i] = 1 /\ Mask[i + 1] = 0}

SegmentEnds ==
  {i \in 1..Len(row) : Mask[i] = 1 /\ (i = Len(row) \/ Mask[i + 1] = 0)}

Segments ==
  LET starts == SegmentStarts
      ends == SegmentEnds
  IN  [k \in 1..Cardinality(ends) |-> SubSeq(row, Nth(starts, k), Nth(ends, k))]

\* Decoded without special tokens.
Responses ==
  LET turns == Segments
  IN  [k \in 1..Len(turns) |-> Keep(IdsOf(turns[k]), Ids \ {"im_end", "pad"})]

Has(response, id) == Contains(response, id)
Count(response, id) == Cardinality({i \in DOMAIN response : response[i] = id})
Asks(response) ==
  Has(response, "image_search") \/ (Has(response, "open") /\ Has(response, "close"))
Answers(response) == Count(response, "right") + Count(response, "wrong")

Reasons(response) ==
  /\ response # <<>>
  /\ response[1] = "reason"
  /\ Count(response, "reason") = 1

IsValidDirectAnswer(response) ==
  /\ Reasons(response)
  /\ Answers(response) = 1
  /\ Last(response) \in {"right", "wrong"}
  /\ \A id \in {"image_search", "open", "close"} : ~Has(response, id)

IsValidImageSearch(response) ==
  /\ Reasons(response)
  /\ Count(response, "image_search") = 1
  /\ Last(response) = "image_search"
  /\ \A id \in {"right", "wrong", "open", "close"} : ~Has(response, id)

IsValidTextSearch(response) ==
  /\ Reasons(response)
  /\ Count(response, "open") = 1 /\ Count(response, "close") = 1
  /\ Last(response) = "close"
  /\ \A id \in {"right", "wrong", "image_search"} : ~Has(response, id)

FormatScore ==
  LET turns == Responses
      n == Len(turns)
      ok == /\ IsValidDirectAnswer(Last(turns))
            /\ n = 2 => \/ IsValidImageSearch(turns[1])
                        \/ IsValidTextSearch(turns[1])
            /\ n = 3 => /\ IsValidImageSearch(turns[1])
                        /\ IsValidTextSearch(turns[2])
  IN  IF ok THEN 1 ELSE 0

\* The last turn counts only if it is the first one.
SearchCount ==
  LET turns == Responses
      n == Len(turns)
  IN  Cardinality({k \in 1..n : (k < n \/ n = 1) /\ Asks(turns[k])})

\* The last <answer> of the last response is what is compared.
Correct ==
  LET response == Last(Responses)
      answers == Keep(response, {"right", "wrong"})
  IN  answers # <<>> /\ Last(answers) = "right"

\* Hundredths: a correct answer loses the penalty once, or for each search.
AnswerScore ==
  LET kept == 10 - info.price[1]
      count == SearchCount
      times == IF info.countPenalty \/ count = 0 THEN count ELSE 1
  IN  IF Correct THEN (CASE times = 0 -> 100
                         [] times = 1 -> 10 * kept
                         [] OTHER     -> kept * kept)
      ELSE 0

ComputeScore ==
  (10 - FormatPenalty) * AnswerScore + FormatPenalty * 100 * FormatScore

\* No turn at all, or more than format_reward knows of.
CannotScore == Len(Responses) \notin 1..3

---------------------------------------------------------------------------
\* The bonus

\* The part of the mask that is compared with the valid ids: the last entries
\* of the row, as many as it has valid ids.
ObservationMask == SubSeq(Mask, Len(row) - ValidLength + 1, Len(row))

Observation ==
  LET valid == ValidIds
      mask == ObservationMask
  IN  {valid[i] : i \in {j \in 1..Len(valid) : mask[j] = 0}}

\* has_dagig_proxy_support: a header, and a gold answer anywhere.
ProxySupport == "results" \in Observation /\ Observation \cap {"gold", "right"} # {}

\* TEXT_SEARCH_RE matches from an opening tag to the next closing one.
TextMatches(response) ==
  LET Closes(i) == {j \in i..Len(response) : response[j] = "close"}
      starts == {i \in 1..Len(response) :
                  /\ response[i] = "open"
                  /\ Closes(i) # {}
                  /\ \A k \in 1..(i - 1) : response[k] = "open" =>
                       \E j \in k..i : response[j] = "close"}
      ToNext(i) == SubSeq(response, i, Nth(Closes(i), 1))
  IN  [n \in 1..Cardinality(starts) |->
        [ids |-> ToNext(Nth(starts, n)), tool |-> "text_search"]]

ActionsOf(response) ==
  TextMatches(response)
    \o (IF Has(response, "image_search")
        THEN <<[ids |-> <<"image_search">>, tool |-> "image_search"]>> ELSE <<>>)

Occurrences(ids) ==
  LET valid == ValidIds
  IN  {s \in 1..(Len(valid) - Len(ids) + 1) :
        SubSeq(valid, s, s + Len(ids) - 1) = ids}

\* Mutant: used_starts is not looked at.
MutFirstOccurrence(ids, found) == Occurrences(ids)

\* Where an action's ids occur and no other action was found.
Free(ids, found) == Occurrences(ids) \ {found[n].start : n \in DOMAIN found}

SearchActionSpans ==
  LET turns == Responses
  IN  FoldLeft(
        LAMBDA found, action :
          LET free == Free(action.ids, found)
          IN  IF free = {} THEN found
              ELSE Append(found,
                          [start |-> Nth(free, 1),
                           length |-> Len(action.ids),
                           tool |-> action.tool]),
        <<>>, FlattenSeq([k \in 1..Len(turns) |-> ActionsOf(turns[k])]))

\* Mutant: any score at all is taken for a correct answer.
MutNoThreshold == 0

\* "format_penalty or 0.1": a penalty of 0 counts as 0.1.
CorrectThreshold == 100 * (IF FormatPenalty = 0 THEN 1 ELSE FormatPenalty)

\* Mutant: a wrong answer is paid too, whatever correct_only says.
MutShaped ==
  /\ info.price[2] > 0
  /\ info.mode # "outcome_only"
  /\ info.mode = "dagig_lite_proxy" => ProxySupport
  /\ info.mode = "dagig_offline" => info.edge # "none"

\* What earns a row its bonus.
Shaped ==
  /\ info.price[2] > 0
  /\ info.mode # "outcome_only"
  /\ info.correctOnly => ComputeScore > CorrectThreshold
  /\ info.mode = "dagig_lite_proxy" => ProxySupport
  /\ info.mode = "dagig_offline" => info.edge # "none"

Rewarded ==
  IF ~Shaped THEN <<>>
  ELSE IF info.mode = "dagig_offline"
  THEN Keep(SearchActionSpans, {span \in ToSet(SearchActionSpans) : span.tool = info.edge})
  ELSE SearchActionSpans

\* An action's tokens share its bonus.
SpanBonus(span) == info.price[2]

\* The sum of the row's token_level_scores.
RowReward == FoldLeft(LAMBDA sum, span : sum + SpanBonus(span), score, spans)

---------------------------------------------------------------------------
\* The offline edge of a prompt: the search it recommends, if it has one.
Edges(mode) == IF mode = "dagig_offline" THEN Tools \cup {"none"} ELSE {"none"}

RewardInit ==
  /\ row \in Rows
  /\ info \in [mode : Modes, correctOnly : BOOLEAN, edge : Tools \cup {"none"},
               price : Prices, countPenalty : BOOLEAN]
  /\ info.edge \in Edges(info.mode)
  /\ status = "waiting"
  /\ score = 0
  /\ spans = <<>>

\* Without a valid id the mask is not cut at all, and does not fit: IndexError.
Score ==
  /\ status = "waiting"
  /\ IF ValidLength = 0 \/ CannotScore
     THEN /\ status' = "raised"
          /\ UNCHANGED <<score, spans>>
     ELSE /\ status' = "scored"
          /\ score' = ComputeScore
          /\ spans' = Rewarded
  /\ UNCHANGED <<row, info>>

---------------------------------------------------------------------------
\* Properties

\* The responses that are scored are the model's turns, one each and in order,
\* wherever the row was cut: a turn is never split, joined or lost.
ResponsesAreTurns ==
  LET turns == {row[i].turn : i \in {j \in 1..Len(row) : ByModel(row[j])}}
      found == Segments
  IN  /\ Len(found) = Cardinality(turns)
      /\ \A k \in 1..Len(found) :
           LET turn == {i \in 1..Len(row) : row[i].turn = 2 * k - 1}
           IN  found[k] = [n \in 1..Cardinality(turn) |-> row[Nth(turn, n)]]

\* A search is rewarded at most once, also when it is asked for again or its
\* text comes back in a result.
RewardedOnce ==
  /\ \A m, n \in DOMAIN spans : spans[m].start = spans[n].start => m = n
  /\ \A tool \in Tools :
       Cardinality({n \in DOMAIN spans : spans[n].tool = tool}) <=
         Cardinality({i \in 1..Len(row) :
           ByModel(row[i]) /\ row[i].id =
             IF tool = "image_search" THEN "image_search" ELSE "open"})

\* The shaping tells a correct answer by its score: no format or penalty makes
\* a correct answer miss the threshold, or a wrong one pass it.
ThresholdTellsCorrect ==
  status = "scored" => (score > CorrectThreshold <=> Correct)

\* The proxy rewards a search only if something other than the model wrote a
\* gold answer: a query or an answer of its own does not count.
ProxyNeedsObservation ==
  info.mode = "dagig_lite_proxy" /\ spans # <<>> =>
    \E i \in 1..Len(row) : ~ByModel(row[i]) /\ row[i].id = "gold"
===========================================================================
