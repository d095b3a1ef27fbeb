------------------------------- MODULE DagIg -------------------------------
(***************************************************************************)
(* The DAG-IG pipeline of projects/dagig_mmsearch: a rollout turns samples  *)
(* into trajectories of tool steps (agent/rollout.py, or the teacher chain  *)
(* of eval/run_offline_dependency_relabel.py), a pool keeps their steps as  *)
(* counterfactuals of one another (reward/typed_pool.py), each trajectory   *)
(* is scored against the pool (reward/dag_ig.py), and what the relabelling  *)
(* selects is what training loads (mmsearch_r1/utils/dagig_offline.py).     *)
(* A text is a sequence of words; answers are single words.  Gains are in   *)
(* hundredths; how a log-probability comes about is left open.              *)
(***************************************************************************)
EXTENDS Integers, SequencesExt

CONSTANTS
  Words,            \* the words texts are made of
  Modes,            \* the entry points: subsets of AllModes
  Samples,          \* the samples a job may hold, see SampleAssumption
  Limit,            \* Limit[m]: the number of samples of a job in mode m
  Observations,     \* what a search may return: text, and the answer field
  PolicyOutputs,    \* what parse_action may make of the policy's first output
  Answers,          \* the words the policy may answer with at the end
  RawGains,         \* log-probability differences
  MaxSummaryTokens, \* max_summary_tokens of the dispatcher
  MaxAnchor,        \* the words of an evidence anchor, 8 in the code
  MaxPerType,       \* max_per_type of the pool
  CfSamples,        \* cf_samples
  MinFutureIg       \* min_future_ig

AllModes == {"relabel", "two_turn", "prompted", "agentic"}
SearchToolTypes == {"text_search", "image_search"}
ToolTypes == SearchToolTypes \cup {"stop"}
None == "none"
Unknown == "unknown"
Hidden == "[hidden]"
Placeholder == <<"query">>

Texts == Seq(Words)

ASSUME SampleAssumption ==
  /\ Modes \subseteq AllModes
  /\ {Unknown, Hidden, None} \subseteq Words
  /\ Samples \subseteq
       [id : Words, question : Texts \ {<<>>}, bridge : BOOLEAN, image : Words,
        golds : Texts \ {<<>>}, direct : Words, needs : BOOLEAN]
  /\ Observations \subseteq [text : Texts \ {<<>>}, answer : Words]
  /\ PolicyOutputs \subseteq [tool : STRING, text : Texts]
  /\ Answers \subseteq Words
  /\ \A s \in Samples : {Unknown, Hidden, None} \cap ToSet(s.golds) = {}

ASSUME SizeAssumption ==
  /\ Limit \in [AllModes -> Nat]
  /\ {MaxSummaryTokens, MaxAnchor, MaxPerType, CfSamples} \subseteq Nat \ {0}
  /\ MinFutureIg \in Nat
  /\ RawGains \subseteq Int

VARIABLES
  mode,             \* the entry point of this job
  redact,           \* redact_observation_answers, or redact_early_answer
  index,            \* what the indexes answered, by tool and query
  trajs,            \* the trajectories of the rollout
  pool,             \* by_type of the pool
  pc,               \* rollout, fill (relabel), score, load (relabel), done
  scored,           \* how many trajectories are scored
  output,           \* the DAGIGOutput of the last scored trajectory
  rows,             \* the rows of selected_output
  edges             \* what load_dagig_offline_edges returns

vars == <<mode, redact, index, trajs, pool, pc, scored, output, rows, edges>>

MinOf(a, b) == IF a <= b THEN a ELSE b
MaxOf(a, b) == IF a >= b THEN a ELSE b
Distance(a, b) == MaxOf(a, b) - MinOf(a, b)

\* What d[k] = v does to a dict.
Put(d, k, v) == [x \in DOMAIN d \cup {k} |-> IF x = k THEN v ELSE d[x]]

NoOutput == [cfs |-> <<>>, g |-> <<>>, d |-> <<>>, r |-> <<>>, totals |-> <<>>, tokens |-> <<>>]

Init ==
  /\ mode \in Modes
  /\ redact \in IF mode \in {"relabel", "two_turn"} THEN BOOLEAN ELSE {FALSE}
  /\ index = <<>>
  /\ trajs = <<>>
  /\ pool = [t \in ToolTypes |-> <<>>]
  /\ pc = "rollout"
  /\ scored = 0
  /\ output = NoOutput
  /\ rows = <<>>
  /\ edges = <<>>

(***************************************************************************)
(* Rollout                                                                 *)
(***************************************************************************)
Summary(text) == SubSeq(text, 1, MinOf(Len(text), MaxSummaryTokens))

\* Mutant: only the first of the aliases is redacted.
MutRedactText(text, golds) ==
  [i \in DOMAIN text |-> IF text[i] = Head(golds) THEN Hidden ELSE text[i]]

RedactText(text, golds) ==
  [i \in DOMAIN text |-> IF text[i] \in ToSet(golds) THEN Hidden ELSE text[i]]

\* Mutant: the span of a step starts where the span before it started.
MutMakeStep(steps, tool, action, text, answer) ==
  LET start == IF steps = <<>> THEN 0 ELSE Last(steps).start
  IN [id |-> Len(steps), tool |-> tool, action |-> action, start |-> start,
      end |-> start + Len(action), text |-> text, summary |-> Summary(text),
      answer |-> answer]

\* _make_step: the step behind steps, its action at the end of the response
MakeStep(steps, tool, action, text, answer) ==
  LET start == IF steps = <<>> THEN 0 ELSE Last(steps).end
  IN [id |-> Len(steps), tool |-> tool, action |-> action, start |-> start,
      end |-> start + Len(action), text |-> text, summary |-> Summary(text),
      answer |-> answer]

WithStop(steps, answer) ==
  Append(steps, MakeStep(steps, "stop", <<answer>>, <<answer>>, answer))

\* A trajectory; probe is what the three tool-free answers agree on, or None.
Trajectory(s, steps, probe) == [sample |-> s, steps |-> steps, probe |-> probe]

\* An index answers a query as it answered it before.
Found(tool, query) ==
  IF <<tool, query>> \in DOMAIN index THEN {index[<<tool, query>>]} ELSE Observations
Seen(found, tool, query, o) == Put(found, <<tool, query>>, o)

DefaultTool(s) == IF s.bridge \/ s.image # None THEN "image_search" ELSE "text_search"
AnswerOf(o, fallback) == IF o.answer # None THEN o.answer ELSE fallback
Probe(s) == IF ~s.needs /\ s.direct # Unknown THEN s.direct ELSE None

Finish(s, steps, probe) == trajs' = Append(trajs, Trajectory(s, steps, probe))

\* build_dependency_trajectories: image search, text search with the words of
\* its evidence, and the gold answer
Keep(kept, w, question) ==
  IF w \in ToSet(question) \/ Len(kept) >= MaxAnchor THEN kept ELSE Append(kept, w)

EvidenceAnchor(summary, question) ==
  LET kept == FoldLeft(LAMBDA k, w : Keep(k, w, question), <<>>, summary)
  IN IF kept = <<>> THEN question ELSE kept

Teach(s) ==
  LET gold == Head(s.golds)
      imageAction == <<IF s.image # None THEN s.image ELSE s.id>> \o s.question
  IN \E o \in Found("image_search", imageAction) :
       LET text == IF redact THEN RedactText(o.text, s.golds) ELSE o.text
           first == <<MakeStep(<<>>, "image_search", imageAction, text, None)>>
           textAction == EvidenceAnchor(first[1].summary, s.question) \o s.question
       IN \E p \in Found("text_search", textAction) :
            /\ index' = Seen(Seen(index, "image_search", imageAction, o), "text_search", textAction, p)
            /\ Finish(s, WithStop(Append(first,
                 MakeStep(first, "text_search", textAction, p.text, gold)), gold), None)

\* prompted_search_rollout
Prompted(s) ==
  LET tool == IF s.bridge THEN "image_search" ELSE "text_search"
  IN \E o \in Found(tool, s.question) :
       LET answer == AnswerOf(o, Unknown)
           first == <<MakeStep(<<>>, tool, s.question, o.text, answer)>>
       IN /\ index' = Seen(index, tool, s.question, o)
          /\ Finish(s, WithStop(first, answer), IF s.needs THEN None ELSE s.direct)

\* _repair_placeholder_action
Repair(s, act) ==
  IF act.text \notin {<<>>, Placeholder} \/ act.tool \notin ToolTypes THEN act
  ELSE [act EXCEPT !.text = IF act.tool = "stop" THEN <<Unknown>> ELSE s.question]

\* _first_agent_action with the three fallbacks of agentic_search_rollout
Scripted(s, out) ==
  LET default == [tool |-> DefaultTool(s), text |-> s.question]
  IN IF ~s.needs /\ s.direct # Unknown THEN [tool |-> "stop", text |-> <<s.direct>>]
     ELSE IF out.tool = "stop" /\ out.text \in {<<>>, <<Unknown>>} /\ s.needs THEN default
     ELSE IF out.tool \notin ToolTypes THEN default
     ELSE out

\* agentic_search_rollout
Agentic(s) ==
  \E out \in PolicyOutputs :
    LET act == Repair(s, Scripted(s, out))
    IN \/ /\ act.tool = "stop"
          /\ Finish(s, WithStop(<<>>, Head(act.text)), Probe(s))
          /\ UNCHANGED index
       \/ /\ act.tool \in SearchToolTypes
          /\ \E o \in Found(act.tool, act.text) :
               LET answer == AnswerOf(o, s.direct)
                   first == <<MakeStep(<<>>, act.tool, act.text, o.text, answer)>>
               IN /\ index' = Seen(index, act.tool, act.text, o)
                  /\ Finish(s, WithStop(first, answer), Probe(s))

\* model_agent_two_turn_rollout: the answer fields are stripped, so a step's
\* metadata holds none, and the policy answers from the summary
TwoTurn(s) ==
  \E out \in PolicyOutputs :
    LET act == Repair(s, out)
    IN \/ /\ act.tool \notin SearchToolTypes
          /\ Finish(s, WithStop(<<>>, IF act.text = <<>> THEN Unknown ELSE Head(act.text)), Probe(s))
          /\ UNCHANGED index
       \/ /\ act.tool \in SearchToolTypes
          /\ \E o \in Found(act.tool, act.text), answer \in Answers :
               LET text == IF redact THEN RedactText(o.text, s.golds) ELSE o.text
               IN /\ index' = Seen(index, act.tool, act.text, o)
                  /\ Finish(s, WithStop(<<MakeStep(<<>>, act.tool, act.text, text, None)>>, answer),
                            Probe(s))

Rollout(s) ==
  /\ pc = "rollout"
  /\ Len(trajs) < Limit[mode]
  /\ \/ mode = "relabel" /\ Teach(s)
     \/ mode = "prompted" /\ Prompted(s)
     \/ mode = "agentic" /\ Agentic(s)
     \/ mode = "two_turn" /\ TwoTurn(s)
  /\ UNCHANGED <<mode, redact, pool, pc, scored, output, rows, edges>>

EndRollout ==
  /\ pc = "rollout"
  /\ pc' = IF mode = "relabel" THEN "fill" ELSE "score"
  /\ UNCHANGED <<mode, redact, index, trajs, pool, scored, output, rows, edges>>

(***************************************************************************)
(* The pool                                                                *)
(***************************************************************************)
SameStep(x, y) == x.id = y.id /\ x.action = y.action

\* Mutant: a step enters the pool each time it is added.
MutAdd(p, x) ==
  LET bucket == Append(p[x.tool], x)
      over == MaxOf(0, Len(bucket) - MaxPerType)
  IN [p EXCEPT ![x.tool] = SubSeq(bucket, over + 1, Len(bucket))]

\* add: steps are told apart by step_id and action_text, the oldest leave
Add(p, x) ==
  LET old == p[x.tool]
      bucket == IF \E y \in ToSet(old) : SameStep(y, x) THEN old ELSE Append(old, x)
      over == MaxOf(0, Len(bucket) - MaxPerType)
  IN [p EXCEPT ![x.tool] = SubSeq(bucket, over + 1, Len(bucket))]

AddMany(p, steps) == FoldLeft(Add, p, steps)

Entities(x) == ToSet(x.action) \cup ToSet(x.summary)

\* _is_hard_negative; no step of these rollouts has a semantic_id
HardNegative(x, c) ==
  \/ x.answer # None /\ c.answer # None /\ x.answer # c.answer
  \/ /\ x.tool = "text_search"
     /\ Entities(x) \cap Entities(c) # {}
     /\ x.summary # c.summary

\* What x is compared with, by position in its bucket.
Candidates(bucket, x) == {i \in DOMAIN bucket : ~SameStep(bucket[i], x)}

\* _candidate_key: hard negatives first, then the closer length; ties stay in
\* the order of the bucket
Before(x, bucket, i, j) ==
  LET a == bucket[i]  b == bucket[j]
      Near(c) == Distance(Len(x.text), Len(c.text))
  IN IF HardNegative(x, a) # HardNegative(x, b) THEN HardNegative(x, a)
     ELSE IF Near(a) # Near(b) THEN Near(a) < Near(b)
     ELSE i < j

\* The candidates as they are sorted.
Ranked(x, bucket) ==
  LET cands == Candidates(bucket, x)
      Rank(i) == Cardinality({j \in cands : j = i \/ Before(x, bucket, j, i)})
  IN [n \in 1..Cardinality(cands) |-> bucket[CHOOSE i \in cands : Rank(i) = n]]

Masked(x) == [masked |-> TRUE, tool |-> x.tool, id |-> x.id, action |-> <<>>,
              summary |-> <<"masked">>]
Counterfactual(c) == [masked |-> FALSE, tool |-> c.tool, id |-> c.id, action |-> c.action,
                      summary |-> c.summary]

\* sample: the best candidates, and masked observations where they run out
SampleCfs(p, x) ==
  LET best == Ranked(x, p[x.tool])
  IN [i \in 1..CfSamples |-> IF i <= Len(best) THEN Counterfactual(best[i]) ELSE Masked(x)]

(***************************************************************************)
(* The reward.  Gains are in 1/100, returns in 1/20000 (lambda_dep is 1/2), *)
(* totals in 1/200000 (alpha 4/10, beta 2/10, gamma 5/100).                 *)
(***************************************************************************)
DeadZone == 2
Clip(v) == MaxOf(-200, MinOf(200, v))
Stabilize(v) ==
  IF Distance(v, 0) < DeadZone THEN 0 ELSE Clip(IF v < 0 THEN v \div 4 ELSE v)

\* With every replacement equal to what it replaces, the contexts are the same.
Gain(x, cfs, raw) == IF \A i \in DOMAIN cfs : cfs[i].summary = x.summary THEN 0 ELSE raw
LocalIG(x, cfs, raw) == Stabilize(Gain(x, cfs, raw))
FutureIG(x, cfs, raw) ==
  LET v == Gain(x, cfs, raw) IN IF Distance(v, 0) < DeadZone THEN 0 ELSE Clip(MaxOf(0, v))

\* dagig_lite_returns
Returns(g, d) ==
  [i \in DOMAIN g |->
     200 * g[i] + (IF i = Len(g) THEN 0 ELSE d[i] * MaxOf(g[i + 1], 0))]

\* score of the gate, in quarters
Gate(t, x) ==
  CASE t.probe # None /\ x.tool = "stop" -> IF t.probe \in ToSet(x.action) THEN 4 ELSE -2
    [] t.probe # None /\ x.tool # "stop" -> -1
    [] t.probe = None /\ x.tool # "stop" -> 2
    [] OTHER -> -2

\* score of the cost model, in tenths
Cost(x) == CASE x.tool = "text_search" -> 10 [] x.tool = "image_search" -> 15 [] OTHER -> 0

\* inject_span_rewards for one step: what is added to a token is kept as a pair
\* of a total and the length it is divided by
Inject(tokens, x, totals) ==
  [pos \in DOMAIN tokens |->
     IF x.start < pos /\ pos <= x.end
     THEN Append(tokens[pos], <<totals[x.id + 1], x.end - x.start>>) ELSE tokens[pos]]

\* for all steps
TokenRewards(steps, totals) ==
  FoldLeft(LAMBDA tokens, x : Inject(tokens, x, totals),
           [pos \in 1..Last(steps).end |-> <<>>], steps)

\* compute, with the counterfactuals sampled for each step; score_edge samples
\* those of score_step again, since nothing enters the pool in between
Compute(t, cfs, raw, rawEdges) ==
  LET g == [i \in DOMAIN t.steps |-> LocalIG(t.steps[i], cfs[i], raw[i])]
      d == [i \in 1..(Len(t.steps) - 1) |-> FutureIG(t.steps[i], cfs[i], rawEdges[i])]
      r == Returns(g, d)
      totals == [i \in DOMAIN t.steps |->
                   4 * r[i] + 10000 * Gate(t, t.steps[i]) - 1000 * Cost(t.steps[i])]
  IN [cfs |-> cfs, g |-> g, d |-> d, r |-> r, totals |-> totals,
      tokens |-> TokenRewards(t.steps, totals)]

(***************************************************************************)
(* Scoring and relabelling                                                 *)
(***************************************************************************)
\* Mutant: the pool is left to fill as the trajectories are scored.
MutFill ==
  /\ pc = "fill"
  /\ pc' = "score"
  /\ UNCHANGED <<mode, redact, index, trajs, pool, scored, output, rows, edges>>

\* The first loop of main: every trajectory's steps, before any is scored.
Fill ==
  /\ pc = "fill"
  /\ pool' = FoldLeft(LAMBDA p, t : AddMany(p, t.steps), pool, trajs)
  /\ pc' = "score"
  /\ UNCHANGED <<mode, redact, index, trajs, scored, output, rows, edges>>

\* any_contains
Shows(x, words) == ToSet(x.summary) \cap ToSet(words) # {}

\* Mutant: whether the image search had shown the answer is not asked.
MutSelected(t, out) == out.d[1] > MinFutureIg /\ out.g[2] > 0

\* selected_for_dependency_training
Selected(t, out) ==
  /\ out.d[1] > MinFutureIg
  /\ out.g[2] > 0
  /\ ~Shows(t.steps[1], t.sample.golds)

\* build_edge_row, of which training reads the tool and the weights
Row(t, out) == [id |-> t.sample.id, tool |-> t.steps[1].tool, g0 |-> out.g[1], r0 |-> out.r[1]]

Score ==
  /\ pc = "score"
  /\ scored < Len(trajs)
  /\ LET t == trajs[scored + 1]
         p == AddMany(pool, t.steps)
         cfs == [i \in DOMAIN t.steps |-> SampleCfs(p, t.steps[i])]
     IN /\ pool' = p
        /\ \E raw \in [DOMAIN t.steps -> RawGains], rawEdges \in [1..(Len(t.steps) - 1) -> RawGains] :
             output' = Compute(t, cfs, raw, rawEdges)
        /\ rows' = IF mode = "relabel" /\ Selected(t, output') THEN Append(rows, Row(t, output')) ELSE rows
  /\ scored' = scored + 1
  /\ UNCHANGED <<mode, redact, index, trajs, pc, edges>>

EndScore ==
  /\ pc = "score"
  /\ scored = Len(trajs)
  /\ pc' = IF mode = "relabel" THEN "load" ELSE "done"
  /\ UNCHANGED <<mode, redact, index, trajs, pool, scored, output, rows, edges>>

\* load_dagig_offline_edges: by sample id, a later row replaces an earlier one
Load ==
  /\ pc = "load"
  /\ edges' = FoldLeft(LAMBDA e, r : Put(e, r.id, r), <<>>, rows)
  /\ pc' = "done"
  /\ UNCHANGED <<mode, redact, index, trajs, pool, scored, output, rows>>

Done == pc = "done" /\ UNCHANGED vars

Next ==
  \/ \E s \in Samples : Rollout(s)
  \/ EndRollout
  \/ Fill
  \/ Score
  \/ EndScore
  \/ Load
  \/ Done

Spec == Init /\ [][Next]_vars

(***************************************************************************)
(* Properties                                                              *)
(***************************************************************************)
\* The pipeline's state is of its type: spans are not empty and follow one
\* another, and no bucket of the pool is larger than max_per_type.
TypeOK ==
  /\ mode \in Modes
  /\ pc \in {"rollout", "fill", "score", "load", "done"}
  /\ scored \in 0..Len(trajs)
  /\ Len(trajs) <= Limit[mode]
  /\ \A t \in ToSet(trajs) : \A i \in DOMAIN t.steps :
       /\ t.steps[i].id = i - 1
       /\ t.steps[i].tool \in ToolTypes
       /\ t.steps[i].start = (IF i = 1 THEN 0 ELSE t.steps[i - 1].end)
       /\ t.steps[i].start < t.steps[i].end
  /\ \A tool \in ToolTypes : Len(pool[tool]) <= MaxPerType
  /\ Len(rows) <= IF mode = "relabel" THEN scored ELSE 0

\* The trajectories whose steps the pool was given when the last one was
\* scored: all of them when relabelling, else those up to that one.
Known == IF mode = "relabel" THEN trajs ELSE SubSeq(trajs, 1, scored)

\* Every step is compared with steps of its own tool that did something else,
\* with as many of them as the job holds (up to cf_samples), and with masked
\* observations only beyond; when relabelling, whatever the order of the
\* samples.  Stated for jobs that max_per_type has room for.
ComparedWithOthers ==
  scored > 0 /\ Len(Known) <= MaxPerType =>
    LET known == UNION {ToSet(t.steps) : t \in ToSet(Known)}
    IN \A k \in DOMAIN output.cfs :
      LET x == trajs[scored].steps[k]
          others == {<<y.id, y.action>> : y \in {z \in known : z.tool = x.tool}}
                      \ {<<x.id, x.action>>}
          real == {<<c.id, c.action>> : c \in {e \in ToSet(output.cfs[k]) : ~e.masked}}
      IN /\ real \subseteq others
         /\ Cardinality(real) = MinOf(CfSamples, Cardinality(others))
         /\ \A c \in ToSet(output.cfs[k]) : c.tool = x.tool

\* Scoring a job that was relabelled as a whole, and fits the pool, does not
\* change the pool: no score depends on the trajectories scored before.
ScoringKeepsPool ==
  [][mode = "relabel" /\ pc = "score" /\ Len(trajs) <= MaxPerType => pool' = pool]_vars

\* The policy of the two-turn rollout answers from a summary that holds none of
\* the gold answers ("an answer-hidden evidence summary").  Left out are index
\* and score, which summarize_observation adds behind the redaction: an answer
\* that is a number may still be seen there.
AnswerHidden ==
  mode = "two_turn" /\ redact =>
    \A t \in ToSet(trajs) :
      \A x \in ToSet(t.steps) : x.tool # "stop" => ~Shows(x, t.sample.golds)

\* The step that wrote each token of the response
Writers(steps) ==
  FlattenSeq([k \in DOMAIN steps |-> [i \in DOMAIN steps[k].action |-> k]])

\* Each token of the response bears its part of the reward of the step that
\* wrote it, and of no other.
RewardsOnOwnTokens ==
  scored > 0 =>
    LET steps == trajs[scored].steps
        w == Writers(steps)
    IN output.tokens = [pos \in DOMAIN w |-> <<<<output.totals[w[pos]], Len(steps[w[pos]].action)>>>>]

\* An edge that training loads comes from a trajectory of that sample whose
\* image search did not show the answer and was credited, beyond its own
\* gain, with what the text search after it gained.
EdgesAreEarned ==
  \A id \in DOMAIN edges :
    /\ edges[id].r0 > 200 * edges[id].g0
    /\ \E t \in ToSet(trajs) :
         /\ t.sample.id = id
         /\ edges[id].tool = t.steps[1].tool
         /\ ~Shows(t.steps[1], t.sample.golds)
=============================================================================
