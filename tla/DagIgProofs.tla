---------------------------- MODULE DagIgProofs ----------------------------
(***************************************************************************)
(* Proofs about the DAG-IG pipeline, for any samples, observations, words, *)
(* gains and limits: the steps a rollout makes lie one behind the other,   *)
(* a redacted summary holds no gold answer, the pool has the steps it was  *)
(* given and what a relabelling job fills is not changed by its scoring,   *)
(* every step is compared with the others of its tool, each token of a     *)
(* response bears the reward of its own step, and the edges that training  *)
(* loads are earned.                                                       *)
(***************************************************************************)
EXTENDS DagIg, FoldLemmas

Step == [id : Nat, tool : ToolTypes, action : Texts \ {<<>>}, start : Nat, end : Nat,
         text : Texts, summary : Texts, answer : Words]

\* The spans of the steps are not empty and follow one another from 0.
Laid(steps) ==
  \A i \in DOMAIN steps :
    /\ steps[i].id = i - 1
    /\ steps[i].start = (IF i = 1 THEN 0 ELSE steps[i - 1].end)
    /\ steps[i].start < steps[i].end
    /\ steps[i].end = steps[i].start + Len(steps[i].action)

Steps == {steps \in Seq(Step) : Laid(steps)}

\* Image search, text search and stop.
IsChain(steps) ==
  /\ Len(steps) = 3
  /\ steps[1].tool = "image_search"
  /\ steps[2].tool = "text_search"
  /\ steps[3].tool = "stop"

Trajectories == [sample : Samples, steps : Steps \ {<<>>}, probe : Words]

\* No bucket is larger than max_per_type.
Pools ==
  {p \in [ToolTypes -> Seq(Step)] : \A tool \in ToolTypes : Len(p[tool]) <= MaxPerType}

Holds(p, x) == \E y \in ToSet(p[x.tool]) : SameStep(y, x)

---------------------------------------------------------------------------
\* Sequences

\* What Append does, whatever the elements are.
LEMMA AppendIs ==
  ASSUME NEW S, NEW s \in Seq(S), NEW e \in S
  PROVE  /\ Append(s, e) \in Seq(S)
         /\ Len(Append(s, e)) = Len(s) + 1
         /\ Append(s, e)[Len(s) + 1] = e
         /\ \A i \in 1..Len(s) : Append(s, e)[i] = s[i]
         /\ ToSet(Append(s, e)) = ToSet(s) \cup {e}
<1>1. /\ Append(s, e) \in Seq(S)
      /\ Len(Append(s, e)) = Len(s) + 1
      /\ Append(s, e)[Len(s) + 1] = e
      /\ \A i \in 1..Len(s) : Append(s, e)[i] = s[i]
  OBVIOUS
<1> DEFINE a == Append(s, e)
<1>2. a \in Seq(S) /\ Len(a) = Len(s) + 1 /\ a[Len(s) + 1] = e
      /\ \A i \in 1..Len(s) : a[i] = s[i]
  BY <1>1
<1> HIDE DEF a
<1>3. DOMAIN a = 1..(Len(s) + 1) /\ DOMAIN s = 1..Len(s) /\ Len(s) \in Nat
  BY <1>2
<1>4. ToSet(a) \subseteq ToSet(s) \cup {e}
  <2>1. ASSUME NEW i \in 1..(Len(s) + 1) PROVE a[i] \in ToSet(s) \cup {e}
    <3>1. CASE i = Len(s) + 1
      BY <1>2, <3>1
    <3>2. CASE i # Len(s) + 1
      <4>1. i \in 1..Len(s)
        BY <1>3, <3>2
      <4>2. QED
        BY <1>2, <1>3, <4>1 DEF ToSet
    <3>3. QED
      BY <3>1, <3>2
  <2>2. QED
    BY <1>3, <2>1 DEF ToSet
<1>5. ToSet(s) \cup {e} \subseteq ToSet(a)
  <2>1. \A i \in 1..Len(s) : i \in 1..(Len(s) + 1) /\ a[i] = s[i]
    BY <1>2, <1>3
  <2>2. Len(s) + 1 \in 1..(Len(s) + 1)
    BY <1>3
  <2>3. QED
    BY <1>2, <1>3, <2>1, <2>2 DEF ToSet
<1>6. QED
  BY <1>1, <1>4, <1>5 DEF a

\* The elements of a sequence are in the set it is made of.
LEMMA ElementsIn ==
  ASSUME NEW S, NEW s \in Seq(S)
  PROVE  ToSet(s) \subseteq S /\ \A i \in DOMAIN s : s[i] \in S
BY DEF ToSet

\* The first n elements, or all there are.
LEMMA PrefixIn ==
  ASSUME NEW S, NEW s \in Seq(S), NEW n \in Nat
  PROVE  /\ SubSeq(s, 1, MinOf(Len(s), n)) \in Seq(S)
         /\ ToSet(SubSeq(s, 1, MinOf(Len(s), n))) \subseteq ToSet(s)
<1> DEFINE m == MinOf(Len(s), n)
           p == SubSeq(s, 1, m)
<1>1. m \in Nat /\ m <= Len(s) /\ Len(s) \in Nat /\ DOMAIN s = 1..Len(s)
  BY DEF MinOf
<1> HIDE DEF m
<1>2. p \in Seq(S) /\ Len(p) = m /\ \A i \in 1..m : p[i] = s[i]
  BY <1>1
<1> HIDE DEF p
<1>3. DOMAIN p = 1..m /\ \A i \in 1..m : i \in 1..Len(s)
  BY <1>1, <1>2
<1>4. ToSet(p) \subseteq ToSet(s)
  BY <1>1, <1>2, <1>3 DEF ToSet
<1>5. QED
  BY <1>2, <1>4 DEF p, m

\* The last elements of a sequence, from some position on.
LEMMA SuffixIn ==
  ASSUME NEW S, NEW s \in Seq(S), NEW o \in 0..Len(s)
  PROVE  /\ SubSeq(s, o + 1, Len(s)) \in Seq(S)
         /\ Len(SubSeq(s, o + 1, Len(s))) = Len(s) - o
         /\ o = 0 => SubSeq(s, o + 1, Len(s)) = s
OBVIOUS

---------------------------------------------------------------------------
\* The steps of a rollout

\* No steps are steps, and no text is a text.
LEMMA NoSteps == <<>> \in Steps /\ <<>> \in Seq(Step) /\ ToSet(<<>>) = {} /\ <<>> \in Texts
BY DEF Steps, Laid, ToSet, Texts

\* The words and tools the code names.
LEMMA ConstantWords ==
  /\ None \in Words /\ Unknown \in Words /\ Hidden \in Words
  /\ "text_search" \in ToolTypes /\ "image_search" \in ToolTypes /\ "stop" \in ToolTypes
BY SampleAssumption DEF ToolTypes, SearchToolTypes

\* A summary is a text, and says nothing the observation does not.
LEMMA SummaryIn ==
  ASSUME NEW text \in Texts
  PROVE  Summary(text) \in Texts /\ ToSet(Summary(text)) \subseteq ToSet(text)
<1>1. MaxSummaryTokens \in Nat
  BY SizeAssumption
<1>2. QED
  BY <1>1, PrefixIn DEF Summary, Texts

\* _make_step puts a step behind the steps there are, and its span behind theirs.
StepAdded(steps, x, more) ==
  /\ x \in Step
  /\ more \in Steps \ {<<>>}
  /\ Len(more) = Len(steps) + 1
  /\ more[Len(steps) + 1] = x
  /\ \A i \in 1..Len(steps) : more[i] = steps[i]
  /\ ToSet(more) = ToSet(steps) \cup {x}

\* MakeStep does.
LEMMA MakesStep ==
  ASSUME NEW steps \in Steps, NEW tool \in ToolTypes, NEW action \in Texts \ {<<>>},
         NEW text \in Texts, NEW answer \in Words
  PROVE  LET x == MakeStep(steps, tool, action, text, answer)
         IN /\ StepAdded(steps, x, Append(steps, x))
            /\ x.tool = tool /\ x.summary = Summary(text) /\ x.action = action
<1> DEFINE start == IF steps = <<>> THEN 0 ELSE Last(steps).end
           x == MakeStep(steps, tool, action, text, answer)
           more == Append(steps, x)
<1>1. steps \in Seq(Step) /\ Laid(steps) /\ Len(steps) \in Nat /\ DOMAIN steps = 1..Len(steps)
  BY DEF Steps
<1>2. Len(action) \in Nat \ {0}
  BY DEF Texts
<1>3. steps # <<>> => Len(steps) # 0 /\ Last(steps) = steps[Len(steps)] /\ Last(steps) \in Step
  BY <1>1 DEF Last
<1>4. start \in Nat
  BY <1>3 DEF Step
<1>5. Summary(text) \in Texts
  BY SummaryIn
<1>6. x = [id |-> Len(steps), tool |-> tool, action |-> action, start |-> start,
           end |-> start + Len(action), text |-> text, summary |-> Summary(text),
           answer |-> answer]
  BY DEF MakeStep
<1> HIDE DEF start, x, more
<1>7. start + Len(action) \in Nat
  BY <1>2, <1>4
<1>8. x \in Step
  BY <1>1, <1>2, <1>4, <1>5, <1>6, <1>7 DEF Step
<1>9. /\ x.id = Len(steps) /\ x.start = start /\ x.end = start + Len(action)
      /\ x.action = action /\ x.tool = tool /\ x.summary = Summary(text)
  BY <1>6
<1>10. /\ more \in Seq(Step) /\ Len(more) = Len(steps) + 1 /\ more[Len(steps) + 1] = x
       /\ \A i \in 1..Len(steps) : more[i] = steps[i]
       /\ ToSet(more) = ToSet(steps) \cup {x}
  BY <1>1, <1>8, AppendIs DEF more
<1>11. start = IF Len(steps) = 0 THEN 0 ELSE steps[Len(steps)].end
  <2>1. steps = <<>> <=> Len(steps) = 0
    BY <1>1
  <2>2. QED
    BY <1>3, <2>1 DEF start
<1>12. ASSUME NEW i \in 1..(Len(steps) + 1)
       PROVE  /\ more[i].id = i - 1
              /\ more[i].start = (IF i = 1 THEN 0 ELSE more[i - 1].end)
              /\ more[i].start < more[i].end
              /\ more[i].end = more[i].start + Len(more[i].action)
  <2>1. CASE i = Len(steps) + 1
    <3>1. more[i] = x /\ i - 1 = Len(steps)
      BY <1>1, <1>10, <2>1
    <3>2. start = (IF i = 1 THEN 0 ELSE more[i - 1].end)
      <4>1. CASE i = 1
        BY <1>1, <1>11, <2>1, <4>1
      <4>2. CASE i # 1
        <5>1. Len(steps) \in 1..Len(steps) /\ Len(steps) # 0
          BY <1>1, <2>1, <4>2
        <5>2. more[i - 1] = steps[Len(steps)]
          BY <1>10, <3>1, <5>1
        <5>3. QED
          BY <1>11, <4>2, <5>1, <5>2
      <4>3. QED
        BY <4>1, <4>2
    <3>3. start < start + Len(action)
      BY <1>2, <1>4
    <3>4. QED
      BY <1>9, <3>1, <3>2, <3>3
  <2>2. CASE i # Len(steps) + 1
    <3>1. i \in 1..Len(steps) /\ (i # 1 => i - 1 \in 1..Len(steps))
      BY <1>1, <2>2
    <3>2. more[i] = steps[i] /\ (i # 1 => more[i - 1] = steps[i - 1])
      BY <1>10, <3>1
    <3>3. QED
      BY <1>1, <3>1, <3>2 DEF Laid
  <2>3. QED
    BY <2>1, <2>2
<1>13. DOMAIN more = 1..(Len(steps) + 1) /\ more # <<>>
  BY <1>1, <1>10
<1>14. Laid(more)
  BY <1>12, <1>13 DEF Laid
<1>15. StepAdded(steps, x, more)
  BY <1>8, <1>10, <1>13, <1>14 DEF StepAdded, Steps
<1>16. QED
  BY <1>9, <1>15 DEF more, x

\* A first step makes a sequence of one.
LEMMA FirstStep ==
  ASSUME NEW tool \in ToolTypes, NEW action \in Texts \ {<<>>}, NEW text \in Texts,
         NEW answer \in Words
  PROVE  LET x == MakeStep(<<>>, tool, action, text, answer)
         IN /\ <<x>> \in Steps /\ <<x>> # <<>> /\ Len(<<x>>) = 1 /\ <<x>>[1] = x
            /\ ToSet(<<x>>) = {x} /\ x \in Step
            /\ x.tool = tool /\ x.summary = Summary(text) /\ x.action = action
<1>1. PICK none \in Steps : none = <<>>
  BY NoSteps
<1> DEFINE x == MakeStep(none, tool, action, text, answer)
<1>2. /\ StepAdded(none, x, Append(none, x))
      /\ x.tool = tool /\ x.summary = Summary(text) /\ x.action = action
  BY MakesStep
<1> HIDE DEF x
<1>3. Append(none, x) = <<x>> /\ Len(none) = 0 /\ ToSet(none) = {}
  BY <1>1, NoSteps
<1>4. <<x>> \in Steps /\ <<x>> # <<>> /\ x \in Step /\ ToSet(<<x>>) = {x}
  BY <1>2, <1>3 DEF StepAdded
<1>5. Len(<<x>>) = 1 /\ <<x>>[1] = x
  OBVIOUS
<1>6. x = MakeStep(<<>>, tool, action, text, answer)
  BY <1>1 DEF x
<1>7. QED
  BY <1>2, <1>4, <1>5, <1>6

\* And the stop step is the last.
LEMMA StopAdded ==
  ASSUME NEW steps \in Steps, NEW answer \in Words
  PROVE  \E x \in Step : x.tool = "stop" /\ StepAdded(steps, x, WithStop(steps, answer))
<1>1. <<answer>> \in Texts \ {<<>>} /\ <<answer>> \in Texts
  BY DEF Texts
<1> DEFINE x == MakeStep(steps, "stop", <<answer>>, <<answer>>, answer)
<1>2. StepAdded(steps, x, Append(steps, x)) /\ x.tool = "stop"
  BY <1>1, ConstantWords, MakesStep
<1>3. x \in Step
  BY <1>2 DEF StepAdded
<1> HIDE DEF x
<1>4. WithStop(steps, answer) = Append(steps, x)
  BY DEF WithStop, x
<1>5. QED
  BY <1>2, <1>3, <1>4

\* The anchor's words come one by one from the summary; where none is left the
\* question stands for them.
LEMMA AnchorIn ==
  ASSUME NEW summary \in Texts, NEW question \in Texts \ {<<>>}
  PROVE  EvidenceAnchor(summary, question) \in Texts \ {<<>>}
<1>1. PICK none \in Texts : none = <<>>
  BY NoSteps
<1> DEFINE n == Len(summary)
           G == [c \in Texts \X (1..n) |-> Keep(c[1], summary[c[2]], question)]
           Is(f) == f = [s \in SUBSET DOMAIN summary |->
                           IF s = {} THEN none ELSE Keep(f[s \ {Max(s)}], summary[Max(s)], question)]
           f == CHOOSE f : Is(f)
           kept == FoldLeft(LAMBDA k, w : Keep(k, w, question), none, summary)
<1>0. kept = f[DOMAIN summary]
  BY DEF FoldLeft, MapThenFoldSet
<1>2. n \in Nat /\ DOMAIN summary = 1..n
  BY DEF Texts
<1>3. \A k \in Texts, i \in 1..n : Keep(k, summary[i], question) \in Texts
  <2>1. \A i \in 1..n : summary[i] \in Words
    BY <1>2 DEF Texts
  <2>2. ASSUME NEW k \in Texts, NEW w \in Words PROVE Keep(k, w, question) \in Texts
    BY DEF Keep, Texts
  <2>3. QED
    BY <2>1, <2>2
<1>4. G \in [Texts \X (1..n) -> Texts]
  BY <1>3
<1>5. \A k \in Texts, i \in 1..n : G[<<k, i>>] = Keep(k, summary[i], question)
  OBVIOUS
<1> HIDE DEF G, n, kept
<1>6. \A s \in SUBSET (1..n) : s # {} => Max(s) \in 1..n /\ s \ {Max(s)} \in SUBSET (1..n)
  BY <1>2, LastPosition
<1>7. PICK h \in [SUBSET (1..n) -> Texts] : IsFold(h, none, G, n)
  BY <1>2, <1>4, FoldExists
<1>8. Is(h)
  <2>1. ASSUME NEW s \in SUBSET (1..n)
        PROVE  h[s] = IF s = {} THEN none ELSE Keep(h[s \ {Max(s)}], summary[Max(s)], question)
    BY <1>5, <1>6, <1>7 DEF IsFold
  <2>2. QED
    BY <1>2, <2>1
<1>9. Is(f)
  BY <1>8
<1> HIDE DEF f
<1>10. Unfolds(f, none, G, n, Texts)
  BY <1>2, <1>5, <1>6, <1>9 DEF Unfolds
<1>11. RunsTo(f[1..n], none, G, n, Texts)
  BY <1>2, <1>4, <1>10, FoldRuns
<1>12. kept \in Texts
  BY <1>0, <1>2, <1>11 DEF RunsTo
<1>13. QED
  BY <1>1, <1>12 DEF EvidenceAnchor, kept

---------------------------------------------------------------------------
\* The pool

\* add keeps every bucket within its limit.
LEMMA AddIn ==
  ASSUME NEW p \in Pools, NEW x \in Step
  PROVE  Add(p, x) \in Pools
<1> DEFINE old == p[x.tool]
           bucket == IF \E y \in ToSet(old) : SameStep(y, x) THEN old ELSE Append(old, x)
           over == MaxOf(0, Len(bucket) - MaxPerType)
           cut == SubSeq(bucket, over + 1, Len(bucket))
<1>1. x.tool \in ToolTypes /\ p \in [ToolTypes -> Seq(Step)] /\ MaxPerType \in Nat \ {0}
  BY SizeAssumption DEF Pools, Step
<1>2. old \in Seq(Step) /\ bucket \in Seq(Step)
  BY <1>1
<1> HIDE DEF bucket
<1>3. Len(bucket) \in Nat /\ over \in 0..Len(bucket) /\ Len(bucket) - over <= MaxPerType
  BY <1>1, <1>2 DEF MaxOf
<1> HIDE DEF over
<1>4. cut \in Seq(Step) /\ Len(cut) <= MaxPerType
  BY <1>2, <1>3, SuffixIn
<1>5. Add(p, x) = [p EXCEPT ![x.tool] = cut]
  BY DEF Add, bucket, over
<1> HIDE DEF cut
<1>6. Add(p, x) \in [ToolTypes -> Seq(Step)]
  BY <1>1, <1>4, <1>5
<1>7. \A tool \in ToolTypes : Len(Add(p, x)[tool]) <= MaxPerType
  BY <1>1, <1>4, <1>5 DEF Pools
<1>8. QED
  BY <1>6, <1>7 DEF Pools

\* A step that the pool has changes nothing.
LEMMA AddAgain ==
  ASSUME NEW p \in Pools, NEW x \in Step, Holds(p, x)
  PROVE  Add(p, x) = p
<1> DEFINE old == p[x.tool]
           over == MaxOf(0, Len(old) - MaxPerType)
<1>1. x.tool \in ToolTypes /\ p \in [ToolTypes -> Seq(Step)] /\ MaxPerType \in Nat \ {0}
      /\ Len(old) <= MaxPerType
  BY SizeAssumption DEF Pools, Step
<1>2. old \in Seq(Step) /\ Len(old) \in Nat
  BY <1>1
<1>3. Add(p, x) = [p EXCEPT ![x.tool] = SubSeq(old, over + 1, Len(old))]
  BY DEF Add, Holds
<1> HIDE DEF old
<1>4. over = 0
  BY <1>1, <1>2 DEF MaxOf
<1>5. SubSeq(old, over + 1, Len(old)) = old
  BY <1>2, <1>4, SuffixIn
<1>6. QED
  BY <1>1, <1>3, <1>5 DEF old

\* A new step enters a bucket that has room for it, and nothing leaves.
LEMMA AddNew ==
  ASSUME NEW p \in Pools, NEW x \in Step, Len(p[x.tool]) < MaxPerType, ~Holds(p, x)
  PROVE  Add(p, x) = [p EXCEPT ![x.tool] = Append(p[x.tool], x)]
<1> DEFINE old == p[x.tool]
           bucket == Append(old, x)
           over == MaxOf(0, Len(bucket) - MaxPerType)
<1>1. x.tool \in ToolTypes /\ p \in [ToolTypes -> Seq(Step)] /\ MaxPerType \in Nat \ {0}
  BY SizeAssumption DEF Pools, Step
<1>2. old \in Seq(Step) /\ Len(old) \in Nat
  BY <1>1
<1>3. Add(p, x) = [p EXCEPT ![x.tool] = SubSeq(bucket, over + 1, Len(bucket))]
  BY DEF Add, Holds
<1>4. bucket \in Seq(Step) /\ Len(bucket) = Len(old) + 1
  BY <1>2, AppendIs
<1>5. Len(old) < MaxPerType
  OBVIOUS
<1> HIDE DEF bucket, old
<1>6. over = 0
  BY <1>1, <1>2, <1>4, <1>5 DEF MaxOf
<1>7. SubSeq(bucket, over + 1, Len(bucket)) = bucket
  BY <1>4, <1>6, SuffixIn
<1>8. QED
  BY <1>3, <1>7 DEF bucket, old

\* add_many adds one step after the other.
AddRun(p, steps, end) ==
  \E q \in [0..Len(steps) -> Pools] :
    /\ q[0] = p
    /\ \A k \in 1..Len(steps) : q[k] = Add(q[k - 1], steps[k])
    /\ q[Len(steps)] = end

\* The fold of add_many is such a run.
LEMMA AddManyRuns ==
  ASSUME NEW p \in Pools, NEW steps \in Seq(Step)
  PROVE  AddRun(p, steps, AddMany(p, steps))
<1> DEFINE n == Len(steps)
           G == [c \in Pools \X (1..n) |-> Add(c[1], steps[c[2]])]
           Is(f) == f = [s \in SUBSET DOMAIN steps |->
                           IF s = {} THEN p ELSE Add(f[s \ {Max(s)}], steps[Max(s)])]
           f == CHOOSE f : Is(f)
<1>1. AddMany(p, steps) = f[DOMAIN steps]
  BY DEF AddMany, FoldLeft, MapThenFoldSet
<1>2. n \in Nat /\ DOMAIN steps = 1..n
  OBVIOUS
<1>3. \A k \in Pools, i \in 1..n : Add(k, steps[i]) \in Pools
  <2>1. \A i \in 1..n : steps[i] \in Step
    BY <1>2
  <2>2. QED
    BY <2>1, AddIn
<1>4. G \in [Pools \X (1..n) -> Pools]
  BY <1>3
<1>5. \A k \in Pools, i \in 1..n : G[<<k, i>>] = Add(k, steps[i])
  OBVIOUS
<1> HIDE DEF G, n
<1>6. \A s \in SUBSET (1..n) : s # {} => Max(s) \in 1..n /\ s \ {Max(s)} \in SUBSET (1..n)
  BY <1>2, LastPosition
<1>7. PICK h \in [SUBSET (1..n) -> Pools] : IsFold(h, p, G, n)
  BY <1>2, <1>4, FoldExists
<1>8. Is(h)
  <2>1. ASSUME NEW s \in SUBSET (1..n)
        PROVE  h[s] = IF s = {} THEN p ELSE Add(h[s \ {Max(s)}], steps[Max(s)])
    BY <1>5, <1>6, <1>7 DEF IsFold
  <2>2. QED
    BY <1>2, <2>1
<1>9. Is(f)
  BY <1>8
<1> HIDE DEF f
<1>10. Unfolds(f, p, G, n, Pools)
  BY <1>2, <1>5, <1>6, <1>9 DEF Unfolds
<1>11. RunsTo(f[1..n], p, G, n, Pools)
  BY <1>2, <1>4, <1>10, FoldRuns
<1>12. PICK q \in [0..n -> Pools] : IsRun(q, p, G, n) /\ q[n] = f[1..n]
  BY <1>11 DEF RunsTo
<1>13. ASSUME NEW k \in 1..n PROVE q[k] = Add(q[k - 1], steps[k])
  <2>1. k - 1 \in 0..n
    BY <1>2
  <2>2. q[k - 1] \in Pools /\ q[k] = G[<<q[k - 1], k>>]
    BY <1>12, <2>1 DEF IsRun
  <2>3. QED
    BY <1>5, <2>2
<1>14. q[0] = p /\ q[n] = AddMany(p, steps)
  BY <1>1, <1>2, <1>12 DEF IsRun
<1>15. QED
  BY <1>13, <1>14 DEF AddRun, n

\* It keeps the buckets within their limit,
LEMMA AddManyIn ==
  ASSUME NEW p \in Pools, NEW steps \in Seq(Step)
  PROVE  AddMany(p, steps) \in Pools
<1>1. PICK q \in [0..Len(steps) -> Pools] : q[Len(steps)] = AddMany(p, steps)
  BY AddManyRuns DEF AddRun
<1>2. Len(steps) \in 0..Len(steps)
  OBVIOUS
<1>3. QED
  BY <1>1, <1>2

\* and steps that the pool has change nothing.
LEMMA AddManyAgain ==
  ASSUME NEW p \in Pools, NEW steps \in Seq(Step), \A i \in DOMAIN steps : Holds(p, steps[i])
  PROVE  AddMany(p, steps) = p
<1>1. PICK q \in [0..Len(steps) -> Pools] :
        /\ q[0] = p
        /\ \A k \in 1..Len(steps) : q[k] = Add(q[k - 1], steps[k])
        /\ q[Len(steps)] = AddMany(p, steps)
  BY AddManyRuns DEF AddRun
<1> DEFINE T == {k \in Nat : k <= Len(steps) => q[k] = p}
<1>2. Len(steps) \in Nat /\ \A k \in 1..Len(steps) : steps[k] \in Step /\ Holds(p, steps[k])
  OBVIOUS
<1>3. ASSUME NEW k \in Nat, k \in T PROVE k + 1 \in T
  <2>1. CASE k + 1 <= Len(steps)
    <3>1. k + 1 \in 1..Len(steps) /\ (k + 1) - 1 = k /\ q[k] = p
      BY <1>2, <1>3, <2>1
    <3>2. q[k + 1] = Add(p, steps[k + 1])
      BY <1>1, <3>1
    <3>3. Add(p, steps[k + 1]) = p
      BY <1>2, <3>1, AddAgain
    <3>4. QED
      BY <3>2, <3>3
  <2>2. CASE ~(k + 1 <= Len(steps))
    BY <2>2
  <2>3. QED
    BY <2>1, <2>2
<1>4. 0 \in T
  BY <1>1
<1> HIDE DEF T
<1>5. Nat \subseteq T
  BY <1>3, <1>4, NatAll
<1>6. QED
  BY <1>1, <1>2, <1>5 DEF T

\* The bucket of a tool has steps of known of that tool, each once.
OfSteps(bucket, tool, known) ==
  /\ \A i \in DOMAIN bucket : bucket[i] \in known /\ bucket[i].tool = tool
  /\ \A i, j \in DOMAIN bucket : SameStep(bucket[i], bucket[j]) => i = j

\* The pool has the steps of known and no others, at most n of them in a bucket;
PoolOf(p, known, n) ==
  /\ \A tool \in ToolTypes : OfSteps(p[tool], tool, known) /\ Len(p[tool]) <= n
  /\ \A x \in known : Holds(p, x)

\* and while the steps of one more trajectory are added, n + 1 in the buckets of
\* the tools that were used.
PoolUntil(p, known, n, used) ==
  /\ \A tool \in ToolTypes : OfSteps(p[tool], tool, known) /\ Len(p[tool]) <= n + 1
  /\ \A tool \in ToolTypes \ used : Len(p[tool]) <= n
  /\ \A x \in known : Holds(p, x)

\* add, for a step of a tool that was not used.
LEMMA AddOne ==
  ASSUME NEW p \in Pools, NEW known \in SUBSET Step, NEW n \in Nat, n < MaxPerType, NEW used,
         PoolUntil(p, known, n, used), NEW x \in Step, x.tool \notin used
  PROVE  PoolUntil(Add(p, x), known \cup {x}, n, used \cup {x.tool})
<1> DEFINE old == p[x.tool]
           q == Add(p, x)
           more == known \cup {x}
<1>1. /\ x.tool \in ToolTypes /\ p \in [ToolTypes -> Seq(Step)] /\ MaxPerType \in Nat
      /\ old \in Seq(Step) /\ Len(old) \in Nat /\ Len(old) <= n
      /\ \A tool \in ToolTypes : Len(p[tool]) \in Nat
  <2>1. x.tool \in ToolTypes /\ p \in [ToolTypes -> Seq(Step)] /\ MaxPerType \in Nat
    BY SizeAssumption DEF Pools, Step
  <2>2. \A tool \in ToolTypes : Len(p[tool]) \in Nat
    BY <2>1
  <2>3. old \in Seq(Step)
    BY <2>1
  <2>4. Len(old) <= n
    BY <2>1 DEF PoolUntil
  <2>5. QED
    BY <2>1, <2>2, <2>3, <2>4
<1>2. Len(old) < MaxPerType
  BY <1>1
<1>3. CASE Holds(p, x)
  <2>1. q = p
    BY <1>3, AddAgain
  <2>2. \A tool \in ToolTypes : OfSteps(p[tool], tool, more)
    BY DEF PoolUntil, OfSteps
  <2>3. \A y \in more : Holds(p, y)
    BY <1>3 DEF PoolUntil
  <2> HIDE DEF q, more
  <2>4. QED
    BY <2>1, <2>2, <2>3 DEF PoolUntil, q, more
<1>4. CASE ~Holds(p, x)
  <2> DEFINE bucket == Append(old, x)
  <2>1. q = [p EXCEPT ![x.tool] = bucket]
    BY <1>2, <1>4, AddNew
  <2>2. /\ bucket \in Seq(Step) /\ Len(bucket) = Len(old) + 1 /\ bucket[Len(old) + 1] = x
        /\ \A i \in 1..Len(old) : bucket[i] = old[i]
        /\ ToSet(bucket) = ToSet(old) \cup {x}
    BY <1>1, AppendIs
  <2>3. OfSteps(old, x.tool, known) /\ DOMAIN old = 1..Len(old)
    BY <1>1 DEF PoolUntil
  <2>4. \A i \in DOMAIN old : ~SameStep(old[i], x)
    BY <1>4 DEF Holds, ToSet
  <2> HIDE DEF bucket, old, q
  <2>5. DOMAIN bucket = 1..(Len(old) + 1)
    BY <2>2
  <2>6. OfSteps(bucket, x.tool, more)
    <3>1. ASSUME NEW i \in DOMAIN bucket PROVE bucket[i] \in more /\ bucket[i].tool = x.tool
      BY <1>1, <2>2, <2>3, <2>5 DEF OfSteps
    <3>2. ASSUME NEW i \in DOMAIN bucket, NEW j \in DOMAIN bucket, SameStep(bucket[i], bucket[j])
          PROVE  i = j
      <4>1. CASE i \in 1..Len(old) /\ j \in 1..Len(old)
        BY <2>2, <2>3, <3>2, <4>1 DEF OfSteps
      <4>2. CASE i \in 1..Len(old) /\ j = Len(old) + 1
        BY <2>2, <2>3, <2>4, <3>2, <4>2
      <4>3. CASE i = Len(old) + 1 /\ j \in 1..Len(old)
        BY <2>2, <2>3, <2>4, <3>2, <4>3 DEF SameStep
      <4>4. QED
        BY <1>1, <2>5, <4>1, <4>2, <4>3
    <3>3. QED
      BY <3>1, <3>2 DEF OfSteps
  <2>7. \A tool \in ToolTypes : q[tool] = IF tool = x.tool THEN bucket ELSE p[tool]
    BY <1>1, <2>1
  <2>8. \A tool \in ToolTypes : OfSteps(q[tool], tool, more) /\ Len(q[tool]) <= n + 1
    <3>1. ASSUME NEW tool \in ToolTypes
          PROVE  OfSteps(q[tool], tool, more) /\ Len(q[tool]) <= n + 1
      <4>1. CASE tool = x.tool
        BY <1>1, <2>2, <2>6, <2>7, <4>1
      <4>2. CASE tool # x.tool
        <5>1. OfSteps(p[tool], tool, known) /\ Len(p[tool]) <= n + 1
          BY DEF PoolUntil
        <5>2. QED
          BY <2>7, <4>2, <5>1 DEF OfSteps
      <4>3. QED
        BY <4>1, <4>2
    <3>2. QED
      BY <3>1
  <2>9. \A tool \in ToolTypes \ (used \cup {x.tool}) : Len(q[tool]) <= n
    BY <2>7 DEF PoolUntil
  <2>10. ASSUME NEW y \in more PROVE Holds(q, y)
    <3>1. CASE y = x
      BY <1>1, <2>2, <2>7, <3>1 DEF Holds, SameStep
    <3>2. CASE y \in known
      <4>1. Holds(p, y) /\ y.tool \in ToolTypes
        BY <3>2 DEF PoolUntil, Step
      <4>2. ToSet(p[y.tool]) \subseteq ToSet(q[y.tool])
        BY <2>2, <2>7, <4>1 DEF old
      <4>3. QED
        BY <4>1, <4>2 DEF Holds
    <3>3. QED
      BY <3>1, <3>2
  <2> HIDE DEF more
  <2>11. QED
    BY <2>8, <2>9, <2>10 DEF PoolUntil, q, more
<1>5. QED
  BY <1>3, <1>4

\* A trajectory has at most one step of each tool.
OneEach(steps) == \A i, j \in DOMAIN steps : steps[i].tool = steps[j].tool => i = j

\* What a chain has.
LEMMA ChainOneEach ==
  ASSUME NEW steps \in Seq(Step), IsChain(steps)
  PROVE  OneEach(steps)
<1>1. DOMAIN steps = {1, 2, 3}
  BY DEF IsChain
<1>2. QED
  BY <1>1 DEF OneEach, IsChain

\* So add_many leaves the pool with the steps of known and of the trajectory, if
\* its buckets have room for one more.
LEMMA AddManyMore ==
  ASSUME NEW p \in Pools, NEW known \in SUBSET Step, NEW n \in Nat, n < MaxPerType,
         PoolOf(p, known, n), NEW steps \in Seq(Step), OneEach(steps)
  PROVE  PoolOf(AddMany(p, steps), known \cup ToSet(steps), n + 1)
<1>1. PICK q \in [0..Len(steps) -> Pools] :
        /\ q[0] = p
        /\ \A k \in 1..Len(steps) : q[k] = Add(q[k - 1], steps[k])
        /\ q[Len(steps)] = AddMany(p, steps)
  BY AddManyRuns DEF AddRun
<1> DEFINE First(k) == {steps[i] : i \in 1..k}
           Used(k) == {steps[i].tool : i \in 1..k}
           T == {k \in Nat : k <= Len(steps) => PoolUntil(q[k], known \cup First(k), n, Used(k))}
<1>2. Len(steps) \in Nat /\ DOMAIN steps = 1..Len(steps) /\ \A i \in 1..Len(steps) : steps[i] \in Step
  BY ElementsIn
<1>3. 0 \in T
  <2>1. First(0) = {} /\ Used(0) = {}
    OBVIOUS
  <2>2. \A tool \in ToolTypes : Len(p[tool]) \in Nat
    BY DEF Pools
  <2>3. PoolUntil(p, known \cup {}, n, {})
    BY <2>2 DEF PoolOf, PoolUntil
  <2> HIDE DEF First, Used
  <2>4. QED
    BY <1>1, <2>1, <2>3
<1>4. ASSUME NEW k \in Nat, k \in T PROVE k + 1 \in T
  <2>1. CASE k + 1 <= Len(steps)
    <3>1. k + 1 \in 1..Len(steps) /\ (k + 1) - 1 = k /\ k \in 0..Len(steps)
      BY <1>2, <2>1
    <3>2. q[k + 1] = Add(q[k], steps[k + 1]) /\ q[k] \in Pools /\ steps[k + 1] \in Step
      BY <1>1, <1>2, <3>1
    <3>3. PoolUntil(q[k], known \cup First(k), n, Used(k))
      BY <1>4, <3>1
    <3>4. First(k) \subseteq Step
      BY <1>2, <3>1
    <3>5. steps[k + 1].tool \notin Used(k)
      <4>1. ASSUME NEW i \in 1..k PROVE steps[i].tool # steps[k + 1].tool
        BY <1>2, <3>1 DEF OneEach
      <4>2. QED
        BY <4>1
    <3>6. 1..(k + 1) = 1..k \cup {k + 1}
      OBVIOUS
    <3>7. /\ (known \cup First(k)) \cup {steps[k + 1]} = known \cup First(k + 1)
          /\ Used(k) \cup {steps[k + 1].tool} = Used(k + 1)
      BY <3>6
    <3>8. known \cup First(k) \in SUBSET Step
      BY <3>4
    <3> DEFINE K == known \cup First(k)  U == Used(k)
    <3> HIDE DEF First, Used, K, U, T
    <3>9. PoolUntil(Add(q[k], steps[k + 1]), K \cup {steps[k + 1]}, n, U \cup {steps[k + 1].tool})
      BY <3>2, <3>3, <3>5, <3>8, AddOne DEF K, U
    <3>10. QED
      BY <3>2, <3>7, <3>9 DEF K, U, T
  <2>2. CASE ~(k + 1 <= Len(steps))
    BY <2>2
  <2>3. QED
    BY <2>1, <2>2
<1>5. First(Len(steps)) = ToSet(steps)
  BY <1>2 DEF ToSet
<1> HIDE DEF T
<1>6. Nat \subseteq T
  BY <1>3, <1>4, NatAll
<1>7. PoolUntil(AddMany(p, steps), known \cup First(Len(steps)), n, Used(Len(steps)))
  BY <1>1, <1>2, <1>6 DEF T
<1> HIDE DEF First, Used
<1>8. QED
  BY <1>5, <1>7 DEF PoolUntil, PoolOf

---------------------------------------------------------------------------
\* The state of the pipeline

IndexOK(found) == \A k \in DOMAIN found : found[k] \in Observations

Rows == [id : Words, tool : ToolTypes, g0 : Int, r0 : Int]

TypeInv ==
  /\ mode \in Modes
  /\ redact \in BOOLEAN
  /\ pc \in {"rollout", "fill", "score", "load", "done"}
  /\ IndexOK(index)
  /\ trajs \in Seq(Trajectories)
  /\ Len(trajs) <= Limit[mode]
  /\ scored \in 0..Len(trajs)
  /\ pool \in Pools
  /\ rows \in Seq(Rows)
  /\ Len(rows) <= IF mode = "relabel" THEN scored ELSE 0
  /\ pc \in {"rollout", "fill"} => scored = 0
  /\ pc \in {"fill", "load"} => mode = "relabel"

\* A trajectory uses a tool once; relabelling makes chains of three steps, and a
\* redacted two-turn rollout steps whose summaries hold no gold answer.
HidesGolds(t) ==
  \A x \in ToSet(t.steps) : x.tool # "stop" => ~Shows(x, t.sample.golds)

Fitting(t) ==
  /\ OneEach(t.steps)
  /\ mode = "relabel" => IsChain(t.steps)
  /\ mode = "two_turn" /\ redact => HidesGolds(t)

MadeInv == \A t \in ToSet(trajs) : Fitting(t)

\* The steps of the first n trajectories of a job
Among(job, n) == UNION {ToSet(job[j].steps) : j \in 1..n}

\* How many trajectories the pool was given: a relabelling job fills it with all
\* of them, the others with each that they score.
Given ==
  IF mode = "relabel" THEN IF pc \in {"rollout", "fill"} THEN 0 ELSE Len(trajs) ELSE scored

\* The pool has the steps of those, if it has room for them.
PoolInv == Given <= MaxPerType => PoolOf(pool, Among(trajs, Given), Given)

\* Every row was earned, and so was every edge.
Earned(r) ==
  /\ r.r0 > 200 * r.g0
  /\ \E t \in ToSet(trajs) :
       /\ t.sample.id = r.id
       /\ r.tool = t.steps[1].tool
       /\ ~Shows(t.steps[1], t.sample.golds)

EarnedInv ==
  /\ \A i \in DOMAIN rows : Earned(rows[i])
  /\ \A id \in DOMAIN edges : edges[id].id = id /\ Earned(edges[id])

---------------------------------------------------------------------------
\* Rollout

\* What an action of the rollout adds to the state.
Rolled ==
  /\ IndexOK(index')
  /\ \E t \in Trajectories : trajs' = Append(trajs, t) /\ Fitting(t)

\* An index answers with an observation,
LEMMA FoundIn ==
  ASSUME IndexOK(index), NEW tool, NEW query, NEW o \in Found(tool, query)
  PROVE  o \in Observations
BY DEF IndexOK, Found

\* and goes on doing so.
LEMMA SeenIn ==
  ASSUME NEW found, IndexOK(found), NEW tool, NEW query, NEW o \in Observations
  PROVE  IndexOK(Seen(found, tool, query, o))
BY DEF IndexOK, Seen, Put

\* What a sample is made of.
LEMMA SampleIn ==
  ASSUME NEW s \in Samples
  PROVE  /\ s.id \in Words /\ s.image \in Words /\ s.direct \in Words
         /\ s.question \in Texts \ {<<>>}
         /\ s.golds \in Texts \ {<<>>}
         /\ Head(s.golds) \in Words
         /\ Hidden \notin ToSet(s.golds)
<1>1. s \in [id : Words, question : Texts \ {<<>>}, bridge : BOOLEAN, image : Words,
             golds : Texts \ {<<>>}, direct : Words, needs : BOOLEAN]
  BY SampleAssumption
<1>2. s.golds \in Seq(Words) /\ s.golds # <<>>
  BY <1>1 DEF Texts
<1>3. Head(s.golds) \in Words
  BY <1>2
<1>4. Hidden \notin ToSet(s.golds)
  BY SampleAssumption
<1>5. QED
  BY <1>1, <1>3, <1>4

\* What an observation is made of.
LEMMA ObservationIn ==
  ASSUME NEW o \in Observations
  PROVE  o.text \in Texts /\ o.text # <<>> /\ o.answer \in Words
<1>1. o \in [text : Texts \ {<<>>}, answer : Words]
  BY SampleAssumption
<1>2. QED
  BY <1>1

\* What is redacted stays a text, and holds no gold answer.
LEMMA RedactIn ==
  ASSUME NEW s \in Samples, NEW text \in Texts
  PROVE  /\ RedactText(text, s.golds) \in Texts
         /\ ToSet(RedactText(text, s.golds)) \cap ToSet(s.golds) = {}
<1> DEFINE r == RedactText(text, s.golds)
<1>1. text \in Seq(Words) /\ Hidden \in Words /\ Hidden \notin ToSet(s.golds)
  BY ConstantWords, SampleIn DEF Texts
<1>2. r = [i \in 1..Len(text) |-> IF text[i] \in ToSet(s.golds) THEN Hidden ELSE text[i]]
      /\ Len(text) \in Nat
  BY <1>1 DEF RedactText
<1>3. \A i \in 1..Len(text) : r[i] \in Words /\ r[i] \notin ToSet(s.golds)
  BY <1>1, <1>2
<1>4. DOMAIN r = 1..Len(text)
  BY <1>2
<1>5. r \in Seq(Words)
  BY <1>1, <1>2, <1>3
<1> HIDE DEF r
<1>6. \A w \in ToSet(r) : w \notin ToSet(s.golds)
  BY <1>3, <1>4 DEF ToSet
<1>7. QED
  BY <1>5, <1>6 DEF Texts, r

\* The first word of a text.
LEMMA HeadIn ==
  ASSUME NEW text \in Texts, text # <<>>
  PROVE  Head(text) \in Words
BY DEF Texts

\* Two texts put together, the second not empty.
LEMMA JoinedIn ==
  ASSUME NEW a \in Texts, NEW b \in Texts, b # <<>>
  PROVE  a \o b \in Texts \ {<<>>}
<1>1. a \in Seq(Words) /\ b \in Seq(Words) /\ Len(b) # 0 /\ Len(a) \in Nat /\ Len(b) \in Nat
  BY DEF Texts
<1>2. a \o b \in Seq(Words) /\ Len(a \o b) = Len(a) + Len(b)
  BY <1>1
<1>3. Len(a \o b) # 0
  BY <1>1, <1>2
<1>4. QED
  BY <1>2, <1>3 DEF Texts

\* The trajectory that an action of the rollout finishes.
LEMMA FinishedIn ==
  ASSUME NEW s \in Samples, NEW steps \in Steps \ {<<>>}, NEW probe \in Words
  PROVE  /\ Trajectory(s, steps, probe) \in Trajectories
         /\ Trajectory(s, steps, probe).steps = steps
         /\ Trajectory(s, steps, probe).sample = s
BY DEF Trajectory, Trajectories

\* What the tool-free answers agree on is a word.
LEMMA ProbeIn ==
  ASSUME NEW s \in Samples
  PROVE  Probe(s) \in Words
BY SampleIn, ConstantWords DEF Probe

\* build_dependency_trajectories makes the three steps of a chain.
LEMMA TeachStep ==
  ASSUME TypeInv, mode = "relabel", NEW s \in Samples, Teach(s)
  PROVE  Rolled
<1> DEFINE gold == Head(s.golds)
           imageAction == <<IF s.image # None THEN s.image ELSE s.id>> \o s.question
<1>1. /\ gold \in Words /\ imageAction \in Texts \ {<<>>}
      /\ s.question \in Texts \ {<<>>} /\ s.question # <<>>
  <2>1. s.question \in Texts /\ s.question # <<>> /\ gold \in Words
    BY SampleIn
  <2>2. <<IF s.image # None THEN s.image ELSE s.id>> \in Texts
    BY SampleIn DEF Texts
  <2>3. QED
    BY <2>1, <2>2, JoinedIn
<1> HIDE DEF imageAction, gold
<1> DEFINE text(o) == IF redact THEN RedactText(o.text, s.golds) ELSE o.text
           step(o) == MakeStep(<<>>, "image_search", imageAction, text(o), None)
           textAction(o) == EvidenceAnchor(<<step(o)>>[1].summary, s.question) \o s.question
           next(o, p) == MakeStep(<<step(o)>>, "text_search", textAction(o), p.text, gold)
           steps(o, p) == WithStop(Append(<<step(o)>>, next(o, p)), gold)
<1>2. PICK o \in Found("image_search", imageAction) :
        \E p \in Found("text_search", textAction(o)) :
          /\ index' = Seen(Seen(index, "image_search", imageAction, o),
                           "text_search", textAction(o), p)
          /\ Finish(s, steps(o, p), None)
  BY DEF Teach, gold, imageAction
<1>3. PICK p \in Found("text_search", textAction(o)) :
        /\ index' = Seen(Seen(index, "image_search", imageAction, o),
                         "text_search", textAction(o), p)
        /\ Finish(s, steps(o, p), None)
  BY <1>2
<1>4. o \in Observations /\ p \in Observations /\ IndexOK(index)
  BY <1>2, <1>3, FoundIn DEF TypeInv
<1>5. IndexOK(index')
  BY <1>3, <1>4, SeenIn
<1>6. text(o) \in Texts
  BY <1>4, ObservationIn, RedactIn
<1> HIDE DEF text
<1> DEFINE x == step(o)
<1>7. /\ <<x>> \in Steps /\ Len(<<x>>) = 1 /\ <<x>>[1] = x
      /\ x \in Step /\ x.tool = "image_search"
  BY <1>1, <1>6, ConstantWords, FirstStep
<1> HIDE DEF step, x
<1>8. x = step(o)
  BY DEF x
<1>9. x.summary \in Texts
  BY <1>7 DEF Step
<1>10. textAction(o) \in Texts \ {<<>>}
  <2>1. <<step(o)>>[1].summary \in Texts
    BY <1>7, <1>8, <1>9
  <2>2. EvidenceAnchor(<<step(o)>>[1].summary, s.question) \in Texts
    BY <1>1, <2>1, AnchorIn
  <2>3. QED
    BY <1>1, <2>2, JoinedIn
<1> HIDE DEF textAction
<1> DEFINE y == next(o, p)
           two == Append(<<x>>, y)
<1>11. StepAdded(<<x>>, y, two) /\ y.tool = "text_search"
  BY <1>1, <1>4, <1>7, <1>8, <1>10, ConstantWords, ObservationIn, MakesStep
<1>12. steps(o, p) = WithStop(two, gold)
  BY <1>8
<1> HIDE DEF next, y, two, steps
<1>13. two \in Steps /\ Len(two) = 2 /\ two[1] = x /\ two[2] = y
  BY <1>7, <1>11 DEF StepAdded
<1>14. PICK z \in Step : z.tool = "stop" /\ StepAdded(two, z, steps(o, p))
  BY <1>1, <1>12, <1>13, StopAdded
<1>15. /\ steps(o, p) \in Steps \ {<<>>} /\ Len(steps(o, p)) = 3
       /\ steps(o, p)[1] = x /\ steps(o, p)[2] = y /\ steps(o, p)[3] = z
  BY <1>13, <1>14 DEF StepAdded
<1>16. IsChain(steps(o, p))
  BY <1>7, <1>11, <1>14, <1>15 DEF IsChain
<1> DEFINE t == Trajectory(s, steps(o, p), None)
<1>17. t \in Trajectories /\ t.steps = steps(o, p)
  BY <1>15, ConstantWords, FinishedIn
<1>18. trajs' = Append(trajs, t)
  BY <1>3 DEF Finish
<1> HIDE DEF t
<1>19. Fitting(t)
  <2>1. steps(o, p) \in Seq(Step)
    BY <1>15 DEF Steps
  <2>2. QED
    BY <1>16, <1>17, <2>1, ChainOneEach DEF Fitting
<1>20. QED
  BY <1>5, <1>17, <1>18, <1>19 DEF Rolled

\* One search, or none, and then the stop step.
LEMMA SearchedIn ==
  ASSUME NEW s \in Samples, NEW tool \in SearchToolTypes, NEW action \in Texts \ {<<>>},
         NEW text \in Texts, NEW field \in Words, NEW answer \in Words, NEW probe \in Words
  PROVE  LET x == MakeStep(<<>>, tool, action, text, field)
             t == Trajectory(s, WithStop(<<x>>, answer), probe)
         IN /\ t \in Trajectories /\ OneEach(t.steps)
            /\ ToSet(text) \cap ToSet(s.golds) = {} => HidesGolds(t)
<1> DEFINE x == MakeStep(<<>>, tool, action, text, field)
           steps == WithStop(<<x>>, answer)
           t == Trajectory(s, steps, probe)
<1>1. tool \in ToolTypes
  BY DEF ToolTypes
<1>2. /\ <<x>> \in Steps /\ ToSet(<<x>>) = {x} /\ x.summary = Summary(text) /\ x.tool = tool
      /\ Len(<<x>>) = 1 /\ <<x>>[1] = x
  BY <1>1, FirstStep
<1> HIDE DEF x
<1>3. PICK z \in Step : z.tool = "stop" /\ StepAdded(<<x>>, z, steps)
  BY <1>2, StopAdded
<1> HIDE DEF steps
<1>4. steps \in Steps \ {<<>>} /\ ToSet(steps) = {x, z}
  BY <1>2, <1>3 DEF StepAdded
<1>5. t \in Trajectories /\ t.steps = steps /\ t.sample = s
  BY <1>4, FinishedIn
<1> HIDE DEF t
<1>6. OneEach(steps)
  <2>1. DOMAIN steps = {1, 2} /\ steps[1] = x /\ steps[2] = z
    BY <1>2, <1>3, <1>4 DEF StepAdded, Steps
  <2>2. x.tool # z.tool
    BY <1>2, <1>3 DEF SearchToolTypes
  <2>3. QED
    BY <2>1, <2>2 DEF OneEach
<1>7. ASSUME ToSet(text) \cap ToSet(s.golds) = {} PROVE HidesGolds(t)
  <2>1. ToSet(x.summary) \subseteq ToSet(text)
    BY <1>2, SummaryIn
  <2>2. ~Shows(x, s.golds)
    BY <1>7, <2>1 DEF Shows
  <2>3. QED
    BY <1>3, <1>4, <1>5, <2>2 DEF HidesGolds
<1>8. QED
  BY <1>5, <1>6, <1>7 DEF t, steps, x

\* The stop step alone.
LEMMA StoppedIn ==
  ASSUME NEW s \in Samples, NEW answer \in Words, NEW probe \in Words
  PROVE  LET t == Trajectory(s, WithStop(<<>>, answer), probe)
         IN t \in Trajectories /\ OneEach(t.steps) /\ HidesGolds(t)
<1>1. PICK none \in Steps : none = <<>>
  BY NoSteps
<1> DEFINE steps == WithStop(none, answer)
           t == Trajectory(s, steps, probe)
<1>2. PICK z \in Step : z.tool = "stop" /\ StepAdded(none, z, steps)
  BY StopAdded
<1>3. ToSet(none) = {} /\ Len(none) = 0
  BY <1>1, NoSteps
<1> HIDE DEF steps
<1>4. steps \in Steps \ {<<>>} /\ ToSet(steps) = {z} /\ Len(steps) = 1
  BY <1>2, <1>3 DEF StepAdded
<1>5. t \in Trajectories /\ t.steps = steps
  BY <1>4, FinishedIn
<1> HIDE DEF t
<1>6. HidesGolds(t)
  BY <1>2, <1>4, <1>5 DEF HidesGolds
<1>7. OneEach(t.steps)
  <2>1. DOMAIN steps = {1}
    BY <1>4 DEF Steps
  <2>2. QED
    BY <1>5, <2>1 DEF OneEach
<1>8. t = Trajectory(s, WithStop(<<>>, answer), probe)
  BY <1>1 DEF t, steps
<1>9. QED
  BY <1>5, <1>6, <1>7, <1>8

\* The answer an observation gives is a word.
LEMMA AnswerIn ==
  ASSUME NEW o \in Observations, NEW fallback \in Words
  PROVE  AnswerOf(o, fallback) \in Words
BY ObservationIn DEF AnswerOf

\* The trajectory of a mode that promises nothing more about its steps.
LEMMA AnyFits ==
  ASSUME NEW t \in Trajectories, OneEach(t.steps), mode \notin {"relabel", "two_turn"}
  PROVE  Fitting(t)
BY DEF Fitting

\* prompted_search_rollout searches once.
LEMMA PromptedStep ==
  ASSUME TypeInv, mode = "prompted", NEW s \in Samples, Prompted(s)
  PROVE  Rolled
<1> DEFINE tool == IF s.bridge THEN "image_search" ELSE "text_search"
           probe == IF s.needs THEN None ELSE s.direct
           answer(o) == AnswerOf(o, Unknown)
           t(o) == Trajectory(s, WithStop(<<MakeStep(<<>>, tool, s.question, o.text, answer(o))>>,
                                          answer(o)), probe)
<1>1. PICK o \in Found(tool, s.question) :
        index' = Seen(index, tool, s.question, o) /\ trajs' = Append(trajs, t(o))
  BY DEF Prompted, Finish
<1>2. o \in Observations /\ IndexOK(index)
  BY <1>1, FoundIn DEF TypeInv
<1>3. IndexOK(index')
  BY <1>1, <1>2, SeenIn
<1>4. /\ answer(o) \in Words /\ probe \in Words /\ s.question \in Texts \ {<<>>}
      /\ o.text \in Texts /\ tool \in SearchToolTypes
  BY <1>2, AnswerIn, ConstantWords, SampleIn, ObservationIn DEF SearchToolTypes
<1> HIDE DEF tool, probe, answer
<1>5. t(o) \in Trajectories /\ OneEach(t(o).steps)
  BY <1>4, SearchedIn
<1> HIDE DEF t
<1>6. QED
  BY <1>1, <1>3, <1>5, AnyFits DEF Rolled

\* What _repair_placeholder_action leaves of an action of one of the tools says
\* something.
LEMMA RepairIn ==
  ASSUME NEW s \in Samples, NEW T, NEW act \in [tool : T, text : Texts]
  PROVE  /\ Repair(s, act).tool = act.tool
         /\ Repair(s, act).text \in Texts
         /\ act.tool \in ToolTypes => Repair(s, act).text # <<>>
<1> DEFINE fixed == IF act.tool = "stop" THEN <<Unknown>> ELSE s.question
<1>1. fixed \in Texts /\ fixed # <<>>
  BY SampleIn, ConstantWords DEF Texts
<1>2. CASE act.text \notin {<<>>, Placeholder} \/ act.tool \notin ToolTypes
  BY <1>2 DEF Repair
<1>3. CASE ~(act.text \notin {<<>>, Placeholder} \/ act.tool \notin ToolTypes)
  <2>1. Repair(s, act) = [act EXCEPT !.text = fixed]
    BY <1>3 DEF Repair
  <2> HIDE DEF fixed
  <2>2. Repair(s, act).tool = act.tool /\ Repair(s, act).text = fixed
    BY <2>1
  <2>3. QED
    BY <1>1, <2>2
<1>4. QED
  BY <1>2, <1>3

\* The fallbacks of agentic_search_rollout end in an action of one of the tools.
LEMMA ScriptedIn ==
  ASSUME NEW s \in Samples, NEW out \in PolicyOutputs
  PROVE  Scripted(s, out) \in [tool : ToolTypes, text : Texts]
<1>1. out \in [tool : STRING, text : Texts]
  BY SampleAssumption
<1>2. DefaultTool(s) \in ToolTypes
  BY ConstantWords DEF DefaultTool
<1>3. [tool |-> DefaultTool(s), text |-> s.question] \in [tool : ToolTypes, text : Texts]
  BY <1>2, SampleIn
<1>4. [tool |-> "stop", text |-> <<s.direct>>] \in [tool : ToolTypes, text : Texts]
  BY ConstantWords, SampleIn DEF Texts
<1>5. out.tool \in ToolTypes => out \in [tool : ToolTypes, text : Texts]
  BY <1>1
<1>6. QED
  BY <1>3, <1>4, <1>5 DEF Scripted

\* agentic_search_rollout searches once or not at all.
LEMMA AgenticStep ==
  ASSUME TypeInv, mode = "agentic", NEW s \in Samples, Agentic(s)
  PROVE  Rolled
<1>1. PICK out \in PolicyOutputs :
        LET act == Repair(s, Scripted(s, out))
        IN \/ /\ act.tool = "stop"
              /\ Finish(s, WithStop(<<>>, Head(act.text)), Probe(s))
              /\ UNCHANGED index
           \/ /\ act.tool \in SearchToolTypes
              /\ \E o \in Found(act.tool, act.text) :
                   LET answer == AnswerOf(o, s.direct)
                       first == <<MakeStep(<<>>, act.tool, act.text, o.text, answer)>>
                   IN /\ index' = Seen(index, act.tool, act.text, o)
                      /\ Finish(s, WithStop(first, answer), Probe(s))
  BY DEF Agentic
<1> DEFINE act == Repair(s, Scripted(s, out))
<1>2. act.text \in Texts \ {<<>>} /\ act.text \in Texts /\ act.text # <<>>
  <2>1. Scripted(s, out) \in [tool : ToolTypes, text : Texts]
    BY ScriptedIn
  <2>2. Scripted(s, out).tool \in ToolTypes
    BY <2>1
  <2>3. QED
    BY <2>1, <2>2, RepairIn
<1>3. Probe(s) \in Words /\ IndexOK(index)
  BY ProbeIn DEF TypeInv
<1>4. CASE /\ act.tool = "stop"
           /\ Finish(s, WithStop(<<>>, Head(act.text)), Probe(s))
           /\ UNCHANGED index
  <2> DEFINE t == Trajectory(s, WithStop(<<>>, Head(act.text)), Probe(s))
  <2>1. t \in Trajectories /\ OneEach(t.steps)
    BY <1>2, <1>3, HeadIn, StoppedIn
  <2>2. trajs' = Append(trajs, t) /\ IndexOK(index')
    BY <1>3, <1>4 DEF Finish
  <2> HIDE DEF t
  <2>3. QED
    BY <2>1, <2>2, AnyFits DEF Rolled
<1>5. CASE /\ act.tool \in SearchToolTypes
           /\ \E o \in Found(act.tool, act.text) :
                LET answer == AnswerOf(o, s.direct)
                    first == <<MakeStep(<<>>, act.tool, act.text, o.text, answer)>>
                IN /\ index' = Seen(index, act.tool, act.text, o)
                   /\ Finish(s, WithStop(first, answer), Probe(s))
  <2> HIDE DEF act
  <2> DEFINE answer(o) == AnswerOf(o, s.direct)
             t(o) == Trajectory(s, WithStop(<<MakeStep(<<>>, act.tool, act.text, o.text,
                                                       answer(o))>>, answer(o)), Probe(s))
  <2>1. PICK o \in Found(act.tool, act.text) :
          index' = Seen(index, act.tool, act.text, o) /\ trajs' = Append(trajs, t(o))
    BY <1>5 DEF Finish
  <2>2. o \in Observations
    BY <1>3, <2>1, FoundIn
  <2>3. IndexOK(index')
    BY <1>3, <2>1, <2>2, SeenIn
  <2>4. answer(o) \in Words /\ o.text \in Texts
    BY <2>2, AnswerIn, SampleIn, ObservationIn
  <2> HIDE DEF answer
  <2>5. t(o) \in Trajectories /\ OneEach(t(o).steps)
    BY <1>2, <1>3, <1>5, <2>4, SearchedIn
  <2> HIDE DEF t
  <2>6. QED
    BY <2>1, <2>3, <2>5, AnyFits DEF Rolled
<1>6. QED
  BY <1>1, <1>4, <1>5

\* model_agent_two_turn_rollout searches once or not at all; where it redacts,
\* the policy answers from a summary without a gold answer.
LEMMA TwoTurnStep ==
  ASSUME TypeInv, mode = "two_turn", NEW s \in Samples, TwoTurn(s)
  PROVE  Rolled
<1>1. PICK out \in PolicyOutputs :
        LET act == Repair(s, out)
        IN \/ /\ act.tool \notin SearchToolTypes
              /\ Finish(s, WithStop(<<>>, IF act.text = <<>> THEN Unknown ELSE Head(act.text)),
                        Probe(s))
              /\ UNCHANGED index
           \/ /\ act.tool \in SearchToolTypes
              /\ \E o \in Found(act.tool, act.text), answer \in Answers :
                   LET text == IF redact THEN RedactText(o.text, s.golds) ELSE o.text
                   IN /\ index' = Seen(index, act.tool, act.text, o)
                      /\ Finish(s, WithStop(<<MakeStep(<<>>, act.tool, act.text, text, None)>>,
                                            answer), Probe(s))
  BY DEF TwoTurn
<1> DEFINE act == Repair(s, out)
<1>2. act.text \in Texts /\ (act.tool \in SearchToolTypes => act.text # <<>>)
  <2>1. out \in [tool : STRING, text : Texts]
    BY SampleAssumption
  <2>2. act.tool = out.tool /\ act.text \in Texts /\ (out.tool \in ToolTypes => act.text # <<>>)
    BY <2>1, RepairIn
  <2>3. QED
    BY <2>2 DEF ToolTypes
<1>3. Probe(s) \in Words /\ IndexOK(index)
  BY ProbeIn DEF TypeInv
<1>4. CASE /\ act.tool \notin SearchToolTypes
           /\ Finish(s, WithStop(<<>>, IF act.text = <<>> THEN Unknown ELSE Head(act.text)),
                     Probe(s))
           /\ UNCHANGED index
  <2> DEFINE answer == IF act.text = <<>> THEN Unknown ELSE Head(act.text)
             t == Trajectory(s, WithStop(<<>>, answer), Probe(s))
  <2>1. answer \in Words
    BY <1>2, HeadIn, ConstantWords
  <2>2. trajs' = Append(trajs, t) /\ IndexOK(index')
    BY <1>3, <1>4 DEF Finish
  <2> HIDE DEF answer
  <2>3. t \in Trajectories /\ OneEach(t.steps) /\ HidesGolds(t)
    BY <1>3, <2>1, StoppedIn
  <2> HIDE DEF t
  <2>4. QED
    BY <2>2, <2>3 DEF Rolled, Fitting
<1>5. CASE /\ act.tool \in SearchToolTypes
           /\ \E o \in Found(act.tool, act.text), answer \in Answers :
                LET text == IF redact THEN RedactText(o.text, s.golds) ELSE o.text
                IN /\ index' = Seen(index, act.tool, act.text, o)
                   /\ Finish(s, WithStop(<<MakeStep(<<>>, act.tool, act.text, text, None)>>,
                                         answer), Probe(s))
  <2> HIDE DEF act
  <2> DEFINE text(o) == IF redact THEN RedactText(o.text, s.golds) ELSE o.text
             t(o, a) == Trajectory(s, WithStop(<<MakeStep(<<>>, act.tool, act.text, text(o),
                                                          None)>>, a), Probe(s))
  <2>1. PICK o \in Found(act.tool, act.text), a \in Answers :
          index' = Seen(index, act.tool, act.text, o) /\ trajs' = Append(trajs, t(o, a))
    BY <1>5 DEF Finish
  <2>2. o \in Observations /\ a \in Words
    BY <1>3, <2>1, FoundIn, SampleAssumption
  <2>3. IndexOK(index')
    BY <1>3, <2>1, <2>2, SeenIn
  <2>4. text(o) \in Texts /\ (redact => ToSet(text(o)) \cap ToSet(s.golds) = {})
    BY <2>2, ObservationIn, RedactIn
  <2> HIDE DEF text
  <2>5. t(o, a) \in Trajectories /\ OneEach(t(o, a).steps) /\ (redact => HidesGolds(t(o, a)))
    BY <1>2, <1>3, <1>5, <2>2, <2>4, ConstantWords, SearchedIn
  <2> HIDE DEF t
  <2>6. QED
    BY <2>1, <2>3, <2>5 DEF Rolled, Fitting
<1>6. QED
  BY <1>1, <1>4, <1>5

\* Whatever the entry point.
LEMMA RolloutStep ==
  ASSUME TypeInv, NEW s \in Samples, Rollout(s)
  PROVE  Rolled
BY TeachStep, PromptedStep, AgenticStep, TwoTurnStep DEF Rollout

---------------------------------------------------------------------------
\* The reward

\* What the dead zone and the clip leave of a number is one.
LEMMA StabilizeIn ==
  ASSUME NEW v \in Int
  PROVE  Stabilize(v) \in Int
<1>1. v \div 4 \in Int
  OBVIOUS
<1>2. QED
  BY <1>1 DEF Stabilize, Clip, Distance, MaxOf, MinOf, DeadZone

\* Gains are numbers too.
LEMMA FutureIn ==
  ASSUME NEW x, NEW cfs, NEW raw \in Int
  PROVE  LocalIG(x, cfs, raw) \in Int /\ FutureIG(x, cfs, raw) \in Int
<1>1. Gain(x, cfs, raw) \in Int
  BY DEF Gain
<1>2. LocalIG(x, cfs, raw) \in Int
  BY <1>1, StabilizeIn DEF LocalIG
<1>3. FutureIG(x, cfs, raw) \in Int
  BY <1>1 DEF FutureIG, Clip, Distance, MaxOf, MinOf, DeadZone
<1>4. QED
  BY <1>2, <1>3

\* The gains of a chain, and the return of its first step.
ChainScored(out) ==
  /\ out.g[1] \in Int /\ out.g[2] \in Int /\ out.d[1] \in Int
  /\ out.r[1] = 200 * out.g[1] + out.d[1] * MaxOf(out.g[2], 0)

\* compute scores a chain so.
LEMMA ComputeIn ==
  ASSUME NEW t \in Trajectories, IsChain(t.steps), NEW cfs,
         NEW raw \in [DOMAIN t.steps -> RawGains],
         NEW rawEdges \in [1..(Len(t.steps) - 1) -> RawGains]
  PROVE  ChainScored(Compute(t, cfs, raw, rawEdges))
<1> DEFINE g == [i \in DOMAIN t.steps |-> LocalIG(t.steps[i], cfs[i], raw[i])]
           d == [i \in 1..(Len(t.steps) - 1) |-> FutureIG(t.steps[i], cfs[i], rawEdges[i])]
           out == Compute(t, cfs, raw, rawEdges)
<1>1. out.g = g /\ out.d = d /\ out.r = Returns(g, d)
  BY DEF Compute
<1>2. DOMAIN t.steps = 1..3 /\ Len(t.steps) = 3
  BY DEF Trajectories, Steps, IsChain
<1>3. /\ raw[1] \in Int /\ raw[2] \in Int /\ rawEdges[1] \in Int
  <2>1. 1 \in 1..3 /\ 2 \in 1..3 /\ 1 \in 1..(3 - 1)
    OBVIOUS
  <2>2. QED
    BY <1>2, <2>1, SizeAssumption
<1>4. g[1] \in Int /\ g[2] \in Int /\ DOMAIN g = 1..3
  <2>1. g[1] = LocalIG(t.steps[1], cfs[1], raw[1]) /\ g[2] = LocalIG(t.steps[2], cfs[2], raw[2])
    BY <1>2
  <2>2. DOMAIN g = 1..3
    BY <1>2
  <2> HIDE DEF g
  <2>3. QED
    BY <1>3, <2>1, <2>2, FutureIn
<1>5. d[1] \in Int
  <2>1. d[1] = FutureIG(t.steps[1], cfs[1], rawEdges[1])
    BY <1>2
  <2> HIDE DEF d
  <2>2. QED
    BY <1>3, <2>1, FutureIn
<1>6. Len(g) = 3
  BY <1>2
<1> HIDE DEF g, d, out
<1>7. Returns(g, d)[1] = 200 * g[1] + d[1] * MaxOf(g[2], 0)
  BY <1>4, <1>6 DEF Returns
<1>8. ChainScored(out)
  BY <1>1, <1>4, <1>5, <1>7 DEF ChainScored
<1>9. QED
  BY <1>8 DEF out

\* What is selected was credited beyond its own gain.
LEMMA SelectedEarns ==
  ASSUME NEW t, NEW out, ChainScored(out), Selected(t, out)
  PROVE  out.r[1] \in Int /\ out.r[1] > 200 * out.g[1]
<1>1. out.d[1] \in Int /\ out.g[2] \in Int /\ out.g[1] \in Int
  BY DEF ChainScored
<1>2. out.d[1] > 0 /\ out.g[2] > 0
  BY <1>1, SizeAssumption DEF Selected
<1>3. MaxOf(out.g[2], 0) = out.g[2]
  BY <1>1, <1>2 DEF MaxOf
<1> DEFINE a == out.d[1]  b == out.g[2]  c == out.g[1]
<1>4. a \in Int /\ b \in Int /\ c \in Int /\ a > 0 /\ b > 0
  BY <1>1, <1>2
<1>5. out.r[1] = 200 * c + a * b
  BY <1>3 DEF ChainScored
<1> HIDE DEF a, b, c
<1>6. a * b \in Int /\ a * b > 0
  BY <1>4
<1>7. 200 * c \in Int
  BY <1>4
<1>8. out.r[1] \in Int /\ out.r[1] > 200 * c
  <2> DEFINE u == 200 * c  v == a * b
  <2>1. u \in Int /\ v \in Int /\ v > 0 /\ out.r[1] = u + v
    BY <1>5, <1>6, <1>7
  <2> HIDE DEF u, v
  <2>2. out.r[1] \in Int /\ out.r[1] > u
    BY <2>1
  <2>3. QED
    BY <2>2 DEF u
<1>9. QED
  BY <1>8 DEF c

---------------------------------------------------------------------------
\* The actions

\* What a trajectory is made of.
LEMMA TrajectoryIn ==
  ASSUME NEW t \in Trajectories
  PROVE  /\ t.sample \in Samples /\ t.sample.id \in Words
         /\ t.steps \in Steps \ {<<>>} /\ t.steps \in Seq(Step) /\ Laid(t.steps)
         /\ Len(t.steps) \in Nat \ {0} /\ t.steps[1].tool \in ToolTypes
<1>1. t.sample \in Samples /\ t.steps \in Steps \ {<<>>}
  BY DEF Trajectories
<1>2. t.steps \in Seq(Step) /\ Laid(t.steps) /\ t.steps # <<>>
  BY <1>1 DEF Steps
<1>3. Len(t.steps) \in Nat \ {0} /\ 1 \in DOMAIN t.steps
  BY <1>2
<1>4. t.steps[1] \in Step
  BY <1>2, <1>3, ElementsIn
<1>5. QED
  BY <1>1, <1>2, <1>3, <1>4, SampleIn DEF Step

\* Fill adds one trajectory after the other.
FillRun(p, job, end) ==
  \E q \in [0..Len(job) -> Pools] :
    /\ q[0] = p
    /\ \A k \in 1..Len(job) : q[k] = AddMany(q[k - 1], job[k].steps)
    /\ q[Len(job)] = end

\* The fold of Fill is such a run.
LEMMA FillRuns ==
  ASSUME NEW p \in Pools, NEW job \in Seq(Trajectories)
  PROVE  FillRun(p, job, FoldLeft(LAMBDA c, t : AddMany(c, t.steps), p, job))
<1> DEFINE n == Len(job)
           G == [c \in Pools \X (1..n) |-> AddMany(c[1], job[c[2]].steps)]
           Is(f) == f = [s \in SUBSET DOMAIN job |->
                           IF s = {} THEN p ELSE AddMany(f[s \ {Max(s)}], job[Max(s)].steps)]
           f == CHOOSE f : Is(f)
           end == FoldLeft(LAMBDA c, t : AddMany(c, t.steps), p, job)
<1>1. end = f[DOMAIN job]
  BY DEF FoldLeft, MapThenFoldSet
<1>2. n \in Nat /\ DOMAIN job = 1..n
  OBVIOUS
<1>3. \A k \in Pools, i \in 1..n : AddMany(k, job[i].steps) \in Pools
  <2>1. \A i \in 1..n : job[i].steps \in Seq(Step)
    <3>1. \A i \in 1..n : job[i] \in Trajectories
      BY <1>2
    <3>2. QED
      BY <3>1, TrajectoryIn
  <2>2. QED
    BY <2>1, AddManyIn
<1>4. G \in [Pools \X (1..n) -> Pools]
  BY <1>3
<1>5. \A k \in Pools, i \in 1..n : G[<<k, i>>] = AddMany(k, job[i].steps)
  OBVIOUS
<1> HIDE DEF G, n, end
<1>6. \A s \in SUBSET (1..n) : s # {} => Max(s) \in 1..n /\ s \ {Max(s)} \in SUBSET (1..n)
  BY <1>2, LastPosition
<1>7. PICK h \in [SUBSET (1..n) -> Pools] : IsFold(h, p, G, n)
  BY <1>2, <1>4, FoldExists
<1>8. Is(h)
  <2>1. ASSUME NEW s \in SUBSET (1..n)
        PROVE  h[s] = IF s = {} THEN p ELSE AddMany(h[s \ {Max(s)}], job[Max(s)].steps)
    BY <1>5, <1>6, <1>7 DEF IsFold
  <2>2. QED
    BY <1>2, <2>1
<1>9. Is(f)
  BY <1>8
<1> HIDE DEF f
<1>10. Unfolds(f, p, G, n, Pools)
  BY <1>2, <1>5, <1>6, <1>9 DEF Unfolds
<1>11. RunsTo(f[1..n], p, G, n, Pools)
  BY <1>2, <1>4, <1>10, FoldRuns
<1>12. PICK q \in [0..n -> Pools] : IsRun(q, p, G, n) /\ q[n] = f[1..n]
  BY <1>11 DEF RunsTo
<1>13. ASSUME NEW k \in 1..n PROVE q[k] = AddMany(q[k - 1], job[k].steps)
  <2>1. k - 1 \in 0..n
    BY <1>2
  <2>2. q[k - 1] \in Pools /\ q[k] = G[<<q[k - 1], k>>]
    BY <1>12, <2>1 DEF IsRun
  <2>3. QED
    BY <1>5, <2>2
<1>14. q[0] = p /\ q[n] = end
  BY <1>1, <1>2, <1>12 DEF IsRun
<1>15. FillRun(p, job, end)
  BY <1>13, <1>14 DEF FillRun, n
<1>16. QED
  BY <1>15 DEF end

\* They are steps,
LEMMA AmongIn ==
  ASSUME NEW job \in Seq(Trajectories), NEW n \in 0..Len(job)
  PROVE  Among(job, n) \in SUBSET Step
<1>1. ASSUME NEW j \in 1..n PROVE ToSet(job[j].steps) \subseteq Step
  <2>1. j \in 1..Len(job)
    OBVIOUS
  <2>2. job[j] \in Trajectories
    BY <2>1
  <2>3. job[j].steps \in Seq(Step)
    BY <2>2, TrajectoryIn
  <2>4. QED
    BY <2>3, ElementsIn
<1>2. QED
  BY <1>1 DEF Among

\* and one trajectory more adds its own.
LEMMA AmongMore ==
  ASSUME NEW job \in Seq(Trajectories), NEW k \in Nat, k + 1 <= Len(job)
  PROVE  /\ Among(job, k) \in SUBSET Step
         /\ Among(job, k + 1) = Among(job, k) \cup ToSet(job[k + 1].steps)
<1>1. k \in 0..Len(job)
  OBVIOUS
<1>2. 1..(k + 1) = 1..k \cup {k + 1}
  OBVIOUS
<1>3. Among(job, k) \in SUBSET Step
  BY <1>1, AmongIn
<1>4. QED
  BY <1>2, <1>3 DEF Among

\* Filling an empty pool with a job it has room for leaves it with all its steps.
LEMMA FillHolds ==
  ASSUME NEW p \in Pools, PoolOf(p, {}, 0),
         NEW job \in Seq(Trajectories), Len(job) <= MaxPerType,
         \A j \in 1..Len(job) : OneEach(job[j].steps),
         NEW end, FillRun(p, job, end)
  PROVE  PoolOf(end, Among(job, Len(job)), Len(job))
<1>1. PICK q \in [0..Len(job) -> Pools] :
        /\ q[0] = p
        /\ \A k \in 1..Len(job) : q[k] = AddMany(q[k - 1], job[k].steps)
        /\ q[Len(job)] = end
  BY DEF FillRun
<1> DEFINE T == {k \in Nat : k <= Len(job) => PoolOf(q[k], Among(job, k), k)}
<1>2. Len(job) \in Nat /\ DOMAIN job = 1..Len(job) /\ MaxPerType \in Nat
      /\ \A j \in 1..Len(job) : job[j] \in Trajectories
  BY SizeAssumption
<1>3. 0 \in T
  <2>1. Among(job, 0) = {}
    BY DEF Among
  <2>2. QED
    BY <1>1, <2>1
<1>4. ASSUME NEW k \in Nat, k \in T PROVE k + 1 \in T
  <2>1. CASE k + 1 <= Len(job)
    <3>1. k + 1 \in 1..Len(job) /\ (k + 1) - 1 = k /\ k \in 0..Len(job) /\ k < MaxPerType
      BY <1>2, <2>1
    <3> DEFINE steps == job[k + 1].steps
               known == Among(job, k)
    <3>2. q[k] \in Pools /\ q[k + 1] = AddMany(q[k], steps) /\ PoolOf(q[k], known, k)
      BY <1>1, <1>4, <3>1
    <3>3. steps \in Seq(Step) /\ OneEach(steps)
      BY <1>2, <3>1, TrajectoryIn
    <3>4. known \in SUBSET Step /\ Among(job, k + 1) = known \cup ToSet(steps)
      BY <2>1, AmongMore
    <3> HIDE DEF steps, known, T
    <3>5. PoolOf(AddMany(q[k], steps), known \cup ToSet(steps), k + 1)
      BY <3>1, <3>2, <3>3, <3>4, AddManyMore
    <3>6. QED
      BY <3>2, <3>4, <3>5 DEF T
  <2>2. CASE ~(k + 1 <= Len(job))
    BY <2>2
  <2>3. QED
    BY <2>1, <2>2
<1> HIDE DEF T
<1>5. Nat \subseteq T
  BY <1>3, <1>4, NatAll
<1>6. QED
  BY <1>1, <1>2, <1>5 DEF T

\* A later row replaces an earlier one of the same sample; every edge is a row.
EdgeMaps(R) ==
  {e \in UNION {[D -> R] : D \in SUBSET {r.id : r \in R}} : \A id \in DOMAIN e : e[id].id = id}

\* One more row keeps it so,
LEMMA PutIn ==
  ASSUME NEW R, NEW e \in EdgeMaps(R), NEW r \in R
  PROVE  Put(e, r.id, r) \in EdgeMaps(R)
<1>1. PICK D \in SUBSET {x.id : x \in R} : e \in [D -> R]
  BY DEF EdgeMaps
<1> DEFINE E == D \cup {r.id}
           f == Put(e, r.id, r)
<1>2. \A id \in DOMAIN e : e[id].id = id
  BY DEF EdgeMaps
<1>3. f = [x \in E |-> IF x = r.id THEN r ELSE e[x]] /\ DOMAIN e = D
  BY <1>1 DEF Put
<1>4. E \in SUBSET {x.id : x \in R}
  BY <1>1
<1> HIDE DEF E, f
<1>5. \A x \in E : f[x] \in R /\ f[x].id = x
  BY <1>1, <1>2, <1>3 DEF E
<1>6. f \in [E -> R] /\ DOMAIN f = E
  BY <1>3, <1>5
<1>7. f \in UNION {[F -> R] : F \in SUBSET {x.id : x \in R}}
  BY <1>4, <1>6
<1>8. f \in EdgeMaps(R)
  BY <1>5, <1>6, <1>7 DEF EdgeMaps
<1>9. QED
  BY <1>8 DEF f

\* and so do all.
LEMMA LoadIn ==
  ASSUME NEW R, NEW s \in Seq(R)
  PROVE  FoldLeft(LAMBDA e, r : Put(e, r.id, r), <<>>, s) \in EdgeMaps(R)
<1>1. PICK none \in EdgeMaps(R) : none = <<>>
  <2>1. {} \in SUBSET {r.id : r \in R} /\ <<>> \in [{} -> R] /\ DOMAIN <<>> = {}
    OBVIOUS
  <2>2. <<>> \in UNION {[D -> R] : D \in SUBSET {r.id : r \in R}}
    BY <2>1
  <2>3. <<>> \in EdgeMaps(R)
    BY <2>1, <2>2 DEF EdgeMaps
  <2>4. QED
    BY <2>3
<1> DEFINE n == Len(s)
           V == EdgeMaps(R)
           G == [c \in V \X (1..n) |-> Put(c[1], s[c[2]].id, s[c[2]])]
           Is(f) == f = [u \in SUBSET DOMAIN s |->
                           IF u = {} THEN none ELSE Put(f[u \ {Max(u)}], s[Max(u)].id, s[Max(u)])]
           f == CHOOSE f : Is(f)
           end == FoldLeft(LAMBDA e, r : Put(e, r.id, r), none, s)
<1>2. end = f[DOMAIN s]
  BY DEF FoldLeft, MapThenFoldSet
<1>3. n \in Nat /\ DOMAIN s = 1..n
  OBVIOUS
<1> HIDE DEF V
<1>4. \A k \in V, i \in 1..n : Put(k, s[i].id, s[i]) \in V
  <2>1. \A i \in 1..n : s[i] \in R
    BY <1>3
  <2>2. QED
    BY <2>1, PutIn DEF V
<1>5. G \in [V \X (1..n) -> V]
  BY <1>4
<1>6. \A k \in V, i \in 1..n : G[<<k, i>>] = Put(k, s[i].id, s[i])
  OBVIOUS
<1> HIDE DEF G, n, end
<1>7. \A u \in SUBSET (1..n) : u # {} => Max(u) \in 1..n /\ u \ {Max(u)} \in SUBSET (1..n)
  BY <1>3, LastPosition
<1>8. none \in V
  BY <1>1 DEF V
<1>9. PICK h \in [SUBSET (1..n) -> V] : IsFold(h, none, G, n)
  BY <1>3, <1>5, <1>8, FoldExists
<1>10. Is(h)
  <2>1. ASSUME NEW u \in SUBSET (1..n)
        PROVE  h[u] = IF u = {} THEN none ELSE Put(h[u \ {Max(u)}], s[Max(u)].id, s[Max(u)])
    BY <1>6, <1>7, <1>9 DEF IsFold
  <2>2. QED
    BY <1>3, <2>1
<1>11. Is(f)
  BY <1>10
<1> HIDE DEF f
<1>12. Unfolds(f, none, G, n, V)
  BY <1>3, <1>6, <1>7, <1>11 DEF Unfolds
<1>13. RunsTo(f[1..n], none, G, n, V)
  BY <1>3, <1>5, <1>8, <1>12, FoldRuns
<1>14. end \in V
  BY <1>2, <1>3, <1>13 DEF RunsTo
<1>15. QED
  BY <1>1, <1>14 DEF end, V

---------------------------------------------------------------------------
\* The invariants

Inv == TypeInv /\ MadeInv /\ PoolInv /\ EarnedInv

\* Scoring: the trajectory, and what its row says.
LEMMA ScoreStep ==
  ASSUME TypeInv, MadeInv, Score
  PROVE  /\ trajs[scored + 1] \in Trajectories
         /\ trajs[scored + 1] \in ToSet(trajs)
         /\ pool' = AddMany(pool, trajs[scored + 1].steps)
         /\ pool' \in Pools
         /\ scored' \in 0..Len(trajs)
         /\ \/ rows' = rows
            \/ \E r \in Rows :
                 mode = "relabel" /\ rows' = Append(rows, r) /\ Earned(r)
<1> DEFINE t == trajs[scored + 1]
           p == AddMany(pool, t.steps)
           cfs == [i \in DOMAIN t.steps |-> SampleCfs(p, t.steps[i])]
<1>1. scored + 1 \in 1..Len(trajs) /\ DOMAIN trajs = 1..Len(trajs) /\ scored' = scored + 1
      /\ trajs \in Seq(Trajectories)
  BY DEF TypeInv, Score
<1>2. t \in Trajectories /\ t \in ToSet(trajs)
  BY <1>1 DEF ToSet
<1>3. pool' = p
  BY DEF Score
<1>4. pool \in Pools /\ p \in Pools
  BY <1>2, TrajectoryIn, AddManyIn DEF TypeInv
<1>5. PICK raw \in [DOMAIN t.steps -> RawGains], rawEdges \in [1..(Len(t.steps) - 1) -> RawGains] :
        output' = Compute(t, cfs, raw, rawEdges)
  BY DEF Score
<1>6. rows' = IF mode = "relabel" /\ Selected(t, output') THEN Append(rows, Row(t, output')) ELSE rows
  BY DEF Score
<1> HIDE DEF t, p, cfs
<1>7. ASSUME mode = "relabel", Selected(t, output')
      PROVE  Row(t, output') \in Rows /\ Earned(Row(t, output'))
  <2>1. IsChain(t.steps)
    BY <1>2, <1>7 DEF MadeInv, Fitting
  <2>2. ChainScored(output')
    BY <1>2, <1>5, <2>1, ComputeIn
  <2> DEFINE out == output'
  <2>3. ChainScored(out) /\ Selected(t, out)
    BY <1>7, <2>2
  <2> HIDE DEF out
  <2>4. out.r[1] \in Int /\ out.r[1] > 200 * out.g[1] /\ out.g[1] \in Int
    BY <2>3, SelectedEarns DEF ChainScored
  <2>5. ~Shows(t.steps[1], t.sample.golds)
    BY <2>3 DEF Selected
  <2>6. t.sample.id \in Words /\ t.steps[1].tool \in ToolTypes
    BY <1>2, TrajectoryIn
  <2> DEFINE r == Row(t, out)
  <2>7. r = [id |-> t.sample.id, tool |-> t.steps[1].tool, g0 |-> out.g[1], r0 |-> out.r[1]]
    BY DEF Row
  <2> HIDE DEF r
  <2>8. r \in Rows
    BY <2>4, <2>6, <2>7 DEF Rows
  <2>9. Earned(r)
    BY <1>2, <2>4, <2>5, <2>7 DEF Earned
  <2>10. QED
    BY <2>8, <2>9 DEF out, r
<1>8. rows' = rows \/ \E r \in Rows : mode = "relabel" /\ rows' = Append(rows, r) /\ Earned(r)
  BY <1>6, <1>7
<1>9. scored' \in 0..Len(trajs)
  BY <1>1
<1>10. QED
  BY <1>2, <1>3, <1>4, <1>8, <1>9 DEF t, p

\* Types
LEMMA TypeStep ==
  ASSUME TypeInv, MadeInv, Next
  PROVE  TypeInv'
<1>1. ASSUME NEW s \in Samples, Rollout(s) PROVE TypeInv'
  <2>1. PICK t \in Trajectories : trajs' = Append(trajs, t)
    BY <1>1, RolloutStep DEF Rolled
  <2>2. IndexOK(index)'
    BY <1>1, RolloutStep DEF Rolled, IndexOK
  <2>3. /\ trajs \in Seq(Trajectories) /\ Len(trajs) < Limit[mode] /\ Limit[mode] \in Nat
    <3>1. mode \in AllModes
      BY SampleAssumption DEF TypeInv
    <3>2. QED
      BY <1>1, <3>1, SizeAssumption DEF TypeInv, Rollout
  <2>4. trajs' \in Seq(Trajectories) /\ Len(trajs') = Len(trajs) + 1
    BY <2>1, <2>3, AppendIs
  <2>5. UNCHANGED <<mode, redact, pool, pc, scored, rows>>
    BY <1>1 DEF Rollout
  <2>6. scored' \in 0..Len(trajs') /\ Len(trajs') <= Limit[mode]
    BY <2>3, <2>4, <2>5 DEF TypeInv
  <2>7. QED
    BY <2>2, <2>4, <2>5, <2>6 DEF TypeInv
<1>2. ASSUME EndRollout PROVE TypeInv'
  BY <1>2 DEF TypeInv, EndRollout, IndexOK
<1>3. ASSUME Fill PROVE TypeInv'
  <2>1. pool' \in Pools
    <3>1. pool \in Pools /\ trajs \in Seq(Trajectories)
      BY DEF TypeInv
    <3>2. FillRun(pool, trajs, pool')
      BY <1>3, <3>1, FillRuns DEF Fill
    <3>3. Len(trajs) \in 0..Len(trajs)
      BY <3>1
    <3>4. QED
      BY <3>2, <3>3 DEF FillRun
  <2>2. QED
    BY <1>3, <2>1 DEF TypeInv, Fill, IndexOK
<1>4. ASSUME Score PROVE TypeInv'
  <2>1. pool' \in Pools /\ scored' \in 0..Len(trajs) /\ scored' = scored + 1
    BY <1>4, ScoreStep DEF Score
  <2>2. UNCHANGED <<mode, redact, index, trajs, pc>> /\ pc = "score"
    BY <1>4 DEF Score
  <2>3. rows' \in Seq(Rows) /\ Len(rows') <= IF mode = "relabel" THEN scored' ELSE 0
    <3>1. rows \in Seq(Rows) /\ Len(rows) \in Nat /\ scored \in Nat
          /\ Len(rows) <= IF mode = "relabel" THEN scored ELSE 0
      BY DEF TypeInv
    <3>2. CASE rows' = rows
      BY <2>1, <3>1, <3>2
    <3>3. CASE \E r \in Rows : mode = "relabel" /\ rows' = Append(rows, r) /\ Earned(r)
      <4>1. PICK r \in Rows : mode = "relabel" /\ rows' = Append(rows, r)
        BY <3>3
      <4>2. rows' \in Seq(Rows) /\ Len(rows') = Len(rows) + 1
        BY <3>1, <4>1, AppendIs
      <4>3. QED
        BY <2>1, <3>1, <4>1, <4>2
    <3>4. QED
      BY <1>4, <3>2, <3>3, ScoreStep
  <2>4. QED
    BY <2>1, <2>2, <2>3 DEF TypeInv, IndexOK
<1>5. ASSUME EndScore PROVE TypeInv'
  BY <1>5 DEF TypeInv, EndScore, IndexOK
<1>6. ASSUME Load PROVE TypeInv'
  BY <1>6 DEF TypeInv, Load, IndexOK
<1>7. ASSUME Done PROVE TypeInv'
  BY <1>7 DEF TypeInv, Done, vars, IndexOK
<1>8. QED
  BY <1>1, <1>2, <1>3, <1>4, <1>5, <1>6, <1>7 DEF Next

\* Only Rollout makes trajectories, and no action changes the mode.
LEMMA MadeStep ==
  ASSUME TypeInv, MadeInv, Next
  PROVE  MadeInv'
<1>1. UNCHANGED <<mode, redact>>
  BY DEF Next, Rollout, EndRollout, Fill, Score, EndScore, Load, Done, vars
<1>2. ASSUME NEW s \in Samples, Rollout(s) PROVE MadeInv'
  <2>1. PICK t \in Trajectories : trajs' = Append(trajs, t) /\ Fitting(t)
    BY <1>2, RolloutStep DEF Rolled
  <2>2. ToSet(trajs') = ToSet(trajs) \cup {t}
    BY <2>1, AppendIs DEF TypeInv
  <2>3. \A u \in ToSet(trajs') : Fitting(u)
    BY <2>1, <2>2 DEF MadeInv
  <2>4. QED
    BY <1>1, <2>3 DEF MadeInv, Fitting
<1>3. ASSUME ~(\E s \in Samples : Rollout(s)) PROVE MadeInv'
  <2>1. trajs' = trajs
    BY <1>3 DEF Next, EndRollout, Fill, Score, EndScore, Load, Done, vars
  <2>2. QED
    BY <1>1, <2>1 DEF MadeInv, Fitting
<1>4. QED
  BY <1>2, <1>3

\* The trajectory that is scored next adds nothing to a relabelling job's pool.
LEMMA ScoreKeeps ==
  ASSUME TypeInv, PoolInv, MadeInv, Score, mode = "relabel", Len(trajs) <= MaxPerType
  PROVE  pool' = pool
<1> DEFINE t == trajs[scored + 1]
<1>1. t \in Trajectories /\ pool' = AddMany(pool, t.steps)
  BY ScoreStep
<1>2. scored + 1 \in 1..Len(trajs)
  BY DEF TypeInv, Score
<1>3. PoolOf(pool, Among(trajs, Len(trajs)), Len(trajs))
  BY DEF PoolInv, Given, Score
<1>4. ToSet(t.steps) \subseteq Among(trajs, Len(trajs))
  BY <1>2 DEF Among
<1> HIDE DEF t
<1>5. t.steps \in Seq(Step) /\ pool \in Pools
  BY <1>1, TrajectoryIn DEF TypeInv
<1>6. \A i \in DOMAIN t.steps : Holds(pool, t.steps[i])
  BY <1>3, <1>4 DEF PoolOf, ToSet
<1>7. QED
  BY <1>1, <1>5, <1>6, AddManyAgain

\* The pool, action by action.
LEMMA PoolStep ==
  ASSUME TypeInv, MadeInv, PoolInv, Next
  PROVE  PoolInv'
<1>1. mode' = mode
  BY DEF Next, Rollout, EndRollout, Fill, Score, EndScore, Load, Done, vars
<1>2. \A j, k : Among(j, 0) = Among(k, 0)
  BY DEF Among
<1>3. ASSUME NEW s \in Samples, Rollout(s) PROVE PoolInv'
  <2>1. Given = 0 /\ Given' = 0 /\ pool' = pool
    BY <1>1, <1>3 DEF Given, Rollout, TypeInv
  <2>2. Among(trajs', Given') = Among(trajs, Given)
    BY <1>2, <2>1
  <2>3. QED
    BY <2>1, <2>2 DEF PoolInv, PoolOf, OfSteps, Holds
<1>4. ASSUME UNCHANGED <<trajs, pool>>, Given' = Given PROVE PoolInv'
  BY <1>4 DEF PoolInv, PoolOf, OfSteps, Holds, Among
<1>5. ASSUME EndRollout PROVE PoolInv'
  <2>1. Given' = Given
    BY <1>1, <1>5 DEF Given, EndRollout, TypeInv
  <2>2. QED
    BY <1>4, <1>5, <2>1 DEF EndRollout
<1>6. ASSUME Fill PROVE PoolInv'
  <2>1. /\ pc' = "score" /\ trajs' = trajs /\ mode = "relabel"
        /\ Given = 0 /\ Given' = Len(trajs)
    BY <1>1, <1>6 DEF Fill, TypeInv, Given
  <2>2. ASSUME Len(trajs) <= MaxPerType PROVE PoolOf(pool', Among(trajs, Len(trajs)), Len(trajs))
    <3>1. pool \in Pools /\ trajs \in Seq(Trajectories)
      BY DEF TypeInv
    <3>2. FillRun(pool, trajs, pool')
      BY <1>6, <3>1, FillRuns DEF Fill
    <3>3. PoolOf(pool, {}, 0)
      <4>1. 0 <= MaxPerType
        BY SizeAssumption
      <4>2. Among(trajs, 0) = {}
        BY DEF Among
      <4>3. QED
        BY <2>1, <4>1, <4>2 DEF PoolInv
    <3>4. \A j \in 1..Len(trajs) : OneEach(trajs[j].steps)
      <4>1. \A j \in 1..Len(trajs) : trajs[j] \in ToSet(trajs)
        BY <3>1 DEF ToSet
      <4>2. QED
        BY <4>1 DEF MadeInv, Fitting
    <3>5. QED
      BY <2>2, <3>1, <3>2, <3>3, <3>4, FillHolds
  <2>3. QED
    BY <2>1, <2>2 DEF PoolInv, PoolOf, OfSteps, Holds, Among
<1>7. ASSUME Score PROVE PoolInv'
  <2>1. pc = "score" /\ pc' = "score" /\ trajs' = trajs /\ scored' = scored + 1
    BY <1>7 DEF Score
  <2>2. CASE mode = "relabel"
    <3>1. Given = Len(trajs) /\ Given' = Given
      BY <1>1, <2>1, <2>2 DEF Given
    <3>2. CASE Len(trajs) <= MaxPerType
      BY <1>4, <1>7, <2>1, <2>2, <3>1, <3>2, ScoreKeeps
    <3>3. CASE ~(Len(trajs) <= MaxPerType)
      BY <3>1, <3>3 DEF PoolInv
    <3>4. QED
      BY <3>2, <3>3
  <2>3. CASE mode # "relabel"
    <3>1. Given = scored /\ Given' = scored + 1
      BY <1>1, <2>1, <2>3 DEF Given
    <3>2. ASSUME scored + 1 <= MaxPerType
          PROVE  PoolOf(pool', Among(trajs, scored + 1), scored + 1)
      <4> DEFINE t == trajs[scored + 1]
                 known == Among(trajs, scored)
      <4>1. /\ trajs \in Seq(Trajectories) /\ scored \in Nat /\ scored + 1 <= Len(trajs)
            /\ pool \in Pools
        BY <1>7 DEF TypeInv, Score
      <4>2. t \in Trajectories /\ t \in ToSet(trajs) /\ pool' = AddMany(pool, t.steps)
        BY <1>7, ScoreStep
      <4>3. known \in SUBSET Step /\ Among(trajs, scored + 1) = known \cup ToSet(t.steps)
        BY <4>1, AmongMore
      <4>4. MaxPerType \in Nat
        BY SizeAssumption
      <4>5. scored < MaxPerType /\ PoolOf(pool, known, scored)
        <5>1. scored < MaxPerType /\ scored <= MaxPerType
          BY <3>2, <4>1, <4>4
        <5>2. QED
          BY <3>1, <5>1 DEF PoolInv
      <4>6. t.steps \in Seq(Step) /\ OneEach(t.steps)
        BY <4>2, TrajectoryIn DEF MadeInv, Fitting
      <4> HIDE DEF t, known
      <4>7. PoolOf(AddMany(pool, t.steps), known \cup ToSet(t.steps), scored + 1)
        BY <4>1, <4>3, <4>5, <4>6, AddManyMore
      <4>8. QED
        BY <4>2, <4>3, <4>7
    <3>3. QED
      BY <2>1, <3>1, <3>2 DEF PoolInv, PoolOf, OfSteps, Holds, Among
  <2>4. QED
    BY <2>2, <2>3
<1>8. ASSUME EndScore PROVE PoolInv'
  <2>1. Given' = Given
    BY <1>1, <1>8 DEF Given, EndScore
  <2>2. QED
    BY <1>4, <1>8, <2>1 DEF EndScore
<1>9. ASSUME Load PROVE PoolInv'
  <2>1. Given' = Given
    BY <1>1, <1>9 DEF Given, Load
  <2>2. QED
    BY <1>4, <1>9, <2>1 DEF Load
<1>10. ASSUME Done PROVE PoolInv'
  <2>1. Given' = Given
    BY <1>10 DEF Given, Done, vars
  <2>2. QED
    BY <1>4, <1>10, <2>1 DEF Done, vars
<1>11. QED
  BY <1>3, <1>5, <1>6, <1>7, <1>8, <1>9, <1>10 DEF Next

\* Trajectories stay, so what was earned stays earned.
LEMMA EarnedStep ==
  ASSUME TypeInv, MadeInv, EarnedInv, Next
  PROVE  EarnedInv'
<1>1. ToSet(trajs) \subseteq ToSet(trajs')
  <2>1. ASSUME NEW s \in Samples, Rollout(s) PROVE ToSet(trajs) \subseteq ToSet(trajs')
    <3>1. PICK t \in Trajectories : trajs' = Append(trajs, t)
      BY <2>1, RolloutStep DEF Rolled
    <3>2. ToSet(trajs') = ToSet(trajs) \cup {t}
      BY <3>1, AppendIs DEF TypeInv
    <3>3. QED
      BY <3>2
  <2>2. ASSUME ~(\E s \in Samples : Rollout(s)) PROVE trajs' = trajs
    BY <2>2 DEF Next, EndRollout, Fill, Score, EndScore, Load, Done, vars
  <2>3. QED
    BY <2>1, <2>2
<1> DEFINE Still(r) ==
      /\ r.r0 > 200 * r.g0
      /\ \E t \in ToSet(trajs') :
           /\ t.sample.id = r.id
           /\ r.tool = t.steps[1].tool
           /\ ~Shows(t.steps[1], t.sample.golds)
<1>2. ASSUME NEW r, Earned(r) PROVE Still(r)
  BY <1>1, <1>2 DEF Earned
<1>3. \A i \in DOMAIN rows' : Still(rows'[i])
  <2>1. CASE rows' = rows
    BY <1>2, <2>1 DEF EarnedInv
  <2>2. CASE rows' # rows
    <3>1. Score
      BY <2>2 DEF Next, Rollout, EndRollout, Fill, EndScore, Load, Done, vars
    <3>2. PICK r \in Rows : rows' = Append(rows, r) /\ Earned(r)
      BY <2>2, <3>1, ScoreStep
    <3>3. rows \in Seq(Rows)
      BY DEF TypeInv
    <3>4. /\ rows' \in Seq(Rows) /\ Len(rows') = Len(rows) + 1 /\ rows'[Len(rows) + 1] = r
          /\ \A i \in 1..Len(rows) : rows'[i] = rows[i]
      BY <3>2, <3>3, AppendIs
    <3>5. ASSUME NEW i \in DOMAIN rows' PROVE Earned(rows'[i])
      <4>1. i \in 1..(Len(rows) + 1) /\ DOMAIN rows = 1..Len(rows)
        BY <3>3, <3>4
      <4>2. CASE i = Len(rows) + 1
        BY <3>2, <3>4, <4>2
      <4>3. CASE i # Len(rows) + 1
        <5>1. i \in 1..Len(rows)
          BY <3>3, <4>1, <4>3
        <5>2. QED
          BY <3>4, <4>1, <5>1 DEF EarnedInv
      <4>4. QED
        BY <4>2, <4>3
    <3>6. QED
      BY <1>2, <3>5
  <2>3. QED
    BY <2>1, <2>2
<1>4. \A id \in DOMAIN edges' : Still(edges'[id]) /\ edges'[id].id = id
  <2>1. CASE Load
    <3>1. rows \in Seq(ToSet(rows))
      BY DEF TypeInv, ToSet
    <3>2. edges' \in EdgeMaps(ToSet(rows))
      BY <2>1, <3>1, LoadIn DEF Load
    <3>3. ASSUME NEW id \in DOMAIN edges' PROVE edges'[id] \in ToSet(rows) /\ edges'[id].id = id
      BY <3>2 DEF EdgeMaps
    <3>4. \A r \in ToSet(rows) : Earned(r)
      BY DEF EarnedInv, ToSet
    <3>5. QED
      BY <1>2, <3>3, <3>4
  <2>2. CASE ~Load
    <3>1. edges' = edges
      BY <2>2 DEF Next, Rollout, EndRollout, Fill, Score, EndScore, Done, vars
    <3>2. QED
      BY <1>2, <3>1 DEF EarnedInv
  <2>3. QED
    BY <2>1, <2>2
<1>5. QED
  BY <1>3, <1>4 DEF EarnedInv, Earned

---------------------------------------------------------------------------
\* The invariants hold from the start, and after every step.

\* From the start,
LEMMA InitInv ==
  ASSUME Init
  PROVE  Inv
<1>1. IndexOK(index)
  BY DEF Init, IndexOK
<1>2. /\ trajs = <<>> /\ trajs \in Seq(Trajectories) /\ Len(trajs) = 0 /\ scored \in 0..Len(trajs)
      /\ ToSet(trajs) = {}
  BY DEF Init, ToSet
<1>3. mode \in Modes /\ redact \in BOOLEAN /\ pc = "rollout" /\ Limit[mode] \in Nat
  <2>1. mode \in AllModes
    BY SampleAssumption DEF Init
  <2>2. QED
    BY <2>1, SizeAssumption DEF Init
<1>4. pool \in Pools /\ \A tool \in ToolTypes : Len(pool[tool]) = 0
  BY SizeAssumption DEF Init, Pools
<1>5. rows \in Seq(Rows) /\ Len(rows) = 0 /\ DOMAIN rows = {} /\ DOMAIN edges = {} /\ scored = 0
  BY DEF Init
<1>6. TypeInv
  BY <1>1, <1>2, <1>3, <1>4, <1>5 DEF TypeInv
<1>7. MadeInv /\ EarnedInv
  BY <1>2, <1>5 DEF MadeInv, EarnedInv
<1>8. PoolInv
  <2>1. Given = 0 /\ Among(trajs, 0) = {}
    BY <1>2, <1>3, <1>5 DEF Given, Among
  <2>2. \A tool \in ToolTypes : DOMAIN pool[tool] = {} /\ Len(pool[tool]) <= 0
    BY <1>4 DEF Pools
  <2>3. PoolOf(pool, {}, 0)
    BY <2>2 DEF PoolOf, OfSteps
  <2>4. QED
    BY <2>1, <2>3 DEF PoolInv
<1>9. QED
  BY <1>6, <1>7, <1>8 DEF Inv

\* and from step to step.
LEMMA StepInv ==
  ASSUME Inv, [Next]_vars
  PROVE  Inv'
<1>1. CASE Next
  BY <1>1, TypeStep, MadeStep, PoolStep, EarnedStep DEF Inv
<1>2. CASE UNCHANGED vars
  <2>1. TypeInv'
    BY <1>2 DEF Inv, TypeInv, vars, IndexOK
  <2>2. MadeInv'
    BY <1>2 DEF Inv, MadeInv, Fitting, HidesGolds, vars
  <2>3. PoolInv'
    BY <1>2 DEF Inv, PoolInv, PoolOf, OfSteps, Holds, Among, Given, vars
  <2>4. EarnedInv'
    BY <1>2 DEF Inv, EarnedInv, Earned, vars
  <2>5. QED
    BY <2>1, <2>2, <2>3, <2>4 DEF Inv
<1>3. QED
  BY <1>1, <1>2

\* The invariants hold in every state.
THEOREM InvCorrect == Spec => []Inv
<1>1. Init => Inv
  BY InitInv
<1>2. Inv /\ [Next]_vars => Inv'
  BY StepInv
<1>3. QED
  BY <1>1, <1>2, PTL DEF Spec

\* The types of the pipeline: the spans of a trajectory's steps follow one another
\* from 0 and none is empty, whichever of the four rollouts makes them, and no
\* bucket of the pool is larger than max_per_type.
THEOREM DagIgTypeCorrect == Spec => []TypeOK
<1>1. Inv => TypeOK
  <2> SUFFICES ASSUME Inv PROVE TypeOK
    OBVIOUS
  <2>1. TypeInv
    BY DEF Inv
  <2>2. ASSUME NEW t \in ToSet(trajs), NEW i \in DOMAIN t.steps
        PROVE  /\ t.steps[i].id = i - 1
               /\ t.steps[i].tool \in ToolTypes
               /\ t.steps[i].start = (IF i = 1 THEN 0 ELSE t.steps[i - 1].end)
               /\ t.steps[i].start < t.steps[i].end
    <3>1. t \in Trajectories
      BY <2>1, ElementsIn DEF TypeInv
    <3>2. Laid(t.steps) /\ t.steps \in Seq(Step)
      BY <3>1, TrajectoryIn
    <3>3. t.steps[i] \in Step
      BY <3>2, ElementsIn
    <3>4. t.steps[i].tool \in ToolTypes
      BY <3>3 DEF Step
    <3>5. QED
      BY <3>2, <3>4 DEF Laid
  <2>3. \A tool \in ToolTypes : Len(pool[tool]) <= MaxPerType
    BY <2>1 DEF TypeInv, Pools
  <2>4. QED
    BY <2>1, <2>2, <2>3 DEF TypeOK, TypeInv
<1>2. QED
  BY <1>1, InvCorrect, PTL

\* With redact_observation_answers the policy of the two-turn rollout answers from
\* summaries that hold none of the gold answers, whatever the indexes return and
\* wherever the summary is cut.
THEOREM HiddenCorrect == Spec => []AnswerHidden
<1>1. Inv => AnswerHidden
  BY DEF Inv, MadeInv, Fitting, HidesGolds, AnswerHidden
<1>2. QED
  BY <1>1, InvCorrect, PTL

\* Every edge that training loads comes from a trajectory of its sample whose image
\* search did not show the answer, and was credited beyond its own gain.
THEOREM EdgesCorrect == Spec => []EdgesAreEarned
<1>1. Inv => EdgesAreEarned
  BY DEF Inv, EarnedInv, Earned, EdgesAreEarned
<1>2. QED
  BY <1>1, InvCorrect, PTL

\* Scoring a relabelling job that fits the pool does not change the pool, so no
\* score depends on the trajectories scored before it, however many there are.
THEOREM PoolCorrect == Spec => ScoringKeepsPool
<1>1. Inv /\ [Next]_vars =>
        [mode = "relabel" /\ pc = "score" /\ Len(trajs) <= MaxPerType => pool' = pool]_vars
  <2> SUFFICES ASSUME Inv, Next, mode = "relabel", pc = "score", Len(trajs) <= MaxPerType
               PROVE  pool' = pool
    OBVIOUS
  <2>1. CASE Score
    BY <2>1, ScoreKeeps DEF Inv
  <2>2. CASE ~Score
    BY <2>2 DEF Next, Rollout, EndRollout, Fill, EndScore, Load, Done, vars
  <2>3. QED
    BY <2>1, <2>2
<1>2. QED
  BY <1>1, InvCorrect, PTL DEF Spec, ScoringKeepsPool

---------------------------------------------------------------------------
\* The rewards of the tokens

\* The step that wrote the token at pos.
Wrote(steps, k, pos) ==
  k \in 1..Len(steps) /\ steps[k].start < pos /\ pos <= steps[k].end

\* Spans follow one another, so a token has one writer.
LEMMA SpansOrdered ==
  ASSUME NEW steps \in Steps, NEW i \in 1..Len(steps), NEW j \in 1..Len(steps), i < j
  PROVE  steps[i].end <= steps[j].start
<1> DEFINE T == {n \in Nat : i + n + 1 <= Len(steps) => steps[i].end <= steps[i + n + 1].start}
<1>1. /\ steps \in Seq(Step) /\ Laid(steps) /\ Len(steps) \in Nat /\ DOMAIN steps = 1..Len(steps)
  BY DEF Steps
<1>2. \A k \in 1..Len(steps) : steps[k].start \in Nat /\ steps[k].end \in Nat
  <2>1. \A k \in 1..Len(steps) : steps[k] \in Step
    BY <1>1
  <2>2. QED
    BY <2>1 DEF Step
<1>3. ASSUME NEW k \in 1..Len(steps), k + 1 <= Len(steps)
      PROVE  k + 1 \in 1..Len(steps) /\ steps[k + 1].start = steps[k].end
  <2>1. k + 1 \in 1..Len(steps) /\ k + 1 # 1 /\ (k + 1) - 1 = k
    BY <1>1, <1>3
  <2>2. QED
    BY <1>1, <2>1 DEF Laid
<1>4. 0 \in T
  <2>1. CASE i + 1 <= Len(steps)
    <3>1. steps[i + 1].start = steps[i].end /\ i + 0 + 1 = i + 1
      BY <1>3, <2>1
    <3>2. QED
      BY <1>2, <3>1
  <2>2. CASE ~(i + 1 <= Len(steps))
    BY <1>1, <2>2
  <2>3. QED
    BY <2>1, <2>2
<1>5. ASSUME NEW n \in Nat, n \in T PROVE n + 1 \in T
  <2> DEFINE k == i + n + 1
  <2>1. CASE k + 1 <= Len(steps)
    <3>1. k \in 1..Len(steps) /\ i + (n + 1) + 1 = k + 1
      BY <1>1, <2>1
    <3>2. steps[i].end <= steps[k].start
      BY <1>5, <3>1
    <3> HIDE DEF k
    <3>3. steps[k + 1].start = steps[k].end /\ steps[k].start < steps[k].end
      BY <1>1, <1>3, <2>1, <3>1 DEF Laid
    <3>4. steps[i].end <= steps[k + 1].start
      BY <1>2, <3>1, <3>2, <3>3
    <3>5. QED
      BY <3>1, <3>4
  <2>2. CASE ~(k + 1 <= Len(steps))
    BY <1>1, <2>2
  <2>3. QED
    BY <2>1, <2>2
<1> HIDE DEF T
<1>6. Nat \subseteq T
  BY <1>4, <1>5, NatAll
<1> DEFINE d == j - i - 1
<1>7. d \in Nat /\ i + d + 1 = j /\ j <= Len(steps)
  BY <1>1
<1> HIDE DEF d
<1>8. d \in T
  BY <1>6, <1>7
<1>9. QED
  BY <1>7, <1>8 DEF T

\* So no two steps wrote the same token.
LEMMA OneWriter ==
  ASSUME NEW steps \in Steps, NEW i, NEW j, NEW pos \in Nat,
         Wrote(steps, i, pos), Wrote(steps, j, pos)
  PROVE  i = j
<1>1. /\ i \in 1..Len(steps) /\ j \in 1..Len(steps) /\ Len(steps) \in Nat
      /\ steps \in Seq(Step)
  BY DEF Wrote, Steps
<1>2. \A k \in 1..Len(steps) : steps[k].start \in Nat /\ steps[k].end \in Nat
  <2>1. \A k \in 1..Len(steps) : steps[k] \in Step
    BY <1>1
  <2>2. QED
    BY <2>1 DEF Step
<1>3. /\ steps[i].start < pos /\ pos <= steps[i].end
      /\ steps[j].start < pos /\ pos <= steps[j].end
  BY DEF Wrote
<1>4. ASSUME i < j PROVE FALSE
  <2>1. steps[i].end <= steps[j].start
    BY <1>1, <1>4, SpansOrdered
  <2>2. QED
    BY <1>1, <1>2, <1>3, <2>1
<1>5. ASSUME j < i PROVE FALSE
  <2>1. steps[j].end <= steps[i].start
    BY <1>1, <1>5, SpansOrdered
  <2>2. QED
    BY <1>1, <1>2, <1>3, <2>1
<1>6. QED
  BY <1>1, <1>4, <1>5

\* A sequence of one value,
LEMMA ConstantIs ==
  ASSUME NEW k \in Nat, NEW a \in Nat
  PROVE  /\ [i \in 1..a |-> k] \in Seq(Nat) /\ Len([i \in 1..a |-> k]) = a
         /\ \A i \in 1..a : [h \in 1..a |-> k][i] = k
OBVIOUS

\* and two sequences put together.
LEMMA ConcatIs ==
  ASSUME NEW S, NEW x \in Seq(S), NEW y \in Seq(S)
  PROVE  /\ Len(x \o y) = Len(x) + Len(y)
         /\ \A i \in 1..Len(x) : (x \o y)[i] = x[i]
         /\ \A i \in 1..Len(y) : (x \o y)[Len(x) + i] = y[i]
OBVIOUS

\* Writers names the writer of each token, up to the end of the last span.
LEMMA WritersIn ==
  ASSUME NEW steps \in Steps \ {<<>>}
  PROVE  /\ Writers(steps) \in Seq(Nat)
         /\ Len(Writers(steps)) = Last(steps).end
         /\ \A pos \in 1..Len(Writers(steps)) : Wrote(steps, Writers(steps)[pos], pos)
<1> DEFINE n == Len(steps)
           s == [k \in DOMAIN steps |-> [i \in DOMAIN steps[k].action |-> k]]
           F(k) == Flat(s)[k]
           Named(k) == /\ Len(F(k)) = steps[k].end
                       /\ \A pos \in 1..Len(F(k)) : Wrote(steps, F(k)[pos], pos)
           T == {k \in Nat : k \in 1..n => Named(k)}
<1>1. /\ steps \in Seq(Step) /\ Laid(steps) /\ n \in Nat \ {0} /\ DOMAIN steps = 1..n
  BY DEF Steps
<1>2. \A k \in 1..n :
        /\ steps[k].start \in Nat /\ steps[k].end \in Nat
        /\ Len(steps[k].action) \in Nat /\ DOMAIN steps[k].action = 1..Len(steps[k].action)
        /\ steps[k].end = steps[k].start + Len(steps[k].action)
  <2>1. \A k \in 1..n : steps[k] \in Step
    BY <1>1
  <2>2. \A k \in 1..n : steps[k].start \in Nat /\ steps[k].end \in Nat /\ steps[k].action \in Seq(Words)
    BY <2>1 DEF Step, Texts
  <2>3. QED
    BY <1>1, <2>2 DEF Laid
<1>3. /\ s \in Seq(Seq(Nat)) /\ Len(s) = n
      /\ \A k \in 1..n : s[k] \in Seq(Nat) /\ Len(s[k]) = Len(steps[k].action)
      /\ \A k \in 1..n : \A i \in 1..Len(s[k]) : s[k][i] = k
  <2>1. \A k \in 1..n : s[k] = [i \in 1..Len(steps[k].action) |-> k]
    BY <1>1, <1>2
  <2>2. DOMAIN s = 1..n /\ s = [k \in 1..n |-> s[k]]
    BY <1>1
  <2> HIDE DEF s
  <2>3. \A k \in 1..n : s[k] \in Seq(Nat) /\ Len(s[k]) = Len(steps[k].action)
    <3>1. ASSUME NEW k \in 1..n
          PROVE  s[k] \in Seq(Nat) /\ Len(s[k]) = Len(steps[k].action)
      <4>1. k \in Nat /\ Len(steps[k].action) \in Nat
        BY <1>2
      <4>2. s[k] = [i \in 1..Len(steps[k].action) |-> k]
        BY <2>1
      <4>3. QED
        BY <4>1, <4>2, ConstantIs
    <3>2. QED
      BY <3>1
  <2>4. \A k \in 1..n : \A i \in 1..Len(s[k]) : s[k][i] = k
    BY <1>2, <2>1, <2>3
  <2>5. s \in Seq(Seq(Nat)) /\ Len(s) = n
    BY <1>1, <2>2, <2>3
  <2>6. QED
    BY <2>3, <2>4, <2>5
<1>4. Writers(steps) = F(n)
  <2>1. Writers(steps) = FlattenSeq(s)
    BY DEF Writers
  <2> HIDE DEF s
  <2>2. QED
    BY <1>1, <1>3, <2>1, FlattenIsFlat
<1> HIDE DEF s
<1>5. \A k \in 1..n : F(k) \in Seq(Nat) /\ F(k) = IF k = 1 THEN s[k] ELSE F(k - 1) \o s[k]
  BY <1>3, FlatSteps
<1> HIDE DEF F
<1>6. ASSUME NEW k \in Nat, k \in T PROVE k + 1 \in T
  <2>1. CASE k + 1 \in 1..n
    <3> DEFINE m == k + 1  a == Len(steps[m].action)  x == F(m)  y == s[m]  o == steps[m].start
    <3>1. m \in 1..n /\ m - 1 = k /\ a \in Nat /\ o \in Nat /\ steps[m].end = o + a
      BY <1>2, <2>1
    <3>2. y \in Seq(Nat) /\ Len(y) = a /\ \A i \in 1..a : y[i] = m
      BY <1>3, <3>1
    <3>3. \A pos \in (o + 1)..(o + a) : Wrote(steps, m, pos)
      BY <3>1 DEF Wrote
    <3>4. CASE k = 0
      <4>1. m = 1 /\ x = y /\ o = 0
        <5>1. m = 1
          BY <3>4
        <5>2. x = y
          BY <1>5, <3>1, <5>1
        <5>3. 1 \in DOMAIN steps
          BY <1>1
        <5>4. steps[1].start = 0
          BY <1>1, <5>3 DEF Laid
        <5>5. QED
          BY <5>1, <5>2, <5>4
      <4> HIDE DEF m, a, x, y, o
      <4>2. Len(x) = steps[m].end /\ \A pos \in 1..Len(x) : Wrote(steps, x[pos], pos)
        BY <3>1, <3>2, <3>3, <4>1
      <4>3. QED
        BY <4>2 DEF m, x
    <3>5. CASE k # 0
      <4> DEFINE z == F(k)
      <4>1. k \in 1..n /\ m # 1
        BY <2>1, <3>5
      <4>2. z \in Seq(Nat) /\ x = z \o y
        BY <1>5, <3>1, <4>1
      <4>3. o = steps[k].end
        BY <1>1, <3>1, <4>1 DEF Laid
      <4>4. Len(z) = o /\ \A pos \in 1..o : Wrote(steps, z[pos], pos)
        BY <1>6, <4>1, <4>3
      <4> HIDE DEF m, a, x, y, o, z
      <4>5. Len(x) = o + a
        BY <3>2, <4>2, <4>4, ConcatIs
      <4>6. ASSUME NEW pos \in 1..(o + a) PROVE Wrote(steps, x[pos], pos)
        <5>1. CASE pos <= o
          <6>1. pos \in 1..o /\ x[pos] = z[pos]
            BY <3>1, <3>2, <4>2, <4>4, <5>1
          <6>2. QED
            BY <4>4, <6>1
        <5>2. CASE ~(pos <= o)
          <6>1. pos - o \in 1..a /\ pos \in (o + 1)..(o + a)
            BY <3>1, <5>2
          <6>2. x[pos] = y[pos - o]
            BY <3>1, <3>2, <4>2, <4>4, <6>1
          <6>3. QED
            BY <3>2, <3>3, <6>1, <6>2
        <5>3. QED
          BY <5>1, <5>2
      <4>7. Len(x) = steps[m].end /\ \A pos \in 1..Len(x) : Wrote(steps, x[pos], pos)
        BY <3>1, <4>5, <4>6
      <4>8. QED
        BY <4>7 DEF m, x
    <3>6. QED
      BY <3>4, <3>5
  <2>2. CASE k + 1 \notin 1..n
    BY <2>2
  <2>3. QED
    BY <2>1, <2>2
<1>7. 0 \in T
  OBVIOUS
<1> HIDE DEF T
<1>8. Nat \subseteq T
  BY <1>6, <1>7, NatAll
<1>9. Named(n) /\ n \in 1..n
  <2>1. n \in 1..n /\ n \in T
    BY <1>1, <1>8
  <2>2. QED
    BY <2>1 DEF T
<1>10. Last(steps) = steps[n]
  BY <1>1 DEF Last
<1>11. QED
  BY <1>4, <1>5, <1>9, <1>10

\* What a step adds to the tokens of its span.
Share(steps, totals, k) == <<totals[steps[k].id + 1], steps[k].end - steps[k].start>>

AreWriters(steps, w, m) ==
  w \in [1..m -> Nat] /\ \A pos \in 1..m : Wrote(steps, w[pos], pos)

Injected(after, before, share, k, w, m, A) ==
  /\ after \in [1..m -> Seq(A)]
  /\ \A pos \in 1..m :
       after[pos] = IF k = w[pos] THEN Append(before[pos], share) ELSE before[pos]

\* A step adds its share to the tokens it wrote, and nothing to the others.
LEMMA InjectIs ==
  ASSUME NEW steps \in Steps, NEW totals, NEW m \in Nat, NEW w, AreWriters(steps, w, m),
         NEW A, NEW tokens \in [1..m -> Seq(A)], NEW k \in 1..Len(steps),
         Share(steps, totals, k) \in A
  PROVE  Injected(Inject(tokens, steps[k], totals), tokens, Share(steps, totals, k), k, w, m, A)
<1>1. ASSUME NEW pos \in 1..m
      PROVE  (steps[k].start < pos /\ pos <= steps[k].end) <=> k = w[pos]
  <2>1. pos \in Nat /\ Wrote(steps, w[pos], pos)
    BY DEF AreWriters
  <2>2. (steps[k].start < pos /\ pos <= steps[k].end) => Wrote(steps, k, pos)
    BY DEF Wrote
  <2>3. Wrote(steps, k, pos) => k = w[pos]
    BY <2>1, OneWriter
  <2>4. QED
    BY <2>1, <2>2, <2>3 DEF Wrote
<1> DEFINE share == Share(steps, totals, k)
<1>2. Inject(tokens, steps[k], totals)
        = [pos \in 1..m |->
             IF steps[k].start < pos /\ pos <= steps[k].end
             THEN Append(tokens[pos], share) ELSE tokens[pos]]
  BY DEF Inject, Share
<1>3. \A pos \in 1..m : tokens[pos] \in Seq(A) /\ Append(tokens[pos], share) \in Seq(A)
  <2> HIDE DEF share
  <2>1. share \in A
    BY DEF share
  <2>2. QED
    BY <2>1
<1> HIDE DEF share
<1>4. Injected(Inject(tokens, steps[k], totals), tokens, share, k, w, m, A)
  BY <1>1, <1>2, <1>3 DEF Injected
<1>5. QED
  BY <1>4 DEF share

\* All steps add theirs, to m tokens that bear nothing yet.
Injections(steps, totals, m) ==
  FoldLeft(LAMBDA tokens, x : Inject(tokens, x, totals), [pos \in 1..m |-> <<>>], steps)

\* On a token that step w[pos] wrote the steps before it add nothing, it adds its
\* share, and those behind it add nothing more.
LEMMA InjectRuns ==
  ASSUME NEW steps \in Steps, NEW totals, NEW m \in Nat, NEW w, AreWriters(steps, w, m)
  PROVE  Injections(steps, totals, m) = [pos \in 1..m |-> <<Share(steps, totals, w[pos])>>]
<1> DEFINE n == Len(steps)
           A == {Share(steps, totals, k) : k \in 1..n}
           V == [1..m -> Seq(A)]
           blank == [pos \in 1..m |-> <<>>]
           all == [pos \in 1..m |-> <<Share(steps, totals, w[pos])>>]
<1>1. n \in Nat /\ DOMAIN steps = 1..n /\ \A pos \in 1..m : w[pos] \in 1..n
  BY DEF AreWriters, Steps, Wrote
<1>2. PICK none \in V : none = blank
  <2> HIDE DEF A
  <2>1. <<>> \in Seq(A)
    OBVIOUS
  <2>2. blank \in V
    BY <2>1
  <2>3. QED
    BY <2>2
<1> DEFINE G == [c \in V \X (1..n) |-> Inject(c[1], steps[c[2]], totals)]
           Is(f) == f = [s \in SUBSET DOMAIN steps |->
                           IF s = {} THEN none
                           ELSE Inject(f[s \ {Max(s)}], steps[Max(s)], totals)]
           f == CHOOSE f : Is(f)
           end == FoldLeft(LAMBDA tokens, x : Inject(tokens, x, totals), none, steps)
<1>3. end = f[DOMAIN steps]
  BY DEF FoldLeft, MapThenFoldSet
<1>4. ASSUME NEW b \in V, NEW k \in 1..n
      PROVE  /\ Injected(Inject(b, steps[k], totals), b, Share(steps, totals, k), k, w, m, A)
             /\ Inject(b, steps[k], totals) \in V
  <2>1. Share(steps, totals, k) \in A
    OBVIOUS
  <2> HIDE DEF A, G, f, end, blank, all
  <2>2. k \in 1..Len(steps) /\ b \in [1..m -> Seq(A)]
    OBVIOUS
  <2> HIDE DEF n, V
  <2>3. Injected(Inject(b, steps[k], totals), b, Share(steps, totals, k), k, w, m, A)
    BY <2>1, <2>2, InjectIs
  <2>4. Inject(b, steps[k], totals) \in [1..m -> Seq(A)]
    BY <2>3 DEF Injected
  <2>5. QED
    BY <2>3, <2>4 DEF V
<1> HIDE DEF V
<1>5. G \in [V \X (1..n) -> V]
  BY <1>4
<1>6. \A b \in V, k \in 1..n : G[<<b, k>>] = Inject(b, steps[k], totals)
  OBVIOUS
<1> HIDE DEF G, n, end, A, blank, all
<1>7. \A s \in SUBSET (1..n) : s # {} => Max(s) \in 1..n /\ s \ {Max(s)} \in SUBSET (1..n)
  BY <1>1, LastPosition
<1>8. PICK h \in [SUBSET (1..n) -> V] : IsFold(h, none, G, n)
  BY <1>1, <1>2, <1>5, FoldExists
<1>9. Is(h)
  <2>1. ASSUME NEW s \in SUBSET (1..n)
        PROVE  h[s] = IF s = {} THEN none ELSE Inject(h[s \ {Max(s)}], steps[Max(s)], totals)
    BY <1>6, <1>7, <1>8 DEF IsFold
  <2>2. QED
    BY <1>1, <2>1
<1>10. Is(f)
  BY <1>9
<1> HIDE DEF f
<1>11. Unfolds(f, none, G, n, V)
  BY <1>1, <1>6, <1>7, <1>10 DEF Unfolds
<1>12. RunsTo(f[1..n], none, G, n, V)
  BY <1>1, <1>5, <1>11, FoldRuns
<1>13. PICK q \in [0..n -> V] : IsRun(q, none, G, n) /\ q[n] = f[1..n]
  BY <1>12 DEF RunsTo
<1> DEFINE T == {k \in Nat : k <= n => \A pos \in 1..m :
                   q[k][pos] = IF k < w[pos] THEN <<>> ELSE <<Share(steps, totals, w[pos])>>}
<1>14. \A pos \in 1..m : w[pos] \in Nat /\ none[pos] = <<>>
  BY <1>2 DEF AreWriters, blank
<1>15. 0 \in T
  <2>1. q[0] = none
    BY <1>13 DEF IsRun
  <2>2. \A pos \in 1..m : 0 < w[pos]
    BY <1>1
  <2>3. QED
    BY <1>14, <2>1, <2>2
<1>16. ASSUME NEW k \in Nat, k \in T PROVE k + 1 \in T
  <2>1. CASE k + 1 <= n
    <3>1. k + 1 \in 1..n /\ (k + 1) - 1 = k /\ k \in 0..n
      BY <1>1, <2>1
    <3>2. q[k] \in V /\ q[k + 1] = G[<<q[k], k + 1>>]
      BY <1>13, <3>1 DEF IsRun
    <3>3. ASSUME NEW pos \in 1..m
          PROVE  q[k + 1][pos] =
                   IF k + 1 < w[pos] THEN <<>> ELSE <<Share(steps, totals, w[pos])>>
      <4>1. q[k + 1][pos] = IF k + 1 = w[pos] THEN Append(q[k][pos], Share(steps, totals, k + 1))
                            ELSE q[k][pos]
        <5>1. q[k + 1] = Inject(q[k], steps[k + 1], totals)
          BY <1>6, <3>1, <3>2
        <5>2. Injected(q[k + 1], q[k], Share(steps, totals, k + 1), k + 1, w, m, A)
          BY <1>4, <3>1, <3>2, <5>1
        <5>3. QED
          BY <5>2 DEF Injected
      <4>2. q[k][pos] = IF k < w[pos] THEN <<>> ELSE <<Share(steps, totals, w[pos])>>
        BY <1>16, <3>1
      <4>3. CASE k + 1 = w[pos]
        <5>1. q[k][pos] = <<>> /\ ~(k + 1 < w[pos])
          BY <1>14, <4>2, <4>3
        <5>2. q[k + 1][pos] = Append(q[k][pos], Share(steps, totals, w[pos]))
          BY <4>1, <4>3
        <5>3. Append(<<>>, Share(steps, totals, w[pos])) = <<Share(steps, totals, w[pos])>>
          OBVIOUS
        <5>4. QED
          BY <5>1, <5>2, <5>3
      <4>4. CASE k + 1 # w[pos]
        <5>1. k < w[pos] <=> k + 1 < w[pos]
          BY <1>14, <4>4
        <5>2. QED
          BY <4>1, <4>2, <4>4, <5>1
      <4>5. QED
        BY <4>3, <4>4
    <3>4. QED
      BY <3>3
  <2>2. CASE ~(k + 1 <= n)
    BY <2>2
  <2>3. QED
    BY <2>1, <2>2
<1> HIDE DEF T
<1>17. Nat \subseteq T
  BY <1>15, <1>16, NatAll
<1>18. q[n] = all
  <2>1. q[n] \in V /\ n \in T /\ n <= n
    BY <1>1, <1>13, <1>17
  <2>2. \A pos \in 1..m : q[n][pos] = <<Share(steps, totals, w[pos])>>
    <3>1. \A pos \in 1..m : ~(n < w[pos])
      BY <1>1
    <3>2. QED
      BY <2>1, <3>1 DEF T
  <2>3. q[n] = [pos \in 1..m |-> q[n][pos]]
    BY <2>1 DEF V
  <2>4. QED
    BY <2>2, <2>3 DEF all
<1>19. end = all
  BY <1>1, <1>3, <1>13, <1>18
<1>20. QED
  BY <1>2, <1>19, Zenon DEF Injections, end, all, blank

\* So each token bears the share of the step that wrote it.
LEMMA TokensOwn ==
  ASSUME NEW steps \in Steps \ {<<>>}, NEW totals
  PROVE  LET w == Writers(steps)
         IN TokenRewards(steps, totals)
              = [pos \in DOMAIN w |-> <<<<totals[w[pos]], Len(steps[w[pos]].action)>>>>]
<1> DEFINE w == Writers(steps)
<1>1. /\ w \in Seq(Nat) /\ Len(w) = Last(steps).end
      /\ \A pos \in 1..Len(w) : Wrote(steps, w[pos], pos)
  BY WritersIn
<1> HIDE DEF w
<1>2. DOMAIN w = 1..Last(steps).end /\ Len(w) \in Nat /\ w \in [1..Len(w) -> Nat]
  BY <1>1
<1>3. ASSUME NEW pos \in DOMAIN w
      PROVE  Share(steps, totals, w[pos]) = <<totals[w[pos]], Len(steps[w[pos]].action)>>
  <2> DEFINE k == w[pos]
  <2>1. k \in 1..Len(steps) /\ steps \in Seq(Step) /\ Laid(steps)
    BY <1>1, <1>2 DEF Wrote, Steps
  <2> HIDE DEF k
  <2>2. k \in Nat /\ k \in DOMAIN steps /\ steps[k] \in Step
    BY <2>1
  <2>3. steps[k].id + 1 = k
    BY <2>1, <2>2 DEF Laid
  <2>4. steps[k].end - steps[k].start = Len(steps[k].action)
    <3>1. steps[k].start \in Nat /\ Len(steps[k].action) \in Nat
      BY <2>2 DEF Step, Texts
    <3>2. steps[k].end = steps[k].start + Len(steps[k].action)
      BY <2>1, <2>2 DEF Laid
    <3>3. QED
      BY <3>1, <3>2
  <2>5. Share(steps, totals, k) = <<totals[k], Len(steps[k].action)>>
    BY <2>3, <2>4 DEF Share
  <2>6. QED
    BY <2>5 DEF k
<1> DEFINE m == Last(steps).end
<1>4. m = Len(w)
  BY <1>1
<1> HIDE DEF m
<1>5. TokenRewards(steps, totals) = [pos \in 1..m |-> <<Share(steps, totals, w[pos])>>]
  <2>1. AreWriters(steps, w, m) /\ m \in Nat /\ steps \in Steps
    BY <1>1, <1>2, <1>4 DEF AreWriters
  <2>2. Injections(steps, totals, m) = [pos \in 1..m |-> <<Share(steps, totals, w[pos])>>]
    BY <2>1, InjectRuns
  <2>3. QED
    BY <2>2, Zenon DEF TokenRewards, Injections, m
<1>6. TokenRewards(steps, totals)
        = [pos \in DOMAIN w |-> <<<<totals[w[pos]], Len(steps[w[pos]].action)>>>>]
  BY <1>2, <1>3, <1>5, Zenon DEF m
<1>7. QED
  BY <1>6 DEF w

\* The output is that of the last trajectory scored.
OutputInv ==
  /\ pc \in {"rollout", "fill"} => scored = 0
  /\ scored > 0 => output.tokens = TokenRewards(trajs[scored].steps, output.totals)

\* Only Score changes the output, and it counts the trajectory it scored.
LEMMA OutputStep ==
  ASSUME TypeInv, OutputInv, Next
  PROVE  OutputInv'
<1>1. ASSUME NEW s \in Samples, Rollout(s) PROVE OutputInv'
  <2>1. scored = 0 /\ UNCHANGED <<pc, scored>>
    BY <1>1 DEF OutputInv, Rollout
  <2>2. QED
    BY <2>1 DEF OutputInv
<1>2. ASSUME EndRollout PROVE OutputInv'
  BY <1>2 DEF OutputInv, EndRollout
<1>3. ASSUME Fill PROVE OutputInv'
  BY <1>3 DEF OutputInv, Fill
<1>4. ASSUME Score PROVE OutputInv'
  <2> DEFINE t == trajs[scored + 1]
             p == AddMany(pool, t.steps)
             cfs == [i \in DOMAIN t.steps |-> SampleCfs(p, t.steps[i])]
  <2>1. PICK raw \in [DOMAIN t.steps -> RawGains],
             rawEdges \in [1..(Len(t.steps) - 1) -> RawGains] :
          output' = Compute(t, cfs, raw, rawEdges)
    BY <1>4 DEF Score
  <2>2. output'.tokens = TokenRewards(t.steps, output'.totals)
    <3> HIDE DEF t, cfs, p
    <3> QED
      BY <2>1 DEF Compute
  <2>3. trajs' = trajs /\ scored' = scored + 1 /\ pc' = "score"
    BY <1>4 DEF Score
  <2>4. QED
    BY <2>2, <2>3 DEF OutputInv
<1>5. ASSUME EndScore PROVE OutputInv'
  BY <1>5 DEF OutputInv, EndScore
<1>6. ASSUME Load PROVE OutputInv'
  BY <1>6 DEF OutputInv, Load
<1>7. ASSUME Done PROVE OutputInv'
  BY <1>7 DEF OutputInv, Done, vars
<1>8. QED
  BY <1>1, <1>2, <1>3, <1>4, <1>5, <1>6, <1>7 DEF Next

\* Each token of a response bears its part of the reward of the step that wrote
\* it, and nothing of any other step's, however long the trajectory is.
THEOREM TokensCorrect == Spec => []RewardsOnOwnTokens
<1>1. Init => OutputInv
  BY DEF Init, OutputInv
<1>2. Inv /\ OutputInv /\ [Next]_vars => OutputInv'
  <2>1. Inv /\ OutputInv /\ Next => OutputInv'
    BY OutputStep DEF Inv
  <2>2. OutputInv /\ UNCHANGED vars => OutputInv'
    BY DEF OutputInv, vars
  <2>3. QED
    BY <2>1, <2>2
<1>3. Inv /\ OutputInv => RewardsOnOwnTokens
  <2> SUFFICES ASSUME Inv, OutputInv, scored > 0 PROVE RewardsOnOwnTokens
    BY DEF RewardsOnOwnTokens
  <2> DEFINE steps == trajs[scored].steps
  <2>1. trajs \in Seq(Trajectories) /\ scored \in 1..Len(trajs)
    BY DEF Inv, TypeInv
  <2>2. trajs[scored] \in Trajectories
    BY <2>1
  <2>3. steps \in Steps \ {<<>>} /\ output.tokens = TokenRewards(steps, output.totals)
    BY <2>2, TrajectoryIn DEF OutputInv
  <2> HIDE DEF steps
  <2>4. LET w == Writers(steps)
        IN output.tokens =
             [pos \in DOMAIN w |-> <<<<output.totals[w[pos]], Len(steps[w[pos]].action)>>>>]
    BY <2>3, TokensOwn
  <2>5. QED
    BY <2>4 DEF RewardsOnOwnTokens, steps
<1>4. QED
  BY <1>1, <1>2, <1>3, InvCorrect, PTL DEF Spec

---------------------------------------------------------------------------
\* The candidates a step is compared with

\* f maps S to T one by one.
MapsOneToOne(f, S, T) ==
  /\ f \in [S -> T]
  /\ \A a, b \in S : f[a] = f[b] => a = b
  /\ \A c \in T : \E a \in S : f[a] = c

\* As many elements as what they are mapped to one by one.
LEMMA OneToOne ==
  ASSUME NEW S, NEW T, NEW f, IsFiniteSet(S), MapsOneToOne(f, S, T)
  PROVE  IsFiniteSet(T) /\ Cardinality(T) = Cardinality(S)
<1>1. f \in Bijection(S, T)
  BY DEF MapsOneToOne, Bijection, Injection, Surjection, IsInjective
<1>2. QED
  BY <1>1, FS_Bijection DEF ExistsBijection

\* Ranks that tell the elements of a set apart are all given.
LEMMA AllRanks ==
  ASSUME NEW S, IsFiniteSet(S), NEW f \in [S -> 1..Cardinality(S)],
         \A a, b \in S : f[a] = f[b] => a = b
  PROVE  \A n \in 1..Cardinality(S) : \E a \in S : f[a] = n
<1> DEFINE m == Cardinality(S)
<1>1. m \in Nat
  BY FS_CardinalityType
<1>2. f \in Injection(S, 1..m)
  BY DEF Injection, IsInjective
<1> HIDE DEF m
<1>3. IsFiniteSet(1..m) /\ Cardinality(1..m) = m
  BY <1>1, FS_Interval
<1>4. f \in Surjection(S, 1..m)
  BY <1>2, <1>3, FS_Injection DEF m
<1>5. QED
  BY <1>4 DEF Surjection, m

\* The sort of the candidates puts each two of them in an order.
IsOrder(x, bucket) ==
  \A i, j, k \in DOMAIN bucket :
    /\ ~(Before(x, bucket, i, j) /\ Before(x, bucket, j, i))
    /\ i # j => Before(x, bucket, i, j) \/ Before(x, bucket, j, i)
    /\ Before(x, bucket, i, j) /\ Before(x, bucket, j, k) => Before(x, bucket, i, k)

LEMMA CandidatesOrdered ==
  ASSUME NEW x \in Step, NEW bucket \in Seq(Step)
  PROVE  IsOrder(x, bucket)
<1> DEFINE H(i) == HardNegative(x, bucket[i])
           D(i) == Distance(Len(x.text), Len(bucket[i].text))
           Ahead(i, j) == \/ H(i) /\ ~H(j)
                          \/ (H(i) <=> H(j)) /\ D(i) < D(j)
                          \/ (H(i) <=> H(j)) /\ D(i) = D(j) /\ i < j
<1>1. DOMAIN bucket \subseteq Nat /\ \A i \in DOMAIN bucket : D(i) \in Int
  <2>1. ASSUME NEW i \in DOMAIN bucket PROVE D(i) \in Int
    <3>1. bucket[i] \in Step
      BY ElementsIn
    <3>2. \A words \in Texts : Len(words) \in Nat
      BY DEF Texts
    <3>3. \A y \in Step : y.text \in Texts
      BY DEF Step
    <3>4. Len(x.text) \in Nat /\ Len(bucket[i].text) \in Nat
      BY <3>1, <3>2, <3>3
    <3>5. QED
      BY <3>4 DEF Distance, MaxOf, MinOf
  <2>2. QED
    BY <2>1
<1>2. \A i \in DOMAIN bucket : H(i) \in BOOLEAN
  BY DEF HardNegative
<1>3. ASSUME NEW i \in DOMAIN bucket, NEW j \in DOMAIN bucket
      PROVE  Before(x, bucket, i, j) <=> Ahead(i, j)
  <2>1. Before(x, bucket, i, j) <=>
          IF H(i) # H(j) THEN H(i) ELSE IF D(i) # D(j) THEN D(i) < D(j) ELSE i < j
    BY DEF Before
  <2>2. /\ H(i) \in BOOLEAN /\ H(j) \in BOOLEAN /\ D(i) \in Int /\ D(j) \in Int
        /\ i \in Nat /\ j \in Nat
    BY <1>1, <1>2
  <2> HIDE DEF H, D
  <2>3. CASE H(i) # H(j)
    BY <2>1, <2>2, <2>3
  <2>4. CASE H(i) = H(j)
    BY <2>1, <2>2, <2>4
  <2>5. QED
    BY <2>3, <2>4
<1>4. ASSUME NEW i \in DOMAIN bucket, NEW j \in DOMAIN bucket, NEW k \in DOMAIN bucket
      PROVE  /\ ~(Ahead(i, j) /\ Ahead(j, i))
             /\ i # j => Ahead(i, j) \/ Ahead(j, i)
             /\ Ahead(i, j) /\ Ahead(j, k) => Ahead(i, k)
  <2>1. /\ D(i) \in Int /\ D(j) \in Int /\ D(k) \in Int
        /\ i \in Nat /\ j \in Nat /\ k \in Nat
    BY <1>1
  <2> HIDE DEF H, D
  <2>2. QED
    BY <2>1
<1> HIDE DEF Ahead
<1>5. QED
  BY <1>3, <1>4 DEF IsOrder

\* So it lists each of them once.
Lists(best, bucket, cands) ==
  \E o \in [1..Cardinality(cands) -> cands] :
    /\ \A m, n \in 1..Cardinality(cands) : o[m] = o[n] => m = n
    /\ best = [n \in 1..Cardinality(cands) |-> bucket[o[n]]]

LEMMA RankedLists ==
  ASSUME NEW x \in Step, NEW bucket \in Seq(Step)
  PROVE  /\ IsFiniteSet(Candidates(bucket, x))
         /\ Lists(Ranked(x, bucket), bucket, Candidates(bucket, x))
<1> DEFINE cands == Candidates(bucket, x)
           c == Cardinality(cands)
           Upto(i) == {j \in cands : j = i \/ Before(x, bucket, j, i)}
           Rank(i) == Cardinality(Upto(i))
           f == [i \in cands |-> Rank(i)]
           o == [n \in 1..c |-> CHOOSE i \in cands : Rank(i) = n]
<1>1. IsFiniteSet(cands) /\ cands \subseteq DOMAIN bucket
  <2>1. DOMAIN bucket = 1..Len(bucket) /\ Len(bucket) \in Nat
    OBVIOUS
  <2>2. IsFiniteSet(1..Len(bucket))
    BY <2>1, FS_Interval
  <2>3. cands \in SUBSET (1..Len(bucket))
    BY <2>1 DEF Candidates
  <2>4. QED
    BY <2>1, <2>2, <2>3, FS_Subset
<1>2. Ranked(x, bucket) = [n \in 1..c |-> bucket[CHOOSE i \in cands : Rank(i) = n]]
  BY DEF Ranked
<1>3. IsOrder(x, bucket)
  BY CandidatesOrdered
<1> HIDE DEF cands
<1>4. \A i \in cands : IsFiniteSet(Upto(i)) /\ Upto(i) \in SUBSET cands /\ i \in Upto(i)
  <2>1. ASSUME NEW i \in cands PROVE IsFiniteSet(Upto(i)) /\ Upto(i) \in SUBSET cands /\ i \in Upto(i)
    <3>1. Upto(i) \in SUBSET cands /\ i \in Upto(i)
      OBVIOUS
    <3> HIDE DEF Upto
    <3>2. QED
      BY <1>1, <3>1, FS_Subset
  <2>2. QED
    BY <2>1
<1>5. \A i \in cands : Rank(i) \in 1..c
  <2>1. ASSUME NEW i \in cands PROVE Rank(i) \in 1..c
    <3>1. IsFiniteSet(Upto(i)) /\ Upto(i) \in SUBSET cands /\ i \in Upto(i)
      BY <1>4
    <3> HIDE DEF Upto
    <3>2. Rank(i) \in Nat /\ Rank(i) <= c /\ Rank(i) # 0 /\ c \in Nat
      BY <1>1, <3>1, FS_Subset, FS_CardinalityType, FS_EmptySet
    <3>3. QED
      BY <3>2
  <2>2. QED
    BY <2>1
<1>6. ASSUME NEW i \in cands, NEW j \in cands, Before(x, bucket, i, j) PROVE Rank(i) # Rank(j)
  <2>1. i \in DOMAIN bucket /\ j \in DOMAIN bucket
    BY <1>1
  <2>2. j \notin Upto(i)
    BY <1>3, <1>6, <2>1 DEF IsOrder
  <2>3. Upto(i) \subseteq Upto(j)
    BY <1>1, <1>3, <1>6, <2>1 DEF IsOrder
  <2>4. IsFiniteSet(Upto(j)) /\ j \in Upto(j)
    BY <1>4
  <2> HIDE DEF Upto
  <2>5. Upto(i) \in SUBSET Upto(j) /\ Upto(i) # Upto(j)
    BY <2>2, <2>3, <2>4
  <2>6. QED
    BY <2>4, <2>5, FS_Subset
<1>7. \A i, j \in cands : Rank(i) = Rank(j) => i = j
  <2>1. ASSUME NEW i \in cands, NEW j \in cands, i # j PROVE Rank(i) # Rank(j)
    <3>1. Before(x, bucket, i, j) \/ Before(x, bucket, j, i)
      BY <1>1, <1>3, <2>1 DEF IsOrder
    <3> HIDE DEF Rank
    <3>2. QED
      BY <1>6, <3>1
  <2> HIDE DEF Rank
  <2>2. QED
    BY <2>1
<1> HIDE DEF Upto, Rank
<1>8. \A n \in 1..c : \E i \in cands : Rank(i) = n
  <2>1. f \in [cands -> 1..c] /\ \A i, j \in cands : f[i] = f[j] => i = j
    BY <1>5, <1>7
  <2>2. \A i \in cands : f[i] = Rank(i)
    OBVIOUS
  <2> HIDE DEF f
  <2>3. \A n \in 1..c : \E i \in cands : f[i] = n
    BY <1>1, <2>1, AllRanks
  <2>4. QED
    BY <2>2, <2>3
<1>9. \A n \in 1..c : o[n] \in cands /\ Rank(o[n]) = n
  BY <1>8
<1>10. o \in [1..c -> cands] /\ \A m, n \in 1..c : o[m] = o[n] => m = n
  <2>1. DOMAIN o = 1..c /\ o = [n \in 1..c |-> o[n]]
    OBVIOUS
  <2> HIDE DEF o
  <2>2. o \in [1..c -> cands]
    BY <1>9, <2>1
  <2>3. \A m, n \in 1..c : o[m] = o[n] => m = n
    BY <1>9
  <2>4. QED
    BY <2>2, <2>3
<1>11. Ranked(x, bucket) = [n \in 1..c |-> bucket[o[n]]]
  BY <1>2
<1> HIDE DEF o
<1>12. Lists(Ranked(x, bucket), bucket, cands)
  BY <1>10, <1>11 DEF Lists
<1>13. QED
  BY <1>1, <1>12 DEF cands

\* What a step did
Key(y) == <<y.id, y.action>>

\* ComparedWithOthers, of the observations cfs that x is compared with.
Compared(cfs, x, known) ==
  LET others == {<<y.id, y.action>> : y \in {z \in known : z.tool = x.tool}} \ {<<x.id, x.action>>}
      real == {<<c.id, c.action>> : c \in {e \in ToSet(cfs) : ~e.masked}}
  IN /\ real \subseteq others
     /\ Cardinality(real) = MinOf(CfSamples, Cardinality(others))
     /\ \A c \in ToSet(cfs) : c.tool = x.tool

\* The candidates are the other steps of the tool, each once.
LEMMA CandidatesCount ==
  ASSUME NEW p \in Pools, NEW known \in SUBSET Step, NEW n, PoolOf(p, known, n), NEW x \in Step,
         NEW others, others = {Key(y) : y \in {z \in known : z.tool = x.tool}} \ {Key(x)}
  PROVE  LET bucket == p[x.tool]
             cands == Candidates(bucket, x)
         IN /\ Cardinality(others) = Cardinality(cands)
            /\ \A i \in cands : bucket[i].tool = x.tool /\ Key(bucket[i]) \in others
            /\ \A i, j \in cands : Key(bucket[i]) = Key(bucket[j]) => i = j
<1> DEFINE bucket == p[x.tool]
           cands == Candidates(bucket, x)
           f == [i \in cands |-> Key(bucket[i])]
<1>1. x.tool \in ToolTypes /\ bucket \in Seq(Step)
  BY DEF Step, Pools
<1>2. OfSteps(bucket, x.tool, known) /\ cands \subseteq DOMAIN bucket
      /\ \A i \in cands : ~SameStep(bucket[i], x)
  BY <1>1 DEF PoolOf, Candidates
<1>3. ASSUME NEW i \in cands PROVE bucket[i].tool = x.tool /\ Key(bucket[i]) \in others
  <2>1. bucket[i] \in known /\ bucket[i].tool = x.tool /\ Key(bucket[i]) # Key(x)
    BY <1>2 DEF OfSteps, SameStep, Key
  <2> HIDE DEF bucket
  <2>2. Key(bucket[i]) \in {Key(y) : y \in {z \in known : z.tool = x.tool}}
    BY <2>1
  <2>3. QED
    BY <2>1, <2>2
<1>4. \A i, j \in cands : Key(bucket[i]) = Key(bucket[j]) => i = j
  BY <1>2 DEF OfSteps, SameStep, Key
<1>5. ASSUME NEW c \in others PROVE \E i \in cands : Key(bucket[i]) = c
  <2>1. PICK y \in known : y.tool = x.tool /\ c = Key(y) /\ Key(y) # Key(x)
    OBVIOUS
  <2>2. PICK z \in ToSet(bucket) : SameStep(z, y)
    BY <2>1 DEF PoolOf, Holds
  <2>3. PICK i \in DOMAIN bucket : z = bucket[i]
    BY <2>2 DEF ToSet
  <2>4. Key(bucket[i]) = c /\ ~SameStep(bucket[i], x)
    BY <2>1, <2>2, <2>3 DEF SameStep, Key
  <2>5. i \in cands
    BY <2>3, <2>4 DEF Candidates
  <2>6. QED
    BY <2>4, <2>5
<1>6. IsFiniteSet(cands)
  BY <1>1, RankedLists
<1> HIDE DEF cands, bucket
<1>7. MapsOneToOne(f, cands, others)
  BY <1>3, <1>4, <1>5 DEF MapsOneToOne
<1> HIDE DEF f
<1>8. Cardinality(others) = Cardinality(cands)
  BY <1>6, <1>7, OneToOne
<1>9. QED
  BY <1>3, <1>4, <1>8 DEF cands, bucket

\* A counterfactual is of the step it was made of, a masked one of none.
LEMMA CounterfactualIs ==
  ASSUME NEW y
  PROVE  /\ ~Counterfactual(y).masked /\ Key(Counterfactual(y)) = Key(y)
         /\ Counterfactual(y).tool = y.tool
         /\ Masked(y).masked /\ Masked(y).tool = y.tool
BY DEF Counterfactual, Masked, Key

\* So sample compares a step with what it should.
LEMMA SampleIs ==
  ASSUME NEW p \in Pools, NEW known \in SUBSET Step, NEW n, PoolOf(p, known, n), NEW x \in Step
  PROVE  Compared(SampleCfs(p, x), x, known)
<1> DEFINE bucket == p[x.tool]
           cands == Candidates(bucket, x)
           c == Cardinality(cands)
           best == Ranked(x, bucket)
           others == {Key(y) : y \in {z \in known : z.tool = x.tool}} \ {Key(x)}
           cfs == SampleCfs(p, x)
           real == {Key(y) : y \in {e \in ToSet(cfs) : ~e.masked}}
           m == MinOf(CfSamples, c)
<1>1. bucket \in Seq(Step)
  BY DEF Step, Pools
<1>2. /\ Cardinality(others) = c
      /\ \A i \in cands : bucket[i].tool = x.tool /\ Key(bucket[i]) \in others
      /\ \A i, j \in cands : Key(bucket[i]) = Key(bucket[j]) => i = j
  BY CandidatesCount
<1>3. IsFiniteSet(cands) /\ Lists(best, bucket, cands)
  BY <1>1, RankedLists
<1>4. CfSamples \in Nat /\ c \in Nat /\ m \in Nat /\ m <= CfSamples /\ m <= c
      /\ (m = CfSamples \/ m = c)
  <2>1. CfSamples \in Nat /\ c \in Nat
    BY <1>3, SizeAssumption, FS_CardinalityType
  <2> HIDE DEF c
  <2>2. QED
    BY <2>1 DEF MinOf
<1>5. cfs = [i \in 1..CfSamples |-> IF i <= Len(best) THEN Counterfactual(best[i]) ELSE Masked(x)]
  BY DEF SampleCfs
<1> HIDE DEF cands, cfs, best, bucket, others, c, m
<1>6. PICK o \in [1..c -> cands] :
        /\ \A i, j \in 1..c : o[i] = o[j] => i = j
        /\ best = [i \in 1..c |-> bucket[o[i]]]
  BY <1>3 DEF Lists, c
<1>7. Len(best) = c /\ \A i \in 1..c : best[i] = bucket[o[i]] /\ o[i] \in cands
  BY <1>4, <1>6
<1>8. ToSet(cfs) = {cfs[i] : i \in 1..CfSamples}
  BY <1>5 DEF ToSet
<1>9. /\ \A i \in 1..m : cfs[i] = Counterfactual(bucket[o[i]]) /\ i \in 1..c /\ i \in 1..CfSamples
      /\ \A i \in 1..CfSamples : i \notin 1..m => cfs[i] = Masked(x)
  <2>1. ASSUME NEW i \in 1..m
        PROVE  cfs[i] = Counterfactual(bucket[o[i]]) /\ i \in 1..c /\ i \in 1..CfSamples
    <3>1. i \in 1..c /\ i \in 1..CfSamples /\ i <= c
      BY <1>4
    <3>2. QED
      BY <1>5, <1>7, <3>1
  <2>2. ASSUME NEW i \in 1..CfSamples, i \notin 1..m PROVE cfs[i] = Masked(x)
    <3>1. ~(i <= c)
      BY <1>4, <2>2
    <3>2. QED
      BY <1>5, <1>7, <3>1
  <2>3. QED
    BY <2>1, <2>2
<1> DEFINE g == [i \in 1..m |-> Key(bucket[o[i]])]
<1>10. real = {g[i] : i \in 1..m}
  <2>1. ASSUME NEW i \in 1..m PROVE g[i] \in real
    <3>1. cfs[i] \in ToSet(cfs) /\ cfs[i] = Counterfactual(bucket[o[i]])
      BY <1>8, <1>9
    <3>2. ~cfs[i].masked /\ Key(cfs[i]) = Key(bucket[o[i]])
      BY <3>1, CounterfactualIs
    <3>3. g[i] = Key(cfs[i])
      BY <3>2
    <3> HIDE DEF g
    <3>4. QED
      BY <3>1, <3>2, <3>3
  <2>2. ASSUME NEW k \in real PROVE \E i \in 1..m : g[i] = k
    <3>1. PICK e \in ToSet(cfs) : ~e.masked /\ k = Key(e)
      OBVIOUS
    <3>2. PICK i \in 1..CfSamples : e = cfs[i]
      BY <1>8, <3>1
    <3>3. i \in 1..m
      BY <1>9, <3>1, <3>2, CounterfactualIs
    <3>4. e = Counterfactual(bucket[o[i]])
      BY <1>9, <3>2, <3>3
    <3>5. k = Key(bucket[o[i]])
      BY <3>1, <3>4, CounterfactualIs
    <3>6. g[i] = k
      BY <3>3, <3>5
    <3>7. QED
      BY <3>3, <3>6
  <2> HIDE DEF real, g
  <2>3. QED
    BY <2>1, <2>2
<1>11. real \subseteq others
  <2>1. \A i \in 1..m : g[i] \in others
    BY <1>2, <1>7, <1>9
  <2> HIDE DEF g, real
  <2>2. QED
    BY <1>10, <2>1
<1>12. Cardinality(real) = m
  <2>1. /\ g \in [1..m -> real] /\ \A k \in real : \E i \in 1..m : g[i] = k
    <3>1. DOMAIN g = 1..m /\ g = [i \in 1..m |-> g[i]]
      OBVIOUS
    <3> HIDE DEF g, real
    <3>2. QED
      BY <1>10, <3>1
  <2>2. \A i, j \in 1..m : g[i] = g[j] => i = j
    BY <1>2, <1>6, <1>7, <1>9
  <2>3. IsFiniteSet(1..m) /\ Cardinality(1..m) = m
    BY <1>4, FS_Interval
  <2> HIDE DEF g, real
  <2>4. MapsOneToOne(g, 1..m, real)
    BY <2>1, <2>2 DEF MapsOneToOne
  <2>5. QED
    BY <2>3, <2>4, OneToOne
<1>13. ASSUME NEW e \in ToSet(cfs) PROVE e.tool = x.tool
  <2>1. PICK i \in 1..CfSamples : e = cfs[i]
    BY <1>8
  <2>2. CASE i \in 1..m
    <3>1. e = Counterfactual(bucket[o[i]]) /\ o[i] \in cands
      BY <1>7, <1>9, <2>1, <2>2
    <3>2. e.tool = bucket[o[i]].tool
      BY <3>1, CounterfactualIs
    <3>3. QED
      BY <1>2, <3>1, <3>2
  <2>3. CASE i \notin 1..m
    BY <1>9, <2>1, <2>3, CounterfactualIs
  <2>4. QED
    BY <2>2, <2>3
<1> HIDE DEF real, g
<1>14. real \subseteq others /\ Cardinality(real) = MinOf(CfSamples, Cardinality(others))
  BY <1>2, <1>11, <1>12 DEF m
<1>15. Compared(cfs, x, known)
  BY <1>13, <1>14 DEF Compared, others, real, Key
<1>16. QED
  BY <1>15 DEF cfs

\* What the last trajectory scored was compared with
CfsInv ==
  scored > 0 /\ Given <= MaxPerType =>
    \A k \in DOMAIN output.cfs :
      Compared(output.cfs[k], trajs[scored].steps[k], Among(trajs, Given))

\* Score takes the counterfactuals from a pool that has the trajectory's own steps,
\* and nothing else changes them or the pool's trajectories.
LEMMA CfsStep ==
  ASSUME Inv, CfsInv, [Next]_vars
  PROVE  CfsInv'
<1>1. Inv'
  BY StepInv
<1>2. mode' = mode
  BY DEF Next, Rollout, EndRollout, Fill, Score, EndScore, Load, Done, vars
<1>3. ASSUME UNCHANGED <<scored, output, trajs>>, scored > 0 => Given' = Given PROVE CfsInv'
  <2>1. CASE scored > 0
    <3>1. UNCHANGED <<scored, output, trajs>> /\ Given' = Given
      BY <1>3, <2>1
    <3>2. QED
      BY <3>1 DEF CfsInv
  <2>2. CASE ~(scored > 0)
    BY <1>3, <2>2 DEF CfsInv
  <2>3. QED
    BY <2>1, <2>2
<1>4. ASSUME Score PROVE CfsInv'
  <2> DEFINE t == trajs[scored + 1]
             cfs == [i \in DOMAIN t.steps |-> SampleCfs(pool', t.steps[i])]
  <2>1. output'.cfs = cfs
    <3>1. PICK raw \in [DOMAIN t.steps -> RawGains],
               rawEdges \in [1..(Len(t.steps) - 1) -> RawGains] :
            output' = Compute(t, cfs, raw, rawEdges)
      BY <1>4 DEF Score
    <3> HIDE DEF t, cfs
    <3>2. QED
      BY <3>1 DEF Compute
  <2>2. t \in Trajectories /\ pool' \in Pools /\ trajs' = trajs /\ scored' = scored + 1
    BY <1>4, ScoreStep DEF Inv, Score
  <2>3. trajs \in Seq(Trajectories) /\ scored \in Nat /\ scored + 1 <= Len(trajs)
    BY <1>4 DEF Inv, TypeInv, Score
  <2> DEFINE n == Given'
             known == Among(trajs, n)
             p == pool'
  <2>4. n \in 0..Len(trajs)
    BY <1>2, <1>4, <2>3 DEF Given, Score
  <2>5. known \in SUBSET Step
    BY <2>3, <2>4, AmongIn
  <2>6. n <= MaxPerType => PoolOf(p, known, n)
    BY <1>1, <2>2 DEF Inv, PoolInv, Among
  <2>7. ASSUME n <= MaxPerType, NEW k \in DOMAIN cfs PROVE Compared(cfs[k], t.steps[k], known)
    <3>1. k \in DOMAIN t.steps /\ cfs[k] = SampleCfs(p, t.steps[k])
      BY <2>7
    <3>2. t.steps \in Seq(Step)
      BY <2>2, TrajectoryIn
    <3>3. t.steps[k] \in Step
      BY <3>1, <3>2, ElementsIn
    <3>4. p \in Pools /\ PoolOf(p, known, n)
      BY <2>2, <2>6, <2>7
    <3> HIDE DEF n, known, p, t, cfs
    <3>5. QED
      BY <2>5, <3>1, <3>3, <3>4, SampleIs
  <2> HIDE DEF cfs
  <2>8. QED
    BY <2>1, <2>2, <2>7 DEF CfsInv
<1>5. ASSUME ~Score, Next PROVE CfsInv'
  <2>1. ASSUME NEW s \in Samples, Rollout(s) PROVE CfsInv'
    <3>1. scored' = 0
      BY <2>1 DEF Rollout, Inv, TypeInv
    <3>2. QED
      BY <3>1 DEF CfsInv
  <2>2. ASSUME Fill PROVE CfsInv'
    <3>1. scored' = 0
      BY <2>2 DEF Fill, Inv, TypeInv
    <3>2. QED
      BY <3>1 DEF CfsInv
  <2>3. ASSUME EndRollout PROVE CfsInv'
    <3>1. scored' = 0
      BY <2>3 DEF EndRollout, Inv, TypeInv
    <3>2. QED
      BY <3>1 DEF CfsInv
  <2>4. ASSUME EndScore PROVE CfsInv'
    BY <1>2, <1>3, <2>4 DEF Given, EndScore
  <2>5. ASSUME Load PROVE CfsInv'
    BY <1>2, <1>3, <2>5 DEF Given, Load
  <2>6. ASSUME Done PROVE CfsInv'
    BY <1>3, <2>6 DEF Given, Done, vars
  <2>7. QED
    BY <1>5, <2>1, <2>2, <2>3, <2>4, <2>5, <2>6 DEF Next
<1>6. CASE UNCHANGED vars
  BY <1>3, <1>6 DEF Given, vars
<1>7. QED
  BY <1>4, <1>5, <1>6

\* The trajectories the pool was given are those the property names.
LEMMA KnownAmong ==
  ASSUME Inv, scored > 0
  PROVE  /\ Len(Known) = Given
         /\ UNION {ToSet(t.steps) : t \in ToSet(Known)} = Among(trajs, Given)
<1>1. /\ trajs \in Seq(Trajectories) /\ scored \in Nat /\ scored <= Len(trajs)
      /\ Len(trajs) \in Nat /\ pc \notin {"rollout", "fill"}
  BY DEF Inv, TypeInv
<1>2. Given \in 0..Len(trajs)
  BY <1>1 DEF Given
<1>3. /\ Known \in Seq(Trajectories) /\ Len(Known) = Given
      /\ \A j \in 1..Given : Known[j] = trajs[j]
  <2>1. CASE mode = "relabel"
    BY <1>1, <2>1 DEF Known, Given
  <2>2. CASE mode # "relabel"
    <3>1. Known = SubSeq(trajs, 1, scored) /\ Given = scored
      BY <2>2 DEF Known, Given
    <3>2. scored \in 0..Len(trajs)
      BY <1>1
    <3>3. QED
      BY <1>1, <3>1, <3>2
  <2>3. QED
    BY <2>1, <2>2
<1> DEFINE s == Known  n == Given
<1> HIDE DEF s, n
<1>4. ToSet(s) = {trajs[j] : j \in 1..n}
  <2>1. ToSet(s) = {s[j] : j \in 1..n}
    BY <1>3 DEF ToSet, s, n
  <2>2. \A j \in 1..n : s[j] = trajs[j]
    BY <1>3 DEF s, n
  <2>3. QED
    BY <2>1, <2>2
<1>5. UNION {ToSet(t.steps) : t \in ToSet(s)} = Among(trajs, n)
  BY <1>4 DEF Among
<1>6. QED
  BY <1>3, <1>5 DEF s, n

\* Every step is compared with steps of its own tool that did something else, as
\* many as the job holds up to cf_samples, and with masked observations only
\* beyond, in each of the four entry points and whatever max_per_type has room for.
THEOREM ComparedCorrect == Spec => []ComparedWithOthers
<1>1. Init => CfsInv
  BY DEF Init, CfsInv
<1>2. Inv /\ CfsInv /\ [Next]_vars => CfsInv'
  BY CfsStep
<1>3. Inv /\ CfsInv => ComparedWithOthers
  <2> SUFFICES ASSUME Inv, CfsInv, scored > 0, Len(Known) <= MaxPerType
               PROVE  \A k \in DOMAIN output.cfs :
                        Compared(output.cfs[k], trajs[scored].steps[k],
                                 UNION {ToSet(t.steps) : t \in ToSet(Known)})
    BY DEF ComparedWithOthers, Compared
  <2>1. /\ Len(Known) = Given
        /\ UNION {ToSet(t.steps) : t \in ToSet(Known)} = Among(trajs, Given)
    BY KnownAmong
  <2>2. Given <= MaxPerType
    BY <2>1
  <2>3. QED
    BY <2>1, <2>2 DEF CfsInv
<1>4. QED
  BY <1>1, <1>2, <1>3, InvCorrect, PTL DEF Spec

=============================================================================
