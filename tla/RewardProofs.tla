---------------------------- MODULE RewardProofs ----------------------------
(***************************************************************************)
(* What the proofs about a step of training need to know of the reward of  *)
(* a row, for any turns and any width: the turns are found again wherever  *)
(* a row was cut, the actions are found one after the other, and no search *)
(* is found twice.                                                         *)
(***************************************************************************)
EXTENDS RewardManager, FoldLemmas

---------------------------------------------------------------------------
\* What Keep does, one element after the other.

IsKept(q, s, S, A) ==
  /\ q \in [0..Len(s) -> Seq(A)]
  /\ q[0] = <<>>
  /\ \A k \in 1..Len(s) :
       q[k] = IF s[k] \in S THEN Append(q[k - 1], s[k]) ELSE q[k - 1]

\* The fold runs through the sequence.
LEMMA KeepRuns ==
  ASSUME NEW A, NEW s \in Seq(A), NEW S
  PROVE  \E q : IsKept(q, s, S, A) /\ q[Len(s)] = Keep(s, S)
<1> DEFINE n == Len(s)
           V == Seq(A)
           Next1(b, x) == IF x \in S THEN Append(b, x) ELSE b
<1>1. n \in Nat /\ DOMAIN s = 1..n
  OBVIOUS
<1>2. PICK none \in V : none = <<>>
  <2>1. <<>> \in V
    OBVIOUS
  <2> HIDE DEF V
  <2>2. QED
    BY <2>1
<1> DEFINE G == [c \in V \X (1..n) |-> Next1(c[1], s[c[2]])]
           Is(f) == f = [t \in SUBSET DOMAIN s |->
                           IF t = {} THEN none ELSE Next1(f[t \ {Max(t)}], s[Max(t)])]
           f == CHOOSE f : Is(f)
           end == FoldLeft(LAMBDA kept, x : IF x \in S THEN Append(kept, x) ELSE kept, none, s)
<1>3. end = f[DOMAIN s]
  BY DEF FoldLeft, MapThenFoldSet
<1>4. \A b \in V, k \in 1..n : Next1(b, s[k]) \in V
  OBVIOUS
<1> HIDE DEF V, Next1
<1>5. G \in [V \X (1..n) -> V]
  BY <1>4
<1>6. \A b \in V, k \in 1..n : G[<<b, k>>] = Next1(b, s[k])
  OBVIOUS
<1> HIDE DEF G, n, end
<1>7. \A t \in SUBSET (1..n) : t # {} => Max(t) \in 1..n /\ t \ {Max(t)} \in SUBSET (1..n)
  BY <1>1, LastPosition
<1>8. PICK h \in [SUBSET (1..n) -> V] : IsFold(h, none, G, n)
  BY <1>1, <1>2, <1>5, FoldExists
<1>9. Is(h)
  <2>1. ASSUME NEW t \in SUBSET (1..n)
        PROVE  h[t] = IF t = {} THEN none ELSE Next1(h[t \ {Max(t)}], s[Max(t)])
    BY <1>6, <1>7, <1>8 DEF IsFold
  <2>2. QED
    BY <1>1, <2>1
<1>10. Is(f)
  BY <1>9
<1> HIDE DEF f
<1>11. Unfolds(f, none, G, n, V)
  BY <1>1, <1>6, <1>7, <1>10 DEF Unfolds
<1>12. RunsTo(f[1..n], none, G, n, V)
  BY <1>1, <1>5, <1>11, FoldRuns
<1>13. PICK q \in [0..n -> V] : IsRun(q, none, G, n) /\ q[n] = f[1..n]
  BY <1>12 DEF RunsTo
<1>14. \A k \in 1..n : q[k] = IF s[k] \in S THEN Append(q[k - 1], s[k]) ELSE q[k - 1]
  <2>1. ASSUME NEW k \in 1..n PROVE q[k] = Next1(q[k - 1], s[k])
    <3>1. k - 1 \in 0..n
      BY <1>1
    <3>2. q[k - 1] \in V
      BY <3>1
    <3>3. QED
      BY <1>6, <1>13, <3>2 DEF IsRun
  <2>2. QED
    BY <2>1 DEF Next1
<1>15. IsKept(q, s, S, A)
  BY <1>2, <1>13, <1>14 DEF IsKept, IsRun, V, n
<1>16. Keep(s, S) = end
  BY <1>2, Zenon DEF Keep, end
<1>17. QED
  BY <1>1, <1>3, <1>13, <1>15, <1>16 DEF n

IsBehind(x, y, e) == Append(x \o y, e) = x \o Append(y, e)

\* Whether an element is appended behind both or behind y first is the same.
LEMMA AppendBehind ==
  ASSUME NEW A, NEW x \in Seq(A), NEW y \in Seq(A), NEW e \in A
  PROVE  IsBehind(x, y, e)
BY DEF IsBehind

\* What appends an element.
LEMMA IsAppend ==
  ASSUME NEW A, NEW x \in Seq(A), NEW y \in Seq(A), NEW e \in A, Len(y) = Len(x) + 1,
         \A i \in 1..Len(x) : y[i] = x[i], y[Len(x) + 1] = e
  PROVE  y = Append(x, e)
OBVIOUS

\* A stretch behind position a.
LEMMA StretchIs ==
  ASSUME NEW A, NEW s \in Seq(A), NEW a \in Nat, NEW k \in Nat, a + k <= Len(s)
  PROVE  /\ SubSeq(s, a + 1, a + k) \in Seq(A)
         /\ Len(SubSeq(s, a + 1, a + k)) = k
         /\ \A i \in 1..k : SubSeq(s, a + 1, a + k)[i] = s[a + i]
<1>1. Len(s) \in Nat /\ s \in [1..Len(s) -> A] /\ 1..(a + k) \subseteq 1..Len(s)
  OBVIOUS
<1>2. Len(SubSeq(s, a + 1, a + k)) = k
  OBVIOUS
<1>3. \A i \in 1..k : SubSeq(s, a + 1, a + k)[i] = s[a + i]
  BY <1>1
<1>4. SubSeq(s, a + 1, a + k) \in Seq(A)
  BY <1>1
<1>5. QED
  BY <1>2, <1>3, <1>4

\* SubSeq between two positions of a sequence.
LEMMA SubSeqIs ==
  ASSUME NEW A, NEW s \in Seq(A), NEW a \in 1..Len(s), NEW b \in a..Len(s)
  PROVE  /\ SubSeq(s, a, b) \in Seq(A)
         /\ Len(SubSeq(s, a, b)) = b - a + 1
         /\ \A i \in 1..(b - a + 1) : SubSeq(s, a, b)[i] = s[a + i - 1]
<1>1. Len(s) \in Nat /\ s \in [1..Len(s) -> A] /\ a..b \subseteq 1..Len(s)
  OBVIOUS
<1>2. Len(SubSeq(s, a, b)) = b - a + 1
  OBVIOUS
<1>3. \A i \in 1..(b - a + 1) : SubSeq(s, a, b)[i] = s[a + i - 1]
  BY <1>1
<1>4. SubSeq(s, a, b) \in Seq(A)
  BY <1>1
<1>5. QED
  BY <1>2, <1>3, <1>4

\* One more element of it.
LEMMA StretchGrows ==
  ASSUME NEW A, NEW s \in Seq(A), NEW a \in Nat, NEW k \in Nat, a + (k + 1) <= Len(s)
  PROVE  /\ s[a + (k + 1)] \in A
         /\ SubSeq(s, a + 1, a + (k + 1)) = Append(SubSeq(s, a + 1, a + k), s[a + (k + 1)])
<1> DEFINE x == SubSeq(s, a + 1, a + k)
           y == SubSeq(s, a + 1, a + (k + 1))
<1>1. x \in Seq(A) /\ Len(x) = k /\ \A i \in 1..k : x[i] = s[a + i]
  BY StretchIs
<1>2. y \in Seq(A) /\ Len(y) = k + 1 /\ \A i \in 1..(k + 1) : y[i] = s[a + i]
  <2>1. k + 1 \in Nat
    OBVIOUS
  <2>2. QED
    BY <2>1, StretchIs
<1>3. s[a + (k + 1)] \in A
  OBVIOUS
<1> HIDE DEF x, y
<1>4. /\ Len(y) = Len(x) + 1 /\ y[Len(x) + 1] = s[a + (k + 1)]
      /\ \A i \in 1..Len(x) : y[i] = x[i]
  <2>1. k + 1 \in 1..(k + 1) /\ \A i \in 1..k : i \in 1..(k + 1)
    OBVIOUS
  <2>2. y[k + 1] = s[a + (k + 1)]
    BY <1>2, <2>1
  <2>3. \A i \in 1..k : y[i] = x[i]
    BY <1>1, <1>2, <2>1
  <2>4. QED
    BY <1>1, <1>2, <2>2, <2>3
<1>5. y = Append(x, s[a + (k + 1)])
  BY <1>1, <1>2, <1>3, <1>4, IsAppend
<1>6. QED
  BY <1>3, <1>5 DEF x, y

---------------------------------------------------------------------------
\* A stretch of the sequence, all of which or none of which is kept.

Appended(q, s, a, b) == q[b] = q[a] \o SubSeq(s, a + 1, b)

\* All of it: it is appended as it is.
LEMMA KeepAllOf ==
  ASSUME NEW A, NEW s \in Seq(A), NEW S, NEW q, IsKept(q, s, S, A),
         NEW a \in 0..Len(s), NEW b \in a..Len(s),
         \A k \in (a + 1)..b : s[k] \in S
  PROVE  Appended(q, s, a, b)
<1> DEFINE n == Len(s)
           Upto(k) == q[a] \o SubSeq(s, a + 1, a + k)
           T == {k \in Nat : a + k <= b => q[a + k] = Upto(k)}
<1>1. /\ n \in Nat /\ a \in Nat /\ b \in Nat /\ a <= b /\ b <= n
      /\ q[a] \in Seq(A)
  BY DEF IsKept
<1>2. 0 \in T
  <2>1. SubSeq(s, a + 1, a + 0) = <<>> /\ a + 0 = a
    BY <1>1
  <2>2. q[a] \o <<>> = q[a]
    BY <1>1
  <2>3. Upto(0) = q[a]
    BY <2>1, <2>2
  <2> HIDE DEF Upto
  <2>4. QED
    BY <2>1, <2>3
<1>3. ASSUME NEW k \in Nat, k \in T PROVE k + 1 \in T
  <2>1. CASE a + (k + 1) <= b
    <3>1. /\ a + k <= b
          /\ a + (k + 1) \in 1..n /\ (a + (k + 1)) - 1 = a + k
          /\ a + (k + 1) \in (a + 1)..b
      BY <1>1, <2>1
    <3>2. q[a + (k + 1)] = Append(q[a + k], s[a + (k + 1)])
      <4>1. q[a + (k + 1)] = IF s[a + (k + 1)] \in S
                             THEN Append(q[a + k], s[a + (k + 1)]) ELSE q[a + k]
        BY <3>1 DEF IsKept
      <4>2. QED
        BY <3>1, <4>1
    <3>3. q[a + k] = Upto(k)
      BY <1>3, <3>1
    <3>4. /\ SubSeq(s, a + 1, a + k) \in Seq(A) /\ s[a + (k + 1)] \in A
          /\ SubSeq(s, a + 1, a + (k + 1))
               = Append(SubSeq(s, a + 1, a + k), s[a + (k + 1)])
      <4>1. /\ a + k <= Len(s) /\ a + (k + 1) <= Len(s)
            /\ a \in Nat /\ k \in Nat
        BY <1>1, <3>1
      <4> HIDE DEF Upto, T, n
      <4>2. SubSeq(s, a + 1, a + k) \in Seq(A)
        BY <4>1, StretchIs
      <4>3. /\ s[a + (k + 1)] \in A
            /\ SubSeq(s, a + 1, a + (k + 1))
                 = Append(SubSeq(s, a + 1, a + k), s[a + (k + 1)])
        BY <4>1, StretchGrows
      <4>4. QED
        BY <4>2, <4>3
    <3>5. Upto(k + 1) = Append(Upto(k), s[a + (k + 1)])
      <4>1. Append(q[a] \o SubSeq(s, a + 1, a + k), s[a + (k + 1)])
              = q[a] \o Append(SubSeq(s, a + 1, a + k), s[a + (k + 1)])
        <5> DEFINE x == SubSeq(s, a + 1, a + k)
                   e == s[a + (k + 1)]
                   z == q[a]
        <5>1. x \in Seq(A) /\ e \in A /\ z \in Seq(A)
          BY <1>1, <3>4
        <5> HIDE DEF x, e, z
        <5>2. Append(z \o x, e) = z \o Append(x, e)
          <6>1. IsBehind(z, x, e)
            BY <5>1, AppendBehind
          <6>2. QED
            BY <6>1, Zenon DEF IsBehind
        <5>3. QED
          BY <5>2 DEF x, e, z
      <4>2. QED
        BY <3>4, <4>1
    <3> HIDE DEF Upto
    <3>6. QED
      <4>1. q[a + (k + 1)] = Upto(k + 1) /\ k + 1 \in Nat
        BY <3>2, <3>3, <3>5
      <4>2. QED
        BY <4>1
  <2>2. CASE ~(a + (k + 1) <= b)
    <3> HIDE DEF Upto
    <3>1. QED
      BY <2>2
  <2>3. QED
    BY <2>1, <2>2
<1> HIDE DEF T
<1>4. Nat \subseteq T
  BY <1>2, <1>3, NatAll
<1>5. b - a \in Nat /\ a + (b - a) = b
  BY <1>1
<1>6. b - a \in T
  BY <1>4, <1>5
<1>7. q[a + (b - a)] = Upto(b - a)
  <2> HIDE DEF Upto
  <2>1. QED
    BY <1>1, <1>5, <1>6 DEF T
<1>8. q[b] = q[a] \o SubSeq(s, a + 1, b)
  BY <1>5, <1>7
<1>9. QED
  BY <1>8, Zenon DEF Appended

\* None of it: there is what there was.
LEMMA KeepNoneOf ==
  ASSUME NEW A, NEW s \in Seq(A), NEW S, NEW q, IsKept(q, s, S, A),
         NEW a \in 0..Len(s), NEW b \in a..Len(s),
         \A k \in (a + 1)..b : s[k] \notin S
  PROVE  q[b] = q[a]
<1> DEFINE n == Len(s)
           T == {k \in Nat : a + k <= b => q[a + k] = q[a]}
<1>1. n \in Nat /\ a \in Nat /\ b \in Nat /\ a <= b /\ b <= n
  OBVIOUS
<1>2. 0 \in T
  BY <1>1
<1>3. ASSUME NEW k \in Nat, k \in T PROVE k + 1 \in T
  <2>1. CASE a + (k + 1) <= b
    <3>1. /\ a + k <= b
          /\ a + (k + 1) \in 1..n /\ (a + (k + 1)) - 1 = a + k
          /\ a + (k + 1) \in (a + 1)..b
      BY <1>1, <2>1
    <3>2. q[a + (k + 1)] = IF s[a + (k + 1)] \in S
                           THEN Append(q[a + k], s[a + (k + 1)]) ELSE q[a + k]
      BY <3>1 DEF IsKept
    <3>3. QED
      BY <1>3, <3>1, <3>2
  <2>2. CASE ~(a + (k + 1) <= b)
    BY <2>2
  <2>3. QED
    BY <2>1, <2>2
<1> HIDE DEF T
<1>4. Nat \subseteq T
  BY <1>2, <1>3, NatAll
<1>5. b - a \in Nat /\ a + (b - a) = b
  BY <1>1
<1>6. b - a \in T
  BY <1>4, <1>5
<1>7. QED
  BY <1>1, <1>5, <1>6 DEF T

\* What x \o y is, by position.
IsConcat(z, x, y) ==
  /\ Len(z) = Len(x) + Len(y)
  /\ \A i \in 1..Len(x) : z[i] = x[i]
  /\ \A i \in 1..Len(y) : z[Len(x) + i] = y[i]

\* Two sequences, one behind the other.
LEMMA ConcatIs ==
  ASSUME NEW A, NEW x \in Seq(A), NEW y \in Seq(A)
  PROVE  IsConcat(x \o y, x, y) /\ x \o y \in Seq(A)
BY DEF IsConcat

---------------------------------------------------------------------------
\* Positions and their order

\* g lists the elements of S in their order.
Lists(g, n, S) ==
  /\ g \in [1..n -> Nat]
  /\ S = {g[k] : k \in 1..n}
  /\ \A k, l \in 1..n : k < l => g[k] < g[l]

\* As many elements are listed as there are numbers to list them by.
LEMMA ListedCount ==
  ASSUME NEW n \in Nat, NEW S, NEW g, Lists(g, n, S), NEW m \in 0..n
  PROVE  Cardinality({g[k] : k \in 1..m}) = m
<1> DEFINE f == [k \in 1..m |-> g[k]]
           I == {g[k] : k \in 1..m}
<1>1. f \in [1..m -> I]
  OBVIOUS
<1>2. \A k, l \in 1..m : f[k] = f[l] => k = l
  <2>1. ASSUME NEW k \in 1..m, NEW l \in 1..m, g[k] = g[l] PROVE k = l
    <3>1. /\ k \in 1..n /\ l \in 1..n /\ g[k] \in Nat /\ g[l] \in Nat
      BY DEF Lists
    <3>2. ~(k < l) /\ ~(l < k)
      BY <2>1, <3>1 DEF Lists
    <3>3. QED
      BY <3>2
  <2>2. QED
    BY <2>1
<1>3. \A x \in I : \E k \in 1..m : f[k] = x
  OBVIOUS
<1> HIDE DEF f, I
<1>4. f \in Bijection(1..m, I)
  BY <1>1, <1>2, <1>3 DEF Bijection, Injection, Surjection, IsInjective
<1>5. IsFiniteSet(1..m) /\ Cardinality(1..m) = m
  BY FS_Interval
<1>6. Cardinality(I) = m
  BY <1>4, <1>5, FS_Bijection DEF ExistsBijection
<1>7. QED
  BY <1>6 DEF I

\* The k-th of them is g[k].
LEMMA NthIs ==
  ASSUME NEW n \in Nat, NEW S, NEW g, Lists(g, n, S)
  PROVE  /\ Cardinality(S) = n
         /\ \A k \in 1..n : Nth(S, k) = g[k] /\ g[k] \in S
<1>1. Cardinality(S) = n
  <2>1. n \in 0..n
    OBVIOUS
  <2>2. Cardinality({g[k] : k \in 1..n}) = n
    BY <2>1, ListedCount
  <2>3. QED
    BY <2>2 DEF Lists
<1>2. ASSUME NEW k \in 1..n PROVE Cardinality({j \in S : j < g[k]}) = k - 1
  <2>1. {j \in S : j < g[k]} = {g[l] : l \in 1..(k - 1)}
    <3>1. ASSUME NEW l \in 1..n PROVE g[l] < g[k] <=> l \in 1..(k - 1)
      <4>1. g[k] \in Nat /\ g[l] \in Nat
        BY DEF Lists
      <4>2. CASE l < k
        BY <4>2 DEF Lists
      <4>3. CASE l = k
        BY <4>1, <4>3
      <4>4. CASE k < l
        <5>1. g[k] < g[l]
          BY <4>4 DEF Lists
        <5>2. QED
          BY <4>1, <4>4, <5>1
      <4>5. QED
        BY <4>2, <4>3, <4>4
    <3>2. S = {g[l] : l \in 1..n} /\ 1..(k - 1) \subseteq 1..n
      BY DEF Lists
    <3>3. QED
      BY <3>1, <3>2
  <2>2. k - 1 \in 0..n
    OBVIOUS
  <2>3. Cardinality({g[l] : l \in 1..(k - 1)}) = k - 1
    BY <2>2, ListedCount
  <2>4. QED
    BY <2>1, <2>3
<1>3. ASSUME NEW k \in 1..n PROVE Nth(S, k) = g[k] /\ g[k] \in S
  <2>1. g[k] \in S
    BY DEF Lists
  <2>2. ASSUME NEW i \in S, Cardinality({j \in S : j < i}) = k - 1 PROVE i = g[k]
    <3>1. PICK l \in 1..n : i = g[l]
      BY DEF Lists
    <3>2. l - 1 = k - 1
      BY <1>2, <2>2, <3>1
    <3>3. l = k
      BY <3>2
    <3>4. QED
      BY <3>1, <3>3
  <2>3. QED
    BY <1>2, <2>1, <2>2 DEF Nth
<1>4. QED
  BY <1>1, <1>3

\* Positions can be listed.
LEMMA ListExists ==
  ASSUME NEW n \in Nat, NEW S \in SUBSET (1..n)
  PROVE  \E m \in Nat : \E g : Lists(g, m, S)
<1> DEFINE T == {k \in Nat : \A s \in SUBSET (1..k) : \E m \in Nat : \E g : Lists(g, m, s)}
<1>1. 0 \in T
  <2>1. ASSUME NEW s \in SUBSET (1..0) PROVE \E m \in Nat : \E g : Lists(g, m, s)
    <3> DEFINE g == [k \in 1..0 |-> 0]
    <3>1. s = {} /\ 1..0 = {} /\ g \in [1..0 -> Nat]
      OBVIOUS
    <3>2. Lists(g, 0, s)
      BY <3>1 DEF Lists
    <3>3. QED
      BY <3>2
  <2>2. QED
    BY <2>1
<1>2. ASSUME NEW k \in Nat, k \in T PROVE k + 1 \in T
  <2>1. ASSUME NEW s \in SUBSET (1..(k + 1)) PROVE \E m \in Nat : \E g : Lists(g, m, s)
    <3>1. CASE k + 1 \notin s
      <4>1. s \in SUBSET (1..k)
        BY <3>1
      <4>2. QED
        BY <1>2, <4>1
    <3>2. CASE k + 1 \in s
      <4> DEFINE t == s \ {k + 1}
      <4>1. t \in SUBSET (1..k) /\ s = t \cup {k + 1}
        BY <3>2
      <4>2. PICK m \in Nat : \E g : Lists(g, m, t)
        BY <1>2, <4>1
      <4>3. PICK g : Lists(g, m, t)
        BY <4>2
      <4> DEFINE h == [l \in 1..(m + 1) |-> IF l <= m THEN g[l] ELSE k + 1]
      <4> HIDE DEF t
      <4>4. \A l \in 1..m : g[l] \in t /\ g[l] \in Nat /\ g[l] < k + 1
        BY <4>1, <4>3 DEF Lists
      <4>5. \A l \in 1..(m + 1) : l \in 1..m \/ l = m + 1
        OBVIOUS
      <4>6. /\ \A l \in 1..m : h[l] = g[l] /\ l \in 1..(m + 1)
            /\ h[m + 1] = k + 1 /\ m + 1 \in 1..(m + 1)
        OBVIOUS
      <4>7. h \in [1..(m + 1) -> Nat]
        BY <4>4
      <4> HIDE DEF h
      <4>8. s = {h[l] : l \in 1..(m + 1)}
        <5>1. t = {g[l] : l \in 1..m}
          BY <4>3 DEF Lists
        <5>2. QED
          BY <4>1, <4>5, <4>6, <5>1
      <4>9. ASSUME NEW l \in 1..(m + 1), NEW i \in 1..(m + 1), l < i PROVE h[l] < h[i]
        <5>1. l \in 1..m
          BY <4>9
        <5>2. CASE i \in 1..m
          <6>1. g[l] < g[i]
            BY <4>3, <4>9, <5>1, <5>2 DEF Lists
          <6>2. QED
            BY <4>6, <5>1, <5>2, <6>1
        <5>3. CASE i = m + 1
          BY <4>4, <4>6, <5>1, <5>3
        <5>4. QED
          BY <4>5, <5>2, <5>3
      <4>10. Lists(h, m + 1, s)
        BY <4>7, <4>8, <4>9 DEF Lists
      <4>11. QED
        BY <4>10
    <3>3. QED
      BY <3>1, <3>2
  <2>2. QED
    BY <2>1
<1> HIDE DEF T
<1>3. n \in T
  BY <1>1, <1>2, NatAll
<1>4. QED
  BY <1>3 DEF T

\* The k-th of a set of positions is one of them.
LEMMA NthIn ==
  ASSUME NEW n \in Nat, NEW S \in SUBSET (1..n)
  PROVE  /\ Cardinality(S) \in Nat
         /\ \A k \in 1..Cardinality(S) : Nth(S, k) \in S
         /\ S # {} => Nth(S, 1) \in S
<1>1. PICK m \in Nat : \E g : Lists(g, m, S)
  BY ListExists
<1>2. PICK g : Lists(g, m, S)
  BY <1>1
<1>3. Cardinality(S) = m /\ \A k \in 1..m : Nth(S, k) \in S
  BY <1>2, NthIs
<1>4. ASSUME S # {} PROVE Nth(S, 1) \in S
  <2>1. m # 0
    BY <1>2, <1>4 DEF Lists
  <2>2. 1 \in 1..m
    BY <2>1
  <2>3. QED
    BY <1>3, <2>2
<1>5. QED
  BY <1>3, <1>4
---------------------------------------------------------------------------
\* The turns of a row

Tokens == [id : Ids, turn : Nat]

\* What a token is made of.
LEMMA TokenHas ==
  ASSUME NEW r \in Seq(Tokens)
  PROVE  Len(r) \in Nat /\ \A k \in 1..Len(r) : r[k].turn \in Nat /\ r[k].id \in Ids
<1>1. \A k \in 1..Len(r) : r[k] \in Tokens
  OBVIOUS
<1>2. \A token \in Tokens : token.turn \in Nat /\ token.id \in Ids
  BY DEF Tokens
<1>3. QED
  BY <1>1, <1>2

\* From one token to the next the turn stays or is the next one, or the row
\* ends there and is padded.
Follows(s, t) == t = 0 \/ (s # 0 /\ (t = s \/ t = s + 1))

\* r holds turns, one after the other from the first.
InTurns(r) ==
  /\ r \in Seq(Tokens)
  /\ Len(r) # 0 => r[1].turn = 1
  /\ \A i \in 1..(Len(r) - 1) : Follows(r[i].turn, r[i + 1].turn)

\* Turns ascend, and nothing follows the padding.
LEMMA TurnsAscend ==
  ASSUME NEW r, InTurns(r), NEW i \in 1..Len(r), NEW j \in i..Len(r), r[j].turn # 0
  PROVE  r[i].turn # 0 /\ r[i].turn <= r[j].turn
<1> DEFINE n == Len(r)
           T == {d \in Nat : i + d <= n /\ r[i + d].turn # 0 =>
                               r[i].turn # 0 /\ r[i].turn <= r[i + d].turn}
<1>1. n \in Nat /\ i \in Nat /\ j \in Nat /\ \A k \in 1..n : r[k].turn \in Nat
  BY TokenHas DEF InTurns
<1>2. 0 \in T
  BY <1>1
<1>3. ASSUME NEW d \in Nat, d \in T PROVE d + 1 \in T
  <2>1. CASE i + (d + 1) <= n /\ r[i + (d + 1)].turn # 0
    <3>1. i + d \in 1..(n - 1) /\ (i + d) + 1 = i + (d + 1) /\ i + d <= n
      BY <1>1, <2>1
    <3>2. Follows(r[i + d].turn, r[i + (d + 1)].turn)
      BY <3>1 DEF InTurns
    <3>3. /\ r[i].turn \in Nat /\ r[i + d].turn \in Nat /\ r[i + (d + 1)].turn \in Nat
      BY <1>1, <2>1, <3>1
    <3>4. r[i + d].turn # 0 /\ r[i + d].turn <= r[i + (d + 1)].turn
      BY <2>1, <3>2, <3>3 DEF Follows
    <3>5. r[i].turn # 0 /\ r[i].turn <= r[i + d].turn
      BY <1>3, <3>1, <3>4
    <3>6. r[i].turn <= r[i + (d + 1)].turn
      <4> DEFINE u == r[i].turn
                 v == r[i + d].turn
                 w == r[i + (d + 1)].turn
      <4>1. u \in Nat /\ v \in Nat /\ w \in Nat /\ u <= v /\ v <= w
        BY <3>3, <3>4, <3>5
      <4> HIDE DEF u, v, w
      <4>2. u <= w
        BY <4>1
      <4>3. QED
        BY <4>2 DEF u, w
    <3>7. QED
      BY <3>5, <3>6
  <2>2. CASE ~(i + (d + 1) <= n /\ r[i + (d + 1)].turn # 0)
    BY <2>2
  <2>3. QED
    BY <2>1, <2>2
<1> HIDE DEF T
<1>4. j - i \in Nat /\ i + (j - i) = j
  BY <1>1
<1>5. j - i \in T
  BY <1>2, <1>3, <1>4, NatAll
<1>6. QED
  BY <1>1, <1>4, <1>5 DEF T

\* None is skipped.
LEMMA NoTurnSkipped ==
  ASSUME NEW r, InTurns(r), NEW i \in 1..Len(r), NEW t \in 1..(r[i].turn)
  PROVE  \E j \in 1..i : r[j].turn = t
<1> DEFINE n == Len(r)
           T == {d \in Nat : 1 + d <= n => \A s \in 1..(r[1 + d].turn) :
                               \E j \in 1..(1 + d) : r[j].turn = s}
<1>1. n \in Nat /\ i \in Nat /\ \A k \in 1..n : r[k].turn \in Nat
  BY TokenHas DEF InTurns
<1>2. 0 \in T
  <2>1. 1 <= n => r[1].turn = 1
    BY <1>1 DEF InTurns
  <2>2. \A s \in 1..1 : s = 1
    OBVIOUS
  <2>3. 1 + 0 = 1 /\ 1 \in 1..1
    OBVIOUS
  <2>4. QED
    BY <2>1, <2>2, <2>3
<1>3. ASSUME NEW d \in Nat, d \in T PROVE d + 1 \in T
  <2>1. CASE 1 + (d + 1) <= n
    <3>1. 1 + d \in 1..(n - 1) /\ (1 + d) + 1 = 1 + (d + 1) /\ 1 + d <= n
      BY <1>1, <2>1
    <3>2. Follows(r[1 + d].turn, r[1 + (d + 1)].turn)
      BY <3>1 DEF InTurns
    <3>3. r[1 + d].turn \in Nat /\ r[1 + (d + 1)].turn \in Nat
      BY <1>1, <2>1, <3>1
    <3>4. ASSUME NEW s \in 1..(r[1 + (d + 1)].turn)
          PROVE  \E j \in 1..(1 + (d + 1)) : r[j].turn = s
      <4>1. CASE s = r[1 + (d + 1)].turn
        <5>1. 1 + (d + 1) \in 1..(1 + (d + 1))
          OBVIOUS
        <5>2. QED
          BY <4>1, <5>1
      <4>2. CASE s # r[1 + (d + 1)].turn
        <5>1. s \in 1..(r[1 + d].turn)
          BY <3>2, <3>3, <4>2 DEF Follows
        <5>2. PICK j \in 1..(1 + d) : r[j].turn = s
          BY <1>3, <3>1, <5>1
        <5>3. j \in 1..(1 + (d + 1))
          OBVIOUS
        <5>4. QED
          BY <5>2, <5>3
      <4>3. QED
        BY <4>1, <4>2
    <3>5. QED
      BY <3>4
  <2>2. CASE ~(1 + (d + 1) <= n)
    BY <2>2
  <2>3. QED
    BY <2>1, <2>2
<1> HIDE DEF T
<1>4. i - 1 \in Nat /\ 1 + (i - 1) = i
  BY <1>1
<1>5. i - 1 \in T
  BY <1>2, <1>3, <1>4, NatAll
<1>6. QED
  <2>1. 1 + (i - 1) <= n
    BY <1>1, <1>4
  <2>2. \A s \in 1..(r[1 + (i - 1)].turn) : \E j \in 1..(1 + (i - 1)) : r[j].turn = s
    BY <1>5, <2>1 DEF T
  <2>3. QED
    BY <1>4, <2>2

\* Where turn t is.
IsTurn(r, t, first, last) ==
  /\ first \in 1..Len(r) /\ last \in first..Len(r)
  /\ \A i \in 1..Len(r) : r[i].turn = t <=> i \in first..last

\* Every turn is in one piece.
LEMMA TurnExists ==
  ASSUME NEW r, InTurns(r), NEW t \in Nat, NEW k \in 1..Len(r), r[k].turn = t, t # 0
  PROVE  \E first, last : IsTurn(r, t, first, last)
<1> DEFINE n == Len(r)
           P == {i \in 1..n : r[i].turn = t}
<1>1. n \in Nat /\ P \in SUBSET (1..n) /\ P \in SUBSET Nat /\ P # {}
  BY DEF InTurns
<1>2. PICK first \in P : \A i \in P : first <= i
  BY <1>1, NatMin
<1>3. Max(P) \in P /\ \A i \in P : i <= Max(P)
  BY <1>1, LastPosition
<1> DEFINE last == Max(P)
<1> HIDE DEF last
<1>4. /\ first \in 1..n /\ last \in 1..n /\ first <= last
      /\ r[first].turn = t /\ r[last].turn = t
  BY <1>2, <1>3 DEF last
<1>5. ASSUME NEW i \in 1..n PROVE r[i].turn = t <=> i \in first..last
  <2>1. ASSUME r[i].turn = t PROVE i \in first..last
    BY <1>2, <1>3, <1>4, <2>1 DEF last
  <2>2. ASSUME i \in first..last PROVE r[i].turn = t
    <3>1. i \in 1..Len(r) /\ last \in i..Len(r) /\ first \in 1..Len(r) /\ i \in first..Len(r)
      BY <1>1, <1>4, <2>2
    <3>2. r[i].turn # 0 /\ r[i].turn <= t
      BY <1>4, <3>1, TurnsAscend
    <3>3. t <= r[i].turn
      BY <1>4, <3>1, <3>2, TurnsAscend
    <3>4. r[i].turn \in Nat
      BY <3>1, TokenHas DEF InTurns
    <3>5. QED
      BY <3>2, <3>3, <3>4
  <2>3. QED
    BY <2>1, <2>2
<1>6. IsTurn(r, t, first, last)
  BY <1>1, <1>4, <1>5 DEF IsTurn
<1>7. QED
  BY <1>6
\* The model's n turns are at F and L, which are the starts and the ends that
\* are found.
TurnsAt(n, F, L) ==
  /\ n \in Nat
  /\ Lists(F, n, SegmentStarts) /\ Lists(L, n, SegmentEnds)
  /\ {row[i].turn : i \in {j \in 1..Len(row) : ByModel(row[j])}} = {2 * k - 1 : k \in 1..n}
  /\ \A k \in 1..n : IsTurn(row, 2 * k - 1, F[k], L[k])

\* The model's turns are the odd ones.
LEMMA OddTurns ==
  ASSUME InTurns(row)
  PROVE  \E n \in Nat :
           /\ \A k \in 1..n : \E i \in 1..Len(row) : row[i].turn = 2 * k - 1
           /\ \A i \in 1..Len(row) : row[i].turn % 2 = 1 =>
                \E k \in 1..n : row[i].turn = 2 * k - 1
<1> DEFINE D == {i \in 1..Len(row) : row[i].turn % 2 = 1}
<1>1. Len(row) \in Nat /\ \A k \in 1..Len(row) : row[k].turn \in Nat
  BY TokenHas DEF InTurns
<1>2. CASE D = {}
  <2>1. 0 \in Nat /\ 1..0 = {}
    OBVIOUS
  <2>2. QED
    BY <1>2, <2>1
<1>3. CASE D # {}
  <2>1. D \in SUBSET (1..Len(row))
    OBVIOUS
  <2>2. Max(D) \in D /\ \A i \in D : i <= Max(D)
    BY <1>1, <1>3, <2>1, LastPosition
  <2> DEFINE m == Max(D)
  <2> HIDE DEF m
  <2>3. m \in 1..Len(row) /\ row[m].turn % 2 = 1
    BY <2>2 DEF m
  <2>4. PICK n \in Nat : row[m].turn = 2 * n - 1
    <3> DEFINE t == row[m].turn
    <3>1. t \in Nat /\ t % 2 = 1
      BY <1>1, <2>3
    <3> HIDE DEF t
    <3>2. (t + 1) \div 2 \in Nat /\ t = 2 * ((t + 1) \div 2) - 1
      BY <3>1
    <3>3. QED
      BY <3>2 DEF t
  <2>5. ASSUME NEW k \in 1..n PROVE \E i \in 1..Len(row) : row[i].turn = 2 * k - 1
    <3>1. 2 * k - 1 \in 1..(row[m].turn)
      BY <2>4
    <3>2. PICK j \in 1..m : row[j].turn = 2 * k - 1
      BY <2>3, <3>1, NoTurnSkipped
    <3>3. j \in 1..Len(row)
      BY <1>1, <2>3
    <3>4. QED
      BY <3>2, <3>3
  <2>6. ASSUME NEW i \in 1..Len(row), row[i].turn % 2 = 1
        PROVE  \E k \in 1..n : row[i].turn = 2 * k - 1
    <3> DEFINE t == row[i].turn
    <3>1. t \in Nat /\ t % 2 = 1
      BY <1>1, <2>6
    <3>2. i <= m
      BY <2>2, <2>6 DEF m
    <3>3. m \in i..Len(row) /\ row[m].turn # 0
      BY <1>1, <2>3, <3>2
    <3>4. t <= row[m].turn
      BY <2>3, <3>3, TurnsAscend
    <3> HIDE DEF t
    <3>5. (t + 1) \div 2 \in 1..n /\ t = 2 * ((t + 1) \div 2) - 1
      BY <2>4, <3>1, <3>4
    <3>6. QED
      BY <3>5 DEF t
  <2>7. QED
    BY <2>5, <2>6
<1>4. QED
  BY <1>2, <1>3

\* The mask is 1 on the odd turns.
LEMMA MaskIs ==
  ASSUME InTurns(row)
  PROVE  \A i \in 1..Len(row) :
           /\ Mask[i] = IF row[i].turn % 2 = 1 THEN 1 ELSE 0
           /\ ByModel(row[i]) <=> row[i].turn % 2 = 1
BY DEF Mask, ByModel

\* A turn that is the model's starts and ends where the mask says so.
LEMMA TurnEdges ==
  ASSUME InTurns(row), NEW t \in Nat, t % 2 = 1, NEW first, NEW last,
         IsTurn(row, t, first, last)
  PROVE  /\ first \in SegmentStarts /\ last \in SegmentEnds
         /\ \A i \in SegmentStarts : row[i].turn = t => i = first
         /\ \A i \in SegmentEnds : row[i].turn = t => i = last
<1> DEFINE n == Len(row)
           turn == [i \in 1..n |-> row[i].turn]
<1>1. /\ n \in Nat /\ \A i \in 1..n : turn[i] \in Nat
      /\ t \in Int /\ t % 2 = 1
      /\ \A i \in 1..n : Mask[i] = IF turn[i] % 2 = 1 THEN 1 ELSE 0
  BY TokenHas, MaskIs DEF InTurns
<1>2. /\ first \in 1..n /\ last \in first..n
      /\ \A i \in 1..n : turn[i] = t <=> i \in first..last
  BY DEF IsTurn
<1>3. \A i \in 1..(n - 1) : Follows(turn[i], turn[i + 1])
  <2>1. \A i \in 1..(n - 1) : i \in 1..n /\ i + 1 \in 1..n
    BY <1>1
  <2>2. QED
    BY <2>1 DEF InTurns
<1>4. \A i \in 1..n : row[i].turn = turn[i]
  OBVIOUS
<1> HIDE DEF turn, n
<1>5. first \in SegmentStarts
  <2>1. turn[first] = t
    BY <1>1, <1>2
  <2>2. ASSUME first # 1 PROVE Mask[first - 1] = 0
    <3>1. /\ first - 1 \in 1..(n - 1) /\ first - 1 \in 1..n /\ (first - 1) + 1 = first
          /\ first - 1 \notin first..last
      BY <1>1, <1>2, <2>2
    <3>2. turn[first - 1] # t /\ Follows(turn[first - 1], turn[first])
      BY <1>2, <1>3, <3>1
    <3>3. turn[first - 1] + 1 = t
      BY <1>1, <2>1, <3>2 DEF Follows
    <3>4. turn[first - 1] % 2 # 1
      BY <1>1, <3>1, <3>3
    <3>5. QED
      BY <1>1, <3>1, <3>4
  <2>3. Mask[first] = 1
    BY <1>1, <1>2, <2>1
  <2>4. QED
    BY <1>2, <2>2, <2>3 DEF SegmentStarts, n
<1>6. last \in SegmentEnds
  <2>1. last \in 1..n /\ turn[last] = t
    BY <1>1, <1>2
  <2>2. ASSUME last # n PROVE Mask[last + 1] = 0
    <3>1. last \in 1..(n - 1) /\ last + 1 \in 1..n /\ last + 1 \notin first..last
      BY <1>1, <1>2, <2>2
    <3>2. turn[last + 1] # t /\ Follows(turn[last], turn[last + 1])
      BY <1>2, <1>3, <3>1
    <3>3. turn[last + 1] = 0 \/ turn[last + 1] = t + 1
      BY <2>1, <3>2 DEF Follows
    <3>4. turn[last + 1] % 2 # 1
      BY <1>1, <3>1, <3>3
    <3>5. QED
      BY <1>1, <3>1, <3>4
  <2>3. Mask[last] = 1
    BY <1>1, <2>1
  <2>4. QED
    BY <2>1, <2>2, <2>3 DEF SegmentEnds, n
<1>7. ASSUME NEW i \in SegmentStarts, turn[i] = t PROVE i = first
  <2>1. i \in 1..n /\ (i = 1 \/ Mask[i - 1] = 0)
    BY DEF SegmentStarts, n
  <2>2. i \in first..last
    BY <1>2, <1>7, <2>1
  <2>3. ASSUME i # first PROVE FALSE
    <3>1. i # 1 /\ i - 1 \in first..last /\ i - 1 \in 1..n
      BY <1>1, <1>2, <2>1, <2>2, <2>3
    <3>2. turn[i - 1] = t
      BY <1>2, <3>1
    <3>3. Mask[i - 1] = 1
      BY <1>1, <3>1, <3>2
    <3>4. QED
      BY <2>1, <3>1, <3>3
  <2>4. QED
    BY <2>3
<1>8. ASSUME NEW i \in SegmentEnds, turn[i] = t PROVE i = last
  <2>1. i \in 1..n /\ (i = n \/ Mask[i + 1] = 0)
    BY DEF SegmentEnds, n
  <2>2. i \in first..last
    BY <1>2, <1>8, <2>1
  <2>3. ASSUME i # last PROVE FALSE
    <3>1. i # n /\ i + 1 \in first..last /\ i + 1 \in 1..n
      BY <1>1, <1>2, <2>1, <2>2, <2>3
    <3>2. turn[i + 1] = t
      BY <1>2, <3>1
    <3>3. Mask[i + 1] = 1
      BY <1>1, <3>1, <3>2
    <3>4. QED
      BY <2>1, <3>1, <3>3
  <2>4. QED
    BY <2>3
<1>9. /\ \A i \in SegmentStarts : i \in 1..n
      /\ \A i \in SegmentEnds : i \in 1..n
  BY DEF SegmentStarts, SegmentEnds, n
<1>10. QED
  BY <1>4, <1>5, <1>6, <1>7, <1>8, <1>9

\* They are found.
LEMMA TurnsFound ==
  ASSUME InTurns(row)
  PROVE  \E n, F, L : TurnsAt(n, F, L)
<1>1. PICK n \in Nat :
        /\ \A k \in 1..n : \E i \in 1..Len(row) : row[i].turn = 2 * k - 1
        /\ \A i \in 1..Len(row) : row[i].turn % 2 = 1 =>
             \E k \in 1..n : row[i].turn = 2 * k - 1
  BY OddTurns
<1> DEFINE First(k) == CHOOSE first : \E last : IsTurn(row, 2 * k - 1, first, last)
           End(k) == CHOOSE last : IsTurn(row, 2 * k - 1, First(k), last)
           F == [k \in 1..n |-> First(k)]
           L == [k \in 1..n |-> End(k)]
<1>2. ASSUME NEW k \in 1..n PROVE IsTurn(row, 2 * k - 1, First(k), End(k))
  <2>1. PICK i \in 1..Len(row) : row[i].turn = 2 * k - 1
    BY <1>1
  <2>2. 2 * k - 1 \in Nat /\ 2 * k - 1 # 0
    OBVIOUS
  <2>3. \E first, last : IsTurn(row, 2 * k - 1, first, last)
    BY <2>1, <2>2, TurnExists
  <2>4. \E last : IsTurn(row, 2 * k - 1, First(k), last)
    BY <2>3
  <2>5. QED
    BY <2>4
<1>3. \A k \in 1..n : IsTurn(row, 2 * k - 1, F[k], L[k])
  BY <1>2
<1> HIDE DEF F, L
<1>4. Len(row) \in Nat /\ \A i \in 1..Len(row) : row[i].turn \in Nat
  BY TokenHas DEF InTurns
<1>5. ASSUME NEW k \in 1..n
      PROVE  /\ F[k] \in 1..Len(row) /\ L[k] \in 1..Len(row) /\ F[k] <= L[k]
             /\ row[F[k]].turn = 2 * k - 1 /\ row[L[k]].turn = 2 * k - 1
  <2>1. F[k] \in 1..Len(row) /\ L[k] \in F[k]..Len(row)
    BY <1>3 DEF IsTurn
  <2>2. L[k] \in 1..Len(row) /\ F[k] \in F[k]..L[k] /\ L[k] \in F[k]..L[k] /\ F[k] <= L[k]
    BY <1>4, <2>1
  <2>3. QED
    BY <1>3, <2>1, <2>2 DEF IsTurn
<1>6. ASSUME NEW i \in 1..Len(row), NEW j \in 1..Len(row), NEW k \in 1..n, NEW l \in 1..n,
             row[i].turn = 2 * k - 1, row[j].turn = 2 * l - 1, k < l
      PROVE  i < j
  <2>1. ASSUME j <= i PROVE FALSE
    <3>1. i \in j..Len(row) /\ row[i].turn # 0
      BY <1>4, <1>6, <2>1
    <3>2. row[j].turn <= row[i].turn
      BY <3>1, TurnsAscend
    <3>3. QED
      BY <1>6, <3>2
  <2>2. QED
    BY <1>4, <2>1
<1>7. \A i \in SegmentStarts \cup SegmentEnds :
        i \in 1..Len(row) /\ \E k \in 1..n : row[i].turn = 2 * k - 1
  <2>1. \A i \in SegmentStarts \cup SegmentEnds : i \in 1..Len(row) /\ Mask[i] = 1
    BY DEF SegmentStarts, SegmentEnds
  <2>2. \A i \in SegmentStarts \cup SegmentEnds : row[i].turn % 2 = 1
    BY <2>1, MaskIs
  <2>3. QED
    BY <1>1, <2>1, <2>2
<1>8. ASSUME NEW k \in 1..n
      PROVE  /\ F[k] \in SegmentStarts /\ L[k] \in SegmentEnds
             /\ \A i \in SegmentStarts : row[i].turn = 2 * k - 1 => i = F[k]
             /\ \A i \in SegmentEnds : row[i].turn = 2 * k - 1 => i = L[k]
  <2> DEFINE t == 2 * k - 1
  <2>1. t \in Nat /\ t % 2 = 1 /\ IsTurn(row, t, F[k], L[k])
    BY <1>3
  <2> HIDE DEF t
  <2>2. /\ F[k] \in SegmentStarts /\ L[k] \in SegmentEnds
        /\ \A i \in SegmentStarts : row[i].turn = t => i = F[k]
        /\ \A i \in SegmentEnds : row[i].turn = t => i = L[k]
    BY <2>1, TurnEdges
  <2>3. QED
    BY <2>2 DEF t
<1>9. Lists(F, n, SegmentStarts)
  <2>1. F \in [1..n -> Nat]
    <3>1. \A k \in 1..n : F[k] \in Nat
      BY <1>4, <1>5
    <3>2. QED
      BY <3>1 DEF F
  <2>2. \A k \in 1..n : F[k] \in SegmentStarts
    BY <1>8
  <2>3. \A i \in SegmentStarts : \E k \in 1..n : i = F[k]
    <3>1. ASSUME NEW i \in SegmentStarts PROVE \E k \in 1..n : i = F[k]
      <4>1. PICK k \in 1..n : row[i].turn = 2 * k - 1
        BY <1>7
      <4>2. i = F[k]
        BY <1>8, <4>1
      <4>3. QED
        BY <4>2
    <3>2. QED
      BY <3>1
  <2>4. SegmentStarts = {F[k] : k \in 1..n}
    BY <2>2, <2>3
  <2>5. \A k, l \in 1..n : k < l => F[k] < F[l]
    BY <1>5, <1>6
  <2>6. QED
    BY <2>1, <2>4, <2>5 DEF Lists
<1>10. Lists(L, n, SegmentEnds)
  <2>1. L \in [1..n -> Nat]
    <3>1. \A k \in 1..n : L[k] \in Nat
      BY <1>4, <1>5
    <3>2. QED
      BY <3>1 DEF L
  <2>2. \A k \in 1..n : L[k] \in SegmentEnds
    BY <1>8
  <2>3. \A i \in SegmentEnds : \E k \in 1..n : i = L[k]
    <3>1. ASSUME NEW i \in SegmentEnds PROVE \E k \in 1..n : i = L[k]
      <4>1. PICK k \in 1..n : row[i].turn = 2 * k - 1
        BY <1>7
      <4>2. i = L[k]
        BY <1>8, <4>1
      <4>3. QED
        BY <4>2
    <3>2. QED
      BY <3>1
  <2>4. SegmentEnds = {L[k] : k \in 1..n}
    BY <2>2, <2>3
  <2>5. \A k, l \in 1..n : k < l => L[k] < L[l]
    BY <1>5, <1>6
  <2>6. QED
    BY <2>1, <2>4, <2>5 DEF Lists
<1>11. {row[i].turn : i \in {j \in 1..Len(row) : ByModel(row[j])}} = {2 * k - 1 : k \in 1..n}
  <2>1. \A i \in 1..Len(row) : ByModel(row[i]) => \E k \in 1..n : row[i].turn = 2 * k - 1
    BY <1>1, MaskIs
  <2>2. \A k \in 1..n : /\ F[k] \in 1..Len(row) /\ ByModel(row[F[k]])
                        /\ row[F[k]].turn = 2 * k - 1
    <3>1. \A k \in 1..n : (2 * k - 1) % 2 = 1
      OBVIOUS
    <3>2. QED
      BY <1>5, <3>1, MaskIs
  <2> DEFINE Q == {2 * k - 1 : k \in 1..n}
             B == {j \in 1..Len(row) : ByModel(row[j])}
  <2>3. ASSUME NEW i \in B PROVE row[i].turn \in Q
    BY <2>1
  <2>4. ASSUME NEW t \in Q PROVE \E i \in B : row[i].turn = t
    <3>1. PICK k \in 1..n : t = 2 * k - 1
      OBVIOUS
    <3>2. F[k] \in B /\ row[F[k]].turn = t
      BY <2>2, <3>1
    <3>3. QED
      BY <3>2
  <2> HIDE DEF Q, B
  <2>5. {row[i].turn : i \in B} = Q
    BY <2>3, <2>4
  <2>6. QED
    BY <2>5 DEF Q, B
<1>12. TurnsAt(n, F, L)
  BY <1>3, <1>9, <1>10, <1>11 DEF TurnsAt
<1>13. QED
  BY <1>12
---------------------------------------------------------------------------
\* The turns that are found

\* The k-th segment is the model's k-th turn.
LEMMA SegmentsAre ==
  ASSUME InTurns(row), NEW n, NEW F, NEW L, TurnsAt(n, F, L)
  PROVE  /\ Len(Segments) = n
         /\ \A k \in 1..n : /\ Segments[k] = SubSeq(row, F[k], L[k])
                            /\ Segments[k] \in Seq(Tokens)
<1>1. /\ n \in Nat /\ Cardinality(SegmentEnds) = n
      /\ \A k \in 1..n : Nth(SegmentStarts, k) = F[k] /\ Nth(SegmentEnds, k) = L[k]
  BY NthIs DEF TurnsAt
<1>2. /\ Len(Segments) = n
      /\ \A k \in 1..n : Segments[k] = SubSeq(row, F[k], L[k])
  <2>1. Segments = [k \in 1..n |-> SubSeq(row, Nth(SegmentStarts, k), Nth(SegmentEnds, k))]
    BY <1>1 DEF Segments
  <2>2. \A k \in 1..n : Segments[k] = SubSeq(row, F[k], L[k])
    BY <1>1, <2>1
  <2> DEFINE seg(k) == SubSeq(row, Nth(SegmentStarts, k), Nth(SegmentEnds, k))
  <2>3. Len([k \in 1..n |-> seg(k)]) = n
    <3> HIDE DEF seg
    <3>1. QED
      BY <1>1
  <2>4. QED
    BY <2>1, <2>2, <2>3
<1>3. ASSUME NEW k \in 1..n PROVE Segments[k] \in Seq(Tokens)
  <2>1. F[k] \in 1..Len(row) /\ L[k] \in F[k]..Len(row)
    BY DEF TurnsAt, IsTurn
  <2>2. row \in Seq(Tokens) /\ Len(row) \in Nat
    BY DEF InTurns
  <2> DEFINE a == F[k]
             b == L[k]
  <2> HIDE DEF a, b
  <2>3. \A i \in a..b : row[i] \in Tokens
    BY <2>1, <2>2 DEF a, b
  <2>4. SubSeq(row, a, b) \in Seq(Tokens)
    BY <2>1, <2>2, <2>3, SubSeqIs DEF a, b
  <2>5. QED
    BY <1>2, <2>4 DEF a, b
<1>4. QED
  BY <1>2, <1>3

\* The scored responses of a row that holds turns are the turns.
LEMMA TurnsAreFound ==
  ASSUME InTurns(row)
  PROVE  ResponsesAreTurns
<1>1. PICK n, F, L : TurnsAt(n, F, L)
  BY TurnsFound
<1>2. /\ Len(Segments) = n
      /\ \A k \in 1..n : Segments[k] = SubSeq(row, F[k], L[k])
  BY <1>1, SegmentsAre
<1> DEFINE turns == {row[i].turn : i \in {j \in 1..Len(row) : ByModel(row[j])}}
<1>3. Cardinality(turns) = n
  <2> DEFINE g == [k \in 1..n |-> 2 * k - 1]
  <2>1. n \in Nat /\ g \in [1..n -> Nat]
    <3>1. n \in Nat /\ \A k \in 1..n : 2 * k - 1 \in Nat
      BY <1>1 DEF TurnsAt
    <3>2. QED
      BY <3>1
  <2>2. turns = {g[k] : k \in 1..n}
    <3>1. turns = {2 * k - 1 : k \in 1..n}
      BY <1>1 DEF TurnsAt
    <3>2. QED
      BY <3>1
  <2>3. \A k, l \in 1..n : k < l => g[k] < g[l]
    BY <2>1
  <2> HIDE DEF turns, g
  <2>4. Lists(g, n, turns)
    BY <2>1, <2>2, <2>3 DEF Lists
  <2>5. QED
    BY <2>1, <2>4, NthIs
<1>4. ASSUME NEW k \in 1..n
      PROVE  LET turn == {i \in 1..Len(row) : row[i].turn = 2 * k - 1}
             IN  Segments[k] = [c \in 1..Cardinality(turn) |-> row[Nth(turn, c)]]
  <2> DEFINE turn == {i \in 1..Len(row) : row[i].turn = 2 * k - 1}
             a == F[k]
             b == L[k]
             m == b - a + 1
             g == [c \in 1..m |-> a + c - 1]
  <2>1. /\ a \in 1..Len(row) /\ b \in a..Len(row) /\ Len(row) \in Nat
        /\ turn = a..b
    <3>1. /\ a \in 1..Len(row) /\ b \in a..Len(row)
          /\ \A i \in 1..Len(row) : row[i].turn = 2 * k - 1 <=> i \in a..b
      BY <1>1 DEF TurnsAt, IsTurn
    <3>2. Len(row) \in Nat
      BY DEF InTurns
    <3> HIDE DEF a, b
    <3>3. a..b \subseteq 1..Len(row)
      BY <3>1, <3>2
    <3>4. QED
      BY <3>1, <3>2, <3>3
  <2>2. row \in Seq(Tokens)
    BY DEF InTurns
  <2> HIDE DEF turn, a, b
  <2>3. Lists(g, m, turn) /\ m \in Nat
    <3>1. m \in Nat /\ g \in [1..m -> Nat]
      BY <2>1
    <3>2. turn = {g[c] : c \in 1..m}
      <4>1. ASSUME NEW i \in a..b PROVE \E c \in 1..m : g[c] = i
        <5>1. i - a + 1 \in 1..m /\ a + (i - a + 1) - 1 = i
          BY <2>1
        <5>2. QED
          BY <5>1
      <4>2. ASSUME NEW c \in 1..m PROVE g[c] \in a..b
        BY <2>1
      <4>3. QED
        BY <2>1, <4>1, <4>2
    <3>3. \A c, d \in 1..m : c < d => g[c] < g[d]
      BY <2>1
    <3> HIDE DEF m, g
    <3>4. QED
      BY <3>1, <3>2, <3>3 DEF Lists
  <2>4. Cardinality(turn) = m /\ \A c \in 1..m : Nth(turn, c) = a + c - 1
    <3>1. Cardinality(turn) = m /\ \A c \in 1..m : Nth(turn, c) = g[c]
      <4> HIDE DEF m, g
      <4> QED
        BY <2>3, NthIs
    <3>2. QED
      BY <3>1
  <2>5. /\ SubSeq(row, a, b) \in Seq(Tokens) /\ Len(SubSeq(row, a, b)) = m
        /\ \A c \in 1..m : SubSeq(row, a, b)[c] = row[a + c - 1]
    BY <2>1, <2>2, SubSeqIs
  <2> DEFINE s == SubSeq(row, a, b)
             r == [c \in 1..Cardinality(turn) |-> row[Nth(turn, c)]]
  <2>6. \A c \in 1..m : s[c] = r[c]
    BY <2>4, <2>5
  <2>7. DOMAIN s = 1..m /\ s = [c \in DOMAIN s |-> s[c]]
    <3> HIDE DEF s, m
    <3> QED
      BY <2>5 DEF s
  <2>8. s = r
    <3> HIDE DEF s, m
    <3> QED
      BY <2>4, <2>6, <2>7
  <2>9. Segments[k] = s
    BY <1>2 DEF a, b
  <2>10. QED
    BY <2>8, <2>9 DEF turn
<1>5. QED
  BY <1>2, <1>3, <1>4 DEF ResponsesAreTurns

---------------------------------------------------------------------------
\* Rows hold turns

\* x holds the turns up to m, and no padding.
UpTo(x, m) ==
  /\ x \in Seq(Tokens) /\ Len(x) # 0
  /\ x[1].turn = 1 /\ x[Len(x)].turn = m
  /\ \A i \in 1..Len(x) : x[i].turn \in 1..m
  /\ \A i \in 1..(Len(x) - 1) : Follows(x[i].turn, x[i + 1].turn)

\* A turn as it is written.
LEMMA WrittenIs ==
  ASSUME NEW ids \in Seq(Ids), ids # <<>>, NEW m \in Nat
  PROVE  /\ Written(ids, m) \in Seq(Tokens) /\ Len(Written(ids, m)) = Len(ids)
         /\ Len(ids) \in Nat \ {0}
         /\ \A i \in 1..Len(ids) : Written(ids, m)[i].turn = m
<1>1. Len(ids) \in Nat \ {0} /\ \A i \in 1..Len(ids) : ids[i] \in Ids
  OBVIOUS
<1>2. \A i \in 1..Len(ids) : [id |-> ids[i], turn |-> m] \in Tokens
  BY <1>1 DEF Tokens
<1>3. Written(ids, m) \in Seq(Tokens) /\ Len(Written(ids, m)) = Len(ids)
  BY <1>1, <1>2 DEF Written
<1>4. \A i \in 1..Len(ids) : Written(ids, m)[i].turn = m
  BY DEF Written
<1>5. QED
  BY <1>1, <1>3, <1>4

\* The next turn.
LEMMA UpToNext ==
  ASSUME NEW x, NEW m \in Nat, UpTo(x, m), NEW y \in Seq(Tokens), Len(y) # 0,
         \A i \in 1..Len(y) : y[i].turn = m + 1,
         NEW z \in Seq(Tokens), IsConcat(z, x, y)
  PROVE  UpTo(z, m + 1)
<1> DEFINE a == Len(x)
           b == Len(y)
<1>1. /\ a \in Nat \ {0} /\ b \in Nat \ {0} /\ Len(z) = a + b
  BY DEF UpTo, IsConcat
<1>2. /\ \A i \in 1..a : z[i] = x[i]
      /\ \A i \in 1..b : z[a + i] = y[i]
  BY DEF IsConcat
<1> HIDE DEF a, b
<1>3. ASSUME NEW i \in 1..(a + b), ~(i \in 1..a)
      PROVE  i - a \in 1..b /\ z[i] = y[i - a] /\ z[i].turn = m + 1
  <2>1. i - a \in 1..b /\ a + (i - a) = i
    BY <1>1, <1>3
  <2>2. z[a + (i - a)] = y[i - a]
    BY <1>2, <2>1
  <2>3. QED
    BY <2>1, <2>2 DEF b
<1>4. \A i \in 1..a : z[i].turn = x[i].turn /\ z[i].turn \in 1..m
  BY <1>2 DEF UpTo, a
<1>5. 1 \in 1..a /\ a \in 1..a /\ z[1].turn = 1 /\ z[a].turn = m
  BY <1>1, <1>2 DEF UpTo, a
<1>6. z[a + b].turn = m + 1
  BY <1>1, <1>3
<1>7. \A i \in 1..(a + b) : z[i].turn \in 1..(m + 1)
  BY <1>3, <1>4
<1>8. ASSUME NEW i \in 1..((a + b) - 1) PROVE Follows(z[i].turn, z[i + 1].turn)
  <2>1. CASE i + 1 \in 1..a
    <3>1. i \in 1..(a - 1) /\ i \in 1..a
      BY <1>1, <2>1
    <3>2. Follows(x[i].turn, x[i + 1].turn)
      BY <3>1 DEF UpTo, a
    <3>3. QED
      BY <1>2, <2>1, <3>1, <3>2
  <2>2. CASE i = a
    <3>1. a + 1 \in 1..(a + b) /\ ~(a + 1 \in 1..a)
      BY <1>1
    <3>2. z[a + 1].turn = m + 1
      BY <1>3, <3>1
    <3>3. m # 0
      BY <1>4, <1>5
    <3>4. QED
      BY <1>5, <2>2, <3>2, <3>3 DEF Follows
  <2>3. CASE ~(i + 1 \in 1..a) /\ i # a
    <3>1. /\ i \in 1..(a + b) /\ ~(i \in 1..a)
          /\ i + 1 \in 1..(a + b)
      BY <1>1, <2>3
    <3>2. z[i].turn = m + 1 /\ z[i + 1].turn = m + 1
      BY <1>3, <2>3, <3>1
    <3>3. QED
      BY <3>2 DEF Follows
  <2>4. QED
    BY <2>1, <2>2, <2>3
<1>9. QED
  BY <1>1, <1>5, <1>6, <1>7, <1>8 DEF UpTo

\* Turns written one after the other.
LEMMA WrittenTurns ==
  ASSUME NEW d \in Seq(Seq(Ids) \ {<<>>}), Len(d) # 0
  PROVE  UpTo(FlattenSeq([i \in 1..Len(d) |-> Written(d[i], i)]), Len(d))
<1> DEFINE n == Len(d)
           s == [i \in 1..n |-> Written(d[i], i)]
           T == {k \in Nat : k \in 1..n => UpTo(Flat(s)[k], k)}
<1>1. n \in Nat \ {0} /\ \A i \in 1..n : d[i] \in Seq(Ids) /\ d[i] # <<>>
  OBVIOUS
<1>2. ASSUME NEW i \in 1..n
      PROVE  /\ s[i] \in Seq(Tokens) /\ Len(s[i]) \in Nat \ {0}
             /\ \A k \in 1..Len(s[i]) : s[i][k].turn = i
  <2>1. /\ Written(d[i], i) \in Seq(Tokens) /\ Len(Written(d[i], i)) = Len(d[i])
        /\ Len(d[i]) \in Nat \ {0}
        /\ \A k \in 1..Len(d[i]) : Written(d[i], i)[k].turn = i
    BY <1>1, WrittenIs
  <2>2. s[i] = Written(d[i], i)
    OBVIOUS
  <2>3. QED
    BY <2>1, <2>2
<1>3. Len(s) = n /\ s \in Seq(Seq(Tokens))
  BY <1>1, <1>2
<1> HIDE DEF s
<1>4. \A i \in 1..n : /\ Flat(s)[i] \in Seq(Tokens)
                      /\ Flat(s)[i] = IF i = 1 THEN s[i] ELSE Flat(s)[i - 1] \o s[i]
  BY <1>3, FlatSteps
<1>5. 0 \in T
  OBVIOUS
<1>6. ASSUME NEW k \in Nat, k \in T PROVE k + 1 \in T
  <2>1. CASE k + 1 \in 1..n /\ k = 0
    <3>1. Flat(s)[1] = s[1] /\ 1 \in 1..n
      BY <1>4, <2>1
    <3>2. UpTo(s[1], 1)
      <4> DEFINE x == s[1]
      <4>1. /\ x \in Seq(Tokens) /\ Len(x) \in Nat \ {0}
            /\ \A i \in 1..Len(x) : x[i].turn = 1
        BY <1>2, <3>1
      <4> HIDE DEF x
      <4>2. /\ \A i \in 1..(Len(x) - 1) : x[i].turn = 1 /\ x[i + 1].turn = 1
            /\ x[1].turn = 1 /\ x[Len(x)].turn = 1 /\ 1 \in 1..1
        <5> DEFINE k1 == Len(x)
        <5>1. k1 \in Nat \ {0} /\ \A i \in 1..k1 : x[i].turn = 1
          BY <4>1
        <5> HIDE DEF k1
        <5>2. /\ \A i \in 1..(k1 - 1) : i \in 1..k1 /\ i + 1 \in 1..k1
              /\ 1 \in 1..k1 /\ k1 \in 1..k1 /\ 1 \in 1..1
          BY <5>1
        <5>3. \A i \in 1..(k1 - 1) : x[i].turn = 1 /\ x[i + 1].turn = 1
          BY <5>1, <5>2
        <5>4. x[1].turn = 1 /\ x[k1].turn = 1
          BY <5>1, <5>2
        <5>5. QED
          BY <5>2, <5>3, <5>4 DEF k1
      <4>3. QED
        BY <4>1, <4>2 DEF UpTo, Follows, x
    <3>3. QED
      BY <2>1, <3>1, <3>2
  <2>2. CASE k + 1 \in 1..n /\ k # 0
    <3>1. k \in 1..n /\ (k + 1) - 1 = k /\ k + 1 # 1
      BY <2>2
    <3> DEFINE x == Flat(s)[k]
               y == s[k + 1]
               z == Flat(s)[k + 1]
    <3>2. UpTo(x, k) /\ x \in Seq(Tokens) /\ z \in Seq(Tokens)
      BY <1>4, <1>6, <2>2, <3>1
    <3>3. z = x \o y
      BY <1>4, <2>2, <3>1
    <3>4. /\ y \in Seq(Tokens) /\ Len(y) # 0
          /\ \A i \in 1..Len(y) : y[i].turn = k + 1
      BY <1>2, <2>2
    <3> HIDE DEF x, y, z
    <3>5. IsConcat(z, x, y)
      BY <3>2, <3>3, <3>4 DEF IsConcat
    <3>6. UpTo(z, k + 1)
      BY <3>2, <3>4, <3>5, UpToNext
    <3>7. QED
      BY <3>6 DEF z
  <2>3. CASE ~(k + 1 \in 1..n)
    BY <2>3
  <2>4. QED
    BY <2>1, <2>2, <2>3
<1> HIDE DEF T
<1>7. n \in T /\ n \in 1..n
  <2>1. Nat \subseteq T
    BY <1>5, <1>6, NatAll
  <2>2. n \in Nat /\ n \in 1..n
    BY <1>1
  <2>3. QED
    BY <2>1, <2>2
<1>8. UpTo(Flat(s)[n], n)
  BY <1>7 DEF T
<1>9. FlattenSeq(s) = Flat(s)[n]
  BY <1>1, <1>3, FlattenIsFlat
<1>10. QED
  BY <1>8, <1>9 DEF s

\* Pieces put together are a sequence again.
LEMMA FlattenIn ==
  ASSUME NEW A, NEW s \in Seq(Seq(A))
  PROVE  FlattenSeq(s) \in Seq(A)
<1>1. CASE Len(s) = 0
  <2>1. s = <<>> /\ <<>> \in Seq(A)
    BY <1>1
  <2>2. FlattenSeq(s) = s
    BY <1>1, FlattenIsFlat
  <2>3. QED
    BY <2>1, <2>2
<1>2. CASE Len(s) # 0
  <2>1. Len(s) \in 1..Len(s)
    BY <1>2
  <2>2. Flat(s)[Len(s)] \in Seq(A)
    BY <2>1, FlatSteps
  <2>3. QED
    BY <1>2, <2>2, FlattenIsFlat
<1>3. QED
  BY <1>1, <1>2

\* A dialogue holds turns.
LEMMA DialogueHolds ==
  ASSUME NEW x \in Dialogues
  PROVE  \E m \in Nat : UpTo(x, m)
<1> DEFINE A == Seq(Ids) \ {<<>>}
           Said(d) == FlattenSeq([i \in 1..Len(d) |-> Written(d[i], i)])
           Joined(rounds, last) == FlattenSeq(rounds) \o <<last>>
           Rounds(n) == [1..n -> Searches \X ToolTurns]
           Of(n) == {Joined(rounds, last) : rounds \in Rounds(n), last \in LastTurns}
           All == UNION {Of(n) : n \in 0..(MaxRounds - 1)}
<1>1. Dialogues = {Said(d) : d \in All}
  BY DEF Dialogues
<1> HIDE DEF Said, All
<1>2. PICK d \in All : x = Said(d)
  BY <1>1
<1> HIDE DEF Of
<1>3. PICK n \in 0..(MaxRounds - 1) : d \in Of(n)
  BY DEF All
<1>4. PICK rounds \in [1..n -> Searches \X ToolTurns], last \in LastTurns :
        d = FlattenSeq(rounds) \o <<last>>
  <2> HIDE DEF Joined, Rounds
  <2>1. \E rounds \in Rounds(n), last \in LastTurns : d = Joined(rounds, last)
    BY <1>3 DEF Of
  <2>2. QED
    BY <2>1 DEF Joined, Rounds
<1>5. Searches \subseteq A /\ ToolTurns \subseteq A /\ LastTurns \subseteq A
  <2>1. Seq(Ids \ {"pad"}) \subseteq Seq(Ids)
    <3> HIDE DEF A
    <3> DEFINE I == Ids
               J == I \ {"pad"}
    <3> HIDE DEF I
    <3>1. Seq(J) \subseteq Seq(I)
      OBVIOUS
    <3>2. QED
      BY <3>1 DEF I
  <2>2. QED
    BY <2>1, RewardAssumption
<1> HIDE DEF A
<1>6. FlattenSeq(rounds) \in Seq(A)
  <2>1. \A i \in 1..n : rounds[i] \in Seq(A)
    <3>1. ASSUME NEW i \in 1..n PROVE rounds[i] \in Seq(A)
      <4>1. PICK s \in Searches, t \in ToolTurns : rounds[i] = <<s, t>>
        OBVIOUS
      <4>2. s \in A /\ t \in A
        BY <1>5
      <4>3. <<s, t>> \in Seq(A)
        BY <4>2
      <4>4. QED
        BY <4>1, <4>3
    <3>2. QED
      BY <3>1
  <2>2. n \in Nat /\ rounds \in [1..n -> Seq(A)]
    BY <2>1
  <2>3. rounds \in Seq(Seq(A))
    <3> DEFINE B == Seq(A)
    <3>1. n \in Nat /\ rounds \in [1..n -> B]
      BY <2>2
    <3> HIDE DEF B
    <3>2. rounds \in Seq(B)
      BY <3>1
    <3>3. QED
      BY <3>2 DEF B
  <2>4. QED
    BY <2>3, FlattenIn
<1>7. d \in Seq(A) /\ Len(d) \in Nat /\ Len(d) # 0
  <2> DEFINE e == FlattenSeq(rounds)
  <2>1. e \in Seq(A) /\ last \in A /\ d = e \o <<last>>
    BY <1>4, <1>5, <1>6
  <2> HIDE DEF e
  <2>2. QED
    BY <2>1
<1>8. UpTo(Said(d), Len(d))
  <2>1. d \in Seq(Seq(Ids) \ {<<>>}) /\ Len(d) # 0
    BY <1>7 DEF A
  <2>2. QED
    BY <2>1, WrittenTurns DEF Said
<1>9. QED
  BY <1>2, <1>7, <1>8

\* So does a row of a batch.
LEMMA RowHolds ==
  ASSUME NEW r \in Rows
  PROVE  InTurns(r)
<1> DEFINE Padding == [id |-> "pad", turn |-> 0]
<1>1. PICK x \in Dialogues, w \in ResponseLengthTotals : r = Fit(x, w)
  BY DEF Rows
<1>2. PICK m \in Nat : UpTo(x, m)
  BY DialogueHolds
<1>3. w \in Nat \ {0}
  BY RewardAssumption
<1> DEFINE n == Len(x)
<1>4. x \in Seq(Tokens) /\ n \in Nat \ {0}
  BY <1>2 DEF UpTo
<1>5. Padding \in Tokens /\ Padding.turn = 0
  BY DEF Tokens, Ids
<1>6. r = [i \in 1..w |-> IF i <= n THEN x[i] ELSE Padding]
  BY <1>1 DEF Fit
<1> HIDE DEF Padding, n
<1>7. \A i \in 1..n : x[i] \in Tokens
  BY <1>4 DEF n
<1>8. \A i \in 1..w : r[i] = (IF i <= n THEN x[i] ELSE Padding) /\ r[i] \in Tokens
  BY <1>3, <1>4, <1>5, <1>6, <1>7
<1>9. r \in Seq(Tokens) /\ Len(r) = w
  <2>1. r \in [1..w -> Tokens]
    BY <1>6, <1>8
  <2>2. QED
    BY <1>3, <2>1
<1>10. r[1].turn = 1
  <2>1. 1 \in 1..w /\ 1 <= n
    BY <1>3, <1>4
  <2>2. r[1] = x[1]
    BY <1>8, <2>1
  <2>3. QED
    BY <1>2, <2>2 DEF UpTo
<1>11. ASSUME NEW i \in 1..(w - 1) PROVE Follows(r[i].turn, r[i + 1].turn)
  <2>1. i \in 1..w /\ i + 1 \in 1..w
    BY <1>3
  <2>2. CASE i + 1 <= n
    <3>1. i \in 1..(n - 1) /\ i <= n
      BY <1>3, <1>4, <2>2
    <3>2. Follows(x[i].turn, x[i + 1].turn)
      BY <1>2, <3>1 DEF UpTo, n
    <3>3. r[i] = x[i] /\ r[i + 1] = x[i + 1]
      BY <1>8, <2>1, <2>2, <3>1
    <3>4. QED
      BY <3>2, <3>3
  <2>3. CASE ~(i + 1 <= n)
    <3>1. r[i + 1] = Padding
      BY <1>8, <2>1, <2>3
    <3>2. QED
      BY <1>5, <3>1 DEF Follows
  <2>4. QED
    BY <2>2, <2>3
<1>12. QED
  BY <1>9, <1>10, <1>11 DEF InTurns

\* The empty row behind a batch holds none.
LEMMA NoRowHolds == InTurns(<<>>)
<1>1. <<>> \in Seq(Tokens) /\ Len(<<>>) = 0
  OBVIOUS
<1>2. QED
  BY <1>1 DEF InTurns
---------------------------------------------------------------------------
\* What is scored

\* What is kept of a sequence is a sequence again.
LEMMA KeepTyped ==
  ASSUME NEW A, NEW s \in Seq(A), NEW S
  PROVE  Keep(s, S) \in Seq(A)
<1>1. PICK q : IsKept(q, s, S, A) /\ q[Len(s)] = Keep(s, S)
  BY KeepRuns
<1>2. Len(s) \in 0..Len(s)
  OBVIOUS
<1>3. QED
  BY <1>1, <1>2 DEF IsKept

\* The ids of tokens, position by position.
LEMMA IdsAre ==
  ASSUME NEW x \in Seq(Tokens)
  PROVE  /\ IdsOf(x) \in Seq(Ids) /\ Len(IdsOf(x)) = Len(x)
         /\ \A i \in 1..Len(x) : IdsOf(x)[i] = x[i].id
<1>1. Len(x) \in Nat /\ \A i \in 1..Len(x) : x[i].id \in Ids
  BY TokenHas
<1>2. IdsOf(x) \in Seq(Ids) /\ Len(IdsOf(x)) = Len(x)
  <2> DEFINE I == Ids
  <2> HIDE DEF I
  <2>1. IdsOf(x) = [i \in 1..Len(x) |-> x[i].id]
    BY DEF IdsOf
  <2>2. IdsOf(x) \in [1..Len(x) -> I]
    BY <1>1, <2>1 DEF I
  <2>3. IdsOf(x) \in Seq(I) /\ Len(IdsOf(x)) = Len(x)
    BY <1>1, <2>2
  <2>4. QED
    BY <2>3 DEF I
<1>3. QED
  BY <1>2 DEF IdsOf

\* The responses are sequences of ids, one for each turn.
LEMMA ResponsesTyped ==
  ASSUME InTurns(row)
  PROVE  /\ Len(Segments) \in Nat /\ Len(Responses) = Len(Segments)
         /\ Responses \in Seq(Seq(Ids))
         /\ \A k \in 1..Len(Segments) :
              Responses[k] = Keep(IdsOf(Segments[k]), Ids \ {"im_end", "pad"})
<1>1. PICK n, F, L : TurnsAt(n, F, L)
  BY TurnsFound
<1>2. n \in Nat /\ Len(Segments) = n /\ \A k \in 1..n : Segments[k] \in Seq(Tokens)
  BY <1>1, SegmentsAre DEF TurnsAt
<1> DEFINE I == Ids
           R(k) == Keep(IdsOf(Segments[k]), Ids \ {"im_end", "pad"})
<1>3. Responses = [k \in 1..n |-> R(k)]
  BY <1>2 DEF Responses
<1>4. \A k \in 1..n : R(k) \in Seq(Ids)
  BY <1>2, IdsAre, KeepTyped
<1> HIDE DEF R
<1>5. Responses \in Seq(Seq(Ids)) /\ Len(Responses) = n
  <2> DEFINE B == Seq(Ids)
  <2> HIDE DEF B
  <2>1. Responses \in [1..n -> B]
    BY <1>3, <1>4 DEF B
  <2>2. Responses \in Seq(B) /\ Len(Responses) = n
    BY <1>2, <2>1
  <2>3. QED
    BY <2>2 DEF B
<1>6. \A k \in 1..n : Responses[k] = R(k)
  BY <1>3
<1>7. QED
  BY <1>2, <1>5, <1>6 DEF R

\* As many valid ids as the mask has ones.
LEMMA ValidTyped ==
  ASSUME InTurns(row)
  PROVE  /\ ValidLength \in 0..Len(row)
         /\ ValidIds \in Seq(Ids) /\ Len(ValidIds) = ValidLength
         /\ \A i \in 1..ValidLength : ValidIds[i] = row[i].id
<1>1. row \in Seq(Tokens) /\ Len(row) \in Nat
  BY DEF InTurns
<1>2. ValidLength \in Nat /\ ValidLength <= Len(row)
  <2> DEFINE V == {i \in 1..Len(row) : \E j \in i..Len(row) : row[j].id = "im_end"}
  <2>1. V \subseteq 1..Len(row)
    OBVIOUS
  <2> HIDE DEF V
  <2>2. IsFiniteSet(1..Len(row)) /\ Cardinality(1..Len(row)) = Len(row)
    <3> DEFINE n == Len(row)
    <3>1. n \in Nat /\ n \in Int /\ 1 \in Int
      BY <1>1
    <3> HIDE DEF n
    <3>2. /\ IsFiniteSet(1..n)
          /\ Cardinality(1..n) = IF 1 > n THEN 0 ELSE (n - 1) + 1
      BY <3>1, FS_Interval, Zenon
    <3>3. (IF 1 > n THEN 0 ELSE (n - 1) + 1) = n
      BY <3>1
    <3>4. QED
      BY <3>2, <3>3 DEF n
  <2>3. IsFiniteSet(V) /\ Cardinality(V) <= Cardinality(1..Len(row))
    BY <2>1, <2>2, FS_Subset
  <2>4. Cardinality(V) \in Nat
    BY <2>3, FS_CardinalityType
  <2>5. ValidLength = Cardinality(V)
    BY DEF ValidLength, V
  <2>6. QED
    BY <2>2, <2>3, <2>4, <2>5
<1> DEFINE v == ValidLength
           x == SubSeq(row, 0 + 1, 0 + v)
<1>3. x \in Seq(Tokens) /\ Len(x) = v /\ \A i \in 1..v : x[i] = row[0 + i]
  <2>1. v \in Nat /\ 0 \in Nat /\ 0 + v <= Len(row)
    BY <1>2
  <2> HIDE DEF v
  <2>2. QED
    BY <1>1, <2>1, StretchIs
<1>4. ValidIds = IdsOf(x)
  BY <1>2 DEF ValidIds
<1>5. \A i \in 1..v : x[i] = row[i]
  BY <1>3
<1> HIDE DEF x
<1>6. IdsOf(x) \in Seq(Ids) /\ Len(IdsOf(x)) = v /\ \A i \in 1..v : IdsOf(x)[i] = x[i].id
  BY <1>3, IdsAre
<1>7. QED
  BY <1>2, <1>4, <1>5, <1>6

Actions == [ids : Seq(Ids), tool : Tools]

\* The search tags of a response.
LEMMA ActionsTyped ==
  ASSUME NEW x \in Seq(Ids)
  PROVE  ActionsOf(x) \in Seq(Actions)
<1> DEFINE Closes(i) == {j \in i..Len(x) : x[j] = "close"}
           starts == {i \in 1..Len(x) :
                       /\ x[i] = "open"
                       /\ Closes(i) # {}
                       /\ \A k \in 1..(i - 1) : x[k] = "open" =>
                            \E j \in k..i : x[j] = "close"}
           ToNext(i) == SubSeq(x, i, Nth(Closes(i), 1))
           c == Cardinality(starts)
<1>1. Len(x) \in Nat
  OBVIOUS
<1>2. starts \in SUBSET (1..Len(x))
  OBVIOUS
<1>3. \A i \in starts : i \in 1..Len(x) /\ Closes(i) # {}
  OBVIOUS
<1>4. ASSUME NEW i \in 1..Len(x)
      PROVE  Closes(i) \in SUBSET (1..Len(x)) /\ Closes(i) \subseteq i..Len(x)
  BY <1>1
<1>5. TextMatches(x) = [n \in 1..c |-> [ids |-> ToNext(Nth(starts, n)), tool |-> "text_search"]]
  BY DEF TextMatches
<1> HIDE DEF starts, Closes
<1>6. c \in Nat /\ \A n \in 1..c : Nth(starts, n) \in starts
  BY <1>1, <1>2, NthIn
<1>7. ASSUME NEW i \in starts PROVE ToNext(i) \in Seq(Ids)
  <2>1. i \in 1..Len(x) /\ Closes(i) # {}
    BY <1>3
  <2> DEFINE j == Nth(Closes(i), 1)
  <2>2. j \in Closes(i)
    BY <1>1, <1>4, <2>1, NthIn
  <2>3. j \in i..Len(x)
    BY <1>4, <2>1, <2>2
  <2> HIDE DEF j
  <2>4. SubSeq(x, i, j) \in Seq(Ids)
    BY <2>1, <2>3, SubSeqIs
  <2>5. QED
    BY <2>4 DEF j
<1>8. "text_search" \in Tools /\ "image_search" \in Tools
  BY DEF Tools
<1> DEFINE Act(i) == [ids |-> ToNext(i), tool |-> "text_search"]
<1> HIDE DEF ToNext, c
<1>9. \A i \in starts : Act(i) \in Actions
  BY <1>7, <1>8 DEF Actions
<1> HIDE DEF Act
<1>10. TextMatches(x) \in Seq(Actions)
  <2>1. TextMatches(x) = [n \in 1..c |-> Act(Nth(starts, n))]
    BY <1>5 DEF Act
  <2>2. TextMatches(x) \in [1..c -> Actions]
    BY <1>6, <1>9, <2>1
  <2>3. QED
    BY <1>6, <2>2
<1>11. [ids |-> <<"image_search">>, tool |-> "image_search"] \in Actions
  <2>1. <<"image_search">> \in Seq(Ids)
    <3>1. "image_search" \in Ids
      BY DEF Ids
    <3>2. QED
      BY <3>1
  <2>2. QED
    BY <1>8, <2>1 DEF Actions
<1> DEFINE image == [ids |-> <<"image_search">>, tool |-> "image_search"]
<1> HIDE DEF image
<1>12. ActionsOf(x) = TextMatches(x) \o (IF Has(x, "image_search") THEN <<image>> ELSE <<>>)
  BY DEF ActionsOf, image
<1>13. image \in Actions
  BY <1>11 DEF image
<1>14. CASE Has(x, "image_search")
  <2>1. <<image>> \in Seq(Actions) /\ ActionsOf(x) = TextMatches(x) \o <<image>>
    BY <1>12, <1>13, <1>14
  <2>2. QED
    BY <1>10, <2>1
<1>15. CASE ~Has(x, "image_search")
  <2>1. <<>> \in Seq(Actions) /\ ActionsOf(x) = TextMatches(x) \o <<>>
    BY <1>12, <1>15
  <2>2. QED
    BY <1>10, <2>1
<1>16. QED
  BY <1>14, <1>15

\* Those of all responses, one after the other.
Asked == FlattenSeq([k \in 1..Len(Responses) |-> ActionsOf(Responses[k])])

\* They are actions.
LEMMA AskedTyped ==
  ASSUME InTurns(row)
  PROVE  Asked \in Seq(Actions)
<1> DEFINE n == Len(Responses)
           s == [k \in 1..n |-> ActionsOf(Responses[k])]
<1>1. n \in Nat /\ \A k \in 1..n : Responses[k] \in Seq(Ids)
  <2>1. Responses \in Seq(Seq(Ids))
    BY ResponsesTyped
  <2> DEFINE B == Seq(Ids)
  <2> HIDE DEF B
  <2>2. Responses \in Seq(B)
    BY <2>1 DEF B
  <2>3. n \in Nat /\ \A k \in 1..n : Responses[k] \in B
    BY <2>2
  <2>4. QED
    BY <2>3 DEF B
<1>2. \A k \in 1..n : ActionsOf(Responses[k]) \in Seq(Actions)
  BY <1>1, ActionsTyped
<1>3. s \in Seq(Seq(Actions))
  <2> DEFINE B == Seq(Actions)
  <2> HIDE DEF B
  <2>1. s \in [1..n -> B]
    BY <1>2 DEF B
  <2> HIDE DEF s, n
  <2>2. s \in Seq(B)
    BY <1>1, <2>1
  <2>3. QED
    BY <2>2 DEF B
<1>4. FlattenSeq(s) \in Seq(Actions)
  BY <1>3, FlattenIn
<1>5. QED
  BY <1>4 DEF Asked
---------------------------------------------------------------------------
\* The spans of the bonus

Spans == [start : Nat, length : Nat, tool : Tools]

\* The span of an action behind those found.
SpanOf(found, action) ==
  [start |-> Nth(Free(action.ids, found), 1),
   length |-> Len(action.ids),
   tool |-> action.tool]

Find(found, action) ==
  IF Free(action.ids, found) = {} THEN found ELSE Append(found, SpanOf(found, action))

\* q finds one action of s after the other.
IsFound(q, s) ==
  /\ q \in [0..Len(s) -> Seq(Spans)]
  /\ q[0] = <<>>
  /\ \A k \in 1..Len(s) : q[k] = Find(q[k - 1], s[k])

\* A span starts at a free occurrence of its action.
LEMMA SpanTyped ==
  ASSUME InTurns(row), NEW found, NEW action \in Actions, Free(action.ids, found) # {}
  PROVE  /\ SpanOf(found, action) \in Spans
         /\ SpanOf(found, action).start \in Free(action.ids, found)
<1> DEFINE n == Len(ValidIds)
           l == Len(action.ids)
           free == Free(action.ids, found)
<1>1. action.ids \in Seq(Ids) /\ action.tool \in Tools
  BY DEF Actions
<1>2. n \in Nat /\ l \in Nat
  <2>1. ValidIds \in Seq(Ids)
    BY ValidTyped
  <2>2. QED
    BY <1>1, <2>1
<1>3. free \subseteq 1..(n - l + 1)
  BY DEF Free, Occurrences
<1>4. free \in SUBSET (1..(n + 1)) /\ n + 1 \in Nat
  <2> HIDE DEF n, l, free
  <2>1. 1..(n - l + 1) \subseteq 1..(n + 1)
    BY <1>2
  <2>2. free \subseteq 1..(n + 1)
    BY <1>3, <2>1
  <2>3. QED
    BY <1>2, <2>2
<1>5. Nth(free, 1) \in free
  <2> HIDE DEF free
  <2>1. QED
    BY <1>4, NthIn DEF free
<1>6. Nth(free, 1) \in Nat
  BY <1>2, <1>4, <1>5
<1>7. SpanOf(found, action) = [start |-> Nth(free, 1), length |-> l, tool |-> action.tool]
  BY DEF SpanOf
<1> HIDE DEF free, l
<1>8. SpanOf(found, action) \in Spans /\ SpanOf(found, action).start = Nth(free, 1)
  BY <1>1, <1>2, <1>6, <1>7 DEF Spans
<1>9. QED
  BY <1>5, <1>8 DEF free

\* One more action leaves spans.
LEMMA FindTyped ==
  ASSUME InTurns(row), NEW found \in Seq(Spans), NEW action \in Actions
  PROVE  Find(found, action) \in Seq(Spans)
<1>1. CASE Free(action.ids, found) = {}
  BY <1>1 DEF Find
<1>2. CASE Free(action.ids, found) # {}
  <2>1. SpanOf(found, action) \in Spans
    BY <1>2, SpanTyped
  <2>2. Find(found, action) = Append(found, SpanOf(found, action))
    BY <1>2 DEF Find
  <2>3. QED
    BY <2>1, <2>2
<1>3. QED
  BY <1>1, <1>2

\* The fold finds the actions that the responses ask for.
LEMMA SpansFound ==
  ASSUME InTurns(row)
  PROVE  \E q : IsFound(q, Asked) /\ q[Len(Asked)] = SearchActionSpans
<1> DEFINE s == Asked
           n == Len(s)
           V == Seq(Spans)
<1>1. s \in Seq(Actions)
  BY AskedTyped
<1> HIDE DEF s
<1>2. n \in Nat /\ DOMAIN s = 1..n /\ \A k \in 1..n : s[k] \in Actions
  BY <1>1
<1>3. PICK none \in V : none = <<>>
  <2>1. <<>> \in V
    OBVIOUS
  <2> HIDE DEF V
  <2>2. QED
    BY <2>1
<1> DEFINE G == [c \in V \X (1..n) |-> Find(c[1], s[c[2]])]
           Is(f) == f = [t \in SUBSET DOMAIN s |->
                           IF t = {} THEN none ELSE Find(f[t \ {Max(t)}], s[Max(t)])]
           f == CHOOSE f : Is(f)
           end == FoldLeft(LAMBDA found, action : Find(found, action), none, s)
<1>4. end = f[DOMAIN s]
  BY DEF FoldLeft, MapThenFoldSet
<1>5. \A b \in V, k \in 1..n : Find(b, s[k]) \in V
  BY <1>2, FindTyped
<1> HIDE DEF V
<1>6. G \in [V \X (1..n) -> V]
  BY <1>5
<1>7. \A b \in V, k \in 1..n : G[<<b, k>>] = Find(b, s[k])
  OBVIOUS
<1> HIDE DEF G, n, end
<1>8. \A t \in SUBSET (1..n) : t # {} => Max(t) \in 1..n /\ t \ {Max(t)} \in SUBSET (1..n)
  BY <1>2, LastPosition
<1>9. PICK h \in [SUBSET (1..n) -> V] : IsFold(h, none, G, n)
  BY <1>2, <1>3, <1>6, FoldExists
<1>10. Is(h)
  <2>1. ASSUME NEW t \in SUBSET (1..n)
        PROVE  h[t] = IF t = {} THEN none ELSE Find(h[t \ {Max(t)}], s[Max(t)])
    BY <1>7, <1>8, <1>9 DEF IsFold
  <2>2. QED
    BY <1>2, <2>1
<1>11. Is(f)
  BY <1>10
<1> HIDE DEF f
<1>12. Unfolds(f, none, G, n, V)
  BY <1>2, <1>7, <1>8, <1>11 DEF Unfolds
<1>13. RunsTo(f[1..n], none, G, n, V)
  BY <1>2, <1>6, <1>12, FoldRuns
<1>14. PICK q \in [0..n -> V] : IsRun(q, none, G, n) /\ q[n] = f[1..n]
  BY <1>13 DEF RunsTo
<1>15. \A k \in 1..n : q[k] = Find(q[k - 1], s[k])
  <2>1. ASSUME NEW k \in 1..n PROVE q[k] = Find(q[k - 1], s[k])
    <3>1. k - 1 \in 0..n
      BY <1>2
    <3>2. q[k - 1] \in V
      BY <3>1
    <3>3. QED
      BY <1>7, <1>14, <3>2 DEF IsRun
  <2>2. QED
    BY <2>1
<1>16. IsFound(q, s)
  BY <1>3, <1>14, <1>15 DEF IsFound, IsRun, V, n
<1>17. SearchActionSpans = end
  BY <1>3, Zenon DEF SearchActionSpans, end, Find, SpanOf, s, Asked
<1>18. QED
  BY <1>2, <1>4, <1>14, <1>16, <1>17 DEF s, n

\* What is found, and what of it is rewarded, are spans.
LEMMA SpansTyped ==
  ASSUME InTurns(row)
  PROVE  SearchActionSpans \in Seq(Spans) /\ Rewarded \in Seq(Spans)
<1>1. PICK q : IsFound(q, Asked) /\ q[Len(Asked)] = SearchActionSpans
  BY SpansFound
<1>2. Len(Asked) \in 0..Len(Asked)
  <2>1. Asked \in Seq(Actions)
    BY AskedTyped
  <2>2. Len(Asked) \in Nat
    BY <2>1
  <2>3. QED
    BY <2>2
<1>3. SearchActionSpans \in Seq(Spans)
  BY <1>1, <1>2 DEF IsFound
<1>4. Keep(SearchActionSpans, {span \in ToSet(SearchActionSpans) : span.tool = info.edge})
        \in Seq(Spans)
  BY <1>3, KeepTyped
<1>5. <<>> \in Seq(Spans)
  OBVIOUS
<1>6. QED
  BY <1>3, <1>4, <1>5 DEF Rewarded

\* Every span adds its bonus to the score.
LEMMA RewardIs ==
  ASSUME spans \in Seq(Spans), score \in Int, info.price[2] \in Int
  PROVE  RowReward \in Int /\ RowReward = score + Len(spans) * info.price[2]
<1> DEFINE n == Len(spans)
           p == info.price[2]
           V == Int
           s == spans
           Plus(sum, span) == sum + SpanBonus(span)
<1>1. n \in Nat /\ DOMAIN s = 1..n
  OBVIOUS
<1> DEFINE G == [c \in V \X (1..n) |-> Plus(c[1], s[c[2]])]
           Is(f) == f = [t \in SUBSET DOMAIN s |->
                           IF t = {} THEN score ELSE Plus(f[t \ {Max(t)}], s[Max(t)])]
           f == CHOOSE f : Is(f)
           end == FoldLeft(LAMBDA sum, span : Plus(sum, span), score, s)
<1>2. end = f[DOMAIN s]
  BY DEF FoldLeft, MapThenFoldSet
<1>3. \A b \in V, k \in 1..n : Plus(b, s[k]) \in V
  BY DEF SpanBonus
<1> HIDE DEF V
<1>4. G \in [V \X (1..n) -> V]
  BY <1>3
<1>5. \A b \in V, k \in 1..n : G[<<b, k>>] = Plus(b, s[k])
  OBVIOUS
<1>6. score \in V
  BY DEF V
<1>0. \A b, k : Plus(b, s[k]) = b + p
  BY DEF SpanBonus
<1> HIDE DEF G, n, end, Plus, s
<1>7. \A t \in SUBSET (1..n) : t # {} => Max(t) \in 1..n /\ t \ {Max(t)} \in SUBSET (1..n)
  BY <1>1, LastPosition
<1>8. PICK h \in [SUBSET (1..n) -> V] : IsFold(h, score, G, n)
  BY <1>1, <1>4, <1>6, FoldExists
<1>9. Is(h)
  <2>1. ASSUME NEW t \in SUBSET (1..n)
        PROVE  h[t] = IF t = {} THEN score ELSE Plus(h[t \ {Max(t)}], s[Max(t)])
    BY <1>5, <1>7, <1>8 DEF IsFold
  <2>2. QED
    BY <1>1, <2>1
<1>10. Is(f)
  BY <1>9
<1> HIDE DEF f
<1>11. Unfolds(f, score, G, n, V)
  BY <1>1, <1>5, <1>7, <1>10 DEF Unfolds
<1>12. RunsTo(f[1..n], score, G, n, V)
  BY <1>1, <1>4, <1>6, <1>11, FoldRuns
<1>13. PICK q \in [0..n -> V] : IsRun(q, score, G, n) /\ q[n] = f[1..n]
  BY <1>12 DEF RunsTo
<1> DEFINE T == {k \in Nat : k <= n => q[k] = score + k * p}
<1>14. p \in Int /\ 0 * p = 0 /\ \A k \in Nat : k * p \in Int /\ (k + 1) * p = k * p + p
  <2>1. p \in Int
    OBVIOUS
  <2> HIDE DEF p
  <2>2. QED
    BY <2>1
<1>15. 0 \in T
  <2>1. q[0] = score
    BY <1>13 DEF IsRun
  <2>2. score = score + 0 * p
    <3> HIDE DEF p
    <3>1. QED
      BY <1>14
  <2>3. QED
    BY <2>1, <2>2
<1>16. ASSUME NEW k \in Nat, k \in T PROVE k + 1 \in T
  <2>1. ASSUME k + 1 <= n PROVE q[k + 1] = score + (k + 1) * p
    <3>1. k + 1 \in 1..n /\ (k + 1) - 1 = k /\ k \in 0..n /\ k <= n
      BY <1>1, <2>1
    <3>2. q[k + 1] = G[<<q[k], k + 1>>] /\ q[k] \in V
      BY <1>13, <3>1 DEF IsRun
    <3>3. G[<<q[k], k + 1>>] = q[k] + p
      BY <1>0, <1>5, <3>1, <3>2
    <3>4. q[k] = score + k * p
      BY <1>16, <3>1
    <3> HIDE DEF p
    <3>5. QED
      BY <1>14, <3>2, <3>3, <3>4
  <2>2. QED
    BY <2>1
<1>17. q[n] = score + n * p
  <2> HIDE DEF T
  <2>1. n \in T
    BY <1>1, <1>15, <1>16, NatAll
  <2>2. QED
    BY <1>1, <2>1 DEF T
<1>18. n \in Nat /\ score + n * p \in Int
  <2> HIDE DEF p
  <2>1. QED
    BY <1>1, <1>14
<1>19. RowReward = end
  BY Zenon DEF RowReward, end, Plus, s
<1>20. RowReward = score + n * p
  BY <1>1, <1>2, <1>13, <1>17, <1>19
<1>21. QED
  BY <1>18, <1>20 DEF n
---------------------------------------------------------------------------
\* The row in work

Infos == [mode : Modes, correctOnly : BOOLEAN, edge : Tools \cup {"none"},
          price : Prices, countPenalty : BOOLEAN]

\* The row is one of the batch or there is none; a score is that of the row.
RowInv ==
  /\ row \in Rows \cup {<<>>}
  /\ info \in Infos
  /\ score \in Int
  /\ spans \in Seq(Spans)
  /\ status = "scored" => score = ComputeScore

\* A row, also none, is the turns of a dialogue.
LEMMA RowInTurns == RowInv => InTurns(row)
BY RowHolds, NoRowHolds DEF RowInv

\* What the row's extra information holds.
LEMMA InfoTyped ==
  ASSUME info \in Infos
  PROVE  info.price[1] \in Int /\ info.price[2] \in Int
<1>1. info.price \in Prices
  BY DEF Infos
<1>2. info.price \in (-10..10) \X Nat
  BY <1>1, RewardAssumption
<1>3. QED
  BY <1>2

\* The score of an answer: nothing if it is wrong.
LEMMA AnswerScoreIs ==
  ASSUME info \in Infos, InTurns(row)
  PROVE  /\ AnswerScore \in Int
         /\ ~Correct => AnswerScore = 0
         /\ Correct => AnswerScore \in {100, 10 * (10 - info.price[1]),
                                        (10 - info.price[1]) * (10 - info.price[1])}
<1> DEFINE kept == 10 - info.price[1]
           count == SearchCount
           times == IF info.countPenalty \/ count = 0 THEN count ELSE 1
           paid == CASE times = 0 -> 100 [] times = 1 -> 10 * kept [] OTHER -> kept * kept
<1>1. kept \in Int
  BY InfoTyped
<1>2. AnswerScore = IF Correct THEN paid ELSE 0
  BY DEF AnswerScore
<1> HIDE DEF times
<1>3. paid \in {100, 10 * kept, kept * kept}
  OBVIOUS
<1> HIDE DEF kept, paid
<1>4. kept * kept \in Int /\ 10 * kept \in Int
  BY <1>1
<1>5. paid \in Int
  BY <1>3, <1>4
<1>6. QED
  BY <1>2, <1>3, <1>5 DEF kept

\* A format is right or it is not.
LEMMA FormatTyped == FormatScore \in {0, 1}
BY DEF FormatScore

\* A score is a number.
LEMMA ScoreTyped ==
  ASSUME info \in Infos, InTurns(row)
  PROVE  ComputeScore \in Int
<1>1. AnswerScore \in Int /\ FormatScore \in Int /\ FormatPenalty \in Int
  BY AnswerScoreIs, FormatTyped, RewardAssumption
<1>2. (10 - FormatPenalty) * AnswerScore \in Int /\ FormatPenalty * 100 * FormatScore \in Int
  BY <1>1
<1>3. QED
  BY <1>2 DEF ComputeScore
---------------------------------------------------------------------------
\* Every action is asked for by a token of its own

\* The token that starts an action: the image search, or the tag that opens a
\* text search.
MarkOf(tool) == IF tool = "image_search" THEN "image_search" ELSE "open"

\* o leads from each element of s, which is for a tool, to a place in P of its
\* own, where x holds the token of that tool.
Marks(o, s, P, x) ==
  /\ o \in [1..Len(s) -> P]
  /\ \A m, n \in 1..Len(s) : o[m] = o[n] => m = n
  /\ \A m \in 1..Len(s) : x[o[m]] = MarkOf(s[m].tool)

Marked(s, P, x) == \E o : Marks(o, s, P, x)

\* The searches of a response start at different places of it.
LEMMA ActionsMarked ==
  ASSUME NEW x \in Seq(Ids)
  PROVE  Marked(ActionsOf(x), 1..Len(x), x)
<1> DEFINE l == Len(x)
           Closes(i) == {j \in i..Len(x) : x[j] = "close"}
           starts == {i \in 1..Len(x) :
                       /\ x[i] = "open"
                       /\ Closes(i) # {}
                       /\ \A k \in 1..(i - 1) : x[k] = "open" =>
                            \E j \in k..i : x[j] = "close"}
           Act(n) == [ids |-> SubSeq(x, Nth(starts, n), Nth(Closes(Nth(starts, n)), 1)),
                      tool |-> "text_search"]
           image == [ids |-> <<"image_search">>, tool |-> "image_search"]
           text == TextMatches(x)
<1>1. /\ l \in Nat /\ starts \in SUBSET (1..l) /\ \A i \in starts : x[i] = "open"
      /\ ActionsOf(x) \in Seq(Actions)
  BY ActionsTyped
<1>2. text = [n \in 1..Cardinality(starts) |-> Act(n)]
  BY DEF TextMatches
<1>3. image.tool = "image_search" /\ \A n : Act(n).tool = "text_search"
  OBVIOUS
<1>4. ActionsOf(x) = text \o (IF Has(x, "image_search") THEN <<image>> ELSE <<>>)
  BY DEF ActionsOf
<1> HIDE DEF starts, Act, image
<1>5. PICK c \in Nat : \E g : Lists(g, c, starts)
  BY <1>1, ListExists
<1>6. PICK g : Lists(g, c, starts)
  BY <1>5
<1>7. Cardinality(starts) = c
  BY <1>6, NthIs
<1>8. /\ text = [n \in 1..c |-> Act(n)]
      /\ Len(text) = c /\ \A n \in 1..c : text[n].tool = "text_search"
  BY <1>2, <1>3, <1>7
<1> HIDE DEF text
<1>9. /\ \A n \in 1..c : g[n] \in 1..l /\ x[g[n]] = "open"
      /\ \A m, n \in 1..c : g[m] = g[n] => m = n
  <2>1. \A n \in 1..c : g[n] \in starts /\ g[n] \in Nat
    BY <1>6 DEF Lists
  <2>2. ASSUME NEW m \in 1..c, NEW n \in 1..c, g[m] = g[n] PROVE m = n
    <3>1. g[m] \in Nat /\ g[n] \in Nat /\ ~(g[m] < g[n]) /\ ~(g[n] < g[m])
      BY <2>1, <2>2
    <3>2. (m < n => g[m] < g[n]) /\ (n < m => g[n] < g[m])
      BY <1>6 DEF Lists
    <3>3. QED
      BY <3>1, <3>2
  <2>3. QED
    BY <1>1, <2>1, <2>2
<1>10. CASE Has(x, "image_search")
  <2>1. PICK p \in 1..l : x[p] = "image_search"
    BY <1>10 DEF Has, Contains
  <2> DEFINE s == ActionsOf(x)
             o == [n \in 1..(c + 1) |-> IF n <= c THEN g[n] ELSE p]
  <2>2. s = Append(text, image)
    <3>1. text \in Seq({Act(n) : n \in 1..c} \cup {image})
      BY <1>5, <1>8
    <3>2. text \o <<image>> = Append(text, image)
      BY <3>1
    <3>3. QED
      BY <1>4, <1>10, <3>2
  <2>3. /\ Len(s) = c + 1 /\ s[c + 1] = image
        /\ \A n \in 1..c : s[n] = text[n]
    <3>1. text \in Seq({Act(n) : n \in 1..c} \cup {image})
      BY <1>5, <1>8
    <3> HIDE DEF s
    <3>2. QED
      BY <1>8, <2>2, <3>1
  <2>4. /\ \A n \in 1..c : o[n] = g[n] /\ n \in 1..(c + 1)
        /\ o[c + 1] = p /\ c + 1 \in 1..(c + 1)
        /\ \A n \in 1..(c + 1) : n \in 1..c \/ n = c + 1
        /\ DOMAIN o = 1..(c + 1)
    BY <1>5
  <2>5. o \in [1..(c + 1) -> 1..l]
    BY <1>9, <2>1
  <2> HIDE DEF s, o
  <2>6. \A n \in 1..(c + 1) : x[o[n]] = MarkOf(s[n].tool)
    BY <1>3, <1>8, <1>9, <2>1, <2>3, <2>4 DEF MarkOf
  <2>7. ASSUME NEW m \in 1..(c + 1), NEW n \in 1..(c + 1), o[m] = o[n] PROVE m = n
    <3>1. CASE m \in 1..c /\ n \in 1..c
      BY <1>9, <2>4, <2>7, <3>1
    <3>2. CASE m \in 1..c /\ n = c + 1
      BY <1>9, <2>1, <2>4, <2>7, <3>2
    <3>3. CASE m = c + 1 /\ n \in 1..c
      BY <1>9, <2>1, <2>4, <2>7, <3>3
    <3>4. QED
      BY <2>4, <3>1, <3>2, <3>3
  <2>8. Marks(o, s, 1..l, x)
    BY <2>3, <2>5, <2>6, <2>7 DEF Marks
  <2>9. QED
    BY <2>8 DEF Marked, s
<1>11. CASE ~Has(x, "image_search")
  <2>1. ActionsOf(x) = text
    <3>1. text \in Seq({Act(n) : n \in 1..c})
      BY <1>5, <1>8
    <3>2. text \o <<>> = text
      BY <3>1
    <3>3. QED
      BY <1>4, <1>11, <3>2
  <2>2. g \in [1..c -> 1..l]
    BY <1>6, <1>9 DEF Lists
  <2>3. \A n \in 1..c : x[g[n]] = MarkOf(text[n].tool)
    BY <1>8, <1>9 DEF MarkOf
  <2>4. Marks(g, text, 1..l, x)
    BY <1>8, <1>9, <2>2, <2>3 DEF Marks
  <2>5. QED
    BY <2>1, <2>4 DEF Marked
<1>12. QED
  BY <1>10, <1>11

\* Places may be followed to where they came from.
LEMMA MarksFollow ==
  ASSUME NEW s, NEW P, NEW y, Marked(s, P, y), NEW Q, NEW x, NEW f \in [P -> Q],
         \A i, j \in P : f[i] = f[j] => i = j, \A i \in P : x[f[i]] = y[i]
  PROVE  Marked(s, Q, x)
<1>1. PICK o : Marks(o, s, P, y)
  BY DEF Marked
<1> DEFINE h == [m \in 1..Len(s) |-> f[o[m]]]
<1>2. \A m \in 1..Len(s) : o[m] \in P /\ h[m] = f[o[m]]
  BY <1>1 DEF Marks
<1>3. h \in [1..Len(s) -> Q]
  BY <1>2
<1> HIDE DEF h
<1>4. Marks(h, s, Q, x)
  BY <1>1, <1>2, <1>3 DEF Marks
<1>5. QED
  BY <1>4 DEF Marked

\* None need no place.
LEMMA MarksNone ==
  ASSUME NEW P, NEW x
  PROVE  Marked(<<>>, P, x)
<1>1. Len(<<>>) = 0 /\ 1..0 = {}
  OBVIOUS
<1> DEFINE o == [m \in {} |-> 0]
<1>2. o \in [{} -> P]
  OBVIOUS
<1>3. Marks(o, <<>>, P, x)
  BY <1>1, <1>2 DEF Marks
<1>4. QED
  BY <1>3 DEF Marked

\* Those behind others keep their places, if they are other places.
LEMMA MarksConcat ==
  ASSUME NEW A, NEW s \in Seq(A), NEW t \in Seq(A), NEW P, NEW Q, NEW x,
         Marked(s, P, x), Marked(t, Q, x), P \cap Q = {}
  PROVE  Marked(s \o t, P \cup Q, x)
<1> DEFINE z == s \o t
           m == Len(s)
           n == Len(t)
<1>1. PICK o : Marks(o, s, P, x)
  BY DEF Marked
<1>2. PICK u : Marks(u, t, Q, x)
  BY DEF Marked
<1>3. m \in Nat /\ n \in Nat /\ Len(z) = m + n
  OBVIOUS
<1>4. IsConcat(z, s, t)
  BY ConcatIs
<1> DEFINE h == [i \in 1..(m + n) |-> IF i <= m THEN o[i] ELSE u[i - m]]
<1> HIDE DEF z, m, n
<1>5. \A i \in 1..(m + n) : i \in 1..m \/ (~(i <= m) /\ i - m \in 1..n /\ m + (i - m) = i)
  BY <1>3
<1>6. /\ \A i \in 1..m : /\ i \in 1..(m + n) /\ h[i] = o[i] /\ z[i] = s[i] /\ h[i] \in P
                         /\ x[h[i]] = MarkOf(z[i].tool)
  <2>1. ASSUME NEW i \in 1..m
        PROVE  i \in 1..(m + n) /\ h[i] = o[i] /\ z[i] = s[i]
    <3>1. i \in 1..(m + n) /\ i <= m
      BY <1>3
    <3>2. z[i] = s[i]
      BY <1>4 DEF IsConcat, m
    <3>3. QED
      BY <3>1, <3>2
  <2> HIDE DEF h
  <2>2. \A i \in 1..m : o[i] \in P /\ x[o[i]] = MarkOf(s[i].tool)
    BY <1>1 DEF Marks, m
  <2>3. QED
    BY <2>1, <2>2
<1>7. ASSUME NEW i \in 1..(m + n), ~(i <= m)
      PROVE  /\ h[i] = u[i - m] /\ z[i] = t[i - m] /\ h[i] \in Q
             /\ x[h[i]] = MarkOf(z[i].tool)
  <2>1. i - m \in 1..n /\ m + (i - m) = i
    BY <1>5, <1>7
  <2>2. z[m + (i - m)] = t[i - m]
    BY <1>4, <2>1 DEF IsConcat, m, n
  <2>3. h[i] = u[i - m] /\ z[i] = t[i - m]
    BY <1>7, <2>1, <2>2
  <2>4. QED
    BY <1>2, <2>1, <2>3 DEF Marks, n
<1>8. h \in [1..(m + n) -> P \cup Q]
  <2>1. \A i \in 1..(m + n) : h[i] \in P \cup Q
    BY <1>5, <1>6, <1>7
  <2>2. QED
    BY <2>1
<1> HIDE DEF h
<1>9. ASSUME NEW i \in 1..(m + n), NEW j \in 1..(m + n), h[i] = h[j] PROVE i = j
  <2>1. CASE i \in 1..m /\ j \in 1..m
    <3>1. o[i] = o[j]
      BY <1>6, <1>9, <2>1
    <3>2. QED
      BY <1>1, <2>1, <3>1 DEF Marks, m
  <2>2. CASE ~(i <= m) /\ ~(j <= m)
    <3>1. i - m \in 1..n /\ j - m \in 1..n /\ m + (i - m) = i /\ m + (j - m) = j
      BY <1>5, <2>2
    <3>2. u[i - m] = u[j - m]
      BY <1>7, <1>9, <2>2
    <3>3. i - m = j - m
      BY <1>2, <3>1, <3>2 DEF Marks, n
    <3>4. QED
      BY <3>1, <3>3
  <2>3. CASE i \in 1..m /\ ~(j <= m)
    BY <1>6, <1>7, <1>9, <2>3
  <2>4. CASE ~(i <= m) /\ j \in 1..m
    BY <1>6, <1>7, <1>9, <2>4
  <2>5. QED
    BY <1>5, <2>1, <2>2, <2>3, <2>4
<1>10. \A i \in 1..(m + n) : x[h[i]] = MarkOf(z[i].tool)
  BY <1>5, <1>6, <1>7
<1>11. Marks(h, z, P \cup Q, x)
  BY <1>3, <1>8, <1>9, <1>10 DEF Marks, m, n
<1>12. QED
  BY <1>11 DEF Marked, z

\* Pieces whose places are apart, one behind the other.
LEMMA MarksFlatten ==
  ASSUME NEW A, NEW s \in Seq(Seq(A)), NEW P, NEW x,
         \A k \in 1..Len(s) : Marked(s[k], P[k], x),
         \A k, l \in 1..Len(s) : k # l => P[k] \cap P[l] = {}
  PROVE  Marked(FlattenSeq(s), UNION {P[k] : k \in 1..Len(s)}, x)
<1> DEFINE n == Len(s)
           Upto(k) == UNION {P[j] : j \in 1..k}
           T == {k \in Nat : k + 1 <= n => Marked(Flat(s)[k + 1], Upto(k + 1), x)}
<1>1. n \in Nat /\ \A k \in 1..n : s[k] \in Seq(A)
  OBVIOUS
<1>2. CASE n = 0
  <2>1. s = <<>> /\ FlattenSeq(s) = s
    BY <1>2, FlattenIsFlat
  <2>2. QED
    BY <2>1, MarksNone
<1>3. \A k \in 1..n : /\ Flat(s)[k] \in Seq(A)
                      /\ Flat(s)[k] = IF k = 1 THEN s[k] ELSE Flat(s)[k - 1] \o s[k]
  BY FlatSteps
<1>4. 0 \in T
  <2>1. ASSUME 0 + 1 <= n PROVE Marked(Flat(s)[0 + 1], Upto(0 + 1), x)
    <3>1. 1 \in 1..n /\ 0 + 1 = 1
      BY <1>1, <2>1
    <3>2. Flat(s)[1] = s[1] /\ Upto(1) = P[1]
      BY <1>3, <3>1
    <3>3. QED
      BY <3>1, <3>2
  <2>2. QED
    BY <2>1
<1>5. ASSUME NEW k \in Nat, k \in T PROVE k + 1 \in T
  <2>1. ASSUME (k + 1) + 1 <= n PROVE Marked(Flat(s)[(k + 1) + 1], Upto((k + 1) + 1), x)
    <3> DEFINE l == k + 1
    <3>1. /\ l \in 1..n /\ l + 1 \in 1..n /\ l + 1 # 1 /\ (l + 1) - 1 = l
          /\ \A j \in 1..l : j \in 1..n /\ j # l + 1
          /\ 1..(l + 1) = 1..l \cup {l + 1}
      BY <1>1, <2>1
    <3>2. Marked(Flat(s)[l], Upto(l), x)
      BY <1>5, <3>1
    <3> HIDE DEF l, T
    <3>3. Flat(s)[l + 1] = Flat(s)[l] \o s[l + 1] /\ Flat(s)[l] \in Seq(A) /\ s[l + 1] \in Seq(A)
      BY <1>1, <1>3, <3>1
    <3>4. Upto(l) \cap P[l + 1] = {}
      BY <3>1
    <3>5. Upto(l + 1) = Upto(l) \cup P[l + 1]
      BY <3>1
    <3>6. Marked(s[l + 1], P[l + 1], x)
      BY <3>1
    <3> HIDE DEF Upto
    <3>7. Marked(Flat(s)[l] \o s[l + 1], Upto(l) \cup P[l + 1], x)
      BY <3>2, <3>3, <3>4, <3>6, MarksConcat
    <3>8. Marked(Flat(s)[l + 1], Upto(l + 1), x)
      BY <3>3, <3>5, <3>7
    <3>9. QED
      BY <3>8 DEF l
  <2>2. QED
    BY <2>1
<1>6. Nat \subseteq T
  <2> HIDE DEF T
  <2> QED
    BY <1>4, <1>5, NatAll
<1>7. CASE n # 0
  <2>1. n - 1 \in Nat /\ (n - 1) + 1 = n
    BY <1>1, <1>7
  <2>2. n - 1 \in T
    <3> HIDE DEF T
    <3> QED
      BY <1>6, <2>1
  <2>3. Marked(Flat(s)[n], Upto(n), x)
    BY <1>1, <2>1, <2>2
  <2>4. FlattenSeq(s) = Flat(s)[n]
    BY <1>7, FlattenIsFlat
  <2>5. QED
    BY <2>3, <2>4
<1>8. QED
  BY <1>2, <1>7

\* p leads from the elements of y to theirs of the first k of s, in order.
Picks(p, y, s, k) ==
  /\ p \in [1..Len(y) -> 1..k]
  /\ \A i, j \in 1..Len(y) : i < j => p[i] < p[j]
  /\ \A i \in 1..Len(y) : y[i] = s[p[i]]

\* What Keep keeps are elements of the sequence, in their order.
LEMMA KeepPicks ==
  ASSUME NEW A, NEW s \in Seq(A), NEW S
  PROVE  \E p : Picks(p, Keep(s, S), s, Len(s))
<1>1. PICK q : IsKept(q, s, S, A) /\ q[Len(s)] = Keep(s, S)
  BY KeepRuns
<1> DEFINE n == Len(s)
           T == {k \in Nat : k <= n => \E p : Picks(p, q[k], s, k)}
<1>2. n \in Nat
  OBVIOUS
<1>3. 0 \in T
  <2> DEFINE p == [i \in {} |-> 0]
  <2>1. q[0] = <<>> /\ Len(<<>>) = 0 /\ 1..0 = {} /\ p \in [{} -> 1..0]
    BY <1>1 DEF IsKept
  <2> HIDE DEF p
  <2>2. Picks(p, q[0], s, 0)
    BY <2>1 DEF Picks
  <2>3. QED
    BY <2>2
<1>4. ASSUME NEW k \in Nat, k \in T PROVE k + 1 \in T
  <2>1. ASSUME k + 1 <= n PROVE \E p : Picks(p, q[k + 1], s, k + 1)
    <3>1. PICK p : Picks(p, q[k], s, k)
      BY <1>2, <1>4, <2>1
    <3>2. k + 1 \in 1..n /\ k \in 0..n /\ (k + 1) - 1 = k
      BY <1>2, <2>1
    <3>3. /\ q[k] \in Seq(A) /\ s[k + 1] \in A
          /\ q[k + 1] = IF s[k + 1] \in S THEN Append(q[k], s[k + 1]) ELSE q[k]
      <4>1. q[k] \in Seq(A)
        BY <1>1, <3>2 DEF IsKept
      <4>2. s[k + 1] \in A
        BY <3>2
      <4>3. q[k + 1] = IF s[k + 1] \in S THEN Append(q[(k + 1) - 1], s[k + 1])
                       ELSE q[(k + 1) - 1]
        BY <1>1, <3>2 DEF IsKept
      <4>4. QED
        BY <3>2, <4>1, <4>2, <4>3
    <3> DEFINE m == Len(q[k])
    <3>4. m \in Nat
      BY <3>3
    <3>5. /\ p \in [1..m -> 1..k] /\ \A i, j \in 1..m : i < j => p[i] < p[j]
          /\ \A i \in 1..m : q[k][i] = s[p[i]]
      BY <3>1 DEF Picks
    <3>6. CASE s[k + 1] \notin S
      <4>1. q[k + 1] = q[k]
        BY <3>3, <3>6
      <4>2. p \in [1..m -> 1..(k + 1)]
        <5>1. \A i \in 1..m : p[i] \in 1..k
          BY <3>5
        <5>2. 1..k \subseteq 1..(k + 1)
          OBVIOUS
        <5> HIDE DEF m, T
        <5>3. QED
          BY <3>5, <5>1, <5>2
      <4>3. Picks(p, q[k + 1], s, k + 1)
        BY <3>5, <4>1, <4>2 DEF Picks
      <4>4. QED
        BY <4>3
    <3>7. CASE s[k + 1] \in S
      <4> DEFINE y == q[k + 1]
                 h == [i \in 1..(m + 1) |-> IF i <= m THEN p[i] ELSE k + 1]
      <4>1. /\ Len(y) = m + 1 /\ y[m + 1] = s[k + 1]
            /\ \A i \in 1..m : y[i] = q[k][i]
        BY <3>3, <3>7
      <4> HIDE DEF m, y, T
      <4>2. /\ \A i \in 1..m : h[i] = p[i] /\ i \in 1..(m + 1)
            /\ h[m + 1] = k + 1 /\ m + 1 \in 1..(m + 1)
            /\ \A i \in 1..(m + 1) : i \in 1..m \/ i = m + 1
        BY <3>4
      <4>3. \A i \in 1..m : p[i] \in 1..k /\ p[i] \in 1..(k + 1) /\ p[i] < k + 1
        <5>1. \A i \in 1..m : p[i] \in 1..k
          BY <3>5
        <5>2. QED
          BY <5>1
      <4>4. h \in [1..(m + 1) -> 1..(k + 1)]
        <5>1. k + 1 \in 1..(k + 1)
          OBVIOUS
        <5>2. \A i \in 1..(m + 1) : h[i] \in 1..(k + 1)
          BY <4>2, <4>3, <5>1
        <5>3. QED
          BY <5>2
      <4> HIDE DEF h
      <4>5. ASSUME NEW i \in 1..(m + 1), NEW j \in 1..(m + 1), i < j PROVE h[i] < h[j]
        <5>1. i \in 1..m
          BY <3>4, <4>5
        <5>2. CASE j \in 1..m
          BY <3>5, <4>2, <4>5, <5>1, <5>2
        <5>3. CASE j = m + 1
          BY <4>2, <4>3, <5>1, <5>3
        <5>4. QED
          BY <4>2, <5>2, <5>3
      <4>6. \A i \in 1..(m + 1) : y[i] = s[h[i]]
        BY <3>5, <4>1, <4>2
      <4>7. Picks(h, y, s, k + 1)
        BY <4>1, <4>4, <4>5, <4>6 DEF Picks
      <4>8. QED
        BY <4>7 DEF y
    <3>8. QED
      BY <3>6, <3>7
  <2>2. QED
    BY <2>1
<1>5. n \in T
  <2> HIDE DEF T
  <2> QED
    BY <1>2, <1>3, <1>4, NatAll
<1>6. QED
  BY <1>1, <1>5

\* Places of elements in order are different ones.
LEMMA PicksApart ==
  ASSUME NEW A, NEW y \in Seq(A), NEW s, NEW k \in Nat, NEW p, Picks(p, y, s, k)
  PROVE  \A i, j \in 1..Len(y) : p[i] = p[j] => i = j
<1> SUFFICES ASSUME NEW i \in 1..Len(y), NEW j \in 1..Len(y), p[i] = p[j] PROVE i = j
  OBVIOUS
<1>1. i \in Nat /\ j \in Nat /\ p[i] \in 1..k /\ p[j] \in 1..k
  BY DEF Picks
<1>2. (i < j => p[i] < p[j]) /\ (j < i => p[j] < p[i])
  BY DEF Picks
<1>3. p[i] \in Nat
  BY <1>1
<1>4. QED
  BY <1>1, <1>2, <1>3

\* One element has the place it is given.
LEMMA MarksOne ==
  ASSUME NEW A, NEW e \in A, NEW i, NEW x, x[i] = MarkOf(e.tool)
  PROVE  Marked(<<e>>, {i}, x)
<1> DEFINE s == <<e>>
           o == [m \in 1..1 |-> i]
<1>1. Len(s) = 1 /\ s[1] = e /\ \A m \in 1..1 : m = 1
  OBVIOUS
<1>2. o \in [1..1 -> {i}] /\ o[1] = i /\ 1 \in 1..1
  OBVIOUS
<1> HIDE DEF s, o
<1>3. Marks(o, s, {i}, x)
  BY <1>1, <1>2 DEF Marks
<1>4. QED
  BY <1>3 DEF Marked, s

\* Places may be among more places.
LEMMA MarksAmong ==
  ASSUME NEW s, NEW P, NEW x, Marked(s, P, x), NEW Q, P \subseteq Q
  PROVE  Marked(s, Q, x)
<1> DEFINE f == [i \in P |-> i]
<1>1. f \in [P -> Q] /\ \A i \in P : f[i] = i
  OBVIOUS
<1> HIDE DEF f
<1>2. QED
  BY <1>1, MarksFollow

---------------------------------------------------------------------------
\* What is asked for, what is found of it, and what of this is rewarded

\* The places of the model's tokens.
ModelAt == {i \in 1..Len(row) : ByModel(row[i])}

\* The searches of a row's responses start at different places that the model
\* wrote.
LEMMA AskedMarked ==
  ASSUME InTurns(row)
  PROVE  Marked(Asked, ModelAt, IdsOf(row))
<1>1. PICK n, F, L : TurnsAt(n, F, L)
  BY TurnsFound
<1>2. /\ n \in Nat /\ Len(Segments) = n
      /\ \A k \in 1..n : Segments[k] = SubSeq(row, F[k], L[k]) /\ Segments[k] \in Seq(Tokens)
  BY <1>1, SegmentsAre DEF TurnsAt
<1>3. /\ Len(Responses) = n
      /\ \A k \in 1..n : Responses[k] = Keep(IdsOf(Segments[k]), Ids \ {"im_end", "pad"})
  BY <1>2, ResponsesTyped
<1>4. row \in Seq(Tokens) /\ Len(row) \in Nat
  BY DEF InTurns
<1> DEFINE s == [k \in 1..n |-> ActionsOf(Responses[k])]
           P == [k \in 1..n |-> {i \in 1..Len(row) : row[i].turn = 2 * k - 1}]
           x == IdsOf(row)
<1>5. ASSUME NEW k \in 1..n
      PROVE  Responses[k] \in Seq(Ids) /\ Marked(ActionsOf(Responses[k]), P[k], x)
  <2> DEFINE y == IdsOf(Segments[k])
             r == Keep(y, Ids \ {"im_end", "pad"})
             a == F[k]
             b == L[k]
  <2>1. y \in Seq(Ids) /\ Len(y) = Len(Segments[k])
        /\ \A i \in 1..Len(y) : y[i] = Segments[k][i].id
    BY <1>2, IdsAre
  <2>2. r = Responses[k] /\ r \in Seq(Ids)
    BY <1>3, <2>1, KeepTyped
  <2>3. a \in 1..Len(row) /\ b \in a..Len(row)
        /\ \A i \in 1..Len(row) : row[i].turn = 2 * k - 1 <=> i \in a..b
    BY <1>1 DEF TurnsAt, IsTurn
  <2>4. PICK p : Picks(p, r, y, Len(y))
    BY <2>1, KeepPicks
  <2> HIDE DEF a, b
  <2>5. Len(Segments[k]) = b - a + 1 /\ \A i \in 1..(b - a + 1) : Segments[k][i] = row[a + i - 1]
    <3>1. \A i \in a..b : row[i] \in Tokens
      BY <1>4, <2>3
    <3>2. Segments[k] = SubSeq(row, a, b)
      BY <1>2 DEF a, b
    <3>3. QED
      BY <1>4, <2>3, <3>1, <3>2, SubSeqIs
  <2> HIDE DEF r
  <2>6. Marked(ActionsOf(r), 1..Len(r), r)
    BY <2>2, ActionsMarked
  <2>7. \A i, j \in 1..Len(r) : p[i] = p[j] => i = j
    BY <2>1, <2>2, <2>4, PicksApart
  <2> DEFINE f == [i \in 1..Len(r) |-> a + p[i] - 1]
  <2>8. ASSUME NEW i \in 1..Len(r)
        PROVE  f[i] \in P[k] /\ x[f[i]] = r[i] /\ p[i] \in Nat
    <3>1. p[i] \in 1..Len(y) /\ r[i] = y[p[i]]
      BY <2>4 DEF Picks
    <3>2. p[i] \in 1..(b - a + 1)
      BY <2>1, <2>5, <3>1
    <3>3. f[i] \in 1..Len(row) /\ f[i] \in a..b /\ f[i] = a + p[i] - 1
      <4>1. f[i] = a + p[i] - 1
        OBVIOUS
      <4> HIDE DEF f
      <4>2. a \in Nat /\ b \in Nat /\ 1 <= a /\ b <= Len(row)
        BY <1>4, <2>3
      <4>3. QED
        BY <1>4, <3>2, <4>1, <4>2
    <3>4. f[i] \in P[k]
      BY <2>3, <3>3
    <3>5. x[f[i]] = row[f[i]].id
      BY <1>4, <3>3, IdsAre
    <3>6. y[p[i]] = row[f[i]].id
      BY <2>1, <2>5, <3>1, <3>2, <3>3
    <3>7. QED
      BY <3>1, <3>2, <3>4, <3>5, <3>6
  <2>9. f \in [1..Len(r) -> P[k]]
    BY <2>8
  <2>10. ASSUME NEW i \in 1..Len(r), NEW j \in 1..Len(r), f[i] = f[j] PROVE i = j
    <3>1. p[i] \in Nat /\ p[j] \in Nat
      BY <2>8
    <3>2. a \in Nat
      BY <1>4, <2>3
    <3>3. f[i] = a + p[i] - 1 /\ f[j] = a + p[j] - 1
      OBVIOUS
    <3>4. p[i] = p[j]
      BY <2>10, <3>1, <3>2, <3>3
    <3>5. QED
      BY <2>7, <3>4
  <2> HIDE DEF f, P, x, y
  <2>11. Marked(ActionsOf(r), P[k], x)
    BY <2>6, <2>8, <2>9, <2>10, MarksFollow
  <2>12. QED
    BY <2>2, <2>11
<1>6. s \in Seq(Seq(Actions)) /\ Len(s) = n /\ \A k \in 1..n : s[k] = ActionsOf(Responses[k])
  <2> DEFINE B == Seq(Actions)
  <2>1. \A k \in 1..n : ActionsOf(Responses[k]) \in B
    BY <1>5, ActionsTyped
  <2> HIDE DEF B
  <2>2. s \in [1..n -> B]
    BY <2>1
  <2>3. s \in Seq(B) /\ Len(s) = n
    BY <1>2, <2>2
  <2>4. QED
    BY <2>3 DEF B
<1>7. \A k, l \in 1..n : k # l => P[k] \cap P[l] = {}
  <2> SUFFICES ASSUME NEW k \in 1..n, NEW l \in 1..n, k # l PROVE P[k] \cap P[l] = {}
    OBVIOUS
  <2>1. 2 * k - 1 # 2 * l - 1
    OBVIOUS
  <2>2. QED
    BY <2>1
<1>8. UNION {P[k] : k \in 1..n} \subseteq ModelAt
  <2> SUFFICES ASSUME NEW k \in 1..n, NEW i \in 1..Len(row), row[i].turn = 2 * k - 1
               PROVE  ByModel(row[i])
    BY DEF ModelAt
  <2>1. row[i].turn \in Nat /\ (2 * k - 1) % 2 = 1
    OBVIOUS
  <2>2. QED
    BY <2>1 DEF ByModel
<1>9. Asked = FlattenSeq(s)
  BY <1>3 DEF Asked
<1> HIDE DEF s, P, x
<1>10. \A k \in 1..n : Marked(s[k], P[k], x)
  BY <1>5, <1>6
<1>11. Marked(FlattenSeq(s), UNION {P[k] : k \in 1..n}, x)
  <2>1. \A k \in 1..Len(s) : Marked(s[k], P[k], x)
    BY <1>6, <1>10
  <2>2. \A k, l \in 1..Len(s) : k # l => P[k] \cap P[l] = {}
    BY <1>6, <1>7
  <2>3. Marked(FlattenSeq(s), UNION {P[k] : k \in 1..Len(s)}, x)
    BY <1>6, <2>1, <2>2, MarksFlatten
  <2>4. QED
    BY <1>6, <2>3
<1>12. QED
  BY <1>8, <1>9, <1>11, MarksAmong DEF x

\* No two start at the same place.
Distinct(s) == \A m, n \in 1..Len(s) : s[m].start = s[n].start => m = n

\* A search is found where no other was.
LEMMA FindDistinct ==
  ASSUME InTurns(row), NEW found \in Seq(Spans), Distinct(found), NEW action \in Actions,
         Free(action.ids, found) # {}
  PROVE  Distinct(Append(found, SpanOf(found, action)))
<1> DEFINE new == SpanOf(found, action)
           s == Append(found, new)
           n == Len(found)
<1>1. n \in Nat /\ DOMAIN found = 1..n
  OBVIOUS
<1>2. new \in Spans /\ new.start \in Free(action.ids, found)
  BY SpanTyped
<1>3. \A m \in 1..n : found[m].start # new.start
  BY <1>1, <1>2 DEF Free
<1> HIDE DEF new
<1>4. Len(s) = n + 1 /\ s[n + 1] = new /\ \A m \in 1..n : s[m] = found[m]
  BY <1>2
<1> HIDE DEF s, n
<1>5. \A m \in 1..(n + 1) : m \in 1..n \/ m = n + 1
  BY <1>1
<1>6. \A l, m \in 1..n : found[l].start = found[m].start => l = m
  BY DEF Distinct, n
<1>7. Distinct(s)
  BY <1>3, <1>4, <1>5, <1>6 DEF Distinct
<1>8. QED
  BY <1>7 DEF s, new

\* The searches that are found start at different places of the response, and
\* the model wrote a place for each.
LEMMA FoundMarked ==
  ASSUME InTurns(row)
  PROVE  Distinct(SearchActionSpans) /\ Marked(SearchActionSpans, ModelAt, IdsOf(row))
<1> DEFINE s == Asked
           n == Len(s)
           x == IdsOf(row)
<1>1. s \in Seq(Actions) /\ n \in Nat /\ \A k \in 1..n : s[k] \in Actions
  BY AskedTyped
<1>2. PICK o : Marks(o, s, ModelAt, x)
  BY AskedMarked DEF Marked
<1>3. PICK q : IsFound(q, s) /\ q[n] = SearchActionSpans
  BY SpansFound
<1> DEFINE At(k) == {o[j] : j \in 1..k}
           T == {k \in Nat : k <= n => Distinct(q[k]) /\ Marked(q[k], At(k), x)}
<1> HIDE DEF s, n, x
<1>4. 0 \in T
  <2>1. q[0] = <<>> /\ Len(<<>>) = 0
    BY <1>3 DEF IsFound
  <2>2. Distinct(q[0]) /\ Marked(q[0], At(0), x)
    BY <2>1, MarksNone DEF Distinct
  <2>3. QED
    BY <2>2
<1>5. ASSUME NEW k \in Nat, k \in T PROVE k + 1 \in T
  <2>1. ASSUME k + 1 <= n
        PROVE  Distinct(q[k + 1]) /\ Marked(q[k + 1], At(k + 1), x)
    <3>1. k + 1 \in 1..n /\ k \in 0..n /\ (k + 1) - 1 = k /\ k <= n
      BY <1>1, <2>1
    <3> DEFINE action == s[k + 1]
               found == q[k]
    <3>2. action \in Actions /\ found \in Seq(Spans) /\ q[k + 1] = Find(found, action)
      <4>1. q[k + 1] = Find(q[(k + 1) - 1], s[k + 1])
        BY <1>3, <3>1 DEF IsFound, n
      <4>2. q[k] \in Seq(Spans)
        BY <1>3, <3>1 DEF IsFound, n
      <4>3. QED
        BY <1>1, <3>1, <4>1, <4>2
    <3>3. Distinct(found) /\ Marked(found, At(k), x)
      BY <1>5, <3>1
    <3>4. At(k) \subseteq At(k + 1) /\ At(k + 1) = At(k) \cup {o[k + 1]}
      BY <3>1
    <3>5. At(k) \cap {o[k + 1]} = {} /\ x[o[k + 1]] = MarkOf(action.tool)
      <4>1. \A j \in 1..k : j \in 1..n /\ j # k + 1
        BY <1>1, <2>1
      <4>2. QED
        BY <1>2, <3>1, <4>1 DEF Marks, n
    <3> HIDE DEF action, found, At, T
    <3>6. CASE Free(action.ids, found) = {}
      <4>1. q[k + 1] = found
        BY <3>2, <3>6 DEF Find
      <4>2. QED
        BY <3>3, <3>4, <4>1, MarksAmong
    <3>7. CASE Free(action.ids, found) # {}
      <4> DEFINE new == SpanOf(found, action)
      <4>1. new \in Spans
        BY <3>2, <3>7, SpanTyped
      <4>2. new.tool = action.tool
        BY DEF SpanOf
      <4>3. Distinct(Append(found, new))
        BY <3>2, <3>3, <3>7, FindDistinct
      <4>4. q[k + 1] = Append(found, new)
        BY <3>2, <3>7 DEF Find
      <4> HIDE DEF new
      <4>5. Marked(<<new>>, {o[k + 1]}, x)
        BY <3>5, <4>1, <4>2, MarksOne
      <4>6. <<new>> \in Seq(Spans) /\ Append(found, new) = found \o <<new>>
        BY <3>2, <4>1
      <4>7. Marked(found \o <<new>>, At(k) \cup {o[k + 1]}, x)
        BY <3>2, <3>3, <3>5, <4>5, <4>6, MarksConcat
      <4>8. QED
        BY <3>4, <4>3, <4>4, <4>6, <4>7
    <3>8. QED
      BY <3>6, <3>7
  <2>2. QED
    BY <2>1
<1>6. n \in T
  <2> HIDE DEF T
  <2> QED
    BY <1>1, <1>4, <1>5, NatAll
<1>7. Distinct(q[n]) /\ Marked(q[n], At(n), x)
  BY <1>1, <1>6
<1>8. At(n) \subseteq ModelAt
  BY <1>2 DEF Marks, n
<1>9. QED
  BY <1>3, <1>7, <1>8, MarksAmong DEF x

\* So it is of those that earn the bonus.
LEMMA RewardMarked ==
  ASSUME InTurns(row)
  PROVE  Distinct(Rewarded) /\ Marked(Rewarded, ModelAt, IdsOf(row))
<1> DEFINE s == SearchActionSpans
           S == {span \in ToSet(s) : span.tool = info.edge}
           y == Keep(s, S)
           x == IdsOf(row)
<1>1. s \in Seq(Spans) /\ Distinct(s) /\ Marked(s, ModelAt, x)
  BY SpansTyped, FoundMarked
<1>2. Rewarded \in {<<>>, y, s}
  BY DEF Rewarded
<1>3. Distinct(<<>>) /\ Marked(<<>>, ModelAt, x)
  BY MarksNone DEF Distinct
<1> HIDE DEF s, S, x
<1>4. y \in Seq(Spans) /\ Len(s) \in Nat
  BY <1>1, KeepTyped
<1>5. PICK p : Picks(p, y, s, Len(s))
  BY <1>1, KeepPicks
<1>6. \A i, j \in 1..Len(y) : p[i] = p[j] => i = j
  BY <1>4, <1>5, PicksApart
<1>7. \A i \in 1..Len(y) : p[i] \in 1..Len(s) /\ y[i] = s[p[i]]
  BY <1>5 DEF Picks
<1> HIDE DEF y
<1>8. Distinct(y)
  BY <1>1, <1>6, <1>7 DEF Distinct
<1>9. Marked(y, ModelAt, x)
  <2>1. PICK o : Marks(o, s, ModelAt, x)
    BY <1>1 DEF Marked
  <2> DEFINE h == [i \in 1..Len(y) |-> o[p[i]]]
  <2>2. \A i \in 1..Len(y) : h[i] = o[p[i]] /\ h[i] \in ModelAt
    BY <1>7, <2>1 DEF Marks
  <2>3. h \in [1..Len(y) -> ModelAt]
    BY <2>2
  <2> HIDE DEF h
  <2>4. \A i, j \in 1..Len(y) : h[i] = h[j] => i = j
    <3>1. \A i, j \in 1..Len(y) : o[p[i]] = o[p[j]] => p[i] = p[j]
      BY <1>7, <2>1 DEF Marks
    <3>2. QED
      BY <1>6, <2>2, <3>1
  <2>5. \A i \in 1..Len(y) : x[h[i]] = MarkOf(y[i].tool)
    <3>1. \A i \in 1..Len(y) : x[o[p[i]]] = MarkOf(s[p[i]].tool)
      BY <1>7, <2>1 DEF Marks
    <3>2. QED
      BY <1>7, <2>2, <3>1
  <2>6. Marks(h, y, ModelAt, x)
    BY <2>3, <2>4, <2>5 DEF Marks
  <2>7. QED
    BY <2>6 DEF Marked
<1>10. QED
  BY <1>1, <1>2, <1>3, <1>8, <1>9 DEF x

\* No more elements are for a tool than there are places with its token.
LEMMA MarksCount ==
  ASSUME InTurns(row), NEW A, NEW s \in Seq(A), Marked(s, ModelAt, IdsOf(row)), NEW tool
  PROVE  Cardinality({n \in DOMAIN s : s[n].tool = tool}) <=
           Cardinality({i \in 1..Len(row) : ByModel(row[i]) /\ row[i].id = MarkOf(tool)})
<1> DEFINE S == {n \in DOMAIN s : s[n].tool = tool}
           P == {i \in 1..Len(row) : ByModel(row[i]) /\ row[i].id = MarkOf(tool)}
<1>1. PICK o : Marks(o, s, ModelAt, IdsOf(row))
  BY DEF Marked
<1>2. row \in Seq(Tokens) /\ Len(row) \in Nat /\ DOMAIN s = 1..Len(s)
  BY DEF InTurns
<1>3. IsFiniteSet(P)
  <2>1. IsFiniteSet(1..Len(row)) /\ P \subseteq 1..Len(row)
    BY <1>2, FS_Interval
  <2>2. QED
    BY <2>1, FS_Subset
<1>4. \A i \in ModelAt : i \in 1..Len(row) /\ ByModel(row[i]) /\ IdsOf(row)[i] = row[i].id
  BY <1>2, IdsAre DEF ModelAt
<1> DEFINE f == [n \in S |-> o[n]]
<1>5. f \in [S -> P] /\ \A m, n \in S : f[m] = f[n] => m = n
  <2>1. \A n \in S : n \in 1..Len(s) /\ s[n].tool = tool /\ f[n] = o[n]
    BY <1>2
  <2> HIDE DEF S
  <2>2. \A n \in S : o[n] \in ModelAt /\ IdsOf(row)[o[n]] = MarkOf(tool)
    BY <1>1, <2>1 DEF Marks
  <2>3. \A n \in S : o[n] \in P
    BY <1>4, <2>2
  <2>4. \A m, n \in S : f[m] = f[n] => m = n
    BY <1>1, <2>1 DEF Marks
  <2>5. QED
    BY <2>3, <2>4
<1> HIDE DEF f, S, P
<1>6. f \in Injection(S, P)
  BY <1>5 DEF Injection, IsInjective
<1>7. Cardinality(S) <= Cardinality(P)
  BY <1>3, <1>6, FS_Injection
<1>8. QED
  BY <1>7 DEF S, P
=============================================================================
