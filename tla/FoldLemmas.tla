---------------------------- MODULE FoldLemmas ----------------------------
(***************************************************************************)
(* Induction over the naturals in the form of sets, which needs no         *)
(* operator for a parameter, and by it what the folds of the community     *)
(* modules compute.                                                        *)
(***************************************************************************)
EXTENDS Integers, Sequences, SequencesExt, FiniteSetTheorems, WellFoundedInduction, TLAPS

---------------------------------------------------------------------------
\* Induction

Below == {p \in Nat \X Nat : p[1] < p[2]}

\* A set of naturals that is not empty has a least element.
LEMMA NatMin ==
  ASSUME NEW S \in SUBSET Nat, S # {}
  PROVE  \E m \in S : \A n \in S : m <= n
<1>1. OpToRel(<, Nat) = Below
  BY Zenon DEF OpToRel, Below
<1>2. IsWellFoundedOn(Below, Nat)
  BY <1>1, NatLessThanWellFounded, Zenon
<1>3. \E x \in S : \A y \in S : ~ (<<y, x>> \in Below)
  BY <1>2, WFMin
<1>4. PICK x \in S : \A y \in S : ~ (<<y, x>> \in Below)
  BY <1>3
<1>5. \A y \in Nat : <<y, x>> \in Below <=> y < x
  BY DEF Below
<1>6. \A y \in S : ~(y < x) /\ y \in Nat /\ x \in Nat
  BY <1>4, <1>5
<1>7. QED
  BY <1>6

\* What holds for 0, and for n + 1 if for n, holds for all: T is the set of the
\* numbers it holds for.
LEMMA NatAll ==
  ASSUME NEW T, 0 \in T, \A n \in Nat : n \in T => n + 1 \in T
  PROVE  Nat \subseteq T
<1>1. SUFFICES ASSUME Nat \ T # {} PROVE FALSE
  OBVIOUS
<1>2. PICK m \in Nat \ T : \A n \in Nat \ T : m <= n
  BY <1>1, NatMin
<1>3. m # 0 /\ m - 1 \in Nat /\ m - 1 \in T
  BY <1>2
<1>4. QED
  BY <1>2, <1>3

---------------------------------------------------------------------------
\* FlattenSeq

\* f is s put together from the left.
Flattens(f, s) ==
  f = [i \in 1..Len(s) |-> IF i = 1 THEN s[i] ELSE f[i - 1] \o s[i]]

Flat(s) == CHOOSE f : Flattens(f, s)

\* There is one.
LEMMA FlattensExists ==
  ASSUME NEW A, NEW s \in Seq(Seq(A))
  PROVE  \E f \in [1..Len(s) -> Seq(A)] : Flattens(f, s)
<1> DEFINE Upto(n) == \E f \in [1..n -> Seq(A)] :
                        \A i \in 1..n : f[i] = IF i = 1 THEN s[i] ELSE f[i - 1] \o s[i]
           T == {n \in Nat : n <= Len(s) => Upto(n)}
<1>0. Len(s) \in Nat /\ \A i \in 1..Len(s) : s[i] \in Seq(A)
  OBVIOUS
<1>1. Upto(0)
  <2> DEFINE none == [i \in 1..0 |-> <<>>]
  <2>1. none \in [1..0 -> Seq(A)] /\ ~\E i \in 1..0 : TRUE
    OBVIOUS
  <2> HIDE DEF none
  <2>2. QED
    BY <2>1
<1>2. ASSUME NEW n \in Nat, n + 1 <= Len(s), Upto(n) PROVE Upto(n + 1)
  <2>2. PICK f \in [1..n -> Seq(A)] :
          \A i \in 1..n : f[i] = IF i = 1 THEN s[i] ELSE f[i - 1] \o s[i]
    BY <1>2
  <2> DEFINE v == IF n = 0 THEN s[1] ELSE f[n] \o s[n + 1]
             g == [i \in 1..(n + 1) |-> IF i = n + 1 THEN v ELSE f[i]]
  <2>3. v \in Seq(A)
    <3>1. s[n + 1] \in Seq(A)
      BY <1>0, <1>2
    <3>2. n # 0 => f[n] \in Seq(A)
      BY <2>2
    <3>3. QED
      BY <3>1, <3>2
  <2>4. g \in [1..(n + 1) -> Seq(A)]
    BY <2>2, <2>3
  <2>5. ASSUME NEW i \in 1..(n + 1) PROVE g[i] = IF i = 1 THEN s[i] ELSE g[i - 1] \o s[i]
    <3> HIDE DEF v
    <3>1. CASE i = n + 1
      <4>1. g[i] = v /\ (i # 1 => g[i - 1] = f[i - 1] /\ i - 1 = n)
        BY <3>1
      <4>2. QED
        BY <4>1, <3>1 DEF v
    <3>2. CASE i # n + 1
      <4>1. i \in 1..n /\ g[i] = f[i] /\ (i # 1 => g[i - 1] = f[i - 1])
        BY <3>2
      <4>2. QED
        BY <4>1, <2>2
    <3>3. QED
      BY <3>1, <3>2
  <2>6. QED
    <3> HIDE DEF g
    <3> QED
      BY <2>4, <2>5
<1> HIDE DEF Upto
<1>3. 0 \in T
  BY <1>1
<1>4. \A n \in Nat : n \in T => n + 1 \in T
  BY <1>0, <1>2
<1>5. Nat \subseteq T
  <2> HIDE DEF T
  <2>1. QED
    BY <1>3, <1>4, NatAll
<1>6. Upto(Len(s))
  BY <1>0, <1>5
<1>7. PICK f \in [1..Len(s) -> Seq(A)] :
        \A i \in 1..Len(s) : f[i] = IF i = 1 THEN s[i] ELSE f[i - 1] \o s[i]
  BY <1>6 DEF Upto
<1>8. f = [i \in 1..Len(s) |-> IF i = 1 THEN s[i] ELSE f[i - 1] \o s[i]]
  BY <1>7
<1>9. QED
  BY <1>8 DEF Flattens

\* It grows by the next element of s.
LEMMA FlatSteps ==
  ASSUME NEW A, NEW s \in Seq(Seq(A))
  PROVE  \A i \in 1..Len(s) :
           /\ Flat(s)[i] \in Seq(A)
           /\ Flat(s)[i] = IF i = 1 THEN s[i] ELSE Flat(s)[i - 1] \o s[i]
<1> DEFINE f == Flat(s)
<1>1. Flattens(f, s)
  BY FlattensExists DEF Flat
<1> HIDE DEF f
<1>2. \A i \in 1..Len(s) : f[i] = IF i = 1 THEN s[i] ELSE f[i - 1] \o s[i]
  BY <1>1 DEF Flattens
<1>3. \A i \in 1..Len(s) : s[i] \in Seq(A)
  OBVIOUS
<1> DEFINE T == {n \in Nat : n \in 1..Len(s) => f[n] \in Seq(A)}
<1>4. 0 \in T
  OBVIOUS
<1>5. ASSUME NEW n \in Nat, n \in T, n + 1 \in 1..Len(s) PROVE f[n + 1] \in Seq(A)
  <2>1. CASE n = 0
    BY <2>1, <1>2, <1>3, <1>5
  <2>2. CASE n # 0
    <3>1. n \in 1..Len(s) /\ n + 1 # 1 /\ (n + 1) - 1 = n
      BY <2>2, <1>5
    <3>2. f[n] \in Seq(A)
      BY <3>1, <1>5
    <3>3. s[n + 1] \in Seq(A) /\ f[n + 1] = f[n] \o s[n + 1]
      BY <3>1, <1>2, <1>3, <1>5
    <3>4. QED
      BY <3>2, <3>3
  <2>3. QED
    BY <2>1, <2>2
<1>6. \A n \in Nat : n \in T => n + 1 \in T
  <2>1. ASSUME NEW n \in Nat, n \in T PROVE n + 1 \in T
    <3>1. n + 1 \in 1..Len(s) => f[n + 1] \in Seq(A)
      <4> HIDE DEF T
      <4> QED
        BY <1>5, <2>1
    <3>2. n + 1 \in Nat
      OBVIOUS
    <3>3. QED
      BY <3>1, <3>2
  <2>2. QED
    <3> HIDE DEF T
    <3> QED
      BY <2>1
<1>7. Nat \subseteq T
  <2> HIDE DEF T
  <2> QED
    BY <1>4, <1>6, NatAll
<1>8. QED
  BY <1>2, <1>7 DEF f

\* FlattenSeq is the last of these.
LEMMA FlattenIsFlat ==
  ASSUME NEW s
  PROVE  FlattenSeq(s) = IF Len(s) = 0 THEN s ELSE Flat(s)[Len(s)]
BY DEF FlattenSeq, Flat, Flattens

\* What is appended comes last.
LEMMA FlattenAppend ==
  ASSUME NEW A, NEW s \in Seq(Seq(A)), NEW x \in Seq(A)
  PROVE  /\ FlattenSeq(s) \in Seq(A)
         /\ FlattenSeq(Append(s, x)) = FlattenSeq(s) \o x
<1> DEFINE t == Append(s, x)
           n == Len(s)
<1>1. /\ t \in Seq(Seq(A)) /\ Len(t) = n + 1 /\ t[n + 1] = x
      /\ n \in Nat
      /\ \A i \in 1..n : t[i] = s[i]
  OBVIOUS
<1>2. \A i \in 1..(n + 1) : Flat(t)[i] = IF i = 1 THEN t[i] ELSE Flat(t)[i - 1] \o t[i]
  <2> HIDE DEF t, n
  <2>1. \A i \in 1..Len(t) : Flat(t)[i] = IF i = 1 THEN t[i] ELSE Flat(t)[i - 1] \o t[i]
    BY <1>1, FlatSteps
  <2>2. QED
    BY <1>1, <2>1
<1>3. \A i \in 1..n : Flat(s)[i] = IF i = 1 THEN s[i] ELSE Flat(s)[i - 1] \o s[i]
  BY <1>1, FlatSteps
<1> HIDE DEF t, n
<1> DEFINE T == {m \in Nat : m \in 1..n => Flat(t)[m] = Flat(s)[m]}
<1>4. \A m \in Nat : m \in T => m + 1 \in T
  <2>1. SUFFICES ASSUME NEW m \in Nat, m \in T, m + 1 \in 1..n
                 PROVE  Flat(t)[m + 1] = Flat(s)[m + 1]
    OBVIOUS
  <2>2. t[m + 1] = s[m + 1]
    BY <1>1, <2>1
  <2>3. CASE m = 0
    BY <1>1, <1>2, <1>3, <2>1, <2>2, <2>3
  <2>4. CASE m # 0
    <3>1. m \in 1..n /\ Flat(t)[m] = Flat(s)[m]
      BY <1>1, <2>1, <2>4
    <3>2. /\ m + 1 \in 1..(n + 1) /\ m + 1 # 1 /\ (m + 1) - 1 = m
      BY <1>1, <2>1, <2>4
    <3>3. Flat(t)[m + 1] = Flat(t)[m] \o t[m + 1] /\ Flat(s)[m + 1] = Flat(s)[m] \o s[m + 1]
      BY <1>2, <1>3, <3>2, <2>1
    <3>4. QED
      BY <3>1, <3>3, <2>2
  <2>5. QED
    BY <2>3, <2>4
<1>5. Nat \subseteq T
  <2>1. 0 \in T
    BY <1>1
  <2> HIDE DEF T
  <2> QED
    BY <1>4, <2>1, NatAll
<1>6. FlattenSeq(t) = Flat(t)[n + 1] /\ FlattenSeq(s) = IF n = 0 THEN s ELSE Flat(s)[n]
  BY <1>1, FlattenIsFlat DEF n
<1>7. CASE n = 0
  <2>1. s = <<>> /\ <<>> \o x = x
    BY <1>7 DEF n
  <2>2. FlattenSeq(t) = x
    BY <1>1, <1>2, <1>6, <1>7
  <2>3. QED
    BY <1>6, <1>7, <2>1, <2>2 DEF t
<1>8. CASE n # 0
  <2>1. n \in 1..n /\ n \in Nat
    BY <1>1, <1>8
  <2>2. Flat(t)[n] = Flat(s)[n] /\ Flat(s)[n] \in Seq(A)
    BY <1>5, <2>1, FlatSteps DEF n
  <2>3. Flat(t)[n + 1] = Flat(t)[n] \o t[n + 1]
    <3>1. n + 1 \in 1..(n + 1) /\ n + 1 # 1 /\ (n + 1) - 1 = n
      BY <1>1, <1>8
    <3>2. QED
      BY <1>2, <3>1
  <2>4. QED
    BY <1>1, <1>6, <1>8, <2>2, <2>3 DEF t
<1>9. QED
  BY <1>7, <1>8
---------------------------------------------------------------------------
\* Two sequences that are put together of pieces that fit

\* y goes with x element by element.
Fits(R, x, y) ==
  Len(x) = Len(y) /\ \A i \in 1..Len(x) : <<x[i], y[i]>> \in R

\* What is put together of what fits, fits.
LEMMA FitsConcat ==
  ASSUME NEW A, NEW B, NEW R, NEW x1 \in Seq(A), NEW x2 \in Seq(A),
         NEW y1 \in Seq(B), NEW y2 \in Seq(B), Fits(R, x1, y1), Fits(R, x2, y2)
  PROVE  Fits(R, x1 \o x2, y1 \o y2)
<1> DEFINE x == x1 \o x2
           y == y1 \o y2
           m == Len(x1)
           n == Len(x2)
<1>1. /\ m \in Nat /\ n \in Nat /\ m = Len(y1) /\ n = Len(y2)
      /\ \A i \in 1..m : <<x1[i], y1[i]>> \in R
      /\ \A i \in 1..n : <<x2[i], y2[i]>> \in R
  BY DEF Fits
<1>2. /\ Len(x) = m + n /\ Len(y) = m + n
      /\ \A i \in 1..(m + n) : /\ x[i] = IF i <= m THEN x1[i] ELSE x2[i - m]
                               /\ y[i] = IF i <= m THEN y1[i] ELSE y2[i - m]
  <2>1. /\ Len(x) = Len(x1) + Len(x2)
        /\ \A i \in 1..(Len(x1) + Len(x2)) :
             x[i] = IF i <= Len(x1) THEN x1[i] ELSE x2[i - Len(x1)]
    OBVIOUS
  <2>2. /\ Len(y) = Len(y1) + Len(y2)
        /\ \A i \in 1..(Len(y1) + Len(y2)) :
             y[i] = IF i <= Len(y1) THEN y1[i] ELSE y2[i - Len(y1)]
    OBVIOUS
  <2> HIDE DEF x, y
  <2>3. QED
    BY <1>1, <2>1, <2>2
<1> HIDE DEF x, y, m, n
<1>3. ASSUME NEW i \in 1..(m + n) PROVE <<x[i], y[i]>> \in R
  <2>1. CASE i <= m
    BY <1>1, <1>2, <2>1
  <2>2. CASE ~(i <= m)
    <3>1. i - m \in 1..n
      BY <1>1, <2>2
    <3>2. x[i] = x2[i - m] /\ y[i] = y2[i - m]
      BY <1>2, <2>2
    <3>3. QED
      BY <1>1, <3>1, <3>2
  <2>3. QED
    BY <2>1, <2>2
<1>4. QED
  BY <1>2, <1>3 DEF Fits, x, y

\* Two sequences, flattened, fit if their pieces do.
LEMMA FlattenFits ==
  ASSUME NEW A, NEW B, NEW R, NEW r \in Seq(Seq(A)), NEW s \in Seq(Seq(B)),
         Len(r) = Len(s), Len(r) # 0, \A i \in 1..Len(r) : Fits(R, r[i], s[i])
  PROVE  /\ FlattenSeq(r) \in Seq(A) /\ FlattenSeq(s) \in Seq(B)
         /\ Fits(R, FlattenSeq(r), FlattenSeq(s))
<1> DEFINE l == Len(r)
           T == {n \in Nat : n \in 1..l => Fits(R, Flat(r)[n], Flat(s)[n])}
<1>1. \A i \in 1..l : /\ Flat(r)[i] \in Seq(A)
                      /\ Flat(r)[i] = IF i = 1 THEN r[i] ELSE Flat(r)[i - 1] \o r[i]
  BY FlatSteps
<1>2. \A i \in 1..l : /\ Flat(s)[i] \in Seq(B)
                      /\ Flat(s)[i] = IF i = 1 THEN s[i] ELSE Flat(s)[i - 1] \o s[i]
  BY FlatSteps
<1>3. /\ l \in Nat
      /\ \A i \in 1..l : r[i] \in Seq(A) /\ s[i] \in Seq(B) /\ Fits(R, r[i], s[i])
  OBVIOUS
<1>4. ASSUME NEW n \in Nat, n \in T, n + 1 \in 1..l
      PROVE  Fits(R, Flat(r)[n + 1], Flat(s)[n + 1])
  <2>1. CASE n = 0
    BY <2>1, <1>1, <1>2, <1>3, <1>4
  <2>2. CASE n # 0
    <3>1. n \in 1..l /\ n + 1 # 1 /\ (n + 1) - 1 = n
      BY <2>2, <1>3, <1>4
    <3>2. /\ Fits(R, Flat(r)[n], Flat(s)[n]) /\ Flat(r)[n] \in Seq(A)
          /\ Flat(s)[n] \in Seq(B)
      BY <3>1, <1>1, <1>2, <1>4
    <3>3. /\ Flat(r)[n + 1] = Flat(r)[n] \o r[n + 1]
          /\ Flat(s)[n + 1] = Flat(s)[n] \o s[n + 1]
      BY <3>1, <1>1, <1>2, <1>4
    <3>4. r[n + 1] \in Seq(A) /\ s[n + 1] \in Seq(B) /\ Fits(R, r[n + 1], s[n + 1])
      BY <1>3, <1>4
    <3>5. Fits(R, Flat(r)[n] \o r[n + 1], Flat(s)[n] \o s[n + 1])
      BY <3>2, <3>4, FitsConcat
    <3>6. QED
      BY <3>3, <3>5
  <2>3. QED
    BY <2>1, <2>2
<1>5. Nat \subseteq T
  <2>1. 0 \in T
    OBVIOUS
  <2>2. ASSUME NEW n \in Nat, n \in T PROVE n + 1 \in T
    <3>1. n + 1 \in Nat /\ (n + 1 \in 1..l => Fits(R, Flat(r)[n + 1], Flat(s)[n + 1]))
      <4> HIDE DEF T
      <4> QED
        BY <1>4, <2>2
    <3>2. QED
      BY <3>1
  <2>3. QED
    <3> HIDE DEF T
    <3> QED
      BY <2>1, <2>2, NatAll
<1>6. l \in 1..l /\ l \in Nat
  BY <1>3
<1>7. FlattenSeq(r) = Flat(r)[l] /\ FlattenSeq(s) = Flat(s)[l]
  BY FlattenIsFlat
<1> HIDE DEF l
<1>8. QED
  BY <1>1, <1>2, <1>5, <1>6, <1>7

---------------------------------------------------------------------------
\* A sequence in which something is always followed by something

\* Behind each element in G, or in its place, there is one in E.
IsClosed(x, G, E) ==
  \A i \in 1..Len(x) : x[i] \in G => \E j \in i..Len(x) : x[j] \in E

\* The piece x has an element in E last.
EndsIn(x, E) == Len(x) # 0 /\ x[Len(x)] \in E

\* A sequence of pieces is closed if behind each piece with something in G, or in
\* its place, there is one with something in E last.
LEMMA FlattenClosed ==
  ASSUME NEW A, NEW G, NEW E, NEW s \in Seq(Seq(A)), Len(s) # 0,
         \A i \in 1..Len(s) : \A k \in 1..Len(s[i]) :
           s[i][k] \in G => \E j \in i..Len(s) : EndsIn(s[j], E)
  PROVE  IsClosed(FlattenSeq(s), G, E)
<1> DEFINE l == Len(s)
           Later(n) == \E j \in (n + 1)..l : EndsIn(s[j], E)
           Half(n) == \A p \in 1..Len(Flat(s)[n]) :
                        Flat(s)[n][p] \in G =>
                          (\E q \in p..Len(Flat(s)[n]) : Flat(s)[n][q] \in E) \/ Later(n)
           T == {n \in Nat : n \in 1..l => Half(n)}
<1>1. \A i \in 1..l : /\ Flat(s)[i] \in Seq(A)
                      /\ Flat(s)[i] = IF i = 1 THEN s[i] ELSE Flat(s)[i - 1] \o s[i]
  BY FlatSteps
<1>2. /\ l \in Nat
      /\ \A i \in 1..l : s[i] \in Seq(A) /\ Len(s[i]) \in Nat
      /\ \A i \in 1..l : \A k \in 1..Len(s[i]) :
           s[i][k] \in G => \E j \in i..l : EndsIn(s[j], E)
  <2>1. l \in Nat /\ \A i \in 1..l : s[i] \in Seq(A)
    OBVIOUS
  <2>2. \A i \in 1..l : Len(s[i]) \in Nat
    BY <2>1
  <2>3. QED
    BY <2>1, <2>2, Zenon
<1> HIDE DEF l
\* What a piece adds is closed by the piece or by a later one.
<1>3. ASSUME NEW n \in 1..l, NEW k \in 1..Len(s[n]), s[n][k] \in G
      PROVE  EndsIn(s[n], E) \/ Later(n)
  <2>1. PICK j \in n..l : EndsIn(s[j], E)
    BY <1>2, <1>3
  <2>2. j = n \/ j \in (n + 1)..l
    BY <1>2, <2>1
  <2>3. QED
    BY <2>1, <2>2
<1>4. 1 \in 1..l => Half(1)
  <2>1. SUFFICES ASSUME 1 \in 1..l, NEW p \in 1..Len(s[1]), s[1][p] \in G
                 PROVE  (\E q \in p..Len(s[1]) : s[1][q] \in E) \/ Later(1)
    BY <1>1
  <2>2. EndsIn(s[1], E) \/ Later(1)
    BY <1>3, <2>1
  <2>3. Len(s[1]) \in p..Len(s[1])
    BY <1>2, <2>1
  <2>4. QED
    BY <2>2, <2>3 DEF EndsIn
<1>5. ASSUME NEW n \in 1..l, n + 1 \in 1..l, Half(n) PROVE Half(n + 1)
  <2> DEFINE x == Flat(s)[n]
             y == s[n + 1]
             z == Flat(s)[n + 1]
  <2>1. z = x \o y /\ x \in Seq(A) /\ y \in Seq(A)
    <3>1. n + 1 # 1 /\ (n + 1) - 1 = n
      BY <1>5
    <3>2. QED
      BY <1>1, <1>2, <1>5, <3>1
  <2>2. /\ Len(x) \in Nat /\ Len(y) \in Nat /\ Len(z) = Len(x) + Len(y)
        /\ \A i \in 1..(Len(x) + Len(y)) : z[i] = IF i <= Len(x) THEN x[i] ELSE y[i - Len(x)]
    <3> HIDE DEF x, y, z
    <3> QED
      BY <2>1
  <2>3. \A p \in 1..Len(x) : x[p] \in G => (\E q \in p..Len(x) : x[q] \in E) \/ Later(n)
    BY <1>5
  <2>4. \A k \in 1..Len(y) : y[k] \in G => EndsIn(y, E) \/ Later(n + 1)
    BY <1>3, <1>5
  <2>5. Later(n) => EndsIn(y, E) \/ Later(n + 1)
    <3>1. SUFFICES ASSUME NEW j \in (n + 1)..l, EndsIn(s[j], E)
                   PROVE  EndsIn(s[n + 1], E) \/ \E i \in (n + 1 + 1)..l : EndsIn(s[i], E)
      OBVIOUS
    <3>2. j = n + 1 \/ j \in (n + 1 + 1)..l
      BY <1>2, <3>1
    <3>3. QED
      BY <3>1, <3>2
  <2> HIDE DEF x, y, z, Later
  <2>6. ASSUME EndsIn(y, E) PROVE Len(z) \in Nat /\ z[Len(z)] \in E
    BY <2>2, <2>6 DEF EndsIn
  <2>7. ASSUME NEW p \in 1..Len(z), z[p] \in G
        PROVE  (\E q \in p..Len(z) : z[q] \in E) \/ Later(n + 1)
    <3>1. Len(z) \in p..Len(z)
      BY <2>2, <2>7
    <3>2. CASE p <= Len(x)
      <4>1. p \in 1..Len(x) /\ x[p] \in G
        BY <2>2, <2>7, <3>2
      <4>2. CASE \E q \in p..Len(x) : x[q] \in E
        <5>1. PICK q \in p..Len(x) : x[q] \in E
          BY <4>2
        <5>2. q \in p..Len(z) /\ z[q] = x[q]
          BY <2>2, <2>7, <5>1
        <5>3. QED
          BY <5>1, <5>2
      <4>3. CASE Later(n)
        BY <2>5, <2>6, <3>1, <4>3
      <4>4. QED
        BY <2>3, <4>1, <4>2, <4>3
    <3>3. CASE ~(p <= Len(x))
      <4>1. p - Len(x) \in 1..Len(y) /\ z[p] = y[p - Len(x)]
        BY <2>2, <2>7, <3>3
      <4>2. QED
        BY <2>4, <2>6, <2>7, <3>1, <4>1
    <3>4. QED
      BY <3>2, <3>3
  <2>8. QED
    BY <2>7 DEF z
<1> HIDE DEF Half
<1>6. Nat \subseteq T
  <2>1. 0 \in T
    OBVIOUS
  <2>2. ASSUME NEW n \in Nat, n \in T PROVE n + 1 \in T
    <3>1. n + 1 \in Nat /\ (n = 0 \/ (n + 1 \in 1..l => n \in 1..l))
      BY <1>2
    <3>2. n \in 1..l => Half(n)
      BY <2>2
    <3>3. n + 1 \in 1..l => Half(n + 1)
      BY <1>4, <1>5, <3>1, <3>2
    <3>4. QED
      BY <3>1, <3>3
  <2>3. QED
    <3> HIDE DEF T
    <3> QED
      BY <2>1, <2>2, NatAll
<1>7. l \in 1..l /\ l \in Nat
  BY <1>2 DEF l
<1>8. Half(l)
  BY <1>6, <1>7
<1>9. ~Later(l)
  BY <1>7
<1>10. FlattenSeq(s) = Flat(s)[l]
  BY FlattenIsFlat DEF l
<1>11. QED
  BY <1>8, <1>9, <1>10 DEF Half, IsClosed

---------------------------------------------------------------------------
\* Counting

\* Z are the positions in X and, shifted by m, those in Y.
IsSplit(m, n, X, Y, Z) ==
  /\ m \in Nat /\ n \in Nat
  /\ X \subseteq 1..m /\ Y \subseteq 1..n /\ Z \subseteq 1..(m + n)
  /\ \A i \in 1..m : i \in Z <=> i \in X
  /\ \A i \in 1..n : m + i \in Z <=> i \in Y

\* Together, X and Y have as many as Z.
LEMMA CountSplit ==
  ASSUME NEW m, NEW n, NEW X, NEW Y, NEW Z, IsSplit(m, n, X, Y, Z)
  PROVE  /\ Cardinality(X) \in Nat /\ Cardinality(Y) \in Nat
         /\ Cardinality(Z) = Cardinality(X) + Cardinality(Y)
<1> USE DEF IsSplit
<1> DEFINE W == {i \in (m + 1)..(m + n) : i \in Z}
           f == [i \in Y |-> m + i]
<1>1. IsFiniteSet(X) /\ IsFiniteSet(Y)
  <2>1. IsFiniteSet(1..m) /\ IsFiniteSet(1..n)
    BY FS_Interval
  <2>2. QED
    BY <2>1, FS_Subset
<1>2. f \in Bijection(Y, W)
  <2>1. \A i \in Y : m + i \in W
    OBVIOUS
  <2>2. \A i, j \in Y : m + i = m + j => i = j
    OBVIOUS
  <2>3. ASSUME NEW w \in W PROVE \E i \in Y : m + i = w
    <3>1. w - m \in 1..n /\ m + (w - m) = w
      OBVIOUS
    <3>2. QED
      BY <3>1
  <2>4. QED
    <3> HIDE DEF W
    <3>1. f \in [Y -> W]
      BY <2>1
    <3>2. \A i, j \in Y : f[i] = f[j] => i = j
      BY <2>2
    <3>3. \A w \in W : \E i \in Y : f[i] = w
      BY <2>3
    <3>4. QED
      BY <3>1, <3>2, <3>3 DEF Bijection, Injection, Surjection, IsInjective
<1>3. IsFiniteSet(W) /\ Cardinality(W) = Cardinality(Y)
  BY <1>1, <1>2, FS_Bijection DEF ExistsBijection
<1>4. Z = X \cup W /\ X \cap W = {}
  <2>1. \A i \in 1..(m + n) : i \in 1..m \/ i \in (m + 1)..(m + n)
    OBVIOUS
  <2>2. \A i \in 1..m : i \notin (m + 1)..(m + n) /\ i \in 1..(m + n)
    OBVIOUS
  <2>3. QED
    BY <2>1, <2>2
<1>5. /\ Cardinality(X) \in Nat /\ Cardinality(Y) \in Nat
      /\ Cardinality(X \cap W) = 0
  BY <1>1, <1>4, FS_CardinalityType, FS_EmptySet
<1> HIDE DEF W, f
<1>6. Cardinality(X \cup W) = Cardinality(X) + Cardinality(W) - Cardinality(X \cap W)
  BY <1>1, <1>3, FS_Union
<1>7. QED
  BY <1>3, <1>4, <1>5, <1>6

---------------------------------------------------------------------------
\* Sums

Pick(s) == CHOOSE x \in s : TRUE

\* sum[s] is the sum of f over s, for the subsets of S.
IsSum(sum, f, S) ==
  sum = [s \in SUBSET S |-> IF s = {} THEN 0 ELSE f[Pick(s)] + sum[s \ {Pick(s)}]]

Sum(f, S) == CHOOSE sum : IsSum(sum, f, S)

\* The fold of the community modules is one.
LEMMA FoldIsSum ==
  ASSUME NEW f, NEW S
  PROVE  FoldFunctionOnSet(+, 0, f, S) = Sum(f, S)[S]
BY DEF FoldFunctionOnSet, MapThenFoldSet, Sum, IsSum, Pick

\* There is one, by induction over the size of the subsets.
LEMMA SumExists ==
  ASSUME NEW S, IsFiniteSet(S), NEW f, \A x \in S : f[x] \in Int
  PROVE  \E sum \in [SUBSET S -> Int] : IsSum(sum, f, S)
<1> DEFINE Small(n) == {s \in SUBSET S : Cardinality(s) <= n}
           Step(sum, s) == IF s = {} THEN 0 ELSE f[Pick(s)] + sum[s \ {Pick(s)}]
           Upto(n) == \E sum \in [Small(n) -> Int] : \A s \in Small(n) : sum[s] = Step(sum, s)
           T == {n \in Nat : Upto(n)}
<1>1. \A s \in SUBSET S : IsFiniteSet(s) /\ Cardinality(s) \in Nat
  BY FS_Subset, FS_CardinalityType
<1>2. ASSUME NEW s \in SUBSET S, s # {}
      PROVE  /\ Pick(s) \in s /\ f[Pick(s)] \in Int
             /\ s \ {Pick(s)} \in SUBSET S
             /\ Cardinality(s \ {Pick(s)}) = Cardinality(s) - 1
  <2>1. Pick(s) \in s
    BY <1>2 DEF Pick
  <2>2. QED
    BY <1>1, <2>1, FS_RemoveElement
<1>3. Upto(0)
  <2> DEFINE zero == [s \in Small(0) |-> 0]
  <2>1. \A s \in Small(0) : s = {}
    BY <1>1, FS_EmptySet
  <2>2. zero \in [Small(0) -> Int] /\ \A s \in Small(0) : zero[s] = 0
    OBVIOUS
  <2> HIDE DEF zero, Small
  <2>3. QED
    BY <2>1, <2>2
<1>4. ASSUME NEW n \in Nat, Upto(n) PROVE Upto(n + 1)
  <2>1. PICK sum \in [Small(n) -> Int] : \A s \in Small(n) : sum[s] = Step(sum, s)
    BY <1>4
  <2> DEFINE more == [s \in Small(n + 1) |-> Step(sum, s)]
  <2>2. ASSUME NEW s \in Small(n + 1), s # {}
        PROVE  /\ s \ {Pick(s)} \in Small(n) /\ sum[s \ {Pick(s)}] \in Int
               /\ s \ {Pick(s)} \in Small(n + 1)
               /\ f[Pick(s)] \in Int
    <3>1. /\ s \in SUBSET S /\ Cardinality(s) \in Nat /\ Cardinality(s) <= n + 1
      BY <1>1
    <3>2. /\ s \ {Pick(s)} \in SUBSET S
          /\ Cardinality(s \ {Pick(s)}) = Cardinality(s) - 1
          /\ f[Pick(s)] \in Int
      BY <1>2, <2>2
    <3>3. s \ {Pick(s)} \in Small(n) /\ s \ {Pick(s)} \in Small(n + 1)
      BY <3>1, <3>2
    <3>4. QED
      BY <2>1, <3>2, <3>3
  <2>3. \A s \in Small(n + 1) : Step(sum, s) \in Int
    BY <2>2
  <2>4. more \in [Small(n + 1) -> Int]
    <3> HIDE DEF Step, Small
    <3> QED
      BY <2>3
  <2>5. ASSUME NEW s \in Small(n) PROVE more[s] = sum[s]
    <3>1. s \in Small(n + 1)
      BY <1>1
    <3>2. QED
      BY <2>1, <3>1
  <2>6. ASSUME NEW s \in Small(n + 1) PROVE more[s] = Step(more, s)
    <3>1. CASE s = {}
      BY <3>1
    <3>2. CASE s # {}
      <4>1. more[s \ {Pick(s)}] = sum[s \ {Pick(s)}]
        BY <2>2, <2>5, <3>2
      <4>2. more[s] = Step(sum, s)
        OBVIOUS
      <4> HIDE DEF more
      <4>3. QED
        BY <4>1, <4>2
    <3>3. QED
      BY <3>1, <3>2
  <2> HIDE DEF more, Step, Small
  <2>7. QED
    BY <2>4, <2>6
<1> HIDE DEF Upto
<1>5. Nat \subseteq T
  <2>1. 0 \in T /\ \A n \in Nat : n \in T => n + 1 \in T
    BY <1>3, <1>4
  <2> HIDE DEF T
  <2>2. QED
    BY <2>1, NatAll
<1>6. Cardinality(S) \in Nat /\ Upto(Cardinality(S))
  BY <1>1, <1>5
<1>7. Small(Cardinality(S)) = SUBSET S
  BY <1>1, FS_Subset
<1>8. PICK sum \in [SUBSET S -> Int] : \A s \in SUBSET S : sum[s] = Step(sum, s)
  <2> HIDE DEF Small, Step
  <2> QED
    BY <1>6, <1>7 DEF Upto
<1>9. sum = [s \in SUBSET S |-> IF s = {} THEN 0 ELSE f[Pick(s)] + sum[s \ {Pick(s)}]]
  BY <1>8
<1>10. QED
  BY <1>9 DEF IsSum

\* It satisfies its recursion.
LEMMA SumSteps ==
  ASSUME NEW S, IsFiniteSet(S), NEW f, \A x \in S : f[x] \in Int
  PROVE  \A s \in SUBSET S :
           /\ Sum(f, S)[s] \in Int
           /\ Sum(f, S)[s] =
                IF s = {} THEN 0 ELSE f[Pick(s)] + Sum(f, S)[s \ {Pick(s)}]
<1> DEFINE sum == Sum(f, S)
<1>1. IsSum(sum, f, S)
  BY SumExists DEF Sum
<1> HIDE DEF sum
<1>2. \A s \in SUBSET S : sum[s] = IF s = {} THEN 0 ELSE f[Pick(s)] + sum[s \ {Pick(s)}]
  BY <1>1 DEF IsSum
<1> DEFINE T == {n \in Nat : \A s \in SUBSET S : Cardinality(s) = n => sum[s] \in Int}
<1>3. \A s \in SUBSET S : IsFiniteSet(s) /\ Cardinality(s) \in Nat
  BY FS_Subset, FS_CardinalityType
<1>4. 0 \in T
  BY <1>2, <1>3, FS_EmptySet
<1>5. ASSUME NEW n \in Nat, n \in T PROVE n + 1 \in T
  <2>1. ASSUME NEW s \in SUBSET S, Cardinality(s) = n + 1 PROVE sum[s] \in Int
    <3>1. s # {}
      BY <2>1, FS_EmptySet
    <3>2. Pick(s) \in s
      BY <3>1 DEF Pick
    <3>3. Cardinality(s \ {Pick(s)}) = n /\ s \ {Pick(s)} \in SUBSET S
      BY <1>3, <2>1, <3>2, FS_RemoveElement
    <3>4. sum[s \ {Pick(s)}] \in Int /\ f[Pick(s)] \in Int
      BY <1>5, <3>2, <3>3
    <3>5. QED
      BY <1>2, <3>1, <3>4
  <2>2. QED
    BY <2>1
<1>6. Nat \subseteq T
  <2> HIDE DEF T
  <2> QED
    BY <1>4, <1>5, NatAll
<1>7. QED
  BY <1>2, <1>3, <1>6 DEF sum

\* Whatever is picked first, the sum is the same.
LEMMA SumRemove ==
  ASSUME NEW S, IsFiniteSet(S), NEW f, \A x \in S : f[x] \in Int,
         NEW s \in SUBSET S, NEW x \in s
  PROVE  Sum(f, S)[s] = f[x] + Sum(f, S)[s \ {x}]
<1> DEFINE sum == Sum(f, S)
           T == {n \in Nat : \A u \in SUBSET S : Cardinality(u) = n =>
                               \A y \in u : sum[u] = f[y] + sum[u \ {y}]}
<1>1. \A u \in SUBSET S :
        /\ sum[u] \in Int
        /\ sum[u] = IF u = {} THEN 0 ELSE f[Pick(u)] + sum[u \ {Pick(u)}]
  BY SumSteps
<1> HIDE DEF sum
<1>2. \A u \in SUBSET S : IsFiniteSet(u) /\ Cardinality(u) \in Nat
  BY FS_Subset, FS_CardinalityType
<1>3. 0 \in T
  BY <1>2, FS_EmptySet
<1>4. ASSUME NEW n \in Nat, n \in T, NEW u \in SUBSET S, Cardinality(u) = n + 1, NEW y \in u
      PROVE  sum[u] = f[y] + sum[u \ {y}]
  <2> DEFINE z == Pick(u)
  <2>1. z \in u
    BY <1>4 DEF Pick
  <2>2. sum[u] = f[z] + sum[u \ {z}]
    BY <1>1, <1>4
  <2> HIDE DEF z
  <2>3. CASE z = y
    BY <2>2, <2>3
  <2>4. CASE z # y
    <3>1. /\ u \ {z} \in SUBSET S /\ y \in u \ {z}
          /\ u \ {y} \in SUBSET S /\ z \in u \ {y}
      BY <1>4, <2>1, <2>4
    <3>2. Cardinality(u \ {z}) = n /\ Cardinality(u \ {y}) = n
      <4>1. IsFiniteSet(u) /\ (n + 1) - 1 = n
        BY <1>2
      <4>2. /\ Cardinality(u \ {z}) = Cardinality(u) - 1
            /\ Cardinality(u \ {y}) = Cardinality(u) - 1
        <5> HIDE DEF T
        <5> QED
          BY <2>1, <4>1, FS_RemoveElement
      <4>3. Cardinality(u) = n + 1
        BY <1>4
      <4>4. QED
        BY <4>1, <4>2, <4>3
    <3>3. sum[u \ {z}] = f[y] + sum[(u \ {z}) \ {y}]
      BY <1>4, <3>1, <3>2
    <3>4. sum[u \ {y}] = f[z] + sum[(u \ {y}) \ {z}]
      BY <1>4, <3>1, <3>2
    <3> DEFINE rest == sum[(u \ {y}) \ {z}]
               noY == sum[u \ {y}]
               noZ == sum[u \ {z}]
               all == sum[u]
    <3>5. (u \ {z}) \ {y} = (u \ {y}) \ {z}
      OBVIOUS
    <3>6. all = f[z] + noZ /\ noZ = f[y] + rest /\ noY = f[z] + rest
      BY <2>2, <3>3, <3>4, <3>5
    <3>7. rest \in Int /\ f[y] \in Int /\ f[z] \in Int
      <4>1. (u \ {y}) \ {z} \in SUBSET S /\ y \in S /\ z \in S
        BY <1>4, <2>1
      <4>2. QED
        BY <1>1, <4>1
    <3> HIDE DEF rest, noY, noZ, all
    <3>8. all = f[y] + noY
      BY <3>6, <3>7
    <3>9. QED
      BY <3>8 DEF all, noY
  <2>5. QED
    BY <2>3, <2>4
<1>5. Nat \subseteq T
  <2>1. ASSUME NEW n \in Nat, n \in T PROVE n + 1 \in T
    <3>1. n + 1 \in Nat
      OBVIOUS
    <3>2. \A u \in SUBSET S : Cardinality(u) = n + 1 => \A y \in u : sum[u] = f[y] + sum[u \ {y}]
      <4> HIDE DEF T
      <4> QED
        BY <1>4, <2>1
    <3>3. QED
      BY <3>1, <3>2
  <2>2. \A n \in Nat : n \in T => n + 1 \in T
    <3> HIDE DEF T
    <3> QED
      BY <2>1
  <2> HIDE DEF T
  <2>3. QED
    BY <1>3, <2>2, NatAll
<1>6. QED
  BY <1>2, <1>5 DEF sum
---------------------------------------------------------------------------
\* Folds over a sequence of length n, which the community modules define over the
\* subsets of 1..n, the last position first

\* A set of positions that is not empty has a last one.
LEMMA LastPosition ==
  ASSUME NEW n \in Nat, NEW s \in SUBSET (1..n), s # {}
  PROVE  Max(s) \in s /\ \A y \in s : y <= Max(s)
<1> DEFINE d == {n - x : x \in s}
<1>1. d \in SUBSET Nat /\ d # {}
  <2>1. \A x \in s : n - x \in Nat
    OBVIOUS
  <2>2. PICK x \in s : TRUE
    OBVIOUS
  <2>3. n - x \in d
    OBVIOUS
  <2>4. QED
    BY <2>1, <2>3
<1>2. PICK m \in d : \A k \in d : m <= k
  <2> HIDE DEF d
  <2> QED
    BY <1>1, NatMin
<1>3. PICK x \in s : m = n - x
  BY <1>2
<1>4. \A y \in s : x >= y
  <2> SUFFICES ASSUME NEW y \in s PROVE x >= y
    OBVIOUS
  <2>1. n - y \in d /\ x \in Nat /\ y \in Nat
    OBVIOUS
  <2>2. n - x <= n - y
    BY <1>2, <1>3, <2>1
  <2>3. QED
    BY <2>1, <2>2
<1>5. Max(s) \in s /\ \A y \in s : Max(s) >= y
  BY <1>4 DEF Max
<1>6. QED
  BY <1>5

\* The last of the first n positions is n.
LEMMA LastOfAll ==
  ASSUME NEW n \in Nat \ {0}
  PROVE  Max(1..n) = n /\ (1..n) \ {n} = 1..(n - 1)
<1>1. 1..n \in SUBSET (1..n) /\ 1..n # {} /\ n \in 1..n
  OBVIOUS
<1>2. Max(1..n) \in 1..n /\ \A y \in 1..n : y <= Max(1..n)
  BY <1>1, LastPosition
<1>3. n <= Max(1..n)
  BY <1>1, <1>2
<1>4. QED
  BY <1>2, <1>3

\* From start, G takes what there is and the next position to what there is then.
IsFold(f, start, G, n) ==
  \A s \in SUBSET (1..n) :
    f[s] = IF s = {} THEN start ELSE G[<<f[s \ {Max(s)}], Max(s)>>]

\* There is a fold, by induction over the size of the subsets.
LEMMA FoldExists ==
  ASSUME NEW V, NEW start \in V, NEW n \in Nat, NEW G \in [V \X (1..n) -> V]
  PROVE  \E f \in [SUBSET (1..n) -> V] : IsFold(f, start, G, n)
<1> DEFINE S == 1..n
           Small(k) == {s \in SUBSET S : Cardinality(s) <= k}
           Step(f, s) == IF s = {} THEN start ELSE G[<<f[s \ {Max(s)}], Max(s)>>]
           Upto(k) == \E f \in [Small(k) -> V] : \A s \in Small(k) : f[s] = Step(f, s)
           T == {k \in Nat : Upto(k)}
<1>1. \A s \in SUBSET S : IsFiniteSet(s) /\ Cardinality(s) \in Nat
  <2>1. IsFiniteSet(S)
    <3>1. 1 \in Int /\ n \in Int
      OBVIOUS
    <3>2. QED
      BY <3>1, FS_Interval
  <2> HIDE DEF S
  <2>2. \A s \in SUBSET S : IsFiniteSet(s)
    BY <2>1, FS_Subset
  <2>3. QED
    BY <2>2, FS_CardinalityType
<1>2. ASSUME NEW s \in SUBSET S, s # {}
      PROVE  /\ Max(s) \in S
             /\ s \ {Max(s)} \in SUBSET S
             /\ Cardinality(s \ {Max(s)}) = Cardinality(s) - 1
  <2>1. Max(s) \in s
    BY <1>2, LastPosition
  <2>2. QED
    BY <1>1, <2>1, FS_RemoveElement
<1> HIDE DEF S
<1>3. Upto(0)
  <2> DEFINE first == [s \in Small(0) |-> start]
  <2>1. \A s \in Small(0) : s = {}
    BY <1>1, FS_EmptySet
  <2>2. first \in [Small(0) -> V] /\ \A s \in Small(0) : first[s] = start
    OBVIOUS
  <2> HIDE DEF first, Small
  <2>3. QED
    BY <2>1, <2>2
<1>4. ASSUME NEW k \in Nat, Upto(k) PROVE Upto(k + 1)
  <2>1. PICK f \in [Small(k) -> V] : \A s \in Small(k) : f[s] = Step(f, s)
    BY <1>4
  <2> DEFINE more == [s \in Small(k + 1) |-> Step(f, s)]
  <2>2. ASSUME NEW s \in Small(k + 1), s # {}
        PROVE  /\ s \ {Max(s)} \in Small(k) /\ f[s \ {Max(s)}] \in V
               /\ s \ {Max(s)} \in Small(k + 1)
               /\ Max(s) \in S
    <3>1. /\ s \in SUBSET S /\ Cardinality(s) \in Nat /\ Cardinality(s) <= k + 1
      BY <1>1
    <3>2. /\ s \ {Max(s)} \in SUBSET S
          /\ Cardinality(s \ {Max(s)}) = Cardinality(s) - 1
          /\ Max(s) \in S
      BY <1>2, <2>2
    <3>3. s \ {Max(s)} \in Small(k) /\ s \ {Max(s)} \in Small(k + 1)
      BY <3>1, <3>2
    <3>4. QED
      BY <2>1, <3>2, <3>3
  <2>3. \A s \in Small(k + 1) : Step(f, s) \in V
    BY <2>2 DEF S
  <2>4. more \in [Small(k + 1) -> V]
    <3> HIDE DEF Step, Small
    <3> QED
      BY <2>3
  <2>5. ASSUME NEW s \in Small(k) PROVE more[s] = f[s]
    <3>1. s \in Small(k + 1)
      BY <1>1
    <3>2. QED
      BY <2>1, <3>1
  <2>6. ASSUME NEW s \in Small(k + 1) PROVE more[s] = Step(more, s)
    <3>1. CASE s = {}
      BY <3>1
    <3>2. CASE s # {}
      <4>1. more[s \ {Max(s)}] = f[s \ {Max(s)}]
        BY <2>2, <2>5, <3>2
      <4>2. more[s] = Step(f, s)
        OBVIOUS
      <4> HIDE DEF more
      <4>3. QED
        BY <4>1, <4>2
    <3>3. QED
      BY <3>1, <3>2
  <2> HIDE DEF more, Step, Small
  <2>7. QED
    BY <2>4, <2>6
<1> HIDE DEF Upto
<1>5. Nat \subseteq T
  <2>1. 0 \in T /\ \A k \in Nat : k \in T => k + 1 \in T
    BY <1>3, <1>4
  <2> HIDE DEF T
  <2>2. QED
    BY <2>1, NatAll
<1>6. Cardinality(S) \in Nat /\ Upto(Cardinality(S))
  BY <1>1, <1>5
<1>7. Small(Cardinality(S)) = SUBSET S
  BY <1>1, FS_Interval, FS_Subset DEF S
<1>8. PICK f \in [SUBSET S -> V] : \A s \in SUBSET S : f[s] = Step(f, s)
  <2> HIDE DEF Small, Step
  <2> QED
    BY <1>6, <1>7 DEF Upto
<1>9. QED
  BY <1>8 DEF IsFold, S

\* f satisfies the recursion of the fold wherever its values are in V.
Unfolds(f, start, G, n, V) ==
  /\ f[{}] = start
  /\ \A s \in SUBSET (1..n) :
       s # {} /\ f[s \ {Max(s)}] \in V => f[s] = G[<<f[s \ {Max(s)}], Max(s)>>]

\* A fold is a run from start, one position after the other.
IsRun(q, start, G, n) == q[0] = start /\ \A k \in 1..n : q[k] = G[<<q[k - 1], k>>]

RunsTo(end, start, G, n, V) ==
  \E q \in [0..n -> V] : IsRun(q, start, G, n) /\ q[n] = end

\* Whoever satisfies the recursion of a fold runs through the positions.
LEMMA FoldRuns ==
  ASSUME NEW V, NEW start \in V, NEW n \in Nat, NEW G \in [V \X (1..n) -> V], NEW f,
         Unfolds(f, start, G, n, V)
  PROVE  RunsTo(f[1..n], start, G, n, V)
<1> DEFINE T == {k \in Nat : k <= n => f[1..k] \in V}
           q == [k \in 0..n |-> f[1..k]]
<1>1. f[1..0] = start
  <2>1. 1..0 = {}
    OBVIOUS
  <2>2. QED
    BY <2>1 DEF Unfolds
<1>2. ASSUME NEW k \in 1..n, f[1..(k - 1)] \in V
      PROVE  f[1..k] = G[<<f[1..(k - 1)], k>>] /\ f[1..k] \in V
  <2>1. k \in Nat \ {0} /\ 1..k \in SUBSET (1..n) /\ 1..k # {}
    OBVIOUS
  <2>2. Max(1..k) = k /\ (1..k) \ {k} = 1..(k - 1)
    BY <2>1, LastOfAll
  <2>3. f[1..k] = G[<<f[1..(k - 1)], k>>]
    BY <1>2, <2>1, <2>2 DEF Unfolds
  <2>4. QED
    BY <1>2, <2>3
<1>3. Nat \subseteq T
  <2>1. 0 \in T
    BY <1>1
  <2>2. ASSUME NEW k \in Nat, k \in T PROVE k + 1 \in T
    <3>1. CASE k + 1 <= n
      <4>1. k + 1 \in 1..n /\ (k + 1) - 1 = k /\ f[1..k] \in V
        BY <2>2, <3>1
      <4>2. f[1..(k + 1)] \in V
        BY <1>2, <4>1
      <4>3. QED
        BY <4>2
    <3>2. CASE ~(k + 1 <= n)
      BY <3>2
    <3>3. QED
      BY <3>1, <3>2
  <2> HIDE DEF T
  <2>3. QED
    BY <2>1, <2>2, NatAll
<1>4. \A k \in 0..n : f[1..k] \in V
  BY <1>3
<1>5. q \in [0..n -> V] /\ q[n] = f[1..n] /\ q[0] = start
  BY <1>1, <1>4
<1>6. ASSUME NEW k \in 1..n PROVE q[k] = G[<<q[k - 1], k>>]
  <2>1. k \in 0..n /\ k - 1 \in 0..n
    OBVIOUS
  <2>2. q[k] = f[1..k] /\ q[k - 1] = f[1..(k - 1)]
    BY <2>1
  <2>3. QED
    BY <1>2, <1>4, <2>1, <2>2
<1> HIDE DEF q
<1>7. QED
  BY <1>5, <1>6 DEF IsRun, RunsTo
=============================================================================
