-------------------------- MODULE PolicyStepProofs --------------------------
(***************************************************************************)
(* Proofs about a step from the reward to the update, for any turns, rows, *)
(* prices and sizes: the groups of the advantage are the prompts with all  *)
(* their samples, whose advantages cancel out, a correct answer is ahead   *)
(* of a wrong one as long as an answer is worth more than searching, every *)
(* search is rewarded once, and every row is used once in every epoch.     *)
(***************************************************************************)
EXTENDS PolicyStep, RewardProofs

---------------------------------------------------------------------------
\* Prompts and their samples

\* The rows of the prompt behind m others.
Block(m) == (m * N + 1)..(m * N + N)

\* b is M prompts, the rows of each together and N of them.
InBlocks(b, M) ==
  /\ Len(b) = M * N
  /\ \A m \in 0..(M - 1) : \A i \in Block(m), j \in 1..Len(b) :
       b[i].prompt = b[j].prompt <=> j \in Block(m)

\* Blocks follow each other.
LEMMA BlocksAscend ==
  ASSUME NEW m \in Nat, NEW l \in Nat
  PROVE  /\ N \in Nat /\ N > 0 /\ m * N \in Nat /\ l * N \in Nat
         /\ (m + l) * N = m * N + l * N
         /\ (m + 1) * N = m * N + N
         /\ m < l => m * N + N <= l * N
         /\ m <= l => m * N <= l * N
<1>1. N \in Nat /\ N > 0
  BY StepAssumption
<1>2. (m + l) * N = m * N + l * N /\ (m + 1) * N = m * N + N
  BY <1>1
<1>3. ASSUME NEW x \in Nat, NEW y \in Nat PROVE x * y \in Nat
  OBVIOUS
<1>4. m * N \in Nat /\ l * N \in Nat
  BY <1>1, <1>3
<1>5. ASSUME m < l PROVE m * N + N <= l * N
  <2>1. PICK d \in Nat : l = (m + 1) + d
    <3>1. l - (m + 1) \in Nat /\ l = (m + 1) + (l - (m + 1))
      BY <1>5
    <3>2. QED
      BY <3>1
  <2>2. l * N = (m + 1) * N + d * N
    BY <1>1, <2>1
  <2>3. d * N \in Nat
    BY <1>1, <1>3
  <2>4. QED
    BY <1>1, <1>2, <1>4, <2>2, <2>3
<1>6. m = l \/ m < l => (m <= l => m * N <= l * N)
  BY <1>1, <1>4, <1>5
<1>7. m <= l => m * N <= l * N
  <2>1. m <= l => m = l \/ m < l
    OBVIOUS
  <2>2. QED
    BY <1>6, <2>1
<1>8. QED
  BY <1>1, <1>2, <1>4, <1>5, <1>7

\* Every row is in a block.
LEMMA RowInBlock ==
  ASSUME NEW M \in Nat, NEW i \in 1..(M * N)
  PROVE  \E m \in 0..(M - 1) : i \in Block(m)
<1> DEFINE T == {k \in Nat : \A r \in 1..(k * N) : \E m \in 0..(k - 1) : r \in Block(m)}
<1>1. N \in Nat /\ N > 0 /\ 0 * N = 0
  BY StepAssumption
<1>2. 0 \in T
  BY <1>1
<1>3. ASSUME NEW k \in Nat, k \in T PROVE k + 1 \in T
  <2>1. k * N \in Nat /\ (k + 1) * N = k * N + N
    BY BlocksAscend
  <2>2. ASSUME NEW r \in 1..((k + 1) * N)
        PROVE  \E m \in 0..((k + 1) - 1) : r \in Block(m)
    <3>1. CASE r <= k * N
      <4>1. r \in 1..(k * N)
        BY <2>1, <3>1
      <4>2. PICK m \in 0..(k - 1) : r \in Block(m)
        BY <1>3, <4>1
      <4>3. m \in 0..((k + 1) - 1)
        OBVIOUS
      <4>4. QED
        BY <4>2, <4>3
    <3>2. CASE k * N < r
      <4>1. r \in Block(k) /\ k \in 0..((k + 1) - 1)
        BY <1>1, <2>1, <3>2 DEF Block
      <4>2. QED
        BY <4>1
    <3>3. QED
      BY <2>1, <3>1, <3>2
  <2>3. QED
    BY <2>2
<1> HIDE DEF T
<1>4. M \in T
  BY <1>2, <1>3, NatAll
<1>5. QED
  BY <1>4 DEF T

\* The quotient between two multiples.
LEMMA QuotientIs ==
  ASSUME NEW a \in Nat, NEW n \in Nat, n > 0, NEW m \in Nat,
         m * n <= a, a < m * n + n
  PROVE  a \div n = m
OBVIOUS

\* Which block, the code knows by a division.
LEMMA BlockOf ==
  ASSUME NEW m \in Nat, NEW i \in Block(m)
  PROVE  (i - 1) \div N = m
<1>1. N \in Nat /\ N > 0 /\ m * N \in Nat
  BY BlocksAscend
<1>2. i - 1 \in Nat /\ m * N <= i - 1 /\ i - 1 < m * N + N
  BY <1>1 DEF Block
<1>3. QED
  BY <1>1, <1>2, QuotientIs
\* No row of x has the prompt of a row of y.
Apart(x, y) == \A i \in 1..Len(x), j \in 1..Len(y) : x[i].prompt # y[j].prompt

\* The prompts of two batches, one behind the other.
LEMMA BlocksConcat ==
  ASSUME NEW A, NEW x \in Seq(A), NEW y \in Seq(A), NEW z \in Seq(A), IsConcat(z, x, y),
         NEW M \in Nat, NEW L \in Nat, InBlocks(x, M), InBlocks(y, L), Apart(x, y)
  PROVE  InBlocks(z, M + L)
<1>1. /\ Len(x) = M * N /\ Len(y) = L * N /\ M * N \in Nat /\ L * N \in Nat
      /\ Len(z) = (M + L) * N /\ (M + L) * N = M * N + L * N
      /\ N \in Nat /\ N > 0
  <2>1. Len(x) = M * N /\ Len(y) = L * N /\ Len(z) = Len(x) + Len(y)
    BY DEF InBlocks, IsConcat
  <2>2. QED
    BY <2>1, BlocksAscend
<1>2. ASSUME NEW j \in 1..Len(z)
      PROVE  \/ j \in 1..Len(x) /\ z[j] = x[j]
             \/ j - Len(x) \in 1..Len(y) /\ z[j] = y[j - Len(x)]
  <2>1. CASE j <= Len(x)
    <3>1. j \in 1..Len(x)
      BY <1>1, <2>1
    <3>2. QED
      BY <3>1 DEF IsConcat
  <2>2. CASE Len(x) < j
    <3>1. j - Len(x) \in 1..Len(y) /\ Len(x) + (j - Len(x)) = j
      BY <1>1, <2>2
    <3>2. z[Len(x) + (j - Len(x))] = y[j - Len(x)]
      BY <3>1 DEF IsConcat
    <3>3. QED
      BY <3>1, <3>2
  <2>3. QED
    BY <1>1, <2>1, <2>2
<1>3. ASSUME NEW m \in 0..((M + L) - 1), NEW i \in Block(m), NEW j \in 1..Len(z)
      PROVE  z[i].prompt = z[j].prompt <=> j \in Block(m)
  <2>1. m \in Nat /\ m * N \in Nat /\ m * N < i /\ i <= m * N + N /\ i \in Nat
    <3>1. m \in Nat
      OBVIOUS
    <3>2. m * N \in Nat /\ N \in Nat
      BY <3>1, BlocksAscend
    <3>3. QED
      BY <3>1, <3>2 DEF Block
  <2>2. CASE m < M
    <3>1. m \in 0..(M - 1) /\ m * N + N <= M * N
      BY <2>1, <2>2, BlocksAscend
    <3>2. i \in 1..Len(x) /\ z[i] = x[i]
      <4>1. i \in 1..Len(x)
        <5> DEFINE p == m * N
                   r == M * N
        <5>1. /\ p \in Nat /\ r \in Nat /\ i \in Nat /\ N \in Nat
              /\ p < i /\ i <= p + N /\ p + N <= r /\ Len(x) = r
          BY <1>1, <2>1, <3>1
        <5> HIDE DEF p, r
        <5>2. QED
          BY <5>1
      <4>2. QED
        BY <4>1 DEF IsConcat
    <3>3. CASE j \in 1..Len(x) /\ z[j] = x[j]
      <4>1. x[i].prompt = x[j].prompt <=> j \in Block(m)
        BY <3>1, <3>3 DEF InBlocks
      <4>2. QED
        BY <3>2, <3>3, <4>1
    <3>4. CASE j - Len(x) \in 1..Len(y) /\ z[j] = y[j - Len(x)]
      <4>1. x[i].prompt # y[j - Len(x)].prompt
        BY <3>2, <3>4 DEF Apart
      <4>2. j \notin Block(m)
        <5> DEFINE p == m * N
                   r == M * N
        <5>1. /\ p \in Nat /\ r \in Nat /\ N \in Nat /\ p + N <= r /\ Len(x) = r
              /\ Len(y) \in Nat /\ j \in Int
              /\ Block(m) = (p + 1)..(p + N)
          BY <1>1, <2>1, <3>1 DEF Block
        <5> HIDE DEF p, r
        <5>2. j - r \in 1..Len(y)
          BY <3>4, <5>1
        <5>3. r < j
          BY <5>1, <5>2
        <5>4. p + N < j
          BY <5>1, <5>3
        <5>5. QED
          BY <5>1, <5>4
      <4>3. QED
        BY <3>2, <3>4, <4>1, <4>2
    <3>5. QED
      BY <1>2, <3>3, <3>4
  <2>3. CASE ~(m < M)
    <3> DEFINE l == m - M
    <3>1. l \in 0..(L - 1) /\ m = M + l /\ l \in Nat
      BY <2>3
    <3> HIDE DEF l
    <3>2. m * N = M * N + l * N /\ l * N \in Nat /\ l * N + N <= L * N
      <4>1. (M + l) * N = M * N + l * N /\ l * N \in Nat
        BY <3>1, BlocksAscend
      <4>2. l < L
        BY <3>1
      <4>3. l * N + N <= L * N
        BY <3>1, <4>2, BlocksAscend
      <4>4. QED
        BY <3>1, <4>1, <4>3
    <3>3. i - Len(x) \in Block(l) /\ i - Len(x) \in 1..Len(y)
      BY <1>1, <2>1, <3>2 DEF Block
    <3>4. z[i] = y[i - Len(x)]
      <4>1. Len(x) + (i - Len(x)) = i
        BY <1>1, <2>1
      <4>2. z[Len(x) + (i - Len(x))] = y[i - Len(x)]
        BY <3>3 DEF IsConcat
      <4>3. QED
        BY <4>1, <4>2
    <3>5. CASE j \in 1..Len(x) /\ z[j] = x[j]
      <4>1. x[j].prompt # y[i - Len(x)].prompt
        BY <3>3, <3>5 DEF Apart
      <4>2. j \notin Block(m)
        BY <1>1, <2>1, <3>2, <3>5 DEF Block
      <4>3. QED
        BY <3>4, <3>5, <4>1, <4>2
    <3>6. CASE j - Len(x) \in 1..Len(y) /\ z[j] = y[j - Len(x)]
      <4>1. y[i - Len(x)].prompt = y[j - Len(x)].prompt <=> j - Len(x) \in Block(l)
        BY <3>1, <3>3, <3>6 DEF InBlocks
      <4>2. j - Len(x) \in Block(l) <=> j \in Block(m)
        <5> DEFINE p == m * N
                   q == l * N
                   r == M * N
        <5>1. /\ p = r + q /\ q \in Nat /\ r \in Nat /\ N \in Nat /\ j \in Int
              /\ Len(x) = r
              /\ Block(m) = (p + 1)..(p + N) /\ Block(l) = (q + 1)..(q + N)
          BY <1>1, <2>1, <3>2 DEF Block
        <5> HIDE DEF p, q, r
        <5>2. j - r \in (q + 1)..(q + N) <=> j \in ((r + q) + 1)..((r + q) + N)
          BY <5>1
        <5>3. QED
          BY <5>1, <5>2
      <4>3. QED
        BY <3>4, <3>6, <4>1, <4>2
    <3>7. QED
      BY <1>2, <3>5, <3>6
  <2>4. QED
    BY <2>2, <2>3
<1>4. QED
  BY <1>1, <1>3 DEF InBlocks

\* The first prompts of a batch.
LEMMA BlocksCut ==
  ASSUME NEW A, NEW b \in Seq(A), NEW M \in Nat, InBlocks(b, M), NEW L \in Nat, L <= M
  PROVE  /\ SubSeq(b, 1, L * N) \in Seq(A)
         /\ InBlocks(SubSeq(b, 1, L * N), L)
         /\ \A i \in 1..Len(SubSeq(b, 1, L * N)) :
              i \in 1..Len(b) /\ SubSeq(b, 1, L * N)[i] = b[i]
<1>1. /\ Len(b) = M * N /\ M * N \in Nat /\ L * N \in Nat /\ L * N <= M * N
      /\ N \in Nat /\ N > 0
  BY BlocksAscend DEF InBlocks
<1> DEFINE x == SubSeq(b, 1, L * N)
<1>2. /\ x \in Seq(A) /\ Len(x) = L * N
      /\ \A i \in 1..(L * N) : x[i] = b[i]
  <2> DEFINE k == L * N
  <2>1. 0 + k <= Len(b) /\ k \in Nat
    BY <1>1
  <2> HIDE DEF k
  <2>2. /\ SubSeq(b, 0 + 1, 0 + k) \in Seq(A)
        /\ Len(SubSeq(b, 0 + 1, 0 + k)) = k
        /\ \A i \in 1..k : SubSeq(b, 0 + 1, 0 + k)[i] = b[0 + i]
    BY <2>1, StretchIs
  <2>3. 0 + 1 = 1 /\ 0 + k = k /\ \A i \in 1..k : 0 + i = i
    BY <2>1
  <2>4. QED
    BY <2>2, <2>3 DEF k
<1> HIDE DEF x
<1>3. \A i \in 1..Len(x) : i \in 1..Len(b) /\ x[i] = b[i]
  BY <1>1, <1>2
<1>4. ASSUME NEW m \in 0..(L - 1), NEW i \in Block(m), NEW j \in 1..Len(x)
      PROVE  x[i].prompt = x[j].prompt <=> j \in Block(m)
  <2>1. m \in Nat /\ m < L /\ m \in 0..(M - 1)
    OBVIOUS
  <2>2. m * N \in Nat /\ m * N + N <= L * N
    BY <2>1, BlocksAscend
  <2>3. i \in 1..Len(x) /\ j \in 1..Len(b)
    <3>1. j \in 1..Len(b)
      BY <1>3
    <3> DEFINE p == m * N
               r == L * N
    <3>2. /\ p \in Nat /\ r \in Nat /\ N \in Nat /\ p + N <= r
          /\ Len(x) = r /\ i \in (p + 1)..(p + N)
      BY <1>1, <1>2, <2>2 DEF Block
    <3> HIDE DEF p, r
    <3>3. i \in 1..Len(x)
      BY <3>2
    <3>4. QED
      BY <3>1, <3>3
  <2>4. b[i].prompt = b[j].prompt <=> j \in Block(m)
    BY <2>1, <2>3 DEF InBlocks
  <2>5. QED
    BY <1>3, <2>3, <2>4
<1>5. InBlocks(x, L)
  BY <1>2, <1>4 DEF InBlocks
<1>6. QED
  BY <1>2, <1>3, <1>5 DEF x

\* A batch has as many prompts as blocks: each is that of a block's first row.
LEMMA BlocksCount ==
  ASSUME NEW A, NEW b \in Seq(A), NEW M \in Nat, InBlocks(b, M)
  PROVE  /\ Cardinality(PromptsOf(b)) \in Nat
         /\ Cardinality(PromptsOf(b)) <= M
<1> DEFINE D == 0..(M - 1)
           f == [m \in D |-> b[m * N + 1].prompt]
<1>1. Len(b) = M * N /\ M * N \in Nat /\ N \in Nat /\ N > 0
  BY BlocksAscend DEF InBlocks
<1>2. ASSUME NEW i \in 1..Len(b) PROVE \E m \in D : b[i].prompt = f[m]
  <2>1. PICK m \in 0..(M - 1) : i \in Block(m)
    BY <1>1, RowInBlock
  <2>2. m \in Nat /\ m * N \in Nat
    <3>1. m \in Nat
      OBVIOUS
    <3>2. QED
      BY <3>1, BlocksAscend
  <2>3. m * N + 1 \in Block(m)
    BY <1>1, <2>2 DEF Block
  <2>4. b[m * N + 1].prompt = b[i].prompt
    BY <2>1, <2>3 DEF InBlocks
  <2>5. QED
    BY <2>4
<1>3. PromptsOf(b) \subseteq {f[m] : m \in D}
  <2>1. DOMAIN b = 1..Len(b)
    OBVIOUS
  <2> HIDE DEF f
  <2>2. QED
    BY <1>2, <2>1 DEF PromptsOf
<1>4. IsFiniteSet(D) /\ Cardinality(D) = M
  <2>1. IsFiniteSet(D)
    BY FS_Interval
  <2>2. Cardinality(D) = IF 0 > M - 1 THEN 0 ELSE (M - 1) - 0 + 1
    BY FS_Interval
  <2>3. QED
    BY <2>1, <2>2
<1> DEFINE I == {f[m] : m \in D}
<1>5. f \in Surjection(D, I)
  BY DEF Surjection
<1> HIDE DEF D, f, I
<1>6. IsFiniteSet(I) /\ Cardinality(I) <= M
  BY <1>4, <1>5, FS_Surjection
<1>7. Cardinality(I) \in Nat /\ IsFiniteSet(PromptsOf(b))
      /\ Cardinality(PromptsOf(b)) <= Cardinality(I)
  BY <1>3, <1>6, FS_Subset, FS_CardinalityType DEF I
<1>8. QED
  BY <1>6, <1>7, FS_CardinalityType
\* x is made of the first k elements of s, and in blocks.
IsPart(x, s, k, A) ==
  /\ x \in Seq(A)
  /\ \E L \in Nat : InBlocks(x, L)
  /\ \A i \in 1..Len(x) : \E j \in 1..k : x[i] = s[j]

\* What is kept or left a prompt at a time stays in blocks.
LEMMA KeepBlocks ==
  ASSUME NEW A, NEW s \in Seq(A), NEW M \in Nat, InBlocks(s, M), NEW S,
         \A i, j \in 1..Len(s) :
           s[i].prompt = s[j].prompt => (s[i] \in S <=> s[j] \in S)
  PROVE  IsPart(Keep(s, S), s, Len(s), A)
<1>1. PICK q : IsKept(q, s, S, A) /\ q[Len(s)] = Keep(s, S)
  BY KeepRuns
<1> DEFINE T == {m \in Nat : m <= M => IsPart(q[m * N], s, m * N, A)}
<1>2. Len(s) = M * N /\ N \in Nat /\ N > 0 /\ M * N \in Nat
  BY BlocksAscend DEF InBlocks
<1>3. 0 \in T
  <2>1. 0 * N = 0 /\ q[0] = <<>> /\ <<>> \in Seq(A) /\ Len(<<>>) = 0
    BY <1>1, <1>2 DEF IsKept
  <2>2. InBlocks(<<>>, 0)
    BY <2>1 DEF InBlocks
  <2>3. IsPart(<<>>, s, 0, A)
    BY <2>1, <2>2 DEF IsPart
  <2>4. QED
    BY <2>1, <2>3
<1>4. ASSUME NEW m \in Nat, m \in T PROVE m + 1 \in T
  <2>1. CASE m + 1 <= M
    <3> DEFINE a == m * N
               b == a + N
               x == q[a]
               y == SubSeq(s, a + 1, b)
    <3>1. /\ m <= M /\ m < M /\ m \in 0..(M - 1)
      BY <2>1
    <3>2. /\ a \in Nat /\ b \in Nat /\ b = a + N /\ (m + 1) * N = b
          /\ b <= Len(s) /\ a \in 0..Len(s) /\ b \in a..Len(s)
      <4>1. a \in Nat /\ (m + 1) * N = b /\ b <= M * N
        BY <3>1, BlocksAscend
      <4>2. b = a + N
        OBVIOUS
      <4> DEFINE r == M * N
      <4>3. r \in Nat /\ b <= r /\ Len(s) = r
        BY <1>2, <4>1
      <4> HIDE DEF a, b, r
      <4>4. QED
        BY <1>2, <4>1, <4>2, <4>3
    <3>3. Block(m) = (a + 1)..b
      BY DEF Block
    <3> HIDE DEF a, b
    <3>4. IsPart(x, s, a, A)
      BY <1>4, <3>1 DEF a
    <3>5. a + 1 \in Block(m) /\ a + 1 \in 1..Len(s)
      BY <1>2, <3>2, <3>3
    <3>6. \A i \in Block(m) : i \in 1..Len(s) /\ s[i].prompt = s[a + 1].prompt
      <4>1. \A i \in Block(m) : i \in 1..Len(s)
        BY <3>2, <3>3
      <4>2. QED
        BY <3>1, <3>5, <4>1 DEF InBlocks
    <3>7. CASE s[a + 1] \in S
      <4>1. \A k \in (a + 1)..b : s[k] \in S
        BY <3>3, <3>5, <3>6, <3>7
      <4>2. q[b] = x \o y
        <5>1. Appended(q, s, a, b)
          BY <1>1, <3>2, <4>1, KeepAllOf
        <5>2. QED
          BY <5>1, Zenon DEF Appended
      <4>3. /\ y \in Seq(A) /\ Len(y) = N
            /\ \A i \in 1..N : y[i] = s[a + i]
        BY <1>2, <3>2, StretchIs
      <4>4. InBlocks(y, 1)
        <5>1. 1 * N = N /\ 0 * N = 0 /\ Block(0) = 1..N
          BY <1>2 DEF Block
        <5>2. \A i \in 1..N : a + i \in Block(m)
          BY <1>2, <3>2, <3>3
        <5> DEFINE p == s[a + 1].prompt
        <5> HIDE DEF y, p
        <5>3. \A i \in 1..N : y[i].prompt = p
          BY <3>6, <4>3, <5>2 DEF p
        <5>4. QED
          BY <4>3, <5>1, <5>3 DEF InBlocks
      <4>5. Apart(x, y)
        <5>1. ASSUME NEW i \in 1..Len(x), NEW j \in 1..Len(y)
              PROVE  x[i].prompt # y[j].prompt
          <6>1. PICK k \in 1..a : x[i] = s[k]
            BY <3>4 DEF IsPart
          <6>2. k \in 1..Len(s) /\ k \notin Block(m)
            BY <3>2, <3>3
          <6>3. s[a + 1].prompt # s[k].prompt
            BY <3>1, <3>5, <6>2 DEF InBlocks
          <6>4. a + j \in Block(m) /\ y[j] = s[a + j]
            BY <1>2, <3>2, <3>3, <4>3
          <6>5. s[a + j].prompt = s[a + 1].prompt
            BY <3>6, <6>4
          <6>6. QED
            BY <6>1, <6>3, <6>4, <6>5
        <5>2. QED
          BY <5>1 DEF Apart
      <4> DEFINE z == x \o y
      <4>6. x \in Seq(A)
        BY <3>4 DEF IsPart
      <4> HIDE DEF x, y
      <4>7. IsConcat(z, x, y) /\ z \in Seq(A)
        BY <4>3, <4>6, ConcatIs
      <4> HIDE DEF z
      <4>8. \E L \in Nat : InBlocks(z, L)
        <5>1. PICK L \in Nat : InBlocks(x, L)
          BY <3>4 DEF IsPart
        <5>2. InBlocks(z, L + 1)
          BY <4>3, <4>4, <4>5, <4>6, <4>7, <5>1, BlocksConcat
        <5>3. QED
          BY <5>2
      <4>9. ASSUME NEW i \in 1..Len(z) PROVE \E j \in 1..b : z[i] = s[j]
        <5>1. Len(x) \in Nat /\ Len(z) = Len(x) + N
          BY <4>3, <4>6, <4>7 DEF IsConcat
        <5>2. CASE i <= Len(x)
          <6>1. i \in 1..Len(x)
            BY <5>1, <5>2
          <6>2. z[i] = x[i]
            BY <4>7, <6>1 DEF IsConcat
          <6>3. PICK j \in 1..a : x[i] = s[j]
            BY <3>4, <6>1 DEF IsPart
          <6>4. j \in 1..b
            BY <1>2, <3>2
          <6>5. QED
            BY <6>2, <6>3, <6>4
        <5>3. CASE Len(x) < i
          <6>1. i - Len(x) \in 1..Len(y) /\ Len(x) + (i - Len(x)) = i
            BY <4>3, <5>1, <5>3
          <6>2. z[Len(x) + (i - Len(x))] = y[i - Len(x)]
            BY <4>7, <6>1 DEF IsConcat
          <6>3. a + (i - Len(x)) \in 1..b /\ y[i - Len(x)] = s[a + (i - Len(x))]
            BY <1>2, <3>2, <4>3, <6>1
          <6>4. QED
            BY <6>1, <6>2, <6>3
        <5>4. QED
          BY <5>1, <5>2, <5>3
      <4>10. IsPart(z, s, b, A)
        BY <4>7, <4>8, <4>9 DEF IsPart
      <4>11. q[b] = z
        BY <4>2 DEF z, x, y
      <4>12. QED
        BY <3>2, <4>10, <4>11
    <3>8. CASE s[a + 1] \notin S
      <4>1. \A k \in (a + 1)..b : s[k] \notin S
        BY <3>3, <3>5, <3>6, <3>8
      <4>2. q[b] = x
        BY <1>1, <3>2, <4>1, KeepNoneOf
      <4>3. \A j \in 1..a : j \in 1..b
        BY <1>2, <3>2
      <4>4. IsPart(x, s, b, A)
        BY <3>4, <4>3 DEF IsPart
      <4>5. QED
        BY <3>2, <4>2, <4>4
    <3>9. QED
      BY <3>7, <3>8
  <2>2. CASE ~(m + 1 <= M)
    BY <2>2
  <2>3. QED
    BY <2>1, <2>2
<1> HIDE DEF T
<1>5. Nat \subseteq T
  BY <1>3, <1>4, NatAll
<1>6. M \in T /\ M <= M
  BY <1>5
<1>7. IsPart(q[M * N], s, M * N, A)
  BY <1>6 DEF T
<1>8. QED
  BY <1>1, <1>2, <1>7
---------------------------------------------------------------------------
\* Steps that leave the row, and steps that take another

\* A step takes another row, or none, and scores nothing; or leaves it.
NewRow == (row' \in Rows \/ row' = <<>>) /\ status' # "scored" /\ info' \in Infos

\* Taking a row does so,
LEMMA TakeRowIs ==
  ASSUME info \in Infos, NEW i, TakeRow(i)
  PROVE  NewRow
<1>1. row' \in OtherRows /\ OtherRows \subseteq Rows
  BY StepAssumption DEF TakeRow
<1>2. PICK edge \in Tools \cup {"none"} : info' = [info EXCEPT !.edge = edge]
  <2>1. PICK edge \in IF (i - 1) % N = 0 THEN Edges(info.mode) ELSE {info.edge} :
          info' = [info EXCEPT !.edge = edge]
    BY DEF TakeRow
  <2>2. info.edge \in Tools \cup {"none"}
    BY DEF Infos
  <2>3. Edges(info.mode) \subseteq Tools \cup {"none"}
    BY DEF Edges
  <2>4. edge \in Tools \cup {"none"}
    BY <2>1, <2>2, <2>3
  <2>5. QED
    BY <2>1, <2>4
<1>3. info' \in Infos
  BY <1>2 DEF Infos
<1>4. status' # "scored"
  BY DEF TakeRow
<1>5. QED
  BY <1>1, <1>3, <1>4 DEF NewRow

\* and so does having none left.
LEMMA NoRowIs ==
  ASSUME info \in Infos, NoRow
  PROVE  NewRow
<1>1. info' \in Infos
  BY DEF NoRow, Infos
<1>2. QED
  BY <1>1 DEF NoRow, NewRow

\* The first row is any row.
LEMMA RowInit == Init => RowInv
<1> SUFFICES ASSUME Init PROVE RowInv
  OBVIOUS
<1>1. /\ row \in Rows /\ score = 0 /\ spans = <<>> /\ status = "waiting"
      /\ info \in Infos
  BY DEF Init, RewardInit, Infos
<1>2. <<>> \in Seq(Spans)
  OBVIOUS
<1>3. QED
  BY <1>1, <1>2 DEF RowInv

\* Where the row changes, or nothing of it, the invariant stays.
LEMMA RowTaken ==
  ASSUME RowInv, NewRow, score' \in Int, spans' \in Seq(Spans)
  PROVE  RowInv'
BY DEF RowInv, NewRow

\* The score is made of nothing but the row and its information.
LEMMA SameRow ==
  ASSUME UNCHANGED <<row, info>>
  PROVE  ComputeScore' = ComputeScore
<1>1. row' = row /\ info' = info
  OBVIOUS
<1>2. Mask' = Mask
  BY <1>1 DEF Mask
<1>3. SegmentStarts' = SegmentStarts /\ SegmentEnds' = SegmentEnds
  BY <1>1, <1>2 DEF SegmentStarts, SegmentEnds
<1>4. Segments' = Segments
  BY <1>1, <1>3 DEF Segments
<1>5. Responses' = Responses
  BY <1>4 DEF Responses
<1>6. /\ FormatScore' = FormatScore /\ SearchCount' = SearchCount
      /\ Correct' = Correct
  BY <1>5 DEF FormatScore, SearchCount, Correct
<1>7. AnswerScore' = AnswerScore
  BY <1>1, <1>6 DEF AnswerScore
<1>8. ComputeScore' = ComputeScore
  BY <1>6, <1>7 DEF ComputeScore
<1>9. QED
  BY <1>8

\* A step that leaves the row leaves what holds of it.
LEMMA RowKept ==
  ASSUME RowInv, UNCHANGED rewardVars
  PROVE  RowInv'
<1>1. UNCHANGED <<row, info, status, score, spans>>
  BY DEF rewardVars
<1>2. ComputeScore' = ComputeScore
  BY <1>1, SameRow
<1>3. QED
  BY <1>1, <1>2 DEF RowInv

\* A row is given its own score and its own spans.
LEMMA RowScored ==
  ASSUME RowInv, Score
  PROVE  RowInv'
<1>1. UNCHANGED <<row, info>> /\ InTurns(row) /\ info \in Infos
  BY RowInTurns DEF Score, RowInv
<1>2. ComputeScore' = ComputeScore
  BY <1>1, SameRow
<1>3. CASE ValidLength = 0 \/ CannotScore
  <2>1. status' = "raised" /\ UNCHANGED <<score, spans>>
    BY <1>3 DEF Score
  <2>2. QED
    BY <1>1, <2>1 DEF RowInv
<1>4. CASE ~(ValidLength = 0 \/ CannotScore)
  <2>1. score' = ComputeScore /\ spans' = Rewarded
    BY <1>4 DEF Score
  <2>2. ComputeScore \in Int /\ Rewarded \in Seq(Spans)
    BY <1>1, ScoreTyped, SpansTyped
  <2>3. QED
    BY <1>1, <1>2, <2>1, <2>2 DEF RowInv
<1>5. QED
  BY <1>3, <1>4

\* Every step leaves a row of the batch, or none, with its own score.
LEMMA RowNext == RowInv /\ [Next]_vars => RowInv'
<1> SUFFICES ASSUME RowInv, [Next]_vars PROVE RowInv'
  OBVIOUS
<1>1. 0 \in Int /\ <<>> \in Seq(Spans) /\ info \in Infos
  BY DEF RowInv
<1>2. CASE RewardRow
  BY <1>2, RowScored DEF RewardRow
<1>3. CASE NextRow
  <2>1. TakeRow(Len(newBatch) + 2) /\ score' = 0 /\ spans' = <<>>
    BY <1>3 DEF NextRow
  <2>2. NewRow
    BY <1>1, <2>1, TakeRowIs
  <2>3. QED
    BY <1>1, <2>1, <2>2, RowTaken
<1>4. CASE EndReward
  <2>1. NoRow /\ score' = 0 /\ spans' = <<>>
    BY <1>4 DEF EndReward
  <2>2. NewRow
    BY <1>1, <2>1, NoRowIs
  <2>3. QED
    BY <1>1, <2>1, <2>2, RowTaken
<1>5. CASE KeepGroups
  <2>1. UNCHANGED <<score, spans>> /\ (TakeRow(1) \/ UNCHANGED <<row, status, info>>)
    BY <1>5 DEF KeepGroups
  <2>2. CASE TakeRow(1)
    <3>1. NewRow
      BY <1>1, <2>2, TakeRowIs
    <3>2. QED
      BY <2>1, <3>1, RowTaken DEF RowInv
  <2>3. CASE UNCHANGED <<row, status, info>>
    BY <2>1, <2>3, RowKept DEF rewardVars
  <2>4. QED
    BY <2>1, <2>2, <2>3
<1>6. CASE KeepAll \/ ComputeLogProb \/ ComputeAdvantage \/ UpdateActor \/ Done \/ UNCHANGED vars
  <2>1. UNCHANGED rewardVars
    BY <1>6 DEF KeepAll, ComputeLogProb, ComputeAdvantage, UpdateActor, Done, vars
  <2>2. QED
    BY <2>1, RowKept
<1>7. QED
  BY <1>2, <1>3, <1>4, <1>5, <1>6 DEF Next

\* In every reachable state the row at hand is a dialogue as the rollout leaves
\* it, cut or padded, and once it is scored its score is that of this row.
THEOREM RowCorrect == Spec => []RowInv
<1>1. QED
  BY RowInit, RowNext, PTL DEF Spec

\* Wherever a row was cut or padded, the responses that are scored are the
\* model's turns, one each and in order: _extract_responses_list finds them by
\* the edges of the mask, for any turns and any width of the batch.
THEOREM ResponsesCorrect == Spec => []ResponsesAreTurns
<1>1. RowInv => ResponsesAreTurns
  BY RowInTurns, TurnsAreFound
<1>2. QED
  BY <1>1, RowCorrect, PTL

\* The prices and the format penalty leave a correct answer above the threshold,
\* with no search, one, or more.
CorrectPays ==
  \A p \in Prices :
    \A a \in {100, 10 * (10 - p[1]), (10 - p[1]) * (10 - p[1])} :
      (10 - FormatPenalty) * a > CorrectThreshold

\* The score of a row tells whether its answer is correct.
LEMMA ThresholdTells ==
  ASSUME CorrectPays, RowInv
  PROVE  ThresholdTellsCorrect
<1> SUFFICES ASSUME status = "scored" PROVE score > CorrectThreshold <=> Correct
  BY DEF ThresholdTellsCorrect
<1>1. score = ComputeScore /\ info \in Infos /\ InTurns(row)
  BY RowInTurns DEF RowInv
<1> DEFINE f == FormatPenalty * 100 * FormatScore
           a == (10 - FormatPenalty) * AnswerScore
<1>2. FormatPenalty \in 0..10 /\ CorrectThreshold \in Int /\ FormatPenalty * 100 <= CorrectThreshold
  BY RewardAssumption DEF CorrectThreshold
<1>3. f \in Int /\ 0 <= f /\ f <= CorrectThreshold
  <2>1. CASE FormatScore = 0
    <3>1. f = 0
      BY <1>2, <2>1
    <3>2. QED
      BY <1>2, <3>1
  <2>2. CASE FormatScore = 1
    <3>1. f = FormatPenalty * 100
      BY <1>2, <2>2
    <3>2. QED
      BY <1>2, <3>1
  <2>3. QED
    BY <2>1, <2>2, FormatTyped
<1>4. a \in Int
  <2>1. AnswerScore \in Int
    BY <1>1, AnswerScoreIs
  <2>2. QED
    BY <1>2, <2>1
<1>5. ComputeScore = a + f
  BY DEF ComputeScore
<1>6. CASE Correct
  <2>1. AnswerScore \in {100, 10 * (10 - info.price[1]),
                         (10 - info.price[1]) * (10 - info.price[1])}
    BY <1>1, <1>6, AnswerScoreIs
  <2>2. info.price \in Prices
    BY <1>1 DEF Infos
  <2>3. a > CorrectThreshold
    BY <2>1, <2>2 DEF CorrectPays
  <2> HIDE DEF a, f
  <2>4. QED
    BY <1>1, <1>2, <1>3, <1>4, <1>5, <1>6, <2>3
<1>7. CASE ~Correct
  <2>1. AnswerScore = 0
    BY <1>1, <1>7, AnswerScoreIs
  <2>2. a = 0
    BY <1>2, <2>1
  <2> HIDE DEF a, f
  <2>3. QED
    BY <1>1, <1>2, <1>3, <1>5, <1>7, <2>2
<1>8. QED
  BY <1>6, <1>7

\* The shaping knows a correct answer from its score, whatever the format was
\* worth and the searches cost: as long as no price takes all of a correct
\* answer, a score above format_penalty is a correct answer and no other.
THEOREM ThresholdCorrect ==
  ASSUME CorrectPays
  PROVE  Spec => []ThresholdTellsCorrect
<1>1. RowInv => ThresholdTellsCorrect
  BY ThresholdTells
<1>2. QED
  BY <1>1, RowCorrect, PTL
---------------------------------------------------------------------------
\* What is rewarded

\* Only a scored row has spans, only the row at hand is scored, and its spans
\* start at different places, each with a token of its own that the model wrote.
OnceInv ==
  /\ status # "scored" => spans = <<>>
  /\ pc # "reward" => status # "scored"
  /\ status = "scored" => Distinct(spans) /\ Marked(spans, ModelAt, IdsOf(row))

\* Nothing is rewarded at the start.
LEMMA OnceInit == Init => OnceInv
BY DEF Init, RewardInit, OnceInv

\* Where the row and its spans stay.
LEMMA OnceKept ==
  ASSUME OnceInv, UNCHANGED rewardVars, pc' = pc \/ status # "scored"
  PROVE  OnceInv'
<1>1. UNCHANGED <<row, status, spans>>
  BY DEF rewardVars
<1>2. ModelAt' = ModelAt /\ IdsOf(row)' = IdsOf(row)
  BY <1>1 DEF ModelAt, ByModel, IdsOf
<1>3. Distinct(spans)' = Distinct(spans)
  BY <1>1 DEF Distinct
<1>4. Marked(spans, ModelAt, IdsOf(row))' = Marked(spans, ModelAt, IdsOf(row))
  BY <1>1, <1>2 DEF Marked, Marks
<1>5. QED
  BY <1>1, <1>3, <1>4 DEF OnceInv

\* The step that scores a row rewards its searches.
LEMMA OnceScored ==
  ASSUME RowInv, OnceInv, RewardRow
  PROVE  OnceInv'
<1>1. Score /\ pc = "reward" /\ pc' = pc /\ row' = row /\ status = "waiting"
  BY DEF RewardRow, Score
<1>2. spans = <<>>
  BY <1>1 DEF OnceInv
<1>3. CASE status' = "raised"
  <2>1. spans' = spans
    BY <1>1, <1>3 DEF Score
  <2>2. QED
    BY <1>1, <1>2, <1>3, <2>1 DEF OnceInv
<1>4. CASE status' # "raised"
  <2>1. status' = "scored" /\ spans' = Rewarded
    BY <1>1, <1>4 DEF Score
  <2>2. Distinct(Rewarded) /\ Marked(Rewarded, ModelAt, IdsOf(row))
    BY RowInTurns, RewardMarked
  <2>3. ModelAt' = ModelAt /\ IdsOf(row)' = IdsOf(row)
    BY <1>1 DEF ModelAt, ByModel, IdsOf
  <2>4. Distinct(spans)'
    BY <2>1, <2>2 DEF Distinct
  <2>5. Marked(spans, ModelAt, IdsOf(row))'
    BY <2>1, <2>2, <2>3 DEF Marked, Marks
  <2>6. QED
    BY <1>1, <2>1, <2>4, <2>5 DEF OnceInv
<1>5. QED
  BY <1>3, <1>4

\* Every step rewards a row's searches once or leaves none rewarded.
LEMMA OnceNext == RowInv /\ OnceInv /\ [Next]_vars => OnceInv'
<1> SUFFICES ASSUME RowInv, OnceInv, [Next]_vars PROVE OnceInv'
  OBVIOUS
<1>1. CASE RewardRow
  BY <1>1, OnceScored
<1>2. CASE NextRow \/ EndReward
  <2>1. spans' = <<>> /\ status' # "scored"
    BY <1>2 DEF NextRow, EndReward, TakeRow, NoRow
  <2>2. QED
    BY <2>1 DEF OnceInv
<1>3. CASE KeepGroups
  <2>1. status # "scored" /\ spans = <<>>
    BY <1>3 DEF KeepGroups, OnceInv
  <2>2. spans' = spans /\ (TakeRow(1) \/ UNCHANGED status)
    BY <1>3 DEF KeepGroups
  <2>3. status' # "scored"
    BY <2>1, <2>2 DEF TakeRow
  <2>4. QED
    BY <2>1, <2>2, <2>3 DEF OnceInv
<1>4. CASE KeepAll \/ ComputeLogProb \/ ComputeAdvantage \/ UpdateActor
  <2>1. UNCHANGED rewardVars /\ pc # "reward"
    BY <1>4 DEF KeepAll, ComputeLogProb, ComputeAdvantage, UpdateActor
  <2>2. QED
    BY <2>1, OnceKept DEF OnceInv
<1>5. CASE Done \/ UNCHANGED vars
  BY <1>5, OnceKept DEF Done, vars
<1>6. QED
  BY <1>1, <1>2, <1>3, <1>4, <1>5 DEF Next

\* In every reachable state the spans that are rewarded are those of searches
\* the model wrote.
LEMMA OnceHolds == Spec => []OnceInv
BY OnceInit, OnceNext, RowCorrect, PTL DEF Spec

\* No search is rewarded twice: the spans that share a row's bonus start at
\* different places, and of each kind there are no more than the tokens the
\* model itself wrote to ask for one, whatever it repeats and whatever the
\* results send back: _find_search_action_spans skips used starts and takes each
\* action of the decoded turns once.
THEOREM OnceCorrect == Spec => []RewardedOnce
<1>1. ASSUME RowInv, OnceInv PROVE RewardedOnce
  <2>1. InTurns(row) /\ spans \in Seq(Spans)
    BY <1>1, RowInTurns DEF RowInv
  <2>2. DOMAIN spans = 1..Len(spans) /\ Len(<<>>) = 0
    BY <2>1
  <2>3. Distinct(spans) /\ Marked(spans, ModelAt, IdsOf(row))
    <3>1. CASE status = "scored"
      BY <1>1, <3>1 DEF OnceInv
    <3>2. CASE status # "scored"
      <4>1. spans = <<>>
        BY <1>1, <3>2 DEF OnceInv
      <4>2. Distinct(<<>>)
        BY <2>2 DEF Distinct
      <4>3. QED
        BY <4>1, <4>2, MarksNone
    <3>3. QED
      BY <3>1, <3>2
  <2>4. \A m, n \in DOMAIN spans : spans[m].start = spans[n].start => m = n
    BY <2>2, <2>3 DEF Distinct
  <2>5. ASSUME NEW tool \in Tools
        PROVE  Cardinality({n \in DOMAIN spans : spans[n].tool = tool}) <=
                 Cardinality({i \in 1..Len(row) :
                   ByModel(row[i]) /\ row[i].id =
                     IF tool = "image_search" THEN "image_search" ELSE "open"})
    BY <2>1, <2>3, MarksCount, Zenon DEF MarkOf
  <2>6. QED
    BY <2>4, <2>5, Zenon DEF RewardedOnce
<1>2. QED
  BY <1>1, OnceHolds, RowCorrect, PTL
---------------------------------------------------------------------------
\* Groups

Records == [uid : Nat \X Nat, prompt : Nat \X Nat, reward : Int, correct : BOOLEAN]

\* A batch of whole prompts, whose rows are grouped by them.
WholePrompts(b) ==
  /\ b \in Seq(Records)
  /\ \E M \in Nat : InBlocks(b, M)
  /\ \A i \in 1..Len(b) : b[i].uid = b[i].prompt

\* The rows of the generation batch, in the order of the rollout.
NewInv ==
  /\ numGenBatches \in Nat
  /\ newBatch \in Seq(Records)
  /\ \A i \in 1..Len(newBatch) :
       newBatch[i].uid = UidOf(i) /\ newBatch[i].prompt = PromptOf(i)
  /\ pc = "reward" => Len(newBatch) < BatchSize * N
  /\ pc = "filter" => Len(newBatch) = BatchSize * N

\* The rows gathered are whole prompts of earlier generation batches.
BatchInv ==
  /\ WholePrompts(batch)
  /\ pc \in {"reward", "filter"} =>
       \A i \in 1..Len(batch) : batch[i].prompt[1] < numGenBatches

RecordsAre == \A r \in Records : r.prompt[1] \in Nat /\ r.reward \in Int

\* The parts of a record that are numbers.
LEMMA RecordHas == RecordsAre
BY DEF Records, RecordsAre

\* A complete generation batch holds BatchSize prompts.
LEMMA NewBlocks ==
  ASSUME NewInv, pc = "filter"
  PROVE  WholePrompts(newBatch) /\ InBlocks(newBatch, BatchSize)
         /\ \A i \in 1..Len(newBatch) : newBatch[i].prompt[1] = numGenBatches
<1>1. BatchSize \in Nat /\ Len(newBatch) = BatchSize * N
  BY StepAssumption DEF NewInv
<1>2. \A i \in 1..Len(newBatch) :
        /\ newBatch[i].uid = <<numGenBatches, ((i - 1) \div N) + 1>>
        /\ newBatch[i].prompt = <<numGenBatches, ((i - 1) \div N) + 1>>
  BY DEF NewInv, UidOf, PromptOf
<1>3. ASSUME NEW m \in 0..(BatchSize - 1), NEW i \in Block(m), NEW j \in 1..Len(newBatch)
      PROVE  newBatch[i].prompt = newBatch[j].prompt <=> j \in Block(m)
  <2>1. m \in Nat /\ m < BatchSize
    BY <1>1
  <2>2. i \in 1..Len(newBatch)
    <3> DEFINE p == m * N
               r == BatchSize * N
    <3>1. p \in Nat /\ p + N <= r /\ r \in Nat /\ N \in Nat
      BY <1>1, <2>1, BlocksAscend
    <3>2. i \in (p + 1)..(p + N)
      BY DEF Block
    <3>3. Len(newBatch) = r
      BY <1>1
    <3> HIDE DEF p, r
    <3>4. QED
      BY <3>1, <3>2, <3>3
  <2>3. PICK l \in 0..(BatchSize - 1) : j \in Block(l)
    BY <1>1, RowInBlock
  <2>4. l \in Nat /\ (i - 1) \div N = m /\ (j - 1) \div N = l
    BY <1>1, <2>1, <2>3, BlockOf
  <2>5. newBatch[i].prompt = <<numGenBatches, m + 1>> /\ newBatch[j].prompt = <<numGenBatches, l + 1>>
    BY <1>2, <2>2, <2>4
  <2>6. newBatch[i].prompt = newBatch[j].prompt <=> m = l
    BY <2>1, <2>4, <2>5
  <2>7. j \in Block(m) <=> m = l
    <3>1. j \in Block(m) => (j - 1) \div N = m
      BY <2>1, BlockOf
    <3>2. QED
      BY <2>3, <2>4, <3>1
  <2>8. QED
    BY <2>6, <2>7
<1>4. InBlocks(newBatch, BatchSize)
  BY <1>1, <1>3 DEF InBlocks
<1>5. \A i \in 1..Len(newBatch) : newBatch[i].prompt[1] = numGenBatches
  BY <1>2
<1>6. newBatch \in Seq(Records) /\ \A i \in 1..Len(newBatch) : newBatch[i].uid = newBatch[i].prompt
  BY <1>2 DEF NewInv
<1>7. QED
  BY <1>1, <1>4, <1>5, <1>6 DEF WholePrompts

\* Groups are prompts in a batch of whole prompts.
LEMMA GroupsOfWhole ==
  ASSUME WholePrompts(batch), NEW i \in DOMAIN batch
  PROVE  /\ GroupOf(batch, batch[i].uid) = RowsOf(batch[i].prompt)
         /\ IsFiniteSet(RowsOf(batch[i].prompt))
         /\ Cardinality(RowsOf(batch[i].prompt)) = N
<1>1. batch \in Seq(Records) /\ DOMAIN batch = 1..Len(batch) /\ Len(batch) \in Nat
  BY DEF WholePrompts
<1>2. PICK M \in Nat : InBlocks(batch, M)
  BY DEF WholePrompts
<1>3. PICK m \in 0..(M - 1) : i \in Block(m)
  BY <1>1, <1>2, RowInBlock DEF InBlocks
<1>4. m \in Nat /\ m < M
  OBVIOUS
<1> DEFINE p == m * N
           r == M * N
<1>5. /\ p \in Nat /\ N \in Nat /\ N > 0 /\ r \in Nat /\ p + N <= r /\ Len(batch) = r
      /\ Block(m) = (p + 1)..(p + N)
  BY <1>2, <1>4, BlocksAscend DEF InBlocks, Block
<1> HIDE DEF p, r
<1>6. \A j \in 1..Len(batch) : batch[j].prompt = batch[i].prompt <=> j \in Block(m)
  BY <1>2, <1>3 DEF InBlocks
<1>7. Block(m) \subseteq 1..Len(batch)
  BY <1>5
<1>8. RowsOf(batch[i].prompt) = Block(m)
  BY <1>1, <1>6, <1>7 DEF RowsOf
<1>9. IsFiniteSet(Block(m)) /\ Cardinality(Block(m)) = N
  BY <1>5, FS_Interval
<1>10. GroupOf(batch, batch[i].uid) = RowsOf(batch[i].prompt)
  BY <1>1 DEF WholePrompts, GroupOf, RowsOf
<1>11. QED
  BY <1>8, <1>9, <1>10

\* What filter_groups gathers.
Filtered(kept) == batch \o Keep(newBatch, {r \in ToSet(newBatch) : r.uid \in kept})

\* It is whole prompts again: no prompt of an earlier generation batch comes back.
LEMMA FilteredIs ==
  ASSUME NewInv, BatchInv, pc = "filter", NEW kept
  PROVE  /\ WholePrompts(Filtered(kept))
         /\ \A i \in 1..Len(Filtered(kept)) : Filtered(kept)[i].prompt[1] <= numGenBatches
<1> DEFINE S == {r \in ToSet(newBatch) : r.uid \in kept}
           y == Keep(newBatch, S)
           x == batch
           z == x \o y
<1>1. /\ WholePrompts(newBatch) /\ InBlocks(newBatch, BatchSize) /\ BatchSize \in Nat
      /\ \A i \in 1..Len(newBatch) : newBatch[i].prompt[1] = numGenBatches
  BY NewBlocks, StepAssumption
<1>2. \A i, j \in 1..Len(newBatch) : newBatch[i].prompt = newBatch[j].prompt =>
        (newBatch[i] \in S <=> newBatch[j] \in S)
  <2>1. \A i \in 1..Len(newBatch) : newBatch[i] \in ToSet(newBatch)
    BY <1>1 DEF ToSet, WholePrompts
  <2>2. \A i \in 1..Len(newBatch) : newBatch[i] \in S <=> newBatch[i].uid \in kept
    BY <2>1
  <2> HIDE DEF S
  <2>3. QED
    BY <1>1, <2>2 DEF WholePrompts
<1>3. newBatch \in Seq(Records)
  BY <1>1 DEF WholePrompts
<1> HIDE DEF S
<1>4. IsPart(y, newBatch, Len(newBatch), Records)
  BY <1>1, <1>2, <1>3, KeepBlocks
<1> HIDE DEF y
<1>5. /\ y \in Seq(Records) /\ \E L \in Nat : InBlocks(y, L)
      /\ \A i \in 1..Len(y) : \E j \in 1..Len(newBatch) : y[i] = newBatch[j]
  BY <1>4 DEF IsPart
<1>6. /\ x \in Seq(Records) /\ \E M \in Nat : InBlocks(x, M)
      /\ \A i \in 1..Len(x) : x[i].uid = x[i].prompt /\ x[i].prompt[1] < numGenBatches
  BY DEF BatchInv, WholePrompts
<1>7. \A i \in 1..Len(y) : y[i].uid = y[i].prompt /\ y[i].prompt[1] = numGenBatches
  BY <1>1, <1>5 DEF WholePrompts
<1>8. \A i \in 1..Len(x) : x[i].prompt[1] \in Nat
  <2>1. \A i \in 1..Len(x) : x[i] \in Records
    BY <1>6
  <2>2. QED
    BY <2>1, RecordHas DEF RecordsAre
<1>9. numGenBatches \in Nat
  BY DEF NewInv
<1>10. Apart(x, y)
  BY <1>6, <1>7, <1>8, <1>9 DEF Apart
<1> HIDE DEF x
<1>11. IsConcat(z, x, y) /\ z \in Seq(Records)
  BY <1>5, <1>6, ConcatIs
<1> HIDE DEF z
<1>12. \E M \in Nat : InBlocks(z, M)
  <2>1. PICK M \in Nat : InBlocks(x, M)
    BY <1>6
  <2>2. PICK L \in Nat : InBlocks(y, L)
    BY <1>5
  <2>3. InBlocks(z, M + L)
    BY <1>5, <1>6, <1>10, <1>11, <2>1, <2>2, BlocksConcat
  <2>4. QED
    BY <2>3
<1>13. ASSUME NEW i \in 1..Len(z)
       PROVE  z[i].uid = z[i].prompt /\ z[i].prompt[1] <= numGenBatches
  <2>1. Len(x) \in Nat /\ Len(y) \in Nat /\ Len(z) = Len(x) + Len(y)
    BY <1>5, <1>6, <1>11 DEF IsConcat
  <2>2. CASE i <= Len(x)
    <3>1. i \in 1..Len(x)
      BY <2>1, <2>2
    <3>2. z[i] = x[i]
      BY <1>11, <3>1 DEF IsConcat
    <3>3. QED
      BY <1>6, <1>8, <1>9, <3>1, <3>2
  <2>3. CASE Len(x) < i
    <3>1. i - Len(x) \in 1..Len(y) /\ Len(x) + (i - Len(x)) = i
      BY <2>1, <2>3
    <3>2. z[Len(x) + (i - Len(x))] = y[i - Len(x)]
      BY <1>11, <3>1 DEF IsConcat
    <3>3. z[i] = y[i - Len(x)]
      BY <3>1, <3>2
    <3>4. QED
      BY <1>7, <1>9, <3>1, <3>3
  <2>4. QED
    BY <2>1, <2>2, <2>3
<1>14. Filtered(kept) = z
  BY Zenon DEF Filtered, z, x, y, S
<1>15. QED
  BY <1>11, <1>12, <1>13, <1>14 DEF WholePrompts

\* With enough prompts, the cut leaves whole ones.
LEMMA AlignedIs ==
  ASSUME NEW b, WholePrompts(b), Cardinality(UidsOf(b)) >= TrainBatchSize
  PROVE  /\ WholePrompts(Aligned(b))
         /\ \A i \in 1..Len(Aligned(b)) : i \in 1..Len(b) /\ Aligned(b)[i] = b[i]
<1>1. PICK M \in Nat : InBlocks(b, M)
  BY DEF WholePrompts
<1>2. b \in Seq(Records) /\ DOMAIN b = 1..Len(b) /\ TrainBatchSize \in Nat
  BY StepAssumption DEF WholePrompts
<1>3. UidsOf(b) = PromptsOf(b)
  BY <1>2 DEF UidsOf, PromptsOf, WholePrompts
<1>4. Cardinality(PromptsOf(b)) \in Nat /\ Cardinality(PromptsOf(b)) <= M
  BY <1>1, <1>2, BlocksCount
<1>5. TrainBatchSize <= M
  BY <1>2, <1>3, <1>4
<1> DEFINE x == SubSeq(b, 1, TrainBatchSize * N)
<1>6. /\ x \in Seq(Records) /\ InBlocks(x, TrainBatchSize)
      /\ \A i \in 1..Len(x) : i \in 1..Len(b) /\ x[i] = b[i]
  BY <1>1, <1>2, <1>5, BlocksCut
<1> HIDE DEF x
<1>7. WholePrompts(x)
  BY <1>2, <1>6 DEF WholePrompts
<1>8. QED
  BY <1>6, <1>7 DEF x, Aligned

\* No rows are whole prompts.
LEMMA NoneWhole == WholePrompts(<<>>)
<1>1. <<>> \in Seq(Records) /\ Len(<<>>) = 0 /\ 0 * N = 0
  BY StepAssumption
<1>2. InBlocks(<<>>, 0)
  BY <1>1 DEF InBlocks
<1>3. QED
  BY <1>1, <1>2 DEF WholePrompts
\* A rewarded row goes behind those before it.
LEMMA RowRewarded ==
  ASSUME RowInv, NewInv, pc = "reward", newBatch' = Append(newBatch, RewardedRow),
         numGenBatches' = numGenBatches
  PROVE  /\ newBatch' \in Seq(Records) /\ Len(newBatch') = Len(newBatch) + 1
         /\ \A i \in 1..Len(newBatch') :
              newBatch'[i].uid = UidOf(i)' /\ newBatch'[i].prompt = PromptOf(i)'
<1> DEFINE n == Len(newBatch)
           new == RewardedRow
<1>1. newBatch \in Seq(Records) /\ n \in Nat /\ numGenBatches \in Nat
  BY DEF NewInv
<1>2. /\ new.uid = UidOf(n + 1) /\ new.prompt = PromptOf(n + 1)
      /\ new = [uid |-> UidOf(n + 1), prompt |-> PromptOf(n + 1), reward |-> RowReward,
                correct |-> Correct]
  BY DEF RewardedRow
<1>3. UidOf(n + 1) \in Nat \X Nat /\ PromptOf(n + 1) \in Nat \X Nat
  <2>1. ((n + 1) - 1) \div N \in Nat
    <3>1. N \in Nat /\ N > 0 /\ (n + 1) - 1 = n
      BY <1>1, StepAssumption
    <3> HIDE DEF n
    <3>2. n \div N \in Nat
      BY <1>1, <3>1
    <3>3. QED
      BY <3>1, <3>2
  <2>2. QED
    BY <1>1, <2>1 DEF UidOf, PromptOf
<1>4. RowReward \in Int
  BY RewardIs, InfoTyped DEF RowInv
<1>5. Correct \in BOOLEAN
  BY DEF Correct
<1>6. new \in Records
  BY <1>2, <1>3, <1>4, <1>5 DEF Records
<1> HIDE DEF new
<1>7. /\ newBatch' \in Seq(Records) /\ Len(newBatch') = n + 1
      /\ \A i \in 1..n : newBatch'[i] = newBatch[i]
      /\ newBatch'[n + 1] = new
  BY <1>1, <1>6 DEF new
<1>8. ASSUME NEW i \in 1..(n + 1)
      PROVE  newBatch'[i].uid = UidOf(i)' /\ newBatch'[i].prompt = PromptOf(i)'
  <2>1. UidOf(i)' = UidOf(i) /\ PromptOf(i)' = PromptOf(i)
    BY DEF UidOf, PromptOf
  <2>2. CASE i \in 1..n
    BY <1>7, <2>1, <2>2 DEF NewInv
  <2>3. CASE i = n + 1
    BY <1>2, <1>7, <2>1, <2>3
  <2>4. QED
    BY <1>1, <2>2, <2>3
<1>9. QED
  BY <1>7, <1>8

\* There is a row in a generation batch.
LEMMA BatchNotEmpty == 0 < BatchSize * N
<1>1. BatchSize \in Nat /\ BatchSize > 0 /\ N \in Nat /\ N > 0
  BY StepAssumption
<1>2. ASSUME NEW x \in Nat, NEW y \in Nat, x > 0, y > 0 PROVE 0 < x * y
  <2>1. x * y = (x - 1) * y + y /\ x - 1 \in Nat
    BY <1>2
  <2>2. ASSUME NEW a \in Nat, NEW b \in Nat PROVE a * b \in Nat
    OBVIOUS
  <2>3. (x - 1) * y \in Nat
    BY <2>1, <2>2
  <2> DEFINE p == (x - 1) * y
  <2> HIDE DEF p
  <2>4. p \in Nat /\ x * y = p + y
    BY <2>1, <2>3 DEF p
  <2>5. QED
    BY <1>2, <2>4
<1>3. QED
  BY <1>1, <1>2

\* An empty generation batch.
LEMMA NewEmpty ==
  ASSUME newBatch' = <<>>, numGenBatches' \in Nat, pc' # "filter"
  PROVE  NewInv'
<1>1. newBatch' \in Seq(Records) /\ Len(newBatch') = 0
  OBVIOUS
<1>2. 0 < BatchSize * N
  BY BatchNotEmpty
<1>3. QED
  BY <1>1, <1>2 DEF NewInv

\* At the start nothing is gathered.
LEMMA GroupsInit == Init => NewInv /\ BatchInv
<1> SUFFICES ASSUME Init PROVE NewInv /\ BatchInv
  OBVIOUS
<1>1. /\ numGenBatches = 1 /\ newBatch = <<>> /\ batch = <<>> /\ pc = "reward"
      /\ Len(newBatch) = 0 /\ Len(batch) = 0
  BY DEF Init
<1>2. 0 < BatchSize * N
  BY BatchNotEmpty
<1>3. newBatch \in Seq(Records)
  BY <1>1
<1>4. NewInv
  BY <1>1, <1>2, <1>3 DEF NewInv
<1>5. BatchInv
  BY <1>1, NoneWhole DEF BatchInv
<1>6. QED
  BY <1>4, <1>5

\* Where the batches stay and nothing is rewarded or filtered.
LEMMA GroupsKept ==
  ASSUME NewInv, BatchInv, UNCHANGED <<numGenBatches, newBatch, batch>>,
         pc' = pc \/ pc' \notin {"reward", "filter"}
  PROVE  NewInv' /\ BatchInv'
<1>1. NewInv'
  BY DEF NewInv, UidOf, PromptOf
<1>2. BatchInv'
  BY DEF BatchInv, WholePrompts, InBlocks
<1>3. QED
  BY <1>1, <1>2

\* A rewarded row goes into the generation batch,
LEMMA GroupsNextRow ==
  ASSUME RowInv, NewInv, BatchInv, NextRow
  PROVE  NewInv' /\ BatchInv'
<1>1. /\ pc = "reward" /\ pc' = pc /\ numGenBatches' = numGenBatches /\ batch' = batch
      /\ newBatch' = Append(newBatch, RewardedRow)
      /\ Len(newBatch) + 1 < BatchSize * N
  BY DEF NextRow
<1>2. /\ newBatch' \in Seq(Records) /\ Len(newBatch') = Len(newBatch) + 1
      /\ \A i \in 1..Len(newBatch') :
           newBatch'[i].uid = UidOf(i)' /\ newBatch'[i].prompt = PromptOf(i)'
  BY <1>1, RowRewarded
<1>3. NewInv'
  BY <1>1, <1>2 DEF NewInv
<1>4. BatchInv'
  BY <1>1 DEF BatchInv, WholePrompts, InBlocks
<1>5. QED
  BY <1>3, <1>4

\* and so does its last one.
LEMMA GroupsEndReward ==
  ASSUME RowInv, NewInv, BatchInv, EndReward
  PROVE  NewInv' /\ BatchInv'
<1>1. /\ pc = "reward" /\ pc' \in {"filter", "raised"}
      /\ numGenBatches' = numGenBatches /\ batch' = batch
      /\ newBatch' = Append(newBatch, RewardedRow)
      /\ Len(newBatch) + 1 = BatchSize * N
  BY DEF EndReward
<1>2. /\ newBatch' \in Seq(Records) /\ Len(newBatch') = Len(newBatch) + 1
      /\ \A i \in 1..Len(newBatch') :
           newBatch'[i].uid = UidOf(i)' /\ newBatch'[i].prompt = PromptOf(i)'
  BY <1>1, RowRewarded
<1>3. NewInv'
  BY <1>1, <1>2 DEF NewInv
<1>4. BatchInv'
  BY <1>1 DEF BatchInv, WholePrompts, InBlocks
<1>5. QED
  BY <1>3, <1>4

\* Without the filter the batch is the generation batch.
LEMMA GroupsKeepAll ==
  ASSUME NewInv, BatchInv, KeepAll
  PROVE  NewInv' /\ BatchInv'
<1>1. /\ pc = "filter" /\ pc' = "log_prob" /\ batch' = newBatch /\ newBatch' = <<>>
      /\ numGenBatches' = numGenBatches
  BY DEF KeepAll
<1>2. WholePrompts(newBatch)
  BY <1>1, NewBlocks
<1>3. numGenBatches' \in Nat
  BY <1>1 DEF NewInv
<1>4. NewInv'
  BY <1>1, <1>3, NewEmpty
<1>5. BatchInv'
  BY <1>1, <1>2 DEF BatchInv, WholePrompts, InBlocks
<1>6. QED
  BY <1>4, <1>5

\* With it, whole groups go behind those gathered, cut between two prompts.
LEMMA GroupsKeepGroups ==
  ASSUME NewInv, BatchInv, KeepGroups
  PROVE  NewInv' /\ BatchInv'
<1>1. /\ pc = "filter" /\ newBatch' = <<>> /\ numGenBatches \in Nat
  BY DEF KeepGroups, NewInv
<1>2. PICK kept :
        LET gathered == Filtered(kept)
            enough == Cardinality(UidsOf(gathered)) >= TrainBatchSize
            goesOn == ~enough /\ numGenBatches < MaxGenBatches
        IN  /\ batch' = IF enough THEN Aligned(gathered) ELSE gathered
            /\ pc' = CASE enough -> "log_prob"
                       [] goesOn -> "reward"
                       [] OTHER  -> "raised"
            /\ IF goesOn THEN numGenBatches' = numGenBatches + 1
                         ELSE numGenBatches' = numGenBatches
  <2>1. PICK passed \in SUBSET MayPass(newBatch) :
          LET gathered == Filtered(Varied(newBatch) \cup passed)
              enough == Cardinality(UidsOf(gathered)) >= TrainBatchSize
              goesOn == ~enough /\ numGenBatches < MaxGenBatches
          IN  /\ batch' = IF enough THEN Aligned(gathered) ELSE gathered
              /\ pc' = CASE enough -> "log_prob"
                         [] goesOn -> "reward"
                         [] OTHER  -> "raised"
              /\ IF goesOn THEN numGenBatches' = numGenBatches + 1
                           ELSE numGenBatches' = numGenBatches
    BY Zenon DEF KeepGroups, Filtered
  <2>2. QED
    BY <2>1
<1> DEFINE gathered == Filtered(kept)
           enough == Cardinality(UidsOf(gathered)) >= TrainBatchSize
<1>3. /\ WholePrompts(gathered)
      /\ \A i \in 1..Len(gathered) : gathered[i].prompt[1] <= numGenBatches
  BY <1>1, FilteredIs
<1>4. pc' # "filter" /\ numGenBatches' \in Nat
  BY <1>1, <1>2
<1>5. NewInv'
  BY <1>1, <1>4, NewEmpty
<1>6. BatchInv'
  <2>1. CASE enough
    <3>1. batch' = Aligned(gathered) /\ pc' = "log_prob"
      BY <1>2, <2>1
    <3>2. WholePrompts(Aligned(gathered))
      <4> HIDE DEF gathered
      <4>1. QED
        BY <1>3, <2>1, AlignedIs
    <3> HIDE DEF gathered
    <3>3. QED
      BY <3>1, <3>2 DEF BatchInv, WholePrompts, InBlocks
  <2>2. CASE ~enough
    <3>1. /\ batch' = gathered
          /\ pc' = "raised" \/ numGenBatches' = numGenBatches + 1
          /\ pc' # "filter" /\ (pc' = "reward" => numGenBatches' = numGenBatches + 1)
      BY <1>2, <2>2
    <3> HIDE DEF gathered, enough
    <3>2. WholePrompts(batch)'
      BY <1>3, <3>1 DEF WholePrompts, InBlocks
    <3>3. \A i \in 1..Len(gathered) : gathered[i].prompt[1] \in Nat
      <4>1. \A i \in 1..Len(gathered) : gathered[i] \in Records
        BY <1>3 DEF WholePrompts
      <4>2. QED
        BY <4>1, RecordHas DEF RecordsAre
    <3>4. ASSUME pc' = "reward", NEW i \in 1..Len(gathered)
          PROVE  gathered[i].prompt[1] < numGenBatches'
      BY <1>1, <1>3, <3>1, <3>3, <3>4
    <3>5. QED
      BY <3>1, <3>2, <3>4 DEF BatchInv
  <2>3. QED
    BY <2>1, <2>2
<1>7. QED
  BY <1>5, <1>6

\* Every step leaves whole prompts.
LEMMA GroupsNext == RowInv /\ NewInv /\ BatchInv /\ [Next]_vars => NewInv' /\ BatchInv'
<1> SUFFICES ASSUME RowInv, NewInv, BatchInv, [Next]_vars PROVE NewInv' /\ BatchInv'
  OBVIOUS
<1>1. CASE NextRow
  BY <1>1, GroupsNextRow
<1>2. CASE EndReward
  BY <1>2, GroupsEndReward
<1>3. CASE KeepAll
  BY <1>3, GroupsKeepAll
<1>4. CASE KeepGroups
  BY <1>4, GroupsKeepGroups
<1>5. CASE RewardRow \/ ComputeLogProb \/ ComputeAdvantage \/ UpdateActor \/ Done
           \/ UNCHANGED vars
  <2>1. UNCHANGED <<numGenBatches, newBatch, batch>>
    BY <1>5 DEF RewardRow, ComputeLogProb, ComputeAdvantage, UpdateActor, Done, batchVars, vars
  <2>2. pc' = pc \/ pc' \notin {"reward", "filter"}
    BY <1>5 DEF RewardRow, ComputeLogProb, ComputeAdvantage, UpdateActor, Done, vars
  <2>3. QED
    BY <2>1, <2>2, GroupsKept
<1>6. QED
  BY <1>1, <1>2, <1>3, <1>4, <1>5 DEF Next

\* In every reachable state the batch is whole prompts, and so is a generation
\* batch up to the row at hand.
LEMMA BatchCorrect == Spec => [](RowInv /\ NewInv /\ BatchInv)
<1>1. Init => RowInv /\ NewInv /\ BatchInv
  BY RowInit, GroupsInit
<1>2. (RowInv /\ NewInv /\ BatchInv) /\ [Next]_vars => (RowInv /\ NewInv /\ BatchInv)'
  BY RowNext, GroupsNext
<1>3. QED
  BY <1>1, <1>2, PTL DEF Spec

\* The rows that share a uid are a prompt's samples, all of them and no others:
\* the uids are given once the rollout has repeated the prompts, the filter takes
\* whole groups over any number of generation batches, and the batch is cut
\* between two prompts.
THEOREM GroupsCorrect == Spec => []GroupsArePrompts
<1>1. BatchInv => GroupsArePrompts
  BY GroupsOfWhole DEF BatchInv, GroupsArePrompts
<1>2. QED
  BY <1>1, BatchCorrect, PTL

---------------------------------------------------------------------------
\* Advantages

Splits(sum, f, S) == \A s \in SUBSET S : \A x \in s : sum[s] = f[x] + sum[s \ {x}]

\* The sums over the subsets, whatever is taken first.
LEMMA SumSplits ==
  ASSUME NEW S, IsFiniteSet(S), NEW f, \A x \in S : f[x] \in Int
  PROVE  Splits(Sum(f, S), f, S)
<1>1. ASSUME NEW s \in SUBSET S, NEW x \in s
      PROVE  Sum(f, S)[s] = f[x] + Sum(f, S)[s \ {x}]
  BY SumRemove
<1>2. QED
  BY <1>1 DEF Splits

\* The values of g are those of f, scaled by n and lowered by m each, and so is
\* their sum.
Centered(g, f, S, n, m) == \A x \in S : g[x] = n * f[x] - m
SumIsCentered(g, f, S, n, m) ==
  Sum(g, S)[S] = n * Sum(f, S)[S] - Cardinality(S) * m

\* The sum follows the values, by induction over the size of the subsets.
LEMMA SumCentered ==
  ASSUME NEW S, IsFiniteSet(S), NEW n \in Int, NEW m \in Int,
         NEW f, \A x \in S : f[x] \in Int, NEW g, Centered(g, f, S, n, m)
  PROVE  SumIsCentered(g, f, S, n, m)
<1> DEFINE sf == Sum(f, S)
           sg == Sum(g, S)
           T == {k \in Nat : \A s \in SUBSET S :
                               Cardinality(s) = k => sg[s] = n * sf[s] - k * m}
<1>1. ASSUME NEW a \in Int, NEW b \in Int PROVE a * b \in Int
  OBVIOUS
<1>2. \A x \in S : g[x] \in Int /\ g[x] = n * f[x] - m
  BY <1>1 DEF Centered
<1>3. \A s \in SUBSET S : IsFiniteSet(s) /\ Cardinality(s) \in Nat
  BY FS_Subset, FS_CardinalityType
<1>4. \A s \in SUBSET S : sf[s] \in Int /\ (s = {} => sf[s] = 0)
  BY SumSteps
<1>5. \A s \in SUBSET S : sg[s] \in Int /\ (s = {} => sg[s] = 0)
  <2>1. \A x \in S : g[x] \in Int
    BY <1>2
  <2>2. QED
    BY <2>1, SumSteps
<1>6. \A s \in SUBSET S : \A x \in s : sf[s] = f[x] + sf[s \ {x}]
  <2>1. Splits(sf, f, S)
    BY SumSplits
  <2> HIDE DEF sf
  <2>2. QED
    BY <2>1 DEF Splits
<1>7. \A s \in SUBSET S : \A x \in s : sg[s] = g[x] + sg[s \ {x}]
  <2>1. \A x \in S : g[x] \in Int
    BY <1>2
  <2>2. Splits(sg, g, S)
    BY <2>1, SumSplits
  <2> HIDE DEF sg
  <2>3. QED
    BY <2>2 DEF Splits
<1> HIDE DEF sf, sg
<1>8. 0 \in T
  <2>1. ASSUME NEW s \in SUBSET S, Cardinality(s) = 0 PROVE sg[s] = n * sf[s] - 0 * m
    <3>1. s = {}
      BY <1>3, <2>1, FS_EmptySet
    <3>2. sg[s] = 0 /\ sf[s] = 0
      BY <1>4, <1>5, <3>1
    <3>3. QED
      BY <3>2
  <2>2. QED
    BY <2>1
<1>9. ASSUME NEW k \in Nat, k \in T PROVE k + 1 \in T
  <2>1. ASSUME NEW s \in SUBSET S, Cardinality(s) = k + 1
        PROVE  sg[s] = n * sf[s] - (k + 1) * m
    <3>1. s # {}
      <4>1. Cardinality({}) = 0 /\ k + 1 # 0
        BY FS_EmptySet
      <4> HIDE DEF T
      <4>2. QED
        BY <2>1, <4>1
    <3>2. PICK x \in s : TRUE
      BY <3>1
    <3> DEFINE u == s \ {x}
               fu == sf[u]
               gu == sg[u]
               fx == f[x]
    <3>3. Cardinality(u) = k /\ u \in SUBSET S
      <4>1. IsFiniteSet(s) /\ x \in s /\ Cardinality(s) = k + 1
        BY <1>3, <2>1, <3>2
      <4> HIDE DEF T
      <4>2. Cardinality(u) = Cardinality(s) - 1
        BY <4>1, FS_RemoveElement
      <4>3. QED
        BY <4>1, <4>2
    <3>4. gu = n * fu - k * m
      BY <1>9, <3>3
    <3>5. sf[s] = fx + fu /\ sg[s] = (n * fx - m) + gu
      BY <1>2, <1>6, <1>7, <3>2
    <3>6. fu \in Int /\ fx \in Int
      BY <1>4, <3>2, <3>3
    <3> HIDE DEF u, fu, gu, fx
    <3>7. n * (fx + fu) = n * fx + n * fu /\ (k + 1) * m = k * m + m
      BY <3>6
    <3>8. n * fx \in Int /\ n * fu \in Int /\ k * m \in Int
      BY <1>1, <3>6
    <3> DEFINE p == n * fx
               q == n * fu
               r == k * m
    <3>9. /\ sg[s] = (p - m) + (q - r) /\ n * sf[s] = p + q /\ (k + 1) * m = r + m
          /\ p \in Int /\ q \in Int /\ r \in Int
      BY <3>4, <3>5, <3>7, <3>8
    <3> HIDE DEF p, q, r
    <3>10. (p - m) + (q - r) = (p + q) - (r + m)
      BY <3>9
    <3>11. QED
      BY <3>9, <3>10
  <2>2. QED
    BY <2>1
<1>10. Nat \subseteq T
  <2> HIDE DEF T
  <2> QED
    BY <1>8, <1>9, NatAll
<1>11. S \in SUBSET S /\ Cardinality(S) \in Nat
  BY <1>3
<1>12. Cardinality(S) \in T
  <2> HIDE DEF T
  <2> QED
    BY <1>10, <1>11
<1>13. sg[S] = n * sf[S] - Cardinality(S) * m
  BY <1>11, <1>12
<1>14. QED
  BY <1>13 DEF sf, sg, SumIsCentered

\* The rewards of a batch, and its advantages when no group is of one row.
RewardsIn(b) == [i \in DOMAIN b |-> b[i].reward]
AdvantagesIn(b) ==
  [i \in DOMAIN b |->
    LET group == GroupOf(b, b[i].uid)
    IN  Cardinality(group) * b[i].reward - Sum(RewardsIn(b), group)[group]]

AdvantageInv == pc \in {"update", "done"} => advantages = AdvantagesIn(batch)

\* The mean of a group of several rows is that of its rewards.
LEMMA MeanIs ==
  ASSUME NEW rows, Cardinality(rows) # 1
  PROVE  Mean(rows) = Sum(RewardsIn(batch), rows)[rows]
<1>1. TotalOf(rows) = FoldFunctionOnSet(+, 0, RewardsIn(batch), rows)
  BY Zenon DEF TotalOf, RewardsIn
<1>2. FoldFunctionOnSet(+, 0, RewardsIn(batch), rows) = Sum(RewardsIn(batch), rows)[rows]
  BY Zenon, FoldIsSum
<1>3. Mean(rows) = TotalOf(rows)
  BY Zenon DEF Mean
<1>4. QED
  BY Zenon, <1>1, <1>2, <1>3

\* The step that computes the advantages, on whole prompts of several samples.
LEMMA AdvantageComputed ==
  ASSUME N > 1, BatchInv, ComputeAdvantage
  PROVE  AdvantageInv'
<1>1. /\ batch' = batch
      /\ advantages' = [i \in DOMAIN batch |->
                         LET group == GroupOf(batch, batch[i].uid)
                         IN  Cardinality(group) * batch[i].reward - Mean(group)]
  BY DEF ComputeAdvantage, batchVars
<1>2. ASSUME NEW i \in DOMAIN batch
      PROVE  Mean(GroupOf(batch, batch[i].uid))
               = Sum(RewardsIn(batch), GroupOf(batch, batch[i].uid))
                    [GroupOf(batch, batch[i].uid)]
  <2>1. Cardinality(GroupOf(batch, batch[i].uid)) = N
    BY GroupsOfWhole DEF BatchInv
  <2>2. N # 1
    BY StepAssumption
  <2>3. QED
    BY <2>1, <2>2, MeanIs
<1>3. advantages' = AdvantagesIn(batch)
  BY Zenon, <1>1, <1>2 DEF AdvantagesIn
<1>4. AdvantagesIn(batch)' = AdvantagesIn(batch)
  BY <1>1
<1>5. QED
  BY <1>3, <1>4 DEF AdvantageInv

\* Nothing but that step gives advantages, and none changes the batch behind it.
LEMMA AdvantageNext ==
  ASSUME N > 1, BatchInv, AdvantageInv, [Next]_vars
  PROVE  AdvantageInv'
<1>1. CASE ComputeAdvantage
  BY <1>1, AdvantageComputed
<1>2. CASE RewardRow \/ NextRow \/ EndReward \/ KeepAll \/ KeepGroups \/ ComputeLogProb
  <2>1. pc' \notin {"update", "done"}
    BY <1>2 DEF RewardRow, NextRow, EndReward, KeepAll, KeepGroups, ComputeLogProb
  <2>2. QED
    BY <2>1 DEF AdvantageInv
<1>3. CASE UpdateActor \/ Done \/ UNCHANGED vars
  <2>1. /\ batch' = batch /\ advantages' = advantages
        /\ pc' \in {"update", "done"} => pc \in {"update", "done"}
    BY <1>3 DEF UpdateActor, Done, batchVars, vars
  <2>2. AdvantagesIn(batch)' = AdvantagesIn(batch)
    BY <2>1
  <2>3. QED
    BY <2>1, <2>2 DEF AdvantageInv
<1>4. QED
  BY <1>1, <1>2, <1>3 DEF Next

\* The advantages of a prompt's samples cancel out, whatever the rewards are.
LEMMA CancelsWhere ==
  ASSUME BatchInv, AdvantageInv, pc \in {"update", "done"},
         NEW prompt \in PromptsOf(batch)
  PROVE  FoldFunctionOnSet(+, 0, advantages, RowsOf(prompt)) = 0
<1> DEFINE rows == RowsOf(prompt)
           f == RewardsIn(batch)
           total == Sum(f, rows)[rows]
<1>1. PICK k \in DOMAIN batch : batch[k].prompt = prompt
  BY DEF PromptsOf
<1>2. batch \in Seq(Records) /\ \A i \in DOMAIN batch : batch[i].uid = batch[i].prompt
  BY DEF BatchInv, WholePrompts
<1>3. Cardinality(rows) = N
  BY <1>1, GroupsOfWhole DEF BatchInv
<1>4. \A i \in rows : i \in DOMAIN batch /\ GroupOf(batch, batch[i].uid) = rows
  <2>1. \A i \in rows : i \in DOMAIN batch /\ batch[i].prompt = prompt
    BY DEF RowsOf
  <2>2. QED
    BY <2>1, GroupsOfWhole DEF BatchInv
<1>5. IsFiniteSet(rows)
  <2>1. DOMAIN batch = 1..Len(batch) /\ Len(batch) \in Nat
    BY <1>2
  <2>2. IsFiniteSet(1..Len(batch)) /\ rows \subseteq 1..Len(batch)
    BY <1>4, <2>1, FS_Interval
  <2>3. QED
    BY <2>2, FS_Subset
<1>6. \A i \in rows : f[i] \in Int /\ f[i] = batch[i].reward
  BY <1>2, <1>4, RecordHas DEF RecordsAre, RewardsIn
<1>7. \A i \in rows : advantages[i] = N * f[i] - total
  <2>1. advantages = AdvantagesIn(batch)
    BY DEF AdvantageInv
  <2>2. ASSUME NEW i \in rows
        PROVE  AdvantagesIn(batch)[i]
                 = Cardinality(rows) * batch[i].reward - Sum(RewardsIn(batch), rows)[rows]
    BY <1>4 DEF AdvantagesIn
  <2>3. QED
    BY <1>3, <1>6, <2>1, <2>2
<1>8. N \in Int
  BY StepAssumption
<1> HIDE DEF rows, f
<1>9. total \in Int
  BY <1>5, <1>6, SumSteps
<1> HIDE DEF total
<1>10. Sum(advantages, rows)[rows] = N * total - N * total
  <2>1. \A i \in rows : f[i] \in Int
    BY <1>6
  <2>2. Centered(advantages, f, rows, N, total)
    BY <1>7 DEF Centered
  <2>3. SumIsCentered(advantages, f, rows, N, total)
    BY <1>5, <1>8, <1>9, <2>1, <2>2, SumCentered
  <2>4. QED
    BY Zenon, <1>3, <2>3 DEF total, SumIsCentered
<1>11. N * total \in Int
  BY <1>8, <1>9
<1>12. Sum(advantages, rows)[rows] = 0
  BY <1>10, <1>11
<1>13. FoldFunctionOnSet(+, 0, advantages, rows) = Sum(advantages, rows)[rows]
  BY Zenon, FoldIsSum
<1>14. FoldFunctionOnSet(+, 0, advantages, rows) = 0
  BY Zenon, <1>12, <1>13
<1>15. QED
  BY Zenon, <1>14 DEF rows

\* Within a prompt the advantages cancel out, for any number of samples above
\* one: each is N times its reward less the rewards of the N samples that share
\* its uid.  The mean of a single sample is taken as 0, so there the advantage
\* is the reward itself.
THEOREM AdvantagesCorrect ==
  ASSUME N > 1
  PROVE  Spec => []AdvantagesCancel
<1>1. Init => AdvantageInv
  BY DEF Init, AdvantageInv
<1>2. BatchInv /\ AdvantageInv /\ [Next]_vars => AdvantageInv'
  BY AdvantageNext
<1>3. BatchInv /\ AdvantageInv => AdvantagesCancel
  BY Zenon, CancelsWhere DEF AdvantagesCancel
<1>4. QED
  BY <1>1, <1>2, <1>3, BatchCorrect, PTL DEF Spec
---------------------------------------------------------------------------
\* Equal parts

\* Multiples follow each other.
LEMMA Multiples ==
  ASSUME NEW d \in Nat, NEW m \in Nat, NEW l \in Nat
  PROVE  /\ m * d \in Nat /\ l * d \in Nat /\ (m + 1) * d = m * d + d
         /\ m < l => m * d + d <= l * d
<1>1. ASSUME NEW x \in Nat, NEW y \in Nat PROVE x * y \in Nat /\ (x + 1) * y = x * y + y
  OBVIOUS
<1>2. m * d \in Nat /\ l * d \in Nat /\ (m + 1) * d = m * d + d
  BY <1>1
<1>3. ASSUME m < l PROVE m * d + d <= l * d
  <2>1. PICK k \in Nat : l = (m + 1) + k
    <3>1. l - (m + 1) \in Nat /\ l = (m + 1) + (l - (m + 1))
      BY <1>3
    <3>2. QED
      BY <3>1
  <2>2. l * d = (m + 1) * d + k * d
    BY <2>1
  <2>3. k * d \in Nat
    BY <1>1
  <2>4. QED
    BY <1>2, <2>2, <2>3
<1>4. QED
  BY <1>2, <1>3

\* Number i is in the c-th part of size d behind a.
InPart(i, a, d, c) == a + (c - 1) * d < i /\ i <= a + (c - 1) * d + d

\* A part is within all of them.
LEMMA PartWithin ==
  ASSUME NEW i \in Nat, NEW a \in Nat, NEW d \in Nat, NEW k \in Nat, NEW c \in 1..k,
         InPart(i, a, d, c)
  PROVE  a < i /\ i <= a + k * d
<1> DEFINE p == (c - 1) * d
           l == k * d
<1>1. c - 1 \in Nat /\ c - 1 < k
  OBVIOUS
<1>2. p \in Nat /\ l \in Nat /\ p + d <= l
  BY <1>1, Multiples
<1>3. a + p < i /\ i <= a + p + d
  BY DEF InPart
<1> HIDE DEF p, l
<1>4. a < i /\ i <= a + l
  BY <1>2, <1>3
<1>5. QED
  BY <1>4 DEF l

\* Every number is in a part,
LEMMA PartExists ==
  ASSUME NEW a \in Nat, NEW d \in Nat, NEW k \in Nat, NEW i \in Nat, a < i, i <= a + k * d
  PROVE  \E c \in 1..k : InPart(i, a, d, c)
<1> DEFINE T == {n \in Nat : \A j \in Nat : a < j /\ j <= a + n * d =>
                                \E c \in 1..n : InPart(j, a, d, c)}
<1>1. 0 \in T
  <2>1. 0 * d = 0
    OBVIOUS
  <2>2. QED
    BY <2>1
<1>2. ASSUME NEW n \in Nat, n \in T PROVE n + 1 \in T
  <2>1. ASSUME NEW j \in Nat, a < j, j <= a + (n + 1) * d
        PROVE  \E c \in 1..(n + 1) : InPart(j, a, d, c)
    <3> DEFINE p == n * d
    <3>1. p \in Nat /\ (n + 1) * d = p + d
      BY Multiples
    <3>2. CASE j <= a + p
      <4>1. PICK c \in 1..n : InPart(j, a, d, c)
        BY <1>2, <2>1, <3>2
      <4>2. c \in 1..(n + 1)
        OBVIOUS
      <4>3. QED
        BY <4>1, <4>2
    <3>3. CASE a + p < j
      <4>1. n + 1 \in 1..(n + 1) /\ (n + 1) - 1 = n
        OBVIOUS
      <4>2. j <= a + p + d
        <5>1. j <= a + (p + d)
          BY <2>1, <3>1
        <5> HIDE DEF p
        <5>2. QED
          BY <3>1, <5>1
      <4>3. InPart(j, a, d, n + 1)
        BY <3>3, <4>1, <4>2 DEF InPart
      <4>4. QED
        BY <4>1, <4>3
    <3> HIDE DEF p
    <3>4. QED
      BY <3>1, <3>2, <3>3
  <2>2. QED
    BY <2>1
<1>3. k \in T
  <2> HIDE DEF T
  <2> QED
    BY <1>1, <1>2, NatAll
<1>4. QED
  BY <1>3

\* and in no other.
LEMMA PartOne ==
  ASSUME NEW i \in Nat, NEW a \in Nat, NEW d \in Nat, NEW b \in Nat \ {0}, NEW c \in Nat \ {0},
         InPart(i, a, d, b), InPart(i, a, d, c)
  PROVE  b = c
<1> DEFINE p == (b - 1) * d
           q == (c - 1) * d
<1>1. b - 1 \in Nat /\ c - 1 \in Nat
  OBVIOUS
<1>2. /\ p \in Nat /\ q \in Nat
      /\ b - 1 < c - 1 => p + d <= q
      /\ c - 1 < b - 1 => q + d <= p
  BY <1>1, Multiples
<1>3. a + p < i /\ i <= a + p + d /\ a + q < i /\ i <= a + q + d
  BY DEF InPart
<1> HIDE DEF p, q
<1>4. ~(b - 1 < c - 1) /\ ~(c - 1 < b - 1)
  BY <1>2, <1>3
<1>5. QED
  BY <1>1, <1>4

\* Number i is in the k-th part of the l-th part of the t-th part.
Within(i, share, size, w, t, l, k) == InPart(i, (t - 1) * share + (l - 1) * size, w, k)

\* The j-th part of the m-th part of the r-th part, and no other, has i.
IsOwner(i, share, size, w, R, M, J, r, m, j) ==
  \A t \in 1..R, l \in 1..M, k \in 1..J :
    Within(i, share, size, w, t, l, k) <=> t = r /\ l = m /\ k = j

\* Parts of parts of parts, where i is in one only.
LEMMA PartOwner ==
  ASSUME NEW R \in Nat, NEW M \in Nat, NEW J \in Nat, NEW w \in Nat, NEW size \in Nat,
         NEW share \in Nat, size = J * w, share = M * size,
         NEW i \in Nat, 0 < i, i <= R * share
  PROVE  \E r \in 1..R, m \in 1..M, j \in 1..J : IsOwner(i, share, size, w, R, M, J, r, m, j)
<1>1. PICK r \in 1..R : InPart(i, 0, share, r)
  BY PartExists
<1> DEFINE a(t) == (t - 1) * share
           b(l) == (l - 1) * size
<1>2. (\A t \in 1..R : a(t) \in Nat) /\ \A l \in 1..M : b(l) \in Nat
  <2>1. ASSUME NEW t \in 1..R PROVE a(t) \in Nat
    <3>1. t - 1 \in Nat
      OBVIOUS
    <3>2. QED
      BY <3>1, Multiples
  <2>2. ASSUME NEW l \in 1..M PROVE b(l) \in Nat
    <3>1. l - 1 \in Nat
      OBVIOUS
    <3>2. QED
      BY <3>1, Multiples
  <2>3. QED
    BY <2>1, <2>2
<1>3. \A t \in 1..R : InPart(i, 0, share, t) <=> a(t) < i /\ i <= a(t) + M * size
  BY <1>2 DEF InPart
<1>4. \A t \in 1..R, l \in 1..M :
        InPart(i, a(t), size, l) <=> a(t) + b(l) < i /\ i <= a(t) + b(l) + J * w
  BY DEF InPart
<1> HIDE DEF a, b
<1>5. PICK m \in 1..M : InPart(i, a(r), size, m)
  BY <1>1, <1>2, <1>3, PartExists
<1>6. \A t \in 1..R, l \in 1..M : a(t) + b(l) \in Nat
  BY <1>2
<1>7. PICK j \in 1..J : InPart(i, a(r) + b(m), w, j)
  BY <1>4, <1>5, <1>6, PartExists
<1>8. ASSUME NEW t \in 1..R, NEW l \in 1..M, NEW k \in 1..J, InPart(i, a(t) + b(l), w, k)
      PROVE  t = r /\ l = m /\ k = j
  <2>1. InPart(i, a(t), size, l)
    BY <1>4, <1>6, <1>8, PartWithin
  <2>2. InPart(i, 0, share, t)
    BY <1>2, <1>3, <2>1, PartWithin
  <2>3. t = r
    BY <1>1, <2>2, PartOne
  <2>4. l = m
    BY <1>2, <1>5, <2>1, <2>3, PartOne
  <2>5. k = j
    BY <1>6, <1>7, <1>8, <2>3, <2>4, PartOne
  <2>6. QED
    BY <2>3, <2>4, <2>5
<1>9. \A t \in 1..R, l \in 1..M, k \in 1..J :
        Within(i, share, size, w, t, l, k) <=> t = r /\ l = m /\ k = j
  BY <1>7, <1>8 DEF Within, a, b
<1>10. IsOwner(i, share, size, w, R, M, J, r, m, j)
  BY <1>9 DEF IsOwner
<1>11. QED
  BY <1>10

---------------------------------------------------------------------------
\* Chunks of consecutive rows

\* The l numbers behind a.
Run(a, l) == [i \in 1..l |-> a + i]

\* k parts of them, d numbers each.
RunParts(a, d, k) == [c \in 1..k |-> Run(a + (c - 1) * d, d)]

\* A run by its numbers.
LEMMA RunIs ==
  ASSUME NEW a \in Nat, NEW l \in Nat
  PROVE  /\ Run(a, l) \in Seq(Nat) /\ Len(Run(a, l)) = l
         /\ \A i \in 1..l : Run(a, l)[i] = a + i
<1>1. Run(a, l) \in [1..l -> Nat]
  BY DEF Run
<1>2. \A i \in 1..l : Run(a, l)[i] = a + i
  BY DEF Run
<1>3. QED
  BY <1>1, <1>2

\* It holds the numbers between.
LEMMA RunHolds ==
  ASSUME NEW a \in Nat, NEW d \in Nat, NEW c \in Nat \ {0}, NEW i \in Nat
  PROVE  Contains(Run(a + (c - 1) * d, d), i) <=> InPart(i, a, d, c)
<1> DEFINE b == a + (c - 1) * d
<1>1. b \in Nat
  <2>1. c - 1 \in Nat
    OBVIOUS
  <2>2. (c - 1) * d \in Nat
    BY <2>1, Multiples
  <2>3. QED
    BY <2>2
<1>2. InPart(i, a, d, c) <=> b < i /\ i <= b + d
  BY DEF InPart
<1> HIDE DEF b
<1>3. Len(Run(b, d)) = d /\ \A j \in 1..d : Run(b, d)[j] = b + j
  BY <1>1, RunIs
<1>4. Contains(Run(b, d), i) <=> \E j \in 1..d : b + j = i
  BY <1>3, Zenon DEF Contains
<1>5. ASSUME b < i, i <= b + d PROVE \E j \in 1..d : b + j = i
  <2>1. i - b \in 1..d /\ b + (i - b) = i
    BY <1>1, <1>5
  <2>2. QED
    BY <2>1
<1>6. ASSUME NEW j \in 1..d, b + j = i PROVE b < i /\ i <= b + d
  BY <1>1, <1>6
<1>7. Contains(Run(b, d), i) <=> b < i /\ i <= b + d
  BY <1>4, <1>5, <1>6
<1>8. QED
  BY <1>2, <1>7 DEF b

\* x is what s has behind the first a, for k elements.
IsStretch(x, s, a, k) ==
  /\ x \in Seq(Nat) /\ Len(x) = k
  /\ \A i \in 1..k : x[i] = s[a + i]

\* As SubSeq takes it from a sequence of numbers.
LEMMA NumbersStretch ==
  ASSUME NEW s \in Seq(Nat), NEW a \in Nat, NEW k \in Nat, a + k <= Len(s)
  PROVE  IsStretch(SubSeq(s, a + 1, a + k), s, a, k)
BY StretchIs DEF IsStretch

\* Chunks of a run are runs.
LEMMA ChunkIs ==
  ASSUME NEW a \in Nat, NEW d \in Nat, NEW k \in Nat \ {0}
  PROVE  Chunk(Run(a, k * d), k) = RunParts(a, d, k)
<1> DEFINE l == k * d
           s == Run(a, l)
<1>1. l \in Nat
  BY Multiples
<1>2. l \div k = d
  <2>1. l = d * k
    OBVIOUS
  <2>2. d * k <= l /\ l < d * k + k
    <3> HIDE DEF l
    <3>1. QED
      BY <1>1, <2>1
  <2> HIDE DEF l
  <2>3. QED
    BY <1>1, <2>2, QuotientIs
<1>3. ASSUME NEW c \in 1..k
      PROVE  SubSeq(s, (c - 1) * d + 1, c * d) = Run(a + (c - 1) * d, d)
  <2> DEFINE p == (c - 1) * d
             x == SubSeq(s, p + 1, p + d)
             y == Run(a + p, d)
  <2>1. c - 1 \in Nat /\ (c - 1) + 1 = c /\ c - 1 < k
    OBVIOUS
  <2>2. p \in Nat /\ p + d <= l /\ c * d = p + d
    BY <2>1, Multiples
  <2> HIDE DEF l, p
  <2>3. s \in Seq(Nat) /\ Len(s) = l /\ \A i \in 1..l : s[i] = a + i
    BY <1>1, RunIs
  <2>4. y \in Seq(Nat) /\ Len(y) = d /\ \A i \in 1..d : y[i] = a + p + i
    <3>1. a + p \in Nat
      BY <2>2
    <3>2. QED
      BY <3>1, RunIs
  <2> HIDE DEF s, x, y
  <2>5. x \in Seq(Nat) /\ Len(x) = d /\ \A i \in 1..d : x[i] = s[p + i]
    <3>1. s \in Seq(Nat) /\ p \in Nat /\ p + d <= Len(s)
      BY <2>2, <2>3
    <3>2. IsStretch(x, s, p, d)
      BY <3>1, NumbersStretch DEF x
    <3>3. QED
      BY <3>2 DEF IsStretch
  <2>6. \A i \in 1..d : x[i] = y[i]
    <3>1. ASSUME NEW i \in 1..d PROVE x[i] = y[i]
      <4>1. p + i \in 1..l
        BY <1>1, <2>2
      <4>2. s[p + i] = a + (p + i) /\ a + (p + i) = a + p + i
        BY <2>2, <2>3, <4>1
      <4>3. QED
        BY <2>4, <2>5, <4>2
    <3>2. QED
      BY <3>1
  <2>7. x = y
    BY <2>4, <2>5, <2>6
  <2>8. QED
    BY <2>2, <2>7 DEF x, y, s, p
<1>4. Len(s) = l
  BY <1>1, RunIs
<1> HIDE DEF l
<1>5. Chunk(s, k) = [c \in 1..k |-> SubSeq(s, (c - 1) * d + 1, c * d)]
  BY <1>2, <1>4 DEF Chunk
<1>6. Chunk(s, k) = RunParts(a, d, k)
  BY <1>3, <1>5 DEF RunParts
<1>7. QED
  BY <1>6 DEF s, l

\* A run is cut alike wherever it starts, and nothing of it is left over.
LEMMA PiecesAre ==
  ASSUME NEW l \in Nat \ {0}, NEW size \in Nat \ {0}
  PROVE  \E k \in Nat \ {0}, d \in Nat \ {0} :
           k * d = l /\ \A a \in Nat : Pieces(Run(a, l), size) = RunParts(a, d, k)
<1> DEFINE k == IF Divides(size, l) THEN l \div size ELSE 1
           d == l \div k
<1>1. k \in Nat \ {0} /\ d \in Nat \ {0} /\ k * d = l
  <2>1. CASE ~Divides(size, l)
    <3>1. k = 1 /\ l \div 1 = l
      BY <2>1
    <3>2. QED
      BY <3>1
  <2>2. CASE Divides(size, l)
    <3> DEFINE q == l \div size
    <3>1. k = q /\ l % size = 0
      BY <2>2 DEF Divides
    <3>2. q \in Nat /\ l = (size * q) + (l % size)
      OBVIOUS
    <3>3. l = size * q
      <4> HIDE DEF q
      <4>1. size * q \in Nat
        BY <3>2
      <4>2. QED
        BY <3>1, <3>2, <4>1
    <3>4. q # 0
      <4>1. ASSUME q = 0 PROVE FALSE
        <5>1. size * q = 0
          BY <4>1
        <5>2. QED
          BY <3>3, <5>1
      <4>2. QED
        BY <4>1
    <3> HIDE DEF q
    <3>5. size * q <= l /\ l < size * q + q
      BY <3>2, <3>3, <3>4
    <3>6. l \div q = size
      BY <3>2, <3>4, <3>5, QuotientIs
    <3>7. q * size = l
      BY <3>2, <3>3
    <3>8. QED
      BY <3>1, <3>2, <3>4, <3>6, <3>7
  <2>3. QED
    BY <2>1, <2>2
<1>2. \A a \in Nat : Pieces(Run(a, l), size) = Chunk(Run(a, l), k)
  <2>1. \A a \in Nat : Len(Run(a, l)) = l
    BY RunIs
  <2>2. QED
    BY <2>1, Zenon DEF Pieces
<1> HIDE DEF k, d
<1>3. \A a \in Nat : Pieces(Run(a, l), size) = RunParts(a, d, k)
  <2>1. \A a \in Nat : Chunk(Run(a, k * d), k) = RunParts(a, d, k)
    BY <1>1, ChunkIs
  <2>2. QED
    BY <1>1, <1>2, <2>1
<1>4. QED
  BY <1>1, <1>3

---------------------------------------------------------------------------
\* The steps of a rank

\* x, n times, one behind the other.
Copies(z, x, n) ==
  /\ Len(z) = n * Len(x)
  /\ \A e \in 1..n, m \in 1..Len(x) : z[(e - 1) * Len(x) + m] = x[m]

\* They are what the epochs make of the steps of one.
LEMMA CopiesAre ==
  ASSUME NEW A, NEW x \in Seq(A), NEW n \in Nat \ {0}
  PROVE  /\ Copies(FlattenSeq([e \in 1..n |-> x]), x, n)
         /\ FlattenSeq([e \in 1..n |-> x]) \in Seq(A)
<1> DEFINE s == [e \in 1..n |-> x]
           M == Len(x)
           T == {k \in Nat : k + 1 <= n => Copies(Flat(s)[k + 1], x, k + 1)}
<1>1. M \in Nat
  OBVIOUS
<1>2. s \in Seq(Seq(A)) /\ Len(s) = n /\ \A k \in 1..n : s[k] = x
  <2> DEFINE B == Seq(A)
  <2> HIDE DEF B
  <2>1. x \in B
    BY DEF B
  <2>2. s \in [1..n -> B]
    BY <2>1
  <2>3. s \in Seq(B) /\ Len(s) = n
    BY <2>2
  <2>4. QED
    BY <2>3 DEF B
<1> HIDE DEF s
<1>3. \A k \in 1..n : /\ Flat(s)[k] \in Seq(A)
                      /\ Flat(s)[k] = IF k = 1 THEN x ELSE Flat(s)[k - 1] \o x
  BY <1>2, FlatSteps
<1>4. 0 \in T
  <2>1. ASSUME 0 + 1 <= n PROVE Copies(Flat(s)[0 + 1], x, 0 + 1)
    <3>1. 1 \in 1..n /\ 0 + 1 = 1
      OBVIOUS
    <3>2. Flat(s)[1] = x
      BY <1>3, <3>1
    <3>3. \A e \in 1..1, m \in 1..M : (e - 1) * M + m = m
      BY <1>1
    <3>4. M = 1 * M
      BY <1>1
    <3>5. Copies(x, x, 1)
      BY <3>3, <3>4 DEF Copies
    <3>6. QED
      BY <3>1, <3>2, <3>5
  <2>2. QED
    BY <2>1
<1>5. ASSUME NEW k \in Nat, k \in T PROVE k + 1 \in T
  <2>1. ASSUME (k + 1) + 1 <= n PROVE Copies(Flat(s)[(k + 1) + 1], x, (k + 1) + 1)
    <3> DEFINE l == k + 1
               y == Flat(s)[l]
               z == Flat(s)[l + 1]
               p == l * M
    <3>1. l \in 1..n /\ l + 1 \in 1..n /\ l + 1 # 1 /\ (l + 1) - 1 = l /\ l \in Nat
      BY <2>1
    <3>2. Copies(y, x, l)
      BY <1>5, <3>1
    <3> HIDE DEF l, T
    <3>3. y \in Seq(A) /\ z = y \o x
      BY <1>3, <3>1
    <3>4. p \in Nat /\ (l + 1) * M = p + M
      BY <1>1, <3>1, Multiples
    <3>5. Len(y) = p /\ \A e \in 1..l, m \in 1..M : y[(e - 1) * M + m] = x[m]
      BY <3>2 DEF Copies
    <3> HIDE DEF y, z
    <3>6. IsConcat(z, y, x)
      BY <3>3, ConcatIs
    <3>7. Len(z) = p + M
      BY <3>5, <3>6 DEF IsConcat
    <3>8. ASSUME NEW e \in 1..(l + 1), NEW m \in 1..M
          PROVE  z[(e - 1) * M + m] = x[m]
      <4> DEFINE i == (e - 1) * M
      <4>1. CASE e = l + 1
        <5>1. e - 1 = l
          BY <3>1, <4>1
        <5>2. z[p + m] = x[m]
          BY <3>5, <3>6 DEF IsConcat
        <5>3. QED
          BY <5>1, <5>2
      <4>2. CASE e # l + 1
        <5>1. e \in 1..l /\ e - 1 \in Nat /\ e - 1 < l
          BY <3>1, <4>2
        <5>2. i \in Nat /\ i + M <= p
          BY <1>1, <3>1, <5>1, Multiples
        <5>3. y[i + m] = x[m]
          BY <3>5, <5>1
        <5> HIDE DEF i, p
        <5>4. i + m \in 1..p
          BY <1>1, <3>4, <5>2
        <5>5. z[i + m] = y[i + m]
          BY <3>5, <3>6, <5>4 DEF IsConcat
        <5>6. QED
          BY <5>3, <5>5 DEF i
      <4>3. QED
        BY <4>1, <4>2
    <3>9. Copies(z, x, l + 1)
      BY <3>4, <3>7, <3>8 DEF Copies
    <3>10. QED
      BY <3>9 DEF z, l
  <2>2. QED
    BY <2>1
<1>6. n - 1 \in T
  <2>1. n - 1 \in Nat
    OBVIOUS
  <2> HIDE DEF T
  <2>2. QED
    BY <1>4, <1>5, <2>1, NatAll
<1>7. Copies(Flat(s)[n], x, n)
  <2>1. n - 1 \in Nat /\ (n - 1) + 1 = n
    OBVIOUS
  <2>2. QED
    BY <1>6, <2>1
<1>8. FlattenSeq(s) = Flat(s)[n]
  BY <1>2, FlattenIsFlat
<1>9. FlattenSeq(s) \in Seq(A)
  BY <1>2, FlattenIn
<1>10. QED
  BY <1>7, <1>8, <1>9 DEF s

\* An optimizer step on the size numbers behind a, in J parts of w.
StepOn(a, w, J) == [micros |-> RunParts(a, w, J), accumulation |-> J]

\* The steps of a rank whose rows are those behind a.
StepsAre(z, a, M, size, J, w) ==
  /\ DOMAIN z = 1..(PpoEpochs * M)
  /\ \A e \in 1..PpoEpochs, m \in 1..M :
       z[(e - 1) * M + m] = StepOn(a + (m - 1) * size, w, J)

\* Every rank cuts its share alike, whatever its rows are.
LEMMA RankStepsAre ==
  ASSUME NEW share \in Nat \ {0}, NEW mini \in Nat \ {0}, NEW micro \in Nat \ {0}
  PROVE  \E M \in Nat \ {0}, size \in Nat \ {0}, J \in Nat \ {0}, w \in Nat \ {0} :
           /\ share = M * size /\ size = J * w
           /\ \A a \in Nat : StepsAre(RankSteps(Run(a, share), mini, micro), a, M, size, J, w)
<1> DEFINE eff == EffectiveMini(mini, share)
<1>1. eff \in Nat \ {0}
  <2>1. mini * N \in Nat /\ Ranks \in Nat /\ Ranks > 0
    <3>1. N \in Nat
      BY StepAssumption
    <3>2. QED
      BY <3>1, Multiples, StepAssumption
  <2> DEFINE p == mini * N
             q == p \div Ranks
  <2> HIDE DEF p
  <2>2. q \in Nat
    BY <2>1 DEF p
  <2>3. EffectiveMini(mini, share) =
          LET within == IF q < share THEN q ELSE share
          IN  IF within > 1 THEN within ELSE 1
    BY DEF EffectiveMini, p
  <2> HIDE DEF q
  <2>4. QED
    BY <2>2, <2>3
<1> HIDE DEF eff
<1>2. PICK M \in Nat \ {0}, size \in Nat \ {0} :
        M * size = share /\ \A a \in Nat : Pieces(Run(a, share), eff) = RunParts(a, size, M)
  BY <1>1, PiecesAre
<1>3. PICK J \in Nat \ {0}, w \in Nat \ {0} :
        J * w = size /\ \A a \in Nat : Pieces(Run(a, size), micro) = RunParts(a, w, J)
  BY PiecesAre
<1>4. ASSUME NEW a \in Nat
      PROVE  StepsAre(RankSteps(Run(a, share), mini, micro), a, M, size, J, w)
  <2> DEFINE minis == RunParts(a, size, M)
             b(m) == a + (m - 1) * size
             x == [m \in 1..M |-> StepOn(b(m), w, J)]
  <2>1. Len(minis) = M /\ \A m \in 1..M : minis[m] = Run(b(m), size)
    BY DEF RunParts
  <2>2. \A m \in 1..M : b(m) \in Nat
    <3>1. ASSUME NEW m \in 1..M PROVE b(m) \in Nat
      <4>1. m - 1 \in Nat
        OBVIOUS
      <4>2. (m - 1) * size \in Nat
        BY <4>1, Multiples
      <4>3. QED
        BY <4>2
    <3>2. QED
      BY <3>1
  <2> HIDE DEF minis, b
  <2>3. \A c \in Nat : OptimizerStep(Run(c, size), eff, micro) = StepOn(c, w, J)
    <3>1. ASSUME NEW c \in Nat
          PROVE  OptimizerStep(Run(c, size), eff, micro) = StepOn(c, w, J)
      <4>1. Pieces(Run(c, size), micro) = RunParts(c, w, J)
        BY <1>3
      <4>2. Len(RunParts(c, w, J)) = J
        BY DEF RunParts
      <4>3. QED
        BY <4>1, <4>2, Zenon DEF OptimizerStep, Accumulation, StepOn
    <3>2. QED
      BY <3>1
  <2>4. [m \in 1..Len(minis) |-> OptimizerStep(minis[m], eff, micro)] = x
    BY <2>1, <2>2, <2>3
  <2>5. Len(Run(a, share)) = share
    BY RunIs
  <2>6. RankSteps(Run(a, share), mini, micro) = FlattenSeq([e \in 1..PpoEpochs |-> x])
    <3>1. Pieces(Run(a, share), eff) = minis
      BY <1>2 DEF minis
    <3> HIDE DEF x
    <3>2. QED
      BY <2>4, <2>5, <3>1, Zenon DEF RankSteps, eff
  <2>7. /\ x \in Seq({StepOn(b(m), w, J) : m \in 1..M}) /\ Len(x) = M
        /\ \A m \in 1..M : x[m] = StepOn(b(m), w, J)
    <3> DEFINE A == {StepOn(b(m), w, J) : m \in 1..M}
    <3>1. x \in [1..M -> A] /\ \A m \in 1..M : x[m] = StepOn(b(m), w, J)
      OBVIOUS
    <3> HIDE DEF x, A
    <3>2. x \in Seq(A) /\ Len(x) = M
      BY <3>1
    <3>3. QED
      BY <3>1, <3>2 DEF A
  <2> HIDE DEF x
  <2>8. PpoEpochs \in Nat \ {0}
    BY StepAssumption
  <2> DEFINE z == RankSteps(Run(a, share), mini, micro)
             A == {StepOn(b(m), w, J) : m \in 1..M}
  <2> HIDE DEF A
  <2>9. x \in Seq(A)
    BY <2>7 DEF A
  <2>10. Copies(z, x, PpoEpochs) /\ z \in Seq(A)
    BY <2>6, <2>8, <2>9, CopiesAre
  <2> HIDE DEF z
  <2>11. DOMAIN z = 1..(PpoEpochs * M)
    BY <2>7, <2>10 DEF Copies
  <2>12. StepsAre(z, a, M, size, J, w)
    BY <2>7, <2>10, <2>11 DEF Copies, StepsAre, b
  <2>13. QED
    BY <2>12 DEF z
<1>5. QED
  BY <1>2, <1>3, <1>4

---------------------------------------------------------------------------
\* Every row, once in every epoch

\* A batch that is trained on divides by the ranks, and the steps are theirs.
StepsInv ==
  /\ pc \in {"advantage", "update", "done"} => Len(batch) % Ranks = 0 /\ Len(batch) # 0
  /\ pc = "done" =>
       \E mini \in MiniBatchSizes, micro \in MicroBatchSizes :
         steps = [rank \in 1..Ranks |-> RankSteps(Shares[rank], mini, micro)]

\* The log-probabilities are only computed of shares that are not empty.
LEMMA LogProbDivides ==
  ASSUME BatchInv, ComputeLogProb, pc' = "advantage"
  PROVE  Len(batch) % Ranks = 0 /\ Len(batch) # 0
<1> DEFINE l == Len(batch)
           share == l \div Ranks
<1>1. PICK micro \in LogProbMicroBatchSizes :
        Divides(Ranks, l) /\ Divides(share \div micro, share)
  BY Zenon DEF ComputeLogProb
<1>2. micro \in Nat /\ micro > 0 /\ Ranks \in Nat /\ Ranks > 0
  BY StepAssumption
<1>3. l % Ranks = 0 /\ share \div micro > 0
  BY <1>1 DEF Divides
<1>4. ASSUME l = 0 PROVE FALSE
  <2>1. ASSUME NEW n \in Nat, n > 0 PROVE 0 \div n = 0
    <3>1. 0 * n = 0
      BY <2>1
    <3>2. QED
      BY <2>1, <3>1, QuotientIs
  <2>2. share = 0
    BY <1>2, <1>4, <2>1
  <2>3. share \div micro = 0
    BY <1>2, <2>1, <2>2
  <2>4. QED
    BY <1>3, <2>3
<1>5. QED
  BY <1>3, <1>4

\* Only that step lets a batch through to the update, which makes the steps.
LEMMA StepsNext == BatchInv /\ StepsInv /\ [Next]_vars => StepsInv'
<1> SUFFICES ASSUME BatchInv, StepsInv, [Next]_vars PROVE StepsInv'
  OBVIOUS
<1>1. CASE RewardRow \/ NextRow \/ EndReward \/ KeepAll \/ KeepGroups
  <2>1. pc' \notin {"advantage", "update", "done"}
    BY <1>1 DEF RewardRow, NextRow, EndReward, KeepAll, KeepGroups
  <2>2. QED
    BY <2>1 DEF StepsInv
<1>2. CASE ComputeLogProb
  <2>1. pc' \in {"advantage", "raised"} /\ batch' = batch
    BY <1>2 DEF ComputeLogProb, batchVars
  <2>2. pc' = "advantage" => Len(batch) % Ranks = 0 /\ Len(batch) # 0
    BY <1>2, LogProbDivides
  <2>3. QED
    BY <2>1, <2>2 DEF StepsInv
<1>3. CASE ComputeAdvantage
  <2>1. pc = "advantage" /\ pc' = "update" /\ batch' = batch
    BY <1>3 DEF ComputeAdvantage, batchVars
  <2>2. QED
    BY <2>1 DEF StepsInv
<1>4. CASE UpdateActor
  <2>1. pc = "update" /\ pc' = "done" /\ batch' = batch
    BY <1>4 DEF UpdateActor, batchVars
  <2>2. Shares' = Shares
    BY <2>1 DEF Shares
  <2>3. \E mini \in MiniBatchSizes, micro \in MicroBatchSizes :
          steps' = [rank \in 1..Ranks |-> RankSteps(Shares[rank], mini, micro)]
    BY <1>4 DEF UpdateActor
  <2>4. QED
    BY <2>1, <2>2, <2>3 DEF StepsInv
<1>5. CASE Done \/ UNCHANGED vars
  <2>1. pc' = pc /\ batch' = batch /\ steps' = steps
    BY <1>5 DEF Done, batchVars, vars
  <2>2. Shares' = Shares
    BY <2>1 DEF Shares
  <2>3. QED
    BY <2>1, <2>2 DEF StepsInv
<1>6. QED
  BY <1>1, <1>2, <1>3, <1>4, <1>5 DEF Next

\* The ranks of a batch that divides have the same number of rows, in order.
LEMMA SharesAre ==
  ASSUME Len(batch) \in Nat, Len(batch) % Ranks = 0, Len(batch) # 0
  PROVE  \E share \in Nat \ {0} :
           Len(batch) = Ranks * share /\ Shares = RunParts(0, share, Ranks)
<1> DEFINE l == Len(batch)
           share == l \div Ranks
<1>1. Ranks \in Nat /\ Ranks > 0 /\ Ranks \in Nat \ {0}
  BY StepAssumption
<1>2. share \in Nat /\ l = (Ranks * share) + (l % Ranks)
  BY <1>1
<1> HIDE DEF share
<1>3. l = Ranks * share
  <2>1. Ranks * share \in Nat
    BY <1>1, <1>2
  <2>2. QED
    BY <1>2, <2>1
<1>4. share # 0
  <2>1. ASSUME share = 0 PROVE FALSE
    <3>1. Ranks * share = 0
      BY <1>1, <2>1
    <3>2. QED
      BY <1>3, <3>1
  <2>2. QED
    BY <2>1
<1>5. [i \in 1..l |-> i] = Run(0, Ranks * share)
  BY <1>3 DEF Run
<1>6. Shares = RunParts(0, share, Ranks)
  <2>1. Shares = Chunk(Run(0, Ranks * share), Ranks)
    BY <1>5, Zenon DEF Shares
  <2>2. QED
    BY <1>1, <1>2, <2>1, ChunkIs
<1>7. QED
  BY <1>2, <1>3, <1>4, <1>6

\* The steps of all ranks: E epochs of M steps, each on J parts of w rows.
AllStepsAre(M, size, J, w, share) ==
  /\ Len(batch) = Ranks * share /\ share = M * size /\ size = J * w
  /\ \A r \in 1..Ranks : StepsAre(steps[r], (r - 1) * share, M, size, J, w)

\* What UpdateActor makes of a batch that divides.
LEMMA AllStepsExist ==
  ASSUME BatchInv, StepsInv, pc = "done"
  PROVE  \E M \in Nat \ {0}, size \in Nat \ {0}, J \in Nat \ {0}, w \in Nat \ {0},
           share \in Nat \ {0} : AllStepsAre(M, size, J, w, share)
<1>1. Len(batch) \in Nat /\ Len(batch) % Ranks = 0 /\ Len(batch) # 0
  <2>1. batch \in Seq(Records)
    BY DEF BatchInv, WholePrompts
  <2>2. Len(batch) \in Nat
    BY <2>1
  <2>3. QED
    BY <2>2 DEF StepsInv
<1>2. PICK share \in Nat \ {0} : Len(batch) = Ranks * share /\ Shares = RunParts(0, share, Ranks)
  BY <1>1, SharesAre
<1>3. PICK mini \in MiniBatchSizes, micro \in MicroBatchSizes :
        steps = [rank \in 1..Ranks |-> RankSteps(Shares[rank], mini, micro)]
  BY DEF StepsInv
<1>4. mini \in Nat \ {0} /\ micro \in Nat \ {0} /\ Ranks \in Nat
  BY StepAssumption
<1>5. PICK M \in Nat \ {0}, size \in Nat \ {0}, J \in Nat \ {0}, w \in Nat \ {0} :
        /\ share = M * size /\ size = J * w
        /\ \A a \in Nat : StepsAre(RankSteps(Run(a, share), mini, micro), a, M, size, J, w)
  BY <1>4, RankStepsAre
<1>6. ASSUME NEW r \in 1..Ranks PROVE StepsAre(steps[r], (r - 1) * share, M, size, J, w)
  <2> DEFINE a == (r - 1) * share
  <2>1. a \in Nat
    <3>1. r - 1 \in Nat
      BY <1>4
    <3>2. QED
      BY <3>1, Multiples
  <2>2. Shares[r] = Run(0 + a, share)
    BY <1>2 DEF RunParts
  <2>3. steps[r] = RankSteps(Shares[r], mini, micro)
    BY <1>3
  <2> HIDE DEF a
  <2>4. 0 + a = a
    BY <2>1
  <2>5. StepsAre(steps[r], a, M, size, J, w)
    BY <1>5, <2>1, <2>2, <2>3, <2>4
  <2>6. QED
    BY <2>5 DEF a
<1>7. AllStepsAre(M, size, J, w, share)
  BY <1>2, <1>5, <1>6 DEF AllStepsAre
<1>8. QED
  BY <1>7

\* Step s is one of n epochs of M steps,
IsStepOf(s, n, M) == \E e \in 1..n, m \in 1..M : s = (e - 1) * M + m

\* as every step is.
LEMMA StepOfEpoch ==
  ASSUME NEW M \in Nat \ {0}, NEW n \in Nat, NEW s \in 1..(n * M)
  PROVE  IsStepOf(s, n, M)
<1>1. s \in Nat /\ 0 < s /\ s <= 0 + n * M
  <2>1. n * M \in Nat
    BY Multiples
  <2>2. QED
    BY <2>1
<1>2. PICK e \in 1..n : InPart(s, 0, M, e)
  BY <1>1, PartExists
<1> DEFINE p == (e - 1) * M
<1>3. p \in Nat
  <2>1. e - 1 \in Nat
    OBVIOUS
  <2>2. QED
    BY <2>1, Multiples
<1>4. 0 + p < s /\ s <= 0 + p + M
  BY <1>2 DEF InPart
<1> HIDE DEF p
<1>5. s - p \in 1..M /\ s = p + (s - p)
  BY <1>1, <1>3, <1>4
<1>6. QED
  BY <1>5 DEF p, IsStepOf

\* The numbers of an epoch's steps are among those of all, and no other epoch's.
LEMMA EpochSteps ==
  ASSUME NEW M \in Nat \ {0}, NEW n \in Nat, NEW e \in 1..n, NEW m \in 1..M
  PROVE  /\ (e - 1) * M + m \in 1..(n * M)
         /\ \A f \in 1..n : (e - 1) * M + m = (f - 1) * M + m => e = f
<1> DEFINE p == (e - 1) * M
           l == n * M
<1>1. e - 1 \in Nat /\ e - 1 < n
  OBVIOUS
<1>2. p \in Nat /\ l \in Nat /\ p + M <= l
  BY <1>1, Multiples
<1>3. p + m \in 1..l
  <2> HIDE DEF p, l
  <2>1. QED
    BY <1>2
<1>4. ASSUME NEW f \in 1..n, p + m = (f - 1) * M + m PROVE e = f
  <2> DEFINE q == (f - 1) * M
  <2>1. q \in Nat
    <3>1. f - 1 \in Nat
      OBVIOUS
    <3>2. QED
      BY <3>1, Multiples
  <2>2. p = q
    <3> HIDE DEF p, q
    <3>1. p + m = q + m
      BY <1>4 DEF q
    <3>2. QED
      BY <1>2, <2>1, <3>1
  <2>3. 0 + p < p + m /\ p + m <= 0 + p + M /\ 0 + q < p + m /\ p + m <= 0 + q + M /\ p + m \in Nat
    <3> HIDE DEF p, q
    <3>1. QED
      BY <1>2, <2>2
  <2>4. InPart(p + m, 0, M, e) /\ InPart(p + m, 0, M, f)
    BY <2>3 DEF InPart
  <2>5. e \in Nat \ {0} /\ f \in Nat \ {0} /\ 0 \in Nat /\ M \in Nat
    OBVIOUS
  <2> HIDE DEF p, q
  <2>6. QED
    BY <2>3, <2>4, <2>5, PartOne
<1>5. QED
  BY <1>3, <1>4

\* The micro-batches that row i is in.
UsesOf(i) ==
  {u \in UNION {[rank : {r}, step : {s}, micro : 1..Len(steps[r][s].micros)] :
                  r \in 1..Ranks, s \in DOMAIN steps[1]} :
     Contains(steps[u.rank][u.step].micros[u.micro], i)}

UseAt(r, s, k) == [rank |-> r, step |-> s, micro |-> k]

\* The j-th part of the m-th step of every epoch.
EveryEpoch(r, m, j, M) == {UseAt(r, (e - 1) * M + m, j) : e \in 1..PpoEpochs}

\* Row i is in the same part of the same step of every epoch, of a rank.
InEveryEpoch(i, M, J) ==
  \E r \in 1..Ranks, m \in 1..M, j \in 1..J : UsesOf(i) = EveryEpoch(r, m, j, M)

\* The uses of a row are the micro-batches that have it.
LEMMA UseIs ==
  ASSUME NEW i, NEW u
  PROVE  u \in UsesOf(i) <=>
           \E t \in 1..Ranks, s \in DOMAIN steps[1] :
             \E k \in 1..Len(steps[t][s].micros) :
               u = UseAt(t, s, k) /\ Contains(steps[t][s].micros[k], i)
<1> DEFINE Place(r, s) == [rank : {r}, step : {s}, micro : 1..Len(steps[r][s].micros)]
           Places == UNION {Place(r, s) : r \in 1..Ranks, s \in DOMAIN steps[1]}
           Holds(v) == Contains(steps[v.rank][v.step].micros[v.micro], i)
<1>0. UsesOf(i) = {v \in Places : Holds(v)}
  BY DEF UsesOf
<1> HIDE DEF Places, Holds
<1>1. ASSUME u \in UsesOf(i)
      PROVE  \E t \in 1..Ranks, s \in DOMAIN steps[1] :
               \E k \in 1..Len(steps[t][s].micros) :
                 u = UseAt(t, s, k) /\ Contains(steps[t][s].micros[k], i)
  <2>1. PICK t \in 1..Ranks, s \in DOMAIN steps[1] : u \in Place(t, s)
    <3> HIDE DEF Place
    <3>1. u \in Places
      BY <1>0, <1>1
    <3>2. QED
      BY <3>1 DEF Places
  <2>2. Contains(steps[u.rank][u.step].micros[u.micro], i)
    BY <1>0, <1>1 DEF Holds
  <2>3. u.rank = t /\ u.step = s /\ u.micro \in 1..Len(steps[t][s].micros)
    BY <2>1
  <2>4. u = UseAt(t, s, u.micro)
    BY <2>1 DEF UseAt
  <2>5. QED
    BY <2>2, <2>3, <2>4
<1>2. ASSUME NEW t \in 1..Ranks, NEW s \in DOMAIN steps[1],
             NEW k \in 1..Len(steps[t][s].micros),
             u = UseAt(t, s, k), Contains(steps[t][s].micros[k], i)
      PROVE  u \in UsesOf(i)
  <2>1. u \in Place(t, s)
    BY <1>2 DEF UseAt
  <2>2. u.rank = t /\ u.step = s /\ u.micro = k
    BY <1>2 DEF UseAt
  <2>3. Contains(steps[u.rank][u.step].micros[u.micro], i)
    BY <1>2, <2>2
  <2> HIDE DEF Place
  <2>4. u \in Places
    BY <2>1 DEF Places
  <2>5. QED
    BY <1>0, <2>3, <2>4 DEF Holds
<1>3. QED
  BY <1>1, <1>2

\* A row is used once in every epoch, always by the same part of the same step.
LEMMA UsesAre ==
  ASSUME NEW M \in Nat \ {0}, NEW size \in Nat \ {0}, NEW J \in Nat \ {0},
         NEW w \in Nat \ {0}, NEW share \in Nat \ {0}, AllStepsAre(M, size, J, w, share),
         NEW i \in 1..Len(batch)
  PROVE  InEveryEpoch(i, M, J)
<1> DEFINE E == PpoEpochs
           At(e, l) == (e - 1) * M + l
<1>1. Ranks \in Nat /\ 1 \in 1..Ranks /\ E \in Nat
  BY StepAssumption
<1>2. i \in Nat /\ 0 < i /\ i <= Ranks * share /\ size = J * w /\ share = M * size
  <2>1. Ranks * share \in Nat /\ Len(batch) = Ranks * share /\ share = M * size /\ size = J * w
    BY <1>1, Multiples DEF AllStepsAre
  <2>2. QED
    BY <2>1
<1>3. PICK r \in 1..Ranks, m \in 1..M, j \in 1..J :
        IsOwner(i, share, size, w, Ranks, M, J, r, m, j)
  <2>1. M \in Nat /\ J \in Nat /\ w \in Nat /\ size \in Nat /\ share \in Nat
    OBVIOUS
  <2>2. QED
    BY <1>1, <1>2, <2>1, PartOwner
<1>4. ASSUME NEW t \in 1..Ranks, NEW e \in 1..E, NEW l \in 1..M
      PROVE  /\ Len(steps[t][At(e, l)].micros) = J
             /\ \A k \in 1..J : Contains(steps[t][At(e, l)].micros[k], i) <=>
                                  t = r /\ l = m /\ k = j
  <2> DEFINE a == (t - 1) * share + (l - 1) * size
  <2>1. a \in Nat
    <3>1. t - 1 \in Nat /\ l - 1 \in Nat
      BY <1>1
    <3>2. (t - 1) * share \in Nat /\ (l - 1) * size \in Nat
      BY <3>1, Multiples
    <3>3. QED
      BY <3>2
  <2>2. steps[t][At(e, l)] = StepOn(a, w, J)
    BY DEF AllStepsAre, StepsAre
  <2>3. steps[t][At(e, l)].micros = RunParts(a, w, J)
    BY <2>2 DEF StepOn
  <2>4. \A k \in 1..J : Within(i, share, size, w, t, l, k) <=> InPart(i, a, w, k)
    BY DEF Within
  <2> HIDE DEF a, At
  <2>5. Len(RunParts(a, w, J)) = J /\ \A k \in 1..J : RunParts(a, w, J)[k] = Run(a + (k - 1) * w, w)
    BY DEF RunParts
  <2>6. ASSUME NEW k \in 1..J PROVE Contains(RunParts(a, w, J)[k], i) <=> InPart(i, a, w, k)
    <3>1. k \in Nat \ {0} /\ w \in Nat
      OBVIOUS
    <3>2. Contains(Run(a + (k - 1) * w, w), i) <=> InPart(i, a, w, k)
      BY <1>2, <2>1, <3>1, RunHolds
    <3>3. QED
      BY <2>5, <3>2
  <2>7. QED
    BY <1>3, <2>3, <2>4, <2>5, <2>6 DEF IsOwner
<1>5. DOMAIN steps[1] = 1..(E * M)
  BY <1>1 DEF AllStepsAre, StepsAre
<1>6. ASSUME NEW u \in UsesOf(i) PROVE \E e \in 1..E : u = UseAt(r, At(e, m), j)
  <2>1. PICK t \in 1..Ranks, s \in 1..(E * M) :
          \E k \in 1..Len(steps[t][s].micros) :
            u = UseAt(t, s, k) /\ Contains(steps[t][s].micros[k], i)
    BY <1>5, UseIs
  <2>2. PICK e \in 1..E, l \in 1..M : s = At(e, l)
    <3>1. IsStepOf(s, E, M)
      BY <1>1, StepOfEpoch
    <3>2. QED
      BY <3>1 DEF IsStepOf
  <2>3. PICK k \in 1..Len(steps[t][s].micros) :
          u = UseAt(t, s, k) /\ Contains(steps[t][s].micros[k], i)
    BY <2>1
  <2> HIDE DEF At
  <2>4. t = r /\ l = m /\ k = j
    BY <1>4, <2>2, <2>3
  <2>5. QED
    BY <2>2, <2>3, <2>4
<1>7. ASSUME NEW e \in 1..E PROVE UseAt(r, At(e, m), j) \in UsesOf(i)
  <2>1. At(e, m) \in 1..(E * M)
    BY <1>1, EpochSteps
  <2> HIDE DEF At
  <2>2. j \in 1..Len(steps[r][At(e, m)].micros) /\ Contains(steps[r][At(e, m)].micros[j], i)
    BY <1>4
  <2>3. QED
    BY <1>5, <2>1, <2>2, UseIs
<1>8. UsesOf(i) = {UseAt(r, At(e, m), j) : e \in 1..E}
  <2> HIDE DEF At
  <2>1. QED
    BY <1>6, <1>7
<1>9. UsesOf(i) = EveryEpoch(r, m, j, M)
  BY <1>8 DEF EveryEpoch
<1>10. QED
  BY <1>9 DEF InEveryEpoch

\* So it is used as often as there are epochs.
LEMMA UsesCount ==
  ASSUME NEW M \in Nat \ {0}, NEW r, NEW m \in 1..M, NEW j
  PROVE  Cardinality(EveryEpoch(r, m, j, M)) = PpoEpochs
<1> DEFINE E == PpoEpochs
           U == {UseAt(r, (e - 1) * M + m, j) : e \in 1..E}
           f == [e \in 1..E |-> UseAt(r, (e - 1) * M + m, j)]
<1>1. E \in Nat
  BY StepAssumption
<1>2. f \in [1..E -> U] /\ \A u \in U : \E e \in 1..E : f[e] = u
  OBVIOUS
<1>3. ASSUME NEW d \in 1..E, NEW e \in 1..E, f[d] = f[e] PROVE d = e
  <2>1. UseAt(r, (d - 1) * M + m, j) = UseAt(r, (e - 1) * M + m, j)
    BY <1>3
  <2>2. (d - 1) * M + m = (e - 1) * M + m
    BY <2>1 DEF UseAt
  <2>3. QED
    BY <1>1, <2>2, EpochSteps
<1> HIDE DEF f, U
<1>4. f \in Bijection(1..E, U)
  BY <1>2, <1>3 DEF Bijection, Injection, Surjection, IsInjective
<1>5. IsFiniteSet(1..E) /\ Cardinality(1..E) = E
  BY <1>1, FS_Interval
<1>6. Cardinality(U) = E
  BY <1>4, <1>5, FS_Bijection DEF ExistsBijection
<1>7. QED
  BY <1>6 DEF U, EveryEpoch

\* Every row is trained on once in every epoch, for any sizes in the
\* configuration: the shares of the ranks, their mini-batches and the
\* micro-batches of these leave none out and take none twice, all ranks make the
\* same number of optimizer steps, and the gradients of a step are divided by
\* the number of its micro-batches.
THEOREM EpochsCorrect == Spec => []EachRowOncePerEpoch
<1>1. Init => StepsInv
  BY DEF Init, StepsInv
<1>2. ASSUME BatchInv, StepsInv PROVE EachRowOncePerEpoch
  <2> SUFFICES ASSUME pc = "done"
               PROVE  /\ \A r \in 1..Ranks : DOMAIN steps[r] = DOMAIN steps[1]
                      /\ \A i \in DOMAIN batch : Cardinality(UsesOf(i)) = PpoEpochs
                      /\ \A r \in 1..Ranks : \A s \in DOMAIN steps[r] :
                           steps[r][s].accumulation = Len(steps[r][s].micros)
    BY DEF EachRowOncePerEpoch, UsesOf
  <2>1. PICK M \in Nat \ {0}, size \in Nat \ {0}, J \in Nat \ {0}, w \in Nat \ {0},
             share \in Nat \ {0} : AllStepsAre(M, size, J, w, share)
    BY <1>2, AllStepsExist
  <2>2. 1 \in 1..Ranks /\ PpoEpochs \in Nat
    BY StepAssumption
  <2>3. \A r \in 1..Ranks : DOMAIN steps[r] = 1..(PpoEpochs * M)
    BY <2>1 DEF AllStepsAre, StepsAre
  <2>4. ASSUME NEW i \in DOMAIN batch PROVE Cardinality(UsesOf(i)) = PpoEpochs
    <3>1. batch \in Seq(Records)
      BY <1>2 DEF BatchInv, WholePrompts
    <3>2. i \in 1..Len(batch)
      BY <3>1
    <3>3. PICK r \in 1..Ranks, m \in 1..M, j \in 1..J :
            UsesOf(i) = EveryEpoch(r, m, j, M)
      <4>1. InEveryEpoch(i, M, J)
        BY <2>1, <3>2, UsesAre
      <4>2. QED
        BY <4>1 DEF InEveryEpoch
    <3>4. QED
      BY <3>3, UsesCount
  <2>5. ASSUME NEW r \in 1..Ranks, NEW s \in DOMAIN steps[r]
        PROVE  steps[r][s].accumulation = Len(steps[r][s].micros)
    <3>1. s \in 1..(PpoEpochs * M)
      BY <2>3
    <3>2. PICK e \in 1..PpoEpochs, m \in 1..M : s = (e - 1) * M + m
      <4>1. IsStepOf(s, PpoEpochs, M)
        BY <2>2, <3>1, StepOfEpoch
      <4>2. QED
        BY <4>1 DEF IsStepOf
    <3>3. steps[r][s] = StepOn((r - 1) * share + (m - 1) * size, w, J)
      BY <2>1, <3>2 DEF AllStepsAre, StepsAre
    <3> DEFINE a == (r - 1) * share + (m - 1) * size
    <3> HIDE DEF a
    <3>4. steps[r][s].accumulation = J /\ steps[r][s].micros = RunParts(a, w, J)
      BY <3>3 DEF StepOn, a
    <3>5. Len(RunParts(a, w, J)) = J
      BY DEF RunParts
    <3>6. QED
      BY <3>4, <3>5
  <2>6. QED
    BY <2>2, <2>3, <2>4, <2>5
<1>3. BatchInv /\ StepsInv /\ [Next]_vars => StepsInv'
  BY StepsNext
<1>4. QED
  BY <1>1, <1>2, <1>3, BatchCorrect, PTL DEF Spec
---------------------------------------------------------------------------
\* What an answer is worth

\* Where only correct answers are paid, spans go with a score above the threshold.
UnpaidInv == PaysCorrectOnly /\ spans # <<>> => score > CorrectThreshold

\* What is paid to a row that is not shaped.
LEMMA ShapedPays ==
  ASSUME Rewarded # <<>>, PaysCorrectOnly
  PROVE  ComputeScore > CorrectThreshold
<1>1. Shaped
  BY DEF Rewarded
<1>2. QED
  BY <1>1 DEF Shaped, PaysCorrectOnly

\* A step may take another row, but in no other mode.
LEMMA ModeKept ==
  ASSUME RowInv, [Next]_vars
  PROVE  info'.mode = info.mode /\ info'.correctOnly = info.correctOnly
<1> DEFINE Same == info'.mode = info.mode /\ info'.correctOnly = info.correctOnly
<1>1. info \in Infos
  BY DEF RowInv
<1>2. \A edge : /\ [info EXCEPT !.edge = edge].mode = info.mode
                /\ [info EXCEPT !.edge = edge].correctOnly = info.correctOnly
  BY <1>1 DEF Infos
<1>3. ASSUME NEW i, TakeRow(i) PROVE Same
  <2>1. PICK edge \in IF (i - 1) % N = 0 THEN Edges(info.mode) ELSE {info.edge} :
          info' = [info EXCEPT !.edge = edge]
    BY <1>3 DEF TakeRow
  <2>2. QED
    BY <1>2, <2>1
<1>4. NoRow => Same
  BY <1>2 DEF NoRow
<1>5. CASE NextRow
  BY <1>3, <1>5 DEF NextRow
<1>6. CASE EndReward
  BY <1>4, <1>6 DEF EndReward
<1>7. CASE KeepGroups
  <2>1. TakeRow(1) \/ info' = info
    BY <1>7 DEF KeepGroups
  <2>2. QED
    BY <1>3, <2>1
<1>8. CASE RewardRow \/ KeepAll \/ ComputeLogProb \/ ComputeAdvantage \/ UpdateActor \/ Done
           \/ UNCHANGED vars
  BY <1>8 DEF RewardRow, Score, KeepAll, ComputeLogProb, ComputeAdvantage, UpdateActor, Done,
              rewardVars, vars
<1>9. QED
  BY <1>5, <1>6, <1>7, <1>8 DEF Next

\* No step pays a wrong answer.
LEMMA UnpaidNext ==
  ASSUME RowInv, OnceInv, UnpaidInv, [Next]_vars
  PROVE  UnpaidInv'
<1>1. PaysCorrectOnly' = PaysCorrectOnly
  BY ModeKept DEF PaysCorrectOnly
<1>2. CorrectThreshold' = CorrectThreshold
  BY DEF CorrectThreshold
<1>3. UNCHANGED <<score, spans>> => UnpaidInv'
  BY <1>1, <1>2 DEF UnpaidInv
<1>4. CASE RewardRow
  <2>1. UNCHANGED <<score, spans>> \/ (score' = ComputeScore /\ spans' = Rewarded)
    BY <1>4 DEF RewardRow, Score
  <2>2. ASSUME score' = ComputeScore, spans' = Rewarded PROVE UnpaidInv'
    BY <1>1, <1>2, <2>2, ShapedPays DEF UnpaidInv
  <2>3. QED
    BY <1>3, <2>1, <2>2
<1>5. CASE NextRow \/ EndReward
  <2>1. spans' = <<>>
    BY <1>5 DEF NextRow, EndReward
  <2>2. QED
    BY <2>1 DEF UnpaidInv
<1>6. CASE KeepGroups \/ KeepAll \/ ComputeLogProb \/ ComputeAdvantage \/ UpdateActor \/ Done
           \/ UNCHANGED vars
  <2>1. UNCHANGED <<score, spans>>
    BY <1>6 DEF KeepGroups, KeepAll, ComputeLogProb, ComputeAdvantage, UpdateActor, Done,
                rewardVars, vars
  <2>2. QED
    BY <1>3, <2>1
<1>7. QED
  BY <1>4, <1>5, <1>6 DEF Next

\* Where only correct answers are paid, the reward of a row tells whether its
\* answer is one, however many searches are paid with it.
LEMMA RewardTells ==
  ASSUME CorrectPays, RowInv, UnpaidInv, PaysCorrectOnly, status = "scored"
  PROVE  Correct <=> RowReward > CorrectThreshold
<1> DEFINE n == Len(spans)
           p == info.price[2]
           b == n * p
<1>1. info \in Infos /\ spans \in Seq(Spans) /\ score \in Int
  BY DEF RowInv
<1>2. info.price \in Prices
  BY <1>1 DEF Infos
<1>3. p \in Nat /\ n \in Nat /\ CorrectThreshold \in Int
  BY <1>1, <1>2, RewardAssumption DEF CorrectThreshold
<1>4. RowReward = score + b
  BY <1>1, <1>3, RewardIs
<1>5. score > CorrectThreshold <=> Correct
  BY ThresholdTells DEF ThresholdTellsCorrect
<1>6. spans = <<>> => b = 0
  BY <1>3
<1> HIDE DEF p, n
<1>7. b \in Nat
  BY <1>3, Multiples
<1> HIDE DEF b
<1>8. CASE Correct
  BY <1>1, <1>3, <1>4, <1>5, <1>7, <1>8
<1>9. CASE ~Correct
  <2>1. spans = <<>>
    BY <1>5, <1>9 DEF UnpaidInv
  <2>2. QED
    BY <1>1, <1>3, <1>4, <1>5, <1>6, <1>9, <2>1
<1>10. QED
  BY <1>8, <1>9

\* Rows whose reward tells their answer.
Paid == {r \in Records : r.correct <=> r.reward > CorrectThreshold}

\* All rows of a step are such rows.
PaidInv == PaysCorrectOnly => newBatch \in Seq(Paid) /\ batch \in Seq(Paid)

\* The row that is rewarded is one of them.
LEMMA RowPaid ==
  ASSUME CorrectPays, RowInv, UnpaidInv, NewInv, PaysCorrectOnly, status = "scored"
  PROVE  RewardedRow \in Paid
<1> DEFINE n == Len(newBatch)
           new == RewardedRow
<1>1. n \in Nat /\ numGenBatches \in Nat
  <2>1. newBatch \in Seq(Records)
    BY DEF NewInv
  <2>2. QED
    BY <2>1 DEF NewInv
<1>2. new = [uid |-> UidOf(n + 1), prompt |-> PromptOf(n + 1), reward |-> RowReward,
             correct |-> Correct]
  BY DEF RewardedRow
<1>3. UidOf(n + 1) \in Nat \X Nat /\ PromptOf(n + 1) \in Nat \X Nat
  <2>1. ((n + 1) - 1) \div N \in Nat
    <3>1. N \in Nat /\ N > 0 /\ (n + 1) - 1 = n
      BY <1>1, StepAssumption
    <3> HIDE DEF n
    <3>2. n \div N \in Nat
      BY <1>1, <3>1
    <3>3. QED
      BY <3>1, <3>2
  <2>2. QED
    BY <1>1, <2>1 DEF UidOf, PromptOf
<1>4. RowReward \in Int /\ Correct \in BOOLEAN
  BY RewardIs, InfoTyped DEF RowInv, Correct
<1>5. new \in Records /\ new.reward = RowReward /\ new.correct = Correct
  BY <1>2, <1>3, <1>4 DEF Records
<1>6. Correct <=> RowReward > CorrectThreshold
  BY RewardTells
<1> HIDE DEF new
<1>7. new \in Paid
  BY <1>5, <1>6 DEF Paid
<1>8. QED
  BY <1>7 DEF new

\* What is gathered of a generation batch, and cut to the training batch.
LEMMA GatheredIs ==
  ASSUME KeepGroups
  PROVE  \E kept :
           \/ batch' = Filtered(kept)
           \/ /\ Cardinality(UidsOf(Filtered(kept))) >= TrainBatchSize
              /\ batch' = Aligned(Filtered(kept))
<1>1. PICK passed \in SUBSET MayPass(newBatch) :
        LET gathered == Filtered(Varied(newBatch) \cup passed)
            enough == Cardinality(UidsOf(gathered)) >= TrainBatchSize
        IN  batch' = IF enough THEN Aligned(gathered) ELSE gathered
  BY Zenon DEF KeepGroups, Filtered
<1>2. QED
  BY <1>1

\* Its rows are rows of the two batches.
LEMMA GatheredPaid ==
  ASSUME NewInv, BatchInv, KeepGroups, NEW A, newBatch \in Seq(A), batch \in Seq(A)
  PROVE  batch' \in Seq(A)
<1>1. PICK kept :
        \/ batch' = Filtered(kept)
        \/ /\ Cardinality(UidsOf(Filtered(kept))) >= TrainBatchSize
           /\ batch' = Aligned(Filtered(kept))
  BY GatheredIs
<1> DEFINE z == Filtered(kept)
           S == {r \in ToSet(newBatch) : r.uid \in kept}
<1>2. z \in Seq(A)
  <2> HIDE DEF S
  <2>1. Keep(newBatch, S) \in Seq(A)
    BY KeepTyped
  <2>2. batch \o Keep(newBatch, S) \in Seq(A)
    BY <2>1
  <2>3. QED
    BY <2>2 DEF Filtered, S
<1>3. WholePrompts(z)
  BY FilteredIs DEF KeepGroups
<1> HIDE DEF z
<1>4. CASE Cardinality(UidsOf(z)) >= TrainBatchSize /\ batch' = Aligned(z)
  <2> DEFINE x == Aligned(z)
  <2>1. WholePrompts(x) /\ \A i \in 1..Len(x) : i \in 1..Len(z) /\ x[i] = z[i]
    BY <1>3, <1>4, AlignedIs
  <2> HIDE DEF x
  <2>2. x \in Seq(Records)
    BY <2>1 DEF WholePrompts
  <2>3. \A i \in 1..Len(x) : x[i] \in A
    BY <1>2, <2>1
  <2>4. x \in Seq(A)
    BY <2>2, <2>3
  <2>5. QED
    BY <1>4, <2>4 DEF x
<1>5. CASE batch' = z
  BY <1>2, <1>5
<1>6. QED
  BY <1>1, <1>4, <1>5 DEF z

\* Every step leaves rows that are paid so.
LEMMA PaidNext ==
  ASSUME CorrectPays, RowInv, UnpaidInv, NewInv, BatchInv, PaidInv, [Next]_vars
  PROVE  PaidInv'
<1> DEFINE A == Paid
<1>1. SUFFICES ASSUME PaysCorrectOnly
               PROVE  newBatch' \in Seq(A) /\ batch' \in Seq(A)
  <2>1. PaysCorrectOnly' = PaysCorrectOnly
    BY ModeKept DEF PaysCorrectOnly
  <2>2. Paid' = Paid
    BY DEF Paid, CorrectThreshold
  <2>3. QED
    BY <2>1, <2>2 DEF PaidInv
<1>2. newBatch \in Seq(A) /\ batch \in Seq(A)
  BY <1>1 DEF PaidInv
<1>3. <<>> \in Seq(A)
  OBVIOUS
<1>4. RewardedRow \in A \/ status # "scored"
  BY <1>1, RowPaid
<1> HIDE DEF A
<1>5. newBatch' \in Seq(A) /\ batch' \in Seq(A)
  <2>1. CASE NextRow \/ EndReward
    <3>1. newBatch' = Append(newBatch, RewardedRow) /\ batch' = batch
      BY <2>1 DEF NextRow, EndReward
    <3>2. RewardedRow \in A
      BY <1>4, <2>1 DEF NextRow, EndReward
    <3>3. QED
      BY <1>2, <3>1, <3>2
  <2>2. CASE KeepAll
    <3>1. newBatch' = <<>> /\ batch' = newBatch
      BY <2>2 DEF KeepAll
    <3>2. QED
      BY <1>2, <1>3, <3>1
  <2>3. CASE KeepGroups
    <3>1. newBatch' = <<>>
      BY <2>3 DEF KeepGroups
    <3>2. batch' \in Seq(A)
      BY <1>2, <2>3, GatheredPaid
    <3>3. QED
      BY <1>3, <3>1, <3>2
  <2>4. CASE RewardRow \/ ComputeLogProb \/ ComputeAdvantage \/ UpdateActor \/ Done
             \/ UNCHANGED vars
    <3>1. newBatch' = newBatch /\ batch' = batch
      BY <2>4 DEF RewardRow, ComputeLogProb, ComputeAdvantage, UpdateActor, Done, batchVars, vars
    <3>2. QED
      BY <1>2, <3>1
  <2>5. QED
    BY <2>1, <2>2, <2>3, <2>4 DEF Next
<1>6. QED
  BY <1>5

\* Within a prompt the advantages are in the order of the rewards.
LEMMA AheadWhere ==
  ASSUME BatchInv, N > 1 => AdvantageInv, pc \in {"update", "done"},
         NEW i \in DOMAIN batch, NEW j \in DOMAIN batch, batch[i].prompt = batch[j].prompt,
         batch[i].reward > batch[j].reward
  PROVE  advantages[i] > advantages[j]
<1> DEFINE rows == RowsOf(batch[i].prompt)
           f == RewardsIn(batch)
           total == Sum(f, rows)[rows]
<1>1. batch \in Seq(Records) /\ N \in Nat \ {0}
  BY StepAssumption DEF BatchInv, WholePrompts
<1>2. /\ GroupOf(batch, batch[i].uid) = rows /\ GroupOf(batch, batch[j].uid) = rows
      /\ Cardinality(rows) = N /\ IsFiniteSet(rows)
  BY GroupsOfWhole DEF BatchInv
<1>3. i \in rows /\ j \in rows /\ i # j
  <2>1. batch[i].reward \in Int
    BY <1>1, RecordHas DEF RecordsAre
  <2>2. i # j
    BY <2>1
  <2>3. QED
    BY <2>2 DEF RowsOf
<1>4. N > 1
  <2>1. ASSUME N = 1 PROVE FALSE
    <3>1. {i, j} \subseteq rows
      BY <1>3
    <3>2. Cardinality({i, j}) <= 1
      BY <1>2, <2>1, <3>1, FS_Subset
    <3>3. Cardinality({i, j}) = 2
      <4>1. Cardinality({i}) = 1 /\ IsFiniteSet({i}) /\ {i, j} = {i} \cup {j} /\ j \notin {i}
        BY <1>3, FS_Singleton
      <4>2. Cardinality({i} \cup {j}) = Cardinality({i}) + 1
        BY <4>1, FS_AddElement
      <4>3. QED
        BY <4>1, <4>2
    <3>4. QED
      BY <3>2, <3>3
  <2>2. QED
    BY <1>1, <2>1
<1>5. \A k \in rows : f[k] \in Int /\ k \in DOMAIN batch
  <2>1. \A k \in rows : k \in DOMAIN batch /\ f[k] = batch[k].reward
    BY DEF RowsOf, RewardsIn
  <2>2. QED
    BY <1>1, <2>1, RecordHas DEF RecordsAre
<1>6. f[i] = batch[i].reward /\ f[j] = batch[j].reward
  BY DEF RewardsIn
<1>7. /\ advantages[i] = N * batch[i].reward - total
      /\ advantages[j] = N * batch[j].reward - total
  <2>1. advantages = AdvantagesIn(batch)
    BY <1>4 DEF AdvantageInv
  <2>2. ASSUME NEW k \in {i, j}
        PROVE  AdvantagesIn(batch)[k] = Cardinality(rows) * batch[k].reward - total
    BY <1>2 DEF AdvantagesIn
  <2>3. QED
    BY <1>2, <2>1, <2>2
<1> HIDE DEF rows, f
<1>8. total \in Int
  BY <1>2, <1>5, SumSteps
<1> HIDE DEF total
<1>9. batch[i].reward \in Int /\ batch[j].reward \in Int
  BY <1>3, <1>5, <1>6
<1>10. ASSUME NEW x \in Int, NEW y \in Int, x > y PROVE N * x > N * y
  <2>1. PICK d \in Nat \ {0} : x = y + d
    <3>1. x - y \in Nat \ {0} /\ x = y + (x - y)
      BY <1>10
    <3>2. QED
      BY <3>1
  <2>2. N * x = N * y + N * d /\ N * y \in Int
    BY <1>1, <2>1
  <2>3. N * d \in Nat /\ N * d # 0
    <3>1. d - 1 \in Nat /\ d = (d - 1) + 1
      BY <2>1
    <3>2. (d - 1) * N \in Nat /\ d * N = (d - 1) * N + N
      BY <1>1, <3>1, Multiples
    <3> DEFINE p == (d - 1) * N
    <3> HIDE DEF p
    <3>3. d * N = p + N /\ p \in Nat
      BY <3>2 DEF p
    <3>4. N * d = d * N
      BY <1>1
    <3>5. QED
      BY <1>1, <3>3, <3>4
  <2> DEFINE p == N * x
             q == N * y
             r == N * d
  <2>4. p = q + r /\ q \in Int /\ r \in Nat /\ r # 0
    BY <2>2, <2>3
  <2> HIDE DEF p, q, r
  <2>5. p > q
    BY <2>4
  <2>6. QED
    BY <2>5 DEF p, q
<1>11. N * batch[i].reward > N * batch[j].reward
  BY <1>9, <1>10
<1>12. N * batch[i].reward \in Int /\ N * batch[j].reward \in Int
  BY <1>1, <1>9
<1>13. QED
  BY <1>7, <1>8, <1>11, <1>12

\* Where wrong answers are not paid for their searches, a correct answer has the
\* higher advantage of two to the same prompt: whatever rows, number of samples
\* and mode of the shaping, and however many searches a row holds and is paid
\* for, as long as no price takes all of a correct answer.
THEOREM AheadCorrect ==
  ASSUME CorrectPays
  PROVE  Spec => []CorrectIsAhead
<1>1. Init => UnpaidInv /\ PaidInv /\ (N > 1 => AdvantageInv)
  <2>1. ASSUME Init
        PROVE  newBatch = <<>> /\ batch = <<>> /\ pc = "reward" /\ spans = <<>>
    BY <2>1 DEF Init, RewardInit
  <2>2. <<>> \in Seq(Paid)
    OBVIOUS
  <2>3. QED
    BY <2>1, <2>2 DEF UnpaidInv, PaidInv, AdvantageInv
<1>2. RowInv /\ OnceInv /\ UnpaidInv /\ [Next]_vars => UnpaidInv'
  BY UnpaidNext
<1>3. RowInv /\ UnpaidInv /\ NewInv /\ BatchInv /\ PaidInv /\ [Next]_vars => PaidInv'
  BY PaidNext
<1>4. BatchInv /\ (N > 1 => AdvantageInv) /\ [Next]_vars => (N > 1 => AdvantageInv)'
  BY AdvantageNext
<1>5. ASSUME BatchInv, PaidInv, N > 1 => AdvantageInv PROVE CorrectIsAhead
  <2> SUFFICES ASSUME pc \in {"update", "done"}, PaysCorrectOnly,
                      NEW i \in DOMAIN batch, NEW j \in DOMAIN batch,
                      batch[i].prompt = batch[j].prompt, batch[i].correct, ~batch[j].correct
               PROVE  advantages[i] > advantages[j]
    BY DEF CorrectIsAhead
  <2>1. batch[i] \in Paid /\ batch[j] \in Paid
    BY <1>5 DEF PaidInv
  <2>2. batch[i].reward > CorrectThreshold /\ ~(batch[j].reward > CorrectThreshold)
    BY <2>1 DEF Paid
  <2>3. batch[i].reward \in Int /\ batch[j].reward \in Int
    BY <2>1, RecordHas DEF Paid, RecordsAre
  <2>4. CorrectThreshold \in Int
    BY RewardAssumption DEF CorrectThreshold
  <2>5. batch[i].reward > batch[j].reward
    BY <2>2, <2>3, <2>4
  <2>6. QED
    BY <1>5, <2>5, AheadWhere
<1>6. QED
  BY <1>1, <1>2, <1>3, <1>4, <1>5, OnceHolds, BatchCorrect, RowCorrect, PTL DEF Spec
=============================================================================
