------------------------ MODULE GradeCalculatorProofs ------------------------
(***************************************************************************)
(* Proofs about GradeCalculator: the required score is exact on both sides *)
(* of a replacement rule, on every grade scale reconciliation lets through *)
(* a higher grade never gets a lower letter, on every model it lets        *)
(* through the same score on everything is the grade, and what the solver  *)
(* answers is the threshold of what the calculator calculates.  The last   *)
(* two need what Total, Chosen and the replacements, which are folds, come *)
(* to on lists of any length.                                              *)
(***************************************************************************)
EXTENDS GradeCalculator, SyllabusGradesProofs, FiniteSetTheorems, SequenceTheorems,
        WellFoundedInduction, TLAPS

-----------------------------------------------------------------------------
(* Sums and choices: what the folds over a list come to.                   *)

LEMMA LeastNumber ==
    ASSUME NEW S, S \subseteq Nat, S # {}
    PROVE  \E n \in S : \A m \in S : n <= m
<1>2. \E x \in S : \A y \in S : <<y, x>> \notin OpToRel(<, Nat)
  BY NatLessThanWellFounded, WFMin
<1>3. PICK x \in S : \A y \in S : <<y, x>> \notin OpToRel(<, Nat)
  BY <1>2
<1>4. \A y \in S : ~(y < x)
  BY <1>3, Zenon DEF OpToRel
<1> QED
  BY <1>4

\* What holds at 0 and passes from each number to the next holds at n.
LEMMA Upward ==
    ASSUME NEW n \in Nat, NEW G, 0 \in G, \A k \in 1 .. n : k - 1 \in G => k \in G
    PROVE  \A k \in 0 .. n : k \in G
<1> DEFINE S == (0 .. n) \ G
<1> SUFFICES ASSUME S # {}
             PROVE  FALSE
  OBVIOUS
<1>1. PICK k \in S : \A m \in S : k <= m
  <2>1. S \subseteq Nat
    OBVIOUS
  <2> HIDE DEF S
  <2> QED
    BY <2>1, LeastNumber
<1>2. k \in 1 .. n /\ k - 1 \in 0 .. n
  OBVIOUS
<1>3. k - 1 \in G
  BY <1>1, <1>2
<1> QED
  BY <1>2, <1>3

LEMMA SmallestIndex ==
    ASSUME NEW n \in Nat, NEW I, I \subseteq 1 .. n, I # {}
    PROVE  Min(I) \in I
<1>1. I \subseteq Nat
  OBVIOUS
<1>2. PICK x \in I : \A y \in I : x <= y
  BY <1>1, LeastNumber
<1> QED
  BY <1>2 DEF Min

LEMMA LargestIndex ==
    ASSUME NEW n \in Nat, NEW I, I \subseteq 1 .. n, I # {}
    PROVE  Max(I) \in I /\ \A i \in I : i <= Max(I)
<1> DEFINE D == {n - i : i \in I}
<1>1. D \subseteq Nat /\ D # {}
  OBVIOUS
<1>2. PICK d \in D : \A m \in D : d <= m
  <2> HIDE DEF D
  <2> QED
    BY <1>1, LeastNumber
<1>3. PICK i \in I : d = n - i
  OBVIOUS
<1>4. ASSUME NEW j \in I
      PROVE  i >= j
  <2>1. n - j \in D
    OBVIOUS
  <2>2. d <= n - j
    BY <1>2, <2>1
  <2>3. i \in 1 .. n /\ j \in 1 .. n
    OBVIOUS
  <2> HIDE DEF D
  <2> QED
    BY <1>3, <2>2, <2>3
<1>5. \E x \in I : \A y \in I : x >= y
  BY <1>4
<1>6. Max(I) \in I /\ \A y \in I : Max(I) >= y
  BY <1>5, Zenon DEF Max
<1>7. I \subseteq Int
  OBVIOUS
<1> QED
  BY <1>6, <1>7

\* A fold over the first k positions ends with position k.
LEMMA LastOf ==
    ASSUME NEW n \in Nat, NEW k \in 1 .. n
    PROVE  Max(1 .. k) = k /\ (1 .. k) \ {k} = 1 .. (k - 1) /\ 1 .. k # {}
<1>1. k \in Nat /\ 1 .. k \subseteq 1 .. k /\ 1 .. k # {} /\ k \in 1 .. k
  OBVIOUS
<1>2. Max(1 .. k) \in 1 .. k /\ \A i \in 1 .. k : i <= Max(1 .. k)
  BY <1>1, LargestIndex
<1>3. Max(1 .. k) = k
  BY <1>1, <1>2
<1>4. (1 .. k) \ {k} = 1 .. (k - 1)
  OBVIOUS
<1> QED
  BY <1>1, <1>3, <1>4

\* e gives every set of positions what a fold from the left makes of it.
Folds(e, base, rule, n) ==
    \A s \in SUBSET (1 .. n) :
        e[s] = IF s = {} THEN base ELSE rule[<<e[s \ {Max(s)}], Max(s)>>]

\* A fold is well defined: by the recursion on its last position.
LEMMA FoldExists ==
    ASSUME NEW n \in Nat, NEW V, NEW base \in V, NEW rule \in [V \X (1 .. n) -> V]
    PROVE  \E e \in [SUBSET (1 .. n) -> V] : Folds(e, base, rule, n)
<1> DEFINE G == {k \in 0 .. n : \E e \in [SUBSET (1 .. k) -> V] : Folds(e, base, rule, k)}
<1>1. 0 \in G
  <2> DEFINE e == [s \in SUBSET (1 .. 0) |-> base]
  <2>1. e \in [SUBSET (1 .. 0) -> V]
    OBVIOUS
  <2>2. \A s \in SUBSET (1 .. 0) : s = {} /\ e[s] = base
    OBVIOUS
  <2>3. Folds(e, base, rule, 0)
    BY <2>2 DEF Folds
  <2>4. 0 \in 0 .. n
    OBVIOUS
  <2> HIDE DEF e
  <2> QED
    BY <2>1, <2>3, <2>4
<1>2. ASSUME NEW k \in 1 .. n, k - 1 \in G
      PROVE  k \in G
  <2>1. PICK e \in [SUBSET (1 .. (k - 1)) -> V] : Folds(e, base, rule, k - 1)
    BY <1>2
  <2> DEFINE d == [s \in SUBSET (1 .. k) |->
                      IF k \in s THEN rule[<<e[s \ {k}], k>>] ELSE e[s]]
  <2>2. \A s \in SUBSET (1 .. k) :
            /\ s \ {k} \in SUBSET (1 .. (k - 1))
            /\ k \notin s => s \in SUBSET (1 .. (k - 1))
    OBVIOUS
  <2>3. d \in [SUBSET (1 .. k) -> V]
    BY <2>2
  <2>4. ASSUME NEW s \in SUBSET (1 .. k)
        PROVE  d[s] = IF s = {} THEN base ELSE rule[<<d[s \ {Max(s)}], Max(s)>>]
    <3>1. CASE s = {}
      <4>1. d[s] = e[{}] /\ {} \in SUBSET (1 .. (k - 1))
        BY <3>1
      <4> HIDE DEF d
      <4> QED
        BY <2>1, <3>1, <4>1 DEF Folds
    <3>2. CASE s # {}
      <4>1. Max(s) \in s /\ \A i \in s : i <= Max(s)
        <5>1. k \in Nat /\ s \subseteq 1 .. k
          OBVIOUS
        <5> HIDE DEF d
        <5> QED
          BY <3>2, <5>1, LargestIndex
      <4>2. s \ {Max(s)} \in SUBSET (1 .. k)
        OBVIOUS
      <4>3. CASE k \in s
        <5>1. Max(s) = k
          <6>1. Max(s) \in 1 .. k /\ k <= Max(s)
            BY <4>1, <4>3
          <6> QED
            BY <6>1
        <5>2. d[s \ {k}] = e[s \ {k}] /\ d[s] = rule[<<e[s \ {k}], k>>]
          BY <4>2, <4>3, <5>1
        <5> HIDE DEF d
        <5> QED
          BY <3>2, <5>1, <5>2
      <4>4. CASE k \notin s
        <5>1. d[s] = e[s] /\ d[s \ {Max(s)}] = e[s \ {Max(s)}] /\ s \in SUBSET (1 .. (k - 1))
          BY <2>2, <4>2, <4>4
        <5> HIDE DEF d
        <5> QED
          BY <2>1, <3>2, <5>1 DEF Folds
      <4> QED
        BY <4>3, <4>4
    <3> QED
      BY <3>1, <3>2
  <2> HIDE DEF d
  <2>5. Folds(d, base, rule, k)
    BY <2>4 DEF Folds
  <2>6. k \in 0 .. n
    OBVIOUS
  <2> QED
    BY <2>3, <2>5, <2>6
<1>3. n \in G
  <2> HIDE DEF G
  <2>1. \A k \in 1 .. n : k - 1 \in G => k \in G
    BY <1>2
  <2> QED
    BY <1>1, <2>1, Upward
<1> QED
  BY <1>3

\* f adds up the numbers of h one after the other.
Adding(f, h) ==
    /\ f \in [0 .. Len(h) -> Int] /\ f[0] = 0
    /\ \A k \in 1 .. Len(h) : f[k] = f[k - 1] + h[k]

\* What Total unfolds to.
TotalOf(h) ==
    CHOOSE e : e = [s \in SUBSET DOMAIN h |->
                      IF s = {} THEN 0
                      ELSE LET x == Max(s) IN e[s \ {x}] + h[x]]

\* Total is the last of the partial sums.
LEMMA TotalRuns ==
    ASSUME NEW h \in Seq(Int)
    PROVE  \E f : Adding(f, h) /\ Total(h) = f[Len(h)]
<1> DEFINE n == Len(h)
           P(e) == e = [s \in SUBSET DOMAIN h |->
                          IF s = {} THEN 0
                          ELSE LET x == Max(s) IN e[s \ {x}] + h[x]]
<1>1. n \in Nat /\ DOMAIN h = 1 .. n /\ \A k \in 1 .. n : h[k] \in Int
  OBVIOUS
<1> HIDE DEF n
<1>2. \E e : P(e)
  <2> DEFINE rule == [p \in Int \X (1 .. n) |-> p[1] + h[p[2]]]
  <2>1. rule \in [Int \X (1 .. n) -> Int] /\ 0 \in Int
    BY <1>1
  <2>2. \A y \in Int, x \in 1 .. n : rule[<<y, x>>] = y + h[x]
    OBVIOUS
  <2> HIDE DEF rule
  <2>3. PICK e \in [SUBSET (1 .. n) -> Int] : Folds(e, 0, rule, n)
    BY <1>1, <2>1, FoldExists
  <2>4. ASSUME NEW s \in SUBSET (1 .. n)
        PROVE  e[s] = IF s = {} THEN 0 ELSE e[s \ {Max(s)}] + h[Max(s)]
    <3>1. e[s] = IF s = {} THEN 0 ELSE rule[<<e[s \ {Max(s)}], Max(s)>>]
      BY <2>3 DEF Folds
    <3>2. CASE s = {}
      BY <3>1, <3>2
    <3>3. CASE s # {}
      <4>1. Max(s) \in 1 .. n /\ e[s \ {Max(s)}] \in Int
        BY <1>1, <3>3, LargestIndex
      <4>2. rule[<<e[s \ {Max(s)}], Max(s)>>] = e[s \ {Max(s)}] + h[Max(s)]
        BY <2>2, <4>1
      <4> QED
        BY <3>1, <3>3, <4>2
    <3> QED
      BY <3>2, <3>3
  <2>5. e = [s \in SUBSET (1 .. n) |-> e[s]]
    OBVIOUS
  <2>6. P(e)
    BY <1>1, <2>4, <2>5
  <2> QED
    BY <2>6
<1>3. P(TotalOf(h))
  <2>1. TotalOf(h) = CHOOSE e : P(e)
    BY DEF TotalOf
  <2> HIDE DEF P
  <2> QED
    BY <1>2, <2>1
<1>4. PICK e : e = TotalOf(h)
  OBVIOUS
<1>5. \A s \in SUBSET (1 .. n) : e[s] = IF s = {} THEN 0 ELSE e[s \ {Max(s)}] + h[Max(s)]
  BY <1>1, <1>3, <1>4
<1>6. Total(h) = e[1 .. n]
  <2>1. Total(h) = TotalOf(h)[DOMAIN h]
    BY Zenon DEF Total, FoldLeft, MapThenFoldSet, TotalOf
  <2> QED
    BY <1>1, <1>4, <2>1
<1> DEFINE f == [k \in 0 .. n |-> e[1 .. k]]
<1>7. f[0] = 0
  <2>1. 1 .. 0 = {} /\ 0 \in 0 .. n
    BY <1>1
  <2> QED
    BY <1>5, <2>1
<1>8. ASSUME NEW k \in 1 .. n
      PROVE  f[k] = f[k - 1] + h[k]
  <2>1. Max(1 .. k) = k /\ (1 .. k) \ {k} = 1 .. (k - 1) /\ 1 .. k # {}
    BY <1>1, LastOf
  <2>2. k \in 0 .. n /\ k - 1 \in 0 .. n /\ (1 .. k) \in SUBSET (1 .. n)
    BY <1>1
  <2>3. e[1 .. k] = e[1 .. (k - 1)] + h[k]
    BY <1>5, <2>1, <2>2
  <2> QED
    BY <2>2, <2>3
<1>9. \A k \in 0 .. n : f[k] \in Int
  <2> DEFINE G == {k \in 0 .. n : f[k] \in Int}
  <2> HIDE DEF f
  <2>1. 0 \in G
    BY <1>1, <1>7
  <2>2. \A k \in 1 .. n : k - 1 \in G => k \in G
    BY <1>1, <1>8
  <2>3. \A k \in 0 .. n : k \in G
    <3> HIDE DEF G
    <3> QED
      BY <1>1, <2>1, <2>2, Upward
  <2> QED
    BY <2>3
<1>10. f \in [0 .. n -> Int] /\ f[n] = e[1 .. n]
  <2>1. n \in 0 .. n
    BY <1>1
  <2> QED
    BY <1>9, <2>1
<1>11. Adding(f, h)
  <2> HIDE DEF f
  <2> QED
    BY <1>7, <1>8, <1>10 DEF Adding, n
<1> HIDE DEF f
<1> QED
  BY <1>6, <1>10, <1>11 DEF n

\* Whatever adds the numbers up arrives at their total.
LEMMA TotalIs ==
    ASSUME NEW h \in Seq(Int), NEW f, Adding(f, h)
    PROVE  Total(h) = f[Len(h)] /\ Total(h) \in Int
<1>1. PICK e : Adding(e, h) /\ Total(h) = e[Len(h)]
  BY TotalRuns
<1> DEFINE n == Len(h)
           G == {k \in 0 .. n : e[k] = f[k]}
<1>2. n \in Nat /\ n \in 0 .. n
  OBVIOUS
<1>3. 0 \in G
  BY <1>1 DEF Adding
<1>4. \A k \in 1 .. n : k - 1 \in G => k \in G
  BY <1>1 DEF Adding
<1>5. \A k \in 0 .. n : k \in G
  <2> HIDE DEF G, n
  <2> QED
    BY <1>2, <1>3, <1>4, Upward
<1>6. e[n] = f[n]
  BY <1>2, <1>5
<1> QED
  BY <1>1, <1>2, <1>6 DEF Adding

LEMMA TotalOfNone == Total(<<>>) = 0
<1> DEFINE f == [k \in 0 .. 0 |-> 0]
<1>1. <<>> \in Seq(Int) /\ Len(<<>>) = 0
  OBVIOUS
<1>2. Adding(f, <<>>)
  BY <1>1 DEF Adding
<1> QED
  BY <1>1, <1>2, TotalIs

LEMMA TotalOfAppend ==
    ASSUME NEW h \in Seq(Int), NEW m \in Int
    PROVE  Total(Append(h, m)) = Total(h) + m
<1>1. PICK f : Adding(f, h) /\ Total(h) = f[Len(h)]
  BY TotalRuns
<1> DEFINE n == Len(h)
           d == [k \in 0 .. (n + 1) |-> IF k = n + 1 THEN f[n] + m ELSE f[k]]
<1>2. /\ Append(h, m) \in Seq(Int) /\ Len(Append(h, m)) = n + 1
      /\ Append(h, m)[n + 1] = m /\ \A k \in 1 .. n : Append(h, m)[k] = h[k]
      /\ n \in Nat
  OBVIOUS
<1>3. /\ f \in [0 .. n -> Int] /\ f[0] = 0
      /\ \A k \in 1 .. n : f[k] = f[k - 1] + h[k]
  BY <1>1 DEF Adding
<1> HIDE DEF n
<1>4. d \in [0 .. (n + 1) -> Int] /\ d[0] = 0 /\ d[n + 1] = f[n] + m
  BY <1>2, <1>3
<1>5. \A k \in 1 .. (n + 1) : d[k] = d[k - 1] + Append(h, m)[k]
  BY <1>2, <1>3
<1>6. Adding(d, Append(h, m))
  <2> HIDE DEF d
  <2> QED
    BY <1>2, <1>4, <1>5 DEF Adding
<1> HIDE DEF d
<1>7. Total(Append(h, m)) = d[n + 1]
  BY <1>2, <1>6, TotalIs
<1> QED
  BY <1>1, <1>4, <1>7 DEF n

LEMMA TotalOfConcat ==
    ASSUME NEW h \in Seq(Int), NEW g \in Seq(Int)
    PROVE  Total(h \o g) = Total(h) + Total(g)
<1>1. PICK f : Adding(f, h) /\ Total(h) = f[Len(h)]
  BY TotalRuns
<1>2. PICK e : Adding(e, g) /\ Total(g) = e[Len(g)]
  BY TotalRuns
<1> DEFINE m == Len(h)
           n == Len(g)
           d == [k \in 0 .. (m + n) |-> IF k <= m THEN f[k] ELSE f[m] + e[k - m]]
<1>3. /\ h \o g \in Seq(Int) /\ Len(h \o g) = m + n /\ m \in Nat /\ n \in Nat
      /\ \A k \in 1 .. (m + n) : (h \o g)[k] = IF k <= m THEN h[k] ELSE g[k - m]
  OBVIOUS
<1>4. /\ f \in [0 .. m -> Int] /\ f[0] = 0 /\ e \in [0 .. n -> Int] /\ e[0] = 0
      /\ \A k \in 1 .. m : f[k] = f[k - 1] + h[k]
      /\ \A k \in 1 .. n : e[k] = e[k - 1] + g[k]
  BY <1>1, <1>2 DEF Adding
<1>0. \A k \in 1 .. m : h[k] \in Int
  OBVIOUS
<1>00. \A k \in 1 .. n : g[k] \in Int
  OBVIOUS
<1> HIDE DEF m, n
<1>5. d \in [0 .. (m + n) -> Int] /\ d[0] = 0 /\ d[m + n] = f[m] + e[n]
  <2>1. ASSUME NEW k \in 0 .. (m + n)
        PROVE  d[k] \in Int
    BY <1>3, <1>4
  <2>2. d[0] = 0
    BY <1>3, <1>4
  <2>3. d[m + n] = f[m] + e[n]
    <3>1. CASE n = 0
      <4>1. m + n = m /\ e[n] = 0 /\ f[m] \in Int
        BY <1>3, <1>4, <3>1
      <4> QED
        BY <1>3, <4>1
    <3>2. CASE n # 0
      <4>1. ~(m + n <= m) /\ (m + n) - m = n /\ m + n \in 0 .. (m + n)
        BY <1>3, <3>2
      <4> QED
        BY <4>1
    <3> QED
      BY <3>1, <3>2
  <2> QED
    BY <2>1, <2>2, <2>3
<1>6. ASSUME NEW k \in 1 .. (m + n)
      PROVE  d[k] = d[k - 1] + (h \o g)[k]
  <2>1. k - 1 \in 0 .. (m + n) /\ k \in 0 .. (m + n)
    BY <1>3
  <2>2. CASE k <= m
    <3>1. d[k] = f[k] /\ d[k - 1] = f[k - 1] /\ (h \o g)[k] = h[k] /\ k \in 1 .. m
      BY <1>3, <2>1, <2>2
    <3> HIDE DEF d
    <3> QED
      BY <1>4, <3>1
  <2>3. CASE k = m + 1
    <3>1. d[k] = f[m] + e[1] /\ d[k - 1] = f[m] /\ (h \o g)[k] = g[1] /\ 1 \in 1 .. n
      BY <1>3, <2>1, <2>3
    <3>2. e[1] = 0 + g[1] /\ g[1] \in Int
      BY <1>4, <1>00, <3>1
    <3> HIDE DEF d
    <3> QED
      BY <3>1, <3>2
  <2>4. CASE k > m + 1
    <3>1. /\ d[k] = f[m] + e[k - m] /\ d[k - 1] = f[m] + e[(k - 1) - m]
          /\ (h \o g)[k] = g[k - m] /\ k - m \in 1 .. n /\ (k - 1) - m = (k - m) - 1
      BY <1>3, <2>1, <2>4
    <3>2. e[k - m] = e[(k - m) - 1] + g[k - m] /\ e[(k - m) - 1] \in Int /\ g[k - m] \in Int
      <4> HIDE DEF d
      <4>0. \A j \in 1 .. n : j - 1 \in 0 .. n
        BY <1>3
      <4>1. (k - m) - 1 \in 0 .. n
        BY <3>1, <4>0
      <4> QED
        BY <1>00, <1>4, <3>1, <4>1
    <3>3. f[m] \in Int
      BY <1>3, <1>4
    <3> HIDE DEF d
    <3> QED
      BY <3>1, <3>2, <3>3
  <2> QED
    BY <1>3, <2>2, <2>3, <2>4
<1>7. Adding(d, h \o g)
  <2> HIDE DEF d
  <2> QED
    BY <1>3, <1>5, <1>6 DEF Adding
<1> HIDE DEF d
<1>8. Total(h \o g) = d[m + n]
  BY <1>3, <1>7, TotalIs
<1> QED
  BY <1>1, <1>2, <1>5, <1>8 DEF m, n

\* Sums that are added or multiplied position by position.
LEMMA TotalOfSums ==
    ASSUME NEW n \in Nat, NEW a \in [1 .. n -> Int], NEW b \in [1 .. n -> Int]
    PROVE  Total([k \in 1 .. n |-> a[k] + b[k]]) = Total(a) + Total(b)
<1>1. /\ a \in Seq(Int) /\ Len(a) = n /\ b \in Seq(Int) /\ Len(b) = n
      /\ [k \in 1 .. n |-> a[k] + b[k]] \in Seq(Int)
      /\ Len([k \in 1 .. n |-> a[k] + b[k]]) = n
  OBVIOUS
<1>2. PICK f : Adding(f, a) /\ Total(a) = f[n]
  BY <1>1, TotalRuns
<1>3. PICK e : Adding(e, b) /\ Total(b) = e[n]
  BY <1>1, TotalRuns
<1> DEFINE s == [k \in 1 .. n |-> a[k] + b[k]]
           d == [k \in 0 .. n |-> f[k] + e[k]]
<1>4. Adding(d, s)
  <2>1. /\ f \in [0 .. n -> Int] /\ f[0] = 0 /\ e \in [0 .. n -> Int] /\ e[0] = 0
        /\ \A k \in 1 .. n : f[k] = f[k - 1] + a[k] /\ e[k] = e[k - 1] + b[k]
    BY <1>1, <1>2, <1>3 DEF Adding
  <2>2. d \in [0 .. n -> Int] /\ d[0] = 0
    BY <2>1
  <2>3. ASSUME NEW k \in 1 .. n
        PROVE  d[k] = d[k - 1] + s[k]
    <3>1. k - 1 \in 0 .. n /\ k \in 0 .. n
      OBVIOUS
    <3>2. d[k] = f[k] + e[k] /\ d[k - 1] = f[k - 1] + e[k - 1] /\ s[k] = a[k] + b[k]
      BY <3>1
    <3>3. f[k - 1] \in Int /\ e[k - 1] \in Int /\ a[k] \in Int /\ b[k] \in Int
      BY <2>1, <3>1
    <3> HIDE DEF d, s
    <3> QED
      BY <2>1, <3>2, <3>3
  <2>4. Len(s) = n
    BY <1>1
  <2> HIDE DEF d, s
  <2> QED
    BY <2>2, <2>3, <2>4 DEF Adding
<1>5. Total(s) = d[n]
  <2>1. s \in Seq(Int) /\ Len(s) = n
    BY <1>1
  <2> HIDE DEF d, s
  <2> QED
    BY <1>4, <2>1, TotalIs
<1> QED
  BY <1>2, <1>3, <1>5

LEMMA TimesSum ==
    ASSUME NEW x \in Int, NEW a \in Int, NEW b \in Int
    PROVE  x * (a + b) = x * a + x * b
  BY SMT

LEMMA TotalOfMultiples ==
    ASSUME NEW x \in Int, NEW n \in Nat, NEW a \in [1 .. n -> Int]
    PROVE  Total([k \in 1 .. n |-> x * a[k]]) = x * Total(a)
<1> DEFINE s == [k \in 1 .. n |-> x * a[k]]
<1>1. a \in Seq(Int) /\ Len(a) = n /\ s \in Seq(Int) /\ Len(s) = n
  <2>1. s \in [1 .. n -> Int]
    OBVIOUS
  <2> HIDE DEF s
  <2> QED
    BY <2>1
<1>2. PICK f : Adding(f, a) /\ Total(a) = f[n]
  BY <1>1, TotalRuns
<1> DEFINE d == [k \in 0 .. n |-> x * f[k]]
<1>3. Adding(d, s)
  <2>1. d \in [0 .. n -> Int] /\ d[0] = 0
    BY <1>1, <1>2 DEF Adding
  <2>2. ASSUME NEW k \in 1 .. n
        PROVE  d[k] = d[k - 1] + s[k]
    <3>1. f[k] = f[k - 1] + a[k] /\ f[k - 1] \in Int /\ a[k] \in Int
      BY <1>1, <1>2 DEF Adding
    <3>2. x * f[k] = x * f[k - 1] + x * a[k]
      BY <3>1, TimesSum
    <3> QED
      BY <3>2
  <2> HIDE DEF d, s
  <2> QED
    BY <1>1, <2>1, <2>2 DEF Adding
<1>4. Total(s) = d[n]
  <2> HIDE DEF d, s
  <2> QED
    BY <1>1, <1>3, TotalIs
<1> QED
  BY <1>2, <1>4

LEMMA Listed ==
    ASSUME NEW T, NEW n \in Nat, NEW f \in [1 .. n -> T]
    PROVE  f \in Seq(T) /\ Len(f) = n /\ DOMAIN f = 1 .. n
  OBVIOUS

LEMMA Appended ==
    ASSUME NEW T, NEW list \in Seq(T), NEW item \in T
    PROVE  /\ Append(list, item) \in Seq(T) /\ Len(list) \in Nat
           /\ Len(Append(list, item)) = Len(list) + 1
           /\ Append(list, item)[Len(list) + 1] = item
           /\ \A i \in 1 .. Len(list) : Append(list, item)[i] = list[i]
  OBVIOUS

\* u collects those of the items that are among these, one after the other.
Collecting(u, items, these) ==
    /\ u[0] = <<>>
    /\ \A k \in 1 .. Len(items) :
          u[k] = IF items[k] \in these THEN Append(u[k - 1], items[k]) ELSE u[k - 1]

\* What Chosen unfolds to.
ChosenOf(items, these) ==
    CHOOSE e : e = [s \in SUBSET DOMAIN items |->
                      IF s = {} THEN <<>>
                      ELSE LET x == Max(s)
                           IN  IF items[x] \in these THEN Append(e[s \ {x}], items[x])
                                                     ELSE e[s \ {x}]]

\* Chosen is the last of the partial choices.
LEMMA ChosenRuns ==
    ASSUME NEW T, NEW items \in Seq(T), NEW these
    PROVE  \E u \in [0 .. Len(items) -> Seq(T)] :
               Collecting(u, items, these) /\ Chosen(items, these) = u[Len(items)]
<1> DEFINE n == Len(items)
           Extend(list, item) == IF item \in these THEN Append(list, item) ELSE list
           P(e) == e = [s \in SUBSET DOMAIN items |->
                          IF s = {} THEN <<>>
                          ELSE LET x == Max(s)
                               IN  IF items[x] \in these THEN Append(e[s \ {x}], items[x])
                                                         ELSE e[s \ {x}]]
<1>1. n \in Nat /\ DOMAIN items = 1 .. n /\ \A k \in 1 .. n : items[k] \in T
  OBVIOUS
<1> HIDE DEF n
<1>2. \E e : P(e)
  <2> DEFINE rule == [p \in Seq(T) \X (1 .. n) |-> Extend(p[1], items[p[2]])]
  <2>1. rule \in [Seq(T) \X (1 .. n) -> Seq(T)] /\ <<>> \in Seq(T)
    <3>1. \A list \in Seq(T), item \in T : Extend(list, item) \in Seq(T)
      OBVIOUS
    <3>2. \A p \in Seq(T) \X (1 .. n) : p[1] \in Seq(T) /\ items[p[2]] \in T
      BY <1>1
    <3> HIDE DEF Extend
    <3> QED
      BY <3>1, <3>2
  <2>2. \A y \in Seq(T), x \in 1 .. n : rule[<<y, x>>] = Extend(y, items[x])
    OBVIOUS
  <2> HIDE DEF rule
  <2>3. PICK e \in [SUBSET (1 .. n) -> Seq(T)] : Folds(e, <<>>, rule, n)
    BY <1>1, <2>1, FoldExists
  <2>4. ASSUME NEW s \in SUBSET (1 .. n)
        PROVE  e[s] = IF s = {} THEN <<>> ELSE Extend(e[s \ {Max(s)}], items[Max(s)])
    <3>1. e[s] = IF s = {} THEN <<>> ELSE rule[<<e[s \ {Max(s)}], Max(s)>>]
      BY <2>3 DEF Folds
    <3>2. CASE s = {}
      BY <3>1, <3>2
    <3>3. CASE s # {}
      <4>1. Max(s) \in 1 .. n /\ e[s \ {Max(s)}] \in Seq(T)
        BY <1>1, <3>3, LargestIndex
      <4>2. rule[<<e[s \ {Max(s)}], Max(s)>>] = Extend(e[s \ {Max(s)}], items[Max(s)])
        BY <2>2, <4>1
      <4> HIDE DEF Extend
      <4> QED
        BY <3>1, <3>3, <4>2
    <3> QED
      BY <3>2, <3>3
  <2>5. e = [s \in SUBSET (1 .. n) |-> e[s]]
    OBVIOUS
  <2>6. P(e)
    BY <1>1, <2>4, <2>5
  <2> QED
    BY <2>6
<1>3. P(ChosenOf(items, these))
  <2>1. ChosenOf(items, these) = CHOOSE e : P(e)
    BY DEF ChosenOf
  <2> HIDE DEF P
  <2> QED
    BY <1>2, <2>1
<1>4. PICK e : e = ChosenOf(items, these)
  OBVIOUS
<1>5. \A s \in SUBSET (1 .. n) :
          e[s] = IF s = {} THEN <<>> ELSE Extend(e[s \ {Max(s)}], items[Max(s)])
  BY <1>1, <1>3, <1>4
<1>6. Chosen(items, these) = e[1 .. n]
  <2>1. Chosen(items, these) = ChosenOf(items, these)[DOMAIN items]
    BY Zenon DEF Chosen, FoldLeft, MapThenFoldSet, ChosenOf
  <2> QED
    BY <1>1, <1>4, <2>1
<1> DEFINE u == [k \in 0 .. n |-> e[1 .. k]]
<1>7. u[0] = <<>>
  <2>1. 1 .. 0 = {} /\ 0 \in 0 .. n
    BY <1>1
  <2> HIDE DEF Extend
  <2> QED
    BY <1>5, <2>1
<1>8. ASSUME NEW k \in 1 .. n
      PROVE  u[k] = Extend(u[k - 1], items[k])
  <2> HIDE DEF Extend
  <2>1. Max(1 .. k) = k /\ (1 .. k) \ {k} = 1 .. (k - 1) /\ 1 .. k # {}
    BY <1>1, LastOf
  <2>2. k \in 0 .. n /\ k - 1 \in 0 .. n /\ (1 .. k) \in SUBSET (1 .. n)
    BY <1>1
  <2>3. e[1 .. k] = Extend(e[1 .. (k - 1)], items[k])
    BY <1>5, <2>1, <2>2
  <2> QED
    BY <2>2, <2>3
<1>9. \A k \in 0 .. n : u[k] \in Seq(T)
  <2> DEFINE G == {k \in 0 .. n : u[k] \in Seq(T)}
  <2> HIDE DEF u, Extend
  <2>1. 0 \in G
    <3>1. <<>> \in Seq(T) /\ 0 \in 0 .. n
      BY <1>1
    <3> QED
      BY <1>7, <3>1
  <2>2. ASSUME NEW k \in 1 .. n, k - 1 \in G
        PROVE  k \in G
    <3>1. u[k - 1] \in Seq(T) /\ items[k] \in T /\ k \in 0 .. n
      BY <1>1, <2>2
    <3>2. Extend(u[k - 1], items[k]) \in Seq(T)
      BY <3>1, Appended DEF Extend
    <3> QED
      BY <1>8, <3>1, <3>2
  <2>3. \A k \in 0 .. n : k \in G
    <3> HIDE DEF G
    <3> QED
      BY <1>1, <2>1, <2>2, Upward
  <2> QED
    BY <2>3
<1>10. u \in [0 .. n -> Seq(T)] /\ u[n] = e[1 .. n]
  <2>1. n \in 0 .. n
    BY <1>1
  <2> QED
    BY <1>9, <2>1
<1>11. Collecting(u, items, these)
  <2> HIDE DEF u
  <2> QED
    BY <1>7, <1>8 DEF Collecting, n
<1> HIDE DEF u
<1> QED
  BY <1>6, <1>10, <1>11 DEF n

LEMMA CollectStep ==
    ASSUME NEW T, NEW items \in Seq(T), NEW these,
           NEW u \in [0 .. Len(items) -> Seq(T)], Collecting(u, items, these),
           NEW k \in 1 .. Len(items)
    PROVE  /\ u[k] = IF items[k] \in these THEN Append(u[k - 1], items[k]) ELSE u[k - 1]
           /\ u[k - 1] \in Seq(T) /\ items[k] \in T
<1>1. Len(items) \in Nat /\ items[k] \in T
  OBVIOUS
<1>2. k - 1 \in 0 .. Len(items)
  BY <1>1
<1> QED
  BY <1>1, <1>2 DEF Collecting

\* All of them.
LEMMA ChosenAll ==
    ASSUME NEW T, NEW items \in Seq(T), NEW these, \A k \in 1 .. Len(items) : items[k] \in these
    PROVE  Chosen(items, these) = items
<1>1. PICK u \in [0 .. Len(items) -> Seq(T)] :
          Collecting(u, items, these) /\ Chosen(items, these) = u[Len(items)]
  BY ChosenRuns
<1> DEFINE n == Len(items)
           G == {k \in 0 .. n : Len(u[k]) = k /\ \A i \in 1 .. k : u[k][i] = items[i]}
<1>2. n \in Nat /\ n \in 0 .. n
  OBVIOUS
<1>3. 0 \in G
  <2>1. u[0] = <<>>
    BY <1>1 DEF Collecting
  <2> QED
    BY <1>2, <2>1
<1>4. ASSUME NEW k \in 1 .. n, k - 1 \in G
      PROVE  k \in G
  <2>1. u[k] = Append(u[k - 1], items[k]) /\ u[k - 1] \in Seq(T) /\ items[k] \in T
    <3>1. items[k] \in these
      OBVIOUS
    <3> HIDE DEF G
    <3>2. /\ u[k] = IF items[k] \in these THEN Append(u[k - 1], items[k]) ELSE u[k - 1]
          /\ u[k - 1] \in Seq(T) /\ items[k] \in T
      BY <1>1, CollectStep
    <3> QED
      BY <3>1, <3>2
  <2>2. Len(u[k - 1]) = k - 1 /\ \A i \in 1 .. (k - 1) : u[k - 1][i] = items[i]
    BY <1>4
  <2>3. Len(u[k]) = k /\ \A i \in 1 .. k : u[k][i] = items[i]
    <3>1. /\ Len(u[k]) = (k - 1) + 1 /\ u[k][(k - 1) + 1] = items[k]
          /\ \A i \in 1 .. (k - 1) : u[k][i] = u[k - 1][i]
      BY <2>1, <2>2, Appended
    <3>2. \A i \in 1 .. k : i = (k - 1) + 1 \/ i \in 1 .. (k - 1)
      OBVIOUS
    <3>3. (k - 1) + 1 = k
      OBVIOUS
    <3> HIDE DEF G, n
    <3> QED
      BY <2>2, <3>1, <3>2, <3>3
  <2> QED
    BY <2>3
<1>5. \A k \in 0 .. n : k \in G
  <2> HIDE DEF G, n
  <2> QED
    BY <1>2, <1>3, <1>4, Upward
<1>6. Len(u[n]) = n /\ \A i \in 1 .. n : u[n][i] = items[i]
  BY <1>2, <1>5
<1>7. u[n] \in Seq(T)
  BY <1>2
<1> QED
  BY <1>1, <1>6, <1>7

\* The places the chosen ones come from, in order.
Picks(at, chosen, items, these) ==
    /\ at \in [1 .. Len(chosen) -> {i \in 1 .. Len(items) : items[i] \in these}]
    /\ \A i \in 1 .. Len(items) : items[i] \in these => \E k \in 1 .. Len(chosen) : at[k] = i
    /\ \A k, m \in 1 .. Len(chosen) : k < m => at[k] < at[m]
    /\ \A k \in 1 .. Len(chosen) : chosen[k] = items[at[k]]

\* What is chosen is in the list, all of it, in its order.
LEMMA ChosenPlaces ==
    ASSUME NEW T, NEW items \in Seq(T), NEW these
    PROVE  /\ Chosen(items, these) \in Seq(T)
           /\ \E at : Picks(at, Chosen(items, these), items, these)
<1>1. PICK u \in [0 .. Len(items) -> Seq(T)] :
          Collecting(u, items, these) /\ Chosen(items, these) = u[Len(items)]
  BY ChosenRuns
<1> DEFINE n == Len(items)
           Right(at, k) ==
              /\ at \in [1 .. Len(u[k]) -> 1 .. k]
              /\ \A j \in 1 .. Len(u[k]) : items[at[j]] \in these /\ u[k][j] = items[at[j]]
              /\ \A i \in 1 .. k : items[i] \in these => \E j \in 1 .. Len(u[k]) : at[j] = i
              /\ \A j, m \in 1 .. Len(u[k]) : j < m => at[j] < at[m]
           G == {k \in 0 .. n : \E at : Right(at, k)}
<1>2. n \in Nat /\ n \in 0 .. n
  OBVIOUS
<1>3. 0 \in G
  <2>1. u[0] = <<>>
    BY <1>1 DEF Collecting
  <2>2. Right(<<>>, 0)
    BY <2>1
  <2> HIDE DEF Right
  <2> QED
    BY <1>2, <2>2
<1>4. ASSUME NEW k \in 1 .. n, k - 1 \in G
      PROVE  k \in G
  <2>0. k - 1 \in 0 .. n /\ k \in 0 .. n
    OBVIOUS
  <2>1. /\ u[k] = IF items[k] \in these THEN Append(u[k - 1], items[k]) ELSE u[k - 1]
        /\ u[k - 1] \in Seq(T) /\ items[k] \in T
    BY <1>1, CollectStep
  <2>2. PICK at : Right(at, k - 1)
    BY <1>4
  <2>3. PICK v : v = u[k - 1]
    OBVIOUS
  <2>4. /\ v \in Seq(T) /\ at \in [1 .. Len(v) -> 1 .. (k - 1)]
        /\ \A j \in 1 .. Len(v) : items[at[j]] \in these /\ v[j] = items[at[j]]
        /\ \A i \in 1 .. (k - 1) : items[i] \in these => \E j \in 1 .. Len(v) : at[j] = i
        /\ \A j, m \in 1 .. Len(v) : j < m => at[j] < at[m]
    BY <2>1, <2>2, <2>3
  <2>5. CASE items[k] \notin these
    <3>1. u[k] = v
      BY <2>1, <2>3, <2>5
    <3>2. Right(at, k)
      <4>1. at \in [1 .. Len(v) -> 1 .. k]
        BY <2>4
      <4>2. \A i \in 1 .. k : i = k \/ i \in 1 .. (k - 1)
        OBVIOUS
      <4> QED
        BY <2>4, <2>5, <3>1, <4>1, <4>2
    <3> HIDE DEF Right
    <3> QED
      BY <2>0, <3>2
  <2>6. CASE items[k] \in these
    <3> DEFINE m == Len(v)
               at2 == [j \in 1 .. (m + 1) |-> IF j = m + 1 THEN k ELSE at[j]]
    <3>1. u[k] = Append(v, items[k])
      BY <2>1, <2>3, <2>6
    <3>2. /\ m \in Nat /\ Len(u[k]) = m + 1 /\ u[k][m + 1] = items[k]
          /\ \A j \in 1 .. m : u[k][j] = v[j]
      <4> HIDE DEF Right, G, n, at2
      <4>1. items[k] \in T /\ v \in Seq(T)
        BY <2>1, <2>4
      <4> QED
        BY <3>1, <4>1, Appended
    <3> HIDE DEF m
    <3>3. /\ at \in [1 .. m -> 1 .. (k - 1)]
          /\ \A j \in 1 .. m : items[at[j]] \in these /\ v[j] = items[at[j]]
          /\ \A i \in 1 .. (k - 1) : items[i] \in these => \E j \in 1 .. m : at[j] = i
          /\ \A j, i \in 1 .. m : j < i => at[j] < at[i]
      BY <2>4 DEF m
    <3>4. \A j \in 1 .. (m + 1) : j = m + 1 \/ j \in 1 .. m
      BY <3>2
    <3>5. at2[m + 1] = k /\ \A j \in 1 .. m : at2[j] = at[j] /\ j \in 1 .. (m + 1) /\ at[j] \in 1 .. (k - 1)
      BY <3>2, <3>3
    <3>6. at2 \in [1 .. (m + 1) -> 1 .. k]
      BY <3>2, <3>3
    <3>11. m + 1 \in 1 .. (m + 1)
      BY <3>2
    <3> HIDE DEF at2
    <3>7. \A j \in 1 .. (m + 1) : items[at2[j]] \in these /\ u[k][j] = items[at2[j]]
      BY <2>6, <3>2, <3>3, <3>4, <3>5
    <3>8. \A i \in 1 .. k : items[i] \in these => \E j \in 1 .. (m + 1) : at2[j] = i
      <4>1. \A i \in 1 .. k : i = k \/ i \in 1 .. (k - 1)
        OBVIOUS
      <4> QED
        BY <3>3, <3>5, <3>11, <4>1
    <3>9. ASSUME NEW j \in 1 .. (m + 1), NEW i \in 1 .. (m + 1), j < i
          PROVE  at2[j] < at2[i]
      <4>1. j \in 1 .. m
        BY <3>2, <3>9
      <4>2. CASE i = m + 1
        BY <3>5, <4>1, <4>2
      <4>3. CASE i \in 1 .. m
        BY <3>3, <3>5, <3>9, <4>1, <4>3
      <4> QED
        BY <3>4, <4>2, <4>3
    <3>10. Right(at2, k)
      BY <3>2, <3>6, <3>7, <3>8, <3>9
    <3> HIDE DEF Right
    <3> QED
      BY <2>0, <3>10
  <2> QED
    BY <2>5, <2>6
<1>5. \A k \in 0 .. n : k \in G
  <2> HIDE DEF G, n
  <2> QED
    BY <1>2, <1>3, <1>4, Upward
<1>6. PICK at : Right(at, n)
  BY <1>2, <1>5
<1>7. PICK v : v = u[n]
  OBVIOUS
<1>8. v \in Seq(T) /\ v = Chosen(items, these)
  BY <1>1, <1>2, <1>7
<1>9. Picks(at, v, items, these)
  BY <1>6, <1>7 DEF Picks
<1> QED
  BY <1>8, <1>9

Values(items, val) == [k \in DOMAIN items |-> val[items[k]]]

\* The values of the items, 0 for those that are not among these.
Counted(items, these, val) ==
    [i \in 1 .. Len(items) |-> IF items[i] \in these THEN val[items[i]] ELSE 0]

\* What the chosen ones add up to: the others count for nothing.
LEMMA ChosenTotal ==
    ASSUME NEW T, NEW items \in Seq(T), NEW these, NEW val \in [T -> Int]
    PROVE  Total(Values(Chosen(items, these), val)) = Total(Counted(items, these, val))
<1>1. PICK u \in [0 .. Len(items) -> Seq(T)] :
          Collecting(u, items, these) /\ Chosen(items, these) = u[Len(items)]
  BY ChosenRuns
<1> DEFINE n == Len(items)
           h == [i \in 1 .. n |-> IF items[i] \in these THEN val[items[i]] ELSE 0]
           Vals(list) == [k \in DOMAIN list |-> val[list[k]]]
           f == [k \in 0 .. n |-> Total(Vals(u[k]))]
<1>2. n \in Nat /\ n \in 0 .. n /\ DOMAIN items = 1 .. n /\ \A k \in 1 .. n : items[k] \in T
  OBVIOUS
<1>3. h \in Seq(Int) /\ Len(h) = n
  <2>1. h \in [1 .. n -> Int]
    BY <1>2
  <2> HIDE DEF h
  <2> QED
    BY <1>2, <2>1
<1>4. ASSUME NEW list \in Seq(T)
      PROVE  Vals(list) \in Seq(Int)
  <2> HIDE DEF h, f, n
  <2>1. Vals(list) \in [1 .. Len(list) -> Int] /\ Len(list) \in Nat
    OBVIOUS
  <2> HIDE DEF Vals
  <2> QED
    BY <2>1, Listed
<1>5. f[0] = 0
  <2>1. u[0] = <<>>
    BY <1>1 DEF Collecting
  <2>2. Vals(<<>>) = <<>>
    OBVIOUS
  <2>3. 0 \in 0 .. n
    OBVIOUS
  <2> HIDE DEF Vals, n
  <2> QED
    BY <2>1, <2>2, <2>3, TotalOfNone
<1>6. ASSUME NEW k \in 1 .. n
      PROVE  f[k] = f[k - 1] + h[k]
  <2>0. k - 1 \in 0 .. n /\ k \in 0 .. n
    OBVIOUS
  <2>1. /\ u[k] = IF items[k] \in these THEN Append(u[k - 1], items[k]) ELSE u[k - 1]
        /\ u[k - 1] \in Seq(T) /\ items[k] \in T
    BY <1>1, CollectStep
  <2>2. Total(Vals(u[k - 1])) \in Int
    <3>1. Vals(u[k - 1]) \in Seq(Int)
      BY <1>4, <2>1
    <3> QED
      BY <3>1, TotalRuns, TotalIs
  <2>3. CASE items[k] \in these
    <3>1. u[k] = Append(u[k - 1], items[k]) /\ h[k] = val[items[k]] /\ val[items[k]] \in Int
      BY <1>2, <2>1, <2>3
    <3>2. Vals(Append(u[k - 1], items[k])) = Append(Vals(u[k - 1]), val[items[k]])
      <4>1. PICK list \in Seq(T), item \in T : list = u[k - 1] /\ item = items[k]
        BY <2>1
      <4>2. Vals(Append(list, item)) = Append(Vals(list), val[item])
        <5> HIDE DEF h, f
        <5>1. /\ Len(list) \in Nat /\ DOMAIN list = 1 .. Len(list)
              /\ DOMAIN Append(list, item) = 1 .. (Len(list) + 1)
              /\ Append(list, item)[Len(list) + 1] = item
              /\ \A i \in 1 .. Len(list) : Append(list, item)[i] = list[i]
          OBVIOUS
        <5>2. Vals(list) \in Seq(Int) /\ Len(Vals(list)) = Len(list)
              /\ \A i \in 1 .. Len(list) : Vals(list)[i] = val[list[i]]
          BY <1>4, <5>1
        <5>3. val[item] \in Int
          OBVIOUS
        <5>4. \A i \in 1 .. (Len(list) + 1) : i = Len(list) + 1 \/ i \in 1 .. Len(list)
          BY <5>1
        <5>5. Vals(Append(list, item)) \in Seq(Int)
          <6>1. Append(list, item) \in Seq(T)
            OBVIOUS
          <6> HIDE DEF Vals
          <6> QED
            BY <1>4, <6>1
        <5>6. /\ Len(Vals(Append(list, item))) = Len(list) + 1
              /\ \A i \in 1 .. (Len(list) + 1) :
                    Vals(Append(list, item))[i] = val[Append(list, item)[i]]
          BY <5>1
        <5> HIDE DEF Vals
        <5>7. PICK a, b : a = Vals(Append(list, item)) /\ b = Append(Vals(list), val[item])
          OBVIOUS
        <5>8. b \in Seq(Int) /\ Len(b) = Len(list) + 1 /\ b[Len(list) + 1] = val[item]
              /\ \A i \in 1 .. Len(list) : b[i] = val[list[i]]
          BY <5>1, <5>2, <5>3, <5>7
        <5>9. a \in Seq(Int) /\ Len(a) = Len(b)
          BY <5>5, <5>6, <5>7, <5>8
        <5>10. \A i \in 1 .. (Len(list) + 1) : a[i] = b[i]
          BY <5>1, <5>4, <5>6, <5>7, <5>8
        <5>11. a = b
          BY <5>8, <5>9, <5>10, SeqEqual
        <5> QED
          BY <5>7, <5>11
      <4> HIDE DEF Vals
      <4> QED
        BY <4>1, <4>2
    <3> HIDE DEF h, Vals
    <3>3. Vals(u[k - 1]) \in Seq(Int)
      BY <1>4, <2>1
    <3>4. Total(Vals(u[k])) = Total(Vals(u[k - 1])) + val[items[k]]
      BY <3>1, <3>2, <3>3, TotalOfAppend
    <3> QED
      BY <2>0, <3>1, <3>4
  <2>4. CASE items[k] \notin these
    <3>1. u[k] = u[k - 1] /\ h[k] = 0
      BY <1>2, <2>1, <2>4
    <3> HIDE DEF h, Vals
    <3> QED
      BY <2>0, <2>2, <3>1
  <2> QED
    BY <2>3, <2>4
<1>7. f \in [0 .. n -> Int]
  <2> SUFFICES ASSUME NEW k \in 0 .. n
               PROVE  Total(Vals(u[k])) \in Int
    OBVIOUS
  <2>1. Vals(u[k]) \in Seq(Int)
    BY <1>1, <1>4
  <2> HIDE DEF Vals
  <2> QED
    BY <2>1, TotalRuns, TotalIs
<1>8. Adding(f, h)
  <2> HIDE DEF f, h
  <2> QED
    BY <1>3, <1>5, <1>6, <1>7 DEF Adding
<1>9. Total(h) = f[n]
  <2> HIDE DEF f, h
  <2> QED
    BY <1>3, <1>8, TotalIs
<1>10. f[n] = Total(Vals(Chosen(items, these)))
  BY <1>1, <1>2
<1> QED
  BY <1>9, <1>10 DEF Values, Counted

-----------------------------------------------------------------------------
(* The required score.                                                     *)

LEMMA TimesKeepsOrder ==
    ASSUME NEW a \in Int, NEW b \in Int, NEW w \in Nat, a <= b
    PROVE  a * w <= b * w
<1>1. PICK d \in Nat : b = a + d
  BY SMT
<1>2. d * w >= 0
  BY SMT
<1>3. b * w = a * w + d * w
  BY <1>1, SMT
<1> QED
  BY <1>2, <1>3, SMT

LEMMA Moved ==
    ASSUME NEW aim \in Int, NEW rest \in Int, NEW xs \in Int, NEW ot \in Int
    PROVE  rest + xs + ot >= aim <=> xs >= aim - rest - ot
  BY SMT

LEMMA MovedBoth ==
    ASSUME NEW aim \in Int, NEW rest \in Int, NEW xs \in Int, NEW xt \in Int
    PROVE  rest + xs + xt >= aim <=> xs + xt >= aim - rest
  BY SMT

\* A score above the one it replaces, where that one alone would do.
LEMMA ReachedTwice ==
    ASSUME NEW aim \in Int, NEW rest \in Int,
           NEW xs \in Int, NEW xt \in Int, NEW os \in Int, NEW ot \in Int,
           aim - rest - ot <= os, xs >= os, xt >= ot
    PROVE  rest + xs + xt >= aim <=> xs >= aim - rest - ot
  BY SMT

\* A score below the one it replaces, where that one would not do.
LEMMA MissedTwice ==
    ASSUME NEW aim \in Int, NEW rest \in Int,
           NEW xs \in Int, NEW xt \in Int, NEW os \in Int, NEW ot \in Int,
           aim - rest > os + ot, xs <= os, xt <= ot
    PROVE  rest + xs + ot >= aim <=> xs + xt >= aim - rest
  BY SMT

\* The grade times the whole, when the source of a rule scores x.
Reached(rest, x, source, target) ==
    rest + x * source.weight + (IF x > target.score THEN x ELSE target.score) * target.weight

\* solver.py, _solve_with_replacement_as_source: for every score the rule could
\* replace and all weights one of the two branches is consistent, and its
\* solution is the least score that reaches the aim, whichever branch the
\* score itself is on.
THEOREM SolverIsExact ==
    ASSUME NEW aim \in Int, NEW rest \in Int, NEW source, NEW target,
           source.weight \in Nat \ {0}, target.weight \in Nat, target.score \in Int
    PROVE  LET answer == WithReplacement(aim, rest, source, target)
           IN  /\ answer \in [num : Int, den : Nat \ {0}]
               /\ \A x \in Int :
                     Reached(rest, x, source, target) >= aim <=> x * answer.den >= answer.num
<1> DEFINE s == source.weight
           t == target.weight
           o == target.score
           apart == [num |-> aim - rest - o * t, den |-> s]
           both == [num |-> aim - rest, den |-> s + t]
<1>1. /\ s \in Nat \ {0} /\ t \in Nat /\ o \in Int
      /\ o * t \in Int /\ o * s \in Int /\ o * (s + t) = o * s + o * t
  BY SMT
<1>0. o \in Int
  OBVIOUS
<1>2. ASSUME NEW x \in Int
      PROVE  x * s \in Int /\ x * t \in Int /\ x * (s + t) = x * s + x * t
  BY <1>1, SMT
<1>5. ASSUME NEW x \in Int, x <= o
      PROVE  /\ x * s <= o * s /\ x * t <= o * t
             /\ Reached(rest, x, source, target) = rest + x * s + o * t
  <2>1. x * s <= o * s /\ x * t <= o * t
    BY <1>1, <1>5, TimesKeepsOrder
  <2>2. ~(x > o)
    BY <1>0, <1>5
  <2> QED
    BY <2>1, <2>2 DEF Reached
<1>6. ASSUME NEW x \in Int, x > o
      PROVE  /\ x * s >= o * s /\ x * t >= o * t
             /\ Reached(rest, x, source, target) = rest + x * s + x * t
  <2>1. o <= x
    BY <1>0, <1>6
  <2>2. o * s <= x * s /\ o * t <= x * t
    BY <1>1, <2>1, TimesKeepsOrder
  <2>3. o * s \in Int /\ o * t \in Int /\ x * s \in Int /\ x * t \in Int
    BY <1>1, <1>2
  <2>4. x * s >= o * s /\ x * t >= o * t
    BY <2>2, <2>3
  <2> QED
    BY <1>6, <2>4 DEF Reached
<1> HIDE DEF s, t, o
<1>3. CASE apart.num <= o * apart.den
  <2>1. WithReplacement(aim, rest, source, target) = apart
    BY <1>3 DEF WithReplacement, Share, s, t, o
  <2>2. aim - rest - o * t <= o * s
    BY <1>3
  <2>3. ASSUME NEW x \in Int
        PROVE  Reached(rest, x, source, target) >= aim <=> x * s >= aim - rest - o * t
    <3> HIDE DEF apart, both
    <3>1. CASE x <= o
      <4>1. x * s \in Int /\ o * t \in Int
        BY <1>1, <1>2
      <4>2. Reached(rest, x, source, target) = rest + x * s + o * t
        BY <1>5, <3>1
      <4> QED
        BY Moved, <4>1, <4>2
    <3>2. CASE x > o
      <4>1. x * s \in Int /\ x * t \in Int /\ o * s \in Int /\ o * t \in Int
        BY <1>1, <1>2
      <4>2. x * s >= o * s /\ x * t >= o * t /\ Reached(rest, x, source, target) = rest + x * s + x * t
        BY <1>6, <3>2
      <4> QED
        BY ReachedTwice, <2>2, <4>1, <4>2
    <3>3. x <= o \/ x > o
      BY <1>0
    <3> QED
      BY <3>1, <3>2, <3>3
  <2> QED
    BY <1>1, <2>1, <2>3
<1>4. CASE ~(apart.num <= o * apart.den)
  <2>1. apart.num > o * apart.den /\ both.num > o * both.den
    BY <1>1, <1>4, SMT
  <2>2. WithReplacement(aim, rest, source, target) = both
    BY <1>4, <2>1 DEF WithReplacement, Share, s, t, o
  <2>3. aim - rest > o * s + o * t
    BY <1>1, <2>1
  <2>5. ASSUME NEW x \in Int
        PROVE  Reached(rest, x, source, target) >= aim <=> x * (s + t) >= aim - rest
    <3> HIDE DEF apart, both
    <3>1. CASE x <= o
      <4>1. x * s \in Int /\ x * t \in Int /\ o * s \in Int /\ o * t \in Int
        BY <1>1, <1>2
      <4>2. x * s <= o * s /\ x * t <= o * t /\ Reached(rest, x, source, target) = rest + x * s + o * t
        BY <1>5, <3>1
      <4>3. x * (s + t) = x * s + x * t
        BY <1>2
      <4> QED
        BY MissedTwice, <2>3, <4>1, <4>2, <4>3
    <3>2. CASE x > o
      <4>1. x * s \in Int /\ x * t \in Int
        BY <1>2
      <4>2. Reached(rest, x, source, target) = rest + x * s + x * t
        BY <1>6, <3>2
      <4>3. x * (s + t) = x * s + x * t
        BY <1>2
      <4> QED
        BY MovedBoth, <4>1, <4>2, <4>3
    <3>3. x <= o \/ x > o
      BY <1>0
    <3> QED
      BY <3>1, <3>2, <3>3
  <2>4. s + t \in Nat \ {0}
    BY <1>1, SMT
  <2> QED
    BY <1>1, <2>2, <2>4, <2>5
<1> QED
  BY <1>3, <1>4

-----------------------------------------------------------------------------
(* The letters of an accepted scale.                                       *)

\* Every cutoff has two bounds, in order, and a letter of the canonical scale.
Canonical(cutoffs) ==
    /\ Len(cutoffs) \in Nat /\ DOMAIN cutoffs = 1 .. Len(cutoffs)
    /\ \A i \in DOMAIN cutoffs :
          /\ cutoffs[i].letter \in DOMAIN LetterRank
          /\ cutoffs[i].minimum \in Int /\ cutoffs[i].maximum \in Int
          /\ cutoffs[i].minimum <= cutoffs[i].maximum

\* No two cutoffs overlap unless "higher grade wins" settles them.
Settled(cutoffs) ==
    \A i, j \in DOMAIN cutoffs :
        Overlap(cutoffs[i], cutoffs[j]) =>
            \E a, b \in DOMAIN cutoffs :
                /\ {cutoffs[i].letter, cutoffs[j].letter} = {cutoffs[a].letter, cutoffs[b].letter}
                /\ LetterRank[cutoffs[b].letter] = LetterRank[cutoffs[a].letter] + 1
                /\ cutoffs[a].minimum = cutoffs[b].maximum
                /\ Apart(cutoffs, a, b)

\* A higher letter has no lower minimum.
InOrder(cutoffs) ==
    \A i, j \in DOMAIN cutoffs :
        LetterRank[cutoffs[i].letter] < LetterRank[cutoffs[j].letter]
            => cutoffs[j].minimum <= cutoffs[i].minimum

LEMMA RanksAreNumbers ==
    /\ DOMAIN LetterRank = {"A", "B", "C", "D", "F"}
    /\ \A letter \in DOMAIN LetterRank : LetterRank[letter] \in 0 .. 4
  BY DEF LetterRank

\* Two cutoffs of which the lower letter has the higher scores do not exist.
LEMMA NoInversion ==
    ASSUME NEW c, Canonical(c), Settled(c), InOrder(c),
           Unknown \notin Int,
           NEW i \in DOMAIN c, NEW j \in DOMAIN c, NEW low \in Int, NEW high \in Int,
           c[i].minimum <= low, low <= c[i].maximum,
           c[j].minimum <= high, high <= c[j].maximum, low < high
    PROVE  LetterRank[c[j].letter] <= LetterRank[c[i].letter]
<1> DEFINE R(k) == LetterRank[c[k].letter]
<1>1. \A k \in DOMAIN c : /\ R(k) \in Int /\ c[k].minimum \in Int /\ c[k].maximum \in Int
                          /\ c[k].minimum <= c[k].maximum
  BY RanksAreNumbers DEF Canonical
<1>2. \A k, m \in DOMAIN c :
          Overlap(c[k], c[m]) <=> /\ c[k].letter # c[m].letter
                                  /\ c[k].minimum <= c[m].maximum /\ c[m].minimum <= c[k].maximum
  BY <1>1 DEF Overlap, AtMost
<1> SUFFICES ASSUME R(i) < R(j) PROVE FALSE
  BY <1>1
<1>3. c[i].letter # c[j].letter
  BY <1>1
<1>4. c[j].minimum <= c[i].minimum
  BY DEF InOrder
<1>5. Overlap(c[i], c[j]) /\ Overlap(c[j], c[i])
  BY <1>1, <1>2, <1>3, <1>4
<1>6. PICK a \in DOMAIN c, b \in DOMAIN c :
          /\ {c[i].letter, c[j].letter} = {c[a].letter, c[b].letter}
          /\ R(b) = R(a) + 1
          /\ c[a].minimum = c[b].maximum
          /\ Apart(c, a, b)
  BY <1>5 DEF Settled
<1>7. c[a].letter = c[i].letter /\ c[b].letter = c[j].letter
  <2>1. \/ c[a].letter = c[i].letter /\ c[b].letter = c[j].letter
        \/ c[a].letter = c[j].letter /\ c[b].letter = c[i].letter
    BY <1>3, <1>6
  <2>2. CASE c[a].letter = c[j].letter /\ c[b].letter = c[i].letter
    <3>1. R(i) = R(j) + 1
      BY <1>6, <2>2
    <3> QED
      BY <1>1, <3>1
  <2> QED
    BY <2>1, <2>2
<1>8. i # b /\ j # a
  BY <1>3, <1>7
<1>9. CASE a = i /\ b = j
  <2>1. c[i].minimum = c[j].maximum
    BY <1>6, <1>9
  <2> QED
    BY <1>1, <2>1
<1>10. CASE a # i /\ b = j
  <2>1. ~Overlap(c[i], c[b])
    BY <1>6, <1>8, <1>10 DEF Apart
  <2> QED
    BY <1>5, <1>10, <2>1
<1>11. CASE a = i /\ b # j
  <2>1. ~Overlap(c[j], c[a])
    BY <1>6, <1>8, <1>11 DEF Apart
  <2> QED
    BY <1>5, <1>11, <2>1
<1>12. CASE a # i /\ b # j
  <2>1. ~Overlap(c[i], c[b]) /\ ~Overlap(c[j], c[a])
    BY <1>6, <1>8, <1>12 DEF Apart
  <2>2. c[j].minimum <= c[a].minimum /\ c[b].minimum <= c[i].minimum
    BY <1>1, <1>6, <1>7 DEF InOrder
  <2>3. c[b].maximum < c[i].minimum
    BY <1>1, <1>2, <1>3, <1>7, <2>1, <2>2
  <2>4. c[j].maximum < c[a].minimum
    BY <1>1, <1>2, <1>3, <1>7, <2>1, <2>2
  <2> QED
    BY <1>1, <1>6, <2>3, <2>4
<1> QED
  BY <1>9, <1>10, <1>11, <1>12

LEMMA AcceptedInOrder ==
    ASSUME NEW g, NEW confirmed, Unknown \notin Int, Canonical(g.thresholds),
           ThresholdFindings(g, confirmed) \subseteq NonBlocking
    PROVE  Settled(g.thresholds) /\ InOrder(g.thresholds)
<1> DEFINE c == g.thresholds
           letters == {t.letter : t \in ToSet(c)}
           floors == {i \in DOMAIN c : c[i].minimum # Unknown}
           overlaps == \E s, t \in ToSet(c) : /\ Bounded(s) /\ Bounded(t) /\ Overlap(s, t)
                                              /\ ~SettledOverlap(s, t, confirmed, c)
           anomaly == /\ letters \subseteq DOMAIN LetterRank
                      /\ \E i, j \in floors : Higher(c, i, j) /\ c[i].minimum < c[j].minimum
<1>1. ~overlaps /\ ~anomaly
  <2>1. ThresholdFindings(g, confirmed) =
            When(overlaps, "overlapping_grade_thresholds") \cup
            When(anomaly, "grade_threshold_ordering_anomaly")
    BY DEF ThresholdFindings
  <2> HIDE DEF overlaps, anomaly
  <2>2. overlaps => "overlapping_grade_thresholds" \in ThresholdFindings(g, confirmed)
    BY <2>1 DEF When
  <2>3. anomaly => "grade_threshold_ordering_anomaly" \in ThresholdFindings(g, confirmed)
    BY <2>1 DEF When
  <2>4. /\ "overlapping_grade_thresholds" \notin NonBlocking
        /\ "grade_threshold_ordering_anomaly" \notin NonBlocking
    BY DEF NonBlocking
  <2> QED
    BY <2>2, <2>3, <2>4
<1>2. \A i \in DOMAIN c : /\ c[i] \in ToSet(c) /\ Bounded(c[i]) /\ i \in floors
                          /\ c[i].letter \in DOMAIN LetterRank
  BY DEF Canonical, ToSet, Bounded
<1>3. ASSUME NEW i \in DOMAIN c, NEW j \in DOMAIN c, Overlap(c[i], c[j])
      PROVE  \E a, b \in DOMAIN c :
                /\ {c[i].letter, c[j].letter} = {c[a].letter, c[b].letter}
                /\ LetterRank[c[b].letter] = LetterRank[c[a].letter] + 1
                /\ c[a].minimum = c[b].maximum
                /\ Apart(c, a, b)
  <2>1. SettledOverlap(c[i], c[j], confirmed, c)
    BY <1>1, <1>2, <1>3
  <2>2. PICK r \in ResolvedOverlaps(c) : {c[i].letter, c[j].letter} = {r.winner, r.loser}
    BY <2>1 DEF SettledOverlap
  <2>3. PICK p \in (DOMAIN c) \X (DOMAIN c) :
            /\ r = [winner |-> c[p[1]].letter, loser |-> c[p[2]].letter]
            /\ LetterRank[c[p[2]].letter] = LetterRank[c[p[1]].letter] + 1
            /\ c[p[1]].minimum = c[p[2]].maximum
            /\ Apart(c, p[1], p[2])
    BY <2>2 DEF ResolvedOverlaps
  <2> QED
    BY <2>2, <2>3
<1>4. Settled(c)
  BY <1>3 DEF Settled
<1>5. letters \subseteq DOMAIN LetterRank
  BY <1>2 DEF ToSet
<1>6. ASSUME NEW i \in DOMAIN c, NEW j \in DOMAIN c,
             LetterRank[c[i].letter] < LetterRank[c[j].letter]
      PROVE  c[j].minimum <= c[i].minimum
  <2>1. Higher(c, i, j)
    BY <1>6 DEF Higher
  <2>2. ~(c[i].minimum < c[j].minimum)
    BY <1>1, <1>2, <1>5, <2>1
  <2> QED
    BY <2>2 DEF Canonical
<1>7. InOrder(c)
  BY <1>6 DEF InOrder
<1> QED
  BY <1>4, <1>7

\* The letter of a grade is that of a cutoff that covers it.
LEMMA LetterCovers ==
    ASSUME NEW g, NEW x \in Int, Unknown \notin Int, Canonical(g.thresholds),
           Letter(g, [num |-> x, den |-> 1]) # Unknown
    PROVE  \E i \in DOMAIN g.thresholds :
               /\ Letter(g, [num |-> x, den |-> 1]) = g.thresholds[i].letter
               /\ g.thresholds[i].minimum <= x /\ x <= g.thresholds[i].maximum
<1> DEFINE c == g.thresholds
           grade == [num |-> x, den |-> 1]
           I == {i \in 1 .. Len(c) : Covers(c[i], grade)}
           n == SelectInSeq(c, LAMBDA cutoff : Covers(cutoff, grade))
<1>1. n = IF I # {} THEN Min(I) ELSE 0
  BY DEF SelectInSeq
<1>2. Letter(g, grade) = IF n = 0 THEN Unknown ELSE c[n].letter
  BY DEF Letter
<1>3. I # {} /\ Letter(g, grade) = c[Min(I)].letter
  BY <1>1, <1>2
<1>4. Min(I) \in I
  BY <1>3, SmallestIndex DEF Canonical
<1>5. Min(I) \in DOMAIN c /\ Covers(c[Min(I)], grade)
  BY <1>4 DEF Canonical
<1>6. c[Min(I)].minimum <= x /\ x <= c[Min(I)].maximum
  <2>1. PICK k \in DOMAIN c : k = Min(I) /\ Covers(c[k], grade)
    BY <1>5
  <2>2. c[k].minimum \in Int /\ c[k].maximum \in Int
    BY DEF Canonical
  <2>3. c[k].minimum * 1 <= x /\ x <= c[k].maximum * 1
    BY <2>1, <2>2 DEF Covers
  <2>4. c[k].minimum <= x /\ x <= c[k].maximum
    BY <2>2, <2>3
  <2> QED
    BY <2>1, <2>4
<1> QED
  BY <1>3, <1>5, <1>6

LEMMA TrustedInOrder ==
    ASSUME NEW pair \in Accepts, NEW g \in Trusted(pair)
    PROVE  OrderedIn(g)
<1> SUFFICES ASSUME \A t \in ToSet(g.thresholds) : Bounded(t) /\ t.letter \in DOMAIN LetterRank,
                    NEW low \in Grades(g), NEW high \in Grades(g), low.num < high.num,
                    Letter(g, low) # Unknown, Letter(g, high) # Unknown
             PROVE  LetterRank[Letter(g, high)] <= LetterRank[Letter(g, low)]
  BY DEF OrderedIn
<1>1. /\ Unknown \notin Int
      /\ Len(g.thresholds) \in Nat /\ DOMAIN g.thresholds = 1 .. Len(g.thresholds)
      /\ \A t \in ToSet(g.thresholds) :
            {t.minimum, t.maximum} \subseteq Int \cup {Unknown} /\ AtMost(t.minimum, t.maximum)
  BY ScalesValidated
<1>2. \A t \in ToSet(g.thresholds) :
          t.minimum \in Int /\ t.maximum \in Int /\ t.minimum <= t.maximum
  BY <1>1 DEF Bounded, AtMost
<1>3. Canonical(g.thresholds)
  BY <1>1, <1>2 DEF Canonical, ToSet
<1>4. PICK extracted, corrections :
          g = Candidate(extracted, corrections) /\ Accepted(extracted, corrections)
  BY DEF Trusted
<1>5. PICK confirmed : ThresholdFindings(g, confirmed) \subseteq NonBlocking
  BY <1>4 DEF Accepted, Findings
<1>6. Settled(g.thresholds) /\ InOrder(g.thresholds)
  BY <1>1, <1>3, <1>5, AcceptedInOrder
<1>7. /\ low.num \in Int /\ low = [num |-> low.num, den |-> 1]
      /\ high.num \in Int /\ high = [num |-> high.num, den |-> 1]
  <2>1. \A grade \in Grades(g) : grade.num \in Int /\ grade = [num |-> grade.num, den |-> 1]
    BY <1>2 DEF Grades
  <2> QED
    BY <2>1
<1>8. PICK i \in DOMAIN g.thresholds :
          /\ Letter(g, low) = g.thresholds[i].letter
          /\ g.thresholds[i].minimum <= low.num /\ low.num <= g.thresholds[i].maximum
  BY <1>1, <1>3, <1>7, LetterCovers
<1>9. PICK j \in DOMAIN g.thresholds :
          /\ Letter(g, high) = g.thresholds[j].letter
          /\ g.thresholds[j].minimum <= high.num /\ high.num <= g.thresholds[j].maximum
  BY <1>1, <1>3, <1>7, LetterCovers
<1> QED
  BY <1>1, <1>3, <1>6, <1>7, <1>8, <1>9, NoInversion

\* On whatever scale, corrected and confirmed however, a ready calculator
\* never gives a higher grade a lower letter.
THEOREM LettersAreOrdered == Spec => []LettersFollowScores
<1>1. ReadyIsAccepted => LettersFollowScores
  BY TrustedInOrder DEF ReadyIsAccepted, LettersFollowScores, ReadyOn, OrderedPairs
<1> QED
  BY ReadyMeansAccepted, <1>1, PTL

-----------------------------------------------------------------------------
(* The same score everywhere.                                              *)

\* Every component has the score x, or none yet.
Even(components, x) ==
    /\ components \in Seq(ToSet(components))
    /\ \A k \in 1 .. Len(components) :
          components[k].weight \in Int /\ components[k].score \in {x, Unknown}

LEMMA PlaceFound ==
    ASSUME NEW T, NEW u \in Seq(T), NEW name
    PROVE  /\ Place(u, name) \in 0 .. Len(u)
           /\ Place(u, name) # 0 => u[Place(u, name)].name = name
           /\ (\E k \in 1 .. Len(u) : u[k].name = name) => Place(u, name) # 0
<1> DEFINE I == {i \in 1 .. Len(u) : u[i].name = name}
<1>1. Place(u, name) = IF I # {} THEN Min(I) ELSE 0
  BY DEF Place, SelectInSeq
<1>2. I # {} => Min(I) \in I
  <2>1. Len(u) \in Nat /\ I \subseteq 1 .. Len(u)
    OBVIOUS
  <2> HIDE DEF I
  <2> QED
    BY <2>1, SmallestIndex
<1> QED
  BY <1>1, <1>2

\* Among equal scores none is higher than another.
LEMMA NothingReplaced ==
    ASSUME NEW x \in Int, Unknown \notin Int, NEW components, Even(components, x), NEW rule
    PROVE  Replaced(components, rule) = components
<1> DEFINE s == Place(components, rule.source)
           t == Place(components, rule.target)
<1>1. s \in 0 .. Len(components) /\ t \in 0 .. Len(components)
  BY PlaceFound DEF Even
<1> HIDE DEF s, t
<1>2. ASSUME s # 0, t # 0, Unknown \notin {components[s].score, components[t].score}
      PROVE  ~(components[s].score > components[t].score)
  <2>1. s \in 1 .. Len(components) /\ t \in 1 .. Len(components)
    BY <1>1, <1>2
  <2>2. components[s].score = x /\ components[t].score = x
    BY <1>2, <2>1 DEF Even
  <2> QED
    BY <2>2
<1> QED
  BY <1>2 DEF Replaced, s, t

\* What applying the rules unfolds to.
ReplacedOf(components, rules) ==
    CHOOSE e : e = [s \in SUBSET DOMAIN rules |->
                      IF s = {} THEN components
                      ELSE LET x == Max(s) IN Replaced(e[s \ {x}], rules[x])]

LEMMA RulesChangeNothing ==
    ASSUME NEW x \in Int, Unknown \notin Int, NEW components, Even(components, x),
           NEW T, NEW rules \in Seq(T)
    PROVE  FoldLeft(Replaced, components, rules) = components
<1> DEFINE n == Len(rules)
           P(e) == e = [s \in SUBSET DOMAIN rules |->
                          IF s = {} THEN components
                          ELSE LET y == Max(s) IN Replaced(e[s \ {y}], rules[y])]
<1>1. n \in Nat /\ DOMAIN rules = 1 .. n /\ n \in 0 .. n
  OBVIOUS
<1>2. \A rule : Replaced(components, rule) = components
  BY NothingReplaced
<1>3. P([s \in SUBSET DOMAIN rules |-> components])
  BY <1>2
<1>4. P(ReplacedOf(components, rules))
  <2>1. ReplacedOf(components, rules) = CHOOSE e : P(e)
    BY DEF ReplacedOf
  <2> HIDE DEF P
  <2> QED
    BY <1>3, <2>1
<1>5. PICK e : e = ReplacedOf(components, rules)
  OBVIOUS
<1>6. \A s \in SUBSET (1 .. n) :
          e[s] = IF s = {} THEN components ELSE Replaced(e[s \ {Max(s)}], rules[Max(s)])
  BY <1>1, <1>4, <1>5
<1> HIDE DEF n
<1> DEFINE G == {k \in 0 .. n : e[1 .. k] = components}
<1>7. 0 \in G
  <2>1. 1 .. 0 = {} /\ 0 \in 0 .. n
    BY <1>1
  <2> QED
    BY <1>6, <2>1
<1>8. ASSUME NEW k \in 1 .. n, k - 1 \in G
      PROVE  k \in G
  <2>1. Max(1 .. k) = k /\ (1 .. k) \ {k} = 1 .. (k - 1) /\ 1 .. k # {}
    BY <1>1, LastOf
  <2>2. (1 .. k) \in SUBSET (1 .. n) /\ k \in 0 .. n
    BY <1>1
  <2>3. e[1 .. k] = Replaced(e[1 .. (k - 1)], rules[k])
    BY <1>6, <2>1, <2>2
  <2> QED
    BY <1>2, <1>8, <2>2, <2>3
<1>9. \A k \in 0 .. n : k \in G
  <2> HIDE DEF G
  <2> QED
    BY <1>1, <1>7, <1>8, Upward
<1>10. e[1 .. n] = components
  BY <1>1, <1>9
<1>11. FoldLeft(Replaced, components, rules) = ReplacedOf(components, rules)[DOMAIN rules]
  BY Zenon DEF FoldLeft, MapThenFoldSet, ReplacedOf
<1> QED
  BY <1>1, <1>5, <1>10, <1>11

LEMMA EvenContributions ==
    ASSUME NEW x \in Int, Unknown \notin Int, NEW components, Even(components, x),
           \A c \in ToSet(components) : c.score # Unknown
    PROVE  Contributions(components) = x * Total(Weights(components))
<1> DEFINE n == Len(components)
           w == Weights(components)
<1>1. /\ n \in Nat /\ DOMAIN components = 1 .. n
      /\ \A k \in 1 .. n : components[k] \in ToSet(components)
  BY DEF Even, ToSet
<1>2. \A k \in 1 .. n : components[k].score = x /\ components[k].weight \in Int
  BY <1>1 DEF Even
<1>4. w \in [1 .. n -> Int] /\ \A k \in 1 .. n : w[k] = components[k].weight
  BY <1>1, <1>2 DEF Weights
<1> HIDE DEF n, w
<1>5. [i \in DOMAIN components |-> components[i].score * components[i].weight]
          = [k \in 1 .. n |-> x * w[k]]
  BY <1>1, <1>2, <1>4
<1>6. Contributions(components) = Total([k \in 1 .. n |-> x * w[k]])
  BY <1>5 DEF Contributions
<1>7. Total([k \in 1 .. n |-> x * w[k]]) = x * Total(w)
  BY <1>1, <1>4, TotalOfMultiples
<1> QED
  BY <1>6, <1>7 DEF w

\* When the weights make up the whole, the grade is the score everywhere.
LEMMA EvenGrade ==
    ASSUME NEW x \in Int, Unknown \notin Int, NEW g, g.rules \in Seq(ToSet(g.rules)),
           NEW components, Even(components, x),
           Whole(g, components) = Total(Weights(components)),
           Ruled(g, components) # Refused,
           ProjectedGrade(g, Ruled(g, components)) # Unknown
    PROVE  LET grade == ProjectedGrade(g, Ruled(g, components))
           IN  grade.num = x * grade.den
<1>1. Ruled(g, components) = FoldLeft(Replaced, components, Named(g))
  BY Zenon DEF Ruled
<1>2. Named(g) \in Seq(ToSet(g.rules))
  BY ChosenPlaces DEF Named
<1>3. Ruled(g, components) = components
  BY <1>1, <1>2, RulesChangeNothing
<1>4. \A c \in ToSet(components) : c.score # Unknown
  BY <1>3 DEF ProjectedGrade, AllScored
<1>5. ProjectedGrade(g, components) = [num |-> Contributions(components), den |-> Whole(g, components)]
  BY <1>4 DEF ProjectedGrade, AllScored
<1>6. Contributions(components) = x * Total(Weights(components))
  BY <1>4, EvenContributions
<1> QED
  BY <1>3, <1>5, <1>6

-----------------------------------------------------------------------------
(* Dicts by name, and the parts that take the place of categories.         *)

\* No two of the items have the same name.
Distinct(items) ==
    \A i, j \in 1 .. Len(items) : items[i].name = items[j].name => i = j

LEMMA IndexedAll ==
    ASSUME NEW T, NEW items \in Seq(T), Distinct(items)
    PROVE  Indexed(items) = items
<1> DEFINE n == Len(items)
           places == [i \in DOMAIN items |-> i]
           new == {i \in DOMAIN items : items[i].name \notin Names(SubSeq(items, 1, i - 1))}
           Latest(k) == SelectLastInSeq(items, LAMBDA item : item.name = items[places[k]].name)
<1>1. n \in Nat /\ DOMAIN items = 1 .. n
  OBVIOUS
<1>2. places \in Seq(1 .. n) /\ Len(places) = n /\ DOMAIN places = 1 .. n
  <2>1. places \in [1 .. n -> 1 .. n]
    BY <1>1
  <2> HIDE DEF places, n
  <2> QED
    BY <1>1, <2>1, Listed
<1>3. \A k \in 1 .. n : places[k] = k
  BY <1>1
<1>4. ASSUME NEW k \in 1 .. n
      PROVE  k \in new
  <2>1. /\ DOMAIN SubSeq(items, 1, k - 1) = 1 .. (k - 1)
        /\ \A i \in 1 .. (k - 1) : SubSeq(items, 1, k - 1)[i] = items[i]
    BY <1>1
  <2>2. ASSUME NEW i \in 1 .. (k - 1)
        PROVE  items[i].name # items[k].name
    <3>1. i \in 1 .. n /\ i # k
      BY <1>1
    <3> QED
      BY <3>1 DEF Distinct
  <2> QED
    BY <1>1, <2>1, <2>2 DEF Names
<1>5. Chosen(places, new) = places
  <2>1. \A k \in 1 .. Len(places) : places[k] \in new
    BY <1>2, <1>3, <1>4
  <2> HIDE DEF places, new
  <2> QED
    BY <1>2, <2>1, ChosenAll
<1>6. ASSUME NEW k \in 1 .. n
      PROVE  Latest(k) = k
  <2> DEFINE I == {i \in 1 .. Len(items) : items[i].name = items[places[k]].name}
  <2>1. I = {k}
    BY <1>3 DEF Distinct
  <2>2. Latest(k) = IF I # {} THEN Max(I) ELSE 0
    BY Zenon DEF SelectLastInSeq
  <2>3. Max({k}) = k
    BY LargestIndex, <1>1
  <2> HIDE DEF I
  <2> QED
    BY <2>1, <2>2, <2>3
<1>7. Indexed(items) = [k \in DOMAIN places |-> items[Latest(k)]]
  <2> DEFINE By(f) == [k \in DOMAIN f |->
                         items[SelectLastInSeq(items, LAMBDA item : item.name = items[f[k]].name)]]
  <2>1. Indexed(items) = By(Chosen(places, new))
    BY Zenon DEF Indexed
  <2>2. By(Chosen(places, new)) = By(places)
    <3> HIDE DEF By
    <3> QED
      BY <1>5
  <2>3. By(places) = [k \in DOMAIN places |-> items[Latest(k)]]
    BY Zenon
  <2> QED
    BY <2>1, <2>2, <2>3
<1>8. \A k \in DOMAIN places : Latest(k) = k
  BY <1>2, <1>6
<1>9. [k \in DOMAIN places |-> items[Latest(k)]] = [k \in 1 .. n |-> items[k]]
  <2> HIDE DEF Latest
  <2> QED
    BY <1>2, <1>8
<1>10. [k \in 1 .. n |-> items[k]] = items
  BY <1>1
<1> QED
  BY <1>7, <1>9, <1>10

\* As many names as items: no name twice.
LEMMA DistinctByCount ==
    ASSUME NEW T, NEW items \in Seq(T), Cardinality(Names(items)) = Len(items)
    PROVE  Distinct(items)
<1> DEFINE n == Len(items)
           f == [i \in 1 .. n |-> items[i].name]
<1>1. n \in Nat /\ DOMAIN items = 1 .. n
  OBVIOUS
<1>2. Names(items) = {f[i] : i \in 1 .. n}
  BY <1>1 DEF Names
<1>3. IsFiniteSet(1 .. n) /\ Cardinality(1 .. n) = n
  <2> HIDE DEF n
  <2>1. /\ IsFiniteSet(1 .. n)
        /\ Cardinality(1 .. n) = IF 1 > n THEN 0 ELSE n - 1 + 1
    BY <1>1, FS_Interval
  <2> QED
    BY <1>1, <2>1
<1>4. f \in Surjection(1 .. n, Names(items))
  BY <1>2 DEF Surjection
<1>5. IsFiniteSet(Names(items))
  <2> HIDE DEF f
  <2> QED
    BY <1>3, <1>4, FS_Surjection
<1>6. f \in Injection(1 .. n, Names(items))
  <2> HIDE DEF f
  <2> QED
    BY <1>3, <1>4, <1>5, FS_SurjSameCardinalityImpliesInj
<1>7. \A i, j \in 1 .. n : f[i] = f[j] => i = j
  <2> HIDE DEF f
  <2> QED
    BY <1>6 DEF Injection, IsInjective
<1> QED
  BY <1>7 DEF Distinct

\* A selection has distinct names when the items it takes have.
LEMMA ChosenDistinct ==
    ASSUME NEW T, NEW items \in Seq(T), NEW these
    PROVE  Distinct(Chosen(items, these)) <=>
               \A i, j \in 1 .. Len(items) :
                   /\ items[i] \in these /\ items[j] \in these
                   /\ items[i].name = items[j].name
                   => i = j
<1> DEFINE c == Chosen(items, these)
           Apart1 == \A i, j \in 1 .. Len(items) :
                        /\ items[i] \in these /\ items[j] \in these
                        /\ items[i].name = items[j].name
                        => i = j
<1>1. c \in Seq(T)
  BY ChosenPlaces
<1>2. PICK at : Picks(at, c, items, these)
  BY ChosenPlaces
<1>3. Len(c) \in Nat
  BY <1>1
<1> HIDE DEF c
<1>4. \A k \in 1 .. Len(c) : /\ at[k] \in 1 .. Len(items) /\ items[at[k]] \in these
                             /\ c[k] = items[at[k]]
  BY <1>2 DEF Picks
<1>5. ASSUME Apart1, NEW k \in 1 .. Len(c), NEW m \in 1 .. Len(c), c[k].name = c[m].name
      PROVE  k = m
  <2>1. at[k] = at[m]
    BY <1>4, <1>5
  <2>2. at[k] \in Int
    BY <1>4
  <2>3. ~(k < m) /\ ~(m < k)
    BY <1>2, <2>1, <2>2 DEF Picks
  <2> QED
    BY <1>3, <2>3
<1>6. ASSUME Distinct(c), NEW i \in 1 .. Len(items), NEW j \in 1 .. Len(items),
             items[i] \in these, items[j] \in these, items[i].name = items[j].name
      PROVE  i = j
  <2>1. PICK k \in 1 .. Len(c) : at[k] = i
    BY <1>2, <1>6 DEF Picks
  <2>2. PICK m \in 1 .. Len(c) : at[m] = j
    BY <1>2, <1>6 DEF Picks
  <2>3. c[k].name = c[m].name
    BY <1>4, <1>6, <2>1, <2>2
  <2>4. k = m
    BY <1>6, <2>3 DEF Distinct
  <2> QED
    BY <2>1, <2>2, <2>4
<1>7. Apart1 => Distinct(c)
  <2> HIDE DEF Apart1
  <2> QED
    BY <1>5 DEF Distinct
<1>8. Distinct(c) => Apart1
  BY <1>6
<1> QED
  BY <1>7, <1>8 DEF c

LEMMA ConcatDistinct ==
    ASSUME NEW T, NEW a \in Seq(T), NEW b \in Seq(T), Distinct(a), Distinct(b),
           \A i \in 1 .. Len(a), j \in 1 .. Len(b) : a[i].name # b[j].name
    PROVE  Distinct(a \o b)
<1> DEFINE m == Len(a)
           n == Len(b)
           c == a \o b
<1>1. /\ m \in Nat /\ n \in Nat /\ Len(c) = m + n
      /\ \A k \in 1 .. (m + n) : c[k] = IF k <= m THEN a[k] ELSE b[k - m]
  OBVIOUS
<1> HIDE DEF m, n, c
<1>2. ASSUME NEW i \in 1 .. (m + n), NEW j \in 1 .. (m + n), c[i].name = c[j].name
      PROVE  i = j
  <2>1. CASE i <= m /\ j <= m
    <3>1. i \in 1 .. m /\ j \in 1 .. m /\ c[i] = a[i] /\ c[j] = a[j]
      BY <1>1, <2>1
    <3> QED
      BY <1>2, <3>1 DEF Distinct, m
  <2>2. CASE ~(i <= m) /\ ~(j <= m)
    <3>1. i - m \in 1 .. n /\ j - m \in 1 .. n /\ c[i] = b[i - m] /\ c[j] = b[j - m]
      BY <1>1, <2>2
    <3>2. i - m = j - m
      BY <1>2, <3>1 DEF Distinct, n
    <3> QED
      BY <1>1, <3>2
  <2>3. CASE i <= m /\ ~(j <= m)
    <3>1. i \in 1 .. m /\ j - m \in 1 .. n /\ c[i] = a[i] /\ c[j] = b[j - m]
      BY <1>1, <2>3
    <3> QED
      BY <1>2, <3>1 DEF m, n
  <2>4. CASE ~(i <= m) /\ j <= m
    <3>1. j \in 1 .. m /\ i - m \in 1 .. n /\ c[j] = a[j] /\ c[i] = b[i - m]
      BY <1>1, <2>4
    <3> QED
      BY <1>2, <3>1 DEF m, n
  <2> QED
    BY <2>1, <2>2, <2>3, <2>4
<1> QED
  BY <1>1, <1>2 DEF Distinct, c

\* The weights of a selection, when every item of it has one.
Weighing(val, items, these) ==
    \A i \in 1 .. Len(items) : items[i] \in these => items[i].weight = val[items[i]]

\* The weights of what is chosen add up to the weights counted in the list.
LEMMA ChosenWeights ==
    ASSUME NEW T, NEW items \in Seq(T), NEW these, NEW val \in [T -> Int],
           Weighing(val, items, these)
    PROVE  /\ Weights(Chosen(items, these)) \in Seq(Int)
           /\ Total(Weights(Chosen(items, these)))
                  = Total(Counted(items, these, val))
<1>0. PICK c : c = Chosen(items, these)
  OBVIOUS
<1>1. c \in Seq(T) /\ DOMAIN items = 1 .. Len(items)
  BY <1>0, ChosenPlaces
<1>2. PICK at : Picks(at, c, items, these)
  BY <1>0, ChosenPlaces
<1>3. Total(Values(c, val)) = Total(Counted(items, these, val))
  BY <1>0, ChosenTotal
<1>4. Len(c) \in Nat /\ DOMAIN c = 1 .. Len(c)
  BY <1>1
<1>5. \A k \in 1 .. Len(c) : c[k] \in T /\ c[k].weight = val[c[k]]
  <2>1. \A k \in 1 .. Len(c) : /\ at[k] \in 1 .. Len(items) /\ items[at[k]] \in these
                               /\ c[k] = items[at[k]]
    BY <1>2 DEF Picks
  <2>2. \A k \in 1 .. Len(c) : c[k] \in T
    BY <1>1
  <2> QED
    BY <2>1, <2>2 DEF Weighing
<1>6. Weights(c) = Values(c, val)
  BY <1>4, <1>5 DEF Weights, Values
<1>7. Weights(c) \in [1 .. Len(c) -> Int]
  BY <1>4, <1>5, <1>6 DEF Values
<1>8. Weights(c) \in Seq(Int)
  BY <1>4, <1>7, Listed
<1> QED
  BY <1>0, <1>3, <1>6, <1>8

Under(items, names) == {a \in ToSet(items) : a.category \in names}

NamedIn(items, names) == {c \in ToSet(items) : c.name \in names}

\* The parts of the split categories weigh what the categories weigh.
LEMMA TwiceItself ==
    ASSUME NEW t \in Int, t = t + t
    PROVE  t = 0
  OBVIOUS

\* The names are those of items, each worth as much as what is under it.
SplitsInto(split, C, A, valC, valA) ==
    /\ C \in Seq(ToSet(C)) /\ A \in Seq(ToSet(A)) /\ Distinct(C)
    /\ valC \in [ToSet(C) -> Int] /\ valA \in [ToSet(A) -> Int]
    /\ \A s \in split : \E i \in 1 .. Len(C) : C[i].name = s
    /\ \A i \in 1 .. Len(C) : C[i].name \in split =>
           valC[C[i]] = Total(Counted(A, Under(A, {C[i].name}), valA))

\* The parts of all of a split add up to its categories.
LEMMA SplitTotal ==
    ASSUME NEW C, NEW A, NEW valC, NEW valA, NEW split, SplitsInto(split, C, A, valC, valA)
    PROVE  Total(Counted(A, Under(A, split), valA)) = Total(Counted(C, NamedIn(C, split), valC))
<1> DEFINE n == Len(C)
           m == Len(A)
           S(k) == {s \in split : \E i \in 1 .. k : C[i].name = s}
           Part(names) == [j \in 1 .. m |-> IF A[j].category \in names THEN valA[A[j]] ELSE 0]
           h == [i \in 1 .. n |-> IF C[i].name \in split THEN valC[C[i]] ELSE 0]
           f == [k \in 0 .. n |-> Total(Part(S(k)))]
<1>0. /\ C \in Seq(ToSet(C)) /\ A \in Seq(ToSet(A)) /\ Distinct(C)
      /\ valC \in [ToSet(C) -> Int] /\ valA \in [ToSet(A) -> Int]
  BY DEF SplitsInto
<1>1. /\ n \in Nat /\ m \in Nat
      /\ \A i \in 1 .. n : C[i] \in ToSet(C)
      /\ \A j \in 1 .. m : A[j] \in ToSet(A)
  BY <1>0
<1>10. Counted(C, NamedIn(C, split), valC) = h
  BY <1>1 DEF Counted, NamedIn
<1>11. ASSUME NEW names
       PROVE  Counted(A, Under(A, names), valA) = Part(names)
  BY <1>1 DEF Counted, Under
<1>2. ASSUME NEW names
      PROVE  Part(names) \in [1 .. m -> Int] /\ Total(Part(names)) \in Int
  <2>1. Part(names) \in [1 .. m -> Int]
    BY <1>0, <1>1
  <2> HIDE DEF Part, m
  <2>2. Part(names) \in Seq(Int)
    BY <1>1, <2>1, Listed
  <2> QED
    BY <2>1, <2>2, TotalRuns, TotalIs
<1>3. h \in Seq(Int) /\ Len(h) = n
  <2>1. h \in [1 .. n -> Int]
    BY <1>0, <1>1
  <2> HIDE DEF h, n
  <2> QED
    BY <1>1, <2>1, Listed
<1>4. f[0] = 0
  <2>1. S(0) = {}
    OBVIOUS
  <2>2. Part({}) = [j \in 1 .. m |-> 0 * 0]
    OBVIOUS
  <2>3. Total([j \in 1 .. m |-> 0]) = 0
    <3> DEFINE z == [j \in 1 .. m |-> 0]
    <3>1. z \in [1 .. m -> Int] /\ \A j \in 1 .. m : z[j] = 0
      OBVIOUS
    <3>2. [j \in 1 .. m |-> z[j] + z[j]] = z
      OBVIOUS
    <3> HIDE DEF z, m
    <3>3. Total(z) = Total(z) + Total(z)
      <4>1. Total([j \in 1 .. m |-> z[j] + z[j]]) = Total(z) + Total(z)
        BY <1>1, <3>1, TotalOfSums, Zenon
      <4> QED
        BY <3>2, <4>1, Zenon
    <3>4. Total(z) \in Int
      BY <1>1, <3>1, Listed, TotalRuns, TotalIs
    <3>5. Total(z) = 0
      BY <3>3, <3>4, TwiceItself
    <3> QED
      BY <3>5 DEF z
  <2>4. Part({}) = [j \in 1 .. m |-> 0] /\ 0 \in 0 .. n
    BY <1>1
  <2> HIDE DEF Part, S, m, n
  <2> QED
    BY <2>1, <2>3, <2>4
<1>5. ASSUME NEW k \in 1 .. n
      PROVE  f[k] = f[k - 1] + h[k]
  <2>0. k - 1 \in 0 .. n /\ k \in 0 .. n
    BY <1>1
  <2>1. \A i \in 1 .. k : i = k \/ i \in 1 .. (k - 1)
    BY <1>1
  <2>2. k \in 1 .. k /\ \A i \in 1 .. (k - 1) : i \in 1 .. k /\ i \in 1 .. n /\ i # k
    BY <1>1
  <2>3. CASE C[k].name \notin split
    <3>1. S(k) = S(k - 1)
      BY <2>1, <2>2, <2>3
    <3>2. h[k] = 0
      BY <2>3
    <3>3. Total(Part(S(k - 1))) \in Int
      BY <1>2
    <3> HIDE DEF S, Part, h, n, m
    <3> QED
      BY <2>0, <3>1, <3>2, <3>3
  <2>4. CASE C[k].name \in split
    <3>1. S(k) = S(k - 1) \cup {C[k].name}
      BY <2>1, <2>2, <2>4
    <3>2. C[k].name \notin S(k - 1)
      BY <1>0, <2>2 DEF Distinct
    <3> DEFINE p == Part(S(k - 1))
               q == Part({C[k].name})
    <3>3. Part(S(k)) = [j \in 1 .. m |-> p[j] + q[j]]
      <4>1. PICK old, name : old = S(k - 1) /\ name = C[k].name
        OBVIOUS
      <4>2. name \notin old /\ S(k) = old \cup {name}
        BY <3>1, <3>2, <4>1
      <4> HIDE DEF S
      <4>3. Part(old \cup {name}) = [j \in 1 .. m |-> Part(old)[j] + Part({name})[j]]
        <5>1. \A j \in 1 .. m : valA[A[j]] \in Int
          BY <1>0, <1>1
        <5> HIDE DEF m, h, f
        <5>2. ASSUME NEW j \in 1 .. m
              PROVE  Part(old \cup {name})[j] = Part(old)[j] + Part({name})[j]
          BY <4>2, <5>1
        <5> QED
          BY <5>2
      <4> HIDE DEF Part
      <4> QED
        BY <4>1, <4>2, <4>3
    <3>4. p \in [1 .. m -> Int] /\ q \in [1 .. m -> Int]
      BY <1>2
    <3>5. Total(q) = h[k]
      <4>1. h[k] = valC[C[k]]
        BY <2>4
      <4>2. valC[C[k]] = Total(Counted(A, Under(A, {C[k].name}), valA))
        BY <2>4 DEF SplitsInto
      <4>3. Counted(A, Under(A, {C[k].name}), valA) = q
        BY <1>11
      <4> HIDE DEF q, h
      <4> QED
        BY <4>1, <4>2, <4>3
    <3> HIDE DEF S, Part, h, n, m
    <3>6. Total(Part(S(k))) = Total(p) + Total(q)
      <4> HIDE DEF p, q
      <4>1. Total([j \in 1 .. m |-> p[j] + q[j]]) = Total(p) + Total(q)
        BY <1>1, <3>4, TotalOfSums, Zenon
      <4> QED
        BY <3>3, <4>1, Zenon
    <3> QED
      BY <2>0, <3>5, <3>6
  <2> QED
    BY <2>3, <2>4
<1>6. f \in [0 .. n -> Int]
  <2> HIDE DEF Part, S, n, m
  <2> QED
    BY <1>2
<1>7. Total(h) = f[n]
  <2> HIDE DEF f, h
  <2>1. Adding(f, h)
    BY <1>3, <1>4, <1>5, <1>6 DEF Adding
  <2> QED
    BY <1>3, <2>1, TotalIs
<1>8. S(n) = split
  BY DEF SplitsInto
<1>9. f[n] = Total(Part(split))
  <2>1. n \in 0 .. n
    BY <1>1
  <2> HIDE DEF S, Part, n
  <2> QED
    BY <1>8, <2>1
<1>12. Counted(A, Under(A, split), valA) = Part(split)
  BY <1>11
<1> HIDE DEF f, h, Part
<1> QED
  BY <1>7, <1>9, <1>10, <1>12

\* What WeightedComponents makes of the items.
Weighed(items, entries) ==
    [i \in DOMAIN items |-> Component(items[i], items[i].weight, ScoreOf(entries, items[i].name))]

LEMMA WeighedEven ==
    ASSUME NEW T, NEW items \in Seq(T), Weights(items) \in Seq(Int), NEW x, NEW entries,
           \A n \in DOMAIN entries : entries[n].score = x
    PROVE  Even(Weighed(items, entries), x) /\ Weights(Weighed(items, entries)) = Weights(items)
<1> DEFINE n == Len(items)
           c == Weighed(items, entries)
<1>1. n \in Nat /\ DOMAIN items = 1 .. n
  OBVIOUS
<1>2. \A i \in 1 .. n : items[i].weight \in Int
  <2>1. DOMAIN Weights(items) = 1 .. n /\ \A i \in 1 .. n : Weights(items)[i] = items[i].weight
    BY <1>1 DEF Weights
  <2> QED
    BY <2>1
<1>3. \A name : ScoreOf(entries, name).score \in {x, Unknown}
  BY DEF ScoreOf, Unscored
<1>4. /\ DOMAIN c = 1 .. n
      /\ \A i \in 1 .. n : /\ c[i].weight = items[i].weight
                           /\ c[i].score = ScoreOf(entries, items[i].name).score
  BY <1>1 DEF Weighed, Component
<1>5. c \in [1 .. n -> ToSet(c)]
  BY <1>1 DEF Weighed, ToSet
<1> HIDE DEF c, n
<1>6. c \in Seq(ToSet(c)) /\ Len(c) = n
  BY <1>1, <1>5, Listed
<1>7. Even(c, x)
  BY <1>2, <1>3, <1>4, <1>6 DEF Even
<1>8. Weights(c) = Weights(items)
  BY <1>1, <1>4 DEF Weights
<1> QED
  BY <1>7, <1>8 DEF c

LEMMA Concatenated ==
    ASSUME NEW T, NEW a \in Seq(T), NEW b \in Seq(T)
    PROVE  /\ a \o b \in Seq(T) /\ Len(a \o b) = Len(a) + Len(b)
           /\ \A k \in 1 .. (Len(a) + Len(b)) :
                 (a \o b)[k] = IF k <= Len(a) THEN a[k] ELSE b[k - Len(a)]
  OBVIOUS

LEMMA WeightsOfConcat ==
    ASSUME NEW T, NEW a \in Seq(T), NEW b \in Seq(T),
           Weights(a) \in Seq(Int), Weights(b) \in Seq(Int)
    PROVE  /\ Weights(a \o b) \in Seq(Int)
           /\ Total(Weights(a \o b)) = Total(Weights(a)) + Total(Weights(b))
<1> DEFINE m == Len(a)
           n == Len(b)
<1>1. /\ m \in Nat /\ n \in Nat /\ DOMAIN a = 1 .. m /\ DOMAIN b = 1 .. n
      /\ DOMAIN (a \o b) = 1 .. (m + n)
      /\ \A k \in 1 .. (m + n) : (a \o b)[k] = IF k <= m THEN a[k] ELSE b[k - m]
  OBVIOUS
<1>2. PICK u, v, w : u = Weights(a) /\ v = Weights(b) /\ w = Weights(a \o b)
  OBVIOUS
<1> HIDE DEF m, n
<1>3. \A k \in 1 .. (m + n) : \/ k <= m /\ k \in 1 .. m
                              \/ ~(k <= m) /\ k - m \in 1 .. n
  BY <1>1
<1>4. /\ DOMAIN u = 1 .. m /\ \A k \in 1 .. m : u[k] = a[k].weight
      /\ DOMAIN v = 1 .. n /\ \A k \in 1 .. n : v[k] = b[k].weight
      /\ w = [k \in 1 .. (m + n) |-> w[k]]
      /\ \A k \in 1 .. (m + n) : w[k] = (a \o b)[k].weight
  BY <1>1, <1>2 DEF Weights
<1>5. u \in Seq(Int) /\ Len(u) = m /\ v \in Seq(Int) /\ Len(v) = n
  <2>1. u \in Seq(Int) /\ v \in Seq(Int)
    BY <1>2
  <2>2. Len(u) \in Nat /\ DOMAIN u = 1 .. Len(u) /\ Len(v) \in Nat /\ DOMAIN v = 1 .. Len(v)
    BY <2>1
  <2> QED
    BY <1>1, <1>4, <2>1, <2>2
<1>6. /\ u \o v \in Seq(Int) /\ Len(u \o v) = m + n
      /\ \A k \in 1 .. (m + n) : (u \o v)[k] = IF k <= m THEN u[k] ELSE v[k - m]
  BY <1>5, Concatenated
<1>7. \A k \in 1 .. (m + n) : w[k] = (u \o v)[k]
  BY <1>1, <1>3, <1>4, <1>6
<1>8. /\ w \in [1 .. (m + n) -> Int]
  <2>1. \A k \in 1 .. (m + n) : (u \o v)[k] \in Int
    BY <1>6
  <2> QED
    BY <1>4, <1>7, <2>1
<1>9. w \in Seq(Int) /\ Len(w) = m + n
  BY <1>1, <1>8, Listed
<1>10. w = u \o v
  BY <1>6, <1>7, <1>9, SeqEqual
<1>11. Total(u \o v) = Total(u) + Total(v)
  BY <1>5, TotalOfConcat
<1> QED
  BY <1>2, <1>9, <1>10, <1>11

LEMMA ConcatEven ==
    ASSUME NEW x, NEW a, NEW b, Even(a, x), Even(b, x)
    PROVE  /\ Even(a \o b, x)
           /\ Total(Weights(a \o b)) = Total(Weights(a)) + Total(Weights(b))
<1> DEFINE m == Len(a)
           n == Len(b)
           c == a \o b
<1>1. a \in Seq(ToSet(a)) /\ b \in Seq(ToSet(b))
  BY DEF Even
<1>2. m \in Nat /\ n \in Nat /\ DOMAIN a = 1 .. m /\ DOMAIN b = 1 .. n
  BY <1>1
<1>3. /\ Len(c) = m + n /\ DOMAIN c = 1 .. (m + n)
      /\ \A k \in 1 .. (m + n) : c[k] = IF k <= m THEN a[k] ELSE b[k - m]
  BY <1>1
<1>4. c \in Seq(ToSet(a) \cup ToSet(b))
  <2>1. a \in Seq(ToSet(a) \cup ToSet(b)) /\ b \in Seq(ToSet(a) \cup ToSet(b))
    BY <1>1
  <2> QED
    BY <2>1
<1>5. /\ \A k \in 1 .. m : a[k].weight \in Int /\ a[k].score \in {x, Unknown}
      /\ \A k \in 1 .. n : b[k].weight \in Int /\ b[k].score \in {x, Unknown}
  BY DEF Even
<1> HIDE DEF m, n, c
<1>6. \A k \in 1 .. (m + n) : \/ k <= m /\ k \in 1 .. m
                              \/ ~(k <= m) /\ k - m \in 1 .. n
  BY <1>2
<1>7. \A k \in 1 .. (m + n) : c[k].weight \in Int /\ c[k].score \in {x, Unknown}
  BY <1>3, <1>5, <1>6
<1>8. c \in Seq(ToSet(c))
  <2>1. c = [k \in 1 .. (m + n) |-> c[k]]
    BY <1>3, <1>4
  <2>2. \A k \in 1 .. (m + n) : c[k] \in ToSet(c)
    BY <1>3 DEF ToSet
  <2>3. c \in [1 .. (m + n) -> ToSet(c)]
    BY <2>1, <2>2
  <2> QED
    BY <1>2, <2>3, Listed
<1>9. Even(c, x)
  BY <1>3, <1>7, <1>8 DEF Even
<1>10. /\ Weights(a) \in [1 .. m -> Int] /\ Weights(b) \in [1 .. n -> Int]
  BY <1>2, <1>5 DEF Weights
<1>11. Weights(a) \in Seq(Int) /\ Weights(b) \in Seq(Int)
  BY <1>2, <1>10, Listed
<1>12. Total(Weights(a \o b)) = Total(Weights(a)) + Total(Weights(b))
  <2>1. a \in Seq(ToSet(a) \cup ToSet(b)) /\ b \in Seq(ToSet(a) \cup ToSet(b))
    BY <1>1
  <2> QED
    BY <1>11, <2>1, WeightsOfConcat
<1> QED
  BY <1>9, <1>12 DEF c

-----------------------------------------------------------------------------
(* The weights of an accepted model.                                       *)

\* What reconciliation and validation leave of a model.
Weighable(g) ==
    /\ g.categories \in Seq(ToSet(g.categories))
    /\ g.assessments \in Seq(ToSet(g.assessments))
    /\ g.rules \in Seq(ToSet(g.rules))
    /\ \A c \in ToSet(g.categories) : c.weight \in Int \cup {Unknown} /\ c.name # Unknown
    /\ \A a \in ToSet(g.assessments) : {a.weight, a.points} \subseteq Int \cup {Unknown}
    /\ Distinct(g.categories)
    /\ (WeightedCategories(g) = <<>> /\ Standalone(g) = <<>>) \/ TotalWeight(g) = 100

\* The categories of a split stand for their parts, under names of their own.
LEMMA SplitParts ==
    ASSUME NEW g, Weighable(g), NEW sheet, NEW s \in Split(g, sheet)
    PROVE  \E c \in ToSet(g.categories) : c.name = s /\ Decomposable(g, c)
  BY DEF Split

LEMMA PartsDistinct ==
    ASSUME NEW g, Weighable(g), NamesakesApart(g), NEW sheet
    PROVE  Distinct(Standalone(g) \o Within(g, Split(g, sheet)))
<1> DEFINE A == g.assessments
           split == Split(g, sheet)
           single == {a \in ToSet(A) : a.weight # Unknown /\ a.category = Unknown}
<1>1. A \in Seq(ToSet(A)) /\ Len(A) \in Nat /\ \A i \in 1 .. Len(A) : A[i] \in ToSet(A)
  BY DEF Weighable
<1>2. \A s \in split : s # Unknown /\ \E c \in ToSet(g.categories) : c.name = s /\ Decomposable(g, c)
  BY SplitParts DEF Weighable
<1> HIDE DEF split
<1>3. Standalone(g) = Chosen(A, single) /\ Within(g, split) = Chosen(A, Under(A, split))
  BY DEF Standalone, Within, Under
<1>4. ASSUME NEW s \in split, NEW i \in 1 .. Len(A), NEW j \in 1 .. Len(A),
             A[i].category = s, A[i].name = A[j].name
      PROVE  i = j
  <2>1. PICK c \in ToSet(g.categories) : c.name = s /\ Decomposable(g, c)
    BY <1>2
  <2>2. Children(g, c) = Chosen(A, Under(A, {s}))
    BY <2>1 DEF Children, Within, Under
  <2>3. Children(g, c) \in Seq(ToSet(A))
    BY <1>1, <2>2, ChosenPlaces
  <2>4. Distinct(Children(g, c))
    BY <2>1, <2>3, DistinctByCount DEF Decomposable
  <2>5. A[i] \in Under(A, {s})
    BY <1>1, <1>4 DEF Under
  <2>6. CASE A[j].category = s
    <3>1. A[j] \in Under(A, {s})
      BY <1>1, <2>6 DEF Under
    <3> QED
      BY <1>1, <1>4, <2>2, <2>4, <2>5, <3>1, ChosenDistinct
  <2>7. CASE A[j].category # s
    <3> DEFINE others == {a \in ToSet(g.assessments) : a.category # c.name}
    <3>1. A[j] \in others
      BY <1>1, <2>1, <2>7
    <3>2. A[i].name \in Names(Children(g, c))
      <4>1. PICK at : Picks(at, Children(g, c), A, Under(A, {s}))
        BY <1>1, <2>2, ChosenPlaces
      <4>2. PICK k \in 1 .. Len(Children(g, c)) : at[k] = i
        BY <2>5, <4>1 DEF Picks
      <4>3. Children(g, c)[k] = A[i] /\ k \in DOMAIN Children(g, c)
        BY <2>3, <4>1, <4>2 DEF Picks
      <4> QED
        BY <4>3 DEF Names
    <3>3. Names(Children(g, c)) \cap {a.name : a \in others} = {}
      BY <2>1 DEF Decomposable
    <3>4. A[j].name \in {a.name : a \in others}
      BY <3>1
    <3> QED
      BY <1>4, <3>2, <3>3, <3>4
  <2> QED
    BY <2>6, <2>7
<1>5. Distinct(Standalone(g))
  <2>1. Standalone(g) \in Seq(ToSet(A))
    BY <1>1, <1>3, ChosenPlaces
  <2> QED
    BY <2>1, DistinctByCount DEF NamesakesApart
<1>6. Distinct(Within(g, split))
  <2>1. \A i, j \in 1 .. Len(A) :
            A[i] \in Under(A, split) /\ A[j] \in Under(A, split) /\ A[i].name = A[j].name => i = j
    BY <1>4 DEF Under
  <2> QED
    BY <1>1, <1>3, <2>1, ChosenDistinct
<1>7. PICK a, b : a = Standalone(g) /\ b = Within(g, split)
  OBVIOUS
<1>8. a \in Seq(ToSet(A)) /\ b \in Seq(ToSet(A))
  BY <1>1, <1>3, <1>7, ChosenPlaces
<1>9. ASSUME NEW i \in 1 .. Len(a), NEW j \in 1 .. Len(b)
      PROVE  a[i].name # b[j].name
  <2>1. PICK at : Picks(at, a, A, single)
    BY <1>1, <1>3, <1>7, ChosenPlaces
  <2>2. PICK bt : Picks(bt, b, A, Under(A, split))
    BY <1>1, <1>3, <1>7, ChosenPlaces
  <2>3. at[i] \in 1 .. Len(A) /\ A[at[i]] \in single /\ a[i] = A[at[i]]
    BY <2>1 DEF Picks
  <2>4. bt[j] \in 1 .. Len(A) /\ A[bt[j]] \in Under(A, split) /\ b[j] = A[bt[j]]
    BY <2>2 DEF Picks
  <2>5. A[bt[j]].category \in split /\ A[at[i]].category = Unknown
    BY <2>3, <2>4 DEF Under
  <2>6. at[i] # bt[j]
    BY <1>2, <2>5
  <2> QED
    BY <1>4, <2>3, <2>4, <2>5, <2>6
<1>10. Distinct(a \o b)
  BY <1>5, <1>6, <1>7, <1>8, <1>9, ConcatDistinct
<1> QED
  BY <1>7, <1>10 DEF split

\* The weights of a model as numbers.
Heavy(items) == {c \in ToSet(items) : c.weight # Unknown}

Mass(items) == [c \in ToSet(items) |-> IF c.weight \in Int THEN c.weight ELSE 0]

LEMMA ChosenMembers ==
    ASSUME NEW T, NEW items \in Seq(T), NEW these
    PROVE  ToSet(Chosen(items, these)) = ToSet(items) \cap these
<1>1. PICK c : c = Chosen(items, these)
  OBVIOUS
<1>2. c \in Seq(T) /\ DOMAIN c = 1 .. Len(c) /\ DOMAIN items = 1 .. Len(items)
  BY <1>1, ChosenPlaces
<1>3. PICK at : Picks(at, c, items, these)
  BY <1>1, ChosenPlaces
<1>4. \A k \in 1 .. Len(c) : /\ at[k] \in 1 .. Len(items) /\ items[at[k]] \in these
                             /\ c[k] = items[at[k]]
  BY <1>3 DEF Picks
<1>5. \A i \in 1 .. Len(items) : items[i] \in these => \E k \in 1 .. Len(c) : at[k] = i
  BY <1>3 DEF Picks
<1> QED
  BY <1>1, <1>2, <1>4, <1>5 DEF ToSet

\* The assessments of a category that is split all have a weight.
LEMMA PartsHaveWeights ==
    ASSUME NEW g, Weighable(g), NEW c, Decomposable(g, c)
    PROVE  /\ Children(g, c) = Chosen(g.assessments, Under(g.assessments, {c.name}))
           /\ \A a \in ToSet(g.assessments) : a.category = c.name => a.weight # Unknown
<1>1. PICK A : A = g.assessments
  OBVIOUS
<1>2. A \in Seq(ToSet(A))
  BY <1>1 DEF Weighable
<1>3. Children(g, c) = Chosen(A, Under(A, {c.name}))
  BY <1>1 DEF Children, Within, Under
<1>4. ToSet(Children(g, c)) = ToSet(A) \cap Under(A, {c.name})
  BY <1>2, <1>3, ChosenMembers
<1>5. \A a \in ToSet(Children(g, c)) : a.weight # Unknown
  <2>1. Unknown \notin ToSet(Weights(Children(g, c)))
    BY DEF Decomposable, SumsUp
  <2> QED
    BY <2>1 DEF Weights, ToSet
<1>6. \A a \in ToSet(A) : a.category = c.name => a \in Under(A, {c.name})
  BY DEF Under
<1> QED
  BY <1>1, <1>3, <1>4, <1>5, <1>6

\* A model whose parts take the place of the split categories weighs the same.
LEMMA WeightKept ==
    ASSUME Unknown \notin Int, NEW g, Weighable(g), NEW sheet
    PROVE  LET split == Split(g, sheet)
               whole == Chosen(WeightedCategories(g), {c \in ToSet(g.categories) : c.name \notin split})
           IN  /\ Weights(whole) \in Seq(Int)
               /\ Weights(Standalone(g)) \in Seq(Int)
               /\ Weights(Within(g, split)) \in Seq(Int)
               /\ Total(Weights(whole)) + Total(Weights(Within(g, split)))
                      = Total(Weights(WeightedCategories(g)))
<1>0. PICK C, A, split, W : /\ C = g.categories /\ A = g.assessments
                            /\ split = Split(g, sheet) /\ W = WeightedCategories(g)
  OBVIOUS
<1> DEFINE rest == {c \in ToSet(C) : c.name \notin split}
           valC == Mass(C)
           valA == Mass(A)
           valR == [c \in ToSet(C) |-> IF c.name \notin split THEN valC[c] ELSE 0]
<1>1. /\ C \in Seq(ToSet(C)) /\ Len(C) \in Nat /\ \A i \in 1 .. Len(C) : C[i] \in ToSet(C)
      /\ A \in Seq(ToSet(A)) /\ Len(A) \in Nat /\ \A i \in 1 .. Len(A) : A[i] \in ToSet(A)
  BY <1>0 DEF Weighable
<1>15. C \in Seq(ToSet(C)) /\ A \in Seq(ToSet(A))
  BY <1>1
<1>2. /\ valC \in [ToSet(C) -> Int] /\ valA \in [ToSet(A) -> Int] /\ valR \in [ToSet(C) -> Int]
      /\ \A c \in ToSet(C) : valC[c] = IF c.weight = Unknown THEN 0 ELSE c.weight
      /\ \A a \in ToSet(A) : a.weight # Unknown => a.weight \in Int /\ valA[a] = a.weight
      /\ \A c \in ToSet(C) : valR[c] = IF c.name \notin split THEN valC[c] ELSE 0
  <2>1. \A c \in ToSet(C) : c.weight \in Int \cup {Unknown}
    BY <1>0 DEF Weighable
  <2>2. \A a \in ToSet(A) : a.weight \in Int \cup {Unknown}
    BY <1>0 DEF Weighable
  <2>3. valC \in [ToSet(C) -> Int] /\ valA \in [ToSet(A) -> Int]
    BY DEF Mass
  <2>4. valR \in [ToSet(C) -> Int]
    BY <2>3
  <2> QED
    BY <2>1, <2>2, <2>3, <2>4 DEF Mass
<1>3. \A s \in split : \E c \in ToSet(C) : c.name = s /\ Decomposable(g, c)
  BY <1>0, SplitParts
<1> HIDE DEF valC, valA, valR
<1>16. valC \in [ToSet(C) -> Int] /\ valA \in [ToSet(A) -> Int] /\ valR \in [ToSet(C) -> Int]
  BY <1>2
<1>4. W = Chosen(C, Heavy(C)) /\ W \in Seq(ToSet(C))
  <2>1. W = Chosen(C, Heavy(C))
    BY <1>0 DEF WeightedCategories, Heavy
  <2> QED
    BY <1>1, <2>1, ChosenPlaces
<1>5. \A k \in 1 .. Len(W) : W[k] \in ToSet(C) /\ W[k].weight # Unknown
  <2>1. PICK at : Picks(at, W, C, Heavy(C))
    BY <1>1, <1>4, ChosenPlaces
  <2>2. \A k \in 1 .. Len(W) : /\ at[k] \in 1 .. Len(C) /\ C[at[k]] \in Heavy(C)
                               /\ W[k] = C[at[k]]
    BY <2>1 DEF Picks
  <2> QED
    BY <2>2 DEF Heavy
<1>6. Weights(W) \in Seq(Int) /\ Total(Weights(W)) = Total(Counted(C, Heavy(C), valC))
  <2>1. \A i \in 1 .. Len(C) : C[i] \in Heavy(C) => C[i].weight = valC[C[i]]
    BY <1>1, <1>2 DEF Heavy
  <2>2. Weighing(valC, C, Heavy(C))
    BY <2>1 DEF Weighing
  <2> QED
    BY <1>4, <1>15, <1>16, <2>2, ChosenWeights
\* The categories that are scored as a whole.
<1>7. /\ Weights(Chosen(W, rest)) \in Seq(Int)
      /\ Total(Weights(Chosen(W, rest))) = Total(Counted(W, rest, valC))
  <2>1. \A k \in 1 .. Len(W) : W[k] \in rest => W[k].weight = valC[W[k]]
    BY <1>2, <1>5
  <2>2. W \in Seq(ToSet(C))
    BY <1>4
  <2> HIDE DEF rest
  <2>3. Weighing(valC, W, rest)
    BY <2>1 DEF Weighing
  <2> QED
    BY <1>16, <2>3, <2>2, ChosenWeights
<1>8. Counted(W, rest, valC) = Values(W, valR)
  <2>1. DOMAIN W = 1 .. Len(W)
    BY <1>4
  <2>2. \A k \in 1 .. Len(W) : (IF W[k] \in rest THEN valC[W[k]] ELSE 0) = valR[W[k]]
    BY <1>2, <1>5
  <2> QED
    BY <2>1, <2>2 DEF Counted, Values
<1>9. Total(Values(W, valR)) = Total(Counted(C, Heavy(C), valR))
  BY <1>4, <1>15, <1>16, ChosenTotal
\* The parts of the others.
<1>10. /\ Weights(Within(g, split)) \in Seq(Int)
       /\ Total(Weights(Within(g, split))) = Total(Counted(A, Under(A, split), valA))
  <2>1. Within(g, split) = Chosen(A, Under(A, split))
    BY <1>0 DEF Within, Under
  <2>2. ASSUME NEW i \in 1 .. Len(A), A[i] \in Under(A, split)
        PROVE  A[i].weight = valA[A[i]]
    <3>1. A[i].category \in split
      BY <2>2 DEF Under
    <3>2. PICK c \in ToSet(C) : c.name = A[i].category /\ Decomposable(g, c)
      BY <1>3, <3>1
    <3>3. A[i].weight # Unknown
      BY <1>0, <1>1, <3>2, PartsHaveWeights
    <3> QED
      BY <1>1, <1>2, <3>3
  <2>3. Weighing(valA, A, Under(A, split))
    BY <2>2 DEF Weighing
  <2> QED
    BY <1>15, <1>16, <2>1, <2>3, ChosenWeights
<1>11. Total(Counted(A, Under(A, split), valA)) = Total(Counted(C, NamedIn(C, split), valC))
  <2>1. ASSUME NEW i \in 1 .. Len(C), C[i].name \in split
        PROVE  valC[C[i]] = Total(Counted(A, Under(A, {C[i].name}), valA))
    <3>1. PICK c \in ToSet(C) : c.name = C[i].name /\ Decomposable(g, c)
      BY <1>3, <2>1
    <3>2. c = C[i]
      <4>1. PICK j \in DOMAIN C : c = C[j]
        BY DEF ToSet
      <4>2. j \in 1 .. Len(C)
        BY <1>1, <4>1
      <4>3. Distinct(C)
        BY <1>0 DEF Weighable
      <4> QED
        BY <3>1, <4>1, <4>2, <4>3 DEF Distinct
    <3>3. /\ c.weight # Unknown /\ Unknown \notin ToSet(Weights(Children(g, c)))
          /\ Total(Weights(Children(g, c))) = c.weight
      BY <3>1 DEF Decomposable, SumsUp
    <3>4. Children(g, c) = Chosen(A, Under(A, {c.name}))
      BY <1>0, <3>1, PartsHaveWeights
    <3>5. ASSUME NEW j \in 1 .. Len(A), A[j] \in Under(A, {c.name})
          PROVE  A[j].weight = valA[A[j]]
      <4>1. A[j].weight # Unknown
        BY <1>0, <1>1, <3>1, <3>5, PartsHaveWeights DEF Under
      <4> QED
        BY <1>1, <1>2, <4>1
    <3>6. Total(Weights(Children(g, c))) = Total(Counted(A, Under(A, {c.name}), valA))
      <4>1. Weighing(valA, A, Under(A, {c.name}))
        BY <3>5 DEF Weighing
      <4> QED
        BY <1>15, <1>16, <3>4, <4>1, ChosenWeights
    <3> QED
      BY <1>2, <3>2, <3>3, <3>6
  <2>2. \A s \in split : \E i \in 1 .. Len(C) : C[i].name = s
    <3>1. ASSUME NEW s \in split
          PROVE  \E i \in 1 .. Len(C) : C[i].name = s
      <4>1. PICK c \in ToSet(C) : c.name = s
        BY <1>3
      <4>2. PICK j \in DOMAIN C : c = C[j]
        BY DEF ToSet
      <4> QED
        BY <1>1, <4>1, <4>2
    <3> HIDE DEF rest
    <3> QED
      BY <3>1
  <2>3. Distinct(C)
    BY <1>0 DEF Weighable
  <2>4. SplitsInto(split, C, A, valC, valA)
    BY <1>15, <1>16, <2>1, <2>2, <2>3 DEF SplitsInto
  <2> QED
    BY <2>4, SplitTotal
\* Together they are all categories that have a weight.
<1>12. Total(Counted(C, Heavy(C), valR)) + Total(Counted(C, NamedIn(C, split), valC))
           = Total(Counted(C, Heavy(C), valC))
  <2> DEFINE n == Len(C)
             a == Counted(C, Heavy(C), valR)
             b == Counted(C, NamedIn(C, split), valC)
  <2>1. /\ \A i \in 1 .. n : valC[C[i]] \in Int /\ valR[C[i]] \in Int
        /\ \A i \in 1 .. n : C[i] \notin Heavy(C) => valC[C[i]] = 0
        /\ \A i \in 1 .. n : valR[C[i]] = IF C[i] \in NamedIn(C, split) THEN 0 ELSE valC[C[i]]
    BY <1>1, <1>2 DEF Heavy, NamedIn
  <2>2. a \in [1 .. n -> Int] /\ b \in [1 .. n -> Int]
    BY <2>1 DEF Counted
  <2>3. [i \in 1 .. n |-> a[i] + b[i]] = Counted(C, Heavy(C), valC)
    <3>1. ASSUME NEW i \in 1 .. n
          PROVE  a[i] + b[i] = Counted(C, Heavy(C), valC)[i]
      <4>1. /\ a[i] = IF C[i] \in Heavy(C) THEN valR[C[i]] ELSE 0
            /\ b[i] = IF C[i] \in NamedIn(C, split) THEN valC[C[i]] ELSE 0
            /\ Counted(C, Heavy(C), valC)[i] = IF C[i] \in Heavy(C) THEN valC[C[i]] ELSE 0
        BY DEF Counted
      <4> HIDE DEF a, b
      <4> QED
        BY <2>1, <4>1
    <3>2. Counted(C, Heavy(C), valC) = [i \in 1 .. n |-> Counted(C, Heavy(C), valC)[i]]
      BY DEF Counted
    <3> HIDE DEF a, b
    <3> QED
      BY <3>1, <3>2
  <2> HIDE DEF a, b, n
  <2>4. Total([i \in 1 .. n |-> a[i] + b[i]]) = Total(a) + Total(b)
    <3>1. n \in Nat
      BY <1>1 DEF n
    <3> QED
      BY <2>2, <3>1, TotalOfSums, Zenon
  <2> QED
    BY <2>3, <2>4 DEF a, b
<1>13. Weights(Standalone(g)) \in Seq(Int)
  <2> DEFINE single == {a \in ToSet(A) : a.weight # Unknown /\ a.category = Unknown}
  <2>1. Standalone(g) = Chosen(A, single)
    BY <1>0 DEF Standalone
  <2>2. \A i \in 1 .. Len(A) : A[i] \in single => A[i].weight = valA[A[i]]
    BY <1>1, <1>2
  <2> HIDE DEF single
  <2>3. Weighing(valA, A, single)
    BY <2>2 DEF Weighing
  <2> QED
    BY <1>15, <1>16, <2>1, <2>3, ChosenWeights
<1> HIDE DEF rest
<1>14. Total(Weights(Chosen(W, rest))) + Total(Weights(Within(g, split))) = Total(Weights(W))
  BY <1>6, <1>7, <1>8, <1>9, <1>10, <1>11, <1>12
<1> QED
  BY <1>0, <1>7, <1>10, <1>13, <1>14 DEF rest

\* Everything that is entered is the score x.
EvenSheet(sheet, x) ==
    /\ \A n \in DOMAIN sheet.categories : sheet.categories[n].score = x
    /\ \A n \in DOMAIN sheet.assessments :
          /\ sheet.assessments[n].score = x
          /\ sheet.assessments[n].possible \in Int \cup {Unknown}

LEMMA NoneChosen ==
    ASSUME NEW T, NEW items \in Seq(T), NEW these, ToSet(items) \cap these = {}
    PROVE  Chosen(items, these) = <<>>
<1>1. PICK c : c = Chosen(items, these)
  OBVIOUS
<1>2. c \in Seq(T) /\ ToSet(c) = {}
  BY <1>1, ChosenPlaces, ChosenMembers
<1>3. c = <<>>
  <2>1. Len(c) \in Nat /\ DOMAIN c = 1 .. Len(c) /\ \A k \in 1 .. Len(c) : c[k] \in ToSet(c)
    BY <1>2 DEF ToSet
  <2>2. Len(c) = 0
    BY <1>2, <2>1
  <2> QED
    BY <1>2, <2>2
<1> QED
  BY <1>1, <1>3

\* What is scored as a whole, and one assessment at a time.
ByCategory(g, split) ==
    Chosen(WeightedCategories(g), {c \in ToSet(g.categories) : c.name \notin split})

ByPart(g, split) == Standalone(g) \o Within(g, split)

\* The scores for assessments that the engine takes.
Scorable(g, split, entries) ==
    /\ DOMAIN entries \subseteq Names(ByPart(g, split))
    /\ \A n \in DOMAIN entries : entries[n].possible = Unknown

\* The components of a weighted model.
LEMMA WeightedAre ==
    ASSUME NEW g, Weighable(g), NamesakesApart(g), NEW sheet, NEW split, split = Split(g, sheet)
    PROVE  /\ ByCategory(g, split) \in Seq(ToSet(g.categories)) /\ Distinct(ByCategory(g, split))
           /\ ByPart(g, split) \in Seq(ToSet(g.assessments)) /\ Distinct(ByPart(g, split))
           /\ WeightedComponents(g, sheet) =
                IF Scorable(g, split, sheet.assessments)
                  THEN Weighed(ByCategory(g, split), sheet.categories) \o
                       Weighed(ByPart(g, split), sheet.assessments)
                  ELSE Refused
<1> DEFINE C == g.categories
           A == g.assessments
           W == WeightedCategories(g)
           P == Standalone(g)
           Q == Within(g, split)
           rest == {c \in ToSet(C) : c.name \notin split}
           single == {a \in ToSet(A) : a.weight # Unknown /\ a.category = Unknown}
<1>1. C \in Seq(ToSet(C)) /\ A \in Seq(ToSet(A)) /\ Distinct(C)
  BY DEF Weighable
<1>2. W = Chosen(C, Heavy(C)) /\ P = Chosen(A, single) /\ Q = Chosen(A, Under(A, split))
  BY DEF WeightedCategories, Standalone, Within, Heavy, Under
<1>3. Distinct(P \o Q)
  BY PartsDistinct
<1>4. WeightedComponents(g, sheet) =
          IF /\ DOMAIN sheet.assessments \subseteq Names(Indexed(P \o Q))
             /\ \A n \in DOMAIN sheet.assessments : sheet.assessments[n].possible = Unknown
            THEN Weighed(Chosen(Indexed(W), rest), sheet.categories) \o
                 Weighed(Indexed(P \o Q), sheet.assessments)
            ELSE Refused
  BY Zenon DEF WeightedComponents, Weighed
<1>5. ByCategory(g, split) = Chosen(W, rest) /\ ByPart(g, split) = P \o Q
  BY DEF ByCategory, ByPart
<1> HIDE DEF C, A, W, P, Q, rest, single
<1>6. W \in Seq(ToSet(C)) /\ P \in Seq(ToSet(A)) /\ Q \in Seq(ToSet(A))
  BY <1>1, <1>2, ChosenPlaces
<1>7. Distinct(W)
  <2>1. \A i, j \in 1 .. Len(C) : C[i] \in Heavy(C) /\ C[j] \in Heavy(C) /\ C[i].name = C[j].name => i = j
    BY <1>1 DEF Distinct
  <2> QED
    BY <1>1, <1>2, <2>1, ChosenDistinct
<1>8. Indexed(W) = W
  BY <1>6, <1>7, IndexedAll
<1>9. Chosen(W, rest) \in Seq(ToSet(C)) /\ Distinct(Chosen(W, rest))
  <2>1. \A i, j \in 1 .. Len(W) : W[i] \in rest /\ W[j] \in rest /\ W[i].name = W[j].name => i = j
    BY <1>7 DEF Distinct
  <2> QED
    BY <1>6, <2>1, ChosenPlaces, ChosenDistinct
<1>10. P \o Q \in Seq(ToSet(A))
  BY <1>6, Concatenated
<1>11. Indexed(P \o Q) = P \o Q
  BY <1>3, <1>10, IndexedAll
<1>12. WeightedComponents(g, sheet) =
          IF /\ DOMAIN sheet.assessments \subseteq Names(P \o Q)
             /\ \A n \in DOMAIN sheet.assessments : sheet.assessments[n].possible = Unknown
            THEN Weighed(Chosen(W, rest), sheet.categories) \o Weighed(P \o Q, sheet.assessments)
            ELSE Refused
  BY <1>4, <1>8, <1>11
<1>13. WeightedComponents(g, sheet) =
          IF Scorable(g, split, sheet.assessments)
            THEN Weighed(ByCategory(g, split), sheet.categories) \o
                 Weighed(ByPart(g, split), sheet.assessments)
            ELSE Refused
  BY <1>5, <1>12 DEF Scorable
<1> QED
  BY <1>3, <1>5, <1>9, <1>10, <1>13 DEF C, A

\* A model weighs 100 however its categories are scored.
LEMMA WeightedEven ==
    ASSUME Unknown \notin Int, NEW g, Weighable(g), NamesakesApart(g), NEW x,
           NEW sheet, EvenSheet(sheet, x),
           WeightedComponents(g, sheet) \notin {Refused, <<>>}
    PROVE  /\ Even(WeightedComponents(g, sheet), x)
           /\ Total(Weights(WeightedComponents(g, sheet))) = 100
<1> DEFINE C == g.categories
           A == g.assessments
           split == Split(g, sheet)
           W == WeightedCategories(g)
           P == Standalone(g)
           Q == Within(g, split)
           rest == {c \in ToSet(C) : c.name \notin split}
           whole == Chosen(W, rest)
           single == {a \in ToSet(A) : a.weight # Unknown /\ a.category = Unknown}
<1>1. C \in Seq(ToSet(C)) /\ A \in Seq(ToSet(A)) /\ Distinct(C)
  BY DEF Weighable
<1>2. W = Chosen(C, Heavy(C)) /\ P = Chosen(A, single) /\ Q = Chosen(A, Under(A, split))
  BY DEF WeightedCategories, Standalone, Within, Heavy, Under
<1>3. /\ Weights(whole) \in Seq(Int) /\ Weights(P) \in Seq(Int) /\ Weights(Q) \in Seq(Int)
      /\ Total(Weights(whole)) + Total(Weights(Q)) = Total(Weights(W))
  BY WeightKept
<1>4. \A s \in split : \E c \in ToSet(C) : c.name = s /\ Decomposable(g, c)
  BY SplitParts
<1>5. whole = ByCategory(g, split) /\ P \o Q = ByPart(g, split)
  BY DEF ByCategory, ByPart
<1>6. WeightedComponents(g, sheet) =
          IF Scorable(g, split, sheet.assessments)
            THEN Weighed(ByCategory(g, split), sheet.categories) \o
                 Weighed(ByPart(g, split), sheet.assessments)
            ELSE Refused
  BY WeightedAre
<1>7. (W = <<>> /\ P = <<>>) \/ Total(Weights(W)) + Total(Weights(P)) = 100
  BY DEF Weighable, TotalWeight
<1> HIDE DEF C, A, split, W, P, Q, rest, single
<1>8. W \in Seq(ToSet(C)) /\ P \in Seq(ToSet(A)) /\ Q \in Seq(ToSet(A))
  BY <1>1, <1>2, ChosenPlaces
<1>9. whole \in Seq(ToSet(C))
  BY <1>8, ChosenPlaces
<1>10. P \o Q \in Seq(ToSet(A))
  BY <1>8, Concatenated
<1> DEFINE a == Weighed(whole, sheet.categories)
           b == Weighed(P \o Q, sheet.assessments)
<1>11. WeightedComponents(g, sheet) = a \o b
  BY <1>5, <1>6
<1>12. /\ Weights(P \o Q) \in Seq(Int)
       /\ Total(Weights(P \o Q)) = Total(Weights(P)) + Total(Weights(Q))
  BY <1>3, <1>8, WeightsOfConcat
<1>13. Even(a, x) /\ Weights(a) = Weights(whole)
  BY <1>3, <1>9, WeighedEven DEF EvenSheet
<1>14. Even(b, x) /\ Weights(b) = Weights(P \o Q)
  BY <1>10, <1>12, WeighedEven DEF EvenSheet
<1>15. W # <<>> \/ P # <<>>
  <2> SUFFICES ASSUME W = <<>>, P = <<>> PROVE FALSE
    OBVIOUS
  <2>1. ToSet(C) \cap Heavy(C) = {}
    <3>1. ToSet(W) = ToSet(C) \cap Heavy(C)
      BY <1>1, <1>2, ChosenMembers
    <3> QED
      BY <3>1 DEF ToSet
  <2>2. split = {}
    BY <1>4, <2>1 DEF Decomposable, SumsUp, Heavy
  <2>3. Q = <<>>
    <3>1. ToSet(A) \cap Under(A, split) = {}
      BY <2>2 DEF Under
    <3> QED
      BY <1>1, <1>2, <3>1, NoneChosen
  <2>4. whole = <<>>
    <3>1. ToSet(W) \cap rest = {}
      BY DEF ToSet
    <3> QED
      BY <1>8, <3>1, NoneChosen
  <2>5. P \o Q = <<>>
    BY <2>3
  <2>6. \A entries : Weighed(<<>>, entries) = <<>>
    BY DEF Weighed
  <2>7. a \o b = <<>>
    BY <2>4, <2>5, <2>6
  <2> QED
    BY <1>11, <2>7
<1> HIDE DEF a, b
<1>16. Even(a \o b, x) /\ Total(Weights(a \o b)) = Total(Weights(a)) + Total(Weights(b))
  BY <1>13, <1>14, ConcatEven
<1>17. Total(Weights(whole)) \in Int /\ Total(Weights(P)) \in Int /\ Total(Weights(Q)) \in Int
  BY <1>3, TotalRuns, TotalIs
<1>18. Total(Weights(a \o b)) = 100
  BY <1>3, <1>7, <1>12, <1>13, <1>14, <1>15, <1>16, <1>17
<1> QED
  BY <1>11, <1>16, <1>18

LEMMA SheetIsEven ==
    ASSUME Points \in Int, NEW g, NEW x, NEW sheet \in Sheets(g, {x})
    PROVE  EvenSheet(sheet, x)
<1>1. \A items : \A entries \in EntriesFor(g, items, {x}) : \A n \in DOMAIN entries :
          entries[n] = Entered(g, x)
  BY DEF EntriesFor
<1>2. /\ sheet.categories \in EntriesFor(g, g.categories, {x})
      /\ sheet.assessments \in EntriesFor(g, g.assessments, {x})
  BY DEF Sheets
<1>3. Entered(g, x).score = x /\ Entered(g, x).possible \in Int \cup {Unknown}
  BY DEF Entered
<1> QED
  BY <1>1, <1>2, <1>3 DEF EvenSheet

LEMMA PointsEven ==
    ASSUME Unknown \notin Int, NEW g, Weighable(g), NEW x,
           NEW sheet, EvenSheet(sheet, x), PointsComponents(g, sheet) # Refused
    PROVE  Even(PointsComponents(g, sheet), x)
<1> DEFINE A == g.assessments
           known == {a \in ToSet(A) : Possible(a, sheet) # Unknown}
           made(u) == [i \in DOMAIN u |-> Component(u[i], Possible(u[i], sheet),
                                                   ScoreOf(sheet.assessments, u[i].name))]
<1>1. PointsComponents(g, sheet) = made(Chosen(A, known))
  BY Zenon DEF PointsComponents
<1>2. A \in Seq(ToSet(A)) /\ \A a \in ToSet(A) : a.points \in Int \cup {Unknown}
  BY DEF Weighable
<1>3. \A a \in known : Possible(a, sheet) \in Int
  BY <1>2 DEF Possible, EvenSheet
<1>4. \A name : ScoreOf(sheet.assessments, name).score \in {x, Unknown}
  BY DEF ScoreOf, Unscored, EvenSheet
<1> HIDE DEF A, known
<1>5. PICK u : u = Chosen(A, known)
  OBVIOUS
<1>6. u \in Seq(ToSet(A)) /\ Len(u) \in Nat /\ DOMAIN u = 1 .. Len(u)
  BY <1>2, <1>5, ChosenPlaces
<1>7. \A i \in 1 .. Len(u) : u[i] \in known
  <2>1. PICK at : Picks(at, u, A, known)
    BY <1>2, <1>5, ChosenPlaces
  <2> QED
    BY <2>1 DEF Picks
<1>8. /\ DOMAIN made(u) = 1 .. Len(u)
      /\ \A i \in 1 .. Len(u) : made(u)[i].weight \in Int /\ made(u)[i].score \in {x, Unknown}
  BY <1>3, <1>4, <1>6, <1>7 DEF Component
<1>9. made(u) \in [1 .. Len(u) -> ToSet(made(u))]
  BY <1>6 DEF ToSet
<1> HIDE DEF made
<1>10. made(u) \in Seq(ToSet(made(u))) /\ Len(made(u)) = Len(u)
  BY <1>6, <1>9, Listed
<1>11. Even(made(u), x)
  BY <1>8, <1>10 DEF Even
<1> QED
  BY <1>1, <1>5, <1>11

LEMMA ComponentsEven ==
    ASSUME Unknown \notin Int, NEW g, Weighable(g), NamesakesApart(g), NEW x,
           NEW sheet, EvenSheet(sheet, x), Components(g, sheet) # Refused
    PROVE  /\ Even(Components(g, sheet), x)
           /\ Whole(g, Components(g, sheet)) = Total(Weights(Components(g, sheet)))
<1>1. CASE g.method = "points"
  <2>1. Components(g, sheet) = PointsComponents(g, sheet)
    BY <1>1, Zenon DEF Components
  <2> QED
    BY <1>1, <2>1, PointsEven DEF Whole
<1>2. CASE g.method # "points"
  <2>1. /\ Components(g, sheet) = WeightedComponents(g, sheet)
        /\ WeightedComponents(g, sheet) # <<>>
    BY <1>2, Zenon DEF Components
  <2> QED
    BY <1>2, <2>1, WeightedEven DEF Whole
<1> QED
  BY <1>1, <1>2

LEMMA WeighableIsEven ==
    ASSUME Unknown \notin Int, Scores100 \subseteq Int, Points \in Int, NEW g, Weighable(g)
    PROVE  EvenIn(g)
<1> SUFFICES ASSUME NamesakesApart(g), NEW x \in Scores100, NEW sheet \in Sheets(g, {x}),
                    ProjectedGrade(g, Calculated(g, sheet)) # Unknown
             PROVE  LET grade == ProjectedGrade(g, Calculated(g, sheet))
                    IN  grade.num = x * grade.den
  BY DEF EvenIn
<1>1. Calculated(g, sheet) # Refused
  BY DEF Sheets
<1>2. EvenSheet(sheet, x)
  BY SheetIsEven
<1>3. PICK c : c = Components(g, sheet)
  OBVIOUS
<1>4. Calculated(g, sheet) = Ruled(g, c)
  BY <1>3 DEF Calculated
<1>5. c # Refused
  BY <1>1, <1>4 DEF Ruled
<1>6. Even(c, x) /\ Whole(g, c) = Total(Weights(c))
  BY <1>2, <1>3, <1>5, ComponentsEven
<1>7. x \in Int /\ g.rules \in Seq(ToSet(g.rules))
  BY DEF Weighable
<1> QED
  BY <1>1, <1>4, <1>6, <1>7, EvenGrade

\* Reconciliation lets through only models whose weights make up the course.
LEMMA AcceptedWeighable ==
    ASSUME NEW pair \in Accepts, NEW g \in Trusted(pair)
    PROVE  Weighable(g)
<1>1. PICK extracted, corrections :
          g = Candidate(extracted, corrections) /\ Accepted(extracted, corrections)
  BY DEF Trusted
<1>2. WeightFindings(g) \subseteq NonBlocking /\ DuplicateFindings(g) \subseteq NonBlocking
  BY <1>1 DEF Accepted, Findings
<1>3. /\ "category_weight_validation" \notin NonBlocking
      /\ "duplicate_category" \notin NonBlocking
  BY DEF NonBlocking
<1>4. (WeightedCategories(g) = <<>> /\ Standalone(g) = <<>>) \/ TotalWeight(g) = 100
  BY <1>2, <1>3 DEF WeightFindings, When
<1>5. IsInjective([i \in DOMAIN g.categories |-> g.categories[i].name])
  BY <1>2, <1>3 DEF DuplicateFindings, When
<1>6. /\ g.categories \in Seq(ToSet(g.categories))
      /\ g.assessments \in Seq(ToSet(g.assessments))
      /\ g.rules \in Seq(ToSet(g.rules))
      /\ \A c \in ToSet(g.categories) : c.weight \in Int \cup {Unknown} /\ c.name # Unknown
      /\ \A a \in ToSet(g.assessments) : {a.weight, a.points} \subseteq Int \cup {Unknown}
  BY WeightsValidated
<1>7. Distinct(g.categories)
  <2>1. DOMAIN g.categories = 1 .. Len(g.categories)
    BY <1>6
  <2> QED
    BY <1>5, <2>1 DEF IsInjective, Distinct
<1> QED
  BY <1>4, <1>6, <1>7 DEF Weighable

\* Whatever a student corrects in an extracted model and at whatever level the
\* scores are entered, on a model that makes the calculator ready the same
\* score x on everything is a grade of exactly x: the weights that are used
\* are the weights that were validated, also where a category is split into
\* its assessments, and a replacement changes nothing among equal scores.
THEOREM EvenScoresAreKept == Spec => []EvenScoresKept
<1>1. ASSUME NEW pair \in Accepts, NEW g \in Trusted(pair)
      PROVE  EvenIn(g)
  BY AcceptedWeighable, WeighableIsEven, ScalesValidated, WeightsValidated
<1>2. ReadyIsAccepted => EvenScoresKept
  BY <1>1 DEF ReadyIsAccepted, EvenScoresKept, ReadyOn, EvenPairs
<1> QED
  BY ReadyMeansAccepted, <1>2, PTL

-----------------------------------------------------------------------------
(* ScoreLists that replace one another: what the rules come to.                *)

\* The components with these scores.
WithScores(u, f) == [k \in DOMAIN u |-> [u[k] EXCEPT !.score = f[k]]]

\* What a rule from place s to place t makes of the scores.
Lifted(f, s, t) ==
    IF s # 0 /\ t # 0 /\ f[s] # Unknown /\ f[t] # Unknown /\ f[s] > f[t]
      THEN [f EXCEPT ![t] = f[s]] ELSE f

\* Under different names everything is in its own place.
LEMMA PlaceOfIt ==
    ASSUME NEW T, NEW u \in Seq(T), Distinct(u), NEW k \in 1 .. Len(u)
    PROVE  Place(u, u[k].name) = k
<1>1. PICK p : p = Place(u, u[k].name)
  OBVIOUS
<1>2. p \in 1 .. Len(u) /\ u[p].name = u[k].name
  <2>1. /\ p \in 0 .. Len(u) /\ Len(u) \in Nat
        /\ p # 0 => u[p].name = u[k].name
        /\ p # 0
    BY <1>1, PlaceFound
  <2>2. p \in 1 .. Len(u)
    BY <2>1
  <2> QED
    BY <2>1, <2>2
<1> QED
  BY <1>1, <1>2 DEF Distinct

\* Places depend on the names alone.
LEMMA SamePlace ==
    ASSUME NEW u, NEW v, Len(u) = Len(v), \A k \in 1 .. Len(u) : u[k].name = v[k].name, NEW name
    PROVE  Place(u, name) = Place(v, name)
<1>1. {i \in 1 .. Len(u) : u[i].name = name} = {i \in 1 .. Len(v) : v[i].name = name}
  OBVIOUS
<1> DEFINE By(I) == IF I # {} THEN Min(I) ELSE 0
<1>2. /\ Place(u, name) = By({i \in 1 .. Len(u) : u[i].name = name})
      /\ Place(v, name) = By({i \in 1 .. Len(v) : v[i].name = name})
  BY DEF Place, SelectInSeq
<1> HIDE DEF By
<1> QED
  BY <1>1, <1>2

\* Records of the shape the engine's components have.
Parts(names) ==
    [name : names, weight : Nat, score : Int \cup {Unknown}, done : BOOLEAN]

ScoreLists(u) == [1 .. Len(u) -> Int \cup {Unknown}]

\* Only the scores are other ones.
LEMMA WithScoresIs ==
    ASSUME NEW names, NEW u \in Seq(Parts(names)), NEW f \in ScoreLists(u)
    PROVE  /\ WithScores(u, f) \in Seq(Parts(names)) /\ Len(WithScores(u, f)) = Len(u)
           /\ \A k \in 1 .. Len(u) : /\ WithScores(u, f)[k].name = u[k].name
                                     /\ WithScores(u, f)[k].weight = u[k].weight
                                     /\ WithScores(u, f)[k].score = f[k]
                                     /\ WithScores(u, f)[k] = [u[k] EXCEPT !.score = f[k]]
<1>1. Len(u) \in Nat /\ DOMAIN u = 1 .. Len(u) /\ \A k \in 1 .. Len(u) : u[k] \in Parts(names)
  OBVIOUS
<1>2. \A k \in 1 .. Len(u) : f[k] \in Int \cup {Unknown}
  BY DEF ScoreLists
<1>3. PICK c : c = WithScores(u, f)
  OBVIOUS
<1>4. c = [k \in 1 .. Len(u) |-> [u[k] EXCEPT !.score = f[k]]]
  BY <1>1, <1>3 DEF WithScores
<1>5. \A k \in 1 .. Len(u) : /\ [u[k] EXCEPT !.score = f[k]] \in Parts(names)
                             /\ [u[k] EXCEPT !.score = f[k]].name = u[k].name
                             /\ [u[k] EXCEPT !.score = f[k]].weight = u[k].weight
                             /\ [u[k] EXCEPT !.score = f[k]].score = f[k]
  BY <1>1, <1>2 DEF Parts
<1>6. c \in [1 .. Len(u) -> Parts(names)]
  BY <1>4, <1>5
<1>7. c \in Seq(Parts(names)) /\ Len(c) = Len(u)
  BY <1>1, <1>6, Listed
<1> QED
  BY <1>3, <1>4, <1>5, <1>7

\* With their own scores the components are the same.
LEMMA OwnScores ==
    ASSUME NEW names, NEW u \in Seq(Parts(names))
    PROVE  /\ [k \in 1 .. Len(u) |-> u[k].score] \in ScoreLists(u)
           /\ WithScores(u, [k \in 1 .. Len(u) |-> u[k].score]) = u
<1>1. Len(u) \in Nat /\ DOMAIN u = 1 .. Len(u) /\ \A k \in 1 .. Len(u) : u[k] \in Parts(names)
  OBVIOUS
<1>2. \A k \in 1 .. Len(u) : /\ u[k].score \in Int \cup {Unknown}
                             /\ [u[k] EXCEPT !.score = u[k].score] = u[k]
  BY <1>1 DEF Parts
<1>3. PICK f : f = [k \in 1 .. Len(u) |-> u[k].score]
  OBVIOUS
<1>4. f \in ScoreLists(u) /\ \A k \in 1 .. Len(u) : f[k] = u[k].score
  BY <1>2, <1>3 DEF ScoreLists
<1>5. WithScores(u, f) = [k \in 1 .. Len(u) |-> u[k]]
  BY <1>1, <1>2, <1>4 DEF WithScores
<1>6. u = [k \in 1 .. Len(u) |-> u[k]]
  BY <1>1
<1> QED
  BY <1>3, <1>4, <1>5, <1>6

\* A rule makes scores of scores.
LEMMA LiftedIs ==
    ASSUME NEW u, NEW f \in ScoreLists(u), NEW s \in 0 .. Len(u), NEW t \in 0 .. Len(u)
    PROVE  Lifted(f, s, t) \in ScoreLists(u)
<1>1. s # 0 => s \in 1 .. Len(u)
  OBVIOUS
<1> QED
  BY <1>1 DEF Lifted, ScoreLists

\* A rule replaces scores only.
LEMMA ReplacedScores ==
    ASSUME NEW names, NEW u \in Seq(Parts(names)), NEW f \in ScoreLists(u), NEW rule
    PROVE  Replaced(WithScores(u, f), rule)
               = WithScores(u, Lifted(f, Place(u, rule.source), Place(u, rule.target)))
<1>1. PICK c : c = WithScores(u, f)
  OBVIOUS
<1>2. /\ c \in Seq(Parts(names)) /\ Len(c) = Len(u)
      /\ \A k \in 1 .. Len(u) : /\ c[k].name = u[k].name
                                /\ c[k].score = f[k]
                                /\ c[k] = [u[k] EXCEPT !.score = f[k]]
  BY <1>1, WithScoresIs
<1>3. PICK s, t : s = Place(u, rule.source) /\ t = Place(u, rule.target)
  OBVIOUS
<1>4. Place(c, rule.source) = s /\ Place(c, rule.target) = t
  <2>1. Len(u) = Len(c) /\ \A k \in 1 .. Len(u) : u[k].name = c[k].name
    BY <1>2
  <2> QED
    BY <1>3, <2>1, SamePlace
<1>5. /\ s \in 0 .. Len(u) /\ t \in 0 .. Len(u)
      /\ s # 0 => s \in 1 .. Len(u)
      /\ t # 0 => t \in 1 .. Len(u)
  <2>1. s \in 0 .. Len(u) /\ t \in 0 .. Len(u) /\ Len(u) \in Nat
    BY <1>3, PlaceFound
  <2> QED
    BY <2>1
<1>6. s # 0 => c[s].score = f[s]
  BY <1>2, <1>5
<1>7. t # 0 => c[t].score = f[t]
  BY <1>2, <1>5
<1> DEFINE applies == s # 0 /\ t # 0 /\ f[s] # Unknown /\ f[t] # Unknown /\ f[s] > f[t]
<1>8. Replaced(c, rule) = IF applies THEN [c EXCEPT ![t].score = c[s].score] ELSE c
  BY <1>4, <1>6, <1>7 DEF Replaced
<1>9. CASE ~applies
  BY <1>1, <1>3, <1>8, <1>9 DEF Lifted
<1>10. CASE applies
  <2>1. t \in 1 .. Len(u) /\ Lifted(f, s, t) = [f EXCEPT ![t] = f[s]]
    BY <1>5, <1>10 DEF Lifted
  <2>2. Replaced(c, rule) = [c EXCEPT ![t].score = f[s]]
    BY <1>6, <1>8, <1>10
  <2>3. PICK d, h : d = Replaced(c, rule) /\ h = Lifted(f, s, t)
    OBVIOUS
  <2>4. DOMAIN c = 1 .. Len(u) /\ DOMAIN u = 1 .. Len(u)
    BY <1>2
  <2>5. d = [k \in 1 .. Len(u) |-> IF k = t THEN [c[t] EXCEPT !.score = f[s]] ELSE c[k]]
    BY <2>1, <2>2, <2>3, <2>4
  <2>6. \A k \in 1 .. Len(u) : h[k] = IF k = t THEN f[s] ELSE f[k]
    BY <2>1, <2>3 DEF ScoreLists
  <2>7. \A k \in 1 .. Len(u) : u[k] \in Parts(names)
    OBVIOUS
  <2>8. [c[t] EXCEPT !.score = f[s]] = [u[t] EXCEPT !.score = f[s]]
    BY <1>2, <2>1, <2>7 DEF Parts
  <2>9. \A k \in 1 .. Len(u) : (IF k = t THEN [c[t] EXCEPT !.score = f[s]] ELSE c[k])
                                   = [u[k] EXCEPT !.score = h[k]]
    BY <1>2, <2>6, <2>8
  <2>10. d = WithScores(u, h)
    BY <2>4, <2>5, <2>9 DEF WithScores
  <2> QED
    BY <1>1, <1>3, <2>3, <2>10
<1> QED
  BY <1>9, <1>10

\* The scores while the rules are applied.
Lifting(f, u, rules) ==
    /\ f[0] = [k \in 1 .. Len(u) |-> u[k].score]
    /\ \A k \in 1 .. Len(rules) :
          f[k] = Lifted(f[k - 1], Place(u, rules[k].source), Place(u, rules[k].target))

\* The rules replace scores, one rule after the other.
LEMMA ReplacementRuns ==
    ASSUME NEW names, NEW u \in Seq(Parts(names)), NEW T, NEW rules \in Seq(T)
    PROVE  \E f \in [0 .. Len(rules) -> ScoreLists(u)] :
               /\ Lifting(f, u, rules)
               /\ FoldLeft(Replaced, u, rules) = WithScores(u, f[Len(rules)])
<1> DEFINE n == Len(rules)
           own == [k \in 1 .. Len(u) |-> u[k].score]
           step == [p \in ScoreLists(u) \X (1 .. n) |->
                      Lifted(p[1], Place(u, rules[p[2]].source), Place(u, rules[p[2]].target))]
           P(e) == e = [s \in SUBSET DOMAIN rules |->
                          IF s = {} THEN u
                          ELSE LET y == Max(s) IN Replaced(e[s \ {y}], rules[y])]
<1>1. n \in Nat /\ DOMAIN rules = 1 .. n /\ n \in 0 .. n
  OBVIOUS
<1>2. own \in ScoreLists(u) /\ WithScores(u, own) = u
  BY OwnScores
<1>3. step \in [ScoreLists(u) \X (1 .. n) -> ScoreLists(u)]
  <2>1. \A f \in ScoreLists(u) : \A k \in 1 .. n :
            Lifted(f, Place(u, rules[k].source), Place(u, rules[k].target)) \in ScoreLists(u)
    BY PlaceFound, LiftedIs
  <2> QED
    BY <2>1
<1>4. \A f \in ScoreLists(u) : \A k \in 1 .. n :
          step[<<f, k>>] = Lifted(f, Place(u, rules[k].source), Place(u, rules[k].target))
  OBVIOUS
<1> HIDE DEF step, own
<1>5. PICK e \in [SUBSET (1 .. n) -> ScoreLists(u)] : Folds(e, own, step, n)
  <2> HIDE DEF n
  <2> QED
    BY <1>1, <1>2, <1>3, FoldExists
<1>6. \A s \in SUBSET (1 .. n) :
          s # {} => /\ Max(s) \in 1 .. n /\ s \ {Max(s)} \in SUBSET (1 .. n)
                    /\ e[s] = step[<<e[s \ {Max(s)}], Max(s)>>]
  <2>1. \A s \in SUBSET (1 .. n) : s # {} => Max(s) \in s
    <3> HIDE DEF n
    <3> QED
      BY <1>1, LargestIndex
  <2> QED
    BY <1>5, <2>1 DEF Folds
<1>7. e[{}] = own
  BY <1>5 DEF Folds
<1> DEFINE E == [s \in SUBSET DOMAIN rules |-> WithScores(u, e[s])]
<1>8. P(E)
  <2>1. ASSUME NEW s \in SUBSET (1 .. n)
        PROVE  E[s] = IF s = {} THEN u ELSE Replaced(E[s \ {Max(s)}], rules[Max(s)])
    <3>1. CASE s = {}
      BY <1>1, <1>2, <1>7, <3>1
    <3>2. CASE s # {}
      <4>1. PICK k, f : k = Max(s) /\ f = e[s \ {k}]
        OBVIOUS
      <4>2. k \in 1 .. n /\ s \ {k} \in SUBSET (1 .. n) /\ e[s] = step[<<f, k>>]
        BY <1>6, <3>2, <4>1
      <4>3. f \in ScoreLists(u)
        BY <1>5, <4>1, <4>2
      <4>4. e[s] = Lifted(f, Place(u, rules[k].source), Place(u, rules[k].target))
        BY <1>4, <4>2, <4>3
      <4>5. Replaced(WithScores(u, f), rules[k]) = WithScores(u, e[s])
        BY <4>3, <4>4, ReplacedScores
      <4>6. E[s] = WithScores(u, e[s]) /\ E[s \ {k}] = WithScores(u, f)
        BY <1>1, <4>1, <4>2
      <4> QED
        BY <3>2, <4>1, <4>5, <4>6
    <3> QED
      BY <3>1, <3>2
  <2>2. E = [s \in SUBSET (1 .. n) |-> E[s]]
    BY <1>1
  <2> HIDE DEF E, n
  <2> QED
    BY <1>1, <2>1, <2>2
<1>9. P(ReplacedOf(u, rules))
  <2>1. ReplacedOf(u, rules) = CHOOSE d : P(d)
    BY DEF ReplacedOf
  <2> HIDE DEF P, E
  <2> QED
    BY <1>8, <2>1
<1>10. PICK d : d = ReplacedOf(u, rules)
  OBVIOUS
<1>11. \A s \in SUBSET (1 .. n) :
           d[s] = IF s = {} THEN u ELSE Replaced(d[s \ {Max(s)}], rules[Max(s)])
  BY <1>1, <1>9, <1>10
<1> DEFINE f == [k \in 0 .. n |-> e[1 .. k]]
           G == {k \in 0 .. n : d[1 .. k] = WithScores(u, f[k])}
<1>12. f \in [0 .. n -> ScoreLists(u)] /\ f[0] = own
  <2>1. \A k \in 0 .. n : (1 .. k) \in SUBSET (1 .. n)
    BY <1>1
  <2>2. 1 .. 0 = {} /\ 0 \in 0 .. n
    BY <1>1
  <2> HIDE DEF n
  <2> QED
    BY <1>5, <1>7, <2>1, <2>2
<1>13. ASSUME NEW k \in 1 .. n
       PROVE  /\ k \in 0 .. n /\ k - 1 \in 0 .. n
              /\ f[k] = Lifted(f[k - 1], Place(u, rules[k].source), Place(u, rules[k].target))
              /\ d[1 .. k] = Replaced(d[1 .. (k - 1)], rules[k])
  <2>1. Max(1 .. k) = k /\ (1 .. k) \ {k} = 1 .. (k - 1) /\ 1 .. k # {}
    BY <1>1, LastOf
  <2>2. (1 .. k) \in SUBSET (1 .. n) /\ k \in 0 .. n /\ k - 1 \in 0 .. n
    BY <1>1
  <2>3. e[1 .. k] = step[<<e[1 .. (k - 1)], k>>]
    BY <1>6, <2>1, <2>2
  <2>4. f[k] = e[1 .. k] /\ f[k - 1] = e[1 .. (k - 1)]
    BY <2>2
  <2>5. f[k - 1] \in ScoreLists(u)
    BY <1>12, <2>2
  <2>6. d[1 .. k] = Replaced(d[1 .. (k - 1)], rules[k])
    BY <1>11, <2>1, <2>2
  <2> HIDE DEF f
  <2> QED
    BY <1>4, <2>2, <2>3, <2>4, <2>5, <2>6
<1>14. 0 \in G
  <2>1. 1 .. 0 = {} /\ 0 \in 0 .. n
    BY <1>1
  <2>2. d[{}] = u
    BY <1>11
  <2> HIDE DEF f, n
  <2> QED
    BY <1>2, <1>12, <2>1, <2>2
<1>15. ASSUME NEW k \in 1 .. n, k - 1 \in G
       PROVE  k \in G
  <2>1. d[1 .. (k - 1)] = WithScores(u, f[k - 1])
    BY <1>15
  <2>2. f[k - 1] \in ScoreLists(u)
    BY <1>12, <1>13
  <2> HIDE DEF f
  <2>3. Replaced(WithScores(u, f[k - 1]), rules[k]) = WithScores(u, f[k])
    BY <1>13, <2>2, ReplacedScores
  <2> QED
    BY <1>13, <2>1, <2>3
<1>16. \A k \in 0 .. n : k \in G
  <2> HIDE DEF G, n
  <2> QED
    BY <1>1, <1>14, <1>15, Upward
<1>17. FoldLeft(Replaced, u, rules) = ReplacedOf(u, rules)[DOMAIN rules]
  BY Zenon DEF FoldLeft, MapThenFoldSet, ReplacedOf
<1>18. Lifting(f, u, rules)
  <2> HIDE DEF f
  <2> QED
    BY <1>12, <1>13 DEF Lifting, own
<1>19. d[1 .. n] = WithScores(u, f[n])
  BY <1>1, <1>16
<1> HIDE DEF f
<1> QED
  BY <1>1, <1>10, <1>12, <1>17, <1>18, <1>19

\* The scores h are the scores f with the missing score at n, and where that
\* one is higher at t as well, once a rule has met it.
Beside(f, h, n, t, x, met) ==
    /\ DOMAIN h = DOMAIN f /\ f[n] = Unknown
    /\ \A j \in DOMAIN f :
          /\ j # n => f[j] \in Int
          /\ h[j] = IF j = n \/ (j = t /\ met /\ x > f[j]) THEN x ELSE f[j]

\* One rule keeps the two lists of scores beside each other.
LEMMA LiftedBeside ==
    ASSUME Unknown \notin Int, NEW N \in Nat, NEW f, NEW h, DOMAIN f = 1 .. N,
           NEW n \in 1 .. N, NEW t \in 0 .. N, t # n, NEW x \in Int, NEW met \in BOOLEAN,
           Beside(f, h, n, t, x, met),
           NEW s \in 0 .. N, NEW q \in 0 .. N, q # n, s = n => q = t, s = t => t = 0
    PROVE  Beside(Lifted(f, s, q), Lifted(h, s, q), n, t, x, met \/ s = n)
<1>1. /\ DOMAIN h = 1 .. N /\ f[n] = Unknown /\ h[n] = x
      /\ \A j \in 1 .. N : j # n => f[j] \in Int
      /\ \A j \in 1 .. N : j # n /\ j # t => h[j] = f[j]
      /\ \A j \in 1 .. N : j # n /\ j = t => h[j] = IF met /\ x > f[j] THEN x ELSE f[j]
      /\ \A j \in 1 .. N : h[j] \in Int
  BY DEF Beside
<1>2. /\ s # 0 => s \in 1 .. N
      /\ q # 0 => q \in 1 .. N
      /\ t # 0 => t \in 1 .. N
  OBVIOUS
<1>3. CASE s = 0 \/ q = 0
  <2>1. Lifted(f, s, q) = f /\ Lifted(h, s, q) = h
    BY <1>3 DEF Lifted
  <2>2. s = n => t = 0
    BY <1>3, <1>2
  <2> QED
    BY <1>2, <2>1, <2>2 DEF Beside
<1>4. CASE s # 0 /\ q # 0 /\ s = n
  <2>1. Lifted(f, s, q) = f
    BY <1>1, <1>4 DEF Lifted
  <2>2. t \in 1 .. N /\ f[t] \in Int /\ h[t] = IF met /\ x > f[t] THEN x ELSE f[t]
    BY <1>1, <1>2, <1>4
  <2>3. Lifted(h, s, q) = IF x > h[t] THEN [h EXCEPT ![t] = x] ELSE h
    BY <1>1, <1>4, <2>2 DEF Lifted
  <2>4. PICK d : d = Lifted(h, s, q)
    OBVIOUS
  <2>5. DOMAIN d = 1 .. N /\ \A j \in 1 .. N : j # t => d[j] = h[j]
    BY <1>1, <2>3, <2>4
  <2>6. d[t] = IF x > f[t] THEN x ELSE f[t]
    BY <1>1, <2>2, <2>3, <2>4
  <2> QED
    BY <1>1, <1>4, <2>1, <2>4, <2>5, <2>6 DEF Beside
<1>5. CASE s # 0 /\ q # 0 /\ s # n
  <2>1. s \in 1 .. N /\ q \in 1 .. N /\ s # t /\ f[s] \in Int /\ h[s] = f[s] /\ f[q] \in Int /\ h[q] \in Int
    BY <1>1, <1>2, <1>5
  <2>2. /\ Lifted(f, s, q) = IF f[s] > f[q] THEN [f EXCEPT ![q] = f[s]] ELSE f
        /\ Lifted(h, s, q) = IF f[s] > h[q] THEN [h EXCEPT ![q] = f[s]] ELSE h
    BY <1>5, <2>1 DEF Lifted
  <2>3. PICK a, b : a = Lifted(f, s, q) /\ b = Lifted(h, s, q)
    OBVIOUS
  <2>4. /\ DOMAIN a = 1 .. N /\ DOMAIN b = 1 .. N
        /\ \A j \in 1 .. N : j # q => a[j] = f[j] /\ b[j] = h[j]
        /\ a[q] = IF f[s] > f[q] THEN f[s] ELSE f[q]
        /\ b[q] = IF f[s] > h[q] THEN f[s] ELSE h[q]
    BY <1>1, <2>1, <2>2, <2>3
  <2>5. CASE q # t
    <3>1. h[q] = f[q]
      BY <1>1, <2>1, <2>5
    <3>2. a[q] \in Int /\ b[q] = a[q]
      BY <2>1, <2>4, <3>1
    <3> QED
      BY <1>1, <1>5, <2>3, <2>4, <2>5, <3>2 DEF Beside
  <2>6. CASE q = t
    <3>1. h[q] = IF met /\ x > f[q] THEN x ELSE f[q]
      BY <1>1, <2>1, <2>6
    <3>2. a[q] \in Int /\ b[q] = IF met /\ x > a[q] THEN x ELSE a[q]
      BY <2>1, <2>4, <3>1
    <3> QED
      BY <1>1, <1>5, <2>3, <2>4, <2>6, <3>2 DEF Beside
  <2> QED
    BY <2>5, <2>6
<1> QED
  BY <1>3, <1>4, <1>5

\* Only rules from n to t meet the component at n, and no rule starts at t.
Meets(u, rules, n, t) ==
    \A k \in 1 .. Len(rules) :
        /\ Place(u, rules[k].target) # n
        /\ Place(u, rules[k].source) = n => Place(u, rules[k].target) = t
        /\ Place(u, rules[k].source) = t => t = 0

\* All the rules do.
LEMMA RunsBeside ==
    ASSUME Unknown \notin Int,
           NEW names, NEW u \in Seq(Parts(names)), NEW v \in Seq(Parts(names)),
           Len(u) = Len(v), \A k \in 1 .. Len(u) : u[k].name = v[k].name,
           NEW T, NEW rules \in Seq(T),
           NEW f \in [0 .. Len(rules) -> ScoreLists(u)], Lifting(f, u, rules),
           NEW h \in [0 .. Len(rules) -> ScoreLists(v)], Lifting(h, v, rules),
           NEW n \in 1 .. Len(u), NEW t \in 0 .. Len(u), t # n, NEW x \in Int,
           Meets(u, rules, n, t), Beside(f[0], h[0], n, t, x, FALSE)
    PROVE  Beside(f[Len(rules)], h[Len(rules)], n, t, x,
                  \E k \in 1 .. Len(rules) : Place(u, rules[k].source) = n)
<1> DEFINE r == Len(rules)
           met(k) == \E i \in 1 .. k : Place(u, rules[i].source) = n
           G == {k \in 0 .. r : Beside(f[k], h[k], n, t, x, met(k))}
<1>1. r \in Nat /\ r \in 0 .. r /\ Len(u) \in Nat
  OBVIOUS
<1>2. \A name : Place(v, name) = Place(u, name)
  BY SamePlace
<1>3. 0 \in G
  <2>1. met(0) = FALSE /\ 0 \in 0 .. r
    BY <1>1
  <2> HIDE DEF met, r
  <2> QED
    BY <2>1
<1>4. ASSUME NEW k \in 1 .. r, k - 1 \in G
      PROVE  k \in G
  <2>1. PICK s, q : s = Place(u, rules[k].source) /\ q = Place(u, rules[k].target)
    OBVIOUS
  <2>2. /\ s \in 0 .. Len(u) /\ q \in 0 .. Len(u)
        /\ q # n
        /\ s = n => q = t
        /\ s = t => t = 0
    BY <2>1, PlaceFound DEF Meets
  <2>3. f[k] = Lifted(f[k - 1], s, q) /\ h[k] = Lifted(h[k - 1], s, q)
    BY <1>2, <2>1 DEF Lifting
  <2>4. k \in 0 .. r /\ k - 1 \in 0 .. r
    BY <1>1
  <2>5. DOMAIN f[k - 1] = 1 .. Len(u)
    BY <2>4 DEF ScoreLists
  <2>6. met(k) = (met(k - 1) \/ s = n)
    <3>1. 1 .. k = (1 .. (k - 1)) \cup {k}
      BY <1>1
    <3> QED
      BY <2>1, <3>1
  <2>7. met(k - 1) \in BOOLEAN /\ Beside(f[k - 1], h[k - 1], n, t, x, met(k - 1))
    BY <1>4
  <2> HIDE DEF met, r
  <2>8. Beside(Lifted(f[k - 1], s, q), Lifted(h[k - 1], s, q), n, t, x, met(k - 1) \/ s = n)
    BY <1>1, <2>2, <2>5, <2>7, LiftedBeside
  <2> QED
    BY <2>3, <2>4, <2>6, <2>8
<1>5. \A k \in 0 .. r : k \in G
  <2> HIDE DEF G, r
  <2> QED
    BY <1>1, <1>3, <1>4, Upward
<1> QED
  BY <1>1, <1>5

-----------------------------------------------------------------------------
(* The answer for the score that is missing.                               *)

\* What is left and right of a place.
LEMMA Parted ==
    ASSUME NEW T, NEW s \in Seq(T), NEW n \in 1 .. Len(s)
    PROVE  /\ SubSeq(s, 1, n - 1) \in Seq(T) /\ Len(SubSeq(s, 1, n - 1)) = n - 1
           /\ \A k \in 1 .. (n - 1) : SubSeq(s, 1, n - 1)[k] = s[k]
           /\ SubSeq(s, n + 1, Len(s)) \in Seq(T) /\ Len(SubSeq(s, n + 1, Len(s))) = Len(s) - n
           /\ \A k \in 1 .. (Len(s) - n) : SubSeq(s, n + 1, Len(s))[k] = s[n + k]
           /\ s[n] \in T /\ Len(s) \in Nat /\ n \in Nat
  OBVIOUS

\* A list without one of its items.
LEMMA RemovedIs ==
    ASSUME NEW T, NEW s \in Seq(T), NEW n \in 1 .. Len(s)
    PROVE  /\ RemoveAt(s, n) \in Seq(T) /\ Len(RemoveAt(s, n)) = Len(s) - 1
           /\ DOMAIN RemoveAt(s, n) = 1 .. (Len(s) - 1)
           /\ \A k \in 1 .. (Len(s) - 1) : RemoveAt(s, n)[k] = IF k < n THEN s[k] ELSE s[k + 1]
<1>1. PICK a, b : a = SubSeq(s, 1, n - 1) /\ b = SubSeq(s, n + 1, Len(s))
  OBVIOUS
<1>2. /\ a \in Seq(T) /\ Len(a) = n - 1 /\ \A k \in 1 .. (n - 1) : a[k] = s[k]
      /\ b \in Seq(T) /\ Len(b) = Len(s) - n /\ \A k \in 1 .. (Len(s) - n) : b[k] = s[n + k]
      /\ Len(s) \in Nat /\ n \in Nat
  BY <1>1, Parted
<1>3. /\ a \o b \in Seq(T) /\ Len(a \o b) = Len(a) + Len(b)
      /\ \A k \in 1 .. (Len(a) + Len(b)) : (a \o b)[k] = IF k <= Len(a) THEN a[k] ELSE b[k - Len(a)]
  BY <1>2, Concatenated
<1>4. Len(a) + Len(b) = Len(s) - 1
  BY <1>2
<1>5. ASSUME NEW k \in 1 .. (Len(s) - 1)
      PROVE  (a \o b)[k] = IF k < n THEN s[k] ELSE s[k + 1]
  <2>1. CASE k < n
    <3>1. k <= Len(a) /\ k \in 1 .. (n - 1)
      BY <1>2, <2>1
    <3>2. a[k] = s[k]
      BY <1>2, <3>1
    <3>3. (a \o b)[k] = IF k <= Len(a) THEN a[k] ELSE b[k - Len(a)]
      BY <1>3, <1>4
    <3> QED
      BY <2>1, <3>1, <3>2, <3>3
  <2>2. CASE ~(k < n)
    <3>1. ~(k <= Len(a)) /\ k - Len(a) \in 1 .. (Len(s) - n) /\ n + (k - Len(a)) = k + 1
      BY <1>2, <2>2
    <3>2. b[k - Len(a)] = s[n + (k - Len(a))]
      BY <1>2, <3>1
    <3>3. b[k - Len(a)] = s[k + 1]
      BY <3>1, <3>2
    <3>4. (a \o b)[k] = IF k <= Len(a) THEN a[k] ELSE b[k - Len(a)]
      BY <1>3, <1>4
    <3> QED
      BY <2>2, <3>1, <3>3, <3>4
  <2> QED
    BY <2>1, <2>2
<1>6. DOMAIN (a \o b) = 1 .. (Len(s) - 1)
  BY <1>3, <1>4
<1>7. RemoveAt(s, n) = a \o b
  BY <1>1 DEF RemoveAt
<1>8. PICK c : c = a \o b
  OBVIOUS
<1> QED
  BY <1>3, <1>4, <1>5, <1>6, <1>7, <1>8

\* A sum without one of its numbers.
LEMMA RemovedTotal ==
    ASSUME NEW h \in Seq(Int), NEW n \in 1 .. Len(h)
    PROVE  /\ Total(RemoveAt(h, n)) \in Int
           /\ Total(h) = Total(RemoveAt(h, n)) + h[n]
<1>1. PICK a, b, m : /\ a = SubSeq(h, 1, n - 1) /\ b = SubSeq(h, n + 1, Len(h))
                     /\ m = h[n]
  OBVIOUS
<1>2. /\ a \in Seq(Int) /\ Len(a) = n - 1 /\ \A k \in 1 .. (n - 1) : a[k] = h[k]
      /\ b \in Seq(Int) /\ Len(b) = Len(h) - n /\ \A k \in 1 .. (Len(h) - n) : b[k] = h[n + k]
      /\ m \in Int /\ Len(h) \in Nat /\ n \in Nat
  BY <1>1, Parted
<1>3. PICK d : d = Append(a, m)
  OBVIOUS
<1>4. d \in Seq(Int) /\ Len(d) = n /\ d[n] = m /\ \A k \in 1 .. (n - 1) : d[k] = h[k]
  <2>1. /\ d \in Seq(Int) /\ Len(d) = Len(a) + 1 /\ d[Len(a) + 1] = m
        /\ \A i \in 1 .. Len(a) : d[i] = a[i]
    BY <1>2, <1>3, Appended
  <2>2. Len(a) + 1 = n
    BY <1>2
  <2> QED
    BY <1>2, <2>1, <2>2
<1>5. Total(d) = Total(a) + m
  BY <1>2, <1>3, TotalOfAppend
<1>6. PICK e : e = d \o b
  OBVIOUS
<1>7. /\ e \in Seq(Int) /\ Len(e) = Len(h)
      /\ \A k \in 1 .. Len(h) : e[k] = IF k <= n THEN d[k] ELSE b[k - n]
  <2>1. Len(d) + Len(b) = Len(h)
    BY <1>2, <1>4
  <2>2. /\ d \o b \in Seq(Int) /\ Len(d \o b) = Len(d) + Len(b)
        /\ \A k \in 1 .. (Len(d) + Len(b)) : (d \o b)[k] = IF k <= Len(d) THEN d[k] ELSE b[k - Len(d)]
    BY <1>2, <1>4, Concatenated
  <2> QED
    BY <1>4, <1>6, <2>1, <2>2
<1>8. e = h
  <2>1. ASSUME NEW k \in 1 .. Len(h)
        PROVE  e[k] = h[k]
    <3>1. CASE k > n
      <4>1. ~(k <= n) /\ k - n \in 1 .. (Len(h) - n) /\ n + (k - n) = k
        BY <1>2, <3>1
      <4> QED
        BY <1>2, <1>7, <4>1
    <3>2. CASE k = n
      BY <1>1, <1>4, <1>7, <1>2, <3>2
    <3>3. CASE k < n
      <4>1. k <= n /\ k \in 1 .. (n - 1)
        BY <1>2, <3>3
      <4> QED
        BY <1>4, <1>7, <4>1
    <3> QED
      BY <1>2, <3>1, <3>2, <3>3
  <2> QED
    BY <1>7, <2>1, SeqEqual
<1>9. Total(e) = Total(d) + Total(b)
  BY <1>2, <1>4, <1>6, TotalOfConcat
<1>10. Total(RemoveAt(h, n)) = Total(a) + Total(b)
  <2>1. RemoveAt(h, n) = a \o b
    BY <1>1 DEF RemoveAt
  <2>2. Total(a \o b) = Total(a) + Total(b)
    BY <1>2, TotalOfConcat
  <2> QED
    BY <2>1, <2>2
<1>11. Total(a) \in Int /\ Total(b) \in Int
  BY <1>2, TotalRuns, TotalIs
<1>12. PICK p, q, r : p = Total(a) /\ q = Total(b) /\ r = Total(RemoveAt(h, n))
  OBVIOUS
<1>13. p \in Int /\ q \in Int /\ m \in Int /\ r = p + q /\ Total(h) = (p + m) + q
  BY <1>2, <1>5, <1>8, <1>9, <1>10, <1>11, <1>12
<1>14. r \in Int /\ Total(h) = r + m
  BY <1>13
<1> QED
  BY <1>1, <1>12, <1>14

\* One component's part in the contributions.
LEMMA Contributed ==
    ASSUME NEW names, NEW s \in Seq(Parts(names)), \A k \in 1 .. Len(s) : s[k].score \in Int,
           NEW n \in 1 .. Len(s)
    PROVE  /\ Contributions(s) \in Int /\ Contributions(RemoveAt(s, n)) \in Int
           /\ Contributions(s) = Contributions(RemoveAt(s, n)) + s[n].score * s[n].weight
<1>1. /\ Len(s) \in Nat /\ DOMAIN s = 1 .. Len(s) /\ n \in Nat
      /\ \A k \in 1 .. Len(s) : s[k].weight \in Nat
  <2>1. \A k \in 1 .. Len(s) : s[k] \in Parts(names)
    OBVIOUS
  <2> QED
    BY <2>1 DEF Parts
<1>2. PICK p : p = [k \in 1 .. Len(s) |-> s[k].score * s[k].weight]
  OBVIOUS
<1>3. p \in [1 .. Len(s) -> Int]
  BY <1>1, <1>2
<1>4. p \in Seq(Int) /\ Len(p) = Len(s)
  BY <1>1, <1>3, Listed
<1>5. PICK q : q = RemoveAt(s, n)
  OBVIOUS
<1>6. /\ DOMAIN q = 1 .. (Len(s) - 1)
      /\ \A k \in 1 .. (Len(s) - 1) : q[k] = IF k < n THEN s[k] ELSE s[k + 1]
  BY <1>5, RemovedIs
<1>7. PICK o : o = RemoveAt(p, n)
  OBVIOUS
<1>8. /\ DOMAIN o = 1 .. (Len(s) - 1) /\ o \in Seq(Int)
      /\ \A k \in 1 .. (Len(s) - 1) : o[k] = IF k < n THEN p[k] ELSE p[k + 1]
  <2>1. n \in 1 .. Len(p)
    BY <1>4
  <2>2. /\ RemoveAt(p, n) \in Seq(Int) /\ DOMAIN RemoveAt(p, n) = 1 .. (Len(p) - 1)
        /\ \A k \in 1 .. (Len(p) - 1) : RemoveAt(p, n)[k] = IF k < n THEN p[k] ELSE p[k + 1]
    BY <1>4, <2>1, RemovedIs
  <2> QED
    BY <1>4, <1>7, <2>2
<1>9. \A k \in 1 .. (Len(s) - 1) : k \in 1 .. Len(s) /\ k + 1 \in 1 .. Len(s)
  BY <1>1
<1>10. \A k \in 1 .. (Len(s) - 1) : o[k] = q[k].score * q[k].weight
  BY <1>2, <1>6, <1>8, <1>9
<1>11. o = [k \in DOMAIN q |-> q[k].score * q[k].weight]
  <2>1. o = [k \in 1 .. (Len(s) - 1) |-> o[k]]
    BY <1>8
  <2> QED
    BY <1>6, <1>10, <2>1
<1>12. Contributions(q) = Total(o)
  BY <1>11 DEF Contributions
<1>13. Contributions(s) = Total(p)
  BY <1>1, <1>2 DEF Contributions
<1>14. Total(o) \in Int /\ Total(p) = Total(o) + p[n]
  BY <1>4, <1>7, RemovedTotal
<1>15. p[n] = s[n].score * s[n].weight /\ p[n] \in Int
  BY <1>2, <1>3
<1> QED
  BY <1>5, <1>12, <1>13, <1>14, <1>15

\* The components d are the components c with the score x for the missing one
\* at n, which replaces the one at t where it is higher.
Asked(names, c, d, n, t, x) ==
    /\ c \in Seq(Parts(names)) /\ d \in Seq(Parts(names)) /\ Len(c) = Len(d) /\ Distinct(c)
    /\ n \in 1 .. Len(c) /\ t \in 0 .. Len(c) /\ t # n /\ x \in Int
    /\ c[n].weight > 0 /\ d[n].score = x
    /\ \A k \in 1 .. Len(c) :
          /\ d[k].weight = c[k].weight
          /\ k # n => c[k].score \in Int
          /\ k # n /\ k # t => d[k] = c[k]
          /\ k = t => d[k].score = IF x > c[k].score THEN x ELSE c[k].score

\* The other components all have a score.
LEMMA AskedOthers ==
    ASSUME NEW names, NEW c, NEW d, NEW n, NEW t, NEW x, Asked(names, c, d, n, t, x)
    PROVE  /\ \A k \in 1 .. Len(d) : d[k].score \in Int
           /\ RemoveAt(c, n) \in Seq(Parts(names)) /\ RemoveAt(d, n) \in Seq(Parts(names))
           /\ Len(RemoveAt(c, n)) = Len(c) - 1 /\ Len(RemoveAt(d, n)) = Len(c) - 1
           /\ \A k \in 1 .. (Len(c) - 1) :
                 /\ RemoveAt(c, n)[k] = IF k < n THEN c[k] ELSE c[k + 1]
                 /\ RemoveAt(d, n)[k] = IF k < n THEN d[k] ELSE d[k + 1]
                 /\ RemoveAt(c, n)[k].score \in Int
                 /\ RemoveAt(d, n)[k].score \in Int
           /\ Distinct(RemoveAt(c, n))
           /\ AllScored(RemoveAt(c, n)) \/ Unknown \in Int
<1>1. /\ c \in Seq(Parts(names)) /\ d \in Seq(Parts(names)) /\ Len(c) = Len(d)
      /\ n \in 1 .. Len(c) /\ Len(c) \in Nat /\ n \in Nat
  BY DEF Asked
<1>2. \A k \in 1 .. Len(d) : d[k].score \in Int
  BY DEF Asked
<1>3. PICK a, b : a = RemoveAt(c, n) /\ b = RemoveAt(d, n)
  OBVIOUS
<1>4. /\ a \in Seq(Parts(names)) /\ Len(a) = Len(c) - 1 /\ DOMAIN a = 1 .. (Len(c) - 1)
      /\ \A k \in 1 .. (Len(c) - 1) : a[k] = IF k < n THEN c[k] ELSE c[k + 1]
  BY <1>1, <1>3, RemovedIs
<1>5. /\ b \in Seq(Parts(names)) /\ Len(b) = Len(c) - 1
      /\ \A k \in 1 .. (Len(c) - 1) : b[k] = IF k < n THEN d[k] ELSE d[k + 1]
  BY <1>1, <1>3, RemovedIs
<1>6. \A k \in 1 .. (Len(c) - 1) :
          /\ k \in 1 .. Len(c) /\ k + 1 \in 1 .. Len(c)
          /\ k < n => k # n
          /\ ~(k < n) => k + 1 # n
  BY <1>1
<1>7. \A k \in 1 .. (Len(c) - 1) : a[k].score \in Int
  BY <1>4, <1>6 DEF Asked
<1>8. \A k \in 1 .. (Len(c) - 1) : b[k].score \in Int
  BY <1>1, <1>2, <1>5, <1>6
<1>9. ASSUME NEW i \in 1 .. (Len(c) - 1), NEW j \in 1 .. (Len(c) - 1), a[i].name = a[j].name
      PROVE  i = j
  <2>1. PICK p, q : /\ p = IF i < n THEN i ELSE i + 1
                    /\ q = IF j < n THEN j ELSE j + 1
    OBVIOUS
  <2>2. p \in 1 .. Len(c) /\ q \in 1 .. Len(c) /\ c[p].name = c[q].name
    BY <1>4, <1>6, <1>9, <2>1
  <2>3. p = q
    BY <2>2 DEF Asked, Distinct
  <2> QED
    BY <1>1, <2>1, <2>3
<1>10. Distinct(a)
  BY <1>4, <1>9 DEF Distinct
<1>11. Unknown \notin Int => AllScored(a)
  BY <1>4, <1>7 DEF AllScored, ToSet
<1> QED
  BY <1>2, <1>3, <1>4, <1>5, <1>7, <1>8, <1>10, <1>11

\* The grade with the score that was asked for.
LEMMA GradeAsked ==
    ASSUME Unknown \notin Int, NEW names, NEW c, NEW d, NEW n, NEW t, NEW x,
           Asked(names, c, d, n, t, x), NEW g
    PROVE  /\ Whole(g, c) \in Int
           /\ ProjectedGrade(g, d) = [num |-> Contributions(d), den |-> Whole(g, c)]
           /\ Contributions(d) \in Int /\ Contributions(RemoveAt(d, n)) \in Int
           /\ Contributions(d) = Contributions(RemoveAt(d, n)) + x * c[n].weight
<1>1. /\ c \in Seq(Parts(names)) /\ d \in Seq(Parts(names)) /\ Len(c) = Len(d)
      /\ n \in 1 .. Len(c) /\ d[n].score = x /\ d[n].weight = c[n].weight
      /\ DOMAIN c = 1 .. Len(c) /\ DOMAIN d = 1 .. Len(c) /\ Len(c) \in Nat
  BY DEF Asked
<1>2. \A k \in 1 .. Len(c) : c[k].weight \in Int /\ d[k].weight = c[k].weight
  <2>1. \A k \in 1 .. Len(c) : c[k] \in Parts(names)
    BY <1>1
  <2> QED
    BY <2>1 DEF Asked, Parts
<1>3. Weights(c) = Weights(d) /\ Weights(c) \in [1 .. Len(c) -> Int]
  BY <1>1, <1>2 DEF Weights
<1>4. Total(Weights(c)) \in Int
  BY <1>1, <1>3, Listed, TotalRuns, TotalIs
<1>5. Whole(g, c) \in Int /\ Whole(g, d) = Whole(g, c)
  BY <1>3, <1>4 DEF Whole
<1>6. \A k \in 1 .. Len(d) : d[k].score \in Int
  BY AskedOthers
<1>7. AllScored(d)
  BY <1>1, <1>6 DEF AllScored, ToSet
<1>8. /\ Contributions(d) \in Int /\ Contributions(RemoveAt(d, n)) \in Int
      /\ Contributions(d) = Contributions(RemoveAt(d, n)) + d[n].score * d[n].weight
  BY <1>1, <1>6, Contributed
<1> QED
  BY <1>1, <1>5, <1>7, <1>8 DEF ProjectedGrade

\* The rules of a model that meet a component.
Met(g, name) == Chosen(g.rules, {r \in ToSet(Named(g)) : name \in {r.source, r.target}})

\* The solver's answer when no rule meets the component.
LEMMA SolvedWithoutRule ==
    ASSUME NEW g, NEW c, NEW name, NEW goal, NEW n, n = Place(c, name), n # 0, c # Refused,
           ~(c[n].weight <= 0), NEW others, others = RemoveAt(c, n), AllScored(others),
           Met(g, name) = <<>>
    PROVE  Solve(g, c, name, goal)
               = Share(goal * Whole(g, c) - Contributions(others), c[n].weight)
<1>1. PICK a, b, rules, m :
          /\ a = Share(goal * Whole(g, c) - Contributions(others), c[n].weight)
          /\ rules = Met(g, name)
          /\ m = IF Len(rules) = 1 THEN Place(others, rules[1].target) ELSE 0
          /\ b = WithReplacement(goal * Whole(g, c), Contributions(RemoveAt(others, m)), c[n], others[m])
  OBVIOUS
<1>2. Solve(g, c, name, goal) =
          CASE ~AllScored(others) -> Unknown
            [] AllScored(others) /\ rules = <<>> -> a
            [] AllScored(others) /\ m # 0 /\ rules[1].target # name -> b
            [] OTHER -> Unknown
  BY <1>1, Zenon DEF Solve, Met
<1>3. Len(<<>>) # 1
  OBVIOUS
<1>4. rules = <<>> /\ m = 0
  BY <1>1, <1>3
<1> QED
  BY <1>1, <1>2, <1>4

AskedWithRule(g, c, name, n, others, rules, m) ==
    /\ n = Place(c, name) /\ n # 0 /\ c # Refused /\ ~(c[n].weight <= 0)
    /\ others = RemoveAt(c, n) /\ AllScored(others)
    /\ rules = Met(g, name) /\ Len(rules) = 1 /\ rules[1].target # name
    /\ m = Place(others, rules[1].target) /\ m # 0

\* The solver's answer when one rule does.
LEMMA SolvedWithRule ==
    ASSUME NEW g, NEW c, NEW name, NEW goal, NEW n, NEW others, NEW rules, NEW m,
           AskedWithRule(g, c, name, n, others, rules, m)
    PROVE  Solve(g, c, name, goal)
               = WithReplacement(goal * Whole(g, c), Contributions(RemoveAt(others, m)), c[n], others[m])
<1>0. /\ n = Place(c, name) /\ n # 0 /\ c # Refused /\ ~(c[n].weight <= 0)
      /\ others = RemoveAt(c, n) /\ AllScored(others)
      /\ rules = Met(g, name) /\ Len(rules) = 1 /\ rules[1].target # name
      /\ m = Place(others, rules[1].target) /\ m # 0
  BY DEF AskedWithRule
<1>1. PICK a, b : /\ a = Share(goal * Whole(g, c) - Contributions(others), c[n].weight)
                  /\ b = WithReplacement(goal * Whole(g, c), Contributions(RemoveAt(others, m)),
                                         c[n], others[m])
  OBVIOUS
<1>2. m = IF Len(rules) = 1 THEN Place(others, rules[1].target) ELSE 0
  BY <1>0
<1>3. Solve(g, c, name, goal) =
          CASE ~AllScored(others) -> Unknown
            [] AllScored(others) /\ rules = <<>> -> a
            [] AllScored(others) /\ m # 0 /\ rules[1].target # name -> b
            [] OTHER -> Unknown
  BY <1>0, <1>1, <1>2, Zenon DEF Solve, Met
<1>4. rules # <<>>
  BY <1>0
<1> QED
  BY <1>0, <1>1, <1>3, <1>4

\* With the score x in d for the one that is missing in c, the grade reaches
\* the goal when x reaches the answer.
AnswersFor(g, c, d, name, goal, x) ==
    LET answer == Solve(g, c, name, goal)
        grade == ProjectedGrade(g, d)
    IN  /\ answer \in [num : Int, den : Int]
        /\ grade.num >= goal * grade.den <=> x * answer.den >= answer.num

\* Without a rule the answer is the threshold.
LEMMA LinearAnswer ==
    ASSUME Unknown \notin Int, NEW names, Refused \notin Seq(Parts(names)),
           NEW c, NEW d, NEW n, NEW x, Asked(names, c, d, n, 0, x),
           NEW g, Met(g, c[n].name) = <<>>, NEW goal \in Int
    PROVE  AnswersFor(g, c, d, c[n].name, goal, x)
<1>1. /\ c \in Seq(Parts(names)) /\ d \in Seq(Parts(names)) /\ Len(c) = Len(d)
      /\ n \in 1 .. Len(c) /\ x \in Int /\ Distinct(c) /\ c[n].weight > 0 /\ c[n] \in Parts(names)
  BY DEF Asked
<1>2. PICK w, aim, rest : /\ w = c[n].weight /\ aim = goal * Whole(g, c)
                          /\ rest = Contributions(RemoveAt(c, n))
  OBVIOUS
<1>3. w \in Nat /\ w > 0
  BY <1>1, <1>2 DEF Parts
<1>4. /\ Whole(g, c) \in Int
      /\ ProjectedGrade(g, d) = [num |-> Contributions(d), den |-> Whole(g, c)]
      /\ Contributions(RemoveAt(d, n)) \in Int
      /\ Contributions(d) = Contributions(RemoveAt(d, n)) + x * w
  BY <1>2, GradeAsked
<1>5. RemoveAt(c, n) = RemoveAt(d, n)
  <2>1. \A k \in 1 .. (Len(c) - 1) : RemoveAt(c, n)[k] = RemoveAt(d, n)[k]
    <3>1. \A k \in 1 .. (Len(c) - 1) :
              /\ k \in 1 .. Len(c) /\ k + 1 \in 1 .. Len(c) /\ k # 0 /\ k + 1 # 0
              /\ k < n => k # n
              /\ ~(k < n) => k + 1 # n
      BY <1>1
    <3>2. \A k \in 1 .. Len(c) : k # n /\ k # 0 => d[k] = c[k]
      BY DEF Asked
    <3>3. \A k \in 1 .. (Len(c) - 1) :
              /\ RemoveAt(c, n)[k] = IF k < n THEN c[k] ELSE c[k + 1]
              /\ RemoveAt(d, n)[k] = IF k < n THEN d[k] ELSE d[k + 1]
      BY AskedOthers
    <3> QED
      BY <3>1, <3>2, <3>3
  <2>2. /\ RemoveAt(c, n) \in Seq(Parts(names)) /\ RemoveAt(d, n) \in Seq(Parts(names))
        /\ Len(RemoveAt(c, n)) = Len(c) - 1 /\ Len(RemoveAt(d, n)) = Len(c) - 1
    BY AskedOthers
  <2> QED
    BY <2>1, <2>2, SeqEqual
<1>6. rest \in Int /\ aim \in Int /\ Contributions(d) = rest + x * w
  BY <1>2, <1>4, <1>5
<1>7. Solve(g, c, c[n].name, goal) = [num |-> aim - rest, den |-> w]
  <2>1. Place(c, c[n].name) = n
    BY <1>1, PlaceOfIt
  <2>2. c # Refused /\ n # 0 /\ ~(w <= 0) /\ AllScored(RemoveAt(c, n))
    BY <1>1, <1>3, AskedOthers
  <2>3. PICK others : others = RemoveAt(c, n)
    OBVIOUS
  <2>4. Solve(g, c, c[n].name, goal) = Share(goal * Whole(g, c) - Contributions(others), c[n].weight)
    BY <1>2, <2>1, <2>2, <2>3, SolvedWithoutRule
  <2> QED
    BY <1>2, <2>3, <2>4 DEF Share
<1>8. x * w \in Int
  BY <1>1, <1>3
<1>9. Contributions(d) >= aim <=> x * w >= aim - rest
  BY <1>6, <1>8
<1>10. LET answer == Solve(g, c, c[n].name, goal)
           grade == ProjectedGrade(g, d)
       IN  /\ answer \in [num : Int, den : Int]
           /\ grade.num >= goal * grade.den <=> x * answer.den >= answer.num
  BY <1>2, <1>3, <1>4, <1>6, <1>7, <1>9
<1> QED
  BY <1>10 DEF AnswersFor

\* On either side of a rule the answer is the threshold.
LEMMA RuleAnswer ==
    ASSUME Unknown \notin Int, NEW names, Refused \notin Seq(Parts(names)),
           NEW c, NEW d, NEW n, NEW t, NEW x, Asked(names, c, d, n, t, x), t # 0,
           NEW g, Len(Met(g, c[n].name)) = 1, Met(g, c[n].name)[1].target = c[t].name,
           NEW goal \in Int
    PROVE  AnswersFor(g, c, d, c[n].name, goal, x)
<1>1. /\ c \in Seq(Parts(names)) /\ d \in Seq(Parts(names)) /\ Len(c) = Len(d)
      /\ n \in 1 .. Len(c) /\ t \in 1 .. Len(c) /\ t # n /\ x \in Int /\ Distinct(c)
      /\ c[n].weight > 0 /\ c[n] \in Parts(names) /\ c[t] \in Parts(names)
      /\ Len(c) \in Nat /\ n \in Nat /\ t \in Nat
  BY DEF Asked
<1>2. PICK a, b : a = RemoveAt(c, n) /\ b = RemoveAt(d, n)
  OBVIOUS
<1>3. /\ a \in Seq(Parts(names)) /\ b \in Seq(Parts(names))
      /\ Len(a) = Len(c) - 1 /\ Len(b) = Len(c) - 1
      /\ \A k \in 1 .. (Len(c) - 1) :
            /\ a[k] = IF k < n THEN c[k] ELSE c[k + 1]
            /\ b[k] = IF k < n THEN d[k] ELSE d[k + 1]
            /\ b[k].score \in Int
      /\ Distinct(a)
      /\ AllScored(a)
  BY <1>2, AskedOthers
\* Where the replaced component is among the others.
<1>4. PICK m : m = IF t < n THEN t ELSE t - 1
  OBVIOUS
<1>5. /\ m \in 1 .. (Len(c) - 1) /\ m # 0
      /\ t = IF m < n THEN m ELSE m + 1
  BY <1>1, <1>4
<1>6. a[m] = c[t] /\ b[m] = d[t]
  BY <1>3, <1>5
<1>7. Place(a, c[t].name) = m
  <2>1. m \in 1 .. Len(a)
    BY <1>3, <1>5
  <2>2. Place(a, a[m].name) = m
    BY <1>3, <2>1, PlaceOfIt
  <2> QED
    BY <1>6, <2>2
\* The rest of the grade.
<1>8. RemoveAt(a, m) = RemoveAt(b, m)
  <2>1. m \in 1 .. Len(a) /\ m \in 1 .. Len(b) /\ Len(a) = Len(b)
    BY <1>3, <1>5
  <2>2. /\ RemoveAt(a, m) \in Seq(Parts(names)) /\ Len(RemoveAt(a, m)) = Len(a) - 1
        /\ \A k \in 1 .. (Len(a) - 1) : RemoveAt(a, m)[k] = IF k < m THEN a[k] ELSE a[k + 1]
    BY <1>3, <2>1, RemovedIs
  <2>3. /\ RemoveAt(b, m) \in Seq(Parts(names)) /\ Len(RemoveAt(b, m)) = Len(b) - 1
        /\ \A k \in 1 .. (Len(b) - 1) : RemoveAt(b, m)[k] = IF k < m THEN b[k] ELSE b[k + 1]
    BY <1>3, <2>1, RemovedIs
  <2>4. \A k \in 1 .. Len(c) : k # n /\ k # t => d[k] = c[k]
    BY DEF Asked
  <2>5. ASSUME NEW k \in 1 .. (Len(c) - 1), k # m
        PROVE  a[k] = b[k]
    <3>1. PICK j : j = IF k < n THEN k ELSE k + 1
      OBVIOUS
    <3>2. j \in 1 .. Len(c) /\ j # n /\ j # t
      BY <1>1, <1>5, <2>5, <3>1
    <3> QED
      BY <1>3, <2>4, <3>1, <3>2
  <2>6. ASSUME NEW k \in 1 .. (Len(a) - 1)
        PROVE  RemoveAt(a, m)[k] = RemoveAt(b, m)[k]
    <3>1. PICK j : j = IF k < m THEN k ELSE k + 1
      OBVIOUS
    <3>2. j \in 1 .. (Len(c) - 1) /\ j # m
      BY <1>1, <1>3, <1>5, <3>1
    <3>3. a[j] = b[j]
      BY <2>5, <3>2
    <3> QED
      BY <2>1, <2>2, <2>3, <3>1, <3>3
  <2>7. Len(RemoveAt(a, m)) = Len(RemoveAt(b, m))
    BY <2>1, <2>2, <2>3
  <2> QED
    BY <2>2, <2>3, <2>6, <2>7, SeqEqual
<1>9. PICK aim, rest, w, v, o : /\ aim = goal * Whole(g, c) /\ rest = Contributions(RemoveAt(a, m))
                                /\ w = c[n].weight /\ v = c[t].weight /\ o = c[t].score
  OBVIOUS
<1>10. /\ Whole(g, c) \in Int
       /\ ProjectedGrade(g, d) = [num |-> Contributions(d), den |-> Whole(g, c)]
       /\ Contributions(d) \in Int
       /\ Contributions(d) = Contributions(b) + x * w
  BY <1>2, <1>9, GradeAsked
<1>11. /\ Contributions(b) \in Int /\ Contributions(RemoveAt(b, m)) \in Int
       /\ Contributions(b) = Contributions(RemoveAt(b, m)) + b[m].score * b[m].weight
  <2>1. m \in 1 .. Len(b) /\ \A k \in 1 .. Len(b) : b[k].score \in Int
    BY <1>3, <1>5
  <2> QED
    BY <1>3, <2>1, Contributed
<1>12. b[m].weight = v /\ b[m].score = IF x > o THEN x ELSE o
  BY <1>1, <1>6, <1>9 DEF Asked
<1>13. /\ w \in Nat \ {0} /\ v \in Nat /\ o \in Int /\ aim \in Int /\ rest \in Int
  <2>1. w \in Nat /\ v \in Nat /\ w > 0
    BY <1>1, <1>9 DEF Parts
  <2>2. o \in Int
    BY <1>1, <1>9 DEF Asked
  <2> QED
    BY <1>8, <1>9, <1>10, <1>11, <2>1, <2>2
<1>14. Contributions(d) = Reached(rest, x, c[n], c[t])
  <2>1. PICK p, q : p = x * w /\ q = (IF x > o THEN x ELSE o) * v
    OBVIOUS
  <2>2. p \in Int /\ q \in Int
    BY <1>1, <1>13, <2>1
  <2>3. Contributions(b) = rest + q
    BY <1>8, <1>9, <1>11, <1>12, <2>1
  <2>4. Contributions(d) = rest + q + p
    BY <1>10, <2>1, <2>3
  <2>5. Reached(rest, x, c[n], c[t]) = rest + p + q
    BY <1>9, <2>1 DEF Reached
  <2> QED
    BY <1>13, <2>2, <2>4, <2>5
<1>15. PICK answer : answer = WithReplacement(aim, rest, c[n], c[t])
  OBVIOUS
<1>16. /\ answer \in [num : Int, den : Nat \ {0}]
       /\ Reached(rest, x, c[n], c[t]) >= aim <=> x * answer.den >= answer.num
  <2>1. c[n].weight \in Nat \ {0} /\ c[t].weight \in Nat /\ c[t].score \in Int
    BY <1>9, <1>13
  <2> QED
    BY <1>1, <1>13, <1>15, <2>1, SolverIsExact
<1>17. Solve(g, c, c[n].name, goal) = answer
  <2>1. PICK name, rules : name = c[n].name /\ rules = Met(g, name)
    OBVIOUS
  <2>2. n = Place(c, name) /\ n # 0 /\ c # Refused /\ ~(c[n].weight <= 0)
    <3>1. n = Place(c, name)
      BY <1>1, <2>1, PlaceOfIt
    <3> QED
      BY <1>1, <1>9, <1>13, <3>1
  <2>3. Len(rules) = 1 /\ rules[1].target = c[t].name
    BY <2>1
  <2>4. m = Place(a, rules[1].target) /\ m # 0
    BY <1>5, <1>7, <2>3
  <2>5. rules[1].target # name
    BY <1>1, <2>1, <2>3 DEF Distinct
  <2>6. AllScored(a)
    BY <1>3
  <2>7. Solve(g, c, name, goal)
            = WithReplacement(goal * Whole(g, c), Contributions(RemoveAt(a, m)), c[n], a[m])
    <3>1. AskedWithRule(g, c, name, n, a, rules, m)
      BY <1>2, <2>1, <2>2, <2>3, <2>4, <2>5, <2>6 DEF AskedWithRule
    <3> QED
      BY <3>1, SolvedWithRule
  <2> QED
    BY <1>6, <1>9, <1>15, <2>1, <2>7
<1>18. /\ answer \in [num : Int, den : Int]
       /\ ProjectedGrade(g, d).num >= goal * ProjectedGrade(g, d).den
             <=> x * answer.den >= answer.num
  BY <1>9, <1>10, <1>14, <1>16
<1> QED
  BY <1>17, <1>18 DEF AnswersFor

-----------------------------------------------------------------------------
(* One more score on the sheet.                                            *)

\* Items that carry scores, with these weights.
Carrying(items, weights, entries) ==
    [i \in DOMAIN items |-> Component(items[i], weights[i], ScoreOf(entries, items[i].name))]

Proper(entries) == \A n \in DOMAIN entries : entries[n].score \in Int /\ entries[n].done \in BOOLEAN

\* Items that carry scores are components.
LEMMA CarryingIs ==
    ASSUME NEW names, NEW T, NEW items \in Seq(T), NEW weights, NEW entries, Proper(entries),
           \A i \in 1 .. Len(items) : items[i].name \in names /\ weights[i] \in Nat
    PROVE  /\ Carrying(items, weights, entries) \in Seq(Parts(names))
           /\ Len(Carrying(items, weights, entries)) = Len(items)
           /\ \A i \in 1 .. Len(items) :
                 /\ Carrying(items, weights, entries)[i].name = items[i].name
                 /\ Carrying(items, weights, entries)[i].score = ScoreOf(entries, items[i].name).score
<1>1. Len(items) \in Nat /\ DOMAIN items = 1 .. Len(items)
  OBVIOUS
<1>2. \A name : /\ ScoreOf(entries, name).score \in Int \cup {Unknown}
                /\ ScoreOf(entries, name).done \in BOOLEAN
  BY DEF ScoreOf, Unscored, Proper
<1>3. PICK c : c = Carrying(items, weights, entries)
  OBVIOUS
<1>4. c = [i \in 1 .. Len(items) |->
             [name |-> items[i].name, weight |-> weights[i],
              score |-> ScoreOf(entries, items[i].name).score,
              done |-> ScoreOf(entries, items[i].name).done]]
  BY <1>1, <1>3 DEF Carrying, Component
<1>5. c \in [1 .. Len(items) -> Parts(names)]
  BY <1>2, <1>4 DEF Parts
<1>6. c \in Seq(Parts(names)) /\ Len(c) = Len(items)
  BY <1>1, <1>5, Listed
<1> QED
  BY <1>3, <1>4, <1>6

\* The components with a score for the one of this name.
Filled(c, name, x) ==
    [k \in DOMAIN c |->
        IF c[k].name = name
          THEN [name |-> name, weight |-> c[k].weight, score |-> x, done |-> TRUE]
          ELSE c[k]]

\* One more score is entered.
Adds(before, after, name, x) ==
    \A other : ScoreOf(after, other) = IF other = name THEN [score |-> x, done |-> TRUE]
                                                       ELSE ScoreOf(before, other)

\* One more score fills the component of that name.
LEMMA CarryingFilled ==
    ASSUME NEW items, NEW weights, NEW before, NEW after, NEW name, NEW x,
           Adds(before, after, name, x)
    PROVE  Carrying(items, weights, after) = Filled(Carrying(items, weights, before), name, x)
<1>1. PICK c, d : c = Carrying(items, weights, before) /\ d = Carrying(items, weights, after)
  OBVIOUS
<1>2. /\ DOMAIN c = DOMAIN items
      /\ \A k \in DOMAIN items :
            c[k] = [name |-> items[k].name, weight |-> weights[k],
                    score |-> ScoreOf(before, items[k].name).score,
                    done |-> ScoreOf(before, items[k].name).done]
  BY <1>1 DEF Carrying, Component
<1>3. d = [k \in DOMAIN items |->
             [name |-> items[k].name, weight |-> weights[k],
              score |-> ScoreOf(after, items[k].name).score,
              done |-> ScoreOf(after, items[k].name).done]]
  BY <1>1 DEF Carrying, Component
<1>4. ASSUME NEW k \in DOMAIN items
      PROVE  [name |-> items[k].name, weight |-> weights[k],
              score |-> ScoreOf(after, items[k].name).score,
              done |-> ScoreOf(after, items[k].name).done]
                 = IF c[k].name = name THEN [name |-> name, weight |-> c[k].weight, score |-> x, done |-> TRUE] ELSE c[k]
  <2>1. PICK p, q : p = ScoreOf(before, items[k].name) /\ q = ScoreOf(after, items[k].name)
    OBVIOUS
  <2>2. q = IF items[k].name = name THEN [score |-> x, done |-> TRUE] ELSE p
    BY <2>1 DEF Adds
  <2>3. c[k] = [name |-> items[k].name, weight |-> weights[k], score |-> p.score, done |-> p.done]
    BY <1>2, <2>1
  <2>4. [name |-> items[k].name, weight |-> weights[k], score |-> q.score, done |-> q.done]
            = IF c[k].name = name THEN [name |-> name, weight |-> c[k].weight, score |-> x, done |-> TRUE] ELSE c[k]
    <3>1. CASE items[k].name = name
      <4>1. q.score = x /\ q.done = TRUE
        BY <2>2, <3>1
      <4>2. c[k].name = name /\ c[k].weight = weights[k]
        BY <2>3, <3>1
      <4> QED
        BY <3>1, <4>1, <4>2
    <3>2. CASE items[k].name # name
      <4>1. c[k].name # name
        BY <2>3, <3>2
      <4> QED
        BY <2>2, <2>3, <3>2, <4>1
    <3> QED
      BY <3>1, <3>2
  <2> QED
    BY <2>1, <2>4
<1>5. d = Filled(c, name, x)
  BY <1>2, <1>3, <1>4 DEF Filled
<1> QED
  BY <1>1, <1>5

\* Components of other names stay as they are.
LEMMA NothingFilled ==
    ASSUME NEW T, NEW c \in Seq(T), NEW name, NEW x, \A k \in 1 .. Len(c) : c[k].name # name
    PROVE  Filled(c, name, x) = c
<1>1. DOMAIN c = 1 .. Len(c) /\ c = [k \in 1 .. Len(c) |-> c[k]]
  OBVIOUS
<1> QED
  BY <1>1 DEF Filled

\* Intervals that are equal end at the same number.
LEMMA SameLength ==
    ASSUME NEW m \in Nat, NEW n \in Nat, 1 .. m = 1 .. n
    PROVE  m = n
<1>1. m # 0 => m \in 1 .. n
  <2>1. m # 0 => m \in 1 .. m
    OBVIOUS
  <2> QED
    BY <2>1
<1>2. n # 0 => n \in 1 .. m
  <2>1. n # 0 => n \in 1 .. n
    OBVIOUS
  <2> QED
    BY <2>1
<1> QED
  BY <1>1, <1>2

\* Two lists are filled like one.
LEMMA FilledConcat ==
    ASSUME NEW T, NEW a \in Seq(T), NEW b \in Seq(T), NEW name, NEW x,
           Filled(a, name, x) \in Seq(T), Filled(b, name, x) \in Seq(T)
    PROVE  Filled(a \o b, name, x) = Filled(a, name, x) \o Filled(b, name, x)
<1>0. PICK c, d, e : c = Filled(a, name, x) /\ d = Filled(b, name, x) /\ e = a \o b
  OBVIOUS
<1>1. /\ Len(a) \in Nat /\ Len(b) \in Nat
      /\ DOMAIN a = 1 .. Len(a) /\ DOMAIN b = 1 .. Len(b)
      /\ DOMAIN c = 1 .. Len(c) /\ DOMAIN d = 1 .. Len(d) /\ Len(c) \in Nat /\ Len(d) \in Nat
  BY <1>0
<1>2. Len(c) = Len(a) /\ Len(d) = Len(b)
  <2>1. DOMAIN c = DOMAIN a /\ DOMAIN d = DOMAIN b
    BY <1>0 DEF Filled
  <2>2. 1 .. Len(c) = 1 .. Len(a) /\ 1 .. Len(d) = 1 .. Len(b)
    BY <1>1, <2>1
  <2>3. Len(c) = Len(a)
    BY <1>1, <2>2, SameLength
  <2>4. Len(d) = Len(b)
    BY <1>1, <2>2, SameLength
  <2> QED
    BY <2>3, <2>4
<1>3. /\ e \in Seq(T) /\ Len(e) = Len(a) + Len(b)
      /\ \A k \in 1 .. (Len(a) + Len(b)) : e[k] = IF k <= Len(a) THEN a[k] ELSE b[k - Len(a)]
  BY <1>0, Concatenated
<1>4. /\ c \o d \in Seq(T) /\ Len(c \o d) = Len(c) + Len(d)
      /\ \A k \in 1 .. (Len(c) + Len(d)) : (c \o d)[k] = IF k <= Len(c) THEN c[k] ELSE d[k - Len(c)]
  <2>1. c \in Seq(T) /\ d \in Seq(T)
    BY <1>0
  <2> QED
    BY <2>1, Concatenated
<1> DEFINE fill(r) == IF r.name = name THEN [name |-> name, weight |-> r.weight, score |-> x, done |-> TRUE] ELSE r
<1>5. PICK f, h : f = Filled(e, name, x) /\ h = c \o d
  OBVIOUS
<1>6. /\ f = [k \in 1 .. (Len(a) + Len(b)) |-> f[k]]
      /\ \A k \in 1 .. (Len(a) + Len(b)) : f[k] = fill(e[k])
  <2>1. DOMAIN e = 1 .. (Len(a) + Len(b))
    BY <1>3
  <2> QED
    BY <1>5, <2>1 DEF Filled
<1>7. /\ \A k \in 1 .. Len(a) : c[k] = fill(a[k])
      /\ \A k \in 1 .. Len(b) : d[k] = fill(b[k])
  BY <1>0, <1>1 DEF Filled
<1> HIDE DEF fill
<1>8. ASSUME NEW k \in 1 .. (Len(a) + Len(b))
      PROVE  f[k] = h[k]
  <2>1. CASE k <= Len(a)
    <3>1. k \in 1 .. Len(a) /\ e[k] = a[k] /\ h[k] = c[k]
      BY <1>1, <1>2, <1>3, <1>4, <1>5, <2>1
    <3> QED
      BY <1>6, <1>7, <3>1
  <2>2. CASE ~(k <= Len(a))
    <3>1. k - Len(a) \in 1 .. Len(b) /\ e[k] = b[k - Len(a)] /\ h[k] = d[k - Len(a)]
      BY <1>1, <1>2, <1>3, <1>4, <1>5, <2>2
    <3> QED
      BY <1>6, <1>7, <3>1
  <2> QED
    BY <2>1, <2>2
<1>9. h = [k \in 1 .. (Len(a) + Len(b)) |-> h[k]]
  <2>1. DOMAIN h = 1 .. (Len(a) + Len(b)) /\ h \in Seq(T)
    BY <1>2, <1>4, <1>5
  <2> QED
    BY <2>1
<1>10. f = h
  BY <1>6, <1>8, <1>9
<1> QED
  BY <1>0, <1>5, <1>10

\* As many items as names, when no name occurs twice.
LEMMA CountedByNames ==
    ASSUME NEW T, NEW items \in Seq(T), Distinct(items)
    PROVE  Cardinality(Names(items)) = Len(items)
<1> DEFINE n == Len(items)
           f == [i \in 1 .. n |-> items[i].name]
<1>1. n \in Nat /\ DOMAIN items = 1 .. n
  OBVIOUS
<1>2. Names(items) = {f[i] : i \in 1 .. n}
  BY <1>1 DEF Names
<1>3. IsFiniteSet(1 .. n) /\ Cardinality(1 .. n) = n
  <2> HIDE DEF n
  <2>1. /\ IsFiniteSet(1 .. n)
        /\ Cardinality(1 .. n) = IF 1 > n THEN 0 ELSE n - 1 + 1
    BY <1>1, FS_Interval
  <2> QED
    BY <1>1, <2>1
<1>4. f \in Bijection(1 .. n, Names(items))
  <2>1. \A i, j \in 1 .. n : f[i] = f[j] => i = j
    BY DEF Distinct
  <2> QED
    BY <1>2, <2>1 DEF Bijection, Injection, Surjection, IsInjective
<1>5. Cardinality(Names(items)) = Cardinality(1 .. n)
  <2> HIDE DEF f, n
  <2> QED
    BY <1>3, <1>4, FS_Bijection DEF ExistsBijection
<1> QED
  BY <1>3, <1>5

\* What reconciliation and validation leave of a model of which every component
\* has a name of its own.
Askable(g) ==
    /\ Weighable(g) /\ Unambiguous(g)
    /\ \A c \in ToSet(g.categories) : c.weight \in Nat \cup {Unknown}
    /\ \A a \in ToSet(g.assessments) : {a.weight, a.points} \subseteq Nat \cup {Unknown}

\* Nothing shares a name with anything else.
LEMMA OwnNames ==
    ASSUME NEW g, Askable(g)
    PROVE  /\ Distinct(g.categories) /\ Distinct(g.assessments) /\ NamesakesApart(g)
           /\ \A c \in ToSet(g.categories), a \in ToSet(g.assessments) : c.name # a.name
<1>1. PICK C, A, S : C = g.categories /\ A = g.assessments /\ S = C \o A
  OBVIOUS
<1>2. C \in Seq(ToSet(C)) /\ A \in Seq(ToSet(A)) /\ Distinct(C)
  BY <1>1 DEF Askable, Weighable
<1>3. PICK T : T = ToSet(C) \cup ToSet(A)
  OBVIOUS
<1>4. C \in Seq(T) /\ A \in Seq(T)
  BY <1>2, <1>3
<1>5. /\ S \in Seq(T) /\ Len(S) = Len(C) + Len(A) /\ Len(C) \in Nat /\ Len(A) \in Nat
      /\ \A k \in 1 .. (Len(C) + Len(A)) : S[k] = IF k <= Len(C) THEN C[k] ELSE A[k - Len(C)]
  <2>1. /\ C \o A \in Seq(T) /\ Len(C \o A) = Len(C) + Len(A)
        /\ \A k \in 1 .. (Len(C) + Len(A)) :
              (C \o A)[k] = IF k <= Len(C) THEN C[k] ELSE A[k - Len(C)]
    BY <1>4, Concatenated
  <2>2. Len(C) \in Nat /\ Len(A) \in Nat /\ S = C \o A
    BY <1>1, <1>4
  <2> QED
    BY <2>1, <2>2
<1>6. Distinct(S)
  <2>1. Cardinality(Names(S)) = Len(S)
    BY <1>1 DEF Askable, Unambiguous
  <2> QED
    BY <1>5, <2>1, DistinctByCount
<1>7. /\ \A i \in 1 .. Len(C) : i \in 1 .. Len(S) /\ S[i] = C[i]
      /\ \A j \in 1 .. Len(A) : Len(C) + j \in 1 .. Len(S) /\ S[Len(C) + j] = A[j]
  <2>1. \A i \in 1 .. Len(C) : i \in 1 .. Len(S) /\ S[i] = C[i]
    BY <1>5
  <2>2. ASSUME NEW j \in 1 .. Len(A)
        PROVE  Len(C) + j \in 1 .. Len(S) /\ S[Len(C) + j] = A[j]
    <3>1. Len(C) + j \in 1 .. (Len(C) + Len(A)) /\ ~(Len(C) + j <= Len(C)) /\ Len(C) + j - Len(C) = j
      BY <1>5
    <3> QED
      BY <1>5, <3>1
  <2> QED
    BY <2>1, <2>2
<1>8. Distinct(A)
  <2>1. ASSUME NEW i \in 1 .. Len(A), NEW j \in 1 .. Len(A), A[i].name = A[j].name
        PROVE  i = j
    <3>1. PICK p, q : p = Len(C) + i /\ q = Len(C) + j
      OBVIOUS
    <3>2. p \in 1 .. Len(S) /\ q \in 1 .. Len(S) /\ S[p].name = S[q].name
      BY <1>7, <2>1, <3>1
    <3>3. p = q
      BY <1>6, <3>2 DEF Distinct
    <3> QED
      BY <1>5, <3>1, <3>3
  <2> QED
    BY <2>1 DEF Distinct
<1>9. ASSUME NEW c \in ToSet(C), NEW a \in ToSet(A)
      PROVE  c.name # a.name
  <2>0. DOMAIN C = 1 .. Len(C) /\ DOMAIN A = 1 .. Len(A)
    BY <1>2
  <2>1. PICK i \in 1 .. Len(C) : c = C[i]
    BY <2>0 DEF ToSet
  <2>2. PICK j \in 1 .. Len(A) : a = A[j]
    BY <2>0 DEF ToSet
  <2>3. i # Len(C) + j
    BY <1>5
  <2> QED
    BY <1>6, <1>7, <2>1, <2>2, <2>3 DEF Distinct
<1>10. NamesakesApart(g)
  <2>1. PICK P, single : P = Standalone(g) /\ single = {a \in ToSet(A) : a.weight # Unknown /\ a.category = Unknown}
    OBVIOUS
  <2>2. P = Chosen(A, single)
    BY <1>1, <2>1 DEF Standalone
  <2>3. \A i, j \in 1 .. Len(A) :
            A[i] \in single /\ A[j] \in single /\ A[i].name = A[j].name => i = j
    BY <1>8 DEF Distinct
  <2>4. P \in Seq(ToSet(A)) /\ Distinct(P)
    BY <1>2, <2>2, <2>3, ChosenPlaces, ChosenDistinct
  <2> QED
    BY <2>1, <2>4, CountedByNames DEF NamesakesApart
<1> QED
  BY <1>1, <1>2, <1>8, <1>9, <1>10

\* What is chosen is among the items and among these.
LEMMA PickedItems ==
    ASSUME NEW T, NEW items \in Seq(T), NEW these
    PROVE  \A k \in 1 .. Len(Chosen(items, these)) :
               Chosen(items, these)[k] \in ToSet(items) /\ Chosen(items, these)[k] \in these
<1>1. PICK c : c = Chosen(items, these)
  OBVIOUS
<1>2. c \in Seq(T) /\ DOMAIN c = 1 .. Len(c) /\ ToSet(c) = ToSet(items) \cap these
  BY <1>1, ChosenPlaces, ChosenMembers
<1>3. \A k \in 1 .. Len(c) : c[k] \in ToSet(c)
  BY <1>2 DEF ToSet
<1> QED
  BY <1>1, <1>2, <1>3

\* What is scored as a whole.
LEMMA WholeItems ==
    ASSUME NEW g, Askable(g), NEW split, NEW k \in 1 .. Len(ByCategory(g, split))
    PROVE  /\ ByCategory(g, split)[k] \in ToSet(g.categories)
           /\ ByCategory(g, split)[k].weight \in Nat
           /\ ByCategory(g, split)[k].name \in Names(WeightedCategories(g)) \ split
<1>1. PICK C, W : C = g.categories /\ W = WeightedCategories(g)
  OBVIOUS
<1>2. C \in Seq(ToSet(C)) /\ \A c \in ToSet(C) : c.weight \in Nat \cup {Unknown}
  BY <1>1 DEF Askable, Weighable
<1>3. W = Chosen(C, Heavy(C)) /\ W \in Seq(ToSet(C))
  BY <1>1, <1>2, ChosenPlaces DEF WeightedCategories, Heavy
<1>4. \A j \in 1 .. Len(W) : W[j] \in ToSet(C) /\ W[j] \in Heavy(C)
  BY <1>2, <1>3, PickedItems
<1>5. PICK rest : rest = {c \in ToSet(C) : c.name \notin split}
  OBVIOUS
<1>6. PICK b : b = ByCategory(g, split)
  OBVIOUS
<1>7. b = Chosen(W, rest)
  BY <1>1, <1>5, <1>6 DEF ByCategory
<1>8. b[k] \in ToSet(W) /\ b[k] \in rest
  BY <1>3, <1>6, <1>7, PickedItems
<1>9. PICK j \in 1 .. Len(W) : b[k] = W[j]
  <2>1. DOMAIN W = 1 .. Len(W)
    BY <1>3
  <2> QED
    BY <1>8, <2>1 DEF ToSet
<1>10. b[k] \in Heavy(C) /\ b[k].name \in Names(W)
  <2>1. DOMAIN W = 1 .. Len(W)
    BY <1>3
  <2> QED
    BY <1>4, <1>9, <2>1 DEF Names
<1> QED
  BY <1>1, <1>2, <1>5, <1>6, <1>8, <1>10 DEF Heavy

\* What is scored one assessment at a time.
LEMMA PartItems ==
    ASSUME NEW g, Askable(g), NEW sheet, NEW split, split = Split(g, sheet),
           NEW k \in 1 .. Len(ByPart(g, split))
    PROVE  /\ ByPart(g, split)[k] \in ToSet(g.assessments)
           /\ ByPart(g, split)[k].weight \in Nat
           /\ ByPart(g, split)[k].category \in split \cup {Unknown}
<1>1. PICK A, single, P, Q : /\ A = g.assessments
                             /\ single = {a \in ToSet(A) : a.weight # Unknown /\ a.category = Unknown}
                             /\ P = Standalone(g) /\ Q = Within(g, split)
  OBVIOUS
<1>2. A \in Seq(ToSet(A)) /\ \A a \in ToSet(A) : a.weight \in Nat \cup {Unknown}
  BY <1>1 DEF Askable, Weighable
<1>3. P = Chosen(A, single) /\ Q = Chosen(A, Under(A, split))
  BY <1>1 DEF Standalone, Within, Under
<1>4. P \in Seq(ToSet(A)) /\ Q \in Seq(ToSet(A)) /\ Len(P) \in Nat /\ Len(Q) \in Nat
  BY <1>2, <1>3, ChosenPlaces
<1>5. \A j \in 1 .. Len(P) : P[j] \in ToSet(A) /\ P[j] \in single
  BY <1>2, <1>3, PickedItems
<1>6. \A j \in 1 .. Len(Q) : Q[j] \in ToSet(A) /\ Q[j] \in Under(A, split)
  BY <1>2, <1>3, PickedItems
<1>7. \A a \in Under(A, split) : a.weight # Unknown
  <2>1. ASSUME NEW a \in Under(A, split)
        PROVE  a.weight # Unknown
    <3>1. a.category \in split /\ a \in ToSet(A)
      BY <2>1 DEF Under
    <3>2. PICK c \in ToSet(g.categories) : c.name = a.category /\ Decomposable(g, c)
      BY <3>1, SplitParts DEF Askable
    <3> QED
      BY <1>1, <3>1, <3>2, PartsHaveWeights DEF Askable
  <2> QED
    BY <2>1
<1>8. \A a \in single \cup Under(A, split) :
          a \in ToSet(A) /\ a.weight \in Nat /\ a.category \in split \cup {Unknown}
  <2>1. \A a \in single : a \in ToSet(A) /\ a.weight # Unknown /\ a.category = Unknown
    BY <1>1
  <2>2. \A a \in Under(A, split) : a \in ToSet(A) /\ a.category \in split
    BY DEF Under
  <2> QED
    BY <1>2, <1>7, <2>1, <2>2
<1>9. PICK b : b = ByPart(g, split)
  OBVIOUS
<1>10. /\ Len(b) = Len(P) + Len(Q)
       /\ \A j \in 1 .. (Len(P) + Len(Q)) : b[j] = IF j <= Len(P) THEN P[j] ELSE Q[j - Len(P)]
  <2>1. /\ Len(P \o Q) = Len(P) + Len(Q)
        /\ \A j \in 1 .. (Len(P) + Len(Q)) : (P \o Q)[j] = IF j <= Len(P) THEN P[j] ELSE Q[j - Len(P)]
    BY <1>4, Concatenated
  <2>2. b = P \o Q
    BY <1>1, <1>9 DEF ByPart
  <2> QED
    BY <2>1, <2>2
<1>11. b[k] \in single \cup Under(A, split)
  <2>1. k \in 1 .. (Len(P) + Len(Q))
    BY <1>9, <1>10
  <2>2. \/ k <= Len(P) /\ k \in 1 .. Len(P)
        \/ ~(k <= Len(P)) /\ k - Len(P) \in 1 .. Len(Q)
    BY <1>4, <2>1
  <2> QED
    BY <1>5, <1>6, <1>10, <2>1, <2>2
<1> QED
  BY <1>1, <1>8, <1>9, <1>11

\* An item's name is among the names.
LEMMA NamesOf ==
    ASSUME NEW T, NEW items \in Seq(T), NEW item \in ToSet(items)
    PROVE  item.name \in Names(items)
  BY DEF ToSet, Names

\* Every component of a weighted model has a name of its own.
LEMMA WeightedIs ==
    ASSUME NEW g, Askable(g), NEW sheet, Proper(sheet.categories), Proper(sheet.assessments),
           NEW split, split = Split(g, sheet),
           NEW a, a = Weighed(ByCategory(g, split), sheet.categories),
           NEW b, b = Weighed(ByPart(g, split), sheet.assessments)
    PROVE  /\ a \in Seq(ComponentsOf(g)) /\ b \in Seq(ComponentsOf(g))
           /\ \A k \in 1 .. Len(a) : /\ a[k].name \in Names(WeightedCategories(g)) \ split
                                     /\ \E c \in ToSet(g.categories) : c.name = a[k].name
           /\ Names(b) = Names(ByPart(g, split))
           /\ \A k \in 1 .. Len(b) : \E c \in ToSet(g.assessments) : c.name = b[k].name
           /\ a \o b \in Seq(ComponentsOf(g)) /\ Distinct(a \o b)
<1>1. PICK C, P, names : /\ C = ByCategory(g, split) /\ P = ByPart(g, split)
                         /\ names = Names(g.categories) \cup Names(g.assessments)
  OBVIOUS
<1>2. ComponentsOf(g) = Parts(names)
  BY <1>1 DEF ComponentsOf, Parts
<1>3. Weighable(g) /\ NamesakesApart(g)
  BY OwnNames DEF Askable
<1>4. /\ C \in Seq(ToSet(g.categories)) /\ Distinct(C)
      /\ P \in Seq(ToSet(g.assessments)) /\ Distinct(P)
      /\ DOMAIN C = 1 .. Len(C) /\ DOMAIN P = 1 .. Len(P)
  BY <1>1, <1>3, WeightedAre
<1>5. \A k \in 1 .. Len(C) : /\ C[k] \in ToSet(g.categories) /\ C[k].weight \in Nat
                             /\ C[k].name \in Names(WeightedCategories(g)) \ split
  BY <1>1, WholeItems
<1>6. \A k \in 1 .. Len(P) : P[k] \in ToSet(g.assessments) /\ P[k].weight \in Nat
  BY <1>1, PartItems
<1>7. g.categories \in Seq(ToSet(g.categories)) /\ g.assessments \in Seq(ToSet(g.assessments))
  BY <1>3 DEF Weighable
<1>8. \A k \in 1 .. Len(C) : C[k].name \in names
  BY <1>1, <1>5, <1>7, NamesOf
<1>9. \A k \in 1 .. Len(P) : P[k].name \in names
  BY <1>1, <1>6, <1>7, NamesOf
<1>10. /\ a = Carrying(C, Weights(C), sheet.categories)
       /\ b = Carrying(P, Weights(P), sheet.assessments)
  BY <1>1 DEF Weighed, Carrying, Weights
<1>11. /\ \A k \in 1 .. Len(C) : C[k].name \in names /\ Weights(C)[k] \in Nat
       /\ \A k \in 1 .. Len(P) : P[k].name \in names /\ Weights(P)[k] \in Nat
  BY <1>4, <1>5, <1>6, <1>8, <1>9 DEF Weights
<1>12. /\ a \in Seq(Parts(names)) /\ Len(a) = Len(C)
       /\ \A k \in 1 .. Len(C) : a[k].name = C[k].name
  BY <1>4, <1>10, <1>11, CarryingIs
<1>13. /\ b \in Seq(Parts(names)) /\ Len(b) = Len(P)
       /\ \A k \in 1 .. Len(P) : b[k].name = P[k].name
  BY <1>4, <1>10, <1>11, CarryingIs
<1>14. \A k \in 1 .. Len(a) : /\ a[k].name \in Names(WeightedCategories(g)) \ split
                              /\ \E c \in ToSet(g.categories) : c.name = a[k].name
  BY <1>5, <1>12
<1>15. \A k \in 1 .. Len(b) : \E c \in ToSet(g.assessments) : c.name = b[k].name
  BY <1>6, <1>13
<1>16. Names(b) = Names(P)
  <2>1. DOMAIN b = 1 .. Len(P)
    BY <1>13
  <2> QED
    BY <1>4, <1>13, <2>1 DEF Names
<1>17. Distinct(a) /\ Distinct(b)
  BY <1>4, <1>12, <1>13 DEF Distinct
<1>18. \A i \in 1 .. Len(a), j \in 1 .. Len(b) : a[i].name # b[j].name
  BY <1>14, <1>15, OwnNames
<1>19. Distinct(a \o b)
  BY <1>12, <1>13, <1>17, <1>18, ConcatDistinct
<1>20. a \o b \in Seq(Parts(names))
  BY <1>12, <1>13, Concatenated
<1> QED
  BY <1>1, <1>2, <1>12, <1>13, <1>14, <1>15, <1>16, <1>19, <1>20

\* One more entry adds its score.
LEMMA EntryAdds ==
    ASSUME NEW g, NEW x, NEW name, NEW before
    PROVE  Adds(before, With(g, before, name, x), name, x)
<1>0. PICK after : after = With(g, before, name, x)
  OBVIOUS
<1>1. after = [n \in DOMAIN before \cup {name} |-> IF n = name THEN Entered(g, x) ELSE before[n]]
  BY <1>0 DEF With
<1>2. DOMAIN after = DOMAIN before \cup {name}
  BY <1>1
<1>3. after[name] = Entered(g, x) /\ \A n \in DOMAIN before : n # name => after[n] = before[n]
  BY <1>1
<1>4. Entered(g, x).score = x /\ Entered(g, x).done = TRUE
  BY DEF Entered
<1>5. Adds(before, after, name, x)
  BY <1>2, <1>3, <1>4 DEF Adds, ScoreOf
<1> QED
  BY <1>0, <1>5

\* Which of the two dicts the score goes to.
LEMMA WithScoreIs ==
    ASSUME NEW g, NEW x, NEW name, NEW X, NEW Y, NEW sheet \in [categories : X, assessments : Y],
           NEW after, after = WithScore(g, sheet, name, x)
    PROVE  IF g.method # "points" /\ name \in Names(WeightedCategories(g)) \ Split(g, sheet)
             THEN /\ after.categories = With(g, sheet.categories, name, x)
                  /\ after.assessments = sheet.assessments
             ELSE /\ after.assessments = With(g, sheet.assessments, name, x)
                  /\ after.categories = sheet.categories
<1>1. PICK p, q : /\ p = With(g, sheet.categories, name, x)
                  /\ q = With(g, sheet.assessments, name, x)
  OBVIOUS
<1>2. after = IF g.method # "points" /\ name \in Names(WeightedCategories(g)) \ Split(g, sheet)
                THEN [sheet EXCEPT !.categories = p] ELSE [sheet EXCEPT !.assessments = q]
  BY <1>1 DEF WithScore
<1>3. /\ [sheet EXCEPT !.categories = p].categories = p
      /\ [sheet EXCEPT !.categories = p].assessments = sheet.assessments
      /\ [sheet EXCEPT !.assessments = q].assessments = q
      /\ [sheet EXCEPT !.assessments = q].categories = sheet.categories
  OBVIOUS
<1> QED
  BY <1>1, <1>2, <1>3

\* A score for a part splits no other category.
LEMMA SplitKept ==
    ASSUME NEW g, Askable(g), NEW sheet, NEW after, NEW name,
           name \in Names(ByPart(g, Split(g, sheet))),
           DOMAIN after.assessments = DOMAIN sheet.assessments \cup {name}
    PROVE  Split(g, after) = Split(g, sheet)
<1>1. PICK split, P, A, D : /\ split = Split(g, sheet) /\ P = ByPart(g, split)
                            /\ A = g.assessments /\ D = DOMAIN sheet.assessments
  OBVIOUS
<1>2. /\ Weighable(g) /\ NamesakesApart(g) /\ Distinct(A) /\ A \in Seq(ToSet(A))
      /\ \A c \in ToSet(g.categories) : c.name # Unknown
  BY <1>1, OwnNames DEF Askable, Weighable
<1>3. DOMAIN P = 1 .. Len(P) /\ DOMAIN A = 1 .. Len(A)
  <2>1. ByPart(g, split) \in Seq(ToSet(g.assessments))
    BY <1>1, <1>2, WeightedAre
  <2>2. P \in Seq(ToSet(A))
    BY <1>1, <2>1
  <2> QED
    BY <1>2, <2>2
<1>4. PICK k \in 1 .. Len(P) : P[k].name = name
  BY <1>1, <1>3 DEF Names
<1>5. P[k] \in ToSet(A) /\ P[k].category \in split \cup {Unknown}
  BY <1>1, PartItems
<1>6. ASSUME NEW c \in ToSet(g.categories), Decomposable(g, c), name \in Names(Children(g, c))
      PROVE  Names(Children(g, c)) \cap D # {}
  <2>1. PICK B : B = Children(g, c)
    OBVIOUS
  <2>2. B = Chosen(A, Under(A, {c.name}))
    BY <1>1, <1>2, <1>6, <2>1, PartsHaveWeights
  <2>3. B \in Seq(ToSet(A)) /\ \A j \in 1 .. Len(B) : B[j] \in ToSet(A) /\ B[j] \in Under(A, {c.name})
    BY <1>2, <2>2, ChosenPlaces, PickedItems
  <2>4. PICK j \in 1 .. Len(B) : B[j].name = name
    <3>1. DOMAIN B = 1 .. Len(B)
      BY <2>3
    <3> QED
      BY <1>6, <2>1, <3>1 DEF Names
  <2>5. B[j] = P[k]
    <3>1. PICK i \in 1 .. Len(A) : B[j] = A[i]
      BY <1>3, <2>3 DEF ToSet
    <3>2. PICK m \in 1 .. Len(A) : P[k] = A[m]
      BY <1>3, <1>5 DEF ToSet
    <3>3. i = m
      BY <1>2, <1>4, <2>4, <3>1, <3>2 DEF Distinct
    <3> QED
      BY <3>1, <3>2, <3>3
  <2>6. c.name \in split
    <3>1. P[k].category = c.name
      BY <2>3, <2>5 DEF Under
    <3> QED
      BY <1>2, <1>5, <3>1
  <2>7. PICK o \in ToSet(g.categories) : o.name = c.name /\ Names(Children(g, o)) \cap D # {}
    BY <1>1, <2>6 DEF Split
  <2> QED
    BY <2>7 DEF Children
<1>7. \A c \in ToSet(g.categories) :
          Decomposable(g, c) =>
              (Names(Children(g, c)) \cap (D \cup {name}) # {} <=> Names(Children(g, c)) \cap D # {})
  BY <1>6
<1>8. Split(g, after) = {c.name : c \in {c \in ToSet(g.categories) :
              Decomposable(g, c) /\ Names(Children(g, c)) \cap (D \cup {name}) # {}}}
  BY <1>1 DEF Split
<1>9. Split(g, sheet) = {c.name : c \in {c \in ToSet(g.categories) :
              Decomposable(g, c) /\ Names(Children(g, c)) \cap D # {}}}
  BY <1>1 DEF Split
<1>10. {c \in ToSet(g.categories) :
              Decomposable(g, c) /\ Names(Children(g, c)) \cap (D \cup {name}) # {}}
           = {c \in ToSet(g.categories) : Decomposable(g, c) /\ Names(Children(g, c)) \cap D # {}}
  BY <1>7
<1> QED
  BY <1>8, <1>9, <1>10

\* The same for the items of a weighted model.
LEMMA WeighedFilled ==
    ASSUME NEW items, NEW before, NEW after, NEW name, NEW x, Adds(before, after, name, x)
    PROVE  Weighed(items, after) = Filled(Weighed(items, before), name, x)
<1>1. /\ Weighed(items, before) = Carrying(items, Weights(items), before)
      /\ Weighed(items, after) = Carrying(items, Weights(items), after)
  BY DEF Weighed, Carrying, Weights
<1> QED
  BY <1>1, CarryingFilled

\* The sheets of a weighted model.
Percents(sheet) ==
    /\ Proper(sheet.categories) /\ Proper(sheet.assessments)
    /\ \A n \in DOMAIN sheet.assessments : sheet.assessments[n].possible = Unknown

\* A score for one of the components of a weighted model.
LEMMA WeightedFilled ==
    ASSUME NEW g, Askable(g), g.method # "points", NEW X, NEW Y,
           NEW sheet \in [categories : X, assessments : Y], Percents(sheet),
           NEW c, c = WeightedComponents(g, sheet), c # Refused,
           NEW name \in Names(c), NEW x \in Int,
           NEW after, after = WithScore(g, sheet, name, x)
    PROVE  /\ WeightedComponents(g, after) = Filled(c, name, x)
           /\ \/ /\ DOMAIN after.categories = DOMAIN sheet.categories \cup {name}
                 /\ DOMAIN after.assessments = DOMAIN sheet.assessments
                 /\ name \in Names(g.categories)
              \/ /\ DOMAIN after.assessments = DOMAIN sheet.assessments \cup {name}
                 /\ DOMAIN after.categories = DOMAIN sheet.categories
                 /\ name \in Names(g.assessments)
<1>1. PICK split, a, b : /\ split = Split(g, sheet)
                         /\ a = Weighed(ByCategory(g, split), sheet.categories)
                         /\ b = Weighed(ByPart(g, split), sheet.assessments)
  OBVIOUS
<1>2. /\ a \in Seq(ComponentsOf(g)) /\ b \in Seq(ComponentsOf(g))
      /\ \A k \in 1 .. Len(a) : /\ a[k].name \in Names(WeightedCategories(g)) \ split
                                /\ \E o \in ToSet(g.categories) : o.name = a[k].name
      /\ Names(b) = Names(ByPart(g, split))
      /\ \A k \in 1 .. Len(b) : \E o \in ToSet(g.assessments) : o.name = b[k].name
      /\ a \o b \in Seq(ComponentsOf(g)) /\ Distinct(a \o b)
  BY <1>1, WeightedIs DEF Percents
<1>3. Weighable(g) /\ NamesakesApart(g)
  BY OwnNames DEF Askable
<1>4. Scorable(g, split, sheet.assessments) /\ c = a \o b
  BY <1>1, <1>3, WeightedAre
<1>5. /\ DOMAIN a = 1 .. Len(a) /\ DOMAIN b = 1 .. Len(b) /\ Len(a) \in Nat /\ Len(b) \in Nat
      /\ Len(c) = Len(a) + Len(b)
      /\ \A k \in 1 .. (Len(a) + Len(b)) : c[k] = IF k <= Len(a) THEN a[k] ELSE b[k - Len(a)]
  <2>1. /\ Len(a \o b) = Len(a) + Len(b)
        /\ \A k \in 1 .. (Len(a) + Len(b)) : (a \o b)[k] = IF k <= Len(a) THEN a[k] ELSE b[k - Len(a)]
    BY <1>2, Concatenated
  <2>2. DOMAIN a = 1 .. Len(a) /\ DOMAIN b = 1 .. Len(b) /\ Len(a) \in Nat /\ Len(b) \in Nat
    BY <1>2
  <2> QED
    BY <1>4, <2>1, <2>2
<1>6. /\ g.categories \in Seq(ToSet(g.categories)) /\ g.assessments \in Seq(ToSet(g.assessments))
      /\ \A o \in ToSet(g.categories), p \in ToSet(g.assessments) : o.name # p.name
  BY <1>3, OwnNames DEF Weighable
<1>7. CASE name \in Names(WeightedCategories(g)) \ split
  <2>1. /\ after.categories = With(g, sheet.categories, name, x)
        /\ after.assessments = sheet.assessments
    BY <1>1, <1>7, WithScoreIs
  <2>2. /\ Adds(sheet.categories, after.categories, name, x)
        /\ DOMAIN after.categories = DOMAIN sheet.categories \cup {name}
        /\ after.categories[name] = Entered(g, x)
        /\ \A n \in DOMAIN sheet.categories : n # name => after.categories[n] = sheet.categories[n]
    <3>1. PICK p, q : p = sheet.categories /\ q = With(g, p, name, x)
      OBVIOUS
    <3>2. /\ DOMAIN q = DOMAIN p \cup {name} /\ q[name] = Entered(g, x)
          /\ \A n \in DOMAIN p : n # name => q[n] = p[n]
      BY <3>1 DEF With
    <3>3. Adds(p, q, name, x)
      BY <3>1, EntryAdds
    <3>4. after.categories = q
      BY <2>1, <3>1
    <3> QED
      BY <3>1, <3>2, <3>3, <3>4
  <2>3. Split(g, after) = split
    BY <1>1, <2>1 DEF Split
  <2>4. PICK d : d = Weighed(ByCategory(g, split), after.categories)
    OBVIOUS
  <2>5. d = Filled(a, name, x)
    BY <1>1, <2>2, <2>4, WeighedFilled
  <2>6. PICK o \in ToSet(g.categories) : o.name = name
    <3>1. WeightedCategories(g) = Chosen(g.categories, Heavy(g.categories))
      BY DEF WeightedCategories, Heavy
    <3>2. PICK W : W = WeightedCategories(g)
      OBVIOUS
    <3>3. W \in Seq(ToSet(g.categories)) /\ \A k \in 1 .. Len(W) : W[k] \in ToSet(g.categories)
      BY <1>6, <3>1, <3>2, ChosenPlaces, PickedItems
    <3>4. DOMAIN W = 1 .. Len(W)
      BY <3>3
    <3> QED
      BY <1>7, <3>2, <3>3, <3>4 DEF Names
  <2>7. \A k \in 1 .. Len(b) : b[k].name # name
    BY <1>2, <1>6, <2>6
  <2>8. b = Filled(b, name, x)
    BY <1>2, <2>7, NothingFilled
  <2>9. d \in Seq(ComponentsOf(g))
    <3>1. Proper(after.categories)
      <4>1. Entered(g, x).score \in Int /\ Entered(g, x).done \in BOOLEAN
        BY DEF Entered
      <4> QED
        BY <2>2, <4>1 DEF Proper, Percents
    <3>2. Proper(after.assessments)
      BY <2>1 DEF Percents
    <3> QED
      BY <1>1, <2>1, <2>3, <2>4, <3>1, <3>2, WeightedIs
  <2>10. Filled(c, name, x) = d \o b
    <3>1. PICK T : T = ComponentsOf(g)
      OBVIOUS
    <3>2. /\ a \in Seq(T) /\ b \in Seq(T)
          /\ Filled(a, name, x) \in Seq(T) /\ Filled(b, name, x) \in Seq(T)
      BY <1>2, <2>5, <2>8, <2>9, <3>1
    <3>3. Filled(a \o b, name, x) = Filled(a, name, x) \o Filled(b, name, x)
      BY <3>2, FilledConcat
    <3> QED
      BY <1>4, <2>5, <2>8, <3>3
  <2>11. WeightedComponents(g, after) = d \o b
    BY <1>1, <1>3, <1>4, <2>1, <2>3, <2>4, WeightedAre
  <2>12. name \in Names(g.categories)
    BY <1>6, <2>6, NamesOf
  <2> QED
    BY <1>2, <1>4, <2>1, <2>2, <2>10, <2>11, <2>12
<1>8. CASE name \notin Names(WeightedCategories(g)) \ split
  <2>1. /\ after.assessments = With(g, sheet.assessments, name, x)
        /\ after.categories = sheet.categories
    BY <1>1, <1>8, WithScoreIs
  <2>2. /\ Adds(sheet.assessments, after.assessments, name, x)
        /\ DOMAIN after.assessments = DOMAIN sheet.assessments \cup {name}
        /\ after.assessments[name] = Entered(g, x)
        /\ \A n \in DOMAIN sheet.assessments : n # name => after.assessments[n] = sheet.assessments[n]
    <3>1. PICK p, q : p = sheet.assessments /\ q = With(g, p, name, x)
      OBVIOUS
    <3>2. /\ DOMAIN q = DOMAIN p \cup {name} /\ q[name] = Entered(g, x)
          /\ \A n \in DOMAIN p : n # name => q[n] = p[n]
      BY <3>1 DEF With
    <3>3. Adds(p, q, name, x)
      BY <3>1, EntryAdds
    <3>4. after.assessments = q
      BY <2>1, <3>1
    <3> QED
      BY <3>1, <3>2, <3>3, <3>4
  <2>3. \A k \in 1 .. Len(a) : a[k].name # name
    BY <1>2, <1>8
  <2>4. PICK j \in 1 .. Len(b) : b[j].name = name
    <3>1. DOMAIN c = 1 .. (Len(a) + Len(b))
      BY <1>2, <1>4, <1>5
    <3>2. PICK k \in 1 .. (Len(a) + Len(b)) : c[k].name = name
      BY <3>1 DEF Names
    <3>3. \/ k <= Len(a) /\ k \in 1 .. Len(a)
          \/ ~(k <= Len(a)) /\ k - Len(a) \in 1 .. Len(b)
      BY <1>5, <3>2
    <3> QED
      BY <1>5, <2>3, <3>2, <3>3
  <2>5. name \in Names(ByPart(g, split))
    BY <1>2, <1>5, <2>4 DEF Names
  <2>6. Split(g, after) = split
    BY <1>1, <2>2, <2>5, SplitKept
  <2>7. PICK d : d = Weighed(ByPart(g, split), after.assessments)
    OBVIOUS
  <2>8. d = Filled(b, name, x)
    BY <1>1, <2>2, <2>7, WeighedFilled
  <2>9. a = Filled(a, name, x)
    BY <1>2, <2>3, NothingFilled
  <2>10. Entered(g, x).score \in Int /\ Entered(g, x).done \in BOOLEAN /\ Entered(g, x).possible = Unknown
    BY DEF Entered
  <2>11. Proper(after.assessments) /\ Proper(after.categories)
    BY <2>1, <2>2, <2>10 DEF Proper, Percents
  <2>12. d \in Seq(ComponentsOf(g))
    BY <1>1, <2>6, <2>7, <2>11, WeightedIs
  <2>13. Filled(c, name, x) = a \o d
    <3>1. PICK T : T = ComponentsOf(g)
      OBVIOUS
    <3>2. /\ a \in Seq(T) /\ b \in Seq(T)
          /\ Filled(a, name, x) \in Seq(T) /\ Filled(b, name, x) \in Seq(T)
      BY <1>2, <2>8, <2>9, <2>12, <3>1
    <3>3. Filled(a \o b, name, x) = Filled(a, name, x) \o Filled(b, name, x)
      BY <3>2, FilledConcat
    <3> QED
      BY <1>4, <2>8, <2>9, <3>3
  <2>14. Scorable(g, split, after.assessments)
    BY <1>4, <2>2, <2>5, <2>10 DEF Scorable
  <2>15. WeightedComponents(g, after) = a \o d
    BY <1>1, <1>3, <2>1, <2>6, <2>7, <2>14, WeightedAre
  <2>16. name \in Names(g.assessments)
    BY <1>2, <1>6, <2>4, NamesOf
  <2> QED
    BY <1>2, <1>4, <2>1, <2>2, <2>13, <2>15, <2>16
<1> QED
  BY <1>7, <1>8

\* The sheets of a points model.
Pointed(sheet) ==
    /\ Proper(sheet.assessments)
    /\ \A n \in DOMAIN sheet.assessments : sheet.assessments[n].possible = Points

\* What can be scored in a points model.
Usable(g, sheet) ==
    Chosen(g.assessments, {a \in ToSet(g.assessments) : Possible(a, sheet) # Unknown})

Worth(items, sheet) == [i \in DOMAIN items |-> Possible(items[i], sheet)]

\* The components of a points model, each under a name of its own.
LEMMA PointsAre ==
    ASSUME Unknown \notin Int, Points \in Nat, NEW g, Askable(g), NEW sheet, Pointed(sheet),
           NEW c, c = PointsComponents(g, sheet), c # Refused, NEW U, U = Usable(g, sheet)
    PROVE  /\ DOMAIN sheet.categories = {} /\ c = Carrying(U, Worth(U, sheet), sheet.assessments)
           /\ U \in Seq(ToSet(g.assessments))
           /\ \A k \in 1 .. Len(U) : /\ U[k] \in ToSet(g.assessments) /\ U[k].name \in Names(g.assessments)
                                     /\ Possible(U[k], sheet) # Unknown
           /\ c \in Seq(ComponentsOf(g)) /\ Len(c) = Len(U) /\ Distinct(c)
           /\ \A k \in 1 .. Len(U) : /\ c[k].name = U[k].name
                                     /\ c[k].score = ScoreOf(sheet.assessments, U[k].name).score
<1>1. PICK A, these, p, w, names : /\ A = g.assessments /\ p = sheet.assessments
                                   /\ these = {a \in ToSet(A) : Possible(a, sheet) # Unknown}
                                   /\ w = Worth(U, sheet)
                                   /\ names = Names(g.categories) \cup Names(g.assessments)
  OBVIOUS
<1>2. /\ A \in Seq(ToSet(A)) /\ Distinct(A) /\ DOMAIN A = 1 .. Len(A)
      /\ \A a \in ToSet(A) : a.points \in Nat \cup {Unknown}
  <2>1. A \in Seq(ToSet(A)) /\ Distinct(A) /\ \A a \in ToSet(A) : a.points \in Nat \cup {Unknown}
    BY <1>1, OwnNames DEF Askable, Weighable
  <2> QED
    BY <2>1
<1>3. U = Chosen(A, these)
  BY <1>1 DEF Usable
<1>4. U \in Seq(ToSet(A)) /\ Len(U) \in Nat /\ DOMAIN U = 1 .. Len(U)
  <2>1. U \in Seq(ToSet(A))
    BY <1>2, <1>3, ChosenPlaces
  <2> QED
    BY <2>1
<1>5. \A k \in 1 .. Len(U) : U[k] \in ToSet(A) /\ U[k] \in these
  BY <1>2, <1>3, PickedItems
<1>6. DOMAIN sheet.categories = {} /\ c = Carrying(U, w, p)
  <2>1. PointsComponents(g, sheet) =
            IF DOMAIN sheet.categories = {}
              THEN [i \in DOMAIN U |-> Component(U[i], Possible(U[i], sheet),
                                                 ScoreOf(sheet.assessments, U[i].name))]
              ELSE Refused
    BY DEF PointsComponents, Usable
  <2>2. DOMAIN sheet.categories = {}
    BY <2>1
  <2>3. c = [i \in DOMAIN U |-> Component(U[i], Possible(U[i], sheet), ScoreOf(p, U[i].name))]
    BY <1>1, <2>1, <2>2
  <2> QED
    BY <1>1, <2>2, <2>3 DEF Carrying, Worth
<1>7. \A k \in 1 .. Len(U) : U[k].name \in Names(A) /\ U[k].name \in names /\ w[k] \in Nat
  <2>1. ASSUME NEW k \in 1 .. Len(U)
        PROVE  U[k].name \in Names(A) /\ w[k] \in Nat
    <3>1. U[k] \in ToSet(A) /\ Possible(U[k], sheet) # Unknown /\ w[k] = Possible(U[k], sheet)
      BY <1>1, <1>4, <1>5 DEF Worth
    <3>2. U[k].points \in Nat \cup {Unknown}
      BY <1>2, <3>1
    <3>3. Possible(U[k], sheet) \in Nat
      BY <3>1, <3>2 DEF Possible, Pointed
    <3>4. U[k].name \in Names(A)
      BY <1>2, <3>1, NamesOf
    <3> QED
      BY <3>1, <3>3, <3>4
  <2> QED
    BY <1>1, <2>1
<1>8. /\ c \in Seq(Parts(names)) /\ Len(c) = Len(U)
      /\ \A k \in 1 .. Len(U) : c[k].name = U[k].name /\ c[k].score = ScoreOf(p, U[k].name).score
  <2>1. Proper(p)
    BY <1>1 DEF Pointed
  <2> QED
    BY <1>4, <1>6, <1>7, <2>1, CarryingIs
<1>9. Distinct(c)
  <2>1. \A i, j \in 1 .. Len(A) : A[i] \in these /\ A[j] \in these /\ A[i].name = A[j].name => i = j
    BY <1>2 DEF Distinct
  <2>2. Distinct(U)
    BY <1>2, <1>3, <2>1, ChosenDistinct
  <2> QED
    BY <1>8, <2>2 DEF Distinct
<1>10. ComponentsOf(g) = Parts(names)
  BY <1>1 DEF ComponentsOf, Parts
<1> QED
  BY <1>1, <1>4, <1>5, <1>6, <1>7, <1>8, <1>9, <1>10

\* A score for one of the components of a points model.
LEMMA PointsFilled ==
    ASSUME Unknown \notin Int, Points \in Nat, NEW g, Askable(g), g.method = "points",
           NEW X, NEW Y, NEW sheet \in [categories : X, assessments : Y], Pointed(sheet),
           NEW c, c = PointsComponents(g, sheet), c # Refused,
           NEW name \in Names(c), \A k \in 1 .. Len(c) : c[k].name = name => c[k].score = Unknown,
           NEW x \in Int, NEW after, after = WithScore(g, sheet, name, x)
    PROVE  /\ PointsComponents(g, after) = Filled(c, name, x)
           /\ DOMAIN after.assessments = DOMAIN sheet.assessments \cup {name}
           /\ DOMAIN after.categories = DOMAIN sheet.categories
           /\ name \in Names(g.assessments)
<1>1. PICK A, U, p, q : /\ A = g.assessments /\ U = Usable(g, sheet)
                        /\ p = sheet.assessments /\ q = With(g, p, name, x)
  OBVIOUS
<1>2. A \in Seq(ToSet(A)) /\ Distinct(A) /\ DOMAIN A = 1 .. Len(A)
  <2>1. A \in Seq(ToSet(A)) /\ Distinct(A)
    BY <1>1, OwnNames DEF Askable, Weighable
  <2> QED
    BY <2>1
<1>3. after.assessments = q /\ after.categories = sheet.categories
  BY <1>1, WithScoreIs
<1>4. /\ DOMAIN q = DOMAIN p \cup {name} /\ q[name] = Entered(g, x)
      /\ \A n \in DOMAIN p : n # name => q[n] = p[n]
      /\ Adds(p, q, name, x)
  <2>1. /\ DOMAIN q = DOMAIN p \cup {name} /\ q[name] = Entered(g, x)
        /\ \A n \in DOMAIN p : n # name => q[n] = p[n]
    BY <1>1 DEF With
  <2>2. Adds(p, q, name, x)
    BY <1>1, EntryAdds
  <2> QED
    BY <2>1, <2>2
<1>5. /\ DOMAIN sheet.categories = {} /\ c = Carrying(U, Worth(U, sheet), p)
      /\ U \in Seq(ToSet(A)) /\ c \in Seq(ComponentsOf(g)) /\ Len(c) = Len(U)
      /\ \A k \in 1 .. Len(U) : /\ U[k] \in ToSet(A) /\ U[k].name \in Names(A)
                                /\ Possible(U[k], sheet) # Unknown
                                /\ c[k].name = U[k].name /\ c[k].score = ScoreOf(p, U[k].name).score
  BY <1>1, PointsAre
<1>6. DOMAIN U = 1 .. Len(U) /\ DOMAIN c = 1 .. Len(U)
  BY <1>5
<1>7. PICK k \in 1 .. Len(U) : U[k].name = name
  BY <1>5, <1>6 DEF Names
<1>8. name \notin DOMAIN p
  <2>1. ScoreOf(p, name).score = Unknown
    BY <1>5, <1>7
  <2>2. name \in DOMAIN p => ScoreOf(p, name).score \in Int
    BY <1>1 DEF ScoreOf, Pointed, Proper
  <2> QED
    BY <2>1, <2>2
<1>9. \A a \in ToSet(A) : a.name = name => a = U[k]
  <2>1. ASSUME NEW a \in ToSet(A), a.name = name
        PROVE  a = U[k]
    <3>1. PICK i \in 1 .. Len(A) : a = A[i]
      BY <1>2 DEF ToSet
    <3>2. PICK j \in 1 .. Len(A) : U[k] = A[j]
      BY <1>2, <1>5 DEF ToSet
    <3>3. i = j
      BY <1>2, <1>7, <2>1, <3>1, <3>2 DEF Distinct
    <3> QED
      BY <3>1, <3>2, <3>3
  <2> QED
    BY <2>1
<1>10. U[k].points # Unknown
  BY <1>1, <1>5, <1>7, <1>8 DEF Possible
<1>11. \A a \in ToSet(A) : Possible(a, after) = Possible(a, sheet)
  <2>1. ASSUME NEW a \in ToSet(A)
        PROVE  Possible(a, after) = Possible(a, sheet)
    <3>1. CASE a.name = name
      <4>1. a.points # Unknown
        BY <1>9, <1>10, <3>1
      <4> QED
        BY <4>1 DEF Possible
    <3>2. CASE a.name # name
      <4>1. a.name \in DOMAIN q <=> a.name \in DOMAIN p
        BY <1>4, <3>2
      <4>2. a.name \in DOMAIN p => q[a.name] = p[a.name]
        BY <1>4, <3>2
      <4> QED
        BY <1>1, <1>3, <4>1, <4>2 DEF Possible
    <3> QED
      BY <3>1, <3>2
  <2> QED
    BY <2>1
<1>12. U = Usable(g, after)
  <2>1. {a \in ToSet(A) : Possible(a, sheet) # Unknown} = {a \in ToSet(A) : Possible(a, after) # Unknown}
    BY <1>11
  <2> QED
    BY <1>1, <2>1 DEF Usable
<1>13. Worth(U, sheet) = Worth(U, after)
  BY <1>5, <1>6, <1>11 DEF Worth
<1>14. PointsComponents(g, after) = Carrying(U, Worth(U, sheet), q)
  <2>1. PointsComponents(g, after) =
            IF DOMAIN after.categories = {}
              THEN [i \in DOMAIN U |-> Component(U[i], Possible(U[i], after),
                                                 ScoreOf(after.assessments, U[i].name))]
              ELSE Refused
    BY <1>12 DEF PointsComponents, Usable
  <2>2. DOMAIN after.categories = {}
    BY <1>3, <1>5
  <2>3. PointsComponents(g, after) =
            [i \in DOMAIN U |-> Component(U[i], Possible(U[i], after), ScoreOf(q, U[i].name))]
    BY <1>3, <2>1, <2>2
  <2>4. PointsComponents(g, after) = Carrying(U, Worth(U, after), q)
    BY <2>3 DEF Carrying, Worth
  <2> QED
    BY <1>13, <2>4
<1>15. Carrying(U, Worth(U, sheet), q) = Filled(c, name, x)
  BY <1>4, <1>5, CarryingFilled
<1> QED
  BY <1>1, <1>3, <1>4, <1>5, <1>7, <1>14, <1>15

\* The sheets a student may have entered.
EnteredSheet(g, sheet) ==
    /\ sheet.categories \in EntriesFor(g, g.categories, Scores100)
    /\ sheet.assessments \in EntriesFor(g, g.assessments, Scores100)

\* What a student may have entered is in percent, or out of so many points.
LEMMA EntriesAre ==
    ASSUME Scores100 \subseteq Int, NEW g, NEW items, NEW entries \in EntriesFor(g, items, Scores100)
    PROVE  /\ Proper(entries) /\ DOMAIN entries \subseteq Names(items)
           /\ \A n \in DOMAIN entries :
                 entries[n].possible = IF g.method = "points" THEN Points ELSE Unknown
<1>1. PICK names \in SUBSET Names(items) : entries \in [names -> {Entered(g, x) : x \in Scores100}]
  BY DEF EntriesFor
<1>2. \A n \in DOMAIN entries : \E x \in Scores100 : entries[n] = Entered(g, x)
  BY <1>1
<1>3. \A x \in Scores100 : /\ Entered(g, x).score \in Int /\ Entered(g, x).done \in BOOLEAN
                           /\ Entered(g, x).possible = IF g.method = "points" THEN Points ELSE Unknown
  BY DEF Entered
<1> QED
  BY <1>1, <1>2, <1>3 DEF Proper

\* What is calculated from: lists of one component for every name.
LEMMA ComponentsAre ==
    ASSUME Unknown \notin Int, Scores100 \subseteq Int, Points \in Nat, NEW g, Askable(g),
           NEW sheet, EnteredSheet(g, sheet), NEW c, c = Components(g, sheet), c # Refused
    PROVE  c \in Seq(ComponentsOf(g)) /\ Distinct(c)
<1>1. CASE g.method = "points"
  <2>1. c = PointsComponents(g, sheet)
    BY <1>1, Zenon DEF Components
  <2>2. Pointed(sheet)
    BY <1>1, EntriesAre DEF EnteredSheet, Pointed
  <2>3. PICK U : U = Usable(g, sheet)
    OBVIOUS
  <2> QED
    BY <2>1, <2>2, <2>3, PointsAre
<1>2. CASE g.method # "points"
  <2>1. c = WeightedComponents(g, sheet)
    BY <1>2, Zenon DEF Components
  <2>2. Proper(sheet.categories) /\ Proper(sheet.assessments)
    BY EntriesAre DEF EnteredSheet
  <2>3. PICK split, a, b : /\ split = Split(g, sheet)
                           /\ a = Weighed(ByCategory(g, split), sheet.categories)
                           /\ b = Weighed(ByPart(g, split), sheet.assessments)
    OBVIOUS
  <2>4. a \o b \in Seq(ComponentsOf(g)) /\ Distinct(a \o b)
    BY <2>2, <2>3, WeightedIs
  <2>5. Weighable(g) /\ NamesakesApart(g)
    BY OwnNames DEF Askable
  <2>6. c = a \o b
    BY <2>1, <2>3, <2>5, WeightedAre
  <2> QED
    BY <2>4, <2>6
<1> QED
  BY <1>1, <1>2

\* A score for one of the components.
LEMMA ComponentsFilled ==
    ASSUME Unknown \notin Int, Scores100 \subseteq Int, Points \in Nat, NEW g, Askable(g),
           NEW X, NEW Y, NEW sheet \in [categories : X, assessments : Y], EnteredSheet(g, sheet),
           NEW c, c = Components(g, sheet), c # Refused,
           NEW name \in Names(c), \A k \in 1 .. Len(c) : c[k].name = name => c[k].score = Unknown,
           NEW x \in Int
    PROVE  Components(g, WithScore(g, sheet, name, x)) = Filled(c, name, x)
<1>1. PICK after : after = WithScore(g, sheet, name, x)
  OBVIOUS
<1> DEFINE known(s) == /\ DOMAIN s.categories \subseteq Names(g.categories)
                       /\ DOMAIN s.assessments \subseteq Names(g.assessments)
           mixed == \E a \in ToSet(g.assessments) : a.points # Unknown
           plain == g.method = "weighted" \/ (g.method = "hybrid" /\ ~mixed)
<1>2. known(sheet)
  BY EntriesAre DEF EnteredSheet
<1>3. Filled(c, name, x) # <<>>
  <2>1. DOMAIN Filled(c, name, x) = DOMAIN c
    BY DEF Filled
  <2>2. DOMAIN c # {}
    BY DEF Names
  <2> QED
    BY <2>1, <2>2
<1>4. CASE g.method = "points"
  <2>1. \A s : known(s) => Components(g, s) =
            IF PointsComponents(g, s) = <<>> THEN Refused ELSE PointsComponents(g, s)
    BY <1>4, Zenon DEF Components
  <2>2. c = PointsComponents(g, sheet)
    BY <1>2, <2>1
  <2>3. Pointed(sheet)
    BY <1>4, EntriesAre DEF EnteredSheet, Pointed
  <2>4. /\ PointsComponents(g, after) = Filled(c, name, x)
        /\ DOMAIN after.assessments = DOMAIN sheet.assessments \cup {name}
        /\ DOMAIN after.categories = DOMAIN sheet.categories
        /\ name \in Names(g.assessments)
    BY <1>1, <1>4, <2>2, <2>3, PointsFilled
  <2>5. known(after)
    BY <1>2, <2>4
  <2> QED
    BY <1>1, <1>3, <2>1, <2>4, <2>5
<1>5. CASE plain
  <2>0. g.method # "points"
    BY <1>5
  <2>1. \A s : known(s) => Components(g, s) =
            IF WeightedComponents(g, s) = <<>> THEN Refused ELSE WeightedComponents(g, s)
    <3>1. CASE g.method = "weighted"
      BY <3>1, Zenon DEF Components
    <3>2. CASE g.method = "hybrid" /\ ~mixed
      BY <3>2, Zenon DEF Components
    <3> QED
      BY <1>5, <3>1, <3>2
  <2>2. c = WeightedComponents(g, sheet)
    BY <1>2, <2>1
  <2>3. Percents(sheet)
    BY <2>0, EntriesAre DEF EnteredSheet, Percents
  <2>4. /\ WeightedComponents(g, after) = Filled(c, name, x)
        /\ \/ /\ DOMAIN after.categories = DOMAIN sheet.categories \cup {name}
              /\ DOMAIN after.assessments = DOMAIN sheet.assessments
              /\ name \in Names(g.categories)
           \/ /\ DOMAIN after.assessments = DOMAIN sheet.assessments \cup {name}
              /\ DOMAIN after.categories = DOMAIN sheet.categories
              /\ name \in Names(g.assessments)
    BY <1>1, <2>0, <2>2, <2>3, WeightedFilled
  <2>5. known(after)
    BY <1>2, <2>4
  <2> QED
    BY <1>1, <1>3, <2>1, <2>4, <2>5
<1>6. CASE g.method # "points" /\ ~plain
  <2>1. Components(g, sheet) = Refused
    <3>1. g.method # "points" /\ g.method # "weighted" /\ ~(g.method = "hybrid" /\ ~mixed)
      BY <1>6
    <3> QED
      BY <3>1, Zenon DEF Components
  <2> QED
    BY <2>1
<1> QED
  BY <1>4, <1>5, <1>6

-----------------------------------------------------------------------------
(* The answer is the threshold.                                            *)

\* Filled components are components.
LEMMA FilledIs ==
    ASSUME NEW names, NEW u \in Seq(Parts(names)), NEW name, NEW x \in Int
    PROVE  /\ Filled(u, name, x) \in Seq(Parts(names)) /\ Len(Filled(u, name, x)) = Len(u)
           /\ \A k \in 1 .. Len(u) :
                 /\ Filled(u, name, x)[k].name = u[k].name
                 /\ Filled(u, name, x)[k].weight = u[k].weight
                 /\ u[k].name = name => Filled(u, name, x)[k].score = x
                 /\ u[k].name # name => Filled(u, name, x)[k] = u[k]
<1>1. Len(u) \in Nat /\ DOMAIN u = 1 .. Len(u) /\ \A k \in 1 .. Len(u) : u[k] \in Parts(names)
  OBVIOUS
<1>2. PICK v : v = Filled(u, name, x)
  OBVIOUS
<1> DEFINE new(k) == [name |-> name, weight |-> u[k].weight, score |-> x, done |-> TRUE]
<1>3. \A k \in 1 .. Len(u) : u[k].name = name => /\ new(k) \in Parts(names) /\ new(k).name = name
                                                 /\ new(k).weight = u[k].weight /\ new(k).score = x
  <2>1. \A k \in 1 .. Len(u) : u[k].weight \in Nat /\ u[k].name \in names
    BY <1>1 DEF Parts
  <2> QED
    BY <2>1 DEF Parts
<1>4. v = [k \in 1 .. Len(u) |-> IF u[k].name = name THEN new(k) ELSE u[k]]
  BY <1>1, <1>2 DEF Filled
<1> HIDE DEF new
<1>5. v \in [1 .. Len(u) -> Parts(names)]
  BY <1>1, <1>3, <1>4
<1>6. v \in Seq(Parts(names)) /\ Len(v) = Len(u)
  BY <1>1, <1>5, Listed
<1> QED
  BY <1>2, <1>3, <1>4, <1>6

\* No rule scores what has no score, or takes a score away.
LEMMA LiftingKeeps ==
    ASSUME NEW names, NEW u \in Seq(Parts(names)), NEW T, NEW rules \in Seq(T),
           NEW f \in [0 .. Len(rules) -> ScoreLists(u)], Lifting(f, u, rules)
    PROVE  \A j \in 1 .. Len(u) : f[Len(rules)][j] = Unknown <=> u[j].score = Unknown
<1> DEFINE r == Len(rules)
           G == {k \in 0 .. r : \A j \in 1 .. Len(u) : f[k][j] = Unknown <=> u[j].score = Unknown}
<1>1. r \in Nat /\ r \in 0 .. r /\ 0 \in 0 .. r
  OBVIOUS
<1>2. 0 \in G
  BY <1>1 DEF Lifting
<1>3. ASSUME NEW k \in 1 .. r, k - 1 \in G
      PROVE  k \in G
  <2>1. PICK e, h, s, t : /\ e = f[k - 1] /\ h = f[k]
                          /\ s = Place(u, rules[k].source) /\ t = Place(u, rules[k].target)
    OBVIOUS
  <2>2. k \in 0 .. r /\ k - 1 \in 0 .. r /\ e \in ScoreLists(u) /\ h = Lifted(e, s, t)
    <3>1. k \in 0 .. r /\ k - 1 \in 0 .. r
      BY <1>1
    <3>2. f[k] = Lifted(f[k - 1], Place(u, rules[k].source), Place(u, rules[k].target))
      BY DEF Lifting
    <3> QED
      BY <2>1, <3>1, <3>2
  <2>3. \A j \in 1 .. Len(u) : h[j] = Unknown <=> e[j] = Unknown
    <3>1. DOMAIN e = 1 .. Len(u)
      BY <2>2 DEF ScoreLists
    <3> QED
      BY <2>2, <3>1 DEF Lifted
  <2>4. \A j \in 1 .. Len(u) : e[j] = Unknown <=> u[j].score = Unknown
    BY <1>3, <2>1
  <2> QED
    BY <2>1, <2>2, <2>3, <2>4
<1>4. \A k \in 0 .. r : k \in G
  <2> HIDE DEF G, r
  <2> QED
    BY <1>1, <1>2, <1>3, Upward
<1> QED
  BY <1>1, <1>4

\* The replacements, and those that meet a component.
LEMMA NamedAre ==
    ASSUME NEW g, g.rules \in Seq(ToSet(g.rules))
    PROVE  /\ Named(g) \in Seq(ToSet(g.rules))
           /\ \A k \in 1 .. Len(Named(g)) : /\ Named(g)[k] \in ToSet(Named(g))
                                            /\ Named(g)[k].target # Unknown
                                            /\ Named(g)[k] \in ToSet(Replacements(g))
           /\ \A name : /\ Met(g, name) \in Seq(ToSet(g.rules))
                        /\ ToSet(Met(g, name)) = {r \in ToSet(Named(g)) : name \in {r.source, r.target}}
<1>1. PICK R, Q, N : R = g.rules /\ Q = Replacements(g) /\ N = Named(g)
  OBVIOUS
<1>2. R \in Seq(ToSet(R))
  BY <1>1
<1>3. PICK these : these = {r \in ToSet(Q) : Unknown \notin {r.source, r.target}}
  OBVIOUS
<1>4. N = Chosen(R, these)
  BY <1>1, <1>3 DEF Named
<1>5. N \in Seq(ToSet(R)) /\ ToSet(N) = ToSet(R) \cap these
  BY <1>2, <1>4, ChosenPlaces, ChosenMembers
<1>6. \A k \in 1 .. Len(N) : N[k] \in ToSet(N)
  BY <1>5 DEF ToSet
<1>7. \A k \in 1 .. Len(N) : N[k].target # Unknown /\ N[k] \in ToSet(Q)
  BY <1>3, <1>5, <1>6
<1>8. ASSUME NEW name
      PROVE  /\ Met(g, name) \in Seq(ToSet(R))
             /\ ToSet(Met(g, name)) = {r \in ToSet(N) : name \in {r.source, r.target}}
  <2>1. PICK M, mine : /\ M = Met(g, name)
                       /\ mine = {r \in ToSet(N) : name \in {r.source, r.target}}
    OBVIOUS
  <2>2. M = Chosen(R, mine)
    BY <1>1, <2>1 DEF Met
  <2>3. M \in Seq(ToSet(R)) /\ ToSet(M) = ToSet(R) \cap mine
    BY <1>2, <2>2, ChosenPlaces, ChosenMembers
  <2> QED
    BY <1>5, <2>1, <2>3
<1> QED
  BY <1>1, <1>5, <1>6, <1>7, <1>8

\* What is asked: the components u have, with the rules, exactly one score
\* missing, and there is an answer for it.
Question(g, names, u, c, name) ==
    /\ g.rules \in Seq(ToSet(g.rules)) /\ Unchained(g)
    /\ u \in Seq(Parts(names)) /\ Distinct(u) /\ c = FoldLeft(Replaced, u, Named(g))
    /\ Missing(c) = {name} /\ Answerable(g, c, name)

\* The run f of the rules leads from u to c.
Runs(f, g, names, u, c) ==
    /\ f \in [0 .. Len(Named(g)) -> ScoreLists(u)] /\ Lifting(f, u, Named(g))
    /\ c = WithScores(u, f[Len(Named(g))]) /\ f[Len(Named(g))] \in ScoreLists(u)
    /\ c \in Seq(Parts(names)) /\ Len(c) = Len(u)
    /\ \A k \in 1 .. Len(u) : /\ c[k].name = u[k].name /\ c[k].weight = u[k].weight
                              /\ c[k].score = f[Len(Named(g))][k]
                              /\ c[k] = [u[k] EXCEPT !.score = f[Len(Named(g))][k]]
                              /\ c[k].score = Unknown <=> u[k].score = Unknown

\* The rules lead from the components to what is calculated.
LEMMA RulesRun ==
    ASSUME NEW g, g.rules \in Seq(ToSet(g.rules)), NEW names, NEW u \in Seq(Parts(names)),
           NEW c, c = FoldLeft(Replaced, u, Named(g))
    PROVE  \E f : Runs(f, g, names, u, c)
<1>1. PICK N, T : N = Named(g) /\ T = ToSet(g.rules)
  OBVIOUS
<1>2. u \in Seq(Parts(names)) /\ N \in Seq(T) /\ Len(N) \in 0 .. Len(N)
  <2>1. N \in Seq(T)
    BY <1>1, NamedAre
  <2> QED
    BY <2>1
<1>3. PICK f \in [0 .. Len(N) -> ScoreLists(u)] :
          Lifting(f, u, N) /\ FoldLeft(Replaced, u, N) = WithScores(u, f[Len(N)])
  BY <1>2, ReplacementRuns
<1>4. \A j \in 1 .. Len(u) : f[Len(N)][j] = Unknown <=> u[j].score = Unknown
  BY <1>2, <1>3, LiftingKeeps
<1>5. PICK e : e = f[Len(N)]
  OBVIOUS
<1>6. e \in ScoreLists(u) /\ c = WithScores(u, e)
  BY <1>1, <1>2, <1>3, <1>5
<1>7. /\ c \in Seq(Parts(names)) /\ Len(c) = Len(u)
      /\ \A k \in 1 .. Len(u) : /\ c[k].name = u[k].name /\ c[k].weight = u[k].weight
                                /\ c[k].score = e[k] /\ c[k] = [u[k] EXCEPT !.score = e[k]]
  BY <1>2, <1>6, WithScoresIs
<1>8. \A k \in 1 .. Len(u) : c[k].score = Unknown <=> u[k].score = Unknown
  BY <1>4, <1>5, <1>7
<1>9. Runs(f, g, names, u, c)
  BY <1>1, <1>3, <1>5, <1>6, <1>7, <1>8 DEF Runs
<1> QED
  BY <1>9

\* The score that is missing is missing before the rules are applied.
LEMMA WhatIsMissing ==
    ASSUME NEW g, NEW names, NEW u, NEW c, NEW name, Question(g, names, u, c, name)
    PROVE  \E n \in 1 .. Len(u) : /\ Place(u, name) = n /\ Place(c, name) = n
                                  /\ u[n].name = name /\ name \in Names(u)
                                  /\ \A k \in 1 .. Len(u) :
                                        /\ u[k].score = Unknown <=> k = n
                                        /\ u[k].name = name <=> k = n
<1>1. /\ c \in Seq(Parts(names)) /\ Len(c) = Len(u) /\ Distinct(c)
      /\ \A k \in 1 .. Len(u) : /\ c[k].name = u[k].name
                                /\ c[k].score = Unknown <=> u[k].score = Unknown
  <2>1. PICK f : Runs(f, g, names, u, c)
    BY RulesRun DEF Question
  <2>2. /\ c \in Seq(Parts(names)) /\ Len(c) = Len(u)
        /\ \A k \in 1 .. Len(u) : /\ c[k].name = u[k].name
                                  /\ c[k].score = Unknown <=> u[k].score = Unknown
    BY <2>1 DEF Runs
  <2> QED
    BY <2>2 DEF Distinct, Question
<1>2. DOMAIN c = 1 .. Len(u) /\ DOMAIN u = 1 .. Len(u) /\ u \in Seq(Parts(names)) /\ Distinct(u)
  BY <1>1 DEF Question
<1>3. Missing(c) = {name}
  BY DEF Question
<1>4. PICK n \in 1 .. Len(u) : c[n].score = Unknown /\ c[n].name = name
  <2>1. PICK r \in ToSet(c) : r.score = Unknown /\ r.name = name
    BY <1>3 DEF Missing
  <2> QED
    BY <1>2, <2>1 DEF ToSet
<1>5. \A k \in 1 .. Len(u) : c[k].name = name => k = n
  BY <1>1, <1>4 DEF Distinct
<1>6. \A k \in 1 .. Len(u) : c[k].score = Unknown => c[k].name = name
  <2>1. \A k \in 1 .. Len(u) : c[k] \in ToSet(c)
    BY <1>2 DEF ToSet
  <2> QED
    BY <1>3, <2>1 DEF Missing
<1>7. u[n].name = name
  BY <1>1, <1>4
<1>8. Place(u, name) = n
  <2>1. Place(u, u[n].name) = n
    BY <1>2, PlaceOfIt
  <2> QED
    BY <1>7, <2>1
<1>9. Place(c, name) = n
  <2>1. n \in 1 .. Len(c)
    BY <1>1
  <2>2. Place(c, c[n].name) = n
    BY <1>1, <2>1, PlaceOfIt
  <2> QED
    BY <1>4, <2>2
<1>10. name \in Names(u)
  BY <1>2, <1>7 DEF Names
<1> QED
  BY <1>1, <1>4, <1>5, <1>6, <1>7, <1>8, <1>9, <1>10

\* The one rule that meets the missing score, if there is one.
RuleFor(g, u, name, n, t) ==
    /\ t \in 0 .. Len(u) /\ t # n /\ Meets(u, Named(g), n, t)
    /\ t = 0 => Met(g, name) = <<>>
    /\ t # 0 => /\ Len(Met(g, name)) = 1 /\ Met(g, name)[1].target = u[t].name
                /\ \E k \in 1 .. Len(Named(g)) : Place(u, Named(g)[k].source) = n

\* An answerable question has its rule, or meets none.
LEMMA RuleIsFor ==
    ASSUME NEW g, NEW names, NEW u, NEW c, NEW name, Question(g, names, u, c, name),
           NEW n, n = Place(u, name)
    PROVE  \E t : RuleFor(g, u, name, n, t)
<1>1. /\ n \in 1 .. Len(u) /\ u[n].name = name /\ Place(c, name) = n
      /\ \A k \in 1 .. Len(u) : u[k].name = name <=> k = n
  BY WhatIsMissing
<1>2. PICK N, M : N = Named(g) /\ M = Met(g, name)
  OBVIOUS
<1>3. /\ N \in Seq(ToSet(g.rules)) /\ DOMAIN N = 1 .. Len(N)
      /\ \A k \in 1 .. Len(N) : /\ N[k] \in ToSet(N) /\ N[k].target # Unknown
                                /\ N[k] \in ToSet(Replacements(g))
      /\ M \in Seq(ToSet(g.rules)) /\ DOMAIN M = 1 .. Len(M)
      /\ ToSet(M) = {r \in ToSet(N) : name \in {r.source, r.target}}
  <2>1. g.rules \in Seq(ToSet(g.rules))
    BY DEF Question
  <2>2. N \in Seq(ToSet(g.rules)) /\ M \in Seq(ToSet(g.rules))
    BY <1>2, <2>1, NamedAre
  <2>3. /\ \A k \in 1 .. Len(N) : /\ N[k] \in ToSet(N) /\ N[k].target # Unknown
                                  /\ N[k] \in ToSet(Replacements(g))
        /\ ToSet(M) = {r \in ToSet(N) : name \in {r.source, r.target}}
    BY <1>2, <2>1, NamedAre
  <2> QED
    BY <2>2, <2>3
<1>4. u \in Seq(Parts(names)) /\ Distinct(u)
  BY DEF Question
<1>5. \A other : /\ Place(u, other) \in 0 .. Len(u)
                 /\ Place(u, other) # 0 => u[Place(u, other)].name = other
  BY <1>4, PlaceFound
<1>6. \A other : Place(c, other) = Place(u, other)
  <2>1. PICK f : Runs(f, g, names, u, c)
    BY RulesRun DEF Question
  <2>2. Len(u) = Len(c) /\ \A k \in 1 .. Len(u) : u[k].name = c[k].name
    BY <2>1 DEF Runs
  <2> QED
    BY <2>2, SamePlace
<1>7. \A k \in 1 .. Len(N) : Place(u, N[k].target) = n \/ Place(u, N[k].source) = n => N[k] \in ToSet(M)
  <2>1. \A k \in 1 .. Len(N) : /\ Place(u, N[k].target) = n => N[k].target = name
                               /\ Place(u, N[k].source) = n => N[k].source = name
    BY <1>1, <1>5
  <2> QED
    BY <1>3, <2>1
<1>8. \/ M = <<>>
      \/ Len(M) = 1 /\ M[1].target # name /\ Place(c, M[1].target) # 0
  BY <1>2 DEF Question, Answerable, Met
<1>9. CASE M = <<>>
  <2>1. ToSet(M) = {}
    BY <1>9 DEF ToSet
  <2>2. \A k \in 1 .. Len(N) : Place(u, N[k].target) # n /\ Place(u, N[k].source) # n
    BY <1>7, <2>1
  <2>3. Meets(u, N, n, 0)
    BY <2>2 DEF Meets
  <2>4. 0 \in 0 .. Len(u) /\ 0 # n
    BY <1>1, <1>4
  <2>5. RuleFor(g, u, name, n, 0)
    BY <1>2, <1>9, <2>3, <2>4 DEF RuleFor
  <2> QED
    BY <2>5
<1>10. CASE Len(M) = 1 /\ M[1].target # name /\ Place(c, M[1].target) # 0
  <2>1. PICK r, t : r = M[1] /\ t = Place(u, M[1].target)
    OBVIOUS
  <2>2. ToSet(M) = {r}
    BY <1>3, <1>10, <2>1 DEF ToSet
  <2>3. t \in 0 .. Len(u) /\ t # 0 /\ u[t].name = r.target /\ r.target # name
    BY <1>5, <1>6, <1>10, <2>1
  <2>4. t # n
    BY <1>1, <2>3
  <2>5. r \in ToSet(N) /\ r.source = name
    <3>1. r \in ToSet(N) /\ name \in {r.source, r.target}
      BY <1>3, <2>2
    <3> QED
      BY <2>3, <3>1
  <2>6. PICK k \in 1 .. Len(N) : N[k] = r
    BY <1>3, <2>5 DEF ToSet
  <2>7. Place(u, N[k].source) = n
    BY <2>5, <2>6
  <2>8. ASSUME NEW i \in 1 .. Len(N)
        PROVE  /\ Place(u, N[i].target) # n
               /\ Place(u, N[i].source) = n => Place(u, N[i].target) = t
               /\ Place(u, N[i].source) # t
    <3>1. Place(u, N[i].target) = n \/ Place(u, N[i].source) = n => N[i] = r
      BY <1>7, <2>2
    <3>2. Place(u, r.target) = t
      BY <2>1
    <3>3. Place(u, N[i].target) # n
      BY <2>4, <3>1, <3>2
    <3>4. Place(u, N[i].source) # t
      <4>1. r \in ToSet(Replacements(g)) /\ N[i] \in ToSet(Replacements(g)) /\ r.target # Unknown
        BY <1>3, <2>6
      <4>2. r.target # N[i].source
        BY <4>1 DEF Question, Unchained
      <4>3. Place(u, N[i].source) = t => N[i].source = r.target
        BY <1>5, <2>3
      <4> QED
        BY <4>2, <4>3
    <3> QED
      BY <3>1, <3>2, <3>3, <3>4
  <2>9. Meets(u, N, n, t)
    BY <2>8 DEF Meets
  <2>10. RuleFor(g, u, name, n, t)
    BY <1>2, <1>10, <2>1, <2>3, <2>4, <2>7, <2>9 DEF RuleFor
  <2> QED
    BY <2>10
<1> QED
  BY <1>8, <1>9, <1>10

\* The question with a score for what is missing.
LEMMA QuestionAsked ==
    ASSUME Unknown \notin Int, NEW g, NEW names, NEW u, NEW c, NEW name,
           Question(g, names, u, c, name), NEW n, n = Place(u, name),
           NEW t, RuleFor(g, u, name, n, t), NEW x \in Int,
           NEW d, d = FoldLeft(Replaced, Filled(u, name, x), Named(g))
    PROVE  Asked(names, c, d, n, t, x)
<1>1. /\ n \in 1 .. Len(u) /\ u[n].name = name /\ Place(c, name) = n
      /\ \A k \in 1 .. Len(u) : (u[k].score = Unknown <=> k = n) /\ (u[k].name = name <=> k = n)
  BY WhatIsMissing
<1>2. PICK v, N : v = Filled(u, name, x) /\ N = Named(g)
  OBVIOUS
<1>3. /\ u \in Seq(Parts(names)) /\ Distinct(u) /\ g.rules \in Seq(ToSet(g.rules))
      /\ c = FoldLeft(Replaced, u, N) /\ c[n].weight > 0
  BY <1>1, <1>2 DEF Question, Answerable
<1>4. /\ v \in Seq(Parts(names)) /\ Len(v) = Len(u)
      /\ \A k \in 1 .. Len(u) : /\ v[k].name = u[k].name /\ v[k].weight = u[k].weight
                                /\ k = n => v[k].score = x
                                /\ k # n => v[k] = u[k]
  <2>1. /\ v \in Seq(Parts(names)) /\ Len(v) = Len(u)
        /\ \A k \in 1 .. Len(u) : /\ v[k].name = u[k].name /\ v[k].weight = u[k].weight
                                  /\ u[k].name = name => v[k].score = x
                                  /\ u[k].name # name => v[k] = u[k]
    BY <1>2, <1>3, FilledIs
  <2> QED
    BY <1>1, <2>1
<1>5. PICK f : Runs(f, g, names, u, c)
  BY <1>2, <1>3, RulesRun
<1>6. PICK h : Runs(h, g, names, v, d)
  BY <1>2, <1>3, <1>4, RulesRun
<1>7. PICK T : T = ToSet(g.rules)
  OBVIOUS
<1>8. /\ N \in Seq(T) /\ Len(N) \in 0 .. Len(N)
      /\ f \in [0 .. Len(N) -> ScoreLists(u)] /\ Lifting(f, u, N)
      /\ h \in [0 .. Len(N) -> ScoreLists(v)] /\ Lifting(h, v, N)
  <2>1. N \in Seq(T)
    BY <1>2, <1>3, <1>7, NamedAre
  <2> QED
    BY <1>2, <1>5, <1>6, <2>1 DEF Runs
<1>9. t \in 0 .. Len(u) /\ t # n /\ Meets(u, N, n, t)
  BY <1>2 DEF RuleFor
<1>10. Beside(f[0], h[0], n, t, x, FALSE)
  <2>1. /\ f[0] = [k \in 1 .. Len(u) |-> u[k].score]
        /\ h[0] = [k \in 1 .. Len(u) |-> v[k].score]
    BY <1>4, <1>8 DEF Lifting
  <2>2. \A k \in 1 .. Len(u) : u[k].score \in Int \cup {Unknown}
    <3>1. \A k \in 1 .. Len(u) : u[k] \in Parts(names)
      BY <1>3
    <3> QED
      BY <3>1 DEF Parts
  <2>3. DOMAIN f[0] = 1 .. Len(u) /\ DOMAIN h[0] = 1 .. Len(u)
    BY <2>1
  <2>4. \A k \in 1 .. Len(u) : /\ k # n => f[0][k] \in Int /\ h[0][k] = f[0][k]
                               /\ k = n => f[0][k] = Unknown /\ h[0][k] = x
    BY <1>1, <1>4, <2>1, <2>2
  <2> QED
    BY <1>1, <2>3, <2>4 DEF Beside
<1>11. PICK met \in BOOLEAN : met = \E k \in 1 .. Len(N) : Place(u, N[k].source) = n
  OBVIOUS
<1>12. PICK p, q : p = f[Len(N)] /\ q = h[Len(N)]
  OBVIOUS
<1>13. Beside(p, q, n, t, x, met)
  <2>1. Beside(f[Len(N)], h[Len(N)], n, t, x, \E k \in 1 .. Len(N) : Place(u, N[k].source) = n)
    BY <1>1, <1>3, <1>4, <1>8, <1>9, <1>10, RunsBeside
  <2> QED
    BY <1>11, <1>12, <2>1
<1>14. /\ c \in Seq(Parts(names)) /\ Len(c) = Len(u) /\ p \in ScoreLists(u)
       /\ \A k \in 1 .. Len(u) : /\ c[k].name = u[k].name /\ c[k].weight = u[k].weight
                                 /\ c[k].score = p[k] /\ c[k] = [u[k] EXCEPT !.score = p[k]]
  BY <1>2, <1>5, <1>12 DEF Runs
<1>15. /\ d \in Seq(Parts(names)) /\ Len(d) = Len(u)
       /\ \A k \in 1 .. Len(u) : /\ d[k].weight = v[k].weight
                                 /\ d[k].score = q[k] /\ d[k] = [v[k] EXCEPT !.score = q[k]]
  BY <1>2, <1>4, <1>6, <1>12 DEF Runs
<1>16. /\ \A k \in 1 .. Len(u) : /\ k # n => p[k] \in Int
                                 /\ k # n /\ k # t => q[k] = p[k]
       /\ q[n] = x
       /\ \A k \in 1 .. Len(u) : k = t => q[k] = IF x > p[k] THEN x ELSE p[k]
  <2>1. DOMAIN p = 1 .. Len(u)
    BY <1>14 DEF ScoreLists
  <2>2. \A k \in 1 .. Len(u) :
            /\ k # n => p[k] \in Int
            /\ q[k] = IF k = n \/ (k = t /\ met /\ x > p[k]) THEN x ELSE p[k]
    BY <1>13, <2>1 DEF Beside
  <2>3. \A k \in 1 .. Len(u) : k = t => met
    <3>1. t # 0 => met
      BY <1>2, <1>11 DEF RuleFor
    <3>2. \A k \in 1 .. Len(u) : k # 0
      BY <1>3
    <3> QED
      BY <3>1, <3>2
  <2> QED
    BY <1>1, <1>9, <2>2, <2>3
<1>17. Distinct(c)
  BY <1>3, <1>14 DEF Distinct
<1>18. \A k \in 1 .. Len(u) : k # n /\ k # t => d[k] = c[k]
  <2>1. ASSUME NEW k \in 1 .. Len(u), k # n, k # t
        PROVE  d[k] = c[k]
    <3>1. v[k] = u[k] /\ q[k] = p[k]
      BY <1>4, <1>16, <2>1
    <3>2. c[k] = [u[k] EXCEPT !.score = p[k]]
      BY <1>14
    <3>3. d[k] = [v[k] EXCEPT !.score = q[k]]
      BY <1>15
    <3> QED
      BY <3>1, <3>2, <3>3
  <2> QED
    BY <2>1
<1>19. /\ n \in 1 .. Len(c) /\ t \in 0 .. Len(c) /\ t # n /\ x \in Int /\ Len(c) = Len(d)
       /\ d[n].score = x
  BY <1>1, <1>9, <1>14, <1>15, <1>16
<1>20. \A k \in 1 .. Len(c) :
          /\ d[k].weight = c[k].weight
          /\ k # n => c[k].score \in Int
          /\ k # n /\ k # t => d[k] = c[k]
          /\ k = t => d[k].score = IF x > c[k].score THEN x ELSE c[k].score
  <2>1. ASSUME NEW k \in 1 .. Len(u)
        PROVE  /\ d[k].weight = c[k].weight
               /\ k # n => c[k].score \in Int
               /\ k # n /\ k # t => d[k] = c[k]
               /\ k = t => d[k].score = IF x > c[k].score THEN x ELSE c[k].score
    <3>1. d[k].weight = v[k].weight /\ v[k].weight = u[k].weight /\ c[k].weight = u[k].weight
      BY <1>4, <1>14, <1>15
    <3>2. c[k].score = p[k] /\ d[k].score = q[k]
      BY <1>14, <1>15
    <3> QED
      BY <1>16, <1>18, <3>1, <3>2
  <2> QED
    BY <1>14, <2>1
<1> QED
  BY <1>3, <1>14, <1>15, <1>17, <1>19, <1>20 DEF Asked

\* The answer is the threshold.
LEMMA QuestionAnswered ==
    ASSUME Unknown \notin Int, NEW g, NEW names, Refused \notin Seq(Parts(names)),
           NEW u, NEW c, NEW name, Question(g, names, u, c, name), NEW x \in Int,
           NEW d, d = FoldLeft(Replaced, Filled(u, name, x), Named(g)), NEW goal \in Int
    PROVE  AnswersFor(g, c, d, name, goal, x)
<1>1. PICK n : n = Place(u, name)
  OBVIOUS
<1>2. PICK t : RuleFor(g, u, name, n, t)
  BY <1>1, RuleIsFor
<1>3. Asked(names, c, d, n, t, x)
  BY <1>1, <1>2, QuestionAsked
<1>4. c[n].name = name /\ (t # 0 => c[t].name = u[t].name)
  <2>1. n \in 1 .. Len(u) /\ u[n].name = name
    BY <1>1, WhatIsMissing
  <2>2. PICK f : Runs(f, g, names, u, c)
    BY RulesRun DEF Question
  <2>3. \A k \in 1 .. Len(u) : c[k].name = u[k].name
    BY <2>2 DEF Runs
  <2>4. t # 0 => t \in 1 .. Len(u)
    <3>1. t \in 0 .. Len(u)
      BY <1>2 DEF RuleFor
    <3>2. Len(u) \in Nat
      BY DEF Question
    <3> QED
      BY <3>1, <3>2
  <2> QED
    BY <2>1, <2>3, <2>4
<1>5. CASE t = 0
  <2>1. Met(g, c[n].name) = <<>> /\ Asked(names, c, d, n, 0, x)
    BY <1>2, <1>3, <1>4, <1>5 DEF RuleFor
  <2>2. AnswersFor(g, c, d, c[n].name, goal, x)
    BY <2>1, LinearAnswer
  <2> QED
    BY <1>4, <2>2
<1>6. CASE t # 0
  <2>1. Len(Met(g, c[n].name)) = 1 /\ Met(g, c[n].name)[1].target = c[t].name
    BY <1>2, <1>4, <1>6 DEF RuleFor
  <2>2. AnswersFor(g, c, d, c[n].name, goal, x)
    BY <1>3, <1>6, <2>1, RuleAnswer
  <2> QED
    BY <1>4, <2>2
<1> QED
  BY <1>5, <1>6

\* The rules are applied to a list of components unless one of them refuses.
LEMMA RuledIs ==
    ASSUME NEW g, NEW u, u # Refused, \A r \in ToSet(Replacements(g)) : r.simple
    PROVE  Ruled(g, u) = FoldLeft(Replaced, u, Named(g))
  BY DEF Ruled

\* On a sheet with one score missing, every cutoff's answer is its threshold.
LEMMA SheetAnswered ==
    ASSUME Unknown \notin Int, Unknown \notin [num : Int, den : Int], Refused \notin [num : Int, den : Int],
           Scores100 \subseteq Int, Points \in Nat,
           NEW g, Askable(g), Unchained(g), Refused \notin Seq(ComponentsOf(g)), Floors(g) \subseteq Int,
           NEW X, NEW Y, NEW sheet \in [categories : X, assessments : Y], EnteredSheet(g, sheet),
           NEW c, c = Calculated(g, sheet), c # Refused,
           NEW name, Missing(c) = {name}, Answerable(g, c, name)
    PROVE  Thresholds([goal \in Floors(g) |-> Solve(g, c, name, goal)], g, sheet, name)
<1>1. PICK u, names : u = Components(g, sheet) /\ names = Names(g.categories) \cup Names(g.assessments)
  OBVIOUS
<1>2. ComponentsOf(g) = Parts(names)
  BY <1>1 DEF ComponentsOf, Parts
<1>3. /\ u # Refused /\ c = FoldLeft(Replaced, u, Named(g))
      /\ \A r \in ToSet(Replacements(g)) : r.simple
  <2>1. c = Ruled(g, u)
    BY <1>1 DEF Calculated
  <2>2. u # Refused /\ \A r \in ToSet(Replacements(g)) : r.simple
    BY <2>1 DEF Ruled
  <2> QED
    BY <2>1, <2>2, RuledIs
<1>4. g.rules \in Seq(ToSet(g.rules))
  BY DEF Askable, Weighable
<1>5. u \in Seq(Parts(names)) /\ Distinct(u)
  BY <1>1, <1>2, <1>3, ComponentsAre
<1>6. Question(g, names, u, c, name)
  BY <1>3, <1>4, <1>5 DEF Question
<1>7. name \in Names(u) /\ \A k \in 1 .. Len(u) : u[k].name = name => u[k].score = Unknown
  BY <1>6, WhatIsMissing
<1>8. ASSUME NEW x \in Int, NEW goal \in Int
      PROVE  AnswersFor(g, c, Calculated(g, WithScore(g, sheet, name, x)), name, goal, x)
  <2>1. Components(g, WithScore(g, sheet, name, x)) = Filled(u, name, x)
    BY <1>1, <1>3, <1>7, ComponentsFilled
  <2>2. PICK d : d = FoldLeft(Replaced, Filled(u, name, x), Named(g))
    OBVIOUS
  <2>3. Filled(u, name, x) # Refused
    <3>1. Filled(u, name, x) \in Seq(Parts(names))
      BY <1>5, FilledIs
    <3> QED
      BY <1>2, <3>1
  <2>4. Calculated(g, WithScore(g, sheet, name, x)) = d
    BY <1>3, <2>1, <2>2, <2>3, RuledIs DEF Calculated
  <2>5. Refused \notin Seq(Parts(names))
    BY <1>2
  <2>6. AnswersFor(g, c, d, name, goal, x)
    BY <1>6, <2>2, <2>5, QuestionAnswered
  <2> QED
    BY <2>4, <2>6
<1>9. Scores100 \cup {0, 100} \subseteq Int
  OBVIOUS
<1>10. ASSUME NEW x \in Scores100 \cup {0, 100}
       PROVE  \E components \in {Calculated(g, WithScore(g, sheet, name, x))} :
                 \E grade \in {ProjectedGrade(g, components)} :
                     \A goal \in Floors(g) :
                        /\ Solve(g, c, name, goal) \notin {Unknown, Refused}
                        /\ grade.num >= goal * grade.den
                             <=> x * Solve(g, c, name, goal).den >= Solve(g, c, name, goal).num
  <2>1. PICK d, grade : d = Calculated(g, WithScore(g, sheet, name, x)) /\ grade = ProjectedGrade(g, d)
    OBVIOUS
  <2>2. ASSUME NEW goal \in Floors(g)
        PROVE  /\ Solve(g, c, name, goal) \notin {Unknown, Refused}
               /\ grade.num >= goal * grade.den
                    <=> x * Solve(g, c, name, goal).den >= Solve(g, c, name, goal).num
    <3>1. AnswersFor(g, c, d, name, goal, x)
      <4>1. x \in Int
        BY <1>9, <1>10
      <4>2. goal \in Int
        BY <2>2
      <4> QED
        BY <1>8, <2>1, <4>1, <4>2
    <3>2. PICK answer : answer = Solve(g, c, name, goal)
      OBVIOUS
    <3>3. /\ answer \in [num : Int, den : Int]
          /\ grade.num >= goal * grade.den <=> x * answer.den >= answer.num
      BY <2>1, <3>1, <3>2 DEF AnswersFor
    <3>4. answer # Unknown /\ answer # Refused
      BY <3>3
    <3> QED
      BY <3>2, <3>3, <3>4
  <2> QED
    BY <2>1, <2>2
<1>11. PICK needed : needed = [goal \in Floors(g) |-> Solve(g, c, name, goal)]
  OBVIOUS
<1>12. DOMAIN needed = Floors(g) /\ \A goal \in Floors(g) : needed[goal] = Solve(g, c, name, goal)
  BY <1>11
<1>13. Thresholds(needed, g, sheet, name)
  <2>1. ASSUME NEW x \in Scores100 \cup {0, 100}
        PROVE  \E components \in {Calculated(g, WithScore(g, sheet, name, x))} :
                  \E grade \in {ProjectedGrade(g, components)} :
                     \A goal \in DOMAIN needed :
                        /\ needed[goal] \notin {Unknown, Refused}
                        /\ grade.num >= goal * grade.den <=> x * needed[goal].den >= needed[goal].num
    BY <1>10, <1>12
  <2> QED
    BY <2>1 DEF Thresholds
<1> QED
  BY <1>11, <1>13

\* On an askable model every question is answered.
LEMMA AskableIsAnswered ==
    ASSUME Unknown \notin Int, Unknown \notin [num : Int, den : Int], Refused \notin [num : Int, den : Int],
           Scores100 \subseteq Int, Points \in Nat,
           NEW g, Unambiguous(g) => Askable(g), Refused \notin Seq(ComponentsOf(g)), Floors(g) \subseteq Int
    PROVE  AnsweredIn(g)
<1> SUFFICES ASSUME Unchained(g), Unambiguous(g), NEW sheet \in Sheets(g, Scores100),
                    NEW name, Missing(Calculated(g, sheet)) = {name},
                    Answerable(g, Calculated(g, sheet), name)
             PROVE  Thresholds([goal \in Floors(g) |-> Solve(g, Calculated(g, sheet), name, goal)],
                               g, sheet, name)
  BY DEF AnsweredIn
<1>1. PICK c, X, Y : /\ c = Calculated(g, sheet)
                     /\ X = EntriesFor(g, g.categories, Scores100)
                     /\ Y = EntriesFor(g, g.assessments, Scores100)
  OBVIOUS
<1>2. sheet \in [categories : X, assessments : Y] /\ c # Refused /\ EnteredSheet(g, sheet)
  BY <1>1 DEF Sheets, EnteredSheet
<1>3. Askable(g)
  OBVIOUS
<1>4. Thresholds([goal \in Floors(g) |-> Solve(g, c, name, goal)], g, sheet, name)
  BY <1>1, <1>2, <1>3, SheetAnswered
<1> QED
  BY <1>1, <1>4

\* Whatever a student corrects in an extracted model and enters for it: on a
\* model that makes the calculator ready, when everything has a name of its own
\* and no replacement feeds another, the required score the solver answers for
\* the one component without a score is exactly where the calculated grade
\* reaches the cutoff: every score from it on reaches it, none below does, also
\* where the score replaces another one or is one of a split category's.
THEOREM AnswersAreThresholds == Spec => []AnswerIsThreshold
<1>1. ASSUME NEW pair \in Accepts, NEW g \in Trusted(pair)
      PROVE  AnsweredIn(g)
  <2>1. Unambiguous(g) => Askable(g)
    <3>1. Weighable(g)
      BY AcceptedWeighable
    <3>2. /\ \A c \in ToSet(g.categories) : c.weight \in Nat \cup {Unknown}
          /\ \A a \in ToSet(g.assessments) : {a.weight, a.points} \subseteq Nat \cup {Unknown}
      BY WeightsValidated
    <3> QED
      BY <3>1, <3>2 DEF Askable
  <2>2. Floors(g) \subseteq Int
    BY ScalesValidated DEF Floors
  <2> QED
    BY <2>1, <2>2, AskableIsAnswered, ScalesValidated, WeightsValidated
<1>2. ReadyIsAccepted => AnswerIsThreshold
  BY <1>1 DEF ReadyIsAccepted, AnswerIsThreshold, ReadyOn, AnsweredPairs
<1> QED
  BY ReadyMeansAccepted, <1>2, PTL

=============================================================================
