-------------------------- MODULE DegreePlanProofs --------------------------
(***************************************************************************)
(* Proofs about DegreePlan: the scheduler keeps the order of prerequisites *)
(* and corequisites, drops no course and overfills no term, and the plan   *)
(* follows the choices and answers for the program.  Some of it needs      *)
(* what the recursive functions of the catalog and of the requirement tree *)
(* compute: the first sections derive it, by a least counterexample over   *)
(* finite sets and over the tree of the program.                           *)
(***************************************************************************)
EXTENDS DegreePlan, FiniteSetTheorems, WellFoundedInduction, TLAPS

----------------------------------------------------------------------------
(* Induction over numbers, finite sets and trees, by a least counterexample. *)

Below == {p \in Nat \X Nat : p[1] < p[2]}

LEMMA Least ==
    ASSUME NEW S \in SUBSET Nat, S # {}
    PROVE  \E n \in S : \A m \in S : n <= m
<1>1. IsWellFoundedOn(Below, Nat)
  BY NatLessThanWellFounded, Zenon DEF OpToRel, Below
<1>2. PICK n \in S : \A m \in S : <<m, n>> \notin Below
  BY <1>1, WFMin
<1>3. ASSUME NEW m \in S
      PROVE  n <= m
  <2>1. ~ (m < n)
    BY <1>2 DEF Below
  <2> QED
    BY <2>1
<1> QED
  BY <1>3

\* A family that has the empty set and grows by every element has the whole set.
LEMMA SetInduction ==
    ASSUME NEW U, IsFiniteSet(U), NEW G \in SUBSET SUBSET U, {} \in G,
           \A T \in G, x \in U : T \cup {x} \in G
    PROVE  U \in G
<1> DEFINE N == {n \in Nat : \E T \in G : Cardinality(U \ T) = n}
<1>1. Cardinality(U) \in N
  <2>1. U \ {} = U /\ Cardinality(U) \in Nat
    BY FS_CardinalityType
  <2> QED
    BY <2>1
<1>2. PICK n \in N : \A m \in N : n <= m
  BY <1>1, Least
<1>3. PICK T \in G : Cardinality(U \ T) = n
  OBVIOUS
<1>4. CASE U \ T = {}
  <2>1. T = U
    BY <1>4
  <2> QED
    BY <2>1
<1>5. CASE U \ T # {}
  <2>1. PICK x \in U : x \notin T
    BY <1>5
  <2>2. T \cup {x} \in G /\ U \ (T \cup {x}) = (U \ T) \ {x}
    BY <2>1
  <2>3. Cardinality((U \ T) \ {x}) = n - 1 /\ IsFiniteSet((U \ T) \ {x})
    BY <1>3, <2>1, FS_RemoveElement, FS_Subset
  <2>4. n - 1 \in Nat
    BY <2>3, FS_CardinalityType
  <2>5. n - 1 \in N
    BY <2>2, <2>3, <2>4
  <2>6. n \in Nat /\ n <= n - 1
    BY <2>5, <1>2
  <2> QED
    BY <2>6
<1> QED
  BY <1>4, <1>5

\* A finite tree: every set of nodes has one without a child in it.
Tree(nodes, kids) ==
    /\ IsFiniteSet(nodes)
    /\ kids \in [nodes -> SUBSET nodes]
    /\ \A S \in SUBSET nodes : S # {} => \E g \in S : kids[g] \cap S = {}

\* A rule that gives a node a value from the values f of its children.
Recursion(nodes, kids, V, rule) ==
    /\ V # {}
    /\ rule \in [[nodes -> V] \X nodes -> V]
    /\ \A f, h \in [nodes -> V], g \in nodes :
          (\A k \in kids[g] : f[k] = h[k]) => rule[<<f, g>>] = rule[<<h, g>>]

\* A recursion that looks at the children of a node has a solution.
LEMMA TreeRecursion ==
    ASSUME NEW nodes, NEW kids, Tree(nodes, kids), NEW V, NEW rule,
           Recursion(nodes, kids, V, rule)
    PROVE  \E f \in [nodes -> V] : \A g \in nodes : f[g] = rule[<<f, g>>]
<1> USE DEF Recursion
<1> DEFINE Right(S, f) == \A g \in S : kids[g] \subseteq S /\ f[g] = rule[<<f, g>>]
           N == {n \in Nat : \E S \in SUBSET nodes, f \in [nodes -> V] :
                                Right(S, f) /\ Cardinality(nodes \ S) = n}
<1>1. Cardinality(nodes) \in N
  <2>1. PICK v \in V : TRUE
    OBVIOUS
  <2>2. [g \in nodes |-> v] \in [nodes -> V] /\ Right({}, [g \in nodes |-> v])
    BY <2>1
  <2>3. nodes \ {} = nodes /\ Cardinality(nodes) \in Nat
    BY FS_CardinalityType DEF Tree
  <2> HIDE DEF Right
  <2> QED
    BY <2>2, <2>3
<1>2. PICK n \in N : \A m \in N : n <= m
  <2> HIDE DEF N
  <2>1. N \subseteq Nat
    BY DEF N
  <2> QED
    BY <1>1, <2>1, Least
<1>3. PICK S \in SUBSET nodes, f \in [nodes -> V] : Right(S, f) /\ Cardinality(nodes \ S) = n
  BY <1>2
<1>4. CASE S = nodes
  BY <1>3, <1>4
<1>5. CASE S # nodes
  <2>1. PICK g \in nodes \ S : kids[g] \cap (nodes \ S) = {}
    <3>1. nodes \ S \in SUBSET nodes /\ nodes \ S # {}
      BY <1>5
    <3> QED
      BY <3>1 DEF Tree
  <2>2. kids[g] \subseteq S
    BY <2>1 DEF Tree
  <2> DEFINE h == [f EXCEPT ![g] = rule[<<f, g>>]]
  <2>3. /\ h \in [nodes -> V] /\ h[g] = rule[<<f, g>>]
        /\ \A k \in nodes \ {g} : h[k] = f[k]
    OBVIOUS
  <2> HIDE DEF h
  <2>4. \A k \in S : h[k] = f[k]
    BY <2>1, <2>3
  <2>5. ASSUME NEW k \in S \cup {g}
        PROVE  kids[k] \subseteq S /\ h[k] = rule[<<h, k>>]
    <3>1. kids[k] \subseteq S
      BY <1>3, <2>2, <2>5
    <3>2. rule[<<h, k>>] = rule[<<f, k>>]
      <4>1. \A j \in kids[k] : h[j] = f[j]
        BY <2>4, <3>1
      <4>2. k \in nodes
        BY <2>1, <2>5
      <4> QED
        BY <2>3, <4>1, <4>2
    <3>3. h[k] = rule[<<f, k>>]
      BY <1>3, <2>3, <2>4, <2>5
    <3> QED
      BY <3>1, <3>2, <3>3
  <2>6. Right(S \cup {g}, h) /\ S \cup {g} \in SUBSET nodes
    BY <2>1, <2>5
  <2>7. Cardinality(nodes \ (S \cup {g})) = n - 1 /\ n - 1 \in Nat
    <3>1. IsFiniteSet(nodes \ S)
      BY FS_Subset DEF Tree
    <3>2. nodes \ (S \cup {g}) = (nodes \ S) \ {g}
      OBVIOUS
    <3>3. IsFiniteSet((nodes \ S) \ {g}) /\ Cardinality((nodes \ S) \ {g}) = n - 1
      BY <1>3, <2>1, <3>1, FS_RemoveElement
    <3> QED
      BY <3>2, <3>3, FS_CardinalityType
  <2>8. n - 1 \in N
    BY <2>3, <2>6, <2>7
  <2>9. n <= n - 1 /\ n \in Nat
    BY <1>2, <2>8
  <2> QED
    BY <2>9
<1> QED
  BY <1>4, <1>5

----------------------------------------------------------------------------
(* Sums of hours. *)

\* What TotalHours unfolds to, for any hours.
Summed(h, S) ==
    CHOOSE f : f = [s \in SUBSET S |->
                      IF s = {} THEN 0
                      ELSE LET x == CHOOSE x \in s : TRUE IN h[x] + f[s \ {x}]]

\* e adds up every subset of T in the order the choice gives it.
Folded(e, h, T) ==
    \A s \in SUBSET T :
        e[s] = IF s = {} THEN 0
               ELSE LET x == CHOOSE x \in s : TRUE IN h[x] + e[s \ {x}]

\* f gives the sum of every subset of S, whatever the order.
Adds(f, h, S) ==
    /\ f \in [SUBSET S -> Nat]
    /\ f[{}] = 0
    /\ \A s \in SUBSET S : \A x \in s : f[s] = h[x] + f[s \ {x}]

LEMMA AddsExist ==
    ASSUME NEW h, NEW S, IsFiniteSet(S), \A x \in S : h[x] \in Nat
    PROVE  \E f : Adds(f, h, S)
<1> DEFINE G == {T \in SUBSET S : \E f : Adds(f, h, T)}
<1>1. {} \in G
  <2>1. [s \in SUBSET {} |-> 0] \in [SUBSET {} -> Nat] /\ [s \in SUBSET {} |-> 0][{}] = 0
    OBVIOUS
  <2>2. Adds([s \in SUBSET {} |-> 0], h, {})
    BY <2>1 DEF Adds
  <2> QED
    BY <2>2
<1>2. ASSUME NEW T \in G, NEW x \in S
      PROVE  T \cup {x} \in G
  <2>1. PICK f : Adds(f, h, T)
    OBVIOUS
  <2>2. CASE x \in T
    <3>1. T \cup {x} = T
      BY <2>2
    <3> QED
      BY <3>1
  <2>3. CASE x \notin T
    <3> DEFINE U == T \cup {x}
               e == [s \in SUBSET U |-> IF x \in s THEN h[x] + f[s \ {x}] ELSE f[s]]
    <3>1. /\ f \in [SUBSET T -> Nat] /\ f[{}] = 0 /\ h[x] \in Nat
          /\ \A s \in SUBSET T : \A y \in s : f[s] = h[y] + f[s \ {y}]
      BY <2>1 DEF Adds
    <3>2. \A s \in SUBSET U : s \ {x} \in SUBSET T /\ (x \notin s => s \in SUBSET T)
      OBVIOUS
    <3>3. e \in [SUBSET U -> Nat]
      BY <3>1, <3>2
    <3>4. e[{}] = 0
      BY <3>1
    <3>5. ASSUME NEW s \in SUBSET U, NEW y \in s
          PROVE  e[s] = h[y] + e[s \ {y}]
      <4>0. s \ {y} \in SUBSET U
        OBVIOUS
      <4>1. CASE x \notin s
        <5>1. e[s] = f[s] /\ e[s \ {y}] = f[s \ {y}]
          BY <4>0, <4>1
        <5> QED
          BY <3>1, <3>2, <4>1, <5>1
      <4>2. CASE y = x
        <5>1. e[s] = h[x] + f[s \ {x}] /\ e[s \ {y}] = f[s \ {x}]
          BY <4>0, <4>2
        <5> QED
          BY <4>2, <5>1
      <4>3. CASE x \in s /\ y # x
        <5>1. e[s] = h[x] + f[s \ {x}] /\ e[s \ {y}] = h[x] + f[(s \ {y}) \ {x}]
          BY <4>0, <4>3
        <5>2. (s \ {y}) \ {x} = (s \ {x}) \ {y} /\ y \in s \ {x} /\ s \ {x} \in SUBSET T
          BY <3>2, <4>3
        <5>3. f[s \ {x}] = h[y] + f[(s \ {x}) \ {y}]
          BY <3>1, <5>2
        <5>4. h[y] \in Nat /\ f[(s \ {x}) \ {y}] \in Nat
          <6>1. (s \ {x}) \ {y} \in SUBSET T /\ y \in S
            BY <5>2
          <6> QED
            BY <3>1, <6>1
        <5>5. e[s] = h[x] + (h[y] + f[(s \ {x}) \ {y}])
          BY <5>1, <5>3
        <5>6. e[s \ {y}] = h[x] + f[(s \ {x}) \ {y}]
          BY <5>1, <5>2
        <5> HIDE DEF e
        <5> QED
          BY <3>1, <5>4, <5>5, <5>6
      <4> QED
        BY <4>1, <4>2, <4>3
    <3>6. Adds(e, h, U)
      <4> HIDE DEF e, U
      <4> QED
        BY <3>3, <3>4, <3>5 DEF Adds
    <3>7. U \in SUBSET S
      OBVIOUS
    <3> HIDE DEF e
    <3> QED
      BY <3>6, <3>7
  <2> QED
    BY <2>2, <2>3
<1>3. G \in SUBSET SUBSET S
  OBVIOUS
<1>4. S \in G
  <2> HIDE DEF G
  <2> QED
    BY <1>1, <1>2, <1>3, SetInduction
<1> QED
  BY <1>4

\* A fold of the hours of T gives what any such function of a larger set does.
LEMMA FoldAdds ==
    ASSUME NEW S, IsFiniteSet(S), NEW f, Adds(f, Hours, S), NEW T \in SUBSET S,
           NEW e, Folded(e, Hours, T)
    PROVE  e[T] = f[T]
<1>0. \A s \in SUBSET T :
         e[s] = IF s = {} THEN 0
                ELSE LET x == CHOOSE x \in s : TRUE IN Hours[x] + e[s \ {x}]
  BY DEF Folded
<1> DEFINE N == {n \in Nat : \E s \in SUBSET T : Cardinality(s) = n /\ e[s] # f[s]}
<1>1. N = {}
  <2> SUFFICES ASSUME N # {}
               PROVE  FALSE
    OBVIOUS
  <2>1. PICK n \in N : \A m \in N : n <= m
    <3> HIDE DEF N
    <3>1. N \subseteq Nat
      BY DEF N
    <3> QED
      BY <3>1, Least
  <2>2. PICK s \in SUBSET T : Cardinality(s) = n /\ e[s] # f[s]
    BY <2>1
  <2>3. s # {}
    <3>1. e[{}] = 0
      BY <1>0
    <3> QED
      BY <2>2, <3>1 DEF Adds
  <2> DEFINE x == CHOOSE x \in s : TRUE
  <2>4. x \in s /\ e[s] = Hours[x] + e[s \ {x}]
    <3>1. x \in s
      BY <2>3
    <3>2. e[s] = Hours[x] + e[s \ {x}]
      BY <1>0, <2>3
    <3> QED
      BY <3>1, <3>2
  <2> HIDE DEF x
  <2>5. s \in SUBSET S /\ f[s] = Hours[x] + f[s \ {x}]
    BY <2>4 DEF Adds
  <2>6. e[s \ {x}] # f[s \ {x}]
    BY <2>2, <2>4, <2>5
  <2>7. IsFiniteSet(s)
    BY FS_Subset
  <2>8. Cardinality(s \ {x}) = n - 1 /\ n - 1 \in Nat
    <3>1. Cardinality(s \ {x}) = Cardinality(s) - 1 /\ IsFiniteSet(s \ {x})
      BY <2>4, <2>7, FS_RemoveElement
    <3> QED
      BY <2>2, <3>1, FS_CardinalityType
  <2>9. n - 1 \in N
    BY <2>6, <2>8
  <2> QED
    BY <2>1, <2>9
<1> QED
  <2>1. Cardinality(T) \in Nat
    BY FS_Subset, FS_CardinalityType
  <2> QED
    BY <1>1, <2>1

\* The sum of T is what any such function of a larger set gives it.
LEMMA TotalAdds ==
    ASSUME NEW S, IsFiniteSet(S), NEW f, Adds(f, Hours, S), NEW T \in SUBSET S
    PROVE  TotalHours(T) = f[T]
<1> DEFINE P(e) == e = [s \in SUBSET T |->
                          IF s = {} THEN 0
                          ELSE LET x == CHOOSE x \in s : TRUE IN Hours[x] + e[s \ {x}]]
           e0 == [s \in SUBSET T |-> f[s]]
<1>1. P(e0)
  <2>1. ASSUME NEW s \in SUBSET T
        PROVE  f[s] = IF s = {} THEN 0
                      ELSE LET x == CHOOSE x \in s : TRUE IN Hours[x] + e0[s \ {x}]
    <3>1. CASE s = {}
      BY <3>1 DEF Adds
    <3>2. CASE s # {}
      <4> DEFINE x == CHOOSE x \in s : TRUE
      <4>1. x \in s
        BY <3>2
      <4> HIDE DEF x
      <4>2. s \in SUBSET S /\ s \ {x} \in SUBSET T
        BY <4>1
      <4>3. f[s] = Hours[x] + f[s \ {x}] /\ e0[s \ {x}] = f[s \ {x}]
        BY <4>1, <4>2 DEF Adds
      <4>4. f[s] = Hours[x] + e0[s \ {x}]
        BY <4>3
      <4> QED
        BY <3>2, <4>4 DEF x
    <3> QED
      BY <3>1, <3>2
  <2> QED
    BY <2>1
<1>2. Summed(Hours, T) = CHOOSE e : P(e)
  BY DEF Summed
<1>3. P(CHOOSE e : P(e))
  <2> HIDE DEF P, e0
  <2> QED
    BY <1>1
<1>4. PICK e : e = Summed(Hours, T)
  OBVIOUS
<1>5. P(e)
  BY <1>2, <1>3, <1>4
<1>6. e[T] = f[T]
  <2>1. Folded(e, Hours, T)
    BY <1>5 DEF Folded
  <2> QED
    BY <2>1, FoldAdds
<1>7. TotalHours(T) = Summed(Hours, T)[T]
  BY Zenon DEF TotalHours, MapThenSumSet, MapThenFoldSet, Summed
<1> QED
  BY <1>4, <1>6, <1>7

LEMMA HoursAreNat ==
    ASSUME NEW S, S \subseteq Courses
    PROVE  /\ IsFiniteSet(S) /\ \A x \in S : Hours[x] \in Nat
           /\ TotalHours(S) \in Nat
<1>1. IsFiniteSet(S) /\ \A x \in S : Hours[x] \in Nat
  BY CatalogAssumption, FS_Subset DEF CatalogAssumption
<1>2. PICK f : Adds(f, Hours, S)
  BY <1>1, AddsExist
<1>3. TotalHours(S) = f[S]
  BY <1>1, <1>2, TotalAdds
<1> QED
  BY <1>1, <1>2, <1>3 DEF Adds

LEMMA HoursOfNone == TotalHours({}) = 0
<1>1. IsFiniteSet({}) /\ \A x \in {} : Hours[x] \in Nat
  BY HoursAreNat
<1>2. PICK f : Adds(f, Hours, {})
  BY <1>1, AddsExist
<1>3. {} \in SUBSET {} /\ f[{}] = 0
  BY <1>2 DEF Adds
<1> QED
  BY <1>1, <1>2, <1>3, TotalAdds

\* Courses apart add up.
LEMMA HoursOfUnion ==
    ASSUME NEW A, NEW B, A \cup B \subseteq Courses, A \cap B = {}
    PROVE  TotalHours(A \cup B) = TotalHours(A) + TotalHours(B)
<1>1. IsFiniteSet(A \cup B) /\ IsFiniteSet(B) /\ \A x \in A \cup B : Hours[x] \in Nat
  BY HoursAreNat
<1>2. PICK f : Adds(f, Hours, A \cup B)
  BY <1>1, AddsExist
<1> DEFINE G == {T \in SUBSET B : f[A \cup T] = f[A] + f[T]}
<1>3. {} \in G
  <2>1. A \cup {} = A /\ f[{}] = 0 /\ f[A] \in Nat
    BY <1>2 DEF Adds
  <2> QED
    BY <2>1
<1>4. ASSUME NEW T \in G, NEW x \in B
      PROVE  T \cup {x} \in G
  <2>1. CASE x \in T
    <3>1. T \cup {x} = T
      BY <2>1
    <3> QED
      BY <3>1
  <2>2. CASE x \notin T
    <3> DEFINE U == T \cup {x}
    <3>1. /\ x \in U /\ x \in A \cup U /\ U \ {x} = T /\ (A \cup U) \ {x} = A \cup T
          /\ U \in SUBSET (A \cup B) /\ A \cup U \in SUBSET (A \cup B)
          /\ T \in SUBSET (A \cup B) /\ A \in SUBSET (A \cup B)
      BY <2>2
    <3> HIDE DEF U
    <3>2. f[U] = Hours[x] + f[T] /\ f[A \cup U] = Hours[x] + f[A \cup T]
      <4>1. \A s \in SUBSET (A \cup B) : \A y \in s : f[s] = Hours[y] + f[s \ {y}]
        BY <1>2 DEF Adds
      <4>2. f[U] = Hours[x] + f[U \ {x}]
        BY <3>1, <4>1
      <4>3. f[A \cup U] = Hours[x] + f[(A \cup U) \ {x}]
        BY <3>1, <4>1
      <4> QED
        BY <3>1, <4>2, <4>3
    <3>3. Hours[x] \in Nat /\ f[T] \in Nat /\ f[A] \in Nat /\ f[A \cup T] = f[A] + f[T]
      <4>1. f[T] \in Nat /\ f[A] \in Nat
        BY <1>2, <3>1 DEF Adds
      <4>2. Hours[x] \in Nat
        BY <1>1
      <4>3. f[A \cup T] = f[A] + f[T]
        OBVIOUS
      <4> QED
        BY <4>1, <4>2, <4>3
    <3>4. f[A \cup U] = f[A] + f[U]
      BY <3>2, <3>3
    <3> QED
      BY <3>4 DEF U
  <2> QED
    BY <2>1, <2>2
<1>5. B \in G
  <2>1. G \in SUBSET SUBSET B
    OBVIOUS
  <2> HIDE DEF G
  <2> QED
    BY <1>1, <1>3, <1>4, <2>1, SetInduction
<1>6. TotalHours(A \cup B) = f[A \cup B] /\ TotalHours(A) = f[A] /\ TotalHours(B) = f[B]
  <2>1. /\ A \cup B \in SUBSET (A \cup B) /\ A \in SUBSET (A \cup B)
        /\ B \in SUBSET (A \cup B)
    OBVIOUS
  <2>2. PICK S : S = A \cup B
    OBVIOUS
  <2>3. \A T \in SUBSET S : TotalHours(T) = f[T]
    BY <1>1, <1>2, <2>2, TotalAdds
  <2> QED
    BY <2>1, <2>2, <2>3
<1> QED
  BY <1>5, <1>6

----------------------------------------------------------------------------
(* The recursions over the requirement tree.                               *)

Kids == [g \in Groups |-> Program[g].kids]

LEMMA ProgramIsTree == Tree(Groups, Kids)
BY TreeAssumption DEF Tree, TreeAssumption, Kids

LEMMA TreeInduction ==
    ASSUME NEW nodes, NEW kids, Tree(nodes, kids), NEW G \in SUBSET nodes,
           \A g \in nodes : kids[g] \subseteq G => g \in G
    PROVE  G = nodes
<1> SUFFICES ASSUME G # nodes
             PROVE  FALSE
  OBVIOUS
<1>1. PICK g \in nodes \ G : kids[g] \cap (nodes \ G) = {}
  <2>1. nodes \ G \in SUBSET nodes /\ nodes \ G # {}
    OBVIOUS
  <2> QED
    BY <2>1 DEF Tree
<1>2. kids[g] \subseteq G
  BY <1>1 DEF Tree
<1> QED
  BY <1>1, <1>2

Statuses == {"MANUAL_REVIEW", "SATISFIED", "IN_PROGRESS", "NOT_STARTED"}

Results == [status : Statuses, hits : SUBSET Courses, started : BOOLEAN, kids : SUBSET Groups]

\* What evaluating a group makes of the results f of the others.
EvaluateStep(f, g, records) ==
    LET kids == Program[g].kids
        met == {k \in kids : f[k].status = "SATISFIED"}
        started == \E k \in kids : f[k].started
    IN  IF Program[g].manual THEN Result("MANUAL_REVIEW", {}, FALSE, {})
        ELSE IF ~ Compound(g) THEN LeafResult(g, records)
        ELSE LET done == IF Program[g].type = "compound_all"
                           THEN kids # {} /\ met = kids ELSE met # {}
             IN  Result(Graded(done, started), {}, started, kids)

LEMMA HitsAreCourses ==
    ASSUME NEW g \in Groups, NEW earned
    PROVE  LeafHits(g, earned) \subseteq Courses
<1>1. \A o \in Program[g].options : UNION o.rows \subseteq Courses
  BY TreeAssumption DEF TreeAssumption
<1> QED
  BY <1>1 DEF LeafHits, OptionHits

LEMMA StepIsResult ==
    ASSUME NEW f, NEW g \in Groups, NEW records
    PROVE  EvaluateStep(f, g, records) \in Results
<1>1. \A met, started : Graded(met, started) \in Statuses
  BY DEF Graded, Statuses
<1>2. CASE Program[g].manual
  <2>1. EvaluateStep(f, g, records) = Result("MANUAL_REVIEW", {}, FALSE, {})
    BY <1>2 DEF EvaluateStep
  <2> QED
    BY <2>1 DEF Result, Results, Statuses
<1>3. CASE ~ Program[g].manual /\ ~ Compound(g)
  <2>1. EvaluateStep(f, g, records) = LeafResult(g, records)
    BY <1>3 DEF EvaluateStep
  <2> DEFINE hits == LeafHits(g, Earned(records))
  <2>2. PICK begun : LeafResult(g, records)
                       = Result(Graded(LeafMet(g, records), begun), hits, hits # {}, {})
    BY Zenon DEF LeafResult
  <2>3. hits \subseteq Courses
    BY HitsAreCourses
  <2> HIDE DEF hits
  <2> DEFINE status == Graded(LeafMet(g, records), begun)
  <2>4. status \in Statuses
    BY <1>1
  <2> HIDE DEF status
  <2>5. Result(status, hits, hits # {}, {}) \in Results
    BY <2>3, <2>4 DEF Result, Results
  <2> QED
    BY <2>1, <2>2, <2>5 DEF status
<1>4. CASE ~ Program[g].manual /\ Compound(g)
  <2> DEFINE kids == Program[g].kids
             met == {k \in kids : f[k].status = "SATISFIED"}
             started == \E k \in kids : f[k].started
             done == IF Program[g].type = "compound_all" THEN kids # {} /\ met = kids ELSE met # {}
             status == Graded(done, started)
  <2>1. EvaluateStep(f, g, records) = Result(status, {}, started, kids)
    BY <1>4, Zenon DEF EvaluateStep
  <2>2. status \in Statuses
    BY <1>1
  <2>3. started \in BOOLEAN
    OBVIOUS
  <2>4. kids \subseteq Groups
    BY TreeAssumption DEF TreeAssumption
  <2> HIDE DEF kids, started, status
  <2> QED
    BY <2>1, <2>2, <2>3, <2>4 DEF Result, Results
<1> QED
  BY <1>2, <1>3, <1>4

\* Evaluate is the one its recursion describes.
LEMMA Evaluated ==
    ASSUME NEW records
    PROVE  /\ Evaluate(records) \in [Groups -> Results]
           /\ \A g \in Groups : Evaluate(records)[g] = EvaluateStep(Evaluate(records), g, records)
<1> DEFINE rule == [p \in [Groups -> Results] \X Groups |-> EvaluateStep(p[1], p[2], records)]
           P(f) == f = [g \in Groups |-> EvaluateStep(f, g, records)]
<1>1. \A f \in [Groups -> Results], g \in Groups : rule[<<f, g>>] = EvaluateStep(f, g, records)
  OBVIOUS
<1>2. rule \in [[Groups -> Results] \X Groups -> Results]
  BY StepIsResult
<1> HIDE DEF rule
<1>3. ASSUME NEW f \in [Groups -> Results], NEW h \in [Groups -> Results], NEW g \in Groups,
             \A k \in Kids[g] : f[k] = h[k]
      PROVE  rule[<<f, g>>] = rule[<<h, g>>]
  <2>1. \A k \in Program[g].kids : f[k] = h[k]
    BY <1>3 DEF Kids
  <2>2. {k \in Program[g].kids : f[k].status = "SATISFIED"}
          = {k \in Program[g].kids : h[k].status = "SATISFIED"}
    BY <2>1
  <2>3. (\E k \in Program[g].kids : f[k].started) = (\E k \in Program[g].kids : h[k].started)
    BY <2>1
  <2>4. EvaluateStep(f, g, records) = EvaluateStep(h, g, records)
    BY <2>2, <2>3 DEF EvaluateStep
  <2> QED
    BY <1>1, <2>4
<1>4. Results # {}
  <2>1. [status |-> "SATISFIED", hits |-> {}, started |-> FALSE, kids |-> {}] \in Results
    BY DEF Results, Statuses
  <2> QED
    BY <2>1
<1>5. PICK f \in [Groups -> Results] : \A g \in Groups : f[g] = rule[<<f, g>>]
  <2> HIDE DEF P
  <2>1. Recursion(Groups, Kids, Results, rule)
    BY <1>2, <1>3, <1>4 DEF Recursion
  <2> QED
    BY <2>1, ProgramIsTree, TreeRecursion
<1>6. P(f)
  <2>1. f = [g \in Groups |-> f[g]]
    OBVIOUS
  <2>2. \A g \in Groups : f[g] = EvaluateStep(f, g, records)
    BY <1>1, <1>5
  <2> QED
    BY <2>1, <2>2
<1>7. Evaluate(records) = CHOOSE e : P(e)
  BY Zenon DEF Evaluate, EvaluateStep
<1>8. P(CHOOSE e : P(e))
  <2> HIDE DEF P
  <2> QED
    BY <1>6
<1>9. P(Evaluate(records))
  BY <1>7, <1>8
<1> QED
  BY <1>9, StepIsResult

LEMMA KidsOfResult ==
    ASSUME NEW records, NEW g \in Groups
    PROVE  /\ Evaluate(records)[g].kids \in {{}, Program[g].kids}
           /\ Program[g].kids \subseteq Groups /\ Kids[g] = Program[g].kids
<1> DEFINE r == Evaluate(records)
<1>1. r[g] = EvaluateStep(r, g, records)
  BY Evaluated
<1> HIDE DEF r
<1>2. EvaluateStep(r, g, records).kids \in {{}, Program[g].kids}
  BY DEF EvaluateStep, Result, LeafResult
<1> QED
  BY <1>1, <1>2, TreeAssumption DEF r, TreeAssumption, Kids

UnderStep(f, g, result) ==
    IF Program[g].type = "compound_all" /\ result[g].kids # {}
      THEN UNION {f[k] : k \in result[g].kids} ELSE {g}

\* What visit finds under each group.
LEMMA VisitedUnder ==
    ASSUME NEW records
    PROVE  \E under \in [Groups -> SUBSET Groups] :
              /\ \A g \in Groups : under[g] = UnderStep(under, g, Evaluate(records))
              /\ Visited(Evaluate(records)) = UNION {under[g] : g \in Top}
<1> DEFINE result == Evaluate(records)
           V == SUBSET Groups
           rule == [p \in [Groups -> V] \X Groups |-> UnderStep(p[1], p[2], result)]
           P(f) == f = [g \in Groups |-> UnderStep(f, g, result)]
<1>0. \A g \in Groups : result[g].kids \subseteq Groups /\ result[g].kids \subseteq Kids[g]
  BY KidsOfResult
<1> HIDE DEF result
<1>1. \A f \in [Groups -> V], g \in Groups : rule[<<f, g>>] = UnderStep(f, g, result)
  OBVIOUS
<1>2. \A f \in [Groups -> V], g \in Groups : UnderStep(f, g, result) \in V
  BY <1>0 DEF UnderStep
<1>3. rule \in [[Groups -> V] \X Groups -> V]
  BY <1>2
<1> HIDE DEF rule
<1>4. Recursion(Groups, Kids, V, rule)
  <2>1. ASSUME NEW f \in [Groups -> V], NEW h \in [Groups -> V], NEW g \in Groups,
               \A k \in Kids[g] : f[k] = h[k]
        PROVE  rule[<<f, g>>] = rule[<<h, g>>]
    <3>1. {f[k] : k \in result[g].kids} = {h[k] : k \in result[g].kids}
      BY <1>0, <2>1
    <3>2. UnderStep(f, g, result) = UnderStep(h, g, result)
      BY <3>1 DEF UnderStep
    <3> QED
      BY <1>1, <3>2
  <2>2. V # {}
    OBVIOUS
  <2> HIDE DEF V
  <2> QED
    BY <1>3, <2>1, <2>2 DEF Recursion
<1>5. PICK f \in [Groups -> V] : \A g \in Groups : f[g] = rule[<<f, g>>]
  <2> HIDE DEF P, V
  <2> QED
    BY <1>4, ProgramIsTree, TreeRecursion
<1>6. P(f)
  <2>1. f = [g \in Groups |-> f[g]] /\ \A g \in Groups : f[g] = UnderStep(f, g, result)
    BY <1>1, <1>5
  <2> QED
    BY <2>1
<1> DEFINE under == CHOOSE e : P(e)
<1>7. Visited(result) = UNION {under[g] : g \in Top}
  BY Zenon DEF Visited, UnderStep
<1>8. P(under)
  <2> HIDE DEF P
  <2> QED
    BY <1>6
<1> HIDE DEF under
<1>9. {g \in Groups : under[g] \subseteq Groups} = Groups
  <2> DEFINE G == {g \in Groups : under[g] \subseteq Groups}
  <2>1. ASSUME NEW g \in Groups, Kids[g] \subseteq G
        PROVE  g \in G
    <3>1. under[g] = UnderStep(under, g, result)
      BY <1>8
    <3>2. \A k \in result[g].kids : under[k] \subseteq Groups
      BY <1>0, <2>1
    <3> QED
      BY <3>1, <3>2 DEF UnderStep
  <2>2. G \in SUBSET Groups
    OBVIOUS
  <2> HIDE DEF G, P
  <2>3. G = Groups
    BY <2>1, <2>2, ProgramIsTree, TreeInduction
  <2> QED
    BY <2>3 DEF G
<1>10. under \in [Groups -> SUBSET Groups] /\ \A g \in Groups : under[g] = UnderStep(under, g, result)
  BY <1>8, <1>9
<1> QED
  BY <1>7, <1>10 DEF result

LEMMA VisitedGroups ==
    ASSUME NEW records
    PROVE  Visited(Evaluate(records)) \subseteq Groups
<1>1. PICK under \in [Groups -> SUBSET Groups] :
         Visited(Evaluate(records)) = UNION {under[g] : g \in Top}
  BY VisitedUnder
<1> QED
  BY <1>1, TreeAssumption DEF TreeAssumption

LEMMA FirstIsIn ==
    ASSUME NEW S, S \subseteq Courses, S # {}
    PROVE  First(S) \in S
<1> DEFINE R == {Rank[c] : c \in S}
<1>1. R \in SUBSET Nat /\ R # {}
  BY CatalogAssumption DEF CatalogAssumption
<1>2. PICK n \in R : \A m \in R : n <= m
  <2> HIDE DEF R
  <2> QED
    BY <1>1, Least
<1>3. \E c \in S : \A d \in S : Rank[c] <= Rank[d]
  BY <1>2
<1> QED
  BY <1>3, Zenon DEF First

LEMMA PreferredIsIn ==
    ASSUME NEW row, row \subseteq Courses, NEW done
    PROVE  /\ row # {} => Preferred(row, done) \in row /\ Alias(row, done) \in row
           /\ Usable(row) # {} => Preferred(Usable(row), done) \in row
<1>1. \A S \in SUBSET row : S # {} => First(S) \in S
  BY FirstIsIn
<1>2. \A S \in SUBSET row : S # {} => Preferred(S, done) \in S
  <2> TAKE S \in SUBSET row
  <2> HAVE S # {}
  <2>1. CASE S \cap done # {}
    <3>1. First(S \cap done) \in S \cap done
      BY <1>1, <2>1
    <3> QED
      BY <2>1, <3>1 DEF Preferred
  <2>2. CASE S \cap done = {}
    BY <1>1, <2>2 DEF Preferred
  <2> QED
    BY <2>1, <2>2
<1>3. Usable(row) \in SUBSET row
  BY DEF Usable
<1> QED
  BY <1>1, <1>2, <1>3 DEF Alias

LEMMA RequiredAreCourses ==
    ASSUME NEW records, NEW excluded, NEW done
    PROVE  Required(Evaluate(records), excluded, done) \subseteq Courses
<1> DEFINE result == Evaluate(records)
<1>1. NoChoice(result, excluded) \subseteq Groups
  BY VisitedGroups DEF NoChoice, Open
<1> HIDE DEF result
<1> SUFFICES ASSUME NEW c \in Required(result, excluded, done)
             PROVE  c \in Courses
  BY DEF result
<1>2. PICK g \in NoChoice(result, excluded) :
         \E row \in UNION {o.rows : o \in Program[g].options} :
            Usable(row) # {} /\ c = Preferred(Usable(row), done)
  BY DEF Required
<1>3. PICK row \in UNION {o.rows : o \in Program[g].options} :
         Usable(row) # {} /\ c = Preferred(Usable(row), done)
  BY <1>2
<1>4. row \subseteq Courses
  BY <1>1, <1>3, TreeAssumption DEF TreeAssumption
<1> QED
  BY <1>3, <1>4, PreferredIsIn

----------------------------------------------------------------------------
(* The candidates. *)

Candidate == [owner : Groups, order : SUBSET Nat, courses : SUBSET Courses]

ChoicesStep(f, g, result, done) ==
    IF Program[g].manual \/ Program[g].unsafe THEN {}
    ELSE IF Program[g].type = "compound_any"
      THEN UNION {{[ch EXCEPT !.owner = k] : ch \in f[k]} : k \in result[g].kids}
    ELSE IF result[g].kids # {} THEN {}
    ELSE LeafChoices(g, result, done)

LEMMA SelectionsAreOptions ==
    ASSUME NEW g \in Groups, NEW result, NEW done, NEW s \in Selections(g, result, done)
    PROVE  s \subseteq Program[g].options
<1>1. CASE Program[g].type = "enumerated_all"
  BY <1>1, Zenon DEF Selections
<1>2. CASE Program[g].type = "enumerated_at_least_n"
  BY <1>2, Zenon DEF Selections
<1>3. CASE Program[g].type = "enumerated_credit_threshold"
  BY <1>3, Zenon DEF Selections
<1>4. CASE Program[g].type \notin {"enumerated_all", "enumerated_at_least_n",
                                    "enumerated_credit_threshold"}
  <2>1. Selections(g, result, done) = {}
    BY <1>4, Zenon DEF Selections
  <2> QED
    BY <2>1
<1> QED
  BY <1>1, <1>2, <1>3, <1>4

LEMMA VariantsAreCourses ==
    ASSUME NEW g \in Groups, NEW o \in Program[g].options, NEW done
    PROVE  Variants(o, done) \subseteq SUBSET Courses
<1>1. \A row \in o.rows : row \subseteq Courses
  BY TreeAssumption DEF TreeAssumption
<1>2. \A row \in o.rows \ {{}} : Alias(row, done) \in Courses
  BY <1>1, PreferredIsIn
<1> DEFINE codes == {Alias(row, done) : row \in o.rows \ {{}}}
<1>3. codes \subseteq Courses
  BY <1>2
<1>4. Variants(o, done) = IF codes = {} THEN {}
                          ELSE IF o.logic = "or" THEN {{c} : c \in codes} ELSE {codes}
  BY DEF Variants
<1> HIDE DEF codes
<1> QED
  BY <1>3, <1>4

LEMMA LeafChoicesTyped ==
    ASSUME NEW g \in Groups, NEW result, NEW done
    PROVE  LeafChoices(g, result, done) \subseteq Candidate
<1> DEFINE picks == UNION {Picks(s, done) : s \in Selections(g, result, done)}
<1>1. \A ch \in LeafChoices(g, result, done) : \E pick \in picks : ch = Choice(g, pick, done)
  BY Zenon DEF LeafChoices
<1>2. ASSUME NEW pick \in picks
      PROVE  Choice(g, pick, done) \in Candidate
  <2>1. PICK s \in Selections(g, result, done) : pick \in Picks(s, done)
    BY <1>2
  <2>2. s \subseteq Program[g].options
    BY <2>1, SelectionsAreOptions
  <2>3. DOMAIN pick = s /\ \A o \in s : pick[o] \in Variants(o, done)
    BY <2>1 DEF Picks
  <2>4. \A o \in s : pick[o] \subseteq Courses /\ o.index \in Nat
    BY <2>2, <2>3, VariantsAreCourses, TreeAssumption DEF TreeAssumption
  <2>5. {o.index : o \in DOMAIN pick} \in SUBSET Nat
    BY <2>3, <2>4
  <2>6. (UNION {pick[o] : o \in DOMAIN pick}) \ done \in SUBSET Courses
    BY <2>3, <2>4
  <2> QED
    BY <2>5, <2>6 DEF Choice, Candidate
<1> HIDE DEF picks
<1> QED
  BY <1>1, <1>2

\* CandidatesOf is the one its recursion describes.
LEMMA CandidatesTyped ==
    ASSUME NEW records, NEW done
    PROVE  LET c == CandidatesOf(Evaluate(records), done)
           IN  /\ c \in [Groups -> SUBSET Candidate]
               /\ \A g \in Groups : c[g] = ChoicesStep(c, g, Evaluate(records), done)
<1> DEFINE result == Evaluate(records)
           V == SUBSET Candidate
           rule == [p \in [Groups -> V] \X Groups |-> ChoicesStep(p[1], p[2], result, done)]
           P(f) == f = [g \in Groups |-> ChoicesStep(f, g, result, done)]
<1>0. \A g \in Groups : result[g].kids \subseteq Groups /\ result[g].kids \subseteq Kids[g]
  BY KidsOfResult
<1> HIDE DEF result
<1>1. \A f \in [Groups -> V], g \in Groups : rule[<<f, g>>] = ChoicesStep(f, g, result, done)
  OBVIOUS
<1>2. ASSUME NEW f, NEW g \in Groups, \A k \in result[g].kids : f[k] \subseteq Candidate
      PROVE  ChoicesStep(f, g, result, done) \subseteq Candidate
  <2>1. ASSUME NEW k \in result[g].kids, NEW ch \in f[k]
        PROVE  [ch EXCEPT !.owner = k] \in Candidate
    <3>1. ch \in Candidate /\ k \in Groups
      BY <1>0, <1>2, <2>1
    <3> QED
      BY <3>1 DEF Candidate
  <2>2. UNION {{[ch EXCEPT !.owner = k] : ch \in f[k]} : k \in result[g].kids} \subseteq Candidate
    BY <2>1
  <2> QED
    BY <2>2, LeafChoicesTyped DEF ChoicesStep
<1>3. rule \in [[Groups -> V] \X Groups -> V]
  <2>1. \A f \in [Groups -> V], g \in Groups : ChoicesStep(f, g, result, done) \in V
    BY <1>0, <1>2
  <2> HIDE DEF V
  <2> QED
    BY <2>1
<1> HIDE DEF rule
<1>4. Recursion(Groups, Kids, V, rule)
  <2>1. ASSUME NEW f \in [Groups -> V], NEW h \in [Groups -> V], NEW g \in Groups,
               \A k \in Kids[g] : f[k] = h[k]
        PROVE  rule[<<f, g>>] = rule[<<h, g>>]
    <3>1. \A k \in result[g].kids : f[k] = h[k]
      BY <1>0, <2>1
    <3>2. UNION {{[ch EXCEPT !.owner = k] : ch \in f[k]} : k \in result[g].kids}
            = UNION {{[ch EXCEPT !.owner = k] : ch \in h[k]} : k \in result[g].kids}
      BY <3>1
    <3>3. ChoicesStep(f, g, result, done) = ChoicesStep(h, g, result, done)
      BY <3>2 DEF ChoicesStep
    <3> QED
      BY <1>1, <3>3
  <2>2. V # {}
    OBVIOUS
  <2> HIDE DEF V
  <2> QED
    BY <1>3, <2>1, <2>2 DEF Recursion
<1>5. PICK f \in [Groups -> V] : \A g \in Groups : f[g] = rule[<<f, g>>]
  <2> HIDE DEF P, V
  <2> QED
    BY <1>4, ProgramIsTree, TreeRecursion
<1>6. P(f)
  <2>1. f = [g \in Groups |-> f[g]] /\ \A g \in Groups : f[g] = ChoicesStep(f, g, result, done)
    BY <1>1, <1>5
  <2> QED
    BY <2>1
<1> DEFINE c == CandidatesOf(result, done)
<1>7. c = CHOOSE e : P(e)
  BY Zenon DEF CandidatesOf, ChoicesStep
<1>8. P(c)
  <2>1. P(CHOOSE e : P(e))
    <3> HIDE DEF P
    <3> QED
      BY <1>6
  <2> QED
    BY <1>7, <2>1
<1> HIDE DEF c
<1>9. {g \in Groups : c[g] \subseteq Candidate} = Groups
  <2> DEFINE G == {g \in Groups : c[g] \subseteq Candidate}
  <2>1. ASSUME NEW g \in Groups, Kids[g] \subseteq G
        PROVE  g \in G
    <3>1. c[g] = ChoicesStep(c, g, result, done)
      BY <1>8
    <3>2. \A k \in result[g].kids : c[k] \subseteq Candidate
      BY <1>0, <2>1
    <3> QED
      BY <1>2, <3>1, <3>2
  <2>2. G \in SUBSET Groups
    OBVIOUS
  <2> HIDE DEF G, P
  <2>3. G = Groups
    BY <2>1, <2>2, ProgramIsTree, TreeInduction
  <2> QED
    BY <2>3 DEF G
<1>10. c \in [Groups -> SUBSET Candidate] /\ \A g \in Groups : c[g] = ChoicesStep(c, g, result, done)
  BY <1>8, <1>9
<1> QED
  BY <1>10 DEF c, result

----------------------------------------------------------------------------
(* The packing loop.                                                       *)

\* What the loop looks at stays within the courses to schedule.
Within ==
    /\ terms \in Seq(SUBSET scope)
    /\ edges \subseteq scope \X scope
    /\ pairs \subseteq scope \X scope
    /\ queue \subseteq ready
    /\ chosen \subseteq ready

\* In-degrees: a course is ready exactly when its prerequisites are placed.
ReadyExact == ready = {c \in scope : c \notin Placed /\ Prerequisites(c) \subseteq Placed}

\* The open term has every corequisite of its courses, or an earlier one does.
Accompanied == \A e \in pairs : e[1] \in chosen => e[2] \in Placed \cup chosen

\* Where the loop stands.
Progressing ==
    /\ step = "head" => chosen = {}
    /\ step # "end" => ~ failed
    /\ ~ failed => ~ Cyclic(scope, edges)
    /\ step = "end" /\ ~ failed => ready = {}

Disjoint == \A i, j \in DOMAIN terms : i # j => terms[i] \cap terms[j] = {}

PackInv == Within /\ ReadyExact /\ Accompanied /\ Progressing /\ OrderKept /\ Disjoint

\* The closure holds its course and every corequisite its courses miss.
LEMMA ClosureClosed ==
    ASSUME NEW c \in scope
    PROVE  /\ c \in Closure(c)
           /\ Closure(c) \subseteq scope
           /\ \A d \in Closure(c) : Missing(d) \subseteq Closure(c)
<1>1. c \in Closure(c) /\ Closure(c) \subseteq scope
  BY DEF Closure
<1>2. ASSUME NEW d \in Closure(c), NEW x \in Missing(d)
      PROVE  x \in Closure(c)
  <2>1. x \in scope
    BY DEF Missing
  <2>2. ASSUME NEW S \in SUBSET scope, c \in S, \A e \in S : Missing(e) \subseteq S
        PROVE  x \in S
    <3>1. d \in S
      BY <2>2 DEF Closure
    <3> QED
      BY <2>2, <3>1
  <2> QED
    BY <2>1, <2>2 DEF Closure
<1> QED
  BY <1>1, <1>2

\* When nothing is ready and nothing is circular, everything is placed.
LEMMA NothingLeft ==
    ASSUME PackInv, step = "end", ~ failed
    PROVE  Placed = scope
<1>1. ready = {} /\ ~ Cyclic(scope, edges)
  BY DEF PackInv, Progressing
<1>2. Placed \subseteq scope
  <2>1. \A i \in DOMAIN terms : terms[i] \subseteq scope
    BY DEF PackInv, Within
  <2> QED
    BY <2>1 DEF Placed
<1>3. ASSUME scope \ Placed # {}
      PROVE  FALSE
  <2>1. PICK c \in scope \ Placed : \A d \in scope \ Placed : <<c, d>> \notin edges
    BY <1>1, <1>3 DEF Cyclic
  <2>2. c \in ready
    BY <2>1 DEF PackInv, ReadyExact, Prerequisites
  <2> QED
    BY <1>1, <2>2
<1> QED
  BY <1>2, <1>3

\* A run of the loop starts with nothing placed.
LEMMA BeginPacks ==
    ASSUME NEW courses, NEW prereqs, NEW done, NEW maxTerms,
           Begin(courses, prereqs, done, maxTerms)
    PROVE  PackInv'
<1> USE DEF Begin
<1>1. Placed' = {}
  BY DEF Placed
<1>2. Within'
  BY DEF Within, StrictEdges, CoreqPairs
<1>3. ReadyExact'
  BY <1>1 DEF ReadyExact, Prerequisites
<1>4. Accompanied'
  BY DEF Accompanied
<1>5. Progressing'
  <2>1. ~ failed' => ~ Cyclic(courses, edges')
    OBVIOUS
  <2> QED
    BY <2>1 DEF Progressing, Cyclic
<1>6. OrderKept' /\ Disjoint'
  BY DEF OrderKept, Disjoint
<1> QED
  BY <1>2, <1>3, <1>4, <1>5, <1>6 DEF PackInv

\* Opening a term.
LEMMA OpenTermPacks ==
    ASSUME PackInv, OpenTerm
    PROVE  PackInv'
<1> USE DEF OpenTerm
<1>1. Placed' = Placed
  BY DEF Placed
<1>2. Within'
  BY DEF PackInv, Within
<1>3. ReadyExact'
  BY <1>1 DEF PackInv, ReadyExact, Prerequisites
<1>4. Accompanied'
  BY <1>1 DEF PackInv, Accompanied
<1>5. Progressing'
  <2>1. ~ failed /\ chosen = {} /\ ~ Cyclic(scope, edges)
    BY DEF PackInv, Progressing
  <2>2. chosen' = {} /\ ~ Cyclic(scope, edges)'
    BY <2>1 DEF Cyclic
  <2>3. CASE Len(terms) < horizon /\ ready # {}
    BY <2>1, <2>2, <2>3 DEF Progressing
  <2>4. CASE ~ (Len(terms) < horizon /\ ready # {})
    <3>1. step' = "end" /\ failed' = (ready # {}) /\ ready' = ready
      BY <2>4
    <3> QED
      BY <2>2, <3>1 DEF Progressing
  <2> QED
    BY <2>3, <2>4
<1>6. OrderKept' /\ Disjoint'
  BY DEF PackInv, OrderKept, Disjoint
<1> QED
  BY <1>2, <1>3, <1>4, <1>5, <1>6 DEF PackInv

\* Trying a course.
LEMMA ConsiderPacks ==
    ASSUME PackInv, Consider
    PROVE  PackInv'
<1> USE DEF Consider
<1>1. Placed' = Placed
  BY DEF Placed
<1>2. PICK c \in queue :
        /\ queue' = queue \ {c}
        /\ IF Fits(c) THEN chosen' = chosen \cup Closure(c) ELSE chosen' = chosen
  OBVIOUS
<1>3. c \in scope
  BY DEF PackInv, Within, ReadyExact
<1>4. chosen' \subseteq ready
  BY <1>2 DEF PackInv, Within, Fits
<1>5. Within'
  BY <1>2, <1>4 DEF PackInv, Within
<1>6. Accompanied'
  <2>1. CASE chosen' = chosen
    BY <1>1, <2>1 DEF PackInv, Accompanied
  <2>2. CASE chosen' = chosen \cup Closure(c)
    <3> SUFFICES ASSUME NEW e \in pairs, e[1] \in chosen'
                 PROVE  e[2] \in Placed \cup chosen'
      BY <1>1 DEF Accompanied
    <3>1. CASE e[1] \in chosen
      BY <2>2, <3>1 DEF PackInv, Accompanied
    <3>2. CASE e[1] \in Closure(c)
      <4>1. e = <<e[1], e[2]>> /\ e[2] \in scope
        BY DEF PackInv, Within
      <4>2. CASE e[2] \in Placed \cup chosen
        BY <2>2, <4>2
      <4>3. CASE e[2] \notin Placed \cup chosen
        <5>1. e[2] \in Missing(e[1])
          BY <4>1, <4>3 DEF Missing
        <5> QED
          BY <1>3, <2>2, <3>2, <5>1, ClosureClosed
      <4> QED
        BY <4>2, <4>3
    <3> QED
      BY <2>2, <3>1, <3>2
  <2> QED
    BY <1>2, <2>1, <2>2
<1>7. ReadyExact'
  BY <1>1 DEF PackInv, ReadyExact, Prerequisites
<1>8. Progressing'
  BY DEF PackInv, Progressing, Cyclic
<1>9. OrderKept' /\ Disjoint'
  BY DEF PackInv, OrderKept, Disjoint
<1> QED
  BY <1>5, <1>6, <1>7, <1>8, <1>9 DEF PackInv

\* Closing a term.
LEMMA CloseTermPacks ==
    ASSUME PackInv, CloseTerm
    PROVE  PackInv'
<1>1. /\ UNCHANGED <<scope, edges, pairs, queue>>
      /\ queue = {}
      /\ chosen' = {}
  BY DEF CloseTerm
<1>2. CASE chosen = {}
  <2>1. UNCHANGED <<terms, ready>> /\ step' = "end" /\ failed' = TRUE
    BY <1>2 DEF CloseTerm
  <2>2. Placed' = Placed
    BY <2>1 DEF Placed
  <2>3. Within' /\ ReadyExact' /\ Accompanied'
    BY <1>1, <2>1, <2>2 DEF PackInv, Within, ReadyExact, Prerequisites, Accompanied
  <2>4. Progressing'
    BY <2>1 DEF Progressing
  <2>5. OrderKept' /\ Disjoint'
    BY <1>1, <2>1 DEF PackInv, OrderKept, Disjoint
  <2> QED
    BY <2>3, <2>4, <2>5 DEF PackInv
<1>3. CASE chosen # {}
  <2>1. /\ terms' = Append(terms, chosen)
        /\ ready' = (ready \ chosen) \cup NewlyReady
        /\ step' = "head"
        /\ failed' = failed
    BY <1>3 DEF CloseTerm
  <2>2. /\ chosen \subseteq scope
        /\ chosen \cap Placed = {}
        /\ \A c \in chosen : Prerequisites(c) \subseteq Placed
    BY DEF PackInv, Within, ReadyExact
  <2>3. /\ terms' \in Seq(SUBSET scope)
        /\ Len(terms') = Len(terms) + 1
        /\ terms'[Len(terms) + 1] = chosen
        /\ \A i \in 1..Len(terms) : terms'[i] = terms[i]
        /\ DOMAIN terms = 1..Len(terms)
        /\ DOMAIN terms' = 1..(Len(terms) + 1)
        /\ Len(terms) \in Nat
    BY <2>1, <2>2 DEF PackInv, Within
  <2>4. Placed' = Placed \cup chosen
    <3>1. \A x : (\E i \in 1..(Len(terms) + 1) : x \in terms'[i])
                   <=> (\E i \in 1..Len(terms) : x \in terms[i]) \/ x \in chosen
      BY <2>3
    <3> QED
      BY <2>3, <3>1 DEF Placed
  <2>5. \A c \in Placed : Prerequisites(c) \subseteq Placed
    <3> SUFFICES ASSUME NEW c \in Placed, NEW d \in Prerequisites(c)
                 PROVE  d \in Placed
      OBVIOUS
    <3>1. PICK i \in DOMAIN terms : c \in terms[i]
      BY DEF Placed
    <3>2. d \in scope /\ <<c, d>> \in edges
      BY DEF Prerequisites
    <3>3. \E j \in DOMAIN terms : d \in terms[j]
      BY <3>1, <3>2 DEF PackInv, OrderKept
    <3> QED
      BY <3>3 DEF Placed
  <2>6. \A c : Prerequisites(c)' = Prerequisites(c)
    BY <1>1 DEF Prerequisites
  <2>7. ReadyExact'
    <3>1. ready' \subseteq {c \in scope : c \notin Placed' /\ Prerequisites(c) \subseteq Placed'}
      <4>1. ASSUME NEW c \in ready \ chosen
            PROVE  c \in scope /\ c \notin Placed' /\ Prerequisites(c) \subseteq Placed'
        BY <2>4, <4>1 DEF PackInv, ReadyExact
      <4>2. ASSUME NEW c \in NewlyReady
            PROVE  c \in scope /\ c \notin Placed' /\ Prerequisites(c) \subseteq Placed'
        <5>1. PICK d \in Prerequisites(c) : d \in chosen
          BY <4>2 DEF NewlyReady
        <5>2. d \notin Placed
          BY <2>2, <5>1
        <5>3. c \notin chosen /\ c \notin Placed
          BY <2>2, <2>5, <5>1, <5>2
        <5> QED
          BY <2>4, <4>2, <5>3 DEF NewlyReady
      <4> QED
        BY <2>1, <4>1, <4>2
    <3>2. ASSUME NEW c \in scope, c \notin Placed', Prerequisites(c) \subseteq Placed'
          PROVE  c \in ready'
      <4>1. CASE Prerequisites(c) \cap chosen = {}
        <5>1. c \in ready /\ c \notin chosen
          BY <2>4, <3>2, <4>1 DEF PackInv, ReadyExact
        <5> QED
          BY <2>1, <5>1
      <4>2. CASE Prerequisites(c) \cap chosen # {}
        <5>1. c \in NewlyReady
          BY <2>4, <3>2, <4>2 DEF NewlyReady
        <5> QED
          BY <2>1, <5>1
      <4> QED
        BY <4>1, <4>2
    <3> QED
      BY <1>1, <2>6, <3>1, <3>2 DEF ReadyExact
  <2>8. Within'
    BY <1>1, <2>3 DEF PackInv, Within
  <2>9. Accompanied'
    BY <1>1 DEF Accompanied
  <2>10. Progressing'
    <3>1. step = "term"
      BY DEF CloseTerm
    <3>2. ~ failed /\ ~ Cyclic(scope, edges)
      BY <3>1 DEF PackInv, Progressing
    <3> QED
      BY <1>1, <2>1, <3>2 DEF Progressing, Cyclic
  <2>11. OrderKept'
    <3> SUFFICES ASSUME NEW i \in DOMAIN terms', NEW c \in terms'[i], NEW d \in scope
                 PROVE  /\ <<c, d>> \in edges => \E j \in DOMAIN terms' : j < i /\ d \in terms'[j]
                        /\ <<c, d>> \in pairs => \E j \in DOMAIN terms' : j <= i /\ d \in terms'[j]
      BY <1>1 DEF OrderKept
    <3>1. CASE i \in 1..Len(terms)
      <4>1. c \in terms[i] /\ i \in DOMAIN terms
        BY <2>3, <3>1
      <4>2. /\ <<c, d>> \in edges => \E j \in DOMAIN terms : j < i /\ d \in terms[j]
            /\ <<c, d>> \in pairs => \E j \in DOMAIN terms : j <= i /\ d \in terms[j]
        BY <4>1 DEF PackInv, OrderKept
      <4>3. \A j \in DOMAIN terms : j \in DOMAIN terms' /\ terms'[j] = terms[j]
        BY <2>3
      <4> QED
        BY <4>2, <4>3
    <3>2. CASE i = Len(terms) + 1
      <4>1. c \in chosen
        BY <2>3, <3>2
      <4>2. \A j \in DOMAIN terms : j \in DOMAIN terms' /\ j < i /\ j <= i /\ terms'[j] = terms[j]
        BY <2>3, <3>2
      <4>3. ASSUME <<c, d>> \in edges
            PROVE  \E j \in DOMAIN terms' : j < i /\ d \in terms'[j]
        <5>1. d \in Placed
          BY <2>2, <4>1, <4>3 DEF Prerequisites
        <5>2. PICK j \in DOMAIN terms : d \in terms[j]
          BY <5>1 DEF Placed
        <5> QED
          BY <4>2, <5>2
      <4>4. ASSUME <<c, d>> \in pairs
            PROVE  \E j \in DOMAIN terms' : j <= i /\ d \in terms'[j]
        <5>1. d \in Placed \cup chosen
          BY <4>1, <4>4 DEF PackInv, Accompanied
        <5>2. CASE d \in Placed
          <6>1. PICK j \in DOMAIN terms : d \in terms[j]
            BY <5>2 DEF Placed
          <6> QED
            BY <4>2, <6>1
        <5>3. CASE d \in chosen
          <6>1. d \in terms'[i] /\ i <= i
            BY <2>3, <3>2, <5>3
          <6> QED
            BY <6>1
        <5> QED
          BY <5>1, <5>2, <5>3
      <4> QED
        BY <4>3, <4>4
    <3> QED
      BY <2>3, <3>1, <3>2
  <2>12. Disjoint'
    <3>1. \A i \in 1..Len(terms) : terms[i] \cap chosen = {}
      BY <2>2, <2>3 DEF Placed
    <3> SUFFICES ASSUME NEW i \in DOMAIN terms', NEW j \in DOMAIN terms', i # j
                 PROVE  terms'[i] \cap terms'[j] = {}
      BY DEF Disjoint
    <3>2. CASE i \in 1..Len(terms) /\ j \in 1..Len(terms)
      BY <2>3, <3>2 DEF PackInv, Disjoint
    <3>3. CASE i = Len(terms) + 1 /\ j \in 1..Len(terms)
      BY <2>3, <3>1, <3>3
    <3>4. CASE i \in 1..Len(terms) /\ j = Len(terms) + 1
      BY <2>3, <3>1, <3>4
    <3> QED
      BY <2>3, <3>2, <3>3, <3>4
  <2> QED
    BY <2>7, <2>8, <2>9, <2>10, <2>11, <2>12 DEF PackInv
<1> QED
  BY <1>2, <1>3

\* An action that leaves the loop alone.
LEMMA StutterPacks ==
    ASSUME PackInv, UNCHANGED packing
    PROVE  PackInv'
<1>1. Placed' = Placed
  BY DEF packing, Placed
<1>2. Within' /\ ReadyExact' /\ Accompanied'
  BY <1>1 DEF packing, PackInv, Within, ReadyExact, Prerequisites, Accompanied
<1>3. Progressing'
  BY DEF packing, PackInv, Progressing, Cyclic
<1>4. OrderKept' /\ Disjoint'
  BY DEF packing, PackInv, OrderKept, Disjoint
<1> QED
  BY <1>2, <1>3, <1>4 DEF PackInv

LEMMA InitPacks == Init => PackInv
<1> SUFFICES ASSUME Init
             PROVE  PackInv
  OBVIOUS
<1> USE DEF Init
<1>1. Placed = {}
  BY DEF Placed
<1>2. Within /\ ReadyExact /\ Accompanied
  BY <1>1 DEF Within, ReadyExact, Prerequisites, Accompanied
<1>3. Progressing
  BY DEF Progressing, Cyclic
<1>4. OrderKept /\ Disjoint
  BY DEF OrderKept, Disjoint
<1> QED
  BY <1>2, <1>3, <1>4 DEF PackInv

LEMMA NextPacks == PackInv /\ [Next]_vars => PackInv'
<1> SUFFICES ASSUME PackInv, [Next]_vars
             PROVE  PackInv'
  OBVIOUS
<1>1. CASE Load \/ Pair \/ Tried \/ Finish
  BY <1>1, StutterPacks DEF Load, Pair, Tried, Finish
<1>2. CASE Try
  BY <1>2, BeginPacks DEF Try
<1>3. CASE Decide
  BY <1>3, BeginPacks, StutterPacks DEF Decide
<1>4. CASE Packing
  BY <1>4, OpenTermPacks, ConsiderPacks, CloseTermPacks DEF Packing, Pack
<1>5. CASE UNCHANGED vars
  BY <1>5, StutterPacks DEF vars
<1> QED
  BY <1>1, <1>2, <1>3, <1>4, <1>5 DEF Next

LEMMA AlwaysPacks == Spec => []PackInv
  BY InitPacks, NextPacks, PTL DEF Spec

\* No course is planned before a prerequisite or without a corequisite, in the
\* result and in every placement the selection tries, for any catalog and cap.
THEOREM OrderIsKept == Spec => []OrderKept
<1>1. PackInv => OrderKept
  BY DEF PackInv
<1> QED
  BY <1>1, AlwaysPacks, PTL

\* A plan without a failure has every course to schedule, each in one term.
THEOREM NothingIsDropped == Spec => []NothingDropped
<1>1. PackInv => NothingDropped
  BY NothingLeft DEF PackInv, Disjoint, NothingDropped
<1> QED
  BY <1>1, AlwaysPacks, PTL

----------------------------------------------------------------------------
(* The decisions.                                                          *)

\* Combinations are finitely many and give each course one owner.
Owned ==
    /\ IsFiniteSet(valid)
    /\ Choosable \subseteq deferred
    /\ \A combination \in untried \cup valid : Compatible(combination)
    /\ stage = "packing" => Compatible(trying)
    /\ stage \in {"load", "pair"} => untried = {} /\ valid = {}

\* What is packed is what the decisions and the winning combination say.
Decided ==
    (stage = "final" \/ (stage = "done" /\ ~ failed)) /\ ~ plan.refused =>
        /\ IF valid = {} THEN plan.best = None ELSE plan.best \in Constrained
        /\ plan.decisions = [g \in deferred |-> Decision(g)]
        /\ plan.unscheduled = Unscheduled
        /\ scope = base \cup (IF valid = {} THEN {} ELSE Chosen(plan.best, Scheduled))

ChoiceInv == Owned /\ Decided

\* The scheduler is at rest unless it packs.
AtRest == stage \notin {"packing", "final"} => step = "end"

\* The decisions depend on nothing but the input, the scope and what fits.
LEMMA SameDecisions ==
    ASSUME UNCHANGED <<input, scoped, valid>>
    PROVE  /\ Constrained' = Constrained
           /\ \A g : Decision(g)' = Decision(g)
           /\ Scheduled' = Scheduled
           /\ Unscheduled' = Unscheduled
<1> USE DEF scoped
<1>1. /\ Choosable' = Choosable
      /\ \A g, S : Candidates(g, S)' = Candidates(g, S)
      /\ \A S : LockGroups(S)' = LockGroups(S)
      /\ \A f, S : Respects(f, S)' = Respects(f, S)
  BY DEF Choosable, Candidates, LockGroups, Respects
<1>2. \A l : LockValid(l)' = LockValid(l)
  BY <1>1 DEF LockValid
<1>3. LocksFail' = LocksFail
  BY <1>1, <1>2 DEF LocksFail
<1>4. ActiveLocks' = ActiveLocks
  BY <1>3 DEF ActiveLocks
<1>5. Constrained' = Constrained
  BY <1>1, <1>4 DEF Constrained
<1>6. \A g : Feasible(g)' = Feasible(g)
  BY <1>1, <1>4, <1>5 DEF Feasible
<1>7. \A g : Decision(g)' = Decision(g)
  BY <1>1, <1>4, <1>6 DEF Decision
<1>8. Resolved' = Resolved
  BY <1>1, <1>7 DEF Resolved
<1>9. Scheduled' = Scheduled
  BY <1>1, <1>8 DEF Scheduled
<1> QED
  BY <1>5, <1>7, <1>9 DEF Unscheduled

LEMMA InitChoices == Init => ChoiceInv
<1> SUFFICES ASSUME Init
             PROVE  ChoiceInv
  OBVIOUS
<1>1. Owned
  BY FS_EmptySet DEF Init, Owned, Choosable
<1>2. Decided
  BY DEF Init, Decided
<1> QED
  BY <1>1, <1>2 DEF ChoiceInv

LEMMA NextChoices == ChoiceInv /\ [Next]_vars => ChoiceInv'
<1> SUFFICES ASSUME ChoiceInv, [Next]_vars
             PROVE  ChoiceInv'
  OBVIOUS
<1> USE DEF ChoiceInv
<1>1. ASSUME UNCHANGED scoped
      PROVE  \A f : Compatible(f)' = Compatible(f)
  BY <1>1 DEF scoped, Compatible, Choosable
<1>2. CASE Load
  <2>1. Owned'
    BY <1>2 DEF Load, Owned, Choosable
  <2>2. Decided'
    BY <1>2 DEF Load, Decided
  <2> QED
    BY <2>1, <2>2
<1>3. CASE Pair
  <2>1. \A f \in untried' : Compatible(f)
    BY <1>3 DEF Pair, Combinations
  <2>2. Owned'
    BY <1>1, <1>3, <2>1 DEF Pair, Owned, scoped, Choosable
  <2>3. Decided'
    BY <1>3 DEF Pair, Decided
  <2> QED
    BY <2>2, <2>3
<1>4. CASE Try
  <2>1. PICK f \in untried : trying' = f /\ untried' = untried \ {f}
    BY <1>4 DEF Try
  <2>2. Owned'
    BY <1>1, <1>4, <2>1 DEF Try, Owned, scoped, Choosable
  <2>3. Decided'
    BY <1>4 DEF Try, Decided
  <2> QED
    BY <2>2, <2>3
<1>5. CASE Packing
  <2>1. UNCHANGED <<input, stage, scoped, untried, trying, valid, plan, scope>>
    BY <1>5 DEF Packing, Pack, OpenTerm, Consider, CloseTerm
  <2>2. stage \in {"packing", "final"}
    BY <1>5 DEF Packing
  <2>3. Owned'
    BY <1>1, <2>1 DEF Owned, scoped, Choosable
  <2>4. Decided'
    BY <2>1, <2>2, SameDecisions DEF Decided, scoped, Chosen
  <2> QED
    BY <2>3, <2>4
<1>6. CASE Tried
  <2>1. valid' = valid \/ valid' = valid \cup {trying}
    BY <1>6 DEF Tried
  <2>2. IsFiniteSet(valid')
    BY <2>1, FS_AddElement DEF Owned
  <2>3. Owned'
    BY <1>1, <1>6, <2>1, <2>2 DEF Tried, Owned, scoped, Choosable
  <2>4. Decided'
    BY <1>6 DEF Tried, Decided
  <2> QED
    BY <2>3, <2>4
<1>7. CASE Decide
  <2>1. UNCHANGED <<input, scoped, untried, trying, valid>> /\ stage' \in {"final", "done"}
    BY <1>7 DEF Decide
  <2>2. Owned'
    BY <1>1, <2>1 DEF Owned, scoped, Choosable
  <2>3. CASE plan' = [NoPlan EXCEPT !.refused = TRUE]
    <3>1. plan'.refused
      BY <2>3 DEF NoPlan
    <3> QED
      BY <2>2, <3>1 DEF Decided
  <2>4. CASE \E best \in IF valid = {} THEN {None} ELSE Constrained :
               /\ plan' = [refused |-> FALSE,
                           decisions |-> [g \in deferred |-> Decision(g)],
                           best |-> best,
                           unscheduled |-> Unscheduled]
               /\ scope' = base \cup (IF valid = {} THEN {} ELSE Chosen(best, Scheduled))
    <3>1. PICK best \in IF valid = {} THEN {None} ELSE Constrained :
               /\ plan' = [refused |-> FALSE,
                           decisions |-> [g \in deferred |-> Decision(g)],
                           best |-> best,
                           unscheduled |-> Unscheduled]
               /\ scope' = base \cup (IF valid = {} THEN {} ELSE Chosen(best, Scheduled))
      BY <2>4
    <3>2. IF valid = {} THEN best = None ELSE best \in Constrained
      BY <3>1
    <3>3. /\ plan'.best = best
          /\ plan'.decisions = [g \in deferred |-> Decision(g)]
          /\ plan'.unscheduled = Unscheduled
      BY <3>1
    <3>4. [g \in deferred |-> Decision(g)]' = [g \in deferred |-> Decision(g)]
      BY <2>1, SameDecisions DEF scoped
    <3>5. Chosen(best, Scheduled)' = Chosen(best, Scheduled)
      BY <2>1, SameDecisions DEF Chosen
    <3>6. Decided'
      BY <2>1, <3>1, <3>2, <3>3, <3>4, <3>5, SameDecisions DEF Decided, scoped
    <3> QED
      BY <2>2, <3>6
  <2> QED
    BY <1>7, <2>3, <2>4 DEF Decide, Begin
<1>8. CASE Finish
  <2>1. UNCHANGED <<input, scoped, untried, trying, valid, scope, failed>> /\ stage = "final" /\ stage' = "done"
    BY <1>8 DEF Finish, packing
  <2>2. Owned'
    BY <1>1, <2>1 DEF Owned, scoped, Choosable
  <2>3. failed \/ plan' = plan
    BY <1>8 DEF Finish
  <2>4. Decided'
    BY <2>1, <2>3, SameDecisions DEF Decided, scoped, Chosen
  <2> QED
    BY <2>2, <2>4
<1>9. CASE UNCHANGED vars
  <2>1. UNCHANGED <<input, stage, scoped, untried, trying, valid, plan, scope, failed>>
    BY <1>9 DEF vars, packing
  <2>2. Owned'
    BY <1>1, <2>1 DEF Owned, scoped, Choosable
  <2>3. Decided'
    BY <2>1, SameDecisions DEF Decided, scoped, Chosen
  <2> QED
    BY <2>2, <2>3
<1> QED
  BY <1>2, <1>3, <1>4, <1>5, <1>6, <1>7, <1>8, <1>9 DEF Next

LEMMA AlwaysChoices == Spec => []ChoiceInv
  BY InitChoices, NextChoices, PTL DEF Spec

LEMMA AlwaysRests == Spec => []AtRest
<1>1. Init => AtRest
  BY DEF Init, AtRest
<1>2. AtRest /\ [Next]_vars => AtRest'
  BY DEF AtRest, Next, Load, Pair, Try, Packing, Tried, Decide, Finish, packing, vars
<1> QED
  BY <1>1, <1>2, PTL DEF Spec

\* With one feasible candidate, every combination under the locks has it.
LEMMA SoleCandidate ==
    ASSUME Owned, NEW g, Decision(g) = "AUTO_SELECTED",
           NEW f \in Constrained, NEW h \in Constrained
    PROVE  f[g] = h[g]
<1>1. g \notin LockGroups(ActiveLocks) /\ Cardinality(Feasible(g)) = 1
  BY DEF Decision
<1>2. Feasible(g) = {k[g] : k \in Constrained}
  BY <1>1 DEF Feasible, Candidates
<1>3. IsFiniteSet(Constrained)
  BY FS_Subset DEF Owned, Constrained
<1>4. IsFiniteSet(Feasible(g))
  <2> DEFINE at == [k \in Constrained |-> k[g]]
  <2>1. at \in Surjection(Constrained, Feasible(g))
    BY <1>2 DEF Surjection
  <2> QED
    BY <1>3, <2>1, FS_Surjection
<1>5. PICK x : Feasible(g) = {x}
  BY <1>1, <1>4, FS_Singleton
<1> QED
  BY <1>2, <1>5

\* A finished plan follows the student's locks and exclusions.
LEMMA PlanFollows ==
    ASSUME ChoiceInv, PackInv, AtRest, Answered, plan.best # None
    PROVE  /\ \A l \in {l \in input.locks : l.group \in deferred} :
                 plan.decisions[l.group] = "LOCKED" => l.choice.courses \subseteq Placed
           /\ \A g \in input.excluded \cap Choosable :
                 g \in plan.unscheduled /\ plan.best[g].courses \cap Placed = {}
           /\ input.ranked \/ \A c \in Placed \ base : \A combination \in Constrained :
                 c \in Chosen(combination, Choosable)
<1> DEFINE best == plan.best
<1>1. stage = "done" /\ ~ plan.refused /\ ~ failed
  BY DEF Answered
<1>0. valid # {}
  BY <1>1 DEF ChoiceInv, Decided
<1>2. Placed = base \cup Chosen(best, Scheduled)
  <2>1. Placed = scope
    BY <1>1, NothingLeft DEF AtRest
  <2> QED
    BY <1>0, <1>1, <2>1 DEF ChoiceInv, Decided
<1>3. /\ best \in Constrained
      /\ valid # {}
      /\ plan.decisions = [g \in deferred |-> Decision(g)]
      /\ plan.unscheduled = Unscheduled
  BY <1>0, <1>1 DEF ChoiceInv, Decided
<1>4. Compatible(best) /\ Choosable \subseteq deferred
  BY <1>3 DEF ChoiceInv, Owned, Constrained
<1>5. Scheduled \subseteq Choosable \ input.excluded
  BY DEF Scheduled, Resolved
<1>6. ASSUME NEW g, Decision(g) = "LOCKED"
      PROVE  /\ g \in Scheduled
             /\ \E l \in input.locks : l.group = g
             /\ \A l \in input.locks : l.group = g => \A f \in Constrained : f[g] = l.choice
  <2>1. g \in LockGroups(ActiveLocks) /\ g \notin input.excluded
    BY <1>6 DEF Decision
  <2>2. ActiveLocks = input.locks /\ ~ LocksFail /\ input.locks # {}
    BY <2>1 DEF ActiveLocks, LockGroups
  <2>3. PICK l \in input.locks : l.group = g
    BY <2>1, <2>2 DEF LockGroups
  <2>4. g \in Choosable \ input.excluded
    BY <2>2, <2>3 DEF LocksFail, LockValid
  <2>5. g \in Scheduled
    BY <1>6, <2>4 DEF Scheduled, Resolved
  <2> QED
    BY <2>2, <2>3, <2>5 DEF Constrained, Respects
<1>7. ASSUME NEW l \in input.locks, l.group \in deferred, plan.decisions[l.group] = "LOCKED"
      PROVE  l.choice.courses \subseteq Placed
  <2>1. Decision(l.group) = "LOCKED"
    BY <1>3, <1>7
  <2>2. l.group \in Scheduled /\ best[l.group] = l.choice
    BY <1>3, <1>6, <2>1
  <2> QED
    BY <1>2, <2>2 DEF Chosen
<1>8. ASSUME NEW g \in input.excluded \cap Choosable
      PROVE  g \in plan.unscheduled /\ best[g].courses \cap Placed = {}
  <2>1. g \notin Scheduled
    BY <1>5, <1>8
  <2>2. g \in plan.unscheduled
    BY <1>3, <1>4, <2>1 DEF Unscheduled
  <2>3. best[g].courses \cap base = {}
    BY <1>4 DEF Compatible
  <2>4. \A h \in Scheduled : best[g].courses \cap best[h].courses = {}
    BY <1>4, <1>5, <2>1 DEF Compatible
  <2> QED
    BY <1>2, <2>2, <2>3, <2>4 DEF Chosen
<1>9. ASSUME ~ input.ranked, NEW c \in Placed \ base, NEW combination \in Constrained
      PROVE  c \in Chosen(combination, Choosable)
  <2>1. PICK g \in Scheduled : c \in best[g].courses
    BY <1>2 DEF Chosen
  <2>2. g \in Resolved
    BY <1>9 DEF Scheduled
  <2>3. g \in Choosable /\ Decision(g) \in {"AUTO_SELECTED", "LOCKED"}
    BY <2>2 DEF Resolved
  <2>4. combination[g] = best[g]
    <3>1. CASE Decision(g) = "AUTO_SELECTED"
      BY <1>3, <3>1, SoleCandidate DEF ChoiceInv
    <3>2. CASE Decision(g) = "LOCKED"
      BY <1>3, <1>6, <3>2
    <3> QED
      BY <2>3, <3>1, <3>2
  <2> QED
    BY <2>1, <2>3, <2>4 DEF Chosen
<1> QED
  BY <1>7, <1>8, <1>9

\* For any program, catalog and student: accepted locks are planned, groups set
\* aside are not, and the academic plan holds only what no valid combination
\* under the same locks avoids.
THEOREM ChoicesAreHonoured == Spec => []ChoicesHonoured
<1>1. ChoiceInv /\ PackInv /\ AtRest => ChoicesHonoured
  BY PlanFollows DEF ChoicesHonoured
<1> QED
  BY <1>1, AlwaysChoices, AlwaysPacks, AlwaysRests, PTL

----------------------------------------------------------------------------
(* The credit hours of a term.                                             *)

\* Only courses of the catalog get on the scheduler.
Catalogued ==
    /\ scope \cup base \subseteq Courses
    /\ \A g \in Choosable : choices[g] \subseteq Candidate
    /\ \A combination \in untried \cup valid : \A g \in Choosable :
          combination[g].courses \subseteq Courses
    /\ stage = "packing" => \A g \in Choosable : trying[g].courses \subseteq Courses
    /\ input \in Inputs

\* The hours of the open term are what its courses add up to.
Weighed ==
    /\ load = TotalHours(chosen)
    /\ load <= Cap
    /\ horizon \in Nat
    /\ step = "term" => Len(terms) < horizon

CapInv == Catalogued /\ Weighed /\ HoursCapped /\ PackInv

\* A course that may come into the open term comes with what is not in it yet.
LEMMA ClosureIsNew ==
    ASSUME NEW c \in scope \ chosen
    PROVE  Closure(c) \cap chosen = {}
<1> DEFINE S == scope \ chosen
<1>1. S \in SUBSET scope /\ c \in S /\ \A d \in S : Missing(d) \subseteq S
  BY DEF Missing
<1>2. \A x \in Closure(c) : x \in S
  BY <1>1 DEF Closure
<1> QED
  BY <1>2

LEMMA ChosenCourses ==
    ASSUME Catalogued, NEW combination \in untried \cup valid, NEW groups \in SUBSET Choosable
    PROVE  Chosen(combination, groups) \subseteq Courses
  BY DEF Catalogued, Chosen

LEMMA BeginCaps ==
    ASSUME NEW courses, NEW prereqs, NEW done, NEW maxTerms \in Nat,
           courses \subseteq Courses,
           Begin(courses, prereqs, done, maxTerms)
    PROVE  Weighed' /\ HoursCapped' /\ scope' \subseteq Courses
<1>1. /\ horizon' = maxTerms /\ scope' = courses /\ terms' = <<>>
      /\ chosen' = {} /\ load' = 0 /\ step' \in {"end", "head"}
  BY DEF Begin
<1>2. TotalHours(chosen)' = 0
  <2>1. TotalHours(chosen)' = TotalHours({})
    BY <1>1
  <2> QED
    BY <2>1, HoursOfNone
<1>3. Weighed'
  BY <1>1, <1>2, CapAssumption DEF Weighed, CapAssumption
<1>4. HoursCapped'
  BY <1>1 DEF HoursCapped
<1> QED
  BY <1>1, <1>3, <1>4

LEMMA PackCaps ==
    ASSUME CapInv, Pack
    PROVE  Weighed' /\ HoursCapped'
<1>0. UNCHANGED <<scope, horizon>>
  BY DEF Pack, OpenTerm, Consider, CloseTerm
<1>1. CASE OpenTerm
  <2>1. UNCHANGED <<terms, chosen, load>> /\ (step' = "term" => Len(terms) < horizon)
    BY <1>1 DEF OpenTerm
  <2>2. TotalHours(chosen)' = TotalHours(chosen)
    BY <2>1
  <2>3. HoursCapped'
    BY <1>0, <2>1 DEF CapInv, HoursCapped
  <2> QED
    BY <1>0, <2>1, <2>2, <2>3 DEF CapInv, Weighed
<1>2. CASE Consider
  <2>1. UNCHANGED <<terms, step>>
    BY <1>2 DEF Consider
  <2>2. HoursCapped'
    BY <1>0, <2>1 DEF CapInv, HoursCapped
  <2>3. PICK c \in queue :
          IF Fits(c) THEN /\ chosen' = chosen \cup Closure(c)
                          /\ load' = load + TotalHours(Closure(c))
            ELSE UNCHANGED <<chosen, load>>
    BY <1>2 DEF Consider
  <2>4. load' = TotalHours(chosen') /\ load' <= Cap
    <3>1. CASE ~ Fits(c)
      BY <2>3, <3>1 DEF CapInv, Weighed
    <3>2. CASE Fits(c)
      <4>1. c \in scope \ chosen
        BY <3>2 DEF CapInv, PackInv, Within, ReadyExact, Fits
      <4>2. Closure(c) \subseteq scope /\ chosen \cap Closure(c) = {}
        BY <4>1, ClosureClosed, ClosureIsNew
      <4>3. chosen \cup Closure(c) \subseteq Courses
        BY <4>2 DEF CapInv, PackInv, Within, ReadyExact, Catalogued
      <4>4. TotalHours(chosen \cup Closure(c)) = TotalHours(chosen) + TotalHours(Closure(c))
        BY <4>2, <4>3, HoursOfUnion
      <4> QED
        BY <2>3, <3>2, <4>4 DEF CapInv, Weighed, Fits
    <3> QED
      BY <3>1, <3>2
  <2>5. TotalHours(chosen)' = TotalHours(chosen')
    OBVIOUS
  <2> QED
    BY <1>0, <2>1, <2>2, <2>4, <2>5 DEF CapInv, Weighed
<1>3. CASE CloseTerm
  <2>1. /\ step = "term" /\ chosen' = {} /\ load' = 0
        /\ step' \in {"head", "end"}
        /\ IF chosen # {} THEN terms' = Append(terms, chosen) ELSE terms' = terms
    BY <1>3 DEF CloseTerm
  <2>2. TotalHours(chosen)' = 0
    <3>1. TotalHours(chosen)' = TotalHours({})
      BY <2>1
    <3> QED
      BY <3>1, HoursOfNone
  <2>3. Weighed'
    BY <1>0, <2>1, <2>2, CapAssumption DEF CapInv, Weighed, CapAssumption
  <2>4. CASE terms' = terms
    <3>1. HoursCapped'
      BY <1>0, <2>4 DEF CapInv, HoursCapped
    <3> QED
      BY <2>3, <3>1
  <2>5. CASE terms' = Append(terms, chosen)
    <3>1. /\ DOMAIN terms = 1..Len(terms) /\ Len(terms) \in Nat
          /\ DOMAIN terms' = 1..(Len(terms) + 1) /\ Len(terms') = Len(terms) + 1
          /\ terms'[Len(terms) + 1] = chosen
          /\ \A i \in 1..Len(terms) : terms'[i] = terms[i]
      BY <2>5 DEF CapInv, PackInv, Within
    <3>2. Len(terms) < horizon /\ TotalHours(chosen) <= Cap
      BY <2>1 DEF CapInv, Weighed
    <3>3. ASSUME NEW i \in DOMAIN terms'
          PROVE  TotalHours(terms'[i]) <= Cap
      <4>1. CASE i = Len(terms) + 1
        BY <3>1, <3>2, <4>1
      <4>2. CASE i \in 1..Len(terms)
        BY <3>1, <4>2 DEF CapInv, HoursCapped
      <4> QED
        BY <3>1, <4>1, <4>2
    <3>4. Len(terms') <= horizon'
      BY <1>0, <3>1, <3>2 DEF CapInv, Weighed
    <3>5. \A i \in DOMAIN terms' : TotalHours(terms[i])' = TotalHours(terms'[i])
      OBVIOUS
    <3>6. HoursCapped'
      BY <3>3, <3>4 DEF HoursCapped
    <3> QED
      BY <2>3, <3>6
  <2> QED
    BY <2>1, <2>4, <2>5
<1> QED
  BY <1>1, <1>2, <1>3 DEF Pack

LEMMA InitCaps == Init => CapInv
<1> SUFFICES ASSUME Init
             PROVE  CapInv
  OBVIOUS
<1>1. Catalogued
  BY DEF Init, Catalogued, Choosable
<1>2. TotalHours(chosen) = 0
  BY HoursOfNone DEF Init
<1>3. Weighed
  BY <1>2, CapAssumption DEF Init, Weighed, CapAssumption
<1>4. HoursCapped
  BY DEF Init, HoursCapped
<1> QED
  BY <1>1, <1>3, <1>4, InitPacks DEF CapInv

LEMMA LoadCaps ==
    ASSUME CapInv, ChoiceInv, Load
    PROVE  Catalogued'
<1> DEFINE result == Evaluate(input.records)
           safe == [g \in Groups |-> {ch \in CandidatesOf(result, cleared)[g] : Safe(ch)}]
<1>1. /\ base' = Required(result, input.excluded, cleared)
      /\ choices' = [g \in {g \in deferred' : safe[g] # {}} |-> safe[g]]
      /\ deferred' = Deferred(result, input.excluded)
      /\ stage = "load" /\ stage' = "pair"
      /\ UNCHANGED <<input, untried, valid, packing>>
  BY DEF Load
<1>2. base' \subseteq Courses
  BY <1>1, RequiredAreCourses
<1>3. deferred' \subseteq Groups
  BY <1>1, VisitedGroups DEF Deferred, Open
<1>4. \A g \in Groups : safe[g] \subseteq Candidate
  BY CandidatesTyped
<1> HIDE DEF safe, result
<1>5. \A g \in DOMAIN choices' : choices'[g] \subseteq Candidate
  BY <1>1, <1>3, <1>4
<1>6. untried' \cup valid' = {}
  BY <1>1 DEF ChoiceInv, Owned
<1> QED
  BY <1>1, <1>2, <1>5, <1>6 DEF CapInv, Catalogued, Choosable, packing

LEMMA PairCaps ==
    ASSUME CapInv, ChoiceInv, Pair
    PROVE  Catalogued'
<1>1. /\ untried' \subseteq Combinations
      /\ stage = "pair" /\ stage' = "try"
      /\ UNCHANGED <<input, scoped, valid, packing>>
  BY DEF Pair
<1>2. Choosable' = Choosable
  BY <1>1 DEF scoped, Choosable
<1>3. valid' = {}
  BY <1>1 DEF ChoiceInv, Owned
<1>4. ASSUME NEW combination \in untried', NEW g \in Choosable
      PROVE  combination[g].courses \subseteq Courses
  <2>1. combination[g] \in choices[g]
    BY <1>1 DEF Combinations
  <2>2. combination[g] \in Candidate
    BY <2>1 DEF CapInv, Catalogued
  <2> QED
    BY <2>2 DEF Candidate
<1> QED
  BY <1>1, <1>2, <1>3, <1>4 DEF CapInv, Catalogued, scoped, packing

\* A step that leaves the choices alone and at most packs.
LEMMA ScopedCaps ==
    ASSUME Catalogued, UNCHANGED <<input, scoped>>, scope' \subseteq Courses,
           untried' \cup valid' \subseteq untried \cup valid \cup {trying},
           trying \in valid' \cup untried' => stage = "packing" \/ trying \in untried \cup valid,
           stage' = "packing" =>
              trying' \in untried \cup valid \/ (stage = "packing" /\ trying' = trying)
    PROVE  Catalogued'
<1>1. Choosable' = Choosable
  BY DEF scoped, Choosable
<1>2. ASSUME NEW combination \in untried' \cup valid', NEW g \in Choosable
      PROVE  combination[g].courses \subseteq Courses
  BY DEF Catalogued
<1>3. ASSUME stage' = "packing", NEW g \in Choosable
      PROVE  trying'[g].courses \subseteq Courses
  BY <1>3 DEF Catalogued
<1> QED
  BY <1>1, <1>2, <1>3 DEF Catalogued, scoped

LEMMA NextCaps == CapInv /\ ChoiceInv /\ [Next]_vars => CapInv'
<1> SUFFICES ASSUME CapInv, ChoiceInv, [Next]_vars
             PROVE  Catalogued' /\ Weighed' /\ HoursCapped'
  BY NextPacks DEF CapInv
<1>1. ASSUME UNCHANGED packing
      PROVE  Weighed' /\ HoursCapped' /\ scope' \subseteq Courses
  <2>1. TotalHours(chosen)' = TotalHours(chosen)
    BY <1>1 DEF packing
  <2> QED
    BY <1>1, <2>1 DEF CapInv, Catalogued, Weighed, HoursCapped, packing
<1>2. input.maxTerms \in Nat
  BY HorizonAssumption DEF CapInv, Catalogued, HorizonAssumption
<1>3. CASE Load
  <2>1. UNCHANGED packing
    BY <1>3 DEF Load
  <2> QED
    BY <1>1, <1>3, <2>1, LoadCaps
<1>4. CASE Pair
  <2>1. UNCHANGED packing
    BY <1>4 DEF Pair
  <2> QED
    BY <1>1, <1>4, <2>1, PairCaps
<1>5. CASE Try
  <2>1. PICK f \in untried :
          /\ trying' = f /\ untried' = untried \ {f}
          /\ Begin(base \cup Chosen(f, Choosable), input.prereqs, cleared, input.maxTerms)
    BY <1>5 DEF Try
  <2>2. UNCHANGED <<input, scoped, valid, plan>>
    BY <1>5 DEF Try
  <2>3. base \cup Chosen(f, Choosable) \subseteq Courses
    BY ChosenCourses DEF CapInv, Catalogued
  <2>4. Weighed' /\ HoursCapped' /\ scope' \subseteq Courses
    BY <1>2, <2>1, <2>3, BeginCaps
  <2>5. Catalogued'
    <3>1. trying' \in untried
      BY <2>1
    <3>2. untried' \cup valid' \subseteq untried \cup valid
      BY <2>1, <2>2
    <3> QED
      BY <2>2, <2>4, <3>1, <3>2, ScopedCaps DEF CapInv
  <2> QED
    BY <2>4, <2>5
<1>6. CASE Packing
  <2>1. Pack /\ UNCHANGED <<input, stage, scoped, untried, trying, valid, plan>>
    BY <1>6 DEF Packing
  <2>2. Weighed' /\ HoursCapped'
    BY <2>1, PackCaps
  <2>3. scope' = scope
    BY <2>1 DEF Pack, OpenTerm, Consider, CloseTerm
  <2>4. Catalogued'
    BY <2>1, <2>3, ScopedCaps DEF CapInv, Catalogued
  <2> QED
    BY <2>2, <2>4
<1>7. CASE Tried
  <2>1. /\ UNCHANGED <<input, scoped, untried, plan, packing>>
        /\ stage = "packing" /\ stage' = "try"
        /\ valid' \in {valid, valid \cup {trying}}
    BY <1>7 DEF Tried
  <2>2. scope' \subseteq Courses /\ Weighed' /\ HoursCapped'
    BY <1>1, <2>1
  <2>3. Catalogued'
    BY <2>1, <2>2, ScopedCaps DEF CapInv
  <2> QED
    BY <2>2, <2>3
<1>8. CASE Decide
  <2>1. /\ UNCHANGED <<input, scoped, untried, trying, valid>>
        /\ stage = "try" /\ stage' \in {"done", "final"}
    BY <1>8 DEF Decide
  <2>2. Weighed' /\ HoursCapped' /\ scope' \subseteq Courses
    <3>1. CASE UNCHANGED packing
      BY <1>1, <3>1
    <3>2. ASSUME NEW best \in IF valid = {} THEN {None} ELSE Constrained,
                 Begin(base \cup (IF valid = {} THEN {} ELSE Chosen(best, Scheduled)),
                       input.prereqs, cleared, input.maxTerms)
          PROVE  Weighed' /\ HoursCapped' /\ scope' \subseteq Courses
      <4>1. Scheduled \subseteq Choosable
        BY DEF Scheduled, Resolved
      <4>2. valid # {} => best \in valid
        BY <3>2 DEF Constrained
      <4>3. valid # {} => Chosen(best, Scheduled) \subseteq Courses
        BY <4>1, <4>2, ChosenCourses DEF CapInv
      <4>4. base \cup (IF valid = {} THEN {} ELSE Chosen(best, Scheduled)) \subseteq Courses
        BY <4>3 DEF CapInv, Catalogued
      <4> QED
        BY <1>2, <3>2, <4>4, BeginCaps
    <3> QED
      BY <1>8, <3>1, <3>2 DEF Decide
  <2>3. Catalogued'
    BY <2>1, <2>2, ScopedCaps DEF CapInv
  <2> QED
    BY <2>2, <2>3
<1>9. CASE Finish
  <2>1. /\ UNCHANGED <<input, scoped, untried, trying, valid, packing>>
        /\ stage' = "done"
    BY <1>9 DEF Finish
  <2>2. scope' \subseteq Courses /\ Weighed' /\ HoursCapped'
    BY <1>1, <2>1
  <2>3. Catalogued'
    BY <2>1, <2>2, ScopedCaps DEF CapInv
  <2> QED
    BY <2>2, <2>3
<1>10. CASE UNCHANGED vars
  <2>1. UNCHANGED <<input, scoped, untried, trying, valid, packing, stage>>
    BY <1>10 DEF vars
  <2>2. scope' \subseteq Courses /\ Weighed' /\ HoursCapped'
    BY <1>1, <2>1
  <2>3. Catalogued'
    BY <2>1, <2>2, ScopedCaps DEF CapInv, Catalogued
  <2> QED
    BY <2>2, <2>3
<1> QED
  BY <1>3, <1>4, <1>5, <1>6, <1>7, <1>8, <1>9, <1>10 DEF Next

\* In every placement that is tried and in the result, no term holds more
\* credit hours than the cap, summed afresh with all the corequisites that came
\* along, and there are no more terms than the student has left.
THEOREM HoursAreCapped == Spec => []HoursCapped
<1>1. CapInv => HoursCapped
  BY DEF CapInv
<1> QED
  BY <1>1, InitCaps, NextCaps, AlwaysChoices, PTL DEF Spec

----------------------------------------------------------------------------
(* The whole program: what is open and not listed is satisfied.            *)

Credited(records) ==
    \A r \in records : (r.status = "completed" => r.credit) /\ r.hours = Hours[r.code]

\* The records once the planned courses are completed.
With(records, planned) ==
    records \cup
    {[code |-> c, status |-> "completed", credit |-> TRUE, hours |-> Hours[c]] : c \in planned}

\* With such records, what is cleared is what is earned, and planned courses add to it.
LEMMA WithPlanned ==
    ASSUME NEW records, Credited(records), NEW planned
    PROVE  /\ Credited(With(records, planned))
           /\ Earned(records) = Cleared(records)
           /\ Earned(With(records, planned)) = Cleared(records) \cup planned
<1> DEFINE new == {[code |-> c, status |-> "completed", credit |-> TRUE, hours |-> Hours[c]] : c \in planned}
<1>1. \A r \in new : /\ r.status = "completed" /\ r.credit = TRUE /\ r.hours = Hours[r.code]
                     /\ r.code \in planned
  OBVIOUS
<1>2. ASSUME NEW c \in planned
      PROVE  \E r \in new : r.code = c
  <2>1. [code |-> c, status |-> "completed", credit |-> TRUE, hours |-> Hours[c]] \in new
    OBVIOUS
  <2> HIDE DEF new
  <2>2. [code |-> c, status |-> "completed", credit |-> TRUE, hours |-> Hours[c]].code = c
    OBVIOUS
  <2> QED
    BY <2>1, <2>2
<1>3. With(records, planned) = records \cup new
  BY DEF With
<1> HIDE DEF new
<1>4. Credited(With(records, planned))
  BY <1>1, <1>3 DEF Credited
<1>5. Counting(records) = {r \in records : r.status \in {"completed", "in_progress"}}
  BY DEF Counting, Credited
<1>6. Earned(records) = Cleared(records)
  BY <1>5 DEF Earned, Cleared
<1>7. Counting(With(records, planned)) = Counting(records) \cup new
  BY <1>1, <1>3 DEF Counting
<1>8. {r.code : r \in new} = planned
  BY <1>1, <1>2
<1>9. Earned(With(records, planned)) = Earned(records) \cup planned
  BY <1>7, <1>8 DEF Earned
<1> QED
  BY <1>4, <1>6, <1>9

\* The hours of a match are those of the catalog.
LEMMA MatchedHours ==
    ASSUME NEW records, Credited(records), NEW c \in Earned(records)
    PROVE  Matched(records, c).hours = Hours[c]
<1> DEFINE rows == {r \in Counting(records) : r.code = c}
           completed == {r \in rows : r.status = "completed"}
<1>1. rows # {} /\ \A r \in rows : r.hours = Hours[c]
  BY DEF Earned, Counting, Credited
<1>2. \E r \in rows : completed # {} => r \in completed
  <2>1. CASE completed = {}
    BY <1>1, <2>1
  <2>2. CASE completed # {}
    <3>1. PICK r \in completed : TRUE
      BY <2>2
    <3>2. r \in rows
      BY <3>1
    <3> HIDE DEF rows, completed
    <3> QED
      BY <3>1, <3>2
  <2> QED
    BY <2>1, <2>2
<1>3. Matched(records, c) = CHOOSE r \in rows : completed # {} => r \in completed
  BY Zenon DEF Matched
<1> HIDE DEF rows, completed
<1>4. Matched(records, c) \in rows
  BY <1>2, <1>3
<1> QED
  BY <1>1, <1>4

\* So are the hours of a set of matches.
LEMMA EarnedHours ==
    ASSUME NEW records, Credited(records), NEW S, S \subseteq Courses, S \subseteq Earned(records)
    PROVE  HoursEarned(records, S) = TotalHours(S)
<1> DEFINE P(e) == e = [s \in SUBSET S |->
                          IF s = {} THEN 0
                          ELSE LET x == CHOOSE x \in s : TRUE
                               IN  Matched(records, x).hours + e[s \ {x}]]
           Q(e) == e = [s \in SUBSET S |->
                          IF s = {} THEN 0
                          ELSE LET x == CHOOSE x \in s : TRUE IN Hours[x] + e[s \ {x}]]
<1>1. IsFiniteSet(S) /\ \A x \in S : Hours[x] \in Nat
  BY HoursAreNat
<1>2. PICK f : Adds(f, Hours, S)
  BY <1>1, AddsExist
<1>3. \A e : P(e) <=> Q(e)
  <2>1. TAKE e
  <2>2. ASSUME NEW s \in SUBSET S
        PROVE  (IF s = {} THEN 0
                ELSE LET x == CHOOSE x \in s : TRUE IN Matched(records, x).hours + e[s \ {x}])
             = (IF s = {} THEN 0
                ELSE LET x == CHOOSE x \in s : TRUE IN Hours[x] + e[s \ {x}])
    <3> DEFINE x == CHOOSE x \in s : TRUE
    <3>1. s # {} => x \in S
      OBVIOUS
    <3> HIDE DEF x
    <3>2. s # {} => Matched(records, x).hours = Hours[x]
      BY <3>1, MatchedHours
    <3>3. s # {} => Matched(records, x).hours + e[s \ {x}] = Hours[x] + e[s \ {x}]
      BY <3>2
    <3> QED
      BY <3>3, Zenon DEF x
  <2>3. [s \in SUBSET S |->
           IF s = {} THEN 0
           ELSE LET x == CHOOSE x \in s : TRUE IN Matched(records, x).hours + e[s \ {x}]]
      = [s \in SUBSET S |->
           IF s = {} THEN 0
           ELSE LET x == CHOOSE x \in s : TRUE IN Hours[x] + e[s \ {x}]]
    BY <2>2, Zenon
  <2> QED
    BY <2>3, Zenon
<1>4. Q(f)
  <2>1. f = [s \in SUBSET S |-> f[s]]
    BY <1>2 DEF Adds
  <2>2. ASSUME NEW s \in SUBSET S
        PROVE  f[s] = IF s = {} THEN 0
                      ELSE LET x == CHOOSE x \in s : TRUE IN Hours[x] + f[s \ {x}]
    <3>1. CASE s = {}
      BY <1>2, <3>1 DEF Adds
    <3>2. CASE s # {}
      <4> DEFINE x == CHOOSE x \in s : TRUE
      <4>1. x \in s
        BY <3>2
      <4> HIDE DEF x
      <4>2. f[s] = Hours[x] + f[s \ {x}]
        BY <1>2, <4>1 DEF Adds
      <4> QED
        BY <3>2, <4>2 DEF x
    <3> QED
      BY <3>1, <3>2
  <2> QED
    BY <2>1, <2>2
<1>5. HoursEarned(records, S) = (CHOOSE e : P(e))[S]
  BY Zenon DEF HoursEarned, MapThenSumSet, MapThenFoldSet
<1>6. PICK e : e = CHOOSE x : P(x)
  OBVIOUS
<1>7. Q(e)
  <2> HIDE DEF P, Q
  <2>1. P(f)
    BY <1>3, <1>4
  <2>2. P(CHOOSE x : P(x))
    BY <2>1
  <2> QED
    BY <1>3, <1>6, <2>2
<1>8. e[S] = f[S]
  <2>1. Folded(e, Hours, S)
    BY <1>7 DEF Folded
  <2>2. S \in SUBSET S
    OBVIOUS
  <2> QED
    BY <1>1, <1>2, <2>1, <2>2, FoldAdds
<1>9. TotalHours(S) = f[S]
  BY <1>1, <1>2, TotalAdds
<1> QED
  BY <1>5, <1>6, <1>8, <1>9

LEMMA HoursGrow ==
    ASSUME NEW A, NEW B, A \subseteq B, B \subseteq Courses
    PROVE  TotalHours(A) <= TotalHours(B)
<1>1. B = A \cup (B \ A) /\ A \cap (B \ A) = {}
  OBVIOUS
<1>2. TotalHours(A \cup (B \ A)) = TotalHours(A) + TotalHours(B \ A)
  BY <1>1, HoursOfUnion
<1>3. TotalHours(A) \in Nat /\ TotalHours(B \ A) \in Nat
  BY HoursAreNat
<1>4. TotalHours(B) = TotalHours(A) + TotalHours(B \ A)
  BY <1>1, <1>2
<1> QED
  BY <1>3, <1>4

----------------------------------------------------------------------------
(* A leaf. *)

\* An option is met once what stands for it is earned.
LEMMA VariantMeets ==
    ASSUME ProgramAnswerable, NEW g \in Groups, NEW o \in Program[g].options, NEW done,
           NEW v \in Variants(o, done), NEW earned, v \subseteq earned
    PROVE  OptionMet(o, earned)
<1>1. \A row \in o.rows : row \subseteq Courses /\ row # {}
  BY TreeAssumption DEF TreeAssumption, ProgramAnswerable, Usable
<1>2. \A row \in o.rows : Alias(row, done) \in row
  BY <1>1, PreferredIsIn
<1> DEFINE codes == {Alias(row, done) : row \in o.rows \ {{}}}
<1>3. Variants(o, done) = IF codes = {} THEN {}
                          ELSE IF o.logic = "or" THEN {{c} : c \in codes} ELSE {codes}
  BY DEF Variants
<1>4. o.logic \in {"and", "or"}
  BY TreeAssumption DEF TreeAssumption
<1>5. codes = {Alias(row, done) : row \in o.rows}
  BY <1>1
<1> HIDE DEF codes
<1>6. CASE o.logic = "or"
  <2>1. PICK c \in codes : v = {c}
    BY <1>3, <1>6
  <2>2. PICK row \in o.rows : c = Alias(row, done)
    BY <1>5
  <2>3. c \in UNION o.rows /\ c \in earned
    BY <1>2, <2>1, <2>2
  <2> QED
    BY <1>6, <2>3 DEF OptionMet
<1>7. CASE o.logic = "and"
  <2>1. v = codes /\ codes # {}
    BY <1>3, <1>7
  <2>2. o.rows # {} /\ \A row \in o.rows : row \cap earned # {}
    BY <1>2, <1>5, <2>1
  <2> QED
    BY <1>7, <2>2 DEF OptionMet
<1> QED
  BY <1>4, <1>6, <1>7

\* What a choice of a leaf picks: a variant of each of some options, and courses
\* that are cleared or in it.
Picked(g, result, done, ch, s, pick) ==
    /\ s \in Selections(g, result, done)
    /\ \A o \in s : pick[o] \in Variants(o, done) /\ pick[o] \subseteq ch.courses \cup done
    /\ ch.courses = (UNION {pick[o] : o \in s}) \ done
    /\ Program[g].type = "enumerated_credit_threshold" =>
          TotalHours(UNION {pick[o] : o \in s}) >= Program[g].need - TotalHours(result[g].hits)

LEMMA PickOfChoice ==
    ASSUME NEW g \in Groups, NEW result, NEW done, NEW ch \in LeafChoices(g, result, done)
    PROVE  \E s, pick : Picked(g, result, done, ch, s, pick)
<1> DEFINE picks == UNION {Picks(s, done) : s \in Selections(g, result, done)}
           missing == Program[g].need - TotalHours(result[g].hits)
           enough == {pick \in picks : TotalHours(UNION {pick[o] : o \in DOMAIN pick}) >= missing}
<1>1. LeafChoices(g, result, done)
        = {Choice(g, pick, done) :
             pick \in IF Program[g].type = "enumerated_credit_threshold" THEN enough ELSE picks}
  BY Zenon DEF LeafChoices
<1>2. PICK pick \in IF Program[g].type = "enumerated_credit_threshold" THEN enough ELSE picks :
         ch = Choice(g, pick, done)
  BY <1>1
<1>3. /\ pick \in picks
      /\ Program[g].type = "enumerated_credit_threshold" =>
            TotalHours(UNION {pick[o] : o \in DOMAIN pick}) >= missing
  BY <1>2
<1>4. PICK s \in Selections(g, result, done) : pick \in Picks(s, done)
  BY <1>3
<1> HIDE DEF picks, enough
<1>5. DOMAIN pick = s /\ \A o \in s : pick[o] \in Variants(o, done)
  BY <1>4 DEF Picks
<1>6. ch.courses = (UNION {pick[o] : o \in s}) \ done
  BY <1>2, <1>5 DEF Choice
<1>7. TotalHours(UNION {pick[o] : o \in DOMAIN pick}) = TotalHours(UNION {pick[o] : o \in s})
  BY <1>5
<1>8. \A o \in s : pick[o] \subseteq ch.courses \cup done
  BY <1>6
<1>9. Picked(g, result, done, ch, s, pick)
  BY <1>3, <1>4, <1>5, <1>6, <1>7, <1>8 DEF Picked
<1> QED
  BY <1>9

\* Options that are done, and those of a selection, are met.
LEMMA PickedAreMet ==
    ASSUME ProgramAnswerable, NEW g \in Groups, NEW done, NEW earned, done \subseteq earned,
           NEW s \in SUBSET Program[g].options, NEW pick,
           \A o \in s : pick[o] \in Variants(o, done) /\ pick[o] \subseteq earned
    PROVE  \A o \in Program[g].options : o \in s \/ OptionDone(o, done) => OptionMet(o, earned)
<1>1. ASSUME NEW o \in s
      PROVE  OptionMet(o, earned)
  <2>1. o \in Program[g].options /\ pick[o] \in Variants(o, done) /\ pick[o] \subseteq earned
    OBVIOUS
  <2> QED
    BY <2>1, VariantMeets
<1>2. ASSUME NEW o \in Program[g].options, OptionDone(o, done)
      PROVE  OptionMet(o, earned)
  <2>1. PICK v \in Variants(o, done) : v \subseteq done
    BY <1>2 DEF OptionDone
  <2>2. v \subseteq earned
    BY <2>1
  <2> QED
    BY <2>2, VariantMeets
<1> QED
  BY <1>1, <1>2

\* A match of a group stays one once more is earned.
LEMMA HitsGrow ==
    ASSUME NEW g \in Groups, Program[g].type = "enumerated_credit_threshold",
           NEW earned, NEW more, earned \subseteq more
    PROVE  /\ LeafHits(g, earned) \subseteq LeafHits(g, more) \cap earned
           /\ \A o \in Program[g].options : (UNION o.rows) \cap more \subseteq LeafHits(g, more)
  BY DEF LeafHits

\* All of a list: every option is done or picked.
LEMMA AllSatisfies ==
    ASSUME ProgramAnswerable, NEW g \in Groups, Program[g].type = "enumerated_all",
           NEW records, NEW done, done \subseteq Earned(records), NEW result,
           NEW ch \in LeafChoices(g, result, done), ch.courses \subseteq Earned(records)
    PROVE  LeafMet(g, records)
<1> DEFINE earned == Earned(records)
           left == {o \in Program[g].options : ~ OptionDone(o, done)}
<1>1. PICK s, pick : Picked(g, result, done, ch, s, pick)
  BY PickOfChoice
<1>2. /\ s \in Selections(g, result, done)
      /\ \A o \in s : pick[o] \in Variants(o, done) /\ pick[o] \subseteq earned
  BY <1>1 DEF Picked
<1>3. s = left
  BY <1>2 DEF Selections
<1>4. \A o \in Program[g].options : OptionMet(o, earned)
  <2>1. s \in SUBSET Program[g].options
    BY <1>2, SelectionsAreOptions
  <2>2. \A o \in Program[g].options : o \in s \/ OptionDone(o, done) => OptionMet(o, earned)
    BY <1>2, <2>1, PickedAreMet
  <2> QED
    BY <1>3, <2>2
<1>5. Program[g].options # {}
  BY DEF ProgramAnswerable
<1>6. {o \in Program[g].options : OptionMet(o, earned)} = Program[g].options
  BY <1>4
<1>7. LeafMet(g, records) <=> /\ Program[g].options # {}
                              /\ {o \in Program[g].options : OptionMet(o, earned)} = Program[g].options
  BY DEF LeafMet
<1> QED
  BY <1>5, <1>6, <1>7

\* So many of a list: what is done, and as many of the others as are missing.
LEMMA SomeSatisfies ==
    ASSUME ProgramAnswerable, NEW g \in Groups, Program[g].type = "enumerated_at_least_n",
           NEW records, NEW done, done \subseteq Earned(records), NEW result,
           NEW ch \in LeafChoices(g, result, done), ch.courses \subseteq Earned(records)
    PROVE  LeafMet(g, records)
<1> DEFINE earned == Earned(records)
           p == Program[g]
           left == {o \in p.options : ~ OptionDone(o, done)}
           available == {o \in left : Variants(o, done) # {}}
           missing == p.need - Cardinality(p.options \ left)
           met == {o \in p.options : OptionMet(o, earned)}
<1>1. PICK s, pick : Picked(g, result, done, ch, s, pick)
  BY PickOfChoice
<1>2. /\ s \in Selections(g, result, done)
      /\ \A o \in s : pick[o] \in Variants(o, done) /\ pick[o] \subseteq earned
  BY <1>1 DEF Picked
<1>3. s \subseteq available /\ Cardinality(s) = IF missing > 0 THEN missing ELSE 0
  <2>1. Selections(g, result, done)
          = {t \in SUBSET available : Cardinality(t) = IF missing > 0 THEN missing ELSE 0}
    BY Zenon DEF Selections
  <2> HIDE DEF available, missing
  <2> QED
    BY <1>2, <2>1
<1>4. \A o \in p.options : o \in s \/ OptionDone(o, done) => OptionMet(o, earned)
  <2>1. s \in SUBSET Program[g].options
    BY <1>2, SelectionsAreOptions
  <2> QED
    BY <1>2, <2>1, PickedAreMet
<1>5. IsFiniteSet(p.options) /\ p.need \in Nat
  BY TreeAssumption DEF TreeAssumption
<1>6. s \subseteq p.options /\ s \cap (p.options \ left) = {}
  BY <1>3
<1>7. s \cup (p.options \ left) \subseteq met
  BY <1>3, <1>4
<1>8. /\ IsFiniteSet(s) /\ IsFiniteSet(p.options \ left) /\ IsFiniteSet(met)
      /\ met \subseteq p.options
  BY <1>5, <1>6, FS_Subset
<1> HIDE DEF left, met, missing, available
<1>9. Cardinality(s \cup (p.options \ left)) = Cardinality(s) + Cardinality(p.options \ left)
  <2>1. Cardinality(s \cup (p.options \ left))
          = Cardinality(s) + Cardinality(p.options \ left) - Cardinality(s \cap (p.options \ left))
    BY <1>8, FS_Union
  <2>2. Cardinality(s \cap (p.options \ left)) = 0
    BY <1>6, FS_EmptySet
  <2>3. Cardinality(s) \in Nat /\ Cardinality(p.options \ left) \in Nat
    BY <1>8, FS_CardinalityType
  <2> QED
    BY <2>1, <2>2, <2>3
<1>10. Cardinality(s \cup (p.options \ left)) <= Cardinality(met)
  BY <1>7, <1>8, FS_Subset
<1>11. /\ Cardinality(s) \in Nat /\ Cardinality(p.options \ left) \in Nat
       /\ Cardinality(met) \in Nat
  BY <1>8, FS_CardinalityType
<1>12. Cardinality(met) >= p.need
  <2>1. missing = p.need - Cardinality(p.options \ left)
    BY DEF missing
  <2> QED
    BY <1>3, <1>5, <1>9, <1>10, <1>11, <2>1
<1>13. LeafMet(g, records) <=> Cardinality(met) >= p.need
  BY Zenon DEF LeafMet, met
<1> QED
  BY <1>12, <1>13

\* Hours of a list: those earned, and those of the courses picked, which are new.
LEMMA HoursSatisfy ==
    ASSUME ProgramAnswerable, NEW g \in Groups, Program[g].type = "enumerated_credit_threshold",
           NEW records, Credited(records), NEW planned,
           NEW result, result[g].hits = LeafHits(g, Cleared(records)),
           NEW ch \in LeafChoices(g, result, Cleared(records)), ch.courses \subseteq planned
    PROVE  LeafMet(g, With(records, planned))
<1> DEFINE done == Cleared(records)
           later == With(records, planned)
           earned == Earned(later)
           p == Program[g]
           left == {o \in p.options : ~ OptionDone(o, done)}
           available == {o \in left : Variants(o, done) # {}}
<1>1. PICK s, pick : Picked(g, result, done, ch, s, pick)
  BY PickOfChoice
<1>2. /\ s \in Selections(g, result, done)
      /\ \A o \in s : pick[o] \in Variants(o, done)
      /\ ch.courses = (UNION {pick[o] : o \in s}) \ done
      /\ TotalHours(UNION {pick[o] : o \in s}) >= p.need - TotalHours(result[g].hits)
  BY <1>1 DEF Picked
<1> DEFINE old == LeafHits(g, done)
           new == UNION {pick[o] : o \in s}
           hits == LeafHits(g, earned)
<1>3. s \subseteq left
  <2>1. Selections(g, result, done) = SUBSET available
    BY Zenon DEF Selections
  <2> QED
    BY <1>2, <2>1
<1>4. earned = done \cup planned /\ Credited(later)
  BY WithPlanned
<1>5. ASSUME NEW o \in s
      PROVE  /\ pick[o] \subseteq UNION o.rows
             /\ pick[o] \cap done = {}
  <2>1. o \in p.options /\ ~ OptionDone(o, done) /\ pick[o] \in Variants(o, done)
    BY <1>2, <1>3
  <2>2. o.logic = "or" /\ \A row \in o.rows : row \subseteq Courses
    BY <2>1, TreeAssumption DEF TreeAssumption, ProgramAnswerable
  <2> DEFINE codes == {Alias(row, done) : row \in o.rows \ {{}}}
  <2>3. \A row \in o.rows \ {{}} : Alias(row, done) \in row
    BY <2>2, PreferredIsIn
  <2>4. codes \subseteq UNION o.rows
    BY <2>3
  <2>5. Variants(o, done) = IF codes = {} THEN {}
                            ELSE IF o.logic = "or" THEN {{c} : c \in codes} ELSE {codes}
    BY DEF Variants
  <2> HIDE DEF codes
  <2>6. PICK c \in codes : pick[o] = {c}
    BY <2>1, <2>2, <2>5
  <2>7. c \notin done
    BY <2>1, <2>6 DEF OptionDone
  <2> QED
    BY <2>4, <2>6, <2>7
<1>6. new \cap done = {} /\ new \subseteq planned
  BY <1>2, <1>5
<1>7. old \subseteq hits /\ old \subseteq done
  BY <1>4, HitsGrow
<1>8. new \subseteq hits
  <2>1. \A o \in p.options : (UNION o.rows) \cap earned \subseteq hits
    BY HitsGrow
  <2> QED
    BY <1>3, <1>4, <1>5, <1>6, <2>1
<1>9. hits \subseteq Courses /\ hits \subseteq earned
  <2>1. hits \subseteq earned
    BY DEF LeafHits
  <2> QED
    BY <2>1, HitsAreCourses
<1> HIDE DEF old, new, hits, earned, later, done
<1>10. TotalHours(old \cup new) = TotalHours(old) + TotalHours(new)
  <2>1. old \cup new \subseteq Courses /\ old \cap new = {}
    BY <1>6, <1>7, <1>8, <1>9
  <2> QED
    BY <2>1, HoursOfUnion
<1>11. TotalHours(old \cup new) <= TotalHours(hits)
  <2>1. old \cup new \subseteq hits
    BY <1>7, <1>8
  <2> QED
    BY <1>9, <2>1, HoursGrow
<1>12. TotalHours(new) >= p.need - TotalHours(old)
  BY <1>2 DEF new, old, done
<1>13. HoursEarned(later, hits) = TotalHours(hits)
  BY <1>4, <1>9, EarnedHours DEF earned
<1>14. p.need \in Nat /\ p.need > 0
  BY TreeAssumption DEF TreeAssumption, ProgramAnswerable
<1>15. TotalHours(old) \in Nat /\ TotalHours(new) \in Nat /\ TotalHours(hits) \in Nat
  <2>1. old \subseteq Courses /\ new \subseteq Courses
    BY <1>7, <1>8, <1>9
  <2> QED
    BY <1>9, <2>1, HoursAreNat
<1>16. HoursEarned(later, hits) > 0 /\ HoursEarned(later, hits) >= p.need
  BY <1>10, <1>11, <1>12, <1>13, <1>14, <1>15
<1>17. LeafMet(g, later) <=> HoursEarned(later, hits) > 0 /\ HoursEarned(later, hits) >= p.need
  BY Zenon DEF LeafMet, hits, earned
<1> QED
  BY <1>16, <1>17 DEF later

----------------------------------------------------------------------------
(* A group, and the courses required without a choice. *)

\* A choice of a leaf, whatever its type, satisfies it.
LEMMA LeafSatisfies ==
    ASSUME ProgramAnswerable, NEW g \in Groups, NEW records, Credited(records), NEW planned,
           NEW result, result[g].hits = LeafHits(g, Cleared(records)),
           NEW ch \in LeafChoices(g, result, Cleared(records)), ch.courses \subseteq planned
    PROVE  LeafMet(g, With(records, planned))
<1> DEFINE later == With(records, planned)
<1>1. Earned(later) = Cleared(records) \cup planned
  BY WithPlanned
<1>2. Cleared(records) \subseteq Earned(later) /\ ch.courses \subseteq Earned(later)
  BY <1>1
<1>3. CASE Program[g].type = "enumerated_all"
  BY <1>2, <1>3, AllSatisfies
<1>4. CASE Program[g].type = "enumerated_at_least_n"
  BY <1>2, <1>4, SomeSatisfies
<1>5. CASE Program[g].type = "enumerated_credit_threshold"
  BY <1>5, HoursSatisfy
<1>6. CASE Program[g].type \notin {"enumerated_all", "enumerated_at_least_n",
                                    "enumerated_credit_threshold"}
  <2>1. Selections(g, result, Cleared(records)) = {}
    BY <1>6, Zenon DEF Selections
  <2>2. PICK s, pick : Picked(g, result, Cleared(records), ch, s, pick)
    BY PickOfChoice
  <2> QED
    BY <2>1, <2>2 DEF Picked
<1> QED
  BY <1>3, <1>4, <1>5, <1>6

\* The result of a group that is not left to a manual definition.
LEMMA StatusOf ==
    ASSUME NEW records, NEW g \in Groups, ~ Program[g].manual
    PROVE  /\ ~ Compound(g) =>
                 /\ Evaluate(records)[g].hits = LeafHits(g, Earned(records))
                 /\ LeafMet(g, records) => Evaluate(records)[g].status = "SATISFIED"
           /\ Program[g].type = "compound_any" =>
                 /\ Evaluate(records)[g].kids = Program[g].kids
                 /\ (\E k \in Program[g].kids : Evaluate(records)[k].status = "SATISFIED")
                       => Evaluate(records)[g].status = "SATISFIED"
<1> DEFINE r == Evaluate(records)
<1>1. r[g] = EvaluateStep(r, g, records)
  BY Evaluated
<1> HIDE DEF r
<1>2. ASSUME ~ Compound(g)
      PROVE  /\ r[g].hits = LeafHits(g, Earned(records))
             /\ LeafMet(g, records) => r[g].status = "SATISFIED"
  <2>1. r[g] = LeafResult(g, records)
    BY <1>1, <1>2 DEF EvaluateStep
  <2> DEFINE hits == LeafHits(g, Earned(records))
  <2>2. PICK begun : LeafResult(g, records)
                       = Result(Graded(LeafMet(g, records), begun), hits, hits # {}, {})
    BY Zenon DEF LeafResult
  <2> HIDE DEF hits
  <2>3. LeafResult(g, records).hits = hits
    BY <2>2 DEF Result
  <2>4. LeafResult(g, records).status = Graded(LeafMet(g, records), begun)
    BY <2>2 DEF Result
  <2>5. LeafMet(g, records) => Graded(LeafMet(g, records), begun) = "SATISFIED"
    BY DEF Graded
  <2> QED
    BY <2>1, <2>3, <2>4, <2>5 DEF hits
<1>3. ASSUME Program[g].type = "compound_any"
      PROVE  /\ r[g].kids = Program[g].kids
             /\ (\E k \in Program[g].kids : r[k].status = "SATISFIED") => r[g].status = "SATISFIED"
  <2> DEFINE kids == Program[g].kids
             met == {k \in kids : r[k].status = "SATISFIED"}
             started == \E k \in kids : r[k].started
  <2>1. r[g] = Result(Graded(met # {}, started), {}, started, kids)
    BY <1>1, <1>3 DEF EvaluateStep, Compound
  <2> HIDE DEF met, started
  <2>2. r[g].kids = kids /\ r[g].status = Graded(met # {}, started)
    BY <2>1 DEF Result
  <2>3. met # {} => Graded(met # {}, started) = "SATISFIED"
    BY DEF Graded
  <2>4. (\E k \in kids : r[k].status = "SATISFIED") => met # {}
    BY DEF met
  <2> QED
    BY <2>2, <2>3, <2>4
<1> QED
  BY <1>2, <1>3 DEF r

\* A candidate of a group satisfies it, through whichever of its parts it is of.
LEMMA CandidateSatisfies ==
    ASSUME ProgramAnswerable, NEW records, Credited(records), NEW planned
    PROVE  \A g \in Groups :
              \A ch \in CandidatesOf(Evaluate(records), Cleared(records))[g] :
                 ch.courses \subseteq planned =>
                    Evaluate(With(records, planned))[g].status = "SATISFIED"
<1> DEFINE result == Evaluate(records)
           done == Cleared(records)
           c == CandidatesOf(result, done)
           later == With(records, planned)
           G == {g \in Groups : \A ch \in c[g] :
                    ch.courses \subseteq planned => Evaluate(later)[g].status = "SATISFIED"}
<1>1. c \in [Groups -> SUBSET Candidate] /\ \A g \in Groups : c[g] = ChoicesStep(c, g, result, done)
  BY CandidatesTyped
<1>2. ASSUME NEW g \in Groups, Kids[g] \subseteq G, NEW ch \in c[g], ch.courses \subseteq planned
      PROVE  Evaluate(later)[g].status = "SATISFIED"
  <2> HIDE DEF c, later
  <2>1. ch \in ChoicesStep(c, g, result, done)
    BY <1>1, <1>2
  <2>2. ~ Program[g].manual
    BY <2>1 DEF ChoicesStep
  <2>3. CASE Program[g].type = "compound_any"
    <3>1. PICK k \in result[g].kids : ch \in {[x EXCEPT !.owner = k] : x \in c[k]}
      BY <2>1, <2>3 DEF ChoicesStep
    <3>2. PICK x \in c[k] : ch = [x EXCEPT !.owner = k]
      BY <3>1
    <3>3. k \in Program[g].kids /\ k \in G
      BY <1>2, <3>1, KidsOfResult
    <3>4. x \in Candidate
      BY <1>1, <3>2, <3>3
    <3>5. ch.courses = x.courses
      BY <3>2, <3>4 DEF Candidate
    <3>6. Evaluate(later)[k].status = "SATISFIED"
      BY <1>2, <3>2, <3>3, <3>5
    <3> QED
      BY <2>2, <2>3, <3>3, <3>6, StatusOf
  <2>4. CASE Program[g].type # "compound_any"
    <3>1. ch \in LeafChoices(g, result, done)
      BY <2>1, <2>4 DEF ChoicesStep
    <3>2. ~ Compound(g)
      <4>1. PICK s, pick : Picked(g, result, done, ch, s, pick)
        BY <3>1, PickOfChoice
      <4>2. Program[g].type = "compound_all" => Selections(g, result, done) = {}
        BY Zenon DEF Selections
      <4> QED
        BY <2>4, <4>1, <4>2 DEF Picked, Compound
    <3>3. result[g].hits = LeafHits(g, done)
      BY <2>2, <3>2, StatusOf, WithPlanned
    <3>4. LeafMet(g, later)
      BY <1>2, <3>1, <3>3, LeafSatisfies DEF later
    <3> QED
      BY <2>2, <3>2, <3>4, StatusOf
  <2> QED
    BY <2>3, <2>4
<1>3. G = Groups
  <2>1. G \in SUBSET Groups
    OBVIOUS
  <2>2. \A g \in Groups : Kids[g] \subseteq G => g \in G
    BY <1>2
  <2> HIDE DEF G
  <2> QED
    BY <2>1, <2>2, ProgramIsTree, TreeInduction
<1> QED
  BY <1>3

\* A list without a choice is satisfied by its matches and the required courses.
LEMMA RequiredSatisfies ==
    ASSUME ProgramAnswerable, NEW records, Credited(records), NEW planned, NEW excluded,
           Required(Evaluate(records), excluded, Cleared(records)) \subseteq planned,
           NEW g \in NoChoice(Evaluate(records), excluded)
    PROVE  Evaluate(With(records, planned))[g].status = "SATISFIED"
<1> DEFINE result == Evaluate(records)
           done == Cleared(records)
           later == With(records, planned)
           earned == Earned(later)
<1>1. /\ g \in Groups /\ Program[g].type = "enumerated_all"
      /\ Program[g].options # {} /\ ~ Program[g].manual
  BY VisitedGroups DEF NoChoice, Open, ProgramAnswerable
<1>2. ~ Compound(g)
  BY <1>1 DEF Compound
<1>3. earned = done \cup planned /\ Earned(records) = done
  BY WithPlanned
<1>4. result[g].hits = LeafHits(g, done)
  BY <1>1, <1>2, <1>3, StatusOf
<1>5. result[g].hits \subseteq done
  BY <1>1, <1>4 DEF LeafHits, OptionHits
<1>6. ASSUME NEW o \in Program[g].options, NEW row \in o.rows
      PROVE  row \cap earned # {}
  <2>1. Usable(row) # {} /\ row \subseteq Courses
    BY <1>1, TreeAssumption DEF TreeAssumption, ProgramAnswerable
  <2>2. CASE row \cap result[g].hits # {}
    BY <1>3, <1>5, <2>2
  <2>3. CASE row \cap result[g].hits = {}
    <3>1. Preferred(Usable(row), done) \in Required(result, excluded, done)
      BY <2>1, <2>3 DEF Required
    <3>2. Preferred(Usable(row), done) \in row
      BY <2>1, PreferredIsIn
    <3> QED
      BY <1>3, <3>1, <3>2
  <2> QED
    BY <2>2, <2>3
<1>7. ASSUME NEW o \in Program[g].options
      PROVE  OptionMet(o, earned)
  <2>1. o.rows # {}
    BY <1>1 DEF ProgramAnswerable
  <2>2. PICK row \in o.rows : TRUE
    BY <2>1
  <2>3. (UNION o.rows) \cap earned # {}
    BY <1>6, <2>2
  <2>4. \A row_2 \in o.rows : row_2 \cap earned # {}
    BY <1>6
  <2> HIDE DEF earned
  <2> QED
    BY <2>1, <2>3, <2>4 DEF OptionMet
<1>8. LeafMet(g, later)
  <2>1. {o \in Program[g].options : OptionMet(o, earned)} = Program[g].options
    BY <1>7
  <2>2. LeafMet(g, later) <=> /\ Program[g].options # {}
                              /\ {o \in Program[g].options : OptionMet(o, earned)} = Program[g].options
    BY <1>1 DEF LeafMet
  <2> QED
    BY <1>1, <2>1, <2>2
<1> QED
  BY <1>1, <1>2, <1>8, StatusOf

\* What is scheduled without a choice, and the groups and their candidates, are
\* those of the student's records.
Scoped ==
    stage # "load" =>
        LET result == Evaluate(input.records) IN
        /\ base = Required(result, input.excluded, cleared)
        /\ deferred = Deferred(result, input.excluded)
        /\ manual = Freeform(result)
        /\ \A g \in Choosable : choices[g] \subseteq CandidatesOf(result, cleared)[g]

\* A combination has a candidate of every group.
Picking(combination) == \A g \in Choosable : combination[g] \in choices[g]

\* Combinations pick from the candidates of the groups.
Combined ==
    /\ \A combination \in untried \cup valid : Picking(combination)
    /\ stage = "packing" => Picking(trying)

ScopeInv == Scoped /\ Combined /\ input \in Inputs

LEMMA InitScope == Init => ScopeInv
  BY DEF Init, ScopeInv, Scoped, Combined

\* A step that leaves the scope alone.
LEMMA SameScope ==
    ASSUME ScopeInv, UNCHANGED <<input, scoped>>, stage # "load",
           untried' \cup valid' \subseteq untried \cup valid \cup {trying},
           trying \in valid' \cup untried' => stage = "packing" \/ trying \in untried \cup valid,
           stage' = "packing" =>
              trying' \in untried \cup valid \/ (stage = "packing" /\ trying' = trying)
    PROVE  ScopeInv'
<1>1. /\ Choosable' = Choosable /\ cleared' = cleared /\ choices' = choices
      /\ base' = base /\ deferred' = deferred /\ manual' = manual /\ input' = input
  BY DEF scoped, Choosable, cleared
<1>2. Scoped'
  BY <1>1 DEF ScopeInv, Scoped
<1>3. \A f : Picking(f)' = Picking(f)
  BY <1>1 DEF Picking
<1>4. \A f \in untried' \cup valid' : Picking(f)
  BY DEF ScopeInv, Combined
<1>5. stage' = "packing" => Picking(trying')
  BY DEF ScopeInv, Combined
<1>6. Combined'
  BY <1>1, <1>4, <1>5 DEF Combined, Picking
<1> QED
  BY <1>1, <1>2, <1>6 DEF ScopeInv

LEMMA NextScope == ScopeInv /\ ChoiceInv /\ [Next]_vars => ScopeInv'
<1> SUFFICES ASSUME ScopeInv, ChoiceInv, [Next]_vars
             PROVE  ScopeInv'
  OBVIOUS
<1>1. CASE Load
  <2> DEFINE result == Evaluate(input.records)
             safe == [g \in Groups |-> {ch \in CandidatesOf(result, cleared)[g] : Safe(ch)}]
  <2>1. /\ base' = Required(result, input.excluded, cleared)
        /\ deferred' = Deferred(result, input.excluded)
        /\ manual' = Freeform(result)
        /\ choices' = [g \in {g \in deferred' : safe[g] # {}} |-> safe[g]]
        /\ UNCHANGED <<input, untried, trying, valid>>
        /\ stage = "load" /\ stage' = "pair"
    BY <1>1 DEF Load
  <2>2. deferred' \subseteq Groups
    BY <2>1, VisitedGroups DEF Deferred, Open
  <2>3. \A g \in Groups : safe[g] \subseteq CandidatesOf(result, cleared)[g]
    OBVIOUS
  <2> HIDE DEF result, safe
  <2>4. \A g \in DOMAIN choices' : choices'[g] \subseteq CandidatesOf(result, cleared)[g]
    BY <2>1, <2>2, <2>3
  <2>5. cleared' = cleared
    BY <2>1 DEF cleared
  <2>6. Scoped'
    BY <2>1, <2>4, <2>5 DEF Scoped, Choosable, result
  <2>7. Combined'
    BY <2>1 DEF Combined, ChoiceInv, Owned
  <2> QED
    BY <2>1, <2>6, <2>7 DEF ScopeInv
<1>2. CASE Pair
  <2>1. /\ untried' \subseteq Combinations
        /\ stage = "pair" /\ stage' = "try"
        /\ UNCHANGED <<input, scoped, valid>>
    BY <1>2 DEF Pair
  <2>2. valid' = {}
    BY <2>1 DEF ChoiceInv, Owned
  <2>3. Choosable' = Choosable /\ choices' = choices /\ cleared' = cleared
    BY <2>1 DEF scoped, Choosable, cleared
  <2>4. \A f \in untried' : Picking(f)
    BY <2>1 DEF Combinations, Picking
  <2>5. Combined'
    BY <2>1, <2>2, <2>3, <2>4 DEF Combined, Picking
  <2>6. Scoped'
    BY <2>1, <2>3 DEF ScopeInv, Scoped, scoped
  <2> QED
    BY <2>1, <2>5, <2>6 DEF ScopeInv
<1>3. CASE Try
  <2>1. PICK f \in untried : trying' = f /\ untried' = untried \ {f}
    BY <1>3 DEF Try
  <2>2. UNCHANGED <<input, scoped, valid>> /\ stage = "try"
    BY <1>3 DEF Try
  <2> QED
    BY <2>1, <2>2, SameScope
<1>4. CASE Packing
  <2>1. UNCHANGED <<input, stage, scoped, untried, trying, valid>> /\ stage # "load"
    BY <1>4 DEF Packing
  <2> QED
    BY <2>1, SameScope
<1>5. CASE Tried
  <2>1. /\ UNCHANGED <<input, scoped, untried>> /\ stage = "packing" /\ stage' = "try"
        /\ valid' \in {valid, valid \cup {trying}}
    BY <1>5 DEF Tried
  <2> QED
    BY <2>1, SameScope
<1>6. CASE Decide
  <2>1. /\ UNCHANGED <<input, scoped, untried, trying, valid>>
        /\ stage = "try" /\ stage' \in {"done", "final"}
    BY <1>6 DEF Decide
  <2> QED
    BY <2>1, SameScope
<1>7. CASE Finish
  <2>1. /\ UNCHANGED <<input, scoped, untried, trying, valid>>
        /\ stage = "final" /\ stage' = "done"
    BY <1>7 DEF Finish
  <2> QED
    BY <2>1, SameScope
<1>8. CASE UNCHANGED vars
  <2>1. UNCHANGED <<input, stage, scoped, untried, trying, valid>>
    BY <1>8 DEF vars
  <2>2. CASE stage = "load"
    BY <2>1, <2>2 DEF ScopeInv, Scoped, Combined, Picking, Choosable, scoped
  <2>3. CASE stage # "load"
    BY <2>1, <2>3, SameScope
  <2> QED
    BY <2>2, <2>3
<1> QED
  BY <1>1, <1>2, <1>3, <1>4, <1>5, <1>6, <1>7, <1>8 DEF Next

\* A finished plan answers for every open group that it does not list.
LEMMA PlanAnswers ==
    ASSUME RecordsCredited, ProgramAnswerable, ScopeInv, ChoiceInv, PackInv, AtRest, Answered,
           NEW g \in Open(Evaluate(input.records)) \ plan.unscheduled
    PROVE  Evaluate(Completed)[g].status = "SATISFIED"
<1> DEFINE result == Evaluate(input.records)
<1>1. stage = "done" /\ ~ plan.refused /\ ~ failed
  BY DEF Answered
<1>2. /\ base = Required(result, input.excluded, cleared)
      /\ deferred = Deferred(result, input.excluded)
      /\ manual = Freeform(result)
      /\ \A h \in Choosable : choices[h] \subseteq CandidatesOf(result, cleared)[h]
  BY <1>1 DEF ScopeInv, Scoped
<1>3. /\ plan.unscheduled = Unscheduled
      /\ scope = base \cup (IF valid = {} THEN {} ELSE Chosen(plan.best, Scheduled))
      /\ valid # {} => plan.best \in valid
  BY <1>1 DEF ChoiceInv, Decided, Constrained
<1>4. Placed = scope
  BY <1>1, NothingLeft DEF AtRest
<1>5. Completed = With(input.records, Placed) /\ cleared = Cleared(input.records)
  BY DEF Completed, With, cleared
<1>6. Credited(input.records)
  BY DEF ScopeInv, RecordsCredited, Credited
<1> HIDE DEF result
<1>7. CASE g \in NoChoice(result, input.excluded)
  <2>1. Required(result, input.excluded, cleared) \subseteq Placed
    BY <1>2, <1>3, <1>4
  <2> QED
    BY <1>5, <1>6, <1>7, <2>1, RequiredSatisfies DEF result
<1>8. CASE g \notin NoChoice(result, input.excluded)
  <2>1. g \in deferred \cup manual /\ g \in Open(result)
    BY <1>2, <1>8 DEF Deferred, result
  <2>2. valid # {} /\ g \in Scheduled
    BY <1>3, <2>1 DEF Unscheduled
  <2>3. g \in Choosable
    BY <2>2 DEF Scheduled, Resolved
  <2>4. plan.best[g] \in CandidatesOf(result, cleared)[g]
    BY <1>2, <1>3, <2>2, <2>3 DEF ScopeInv, Combined, Picking
  <2>5. plan.best[g].courses \subseteq Placed
    BY <1>3, <1>4, <2>2 DEF Chosen
  <2>6. g \in Groups
    BY <2>1, VisitedGroups DEF Open, result
  <2> QED
    BY <1>5, <1>6, <2>4, <2>5, <2>6, CandidateSatisfies DEF result
<1> QED
  BY <1>7, <1>8

\* For any program whose rows resolve and any records that earn the catalog's
\* hours: what is open, and not listed as unscheduled, is satisfied once the
\* planned courses are completed, whatever was locked or set aside.
THEOREM PlansAreComplete ==
    RecordsCredited /\ ProgramAnswerable /\ Spec => []NeverSilentlyIncomplete
<1> SUFFICES ASSUME RecordsCredited, ProgramAnswerable
             PROVE  Spec => []NeverSilentlyIncomplete
  OBVIOUS
<1>1. ScopeInv /\ ChoiceInv /\ PackInv /\ AtRest => NeverSilentlyIncomplete
  BY PlanAnswers DEF NeverSilentlyIncomplete
<1>2. Spec => []ScopeInv
  BY InitScope, NextScope, AlwaysChoices, PTL DEF Spec
<1> QED
  BY <1>1, <1>2, AlwaysChoices, AlwaysPacks, AlwaysRests, PTL
=============================================================================
