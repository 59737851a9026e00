------------------------ MODULE CourseRecordsProofs ------------------------
(***************************************************************************)
(* Theorems about CourseRecords: its types, one row per term, sound        *)
(* exclusions, kept history, plans that are not lost nor recorded twice,   *)
(* and confirms that leave the policy's exclusions, for any number of      *)
(* overlapping requests, terms, courses, institutions and transcripts.     *)
(***************************************************************************)
EXTENDS CourseRecords, FiniteSetTheorems, TLAPS

-----------------------------------------------------------------------------
(* The inductive invariant. *)

PlannedRow(n, last) ==
    [id : 1 .. n, term : 0 .. last, code : Codes, catalog : Nat \cup {None}, hours : BOOLEAN]

Course == [key : TermKeys \cup {None}, code : Codes, catalog : Nat \cup {None},
           hours : BOOLEAN, force : BOOLEAN]

Entries == [key : TermKeys \cup {None}, code : Codes, grade : Letters \cup {None},
            status : {"completed", "in_progress"}]

\* A term a request refers to has a row by the time it is used.
Has(T, missing, key) == key = None \/ key \in missing \/ \E i \in DOMAIN T : T[i] = key

\* An added course or a parsed transcript whose terms are there but for missing.
Ready(q, T, missing, n) ==
    \/ /\ q.at \in {"plan", "record"}
       /\ q = [at |-> q.at, id |-> q.id, course |-> q.course]
       /\ q.course \in Course /\ Has(T, missing, q.course.key)
       /\ q.id \in 1 .. n
    \/ /\ q.at = "store"
       /\ q.parsed \in [inst : Institutions, courses : SUBSET Entries]
       /\ \A c \in q.parsed.courses : Has(T, missing, c.key)

\* What a request has read, against the tables T and R as they are now.
Sound(q, T, R, n) ==
    /\ q.at \in {"idle", "promote", "fulfil", "resolve", "plan", "record", "finalize", "store",
                 "stamp", "reconcile", "clear", "exclude"}
    /\ q.at \in {"promote", "fulfil"} => q.due \subseteq PlannedRow(n, Len(T))
    /\ q.at = "fulfil" =>
          /\ q.plan \in PlannedRow(n, Len(T))
          /\ \E i \in DOMAIN R : <<q.plan.term, q.plan.code>> \in R[i].was
    /\ q.at = "resolve" =>
          /\ q.missing \subseteq TermKeys
          /\ q.next \in 1 .. Len(T) + 1
          /\ \A k \in q.missing, i \in DOMAIN T : T[i] = k => q.next <= i
          /\ Ready(q.then, T, q.missing, n)
    /\ q.at \in {"plan", "record", "store"} => Ready(q, T, {}, n)
    /\ q.at = "finalize" => q.id \in DOMAIN R /\ q.grade \in Letters
    /\ q.at = "clear" =>
          /\ DOMAIN q.rows \subseteq DOMAIN R
          /\ \A i \in DOMAIN q.rows : R[i].confirmed
    /\ q.at = "exclude" =>
          \A i \in DOMAIN q.plan :
             /\ i \in DOMAIN R /\ R[i].confirmed
             /\ q.plan[i] \in DOMAIN R /\ R[q.plan[i]].confirmed /\ q.plan[i] # i

\* The rows of course_records are typed, distinct and soundly excluded.
RowsOK(R, last) ==
    /\ R \in Seq(Row)
    /\ \A i \in DOMAIN R :
          /\ R[i].term \in 0 .. last
          /\ Key(R[i]) \in R[i].was
          /\ R[i].by # None => /\ R[i].by \in DOMAIN R /\ R[i].by # i
                               /\ R[i].confirmed /\ R[R[i].by].confirmed
    /\ \A i, j \in DOMAIN R : Key(R[i]) = Key(R[j]) => i = j

IInv ==
    /\ terms \in Seq(TermKeys) /\ OneRowPerTerm
    /\ inputs \in Nat
    /\ planned \subseteq PlannedRow(inputs, Len(terms))
    /\ RowsOK(records, Len(terms))
    /\ today \in 0 .. LastDay /\ undisturbed \subseteq Reqs /\ removed \subseteq 1 .. inputs
    /\ DOMAIN req = Reqs
    /\ \A r \in Reqs : Sound(req[r], terms, records, inputs)

Extends(T, U) == Len(T) <= Len(U) /\ \A i \in 1 .. Len(T) : U[i] = T[i]

\* No row goes or is unconfirmed, keys are remembered and history is kept.
Keeps(R, S) ==
    /\ Len(R) <= Len(S)
    /\ \A i \in 1 .. Len(R) :
          /\ R[i].confirmed => S[i].confirmed
          /\ R[i].was \subseteq S[i].was
          /\ R[i].confirmed /\ R[i].status # "in_progress" => S[i] = [R[i] EXCEPT !.by = S[i].by]

-----------------------------------------------------------------------------
(* What one step does to a request that only watches. *)

LEMMA HasMore ==
    ASSUME NEW T \in Seq(TermKeys), NEW U \in Seq(TermKeys), Extends(T, U), NEW M, NEW key,
           Has(T, M, key)
    PROVE  Has(U, M, key)
BY DEF Has, Extends

LEMMA ReadyMore ==
    ASSUME NEW T \in Seq(TermKeys), NEW U \in Seq(TermKeys), Extends(T, U), NEW M, NEW q,
           NEW n \in Nat, NEW m \in Nat, n <= m, Ready(q, T, M, n)
    PROVE  Ready(q, U, M, m)
<1>1. CASE q.at \in {"plan", "record"}
  <2>1. Has(U, M, q.course.key)
    BY <1>1, HasMore DEF Ready
  <2> QED
    BY <1>1, <2>1 DEF Ready
<1>2. CASE q.at = "store"
  <2>1. \A c \in q.parsed.courses : Has(U, M, c.key)
    BY <1>2, HasMore DEF Ready
  <2> QED
    BY <1>2, <2>1 DEF Ready
<1> QED
  BY <1>1, <1>2 DEF Ready

LEMMA PlannedMore ==
    ASSUME NEW n \in Nat, NEW m \in Nat, n <= m, NEW k \in Nat, NEW l \in Nat, k <= l
    PROVE  PlannedRow(n, k) \subseteq PlannedRow(m, l)
BY DEF PlannedRow

LEMMA SoundStays ==
    ASSUME NEW T \in Seq(TermKeys), NEW U \in Seq(TermKeys), Extends(T, U),
           NEW R \in Seq(Row), NEW S \in Seq(Row), Keeps(R, S),
           NEW n \in Nat, NEW m \in Nat, n <= m, NEW q, Sound(q, T, R, n)
    PROVE  Sound(q, U, S, m)
<1>1. /\ DOMAIN R = 1 .. Len(R) /\ DOMAIN S = 1 .. Len(S) /\ DOMAIN R \subseteq DOMAIN S
      /\ Len(T) \in Nat /\ Len(U) \in Nat /\ Len(T) <= Len(U)
      /\ DOMAIN T = 1 .. Len(T) /\ DOMAIN U = 1 .. Len(U)
  BY DEF Keeps, Extends
<1>2. \A i \in DOMAIN R : /\ R[i].confirmed => S[i].confirmed
                          /\ R[i].was \subseteq S[i].was
  BY <1>1 DEF Keeps
<1>3. PlannedRow(n, Len(T)) \subseteq PlannedRow(m, Len(U))
  BY <1>1, PlannedMore
<1>4. q.at = "resolve" =>
        /\ q.missing \subseteq TermKeys
        /\ q.next \in 1 .. Len(U) + 1
        /\ \A k \in q.missing, i \in DOMAIN U : U[i] = k => q.next <= i
        /\ Ready(q.then, U, q.missing, m)
  <2> SUFFICES ASSUME q.at = "resolve"
               PROVE  /\ q.missing \subseteq TermKeys
                      /\ q.next \in 1 .. Len(U) + 1
                      /\ \A k \in q.missing, i \in DOMAIN U : U[i] = k => q.next <= i
                      /\ Ready(q.then, U, q.missing, m)
    OBVIOUS
  <2>1. /\ q.missing \subseteq TermKeys /\ q.next \in 1 .. Len(T) + 1
        /\ \A k \in q.missing, i \in DOMAIN T : T[i] = k => q.next <= i
        /\ Ready(q.then, T, q.missing, n)
    BY DEF Sound
  <2>2. ASSUME NEW k \in q.missing, NEW i \in DOMAIN U, U[i] = k PROVE q.next <= i
    <3>1. CASE i <= Len(T)
      BY <2>1, <2>2, <3>1, <1>1 DEF Extends
    <3>2. CASE Len(T) < i
      BY <2>1, <3>2, <1>1
    <3> QED
      BY <3>1, <3>2, <1>1
  <2>3. Ready(q.then, U, q.missing, m)
    BY <2>1, ReadyMore
  <2> QED
    BY <2>1, <2>2, <2>3, <1>1
<1>5. q.at \in {"plan", "record", "store"} => Ready(q, U, {}, m)
  BY ReadyMore DEF Sound
<1>6. q.at = "exclude" =>
        \A i \in DOMAIN q.plan :
           /\ i \in DOMAIN S /\ S[i].confirmed
           /\ q.plan[i] \in DOMAIN S /\ S[q.plan[i]].confirmed /\ q.plan[i] # i
  BY <1>1, <1>2 DEF Sound
<1>7. q.at = "clear" =>
        /\ DOMAIN q.rows \subseteq DOMAIN S
        /\ \A i \in DOMAIN q.rows : S[i].confirmed
  BY <1>1, <1>2 DEF Sound
<1>8. q.at = "fulfil" =>
        /\ q.plan \in PlannedRow(m, Len(U))
        /\ \E i \in DOMAIN S : <<q.plan.term, q.plan.code>> \in S[i].was
  BY <1>1, <1>2, <1>3 DEF Sound
<1> QED
  BY <1>1, <1>3, <1>4, <1>5, <1>6, <1>7, <1>8 DEF Sound

LEMMA StepKeepsIInv ==
    ASSUME IInv,
           terms' \in Seq(TermKeys), Extends(terms, terms'), OneRowPerTerm',
           RowsOK(records', Len(terms')), Keeps(records, records'),
           inputs' \in Nat, inputs <= inputs',
           planned' \subseteq PlannedRow(inputs', Len(terms')),
           today' \in 0 .. LastDay, undisturbed' \subseteq Reqs, removed' \subseteq 1 .. inputs',
           DOMAIN req' = Reqs,
           \A u \in Reqs : req'[u] = req[u] \/ Sound(req'[u], terms', records', inputs')
    PROVE  IInv'
<1>1. ASSUME NEW u \in Reqs PROVE Sound(req'[u], terms', records', inputs')
  <2>1. CASE req'[u] = req[u]
    <3>1. /\ Sound(req[u], terms, records, inputs)
          /\ terms \in Seq(TermKeys) /\ records \in Seq(Row) /\ inputs \in Nat
          /\ records' \in Seq(Row)
      BY DEF IInv, RowsOK
    <3> QED
      BY <2>1, <3>1, SoundStays
  <2> QED
    BY <1>1, <2>1
<1> QED
  BY <1>1 DEF IInv

-----------------------------------------------------------------------------
(* What the writes of course_records do to its rows. *)

LEMMA ByItself ==
    ASSUME NEW row \in Row
    PROVE  row = [row EXCEPT !.by = row.by]
BY DEF Row

LEMMA KeepsSame ==
    ASSUME NEW R \in Seq(Row)
    PROVE  Keeps(R, R)
<1>1. ASSUME NEW i \in 1 .. Len(R) PROVE R[i] = [R[i] EXCEPT !.by = R[i].by]
  BY ByItself
<1> QED
  BY <1>1 DEF Keeps

LEMMA MoreTerms ==
    ASSUME NEW R, NEW k \in Nat, NEW l \in Nat, k <= l, RowsOK(R, k)
    PROVE  RowsOK(R, l)
BY DEF RowsOK

LEMMA AppendKeeps ==
    ASSUME NEW R, NEW last \in Nat, RowsOK(R, last), NEW row \in Row, row.term \in 0 .. last,
           row.by = None, Key(row) \in row.was, ~Taken(Key(row), R)
    PROVE  RowsOK(Append(R, row), last) /\ Keeps(R, Append(R, row))
<1> DEFINE S == Append(R, row)
<1>1. /\ R \in Seq(Row) /\ S \in Seq(Row) /\ Len(R) \in Nat /\ Len(S) = Len(R) + 1
      /\ \A i \in 1 .. Len(R) : S[i] = R[i]
      /\ S[Len(R) + 1] = row
      /\ DOMAIN R = 1 .. Len(R) /\ DOMAIN S = 1 .. Len(R) + 1
  BY DEF RowsOK
<1> HIDE DEF S
<1>2. ASSUME NEW i \in DOMAIN S
      PROVE  /\ S[i].term \in 0 .. last /\ Key(S[i]) \in S[i].was
             /\ S[i].by # None => /\ S[i].by \in DOMAIN S /\ S[i].by # i
                                  /\ S[i].confirmed /\ S[S[i].by].confirmed
  <2>1. CASE i \in 1 .. Len(R)
    BY <1>1, <2>1 DEF RowsOK
  <2>2. CASE i = Len(R) + 1
    BY <1>1, <2>2
  <2> QED
    BY <1>1, <2>1, <2>2
<1>3. ASSUME NEW i \in DOMAIN S, NEW j \in DOMAIN S, Key(S[i]) = Key(S[j]) PROVE i = j
  <2>1. CASE i \in 1 .. Len(R) /\ j \in 1 .. Len(R)
    BY <1>1, <1>3, <2>1 DEF RowsOK
  <2>2. CASE i \in 1 .. Len(R) /\ j = Len(R) + 1
    BY <1>1, <1>3, <2>2 DEF Taken
  <2>3. CASE i = Len(R) + 1 /\ j \in 1 .. Len(R)
    BY <1>1, <1>3, <2>3 DEF Taken
  <2> QED
    BY <1>1, <2>1, <2>2, <2>3
<1>4. RowsOK(S, last)
  BY <1>1, <1>2, <1>3 DEF RowsOK
<1>5. ASSUME NEW i \in 1 .. Len(R) PROVE S[i] = R[i] /\ S[i] = [R[i] EXCEPT !.by = S[i].by]
  BY <1>1, ByItself
<1>6. Keeps(R, S)
  BY <1>1, <1>5 DEF Keeps
<1> QED
  BY <1>4, <1>6 DEF S

\* ON CONFLICT DO NOTHING: either way a row has the key afterwards.
LEMMA UpsertKeeps ==
    ASSUME IInv, NEW row \in Row, row.term \in 0 .. Len(terms), row.by = None, Key(row) \in row.was
    PROVE  /\ RowsOK(Upsert(row), Len(terms)) /\ Keeps(records, Upsert(row))
           /\ \E i \in DOMAIN Upsert(row) : Key(row) \in Upsert(row)[i].was
<1>0. RowsOK(records, Len(terms)) /\ records \in Seq(Row) /\ Len(terms) \in Nat
  BY DEF IInv, RowsOK
<1>1. CASE Taken(Key(row), records)
  <2>1. PICK i \in DOMAIN records : Key(records[i]) = Key(row)
    BY <1>1 DEF Taken
  <2>2. Key(row) \in records[i].was
    BY <1>0, <2>1 DEF RowsOK
  <2> QED
    BY <1>0, <1>1, <2>1, <2>2, KeepsSame DEF Upsert
<1>2. CASE ~Taken(Key(row), records)
  <2>1. RowsOK(Append(records, row), Len(terms)) /\ Keeps(records, Append(records, row))
    BY <1>0, <1>2, AppendKeeps
  <2>2. /\ Len(records) + 1 \in DOMAIN Append(records, row)
        /\ Append(records, row)[Len(records) + 1] = row
    BY <1>0
  <2> QED
    BY <1>2, <2>1, <2>2 DEF Upsert
<1> QED
  BY <1>1, <1>2

\* One row that is still open is written, under a key no other row has.
LEMMA ChangeKeeps ==
    ASSUME NEW R, NEW last \in Nat, RowsOK(R, last), NEW n \in DOMAIN R,
           NEW row \in Row, row.term \in 0 .. last, Key(row) \in row.was, R[n].was \subseteq row.was,
           R[n].confirmed => row.confirmed, row.by = R[n].by,
           ~(R[n].confirmed /\ R[n].status # "in_progress"),
           \A j \in DOMAIN R : Key(R[j]) = Key(row) => j = n,
           NEW S, S = [R EXCEPT ![n] = row]
    PROVE  RowsOK(S, last) /\ Keeps(R, S)
<1>1. /\ R \in Seq(Row) /\ S \in Seq(Row) /\ Len(S) = Len(R) /\ DOMAIN S = DOMAIN R
      /\ DOMAIN R = 1 .. Len(R)
      /\ S[n] = row /\ \A i \in DOMAIN R \ {n} : S[i] = R[i]
  BY DEF RowsOK
<1>2. \A i \in DOMAIN R : R[i].confirmed => S[i].confirmed
  BY <1>1
<1>3. ASSUME NEW i \in DOMAIN S
      PROVE  /\ S[i].term \in 0 .. last /\ Key(S[i]) \in S[i].was
             /\ S[i].by # None => /\ S[i].by \in DOMAIN S /\ S[i].by # i
                                  /\ S[i].confirmed /\ S[S[i].by].confirmed
  <2>1. S[i].by = R[i].by
    BY <1>1
  <2>2. S[i].by # None => /\ S[i].by \in DOMAIN S /\ S[i].by # i
                          /\ S[i].confirmed /\ S[S[i].by].confirmed
    BY <2>1, <1>1, <1>2 DEF RowsOK
  <2>3. S[i].term \in 0 .. last /\ Key(S[i]) \in S[i].was
    BY <1>1 DEF RowsOK
  <2> QED
    BY <2>2, <2>3
<1>4. ASSUME NEW i \in DOMAIN S, NEW j \in DOMAIN S, Key(S[i]) = Key(S[j]) PROVE i = j
  BY <1>1, <1>4 DEF RowsOK
<1>5. RowsOK(S, last)
  BY <1>1, <1>3, <1>4 DEF RowsOK
<1>6. ASSUME NEW i \in DOMAIN R \ {n} PROVE S[i] = R[i] /\ S[i] = [R[i] EXCEPT !.by = S[i].by]
  BY <1>1, ByItself
<1>7. Keeps(R, S)
  BY <1>1, <1>2, <1>6 DEF Keeps
<1> QED
  BY <1>5, <1>7

LEMMA RemarkRows ==
    ASSUME NEW R \in Seq(Row), NEW S, S = [i \in DOMAIN R |-> S[i]],
           \A i \in DOMAIN R : S[i] \in Row
    PROVE  S \in Seq(Row) /\ DOMAIN S = DOMAIN R
<1>1. DOMAIN R = 1 .. Len(R) /\ Len(R) \in Nat /\ DOMAIN S = DOMAIN R
  OBVIOUS
<1>2. S \in [1 .. Len(R) -> Row]
  BY <1>1
<1> QED
  BY <1>1, <1>2

\* Rows are confirmed, cleared or excluded and otherwise left as they are.
LEMMA RemarkKeeps ==
    ASSUME NEW R, NEW last \in Nat, RowsOK(R, last), NEW S \in Seq(Row), DOMAIN S = DOMAIN R,
           \A i \in DOMAIN R :
              \/ ~R[i].confirmed /\ S[i] = [R[i] EXCEPT !.confirmed = TRUE]
              \/ /\ S[i] = [R[i] EXCEPT !.by = S[i].by]
                 /\ \/ S[i].by \in {R[i].by, None}
                    \/ /\ S[i].by \in DOMAIN R /\ S[i].by # i
                       /\ R[i].confirmed /\ R[S[i].by].confirmed
    PROVE  RowsOK(S, last) /\ Keeps(R, S)
<1>1. R \in Seq(Row) /\ Len(S) = Len(R) /\ DOMAIN R = 1 .. Len(R)
  BY DEF RowsOK
<1>2. ASSUME NEW i \in DOMAIN R
      PROVE  /\ S[i].term = R[i].term /\ S[i].was = R[i].was /\ Key(S[i]) = Key(R[i])
             /\ R[i].confirmed => S[i].confirmed
             /\ R[i].confirmed => S[i] = [R[i] EXCEPT !.by = S[i].by]
             /\ \/ S[i].by \in {R[i].by, None}
                \/ /\ S[i].by \in DOMAIN R /\ S[i].by # i
                   /\ R[i].confirmed /\ R[S[i].by].confirmed
  <2>0. R[i] \in Row /\ S[i] \in Row
    BY <1>1
  <2>1. CASE ~R[i].confirmed /\ S[i] = [R[i] EXCEPT !.confirmed = TRUE]
    BY <2>0, <2>1 DEF Row, Key
  <2>2. CASE /\ S[i] = [R[i] EXCEPT !.by = S[i].by]
             /\ \/ S[i].by \in {R[i].by, None}
                \/ /\ S[i].by \in DOMAIN R /\ S[i].by # i
                   /\ R[i].confirmed /\ R[S[i].by].confirmed
    BY <2>0, <2>2 DEF Row, Key
  <2> QED
    BY <2>1, <2>2
<1>3. ASSUME NEW i \in DOMAIN S
      PROVE  S[i].by # None => /\ S[i].by \in DOMAIN S /\ S[i].by # i
                               /\ S[i].confirmed /\ S[S[i].by].confirmed
  BY <1>1, <1>2 DEF RowsOK
<1>4. RowsOK(S, last)
  BY <1>2, <1>3 DEF RowsOK
<1>5. Keeps(R, S)
  BY <1>1, <1>2 DEF Keeps
<1> QED
  BY <1>4, <1>5

-----------------------------------------------------------------------------
(* What the repeat policy plans. *)

\* Whatever the rows, an attempt is excluded only in favour of another attempt
\* of its group that is not earlier and is not excluded itself.
THEOREM PolicyIsSound ==
    ASSUME NEW rows, NEW termKey, NEW plan \in Plans(rows, termKey)
    PROVE  /\ DOMAIN plan \subseteq DOMAIN rows
           /\ \A i \in DOMAIN plan :
                 /\ plan[i] \in DOMAIN rows /\ plan[i] # i /\ plan[i] \notin DOMAIN plan
                 /\ GroupKey(rows[plan[i]]) = GroupKey(rows[i])
                 /\ termKey[rows[i].term] <= termKey[rows[plan[i]].term]
<1>1. PICK last \in [Groups(rows) -> DOMAIN rows] :
         /\ \A key \in Groups(rows) : last[key] \in Latest(rows, termKey, key)
         /\ plan = Plan(rows, last)
  BY DEF Plans
<1>2. DOMAIN plan \subseteq Considered(rows) /\ Considered(rows) \subseteq DOMAIN rows
  BY <1>1 DEF Plan, Considered
<1>3. ASSUME NEW i \in DOMAIN plan
      PROVE  /\ plan[i] \in DOMAIN rows /\ plan[i] # i /\ plan[i] \notin DOMAIN plan
             /\ GroupKey(rows[plan[i]]) = GroupKey(rows[i])
             /\ termKey[rows[i].term] <= termKey[rows[plan[i]].term]
  <2> DEFINE key == GroupKey(rows[i])
  <2>1. plan[i] = last[key] /\ last[key] # i
    BY <1>1 DEF Plan
  <2>2. i \in Considered(rows) /\ key \in Groups(rows) /\ i \in Group(rows, key)
    BY <1>2 DEF Groups, Group
  <2>3. last[key] \in Latest(rows, termKey, key)
    BY <1>1, <2>2
  <2>4. /\ plan[i] \in Group(rows, key)
        /\ \A j \in Group(rows, key) : termKey[rows[j].term] <= termKey[rows[plan[i]].term]
    BY <2>1, <2>3 DEF Latest
  <2>5. plan[i] \in Considered(rows) /\ GroupKey(rows[plan[i]]) = key
    BY <2>4 DEF Group
  <2>6. plan[i] \notin DOMAIN plan
    BY <1>1, <2>1, <2>5 DEF Plan
  <2> QED
    BY <1>2, <2>1, <2>2, <2>4, <2>5, <2>6
<1> QED
  BY <1>2, <1>3

-----------------------------------------------------------------------------
(* One lemma per action: the invariant, kept rows and plans that are not lost. *)

\* A plan that goes was removed by the student or is covered by a record.
Accounted ==
    \A p \in planned \ planned' :
        \/ p.id \in removed'
        \/ \E i \in DOMAIN records : <<p.term, p.code>> \in records[i].was

Fine == IInv' /\ Keeps(records, records') /\ Accounted

LEMMA InvFacts ==
    ASSUME IInv
    PROVE  /\ terms \in Seq(TermKeys) /\ OneRowPerTerm /\ Len(terms) \in Nat
           /\ DOMAIN terms = 1 .. Len(terms)
           /\ inputs \in Nat /\ planned \subseteq PlannedRow(inputs, Len(terms))
           /\ records \in Seq(Row) /\ RowsOK(records, Len(terms)) /\ Keeps(records, records)
           /\ DOMAIN records = 1 .. Len(records) /\ Len(records) \in Nat
           /\ DOMAIN req = Reqs /\ Extends(terms, terms)
BY KeepsSame DEF IInv, RowsOK, Extends

LEMMA IdleIsSound ==
    ASSUME NEW T, NEW R, NEW n
    PROVE  Sound(Idle, T, R, n)
BY DEF Sound, Idle

\* Request r goes on to q and writes at most records.
LEMMA RequestGoesOn ==
    ASSUME IInv, NEW r \in Reqs, NEW q, Goto(r, q), UNCHANGED <<terms, planned, today, removed>>,
           RowsOK(records', Len(terms)), Keeps(records, records'),
           inputs' \in Nat, inputs <= inputs', undisturbed' \subseteq Reqs,
           Sound(q, terms, records', inputs')
    PROVE  Fine
<1>1. /\ terms' \in Seq(TermKeys) /\ Extends(terms, terms') /\ OneRowPerTerm'
      /\ RowsOK(records', Len(terms')) /\ today' \in 0 .. LastDay
  BY InvFacts DEF OneRowPerTerm, IInv
<1>2. planned' \subseteq PlannedRow(inputs', Len(terms')) /\ removed' \subseteq 1 .. inputs'
  BY InvFacts, PlannedMore DEF IInv
<1>3. DOMAIN req' = Reqs
      /\ \A u \in Reqs : req'[u] = req[u] \/ Sound(req'[u], terms', records', inputs')
  BY InvFacts DEF Goto
<1>4. IInv'
  BY <1>1, <1>2, <1>3, StepKeepsIInv
<1> QED
  BY <1>4 DEF Fine, Accounted

LEMMA RequestReads ==
    ASSUME IInv, NEW r \in Reqs, NEW q, Goto(r, q),
           UNCHANGED <<terms, planned, records, today, removed>>,
           inputs' \in Nat, inputs <= inputs', undisturbed' \subseteq Reqs,
           Sound(q, terms, records, inputs')
    PROVE  Fine
BY InvFacts, RequestGoesOn

LEMMA Begins ==
    ASSUME IInv, NEW r \in Reqs, \/ LoadPage(r)
                                 \/ \E i \in DOMAIN records, letter \in Letters : Finalize(r, i, letter)
                                 \/ \E all \in BOOLEAN, ids \in SUBSET Pending : Confirm(r, all, ids)
    PROVE  Fine
<1>1. undisturbed' \subseteq Reqs /\ inputs' \in Nat /\ inputs <= inputs'
  <2>1. undisturbed' = undisturbed /\ inputs' = inputs
    BY DEF LoadPage, Finalize, Confirm
  <2> QED
    BY <2>1 DEF IInv
<1>2. CASE LoadPage(r)
  <2> DEFINE q == [at |-> "promote", due |-> {p \in planned : Activated(p.term)}]
  <2>1. Sound(q, terms, records, inputs')
    BY <1>2, InvFacts DEF LoadPage, Sound
  <2> QED
    BY <1>1, <1>2, <2>1, RequestReads DEF LoadPage
<1>3. CASE \E i \in DOMAIN records, letter \in Letters : Finalize(r, i, letter)
  <2>1. PICK i \in DOMAIN records, letter \in Letters : Finalize(r, i, letter)
    BY <1>3
  <2> DEFINE q == [at |-> "finalize", id |-> i, grade |-> letter]
  <2>2. Sound(q, terms, records, inputs')
    BY DEF Sound
  <2> QED
    BY <1>1, <2>1, <2>2, RequestReads DEF Finalize
<1>4. CASE \E all \in BOOLEAN, ids \in SUBSET Pending : Confirm(r, all, ids)
  <2>1. PICK all \in BOOLEAN, ids \in SUBSET Pending : Confirm(r, all, ids)
    BY <1>4
  <2> DEFINE q == [at |-> "stamp", all |-> all, ids |-> ids]
  <2>2. Sound(q, terms, records, inputs')
    BY DEF Sound
  <2> QED
    BY <1>1, <2>1, <2>2, RequestReads DEF Confirm
<1> QED
  BY <1>2, <1>3, <1>4

LEMMA ResolvingIsSound ==
    ASSUME IInv, NEW keys \in SUBSET TermKeys, NEW then, NEW n \in Nat, Ready(then, terms, keys, n)
    PROVE  Sound(Resolving(keys, then), terms, records, n)
<1> DEFINE q == Resolving(keys, then)
<1>1. /\ q = [at |-> "resolve", missing |-> q.missing, next |-> q.next, then |-> then]
      /\ q.missing = {k \in keys : \A i \in DOMAIN terms : terms[i] # k}
      /\ q.next = Len(terms) + 1
  BY DEF Resolving
<1>2. \A key : Has(terms, keys, key) => Has(terms, q.missing, key)
  BY <1>1 DEF Has
<1>3. Ready(then, terms, q.missing, n)
  BY <1>2 DEF Ready
<1>4. q.next \in 1 .. Len(terms) + 1
      /\ \A k \in q.missing, i \in DOMAIN terms : terms[i] = k => q.next <= i
  BY <1>1, InvFacts
<1> HIDE DEF q
<1>5. Sound(q, terms, records, n)
  BY <1>1, <1>3, <1>4 DEF Sound
<1> QED
  BY <1>5 DEF q

LEMMA UploadOrAdd ==
    ASSUME IInv, NEW r \in Reqs, \/ \E t \in Transcripts : Upload(r, t)
                                 \/ \E x \in NewCourses : AddCourse(r, x)
    PROVE  Fine
<1>1. /\ undisturbed' \subseteq Reqs /\ inputs' = inputs + 1
      /\ inputs' \in Nat /\ inputs <= inputs' /\ inputs + 1 \in 1 .. inputs'
      /\ UNCHANGED <<terms, planned, records, today, removed>>
  <2>1. /\ UNCHANGED <<undisturbed, terms, planned, records, today, removed>>
        /\ inputs' = inputs + 1
    BY DEF Upload, AddCourse
  <2> QED
    BY <2>1 DEF IInv
<1>2. CASE \E t \in Transcripts : Upload(r, t)
  <2>1. PICK t \in Transcripts : Upload(r, t)
    BY <1>2
  <2> DEFINE keys == {c.key : c \in t.courses} \ {None}
             then == [at |-> "store", parsed |-> t]
  <2>2. t \in [inst : Institutions, courses : SUBSET Entries]
    BY RecordsAssumption DEF Entries
  <2>3. keys \in SUBSET TermKeys
    BY <2>2 DEF Entries
  <2>4. \A c \in t.courses : Has(terms, keys, c.key)
    BY DEF Has
  <2>5. Ready(then, terms, keys, inputs')
    BY <2>2, <2>4 DEF Ready
  <2>6. Goto(r, Resolving(keys, then))
    BY <2>1 DEF Upload, Storing
  <2> HIDE DEF keys, then
  <2>7. Sound(Resolving(keys, then), terms, records, inputs')
    BY <1>1, <2>3, <2>5, ResolvingIsSound
  <2> QED
    BY <1>1, <2>6, <2>7, RequestReads
<1>3. CASE \E x \in NewCourses : AddCourse(r, x)
  <2>1. PICK x \in NewCourses : AddCourse(r, x)
    BY <1>3
  <2> DEFINE keys == {x.key} \ {None}
             then == [at |-> "plan", id |-> inputs + 1, course |-> x]
  <2>2. x \in Course
    BY RecordsAssumption DEF Course
  <2>3. keys \in SUBSET TermKeys /\ Has(terms, keys, x.key)
    BY <2>2 DEF Course, Has
  <2>4. Ready(then, terms, keys, inputs')
    BY <1>1, <2>2, <2>3 DEF Ready
  <2>5. Goto(r, Resolving(keys, then))
    BY <2>1 DEF AddCourse
  <2> HIDE DEF keys, then
  <2>6. Sound(Resolving(keys, then), terms, records, inputs')
    BY <1>1, <2>3, <2>4, ResolvingIsSound
  <2> QED
    BY <1>1, <2>5, <2>6, RequestReads
<1> QED
  BY <1>2, <1>3

\* The sequence number that was free when the terms were read is taken once.
LEMMA TermIsFine ==
    ASSUME IInv, NEW r \in Reqs, InsertTerm(r)
    PROVE  Fine
<1>0. /\ req[r].at = "resolve"
      /\ req[r].missing \subseteq TermKeys /\ req[r].next \in 1 .. Len(terms) + 1
      /\ \A k \in req[r].missing, i \in DOMAIN terms : terms[i] = k => req[r].next <= i
      /\ Ready(req[r].then, terms, req[r].missing, inputs)
  BY DEF IInv, Sound, InsertTerm, At
<1>1. PICK k \in req[r].missing :
         IF Len(terms) < req[r].next
           THEN /\ terms' = Append(terms, k)
                /\ Goto(r, Resolved(req[r], k))
           ELSE Goto(r, Idle) /\ UNCHANGED terms
  BY DEF InsertTerm
<1>2. UNCHANGED <<planned, records, today, undisturbed, removed, inputs>>
  BY DEF InsertTerm
<1>3. CASE Len(terms) < req[r].next
  <2> DEFINE q == [at |-> "resolve", missing |-> req[r].missing \ {k}, next |-> req[r].next + 1,
                   then |-> req[r].then]
  <2>2. terms' = Append(terms, k) /\ Goto(r, q)
    BY <1>1, <1>3 DEF Resolved
  <2>3. /\ terms' \in Seq(TermKeys) /\ Len(terms') = Len(terms) + 1
        /\ DOMAIN terms' = 1 .. Len(terms) + 1
        /\ \A i \in 1 .. Len(terms) : terms'[i] = terms[i]
        /\ terms'[Len(terms) + 1] = k
    BY <1>0, <2>2, InvFacts
  <2>4. Extends(terms, terms')
    BY <2>3, InvFacts DEF Extends
  <2>5. \A i \in 1 .. Len(terms) : terms[i] # k
    BY <1>0, <1>3, InvFacts
  <2>6. OneRowPerTerm'
    BY <2>3, <2>5, InvFacts DEF OneRowPerTerm
  <2>7. ASSUME NEW l \in req[r].missing \ {k}, NEW i \in DOMAIN terms', terms'[i] = l
        PROVE  req[r].next + 1 <= i
    BY <1>0, <1>3, <2>3, <2>7, InvFacts
  <2>8. \A key : Has(terms, req[r].missing, key) => Has(terms', req[r].missing \ {k}, key)
    <3>1. ASSUME NEW key, Has(terms, req[r].missing, key), key \in req[r].missing
          PROVE  Has(terms', req[r].missing \ {k}, key)
      BY <2>3, <3>1, InvFacts DEF Has
    <3>2. ASSUME NEW key, Has(terms, req[r].missing, key), key \notin req[r].missing
          PROVE  Has(terms', req[r].missing \ {k}, key)
      BY <2>3, <3>2, InvFacts DEF Has
    <3> QED
      BY <3>1, <3>2
  <2>9. Ready(q.then, terms', q.missing, inputs)
    BY <1>0, <2>8 DEF Ready
  <2>10. Sound(q, terms', records', inputs')
    BY <1>0, <1>2, <2>3, <2>7, <2>9, InvFacts DEF Sound
  <2> HIDE DEF q
  <2>11. DOMAIN req' = Reqs
         /\ \A u \in Reqs : req'[u] = req[u] \/ Sound(req'[u], terms', records', inputs')
    BY <2>2, <2>10, InvFacts DEF Goto
  <2>12. RowsOK(records', Len(terms')) /\ Keeps(records, records')
    BY <1>2, <2>3, InvFacts, MoreTerms
  <2>13. planned' \subseteq PlannedRow(inputs', Len(terms'))
    BY <1>2, <2>3, InvFacts, PlannedMore
  <2>14. /\ today' \in 0 .. LastDay /\ undisturbed' \subseteq Reqs /\ removed' \subseteq 1 .. inputs'
         /\ inputs' \in Nat /\ inputs <= inputs'
    BY <1>2 DEF IInv
  <2>15. IInv'
    BY <2>3, <2>4, <2>6, <2>11, <2>12, <2>13, <2>14, StepKeepsIInv
  <2> QED
    BY <1>2, <2>12, <2>15 DEF Fine, Accounted
<1>4. CASE ~(Len(terms) < req[r].next)
  <2>1. Goto(r, Idle) /\ UNCHANGED terms
    BY <1>1, <1>4
  <2>2. inputs' \in Nat /\ inputs <= inputs' /\ undisturbed' \subseteq Reqs
    BY <1>2 DEF IInv
  <2> QED
    BY <1>2, <2>1, <2>2, IdleIsSound, RequestReads
<1> QED
  BY <1>3, <1>4

LEMMA TermOfIsTerm ==
    ASSUME IInv, NEW key, Has(terms, {}, key)
    PROVE  TermOf(key) \in 0 .. Len(terms)
<1>1. CASE key = None
  BY <1>1, InvFacts DEF TermOf
<1>2. CASE key # None
  <2>1. \E i \in DOMAIN terms : terms[i] = key
    BY <1>2 DEF Has
  <2>2. TermOf(key) \in DOMAIN terms
    BY <1>2, <2>1 DEF TermOf
  <2> QED
    BY <2>2, InvFacts
<1> QED
  BY <1>1, <1>2

LEMMA ProceedIsFine ==
    ASSUME IInv, NEW r \in Reqs, Proceed(r)
    PROVE  Fine
<1> DEFINE then == req[r].then
           q == IF then.at = "plan" /\ ~then.course.force /\ Activated(TermOf(then.course.key))
                  THEN [then EXCEPT !.at = "record"] ELSE then
<1>1. Goto(r, q) /\ UNCHANGED <<terms, planned, records, today, undisturbed, removed, inputs>>
  BY DEF Proceed
<1>2. Ready(then, terms, {}, inputs)
  BY DEF IInv, Sound, Proceed, At
<1>3. Ready(q, terms, {}, inputs) /\ q.at \in {"plan", "record", "store"}
  <2>1. CASE q = then
    BY <1>2, <2>1 DEF Ready
  <2>2. CASE then.at = "plan" /\ q = [then EXCEPT !.at = "record"]
    <3>1. then = [at |-> "plan", id |-> then.id, course |-> then.course]
          /\ then.course \in Course /\ Has(terms, {}, then.course.key) /\ then.id \in 1 .. inputs
      BY <1>2, <2>2 DEF Ready
    <3>2. ASSUME NEW x, NEW i, NEW c, x = [at |-> "plan", id |-> i, course |-> c]
          PROVE  [x EXCEPT !.at = "record"] = [at |-> "record", id |-> i, course |-> c]
      BY <3>2
    <3>3. q = [at |-> "record", id |-> then.id, course |-> then.course]
      BY <2>2, <3>1, <3>2
    <3> QED
      BY <3>1, <3>3 DEF Ready
  <2> QED
    BY <2>1, <2>2
<1> HIDE DEF then, q
<1>4. Sound(q, terms, records, inputs)
  BY <1>3 DEF Sound
<1>5. inputs' \in Nat /\ inputs <= inputs' /\ undisturbed' \subseteq Reqs
  BY <1>1 DEF IInv
<1> QED
  BY <1>1, <1>4, <1>5, RequestReads

\* A write by a request disturbs others but adds no request.
LEMMA WriteDisturbs ==
    ASSUME IInv, NEW r, NEW rows, Write(r, rows)
    PROVE  records' = rows /\ undisturbed' \subseteq Reqs
BY DEF IInv, Write

\* A request that is done after this write.
LEMMA WritesLast ==
    ASSUME IInv, NEW r \in Reqs, NEW rows, Write(r, rows), Goto(r, Idle),
           UNCHANGED <<terms, planned, today, removed, inputs>>,
           RowsOK(rows, Len(terms)), Keeps(records, rows)
    PROVE  Fine
<1>1. records' = rows /\ undisturbed' \subseteq Reqs
  BY WriteDisturbs
<1>2. inputs' \in Nat /\ inputs <= inputs'
  BY DEF IInv
<1> QED
  BY <1>1, <1>2, IdleIsSound, RequestGoesOn

LEMMA PromoteIsFine ==
    ASSUME IInv, NEW r \in Reqs, Promote(r)
    PROVE  Fine
<1>1. PICK p \in req[r].due :
         \/ /\ p.hours
            /\ Write(r, Upsert(Current(p.id, p.term, p)))
            /\ Goto(r, [at |-> "fulfil", plan |-> p, due |-> req[r].due \ {p}])
         \/ /\ ~p.hours
            /\ Goto(r, Idle)
            /\ UNCHANGED <<records, undisturbed>>
  BY DEF Promote
<1>2. UNCHANGED <<terms, planned, today, removed, inputs>>
  BY DEF Promote
<1>3. req[r].due \subseteq PlannedRow(inputs, Len(terms)) /\ p \in PlannedRow(inputs, Len(terms))
  BY DEF IInv, Sound, Promote, At
<1>4. inputs' \in Nat /\ inputs <= inputs' /\ undisturbed \subseteq Reqs
  BY <1>2 DEF IInv
<1>5. CASE /\ p.hours
           /\ Write(r, Upsert(Current(p.id, p.term, p)))
           /\ Goto(r, [at |-> "fulfil", plan |-> p, due |-> req[r].due \ {p}])
  <2> DEFINE row == Current(p.id, p.term, p)
             q == [at |-> "fulfil", plan |-> p, due |-> req[r].due \ {p}]
  <2>1. /\ p.id \in Nat /\ p.term \in 0 .. Len(terms) /\ p.code \in Codes
        /\ p.catalog \in Nat \cup {None} /\ Len(terms) \in Nat
    BY <1>3, InvFacts DEF PlannedRow
  <2>2. row = NewRow(p.id, p.term, p.code, p.catalog, Home, None, "in_progress", TRUE)
    BY DEF Current
  <2> HIDE DEF row
  <2>3. /\ row \in Row /\ row.term = p.term /\ row.by = None
        /\ Key(row) = <<p.term, p.code>> /\ row.was = {<<p.term, p.code>>}
    BY <2>1, <2>2, RecordsAssumption DEF NewRow, Row, Key
  <2>4. /\ RowsOK(Upsert(row), Len(terms)) /\ Keeps(records, Upsert(row))
        /\ \E i \in DOMAIN Upsert(row) : Key(row) \in Upsert(row)[i].was
    BY <2>1, <2>3, UpsertKeeps
  <2>5. records' = Upsert(row) /\ undisturbed' \subseteq Reqs
    BY <1>5, WriteDisturbs DEF row
  <2>6. Sound(q, terms, records', inputs')
    BY <1>2, <1>3, <2>3, <2>4, <2>5 DEF Sound
  <2>7. Goto(r, q)
    BY <1>5
  <2> HIDE DEF q
  <2> QED
    BY <1>2, <1>4, <2>4, <2>5, <2>6, <2>7, RequestGoesOn
<1>6. CASE ~p.hours /\ Goto(r, Idle) /\ UNCHANGED <<records, undisturbed>>
  BY <1>2, <1>4, <1>6, IdleIsSound, RequestReads
<1> QED
  BY <1>1, <1>5, <1>6

LEMMA AddRecordIsFine ==
    ASSUME IInv, NEW r \in Reqs, AddRecord(r)
    PROVE  Fine
<1> DEFINE x == req[r].course
           row == Current(None, TermOf(x.key), x)
<1>1. /\ Write(r, IF x.hours THEN Upsert(row) ELSE records) /\ Goto(r, Idle)
      /\ UNCHANGED <<terms, planned, today, removed, inputs>>
  BY DEF AddRecord
<1>2. x \in Course /\ Has(terms, {}, x.key)
  BY DEF IInv, Sound, Ready, AddRecord, At
<1>3. TermOf(x.key) \in 0 .. Len(terms) /\ x.code \in Codes /\ x.catalog \in Nat \cup {None}
  BY <1>2, TermOfIsTerm DEF Course
<1>4. row = NewRow(None, TermOf(x.key), x.code, x.catalog, Home, None, "in_progress", TRUE)
  BY DEF Current
<1> HIDE DEF row, x
<1>5. row \in Row /\ row.term \in 0 .. Len(terms) /\ row.by = None /\ Key(row) \in row.was
  BY <1>3, <1>4, RecordsAssumption DEF NewRow, Row, Key
<1>6. RowsOK(Upsert(row), Len(terms)) /\ Keeps(records, Upsert(row))
  BY <1>5, UpsertKeeps
<1>7. CASE x.hours
  BY <1>1, <1>6, <1>7, WritesLast
<1>8. CASE ~x.hours
  BY <1>1, <1>8, WritesLast, InvFacts
<1> QED
  BY <1>7, <1>8

LEMMA RecordLeft ==
    ASSUME NEW I, NEW C, NEW x \in [inst : I, courses : C], NEW c
    PROVE  [x EXCEPT !.courses = @ \ {c}] = [inst |-> x.inst, courses |-> x.courses \ {c}]
OBVIOUS

LEMMA StoreCourseIsFine ==
    ASSUME IInv, NEW r \in Reqs, StoreCourse(r)
    PROVE  Fine
<1> DEFINE parsed == req[r].parsed
<1>1. PICK c \in parsed.courses :
         /\ Write(r, Upsert(NewRow(None, TermOf(c.key), c.code, Match(c.code), parsed.inst,
                                   c.grade, c.status, FALSE)))
         /\ Goto(r, IF parsed.courses = {c} THEN Idle
                    ELSE Storing([parsed EXCEPT !.courses = @ \ {c}]))
  BY DEF StoreCourse
<1>2. UNCHANGED <<terms, planned, today, removed, inputs>>
  BY DEF StoreCourse
<1>3. /\ parsed \in [inst : Institutions, courses : SUBSET Entries]
      /\ \A d \in parsed.courses : Has(terms, {}, d.key)
  BY DEF IInv, Sound, Ready, StoreCourse, At
<1> DEFINE row == NewRow(None, TermOf(c.key), c.code, Match(c.code), parsed.inst,
                         c.grade, c.status, FALSE)
<1>4. /\ c.code \in Codes /\ c.grade \in Letters \cup {None}
      /\ c.status \in {"completed", "in_progress"} /\ parsed.inst \in Institutions
      /\ TermOf(c.key) \in 0 .. Len(terms)
  BY <1>1, <1>3, TermOfIsTerm DEF Entries
<1>5. Match(c.code) \in Nat \cup {None}
  BY <1>4, RulesAssumption DEF Match
<1>6. row \in Row /\ row.term \in 0 .. Len(terms) /\ row.by = None /\ Key(row) \in row.was
  BY <1>4, <1>5 DEF row, NewRow, Row, Key
<1> HIDE DEF row
<1>7. RowsOK(Upsert(row), Len(terms)) /\ Keeps(records, Upsert(row))
  BY <1>6, UpsertKeeps
<1>8. records' = Upsert(row) /\ undisturbed' \subseteq Reqs
  BY <1>1, WriteDisturbs DEF row
<1>9. inputs' \in Nat /\ inputs <= inputs'
  BY <1>2 DEF IInv
<1>10. CASE parsed.courses = {c}
  <2>1. Goto(r, Idle)
    BY <1>1, <1>10
  <2> QED
    BY <1>2, <1>7, <1>8, <1>9, <2>1, IdleIsSound, RequestGoesOn
<1>11. CASE parsed.courses # {c}
  <2> DEFINE left == [inst |-> parsed.inst, courses |-> parsed.courses \ {c}]
             q == [at |-> "store", parsed |-> left]
  <2>1. [parsed EXCEPT !.courses = @ \ {c}] = left
    BY <1>3, RecordLeft
  <2>3. Goto(r, q)
    BY <1>1, <1>11, <2>1 DEF Storing
  <2>4. left \in [inst : Institutions, courses : SUBSET Entries]
    BY <1>3
  <2>5. \A d \in left.courses : Has(terms, {}, d.key)
    BY <1>3
  <2> HIDE DEF left
  <2>6. Ready(q, terms, {}, inputs')
    BY <2>4, <2>5 DEF Ready
  <2>7. Sound(q, terms, records', inputs')
    BY <2>6 DEF Sound
  <2> HIDE DEF q
  <2> QED
    BY <1>2, <1>7, <1>8, <1>9, <2>3, <2>7, RequestGoesOn
<1> QED
  BY <1>10, <1>11

\* Somebody else's step: no request moves.
LEMMA NobodyMoves ==
    ASSUME IInv, UNCHANGED <<terms, req, inputs>>,
           planned' \subseteq planned, RowsOK(records', Len(terms)), Keeps(records, records'),
           today' \in 0 .. LastDay, undisturbed' \subseteq Reqs, removed' \subseteq 1 .. inputs
    PROVE  IInv'
<1>1. /\ terms' \in Seq(TermKeys) /\ Extends(terms, terms') /\ OneRowPerTerm'
      /\ RowsOK(records', Len(terms'))
  BY InvFacts DEF OneRowPerTerm
<1>2. planned' \subseteq PlannedRow(inputs', Len(terms'))
      /\ inputs' \in Nat /\ inputs <= inputs' /\ removed' \subseteq 1 .. inputs'
  BY InvFacts
<1>3. DOMAIN req' = Reqs /\ \A u \in Reqs : req'[u] = req[u]
  BY InvFacts
<1> QED
  BY <1>1, <1>2, <1>3, StepKeepsIInv

LEMMA TomorrowIsFine ==
    ASSUME IInv, Tomorrow
    PROVE  Fine
<1>1. UNCHANGED <<terms, planned, records, req, undisturbed, removed, inputs>>
      /\ today < LastDay /\ today' = today + 1
  BY DEF Tomorrow
<1>2. today' \in 0 .. LastDay /\ undisturbed' \subseteq Reqs /\ removed' \subseteq 1 .. inputs
  BY <1>1, RecordsAssumption DEF IInv
<1>3. RowsOK(records', Len(terms)) /\ Keeps(records, records') /\ planned' \subseteq planned
  BY <1>1, InvFacts
<1>4. IInv'
  BY <1>1, <1>2, <1>3, NobodyMoves
<1> QED
  BY <1>1, <1>3, <1>4 DEF Fine, Accounted

LEMMA RemoveIsFine ==
    ASSUME IInv, NEW p \in planned, RemovePlanned(p)
    PROVE  Fine
<1>1. UNCHANGED <<terms, records, today, req, undisturbed, inputs>>
      /\ planned' = planned \ {p} /\ removed' = removed \cup {p.id}
  BY DEF RemovePlanned
<1>2. p.id \in 1 .. inputs
  BY InvFacts DEF PlannedRow
<1>3. today' \in 0 .. LastDay /\ undisturbed' \subseteq Reqs /\ removed' \subseteq 1 .. inputs
  BY <1>1, <1>2 DEF IInv
<1>4. RowsOK(records', Len(terms)) /\ Keeps(records, records') /\ planned' \subseteq planned
  BY <1>1, InvFacts
<1>5. IInv'
  BY <1>1, <1>3, <1>4, NobodyMoves
<1>6. Accounted
  BY <1>1 DEF Accounted
<1> QED
  BY <1>4, <1>5, <1>6 DEF Fine

LEMMA FailIsFine ==
    ASSUME IInv, NEW r \in Reqs, Fail(r)
    PROVE  Fine
<1>1. UNCHANGED <<terms, planned, records, today, removed, inputs>>
      /\ Goto(r, Idle) /\ undisturbed' = undisturbed \ {r}
  BY DEF Fail
<1>2. inputs' \in Nat /\ inputs <= inputs' /\ undisturbed' \subseteq Reqs
  BY <1>1 DEF IInv
<1> QED
  BY <1>1, <1>2, IdleIsSound, RequestReads

\* The planned row goes once a record covers it.
LEMMA FulfilIsFine ==
    ASSUME IInv, NEW r \in Reqs, Fulfil(r)
    PROVE  Fine
<1> DEFINE q == Remaining(req[r].due)
<1>1. planned' = planned \ {req[r].plan} /\ Goto(r, q)
      /\ UNCHANGED <<terms, records, today, undisturbed, removed, inputs>>
  BY DEF Fulfil
<1>2. /\ req[r].due \subseteq PlannedRow(inputs, Len(terms))
      /\ \E i \in DOMAIN records : <<req[r].plan.term, req[r].plan.code>> \in records[i].was
  BY DEF IInv, Sound, Fulfil, At
<1>3. Sound(q, terms, records, inputs)
  BY <1>2 DEF Sound, Remaining, Idle
<1> HIDE DEF q
<1>4. DOMAIN req' = Reqs
      /\ \A u \in Reqs : req'[u] = req[u] \/ Sound(req'[u], terms', records', inputs')
  BY <1>1, <1>3, InvFacts DEF Goto
<1>5. /\ terms' \in Seq(TermKeys) /\ Extends(terms, terms') /\ OneRowPerTerm'
      /\ RowsOK(records', Len(terms')) /\ Keeps(records, records')
      /\ planned' \subseteq PlannedRow(inputs', Len(terms'))
  BY <1>1, InvFacts DEF OneRowPerTerm
<1>6. /\ inputs' \in Nat /\ inputs <= inputs'
      /\ today' \in 0 .. LastDay /\ undisturbed' \subseteq Reqs /\ removed' \subseteq 1 .. inputs'
  BY <1>1 DEF IInv
<1>7. IInv'
  BY <1>4, <1>5, <1>6, StepKeepsIInv
<1>8. Accounted
  BY <1>1, <1>2 DEF Accounted
<1> QED
  BY <1>5, <1>7, <1>8 DEF Fine

LEMMA AddPlannedIsFine ==
    ASSUME IInv, NEW r \in Reqs, AddPlanned(r)
    PROVE  Fine
<1> DEFINE x == req[r].course
           row == [id |-> req[r].id, term |-> TermOf(x.key), code |-> x.code,
                   catalog |-> x.catalog, hours |-> x.hours]
<1>1. planned' = planned \cup {row} /\ Goto(r, Idle)
      /\ UNCHANGED <<terms, records, today, undisturbed, removed, inputs>>
  BY DEF AddPlanned
<1>2. x \in Course /\ Has(terms, {}, x.key) /\ req[r].id \in 1 .. inputs
  BY DEF IInv, Sound, Ready, AddPlanned, At
<1>3. row \in PlannedRow(inputs, Len(terms))
  BY <1>2, TermOfIsTerm DEF Course, PlannedRow
<1> HIDE DEF row
<1>4. DOMAIN req' = Reqs
      /\ \A u \in Reqs : req'[u] = req[u] \/ Sound(req'[u], terms', records', inputs')
  BY <1>1, IdleIsSound, InvFacts DEF Goto
<1>5. /\ terms' \in Seq(TermKeys) /\ Extends(terms, terms') /\ OneRowPerTerm'
      /\ RowsOK(records', Len(terms')) /\ Keeps(records, records')
      /\ planned' \subseteq PlannedRow(inputs', Len(terms'))
  BY <1>1, <1>3, InvFacts DEF OneRowPerTerm
<1>6. /\ inputs' \in Nat /\ inputs <= inputs'
      /\ today' \in 0 .. LastDay /\ undisturbed' \subseteq Reqs /\ removed' \subseteq 1 .. inputs'
  BY <1>1 DEF IInv
<1>7. IInv'
  BY <1>4, <1>5, <1>6, StepKeepsIInv
<1> QED
  BY <1>1, <1>5, <1>7 DEF Fine, Accounted

LEMMA CompleteIsFine ==
    ASSUME IInv, NEW r \in Reqs, Complete(r)
    PROVE  Fine
<1> DEFINE n == req[r].id
           row == [records[n] EXCEPT !.grade = req[r].grade, !.status = "completed"]
<1>1. n \in DOMAIN records /\ req[r].grade \in Letters
  BY DEF IInv, Sound, Complete, At
<1>2. records[n] \in Row
  BY <1>1, InvFacts
<1>3. CASE records[n].status = "in_progress"
  <2>1. /\ row \in Row /\ row.term = records[n].term /\ row.was = records[n].was
        /\ row.confirmed = records[n].confirmed /\ row.by = records[n].by
        /\ Key(row) = Key(records[n])
    BY <1>1, <1>2 DEF Row, Key
  <2> DEFINE S == [records EXCEPT ![n] = row]
  <2>2. [records EXCEPT ![n].grade = req[r].grade, ![n].status = "completed"] = S
    BY <1>1
  <2>3. /\ Write(r, S) /\ Goto(r, Idle) /\ UNCHANGED <<terms, planned, today, removed, inputs>>
    BY <1>3, <2>2 DEF Complete
  <2> HIDE DEF row
  <2>4. row.term \in 0 .. Len(terms) /\ Key(row) \in row.was
        /\ \A j \in DOMAIN records : Key(records[j]) = Key(row) => j = n
    BY <1>1, <2>1, InvFacts DEF RowsOK
  <2>5. RowsOK(S, Len(terms)) /\ Keeps(records, S)
    BY <1>1, <1>3, <2>1, <2>4, InvFacts, ChangeKeeps
  <2> HIDE DEF S
  <2> QED
    BY <2>3, <2>5, WritesLast
<1>4. CASE records[n].status # "in_progress"
  <2>1. /\ Write(r, records) /\ Goto(r, Idle) /\ UNCHANGED <<terms, planned, today, removed, inputs>>
    BY <1>4 DEF Complete
  <2> QED
    BY <2>1, WritesLast, InvFacts
<1> QED
  BY <1>3, <1>4

\* A row that is still open is given another key.
LEMMA RekeyIsFine ==
    ASSUME IInv, NEW i \in DOMAIN records, NEW term \in 0 .. Len(terms), NEW code \in Codes,
           NEW rest \in Row, rest.was = records[i].was, rest.by = records[i].by,
           rest.confirmed = records[i].confirmed,
           ~(records[i].confirmed /\ records[i].status # "in_progress"),
           Rekey(i, term, code, rest)
    PROVE  Fine
<1>0. PICK row : row = [rest EXCEPT !.term = term, !.code = code, !.was = @ \cup {<<term, code>>}]
  OBVIOUS
<1> DEFINE S == [records EXCEPT ![i] = row]
<1>1. /\ \A j \in DOMAIN records : Key(records[j]) = <<term, code>> => j = i
      /\ Write(None, S) /\ UNCHANGED <<terms, planned, today, req, removed, inputs>>
  BY <1>0 DEF Rekey
<1>2. term \in Nat
  BY InvFacts
<1>3. /\ rest = [plan |-> rest.plan, term |-> rest.term, code |-> rest.code, was |-> rest.was,
                 inst |-> rest.inst, catalog |-> rest.catalog, grade |-> rest.grade,
                 status |-> rest.status, confirmed |-> rest.confirmed, by |-> rest.by]
      /\ rest.was \cup {<<term, code>>} \in SUBSET (Nat \X Codes)
  BY <1>2 DEF Row
<1>4. row = [plan |-> rest.plan, term |-> term, code |-> code,
             was |-> rest.was \cup {<<term, code>>},
             inst |-> rest.inst, catalog |-> rest.catalog, grade |-> rest.grade,
             status |-> rest.status, confirmed |-> rest.confirmed, by |-> rest.by]
  BY <1>0 DEF Row
<1>5. /\ row \in Row /\ row.term = term /\ row.code = code
      /\ row.was = rest.was \cup {<<term, code>>} /\ row.by = rest.by
      /\ row.confirmed = rest.confirmed
  BY <1>2, <1>3, <1>4 DEF Row
<1>6. /\ Key(row) = <<term, code>> /\ Key(row) \in row.was /\ records[i].was \subseteq row.was
      /\ row.term \in 0 .. Len(terms) /\ row.by = records[i].by
      /\ records[i].confirmed => row.confirmed
  BY <1>5 DEF Key
<1>7. RowsOK(S, Len(terms)) /\ Keeps(records, S)
  BY <1>1, <1>5, <1>6, InvFacts, ChangeKeeps
<1> HIDE DEF S
<1>8. records' = S /\ undisturbed' \subseteq Reqs
  BY <1>1, WriteDisturbs
<1>9. today' \in 0 .. LastDay /\ removed' \subseteq 1 .. inputs /\ planned' \subseteq planned
  BY <1>1 DEF IInv
<1>10. IInv'
  BY <1>1, <1>7, <1>8, <1>9, NobodyMoves
<1> QED
  BY <1>1, <1>7, <1>8, <1>10 DEF Fine, Accounted

LEMMA EditIsFine ==
    ASSUME IInv, NEW i \in DOMAIN records, NEW x \in Edits, EditCourse(i, x) \/ ReviewEdit(i, x)
    PROVE  Fine
<1> DEFINE rest == [records[i] EXCEPT !.grade = x.grade, !.status = x.status]
<1>1. records[i] \in Row /\ records[i].term \in 0 .. Len(terms)
  BY InvFacts DEF RowsOK
<1>2. /\ x.code \in Codes /\ x.grade \in Letters \cup {None}
      /\ x.status \in {"completed", "in_progress", "dropped"}
  BY RecordsAssumption
<1>3. /\ rest \in Row /\ rest.was = records[i].was /\ rest.by = records[i].by
      /\ rest.confirmed = records[i].confirmed
  BY <1>1, <1>2 DEF Row
<1>4. CASE EditCourse(i, x)
  <2>1. Has(terms, {}, x.key)
    BY <1>4 DEF EditCourse, Has
  <2>2. TermOf(x.key) \in 0 .. Len(terms)
    BY <2>1, TermOfIsTerm
  <2>3. Rekey(i, TermOf(x.key), x.code, rest) /\ records[i].status = "in_progress"
    BY <1>4 DEF EditCourse
  <2> HIDE DEF rest
  <2> QED
    BY <1>2, <1>3, <2>2, <2>3, RekeyIsFine
<1>5. CASE ReviewEdit(i, x)
  <2>1. Rekey(i, records[i].term, x.code, rest) /\ ~records[i].confirmed
    BY <1>5 DEF ReviewEdit
  <2> HIDE DEF rest
  <2> QED
    BY <1>1, <1>2, <1>3, <2>1, RekeyIsFine
<1> QED
  BY <1>4, <1>5

LEMMA StampIsFine ==
    ASSUME IInv, NEW r \in Reqs, Stamp(r)
    PROVE  Fine
<1> DEFINE ids == IF req[r].all THEN Pending ELSE req[r].ids
           S == [i \in DOMAIN records |->
                    IF i \in ids THEN [records[i] EXCEPT !.confirmed = TRUE] ELSE records[i]]
           q == [at |-> "reconcile"]
<1>1. Write(r, S) /\ Goto(r, q) /\ UNCHANGED <<terms, planned, today, removed, inputs>>
  BY DEF Stamp
<1> HIDE DEF ids
<1>2. ASSUME NEW i \in DOMAIN records
      PROVE  /\ S[i] \in Row
             /\ \/ ~records[i].confirmed /\ S[i] = [records[i] EXCEPT !.confirmed = TRUE]
                \/ S[i] = [records[i] EXCEPT !.by = S[i].by] /\ S[i].by = records[i].by
  <2>1. records[i] \in Row /\ records[i] = [records[i] EXCEPT !.by = records[i].by]
    BY InvFacts, ByItself
  <2>2. CASE i \notin ids
    BY <2>1, <2>2
  <2>3. CASE i \in ids /\ ~records[i].confirmed
    BY <2>1, <2>3 DEF Row
  <2>4. CASE i \in ids /\ records[i].confirmed
    <3>1. S[i] = records[i]
      BY <2>1, <2>4 DEF Row
    <3> QED
      BY <2>1, <3>1
  <2> QED
    BY <2>2, <2>3, <2>4
<1>3. S = [i \in DOMAIN records |-> S[i]]
  OBVIOUS
<1> HIDE DEF S
<1>4. DOMAIN S = DOMAIN records /\ S \in Seq(Row)
  BY <1>2, <1>3, InvFacts, RemarkRows
<1>5. \A i \in DOMAIN records :
        \/ ~records[i].confirmed /\ S[i] = [records[i] EXCEPT !.confirmed = TRUE]
        \/ /\ S[i] = [records[i] EXCEPT !.by = S[i].by]
           /\ \/ S[i].by \in {records[i].by, None}
              \/ /\ S[i].by \in DOMAIN records /\ S[i].by # i
                 /\ records[i].confirmed /\ records[S[i].by].confirmed
  BY <1>2
<1>6. RowsOK(S, Len(terms)) /\ Keeps(records, S)
  BY <1>5, <1>4, InvFacts, RemarkKeeps
<1>7. records' = S /\ undisturbed' \subseteq Reqs
  BY <1>1, WriteDisturbs
<1>8. inputs' \in Nat /\ inputs <= inputs'
  BY <1>1 DEF IInv
<1>9. Sound(q, terms, records', inputs')
  BY DEF Sound
<1> QED
  BY <1>1, <1>6, <1>7, <1>8, <1>9, RequestGoesOn

LEMMA ReadConfirmedIsFine ==
    ASSUME IInv, NEW r \in Reqs, ReadConfirmed(r)
    PROVE  Fine
<1> DEFINE q == [at |-> "clear", rows |-> ConfirmedRows(records)]
<1>1. Goto(r, q) /\ UNCHANGED <<terms, planned, records, today, removed, inputs>>
      /\ undisturbed' = undisturbed \cup {r}
  BY DEF ReadConfirmed
<1>2. Sound(q, terms, records, inputs')
  BY DEF Sound, ConfirmedRows
<1>3. inputs' \in Nat /\ inputs <= inputs' /\ undisturbed' \subseteq Reqs
  BY <1>1 DEF IInv
<1> QED
  BY <1>1, <1>2, <1>3, RequestReads

\* A plan over rows read as confirmed names confirmed rows, still.
LEMMA ClearIsFine ==
    ASSUME IInv, NEW r \in Reqs, Clear(r)
    PROVE  Fine
<1> DEFINE rows == req[r].rows
           S == Cleared(rows)
<1>1. PICK plan \in Plans(rows, terms) : Goto(r, [at |-> "exclude", plan |-> plan])
  BY DEF Clear
<1>2. Write(r, S) /\ UNCHANGED <<terms, planned, today, removed, inputs>>
  BY DEF Clear
<1>3. DOMAIN rows \subseteq DOMAIN records /\ \A i \in DOMAIN rows : records[i].confirmed
  BY DEF IInv, Sound, Clear, At
<1>4. ASSUME NEW i \in DOMAIN records
      PROVE  S[i] \in Row /\ S[i] = [records[i] EXCEPT !.by = S[i].by]
             /\ S[i].by \in {records[i].by, None}
  <2>1. records[i] \in Row /\ records[i] = [records[i] EXCEPT !.by = records[i].by]
    BY InvFacts, ByItself
  <2>2. CASE S[i] = records[i]
    BY <2>1, <2>2
  <2>3. CASE S[i] = [records[i] EXCEPT !.by = None]
    BY <2>1, <2>3 DEF Row
  <2> QED
    BY <2>2, <2>3 DEF Cleared
<1>5. DOMAIN S = DOMAIN records /\ S \in Seq(Row)
  BY <1>4, InvFacts DEF Cleared
<1> HIDE DEF S
<1>6. RowsOK(S, Len(terms)) /\ Keeps(records, S)
  BY <1>4, <1>5, InvFacts, RemarkKeeps
<1>7. records' = S /\ undisturbed' \subseteq Reqs
  BY <1>2, WriteDisturbs
<1> DEFINE q == [at |-> "exclude", plan |-> plan]
<1>8. \A i \in DOMAIN plan : i \in DOMAIN rows /\ plan[i] \in DOMAIN rows /\ plan[i] # i
  BY PolicyIsSound
<1>9. \A i \in DOMAIN rows : i \in DOMAIN S /\ S[i].confirmed
  BY <1>3, <1>5, <1>6, InvFacts DEF Keeps
<1> HIDE DEF rows
<1>10. Sound(q, terms, records', inputs')
  BY <1>7, <1>8, <1>9 DEF Sound
<1>11. inputs' \in Nat /\ inputs <= inputs'
  BY <1>2 DEF IInv
<1> QED
  BY <1>1, <1>2, <1>6, <1>7, <1>10, <1>11, RequestGoesOn

LEMMA ExcludeIsFine ==
    ASSUME IInv, NEW r \in Reqs, Exclude(r)
    PROVE  Fine
<1> DEFINE plan == req[r].plan
<1>1. PICK n \in DOMAIN plan :
         /\ Write(r, [records EXCEPT ![n].by = plan[n]])
         /\ Goto(r, [at |-> "exclude", plan |-> [j \in DOMAIN plan \ {n} |-> plan[j]]])
  BY DEF Exclude
<1>2. UNCHANGED <<terms, planned, today, removed, inputs>>
  BY DEF Exclude
<1>3. \A i \in DOMAIN plan :
         /\ i \in DOMAIN records /\ records[i].confirmed
         /\ plan[i] \in DOMAIN records /\ records[plan[i]].confirmed /\ plan[i] # i
  BY DEF IInv, Sound, Exclude, At
<1> DEFINE S == [records EXCEPT ![n] = [records[n] EXCEPT !.by = plan[n]]]
           left == [j \in DOMAIN plan \ {n} |-> plan[j]]
           q == [at |-> "exclude", plan |-> left]
<1>4. Write(r, S) /\ Goto(r, q)
  BY <1>1
<1> HIDE DEF plan
<1>5. records[n] \in Row /\ plan[n] \in Nat
  BY <1>3, InvFacts
<1>6. ASSUME NEW i \in DOMAIN records
      PROVE  /\ S[i] \in Row /\ S[i] = [records[i] EXCEPT !.by = S[i].by]
             /\ \/ S[i].by = records[i].by
                \/ /\ S[i].by \in DOMAIN records /\ S[i].by # i
                   /\ records[i].confirmed /\ records[S[i].by].confirmed
  <2>1. CASE i = n
    <3>1. S[i] = [records[n] EXCEPT !.by = plan[n]]
      BY <2>1, InvFacts
    <3>2. S[i] \in Row /\ S[i].by = plan[n] /\ S[i] = [records[i] EXCEPT !.by = S[i].by]
      BY <1>5, <2>1, <3>1 DEF Row
    <3> QED
      BY <1>3, <2>1, <3>2
  <2>2. CASE i # n
    <3>1. S[i] = records[i] /\ records[i] \in Row
      BY <2>2, InvFacts
    <3> QED
      BY <3>1, ByItself
  <2> QED
    BY <2>1, <2>2
<1>7. S = [i \in DOMAIN records |-> S[i]]
  BY InvFacts
<1> HIDE DEF S
<1>8. DOMAIN S = DOMAIN records /\ S \in Seq(Row)
  BY <1>6, <1>7, InvFacts, RemarkRows
<1>9. \A i \in DOMAIN records :
        \/ ~records[i].confirmed /\ S[i] = [records[i] EXCEPT !.confirmed = TRUE]
        \/ /\ S[i] = [records[i] EXCEPT !.by = S[i].by]
           /\ \/ S[i].by \in {records[i].by, None}
              \/ /\ S[i].by \in DOMAIN records /\ S[i].by # i
                 /\ records[i].confirmed /\ records[S[i].by].confirmed
  BY <1>6
<1>10. RowsOK(S, Len(terms)) /\ Keeps(records, S)
  BY <1>9, <1>8, InvFacts, RemarkKeeps
<1>11. records' = S /\ undisturbed' \subseteq Reqs
  BY <1>4, WriteDisturbs
<1>12. \A i \in DOMAIN records : i \in DOMAIN S /\ (records[i].confirmed => S[i].confirmed)
  BY <1>8, <1>10, InvFacts DEF Keeps
<1>13. DOMAIN left \subseteq DOMAIN plan /\ \A i \in DOMAIN left : left[i] = plan[i]
  OBVIOUS
<1> HIDE DEF left
<1>14. Sound(q, terms, records', inputs')
  BY <1>3, <1>11, <1>12, <1>13 DEF Sound
<1>15. inputs' \in Nat /\ inputs <= inputs'
  BY <1>2 DEF IInv
<1> HIDE DEF q
<1> QED
  BY <1>2, <1>4, <1>10, <1>11, <1>14, <1>15, RequestGoesOn

LEMMA AnswerIsFine ==
    ASSUME IInv, NEW r \in Reqs, AnswerConfirm(r)
    PROVE  Fine
<1>1. Goto(r, Idle) /\ UNCHANGED <<terms, planned, records, today, removed, inputs>>
      /\ undisturbed' = undisturbed \ {r}
  BY DEF AnswerConfirm
<1>2. inputs' \in Nat /\ inputs <= inputs' /\ undisturbed' \subseteq Reqs
  BY <1>1 DEF IInv
<1> QED
  BY <1>1, <1>2, IdleIsSound, RequestReads

-----------------------------------------------------------------------------
(* Every step. *)

LEMMA InitIsFine ==
    ASSUME Init
    PROVE  IInv
<1>1. terms \in Seq(TermKeys) /\ OneRowPerTerm
  BY RecordsAssumption DEF Init, OneRowPerTerm
<1>2. RowsOK(records, Len(terms))
  BY DEF Init, RowsOK
<1>3. inputs \in Nat /\ planned \subseteq PlannedRow(inputs, Len(terms))
      /\ today \in 0 .. LastDay /\ undisturbed \subseteq Reqs /\ removed \subseteq 1 .. inputs
  BY RecordsAssumption DEF Init
<1>4. DOMAIN req = Reqs /\ \A r \in Reqs : Sound(req[r], terms, records, inputs)
  BY IdleIsSound DEF Init
<1> QED
  BY <1>1, <1>2, <1>3, <1>4 DEF IInv

LEMMA StepIsFine ==
    ASSUME IInv, Next
    PROVE  Fine
<1>1. CASE Tomorrow
  BY <1>1, TomorrowIsFine
<1>2. ASSUME NEW r \in Reqs, Begin(r) PROVE Fine
  BY <1>2, Begins, UploadOrAdd DEF Begin
<1>3. ASSUME NEW r \in Reqs, Step(r) PROVE Fine
  BY <1>3, PromoteIsFine, FulfilIsFine, TermIsFine, ProceedIsFine, AddPlannedIsFine,
     AddRecordIsFine, CompleteIsFine, StoreCourseIsFine, StampIsFine, ReadConfirmedIsFine,
     ClearIsFine, ExcludeIsFine, AnswerIsFine DEF Step
<1>4. ASSUME NEW r \in Reqs, Fail(r) PROVE Fine
  BY <1>4, FailIsFine
<1>5. ASSUME NEW p \in planned, RemovePlanned(p) PROVE Fine
  BY <1>5, RemoveIsFine
<1>6. ASSUME NEW i \in DOMAIN records, NEW x \in Edits, EditCourse(i, x) \/ ReviewEdit(i, x)
      PROVE  Fine
  BY <1>6, EditIsFine
<1> QED
  BY <1>1, <1>2, <1>3, <1>4, <1>5, <1>6 DEF Next

LEMMA StutterIsFine ==
    ASSUME IInv, UNCHANGED vars
    PROVE  Fine
<1>1. UNCHANGED <<terms, planned, records, today, req, undisturbed, removed, inputs>>
  BY DEF vars
<1>2. today' \in 0 .. LastDay /\ undisturbed' \subseteq Reqs /\ removed' \subseteq 1 .. inputs
      /\ planned' \subseteq planned
  BY <1>1 DEF IInv
<1>3. RowsOK(records', Len(terms)) /\ Keeps(records, records')
  BY <1>1, InvFacts
<1>4. IInv'
  BY <1>1, <1>2, <1>3, NobodyMoves
<1> QED
  BY <1>1, <1>3, <1>4 DEF Fine, Accounted

THEOREM Invariance == Spec => []IInv
<1>1. ASSUME IInv, [Next]_vars PROVE IInv'
  BY <1>1, StepIsFine, StutterIsFine DEF Fine
<1> QED
  BY InitIsFine, <1>1, PTL DEF Spec

\* Types hold for any requests, courses, transcripts and institutions.
THEOREM TypeCorrect == Spec => []TypeOK
<1>1. ASSUME IInv PROVE TypeOK
  <2>1. ASSUME NEW i \in DOMAIN records
        PROVE  /\ records[i] \in Row /\ records[i].term \in 0 .. Len(terms)
               /\ records[i].by \in DOMAIN records \cup {None}
    BY InvFacts, <1>1 DEF RowsOK
  <2> QED
    BY <1>1, <2>1 DEF IInv, TypeOK, PlannedRow
<1> QED
  BY <1>1, Invariance, PTL

\* terms.py: however uploads and added courses race to insert the terms they
\* miss, a (year, season) has one row.
THEOREM TermsAreUnique == Spec => []OneRowPerTerm
<1>1. IInv => OneRowPerTerm
  BY DEF IInv
<1> QED
  BY <1>1, Invariance, PTL

\* repeats.py: an excluded row and the row it is excluded for are confirmed,
\* and different, whatever confirms, uploads and edits interleave.
THEOREM ExclusionsAreSound == Spec => []ExclusionsSound
<1>1. IInv => ExclusionsSound
  BY DEF IInv, RowsOK, ExclusionsSound
<1> QED
  BY <1>1, Invariance, PTL

\* lifecycle.py and review.py: nothing rewrites a confirmed row whose status is
\* final.
THEOREM HistoryIsKept == Spec => HistoryKept
<1>1. ASSUME IInv, [Next]_vars
      PROVE  \A i \in DOMAIN records :
                records[i].confirmed /\ records[i].status # "in_progress"
                    => records'[i] = [records[i] EXCEPT !.by = records'[i].by]
  <2>1. Keeps(records, records')
    BY <1>1, StepIsFine, StutterIsFine DEF Fine
  <2> QED
    BY <1>1, <2>1, InvFacts DEF Keeps
<1> QED
  BY <1>1, Invariance, PTL DEF Spec, HistoryKept

\* lifecycle.py: a planned course goes because the student removed it or
\* because a record has covered it, wherever a promotion stops.
THEOREM PlansAreNotLost == Spec => FulfilledNotLost
<1>1. ASSUME IInv, [Next]_vars
      PROVE  \A p \in planned \ planned' :
                \/ p.id \in removed'
                \/ \E i \in DOMAIN records : <<p.term, p.code>> \in records[i].was
  BY <1>1, StepIsFine, StutterIsFine DEF Fine, Accounted
<1> QED
  BY <1>1, Invariance, PTL DEF Spec, FulfilledNotLost

-----------------------------------------------------------------------------
(* Where records come from: the invariant behind PromotedOnce. *)

\* The planned rows a request holds copies of, and those there are in all.
Held(q) ==
    (IF q.at \in {"promote", "fulfil"} THEN q.due ELSE {})
        \cup (IF q.at = "fulfil" THEN {q.plan} ELSE {})

Copies == planned \cup UNION {Held(req[r]) : r \in Reqs}

\* The id a request will add a planned row under.
Adds(q, n) ==
    \/ q.at = "plan" /\ q.id = n
    \/ q.at = "resolve" /\ q.then.at = "plan" /\ q.then.id = n

\* The records of one plan share a key they have had, the one of every copy.
Traced(R, C) ==
    /\ \A i \in DOMAIN R : IsFiniteSet(R[i].was)
    /\ \A i, j \in DOMAIN R : R[i].plan # None /\ R[i].plan = R[j].plan => R[i].was \cap R[j].was # {}
    /\ \A i \in DOMAIN R, p \in C : R[i].plan = p.id => <<p.term, p.code>> \in R[i].was
    /\ \A p, q \in C : p.id = q.id => p.term = q.term /\ p.code = q.code

\* Nothing has the id of a row that is about to be added.
Fresh(r, n) ==
    /\ n \in 1 .. inputs
    /\ \A p \in Copies : p.id # n
    /\ \A i \in DOMAIN records : records[i].plan # n
    /\ \A u \in Reqs \ {r} : ~Adds(req[u], n)

PlanInv ==
    /\ Traced(records, Copies)
    /\ \A p \in Copies : p.id \in 1 .. inputs
    /\ \A i \in DOMAIN records : records[i].plan # None => records[i].plan \in 1 .. inputs
    /\ \A r \in Reqs, n \in Nat : Adds(req[r], n) => Fresh(r, n)

\* Rows are added without a plan, and the others remember what they were.
Grows(R, S) ==
    /\ Len(R) <= Len(S)
    /\ \A i \in 1 .. Len(R) : S[i].plan = R[i].plan /\ R[i].was \subseteq S[i].was
    /\ \A i \in 1 .. Len(S) : IsFiniteSet(S[i].was)
    /\ \A i \in Len(R) + 1 .. Len(S) : S[i].plan = None

LEMMA GrowsSame ==
    ASSUME NEW R \in Seq(Row), \A i \in DOMAIN R : IsFiniteSet(R[i].was)
    PROVE  Grows(R, R)
BY DEF Grows

\* Rows that keep the columns plan and was.
LEMMA RemarkGrows ==
    ASSUME NEW R \in Seq(Row), \A i \in DOMAIN R : IsFiniteSet(R[i].was),
           NEW S \in Seq(Row), DOMAIN S = DOMAIN R,
           \A i \in DOMAIN R : S[i].plan = R[i].plan /\ S[i].was = R[i].was
    PROVE  Grows(R, S)
<1>1. /\ Len(R) \in Nat /\ Len(S) \in Nat /\ DOMAIN R = 1 .. Len(R) /\ DOMAIN S = 1 .. Len(S)
      /\ Len(R) = Len(S)
  OBVIOUS
<1> QED
  BY <1>1 DEF Grows

LEMMA UpsertGrows ==
    ASSUME IInv, \A i \in DOMAIN records : IsFiniteSet(records[i].was),
           NEW row, row.plan = None, IsFiniteSet(row.was)
    PROVE  Grows(records, Upsert(row))
<1>1. records \in Seq(Row)
  BY InvFacts
<1>2. CASE Taken(Key(row), records)
  BY <1>1, <1>2, GrowsSame DEF Upsert
<1>3. CASE ~Taken(Key(row), records)
  <2>1. /\ Len(Append(records, row)) = Len(records) + 1 /\ Len(records) \in Nat
        /\ \A i \in 1 .. Len(records) : Append(records, row)[i] = records[i]
        /\ Append(records, row)[Len(records) + 1] = row
    BY <1>1
  <2> QED
    BY <1>1, <1>3, <2>1 DEF Upsert, Grows
<1> QED
  BY <1>2, <1>3

\* A step after which there are no more copies and additions than before.
LEMMA QuietStep ==
    ASSUME IInv, PlanInv, IInv', Grows(records, records'), Copies' \subseteq Copies,
           inputs <= inputs', \A u \in Reqs, n \in Nat : Adds(req'[u], n) => Adds(req[u], n)
    PROVE  PlanInv'
<1>1. /\ Len(records) \in Nat /\ Len(records') \in Nat /\ Len(records) <= Len(records')
      /\ DOMAIN records = 1 .. Len(records) /\ DOMAIN records' = 1 .. Len(records')
      /\ inputs \in Nat /\ inputs' \in Nat /\ None \notin Nat
  BY RulesAssumption DEF IInv, RowsOK, Grows
<1>2. ASSUME NEW i \in DOMAIN records', records'[i].plan # None
      PROVE  /\ i \in DOMAIN records /\ records'[i].plan = records[i].plan
             /\ records[i].was \subseteq records'[i].was
  BY <1>1, <1>2 DEF Grows
<1>3. ASSUME NEW p \in Copies' PROVE p \in Copies /\ p.id \in 1 .. inputs' /\ p.id # None
  BY <1>1 DEF PlanInv
<1>4. Traced(records', Copies')
  <2>1. \A i \in DOMAIN records' : IsFiniteSet(records'[i].was)
    BY <1>1 DEF Grows
  <2>2. ASSUME NEW i \in DOMAIN records', NEW j \in DOMAIN records',
               records'[i].plan # None, records'[i].plan = records'[j].plan
        PROVE  records'[i].was \cap records'[j].was # {}
    <3>1. records[i].was \cap records[j].was # {}
      BY <1>2, <2>2 DEF PlanInv, Traced
    <3> QED
      BY <1>2, <2>2, <3>1
  <2>3. ASSUME NEW i \in DOMAIN records', NEW p \in Copies', records'[i].plan = p.id
        PROVE  <<p.term, p.code>> \in records'[i].was
    <3>1. p \in Copies /\ p.id # None
      BY <1>3
    <3>2. i \in DOMAIN records /\ records[i].plan = p.id /\ records[i].was \subseteq records'[i].was
      BY <1>2, <2>3, <3>1
    <3> QED
      BY <3>1, <3>2 DEF PlanInv, Traced
  <2>4. \A p, q \in Copies' : p.id = q.id => p.term = q.term /\ p.code = q.code
    BY DEF PlanInv, Traced
  <2> QED
    BY <2>1, <2>2, <2>3, <2>4 DEF Traced
<1>5. ASSUME NEW i \in DOMAIN records', records'[i].plan # None
      PROVE  records'[i].plan \in 1 .. inputs'
  <2>1. records[i].plan \in 1 .. inputs /\ records'[i].plan = records[i].plan
    BY <1>2, <1>5 DEF PlanInv
  <2> QED
    BY <1>1, <2>1
<1>6. ASSUME NEW r \in Reqs, NEW n \in Nat, Adds(req'[r], n) PROVE Fresh(r, n)'
  <2>1. Fresh(r, n)
    BY <1>6 DEF PlanInv
  <2>2. n \in 1 .. inputs' /\ \A p \in Copies' : p.id # n
    BY <1>1, <2>1 DEF Fresh
  <2>3. ASSUME NEW i \in DOMAIN records' PROVE records'[i].plan # n
    BY <1>1, <1>2, <2>1 DEF Fresh
  <2>4. \A u \in Reqs \ {r} : ~Adds(req'[u], n)
    BY <2>1 DEF Fresh
  <2> QED
    BY <2>2, <2>3, <2>4 DEF Fresh, Adds
<1> QED
  BY <1>3, <1>4, <1>5, <1>6 DEF PlanInv, Adds, Fresh, Copies

\* One request goes on, holding nothing new and adding nothing new.
LEMMA QuietMove ==
    ASSUME IInv, PlanInv, IInv', NEW r \in Reqs, NEW q, Goto(r, q), planned' \subseteq planned,
           inputs' = inputs, Grows(records, records'), Held(q) \subseteq Copies,
           \A n \in Nat : Adds(q, n) => Adds(req[r], n)
    PROVE  PlanInv'
<1>1. DOMAIN req = Reqs
  BY DEF IInv
<1>2. req'[r] = q /\ \A u \in Reqs \ {r} : req'[u] = req[u]
  BY <1>1 DEF Goto
<1>3. \A u \in Reqs : Held(req'[u]) \subseteq Copies
  BY <1>2 DEF Copies
<1>4. Copies' \subseteq Copies
  BY <1>3 DEF Copies
<1>5. \A u \in Reqs, n \in Nat : Adds(req'[u], n) => Adds(req[u], n)
  BY <1>2
<1>6. inputs <= inputs'
  BY DEF IInv
<1> QED
  BY <1>4, <1>5, <1>6, QuietStep

LEMMA PlanFacts ==
    ASSUME IInv, PlanInv
    PROVE  /\ \A i \in DOMAIN records : IsFiniteSet(records[i].was)
           /\ Grows(records, records)
<1>1. \A i \in DOMAIN records : IsFiniteSet(records[i].was)
  BY DEF PlanInv, Traced
<1> QED
  BY <1>1, InvFacts, GrowsSame

LEMMA HoldsNothing ==
    ASSUME NEW q, q.at \notin {"promote", "fulfil"}
    PROVE  Held(q) \subseteq Copies
BY DEF Held

LEMMA AddsNothing ==
    ASSUME NEW q, q.at \notin {"plan", "resolve"}
    PROVE  \A n \in Nat : ~Adds(q, n)
BY DEF Adds

\* A request that reads or writes without plans goes on to neither hold nor add.
LEMMA PlainMove ==
    ASSUME IInv, PlanInv, IInv', NEW r \in Reqs, NEW q, Goto(r, q), planned' \subseteq planned,
           inputs' = inputs, Grows(records, records'),
           q.at \notin {"promote", "fulfil", "plan", "resolve"}
    PROVE  PlanInv'
BY QuietMove, HoldsNothing, AddsNothing

LEMMA NobodyAdds ==
    ASSUME IInv, PlanInv, IInv', UNCHANGED <<req, inputs>>, planned' \subseteq planned,
           Grows(records, records')
    PROVE  PlanInv'
<1>1. Copies' \subseteq Copies
  BY DEF Copies
<1>2. inputs <= inputs'
  BY DEF IInv
<1> QED
  BY <1>1, <1>2, QuietStep

LEMMA LoadPageTraces ==
    ASSUME IInv, PlanInv, IInv', NEW r \in Reqs, LoadPage(r)
    PROVE  PlanInv'
<1> DEFINE q == [at |-> "promote", due |-> {p \in planned : Activated(p.term)}]
<1>1. Goto(r, q) /\ UNCHANGED <<planned, inputs, records>>
  BY DEF LoadPage
<1>2. Held(q) \subseteq Copies
  BY DEF Held, Copies
<1>3. \A n \in Nat : ~Adds(q, n)
  BY AddsNothing
<1> HIDE DEF q
<1> QED
  BY <1>1, <1>2, <1>3, PlanFacts, QuietMove

LEMMA BeginsTrace ==
    ASSUME IInv, PlanInv, IInv', NEW r \in Reqs,
           \/ \E i \in DOMAIN records, letter \in Letters : Finalize(r, i, letter)
           \/ \E all \in BOOLEAN, ids \in SUBSET Pending : Confirm(r, all, ids)
    PROVE  PlanInv'
<1>1. UNCHANGED <<planned, inputs, records>>
  BY DEF Finalize, Confirm
<1>2. \E q : Goto(r, q) /\ q.at \in {"finalize", "stamp"}
  <2>1. ASSUME NEW i \in DOMAIN records, NEW letter \in Letters, Finalize(r, i, letter)
        PROVE  \E q : Goto(r, q) /\ q.at \in {"finalize", "stamp"}
    <3> DEFINE q == [at |-> "finalize", id |-> i, grade |-> letter]
    <3>1. Goto(r, q) /\ q.at = "finalize"
      BY <2>1 DEF Finalize
    <3> HIDE DEF q
    <3> QED
      BY <3>1
  <2>2. ASSUME NEW all \in BOOLEAN, NEW ids \in SUBSET Pending, Confirm(r, all, ids)
        PROVE  \E q : Goto(r, q) /\ q.at \in {"finalize", "stamp"}
    <3> DEFINE q == [at |-> "stamp", all |-> all, ids |-> ids]
    <3>1. Goto(r, q) /\ q.at = "stamp"
      BY <2>2 DEF Confirm
    <3> HIDE DEF q
    <3> QED
      BY <3>1
  <2> QED
    BY <2>1, <2>2
<1> QED
  BY <1>1, <1>2, PlanFacts, PlainMove

\* An uploaded transcript adds no plans, an added course takes the next id.
LEMMA UploadTraces ==
    ASSUME IInv, PlanInv, IInv', NEW r \in Reqs, NEW t \in Transcripts, Upload(r, t)
    PROVE  PlanInv'
<1> DEFINE q == Resolving({c.key : c \in t.courses} \ {None}, Storing(t))
<1>1. UNCHANGED <<planned, records>> /\ inputs' = inputs + 1 /\ Goto(r, q)
  BY DEF Upload
<1>2. q.at = "resolve" /\ q.then.at = "store"
  BY DEF Resolving, Storing
<1> HIDE DEF q
<1>3. req'[r] = q /\ \A u \in Reqs \ {r} : req'[u] = req[u]
  BY <1>1 DEF Goto, IInv
<1>4. Copies' \subseteq Copies
  <2>1. Held(q) = {}
    BY <1>2 DEF Held
  <2>2. \A u \in Reqs : Held(req'[u]) \subseteq Held(req[u])
    BY <1>3, <2>1
  <2> QED
    BY <1>1, <2>2 DEF Copies
<1>5. \A u \in Reqs, n \in Nat : Adds(req'[u], n) => Adds(req[u], n)
  BY <1>2, <1>3 DEF Adds
<1>6. inputs <= inputs' /\ Grows(records, records')
  BY <1>1, PlanFacts DEF IInv
<1> QED
  BY <1>4, <1>5, <1>6, QuietStep

LEMMA AddCourseTraces ==
    ASSUME IInv, PlanInv, IInv', NEW r \in Reqs, NEW x \in NewCourses, AddCourse(r, x)
    PROVE  PlanInv'
<1> DEFINE q == Resolving({x.key} \ {None}, [at |-> "plan", id |-> inputs + 1, course |-> x])
<1>1. UNCHANGED <<planned, records>> /\ inputs' = inputs + 1 /\ Goto(r, q) /\ At(r, "idle")
  BY DEF AddCourse, Start
<1>2. q.at = "resolve" /\ q.then.at = "plan" /\ q.then.id = inputs + 1
  BY DEF Resolving
<1> HIDE DEF q
<1>3. req'[r] = q /\ \A u \in Reqs \ {r} : req'[u] = req[u]
  BY <1>1 DEF Goto, IInv
<1>4. inputs \in Nat /\ None \notin Nat
  BY RulesAssumption DEF IInv
<1>5. Copies' = Copies
  <2>1. Held(q) = {} /\ Held(req[r]) = {}
    BY <1>1, <1>2 DEF Held, At
  <2>2. \A u \in Reqs : Held(req'[u]) = Held(req[u])
    BY <1>3, <2>1
  <2> QED
    BY <1>1, <2>2 DEF Copies
<1>6. \A u \in Reqs \ {r}, n \in Nat : Adds(req'[u], n) <=> Adds(req[u], n)
  BY <1>3
<1>7. \A n \in Nat : Adds(req'[r], n) <=> n = inputs + 1
  BY <1>2, <1>3 DEF Adds
<1>8. ASSUME NEW u \in Reqs, NEW n \in Nat, Adds(req'[u], n) PROVE Fresh(u, n)'
  <2>1. \A v \in Reqs \ {u} : ~Adds(req'[v], n)
    <3>1. CASE u = r
      <4>1. n = inputs + 1
        BY <1>7, <1>8, <3>1
      <4>2. \A v \in Reqs : ~Adds(req[v], n)
        BY <1>4, <4>1 DEF PlanInv, Fresh
      <4> QED
        BY <1>6, <3>1, <4>1, <4>2
    <3>2. CASE u # r
      <4>1. Fresh(u, n)
        BY <1>6, <1>8, <3>2 DEF PlanInv
      <4>2. n # inputs + 1
        BY <1>4, <4>1 DEF Fresh
      <4> QED
        BY <1>6, <1>7, <4>1, <4>2 DEF Fresh
    <3> QED
      BY <3>1, <3>2
  <2>2. /\ n \in 1 .. inputs + 1
        /\ \A p \in Copies : p.id # n
        /\ \A i \in DOMAIN records : records[i].plan # n
    <3>1. CASE u = r
      BY <1>4, <1>7, <1>8, <3>1 DEF PlanInv
    <3>2. CASE u # r
      <4>1. Fresh(u, n)
        BY <1>6, <1>8, <3>2 DEF PlanInv
      <4> QED
        BY <1>4, <4>1 DEF Fresh
    <3> QED
      BY <3>1, <3>2
  <2> QED
    BY <1>1, <1>5, <2>1, <2>2 DEF Fresh, Adds
<1>9. /\ Traced(records', Copies')
      /\ \A p \in Copies' : p.id \in 1 .. inputs'
      /\ \A i \in DOMAIN records' : records'[i].plan # None => records'[i].plan \in 1 .. inputs'
  BY <1>1, <1>4, <1>5 DEF PlanInv
<1> QED
  BY <1>8, <1>9 DEF PlanInv, Adds, Fresh, Copies

LEMMA TermTraces ==
    ASSUME IInv, PlanInv, IInv', NEW r \in Reqs, InsertTerm(r)
    PROVE  PlanInv'
<1>1. UNCHANGED <<planned, records, inputs>> /\ At(r, "resolve")
  BY DEF InsertTerm
<1>2. CASE Goto(r, Idle)
  BY <1>1, <1>2, PlanFacts, PlainMove DEF Idle
<1>3. CASE \E k \in req[r].missing : Goto(r, Resolved(req[r], k))
  <2>1. PICK k \in req[r].missing : Goto(r, Resolved(req[r], k))
    BY <1>3
  <2> DEFINE q == Resolved(req[r], k)
  <2>2. q.at = "resolve" /\ q.then = req[r].then
    BY DEF Resolved
  <2> HIDE DEF q
  <2>3. Held(q) \subseteq Copies /\ \A n \in Nat : Adds(q, n) => Adds(req[r], n)
    BY <1>1, <2>2, HoldsNothing DEF Adds, At
  <2>4. Goto(r, q)
    BY <2>1 DEF q
  <2> QED
    BY <1>1, <2>3, <2>4, PlanFacts, QuietMove
<1> QED
  BY <1>2, <1>3 DEF InsertTerm

LEMMA ProceedTraces ==
    ASSUME IInv, PlanInv, IInv', NEW r \in Reqs, Proceed(r)
    PROVE  PlanInv'
<1> DEFINE then == req[r].then
           q == IF then.at = "plan" /\ ~then.course.force /\ Activated(TermOf(then.course.key))
                  THEN [then EXCEPT !.at = "record"] ELSE then
<1>1. Goto(r, q) /\ UNCHANGED <<planned, records, inputs>> /\ At(r, "resolve")
  BY DEF Proceed
<1>2. Ready(then, terms, req[r].missing, inputs)
  BY <1>1 DEF IInv, Sound, At
<1>3. q = then \/ q.at = "record"
  <2>1. CASE then.at = "plan"
    <3>1. then = [at |-> then.at, id |-> then.id, course |-> then.course]
      BY <1>2, <2>1 DEF Ready
    <3>2. [then EXCEPT !.at = "record"].at = "record"
      BY <3>1
    <3> QED
      BY <3>2
  <2> QED
    BY <2>1
<1>4. q.at \in {"plan", "record", "store"} /\ (q.at = "plan" => q = then)
  BY <1>2, <1>3 DEF Ready
<1> HIDE DEF q
<1>5. \A n \in Nat : Adds(q, n) => Adds(req[r], n)
  BY <1>1, <1>4 DEF Adds, At
<1>6. Held(q) \subseteq Copies
  BY <1>4, HoldsNothing
<1> QED
  BY <1>1, <1>5, <1>6, PlanFacts, QuietMove

\* The record of a promotion has the key of the plan it comes from.
LEMMA PromoteTraces ==
    ASSUME IInv, PlanInv, IInv', NEW r \in Reqs, Promote(r)
    PROVE  PlanInv'
<1>1. PICK p \in req[r].due :
         \/ /\ p.hours
            /\ Write(r, Upsert(Current(p.id, p.term, p)))
            /\ Goto(r, [at |-> "fulfil", plan |-> p, due |-> req[r].due \ {p}])
         \/ /\ ~p.hours
            /\ Goto(r, Idle)
            /\ UNCHANGED <<records, undisturbed>>
  BY DEF Promote
<1>2. UNCHANGED <<planned, inputs>> /\ req[r].at = "promote"
  BY DEF Promote, At
<1>3. CASE Goto(r, Idle) /\ UNCHANGED records
  BY <1>2, <1>3, PlanFacts, PlainMove DEF Idle
<1>4. CASE /\ Write(r, Upsert(Current(p.id, p.term, p)))
           /\ Goto(r, [at |-> "fulfil", plan |-> p, due |-> req[r].due \ {p}])
  <2> DEFINE row == Current(p.id, p.term, p)
             q == [at |-> "fulfil", plan |-> p, due |-> req[r].due \ {p}]
             key == <<p.term, p.code>>
  <2>1. p \in Copies /\ Held(q) \subseteq Copies /\ \A n \in Nat : ~Adds(q, n)
    <3>1. Held(req[r]) = req[r].due /\ Held(q) = req[r].due
      BY <1>2 DEF Held
    <3> QED
      BY <3>1, AddsNothing DEF Copies
  <2>2. row.plan = p.id /\ row.was = {key} /\ Key(row) = key
    BY DEF Current, NewRow, Key
  <2>3. records' = Upsert(row) /\ Goto(r, q)
    BY <1>4 DEF Write
  <2> HIDE DEF row, q
  <2>4. CASE Taken(Key(row), records)
    <3>1. Grows(records, records')
      BY <2>3, <2>4, PlanFacts DEF Upsert
    <3> QED
      BY <1>2, <2>1, <2>3, <3>1, QuietMove
  <2>5. CASE ~Taken(Key(row), records)
    <3>1. /\ records' = Append(records, row) /\ records \in Seq(Row) /\ Len(records) \in Nat
          /\ DOMAIN records = 1 .. Len(records)
          /\ p.id \in 1 .. inputs /\ inputs \in Nat /\ None \notin Nat
      BY <2>1, <2>3, <2>5, InvFacts, RulesAssumption DEF Upsert, PlanInv
    <3>2. /\ DOMAIN records' = 1 .. Len(records) + 1
          /\ \A i \in DOMAIN records : records'[i] = records[i]
          /\ records'[Len(records) + 1] = row
      BY <3>1
    <3>3. DOMAIN req = Reqs /\ req'[r] = q /\ \A u \in Reqs \ {r} : req'[u] = req[u]
      BY <2>3 DEF Goto, IInv
    <3>4. Copies' \subseteq Copies
      <4>1. \A u \in Reqs : Held(req'[u]) \subseteq Copies
        BY <2>1, <3>3 DEF Copies
      <4> QED
        BY <1>2, <4>1 DEF Copies
    <3>5. IsFiniteSet(row.was)
      BY <2>2, FS_Singleton
    <3>6. \A i \in DOMAIN records : records[i].plan = p.id => key \in records[i].was
      BY <2>1 DEF PlanInv, Traced
    <3>7. \A c \in Copies : c.id = p.id => <<c.term, c.code>> = key
      BY <2>1 DEF PlanInv, Traced
    <3> HIDE DEF key
    <3>8. Traced(records', Copies')
      <4>1. \A i \in DOMAIN records' : IsFiniteSet(records'[i].was)
        BY <3>1, <3>2, <3>5, PlanFacts
      <4>2. ASSUME NEW i \in DOMAIN records', NEW j \in DOMAIN records',
                   records'[i].plan # None, records'[i].plan = records'[j].plan
            PROVE  records'[i].was \cap records'[j].was # {}
        <5>1. CASE i \in DOMAIN records /\ j \in DOMAIN records
          BY <3>2, <4>2, <5>1 DEF PlanInv, Traced
        <5>2. CASE records'[i] = row \/ records'[j] = row
          <6>1. records'[i].plan = p.id /\ records'[j].plan = p.id
            BY <2>2, <4>2, <5>2
          <6>2. \A k \in DOMAIN records' : records'[k].plan = p.id => key \in records'[k].was
            BY <2>2, <3>1, <3>2, <3>6
          <6> QED
            BY <6>1, <6>2
        <5> QED
          BY <3>1, <3>2, <5>1, <5>2
      <4>3. ASSUME NEW i \in DOMAIN records', NEW c \in Copies', records'[i].plan = c.id
            PROVE  <<c.term, c.code>> \in records'[i].was
        <5>1. CASE i \in DOMAIN records
          BY <3>2, <3>4, <4>3, <5>1 DEF PlanInv, Traced
        <5>2. CASE records'[i] = row
          BY <2>2, <3>4, <3>7, <4>3, <5>2
        <5> QED
          BY <3>1, <3>2, <5>1, <5>2
      <4>4. \A c, d \in Copies' : c.id = d.id => c.term = d.term /\ c.code = d.code
        BY <3>4 DEF PlanInv, Traced
      <4> QED
        BY <4>1, <4>2, <4>3, <4>4 DEF Traced
    <3>9. /\ \A c \in Copies' : c.id \in 1 .. inputs'
          /\ \A i \in DOMAIN records' : records'[i].plan # None => records'[i].plan \in 1 .. inputs'
      BY <1>2, <2>2, <3>1, <3>2, <3>4 DEF PlanInv
    <3>10. \A u \in Reqs, n \in Nat : Adds(req'[u], n) => Adds(req[u], n)
      BY <2>1, <3>3
    <3>11. ASSUME NEW u \in Reqs, NEW n \in Nat, Adds(req'[u], n) PROVE Fresh(u, n)'
      <4>1. Fresh(u, n) /\ n # p.id
        BY <2>1, <3>10, <3>11 DEF PlanInv, Fresh
      <4>2. \A i \in DOMAIN records' : records'[i].plan # n
        BY <2>2, <3>1, <3>2, <4>1 DEF Fresh
      <4> QED
        BY <1>2, <3>4, <3>10, <4>1, <4>2 DEF Fresh, Adds
    <3> QED
      BY <3>8, <3>9, <3>11 DEF PlanInv, Adds, Fresh, Copies
  <2> QED
    BY <2>4, <2>5
<1> QED
  BY <1>1, <1>3, <1>4

LEMMA FulfilTraces ==
    ASSUME IInv, PlanInv, IInv', NEW r \in Reqs, Fulfil(r)
    PROVE  PlanInv'
<1> DEFINE q == Remaining(req[r].due)
<1>1. planned' \subseteq planned /\ UNCHANGED <<records, inputs>> /\ Goto(r, q) /\ req[r].at = "fulfil"
  BY DEF Fulfil, At
<1>2. q.at \in {"idle", "promote"} /\ (q.at = "promote" => q.due = req[r].due)
  BY DEF Remaining, Idle
<1> HIDE DEF q
<1>3. Held(q) \subseteq Held(req[r])
  BY <1>1, <1>2 DEF Held
<1>4. Held(q) \subseteq Copies /\ \A n \in Nat : ~Adds(q, n)
  BY <1>2, <1>3, AddsNothing DEF Copies
<1> QED
  BY <1>1, <1>4, PlanFacts, QuietMove

\* The row a request adds is the first copy under its id.
LEMMA AddPlannedTraces ==
    ASSUME IInv, PlanInv, IInv', NEW r \in Reqs, AddPlanned(r)
    PROVE  PlanInv'
<1> DEFINE x == req[r].course
           row == [id |-> req[r].id, term |-> TermOf(x.key), code |-> x.code,
                   catalog |-> x.catalog, hours |-> x.hours]
<1>1. /\ planned' = planned \cup {row} /\ Goto(r, Idle) /\ UNCHANGED <<records, inputs>>
      /\ req[r].at = "plan" /\ row.id = req[r].id
  BY DEF AddPlanned, At
<1>2. req[r].id \in 1 .. inputs /\ inputs \in Nat
  BY <1>1 DEF IInv, Sound, Ready
<1> HIDE DEF row
<1>3. Fresh(r, row.id)
  BY <1>1, <1>2 DEF PlanInv, Adds
<1>4. DOMAIN req = Reqs /\ req'[r] = Idle /\ \A u \in Reqs \ {r} : req'[u] = req[u]
  BY <1>1 DEF Goto, IInv
<1>5. Copies' \subseteq Copies \cup {row}
  <2>1. Held(Idle) = {}
    BY DEF Held, Idle
  <2>2. \A u \in Reqs : Held(req'[u]) \subseteq Held(req[u])
    BY <1>4, <2>1
  <2> QED
    BY <1>1, <2>2 DEF Copies
<1>6. \A c \in Copies : c.id # row.id
  BY <1>3 DEF Fresh
<1>7. Traced(records', Copies')
  <2>1. \A i \in DOMAIN records : records[i].plan # row.id
    BY <1>3 DEF Fresh
  <2>2. ASSUME NEW i \in DOMAIN records', NEW c \in Copies', records'[i].plan = c.id
        PROVE  <<c.term, c.code>> \in records'[i].was
    BY <1>1, <1>5, <2>1, <2>2 DEF PlanInv, Traced
  <2>3. \A c, d \in Copies' : c.id = d.id => c.term = d.term /\ c.code = d.code
    BY <1>5, <1>6 DEF PlanInv, Traced
  <2>4. /\ \A i \in DOMAIN records' : IsFiniteSet(records'[i].was)
        /\ \A i, j \in DOMAIN records' :
              records'[i].plan # None /\ records'[i].plan = records'[j].plan
                  => records'[i].was \cap records'[j].was # {}
    BY <1>1 DEF PlanInv, Traced
  <2> QED
    BY <2>2, <2>3, <2>4 DEF Traced
<1>8. /\ \A c \in Copies' : c.id \in 1 .. inputs'
      /\ \A i \in DOMAIN records' : records'[i].plan # None => records'[i].plan \in 1 .. inputs'
  BY <1>1, <1>2, <1>5 DEF PlanInv
<1>9. \A n \in Nat : ~Adds(Idle, n)
  BY AddsNothing DEF Idle
<1>10. ASSUME NEW u \in Reqs, NEW n \in Nat, Adds(req'[u], n) PROVE Fresh(u, n)'
  <2>1. u # r /\ Adds(req[u], n)
    BY <1>4, <1>9, <1>10
  <2>2. Fresh(u, n)
    BY <2>1 DEF PlanInv
  <2>3. n # row.id
    BY <1>3, <2>1 DEF Fresh
  <2>4. \A v \in Reqs \ {u} : ~Adds(req'[v], n)
    BY <1>4, <1>9, <2>2 DEF Fresh
  <2> QED
    BY <1>1, <1>5, <2>2, <2>3, <2>4 DEF Fresh, Adds
<1> QED
  BY <1>7, <1>8, <1>10 DEF PlanInv, Adds, Fresh, Copies

\* Requests that write records without a plan, or none.
LEMMA AddRecordTraces ==
    ASSUME IInv, PlanInv, IInv', NEW r \in Reqs, AddRecord(r)
    PROVE  PlanInv'
<1> DEFINE x == req[r].course
           row == Current(None, TermOf(x.key), x)
<1>1. /\ records' = IF x.hours THEN Upsert(row) ELSE records
      /\ Goto(r, Idle) /\ UNCHANGED <<planned, inputs>>
  BY DEF AddRecord, Write
<1>2. row.plan = None /\ IsFiniteSet(row.was)
  BY FS_Singleton DEF Current, NewRow
<1> HIDE DEF row
<1>3. Grows(records, records')
  BY <1>1, <1>2, PlanFacts, UpsertGrows
<1> QED
  BY <1>1, <1>3, PlainMove DEF Idle

LEMMA StoreCourseTraces ==
    ASSUME IInv, PlanInv, IInv', NEW r \in Reqs, StoreCourse(r)
    PROVE  PlanInv'
<1>1. PICK c \in req[r].parsed.courses :
         /\ Write(r, Upsert(NewRow(None, TermOf(c.key), c.code, Match(c.code), req[r].parsed.inst,
                                   c.grade, c.status, FALSE)))
         /\ Goto(r, IF req[r].parsed.courses = {c} THEN Idle
                    ELSE Storing([req[r].parsed EXCEPT !.courses = @ \ {c}]))
  BY DEF StoreCourse
<1> DEFINE row == NewRow(None, TermOf(c.key), c.code, Match(c.code), req[r].parsed.inst,
                         c.grade, c.status, FALSE)
           q == IF req[r].parsed.courses = {c} THEN Idle
                ELSE Storing([req[r].parsed EXCEPT !.courses = @ \ {c}])
<1>2. records' = Upsert(row) /\ Goto(r, q) /\ UNCHANGED <<planned, inputs>>
  BY <1>1 DEF StoreCourse, Write
<1>3. row.plan = None /\ IsFiniteSet(row.was)
  BY FS_Singleton DEF NewRow
<1>4. q.at \in {"idle", "store"}
  BY DEF Idle, Storing
<1> HIDE DEF row, q
<1>5. Grows(records, records')
  BY <1>2, <1>3, PlanFacts, UpsertGrows
<1> QED
  BY <1>2, <1>4, <1>5, PlainMove

\* Completing, stamping, clearing and excluding leave plan and was alone.
LEMMA CompleteTraces ==
    ASSUME IInv, PlanInv, IInv', NEW r \in Reqs, Complete(r)
    PROVE  PlanInv'
<1> DEFINE S == [records EXCEPT ![req[r].id].grade = req[r].grade,
                                ![req[r].id].status = "completed"]
<1>1. /\ records' = records \/ records' = S
      /\ Goto(r, Idle) /\ UNCHANGED <<planned, inputs>>
  BY DEF Complete, Write
<1>2. DOMAIN S = DOMAIN records
      /\ \A i \in DOMAIN records : S[i].plan = records[i].plan /\ S[i].was = records[i].was
  BY InvFacts DEF Row
<1> HIDE DEF S
<1>3. records \in Seq(Row) /\ records' \in Seq(Row)
  BY DEF IInv, RowsOK
<1>4. Grows(records, records')
  BY <1>1, <1>2, <1>3, PlanFacts, RemarkGrows
<1> QED
  BY <1>1, <1>4, PlainMove DEF Idle

LEMMA StampTraces ==
    ASSUME IInv, PlanInv, IInv', NEW r \in Reqs, Stamp(r)
    PROVE  PlanInv'
<1> DEFINE ids == IF req[r].all THEN Pending ELSE req[r].ids
           S == [i \in DOMAIN records |->
                    IF i \in ids THEN [records[i] EXCEPT !.confirmed = TRUE] ELSE records[i]]
           q == [at |-> "reconcile"]
<1>1. records' = S /\ Goto(r, q) /\ UNCHANGED <<planned, inputs>>
  BY DEF Stamp, Write
<1> HIDE DEF ids
<1>2. DOMAIN S = DOMAIN records
      /\ \A i \in DOMAIN records : S[i].plan = records[i].plan /\ S[i].was = records[i].was
  BY InvFacts DEF Row
<1> HIDE DEF S
<1>3. records \in Seq(Row) /\ records' \in Seq(Row)
  BY DEF IInv, RowsOK
<1>4. Grows(records, records')
  BY <1>1, <1>2, <1>3, PlanFacts, RemarkGrows
<1> QED
  BY <1>1, <1>4, PlainMove

LEMMA ClearTraces ==
    ASSUME IInv, PlanInv, IInv', NEW r \in Reqs, Clear(r)
    PROVE  PlanInv'
<1>1. PICK plan \in Plans(req[r].rows, terms) : Goto(r, [at |-> "exclude", plan |-> plan])
  BY DEF Clear
<1> DEFINE S == Cleared(req[r].rows)
           q == [at |-> "exclude", plan |-> plan]
<1>2. records' = S /\ Goto(r, q) /\ UNCHANGED <<planned, inputs>>
  BY <1>1 DEF Clear, Write
<1>3. DOMAIN S = DOMAIN records
      /\ \A i \in DOMAIN records : S[i].plan = records[i].plan /\ S[i].was = records[i].was
  BY InvFacts DEF Row, Cleared
<1>4. q.at = "exclude"
  OBVIOUS
<1> HIDE DEF S, q
<1>5. records \in Seq(Row) /\ records' \in Seq(Row)
  BY DEF IInv, RowsOK
<1>6. Grows(records, records')
  BY <1>2, <1>3, <1>5, PlanFacts, RemarkGrows
<1> QED
  BY <1>2, <1>4, <1>6, PlainMove

LEMMA ExcludeTraces ==
    ASSUME IInv, PlanInv, IInv', NEW r \in Reqs, Exclude(r)
    PROVE  PlanInv'
<1>1. PICK n \in DOMAIN req[r].plan :
         /\ Write(r, [records EXCEPT ![n].by = req[r].plan[n]])
         /\ Goto(r, [at |-> "exclude",
                     plan |-> [j \in DOMAIN req[r].plan \ {n} |-> req[r].plan[j]]])
  BY DEF Exclude
<1> DEFINE S == [records EXCEPT ![n].by = req[r].plan[n]]
           q == [at |-> "exclude",
                 plan |-> [j \in DOMAIN req[r].plan \ {n} |-> req[r].plan[j]]]
<1>2. records' = S /\ Goto(r, q) /\ UNCHANGED <<planned, inputs>>
  BY <1>1 DEF Exclude, Write
<1>3. DOMAIN S = DOMAIN records
      /\ \A i \in DOMAIN records : S[i].plan = records[i].plan /\ S[i].was = records[i].was
  BY InvFacts DEF Row
<1>4. q.at = "exclude"
  OBVIOUS
<1> HIDE DEF S, q
<1>5. records \in Seq(Row) /\ records' \in Seq(Row)
  BY DEF IInv, RowsOK
<1>6. Grows(records, records')
  BY <1>2, <1>3, <1>5, PlanFacts, RemarkGrows
<1> QED
  BY <1>2, <1>4, <1>6, PlainMove

LEMMA OthersTrace ==
    ASSUME IInv, PlanInv, IInv', NEW r \in Reqs, ReadConfirmed(r) \/ AnswerConfirm(r) \/ Fail(r)
    PROVE  PlanInv'
<1>1. UNCHANGED <<planned, inputs, records>>
  BY DEF ReadConfirmed, AnswerConfirm, Fail
<1>2. CASE ReadConfirmed(r)
  <2> DEFINE q == [at |-> "clear", rows |-> ConfirmedRows(records)]
  <2>1. Goto(r, q) /\ q.at = "clear"
    BY <1>2 DEF ReadConfirmed
  <2> HIDE DEF q
  <2> QED
    BY <1>1, <2>1, PlanFacts, PlainMove
<1>3. CASE Goto(r, Idle)
  BY <1>1, <1>3, PlanFacts, PlainMove DEF Idle
<1> QED
  BY <1>2, <1>3 DEF AnswerConfirm, Fail

\* An edit remembers the key the row had.
LEMMA RekeyTraces ==
    ASSUME IInv, PlanInv, IInv', NEW i \in DOMAIN records, NEW term, NEW code,
           NEW rest \in Row, rest.was = records[i].was, rest.plan = records[i].plan,
           Rekey(i, term, code, rest)
    PROVE  PlanInv'
<1>0. PICK row : row = [rest EXCEPT !.term = term, !.code = code, !.was = @ \cup {<<term, code>>}]
  OBVIOUS
<1>1. /\ records' = [records EXCEPT ![i] = row] /\ UNCHANGED <<planned, req, inputs>>
  BY <1>0 DEF Rekey, Write
<1>2. row.plan = records[i].plan /\ row.was = records[i].was \cup {<<term, code>>}
  BY <1>0 DEF Row
<1>3. IsFiniteSet(records[i].was \cup {<<term, code>>})
  BY PlanFacts, FS_AddElement
<1>4. /\ records \in Seq(Row) /\ Len(records') = Len(records) /\ Len(records) \in Nat
      /\ DOMAIN records = 1 .. Len(records)
      /\ records'[i] = row /\ \A j \in DOMAIN records \ {i} : records'[j] = records[j]
  BY <1>1, InvFacts
<1>5. ASSUME NEW j \in DOMAIN records
      PROVE  /\ records'[j].plan = records[j].plan /\ records[j].was \subseteq records'[j].was
             /\ IsFiniteSet(records'[j].was)
  <2>1. CASE j = i
    BY <1>2, <1>3, <1>4, <2>1
  <2>2. CASE j # i
    BY <1>4, <2>2, PlanFacts
  <2> QED
    BY <2>1, <2>2
<1>6. Grows(records, records')
  BY <1>4, <1>5 DEF Grows
<1> QED
  BY <1>1, <1>6, NobodyAdds

LEMMA EditTraces ==
    ASSUME IInv, PlanInv, IInv', NEW i \in DOMAIN records, NEW x \in Edits,
           EditCourse(i, x) \/ ReviewEdit(i, x)
    PROVE  PlanInv'
<1> DEFINE rest == [records[i] EXCEPT !.grade = x.grade, !.status = x.status]
<1>1. records[i] \in Row
  BY InvFacts
<1>2. /\ x.grade \in Letters \cup {None}
      /\ x.status \in {"completed", "in_progress", "dropped"}
  BY RecordsAssumption
<1>3. rest \in Row /\ rest.was = records[i].was /\ rest.plan = records[i].plan
  BY <1>1, <1>2 DEF Row
<1>4. PICK term, code : Rekey(i, term, code, rest)
  BY DEF EditCourse, ReviewEdit
<1> HIDE DEF rest
<1> QED
  BY <1>3, <1>4, RekeyTraces

LEMMA NextTraces ==
    ASSUME IInv, PlanInv, IInv', [Next]_vars
    PROVE  PlanInv'
<1>1. ASSUME NEW r \in Reqs, Begin(r) PROVE PlanInv'
  BY <1>1, LoadPageTraces, BeginsTrace, UploadTraces, AddCourseTraces DEF Begin
<1>2. ASSUME NEW r \in Reqs, Step(r) PROVE PlanInv'
  BY <1>2, PromoteTraces, FulfilTraces, TermTraces, ProceedTraces, AddPlannedTraces,
     AddRecordTraces, CompleteTraces, StoreCourseTraces, StampTraces, OthersTrace,
     ClearTraces, ExcludeTraces DEF Step
<1>3. ASSUME NEW r \in Reqs, Fail(r) PROVE PlanInv'
  BY <1>3, OthersTrace
<1>4. ASSUME NEW i \in DOMAIN records, NEW x \in Edits, EditCourse(i, x) \/ ReviewEdit(i, x)
      PROVE  PlanInv'
  BY <1>4, EditTraces
<1>5. CASE Tomorrow \/ (\E p \in planned : RemovePlanned(p)) \/ UNCHANGED vars
  <2>1. UNCHANGED <<req, inputs, records>> /\ planned' \subseteq planned
    BY <1>5 DEF Tomorrow, RemovePlanned, vars
  <2> QED
    BY <2>1, PlanFacts, NobodyAdds
<1> QED
  BY <1>1, <1>2, <1>3, <1>4, <1>5 DEF Next

LEMMA InitTraces ==
    ASSUME Init
    PROVE  PlanInv
<1>1. records = <<>> /\ planned = {} /\ inputs = 0 /\ \A r \in Reqs : req[r] = Idle
  BY DEF Init
<1>2. Copies = {}
  BY <1>1 DEF Copies, Held, Idle
<1>3. \A r \in Reqs, n \in Nat : ~Adds(req[r], n)
  BY <1>1 DEF Adds, Idle
<1> QED
  BY <1>1, <1>2, <1>3 DEF PlanInv, Traced

LEMMA PlanInvariance == Spec => []PlanInv
<1>1. Init => PlanInv
  BY InitTraces
<1>2. ASSUME IInv, IInv', PlanInv, [Next]_vars PROVE PlanInv'
  BY <1>2, NextTraces
<1> QED
  BY <1>1, <1>2, Invariance, PTL DEF Spec

\* lifecycle.py: however page loads overlap, fail and start again, a planned row
\* becomes two records only if the student gave one of them another key.
THEOREM PromotedAtMostOnce == Spec => []PromotedOnce
<1>1. ASSUME IInv, PlanInv PROVE PromotedOnce
  <2> SUFFICES ASSUME NEW i \in DOMAIN records, NEW j \in DOMAIN records, i # j,
                      records[i].plan # None, records[i].plan = records[j].plan,
                      \A k \in {i, j} : ~(Cardinality(records[k].was) > 1)
               PROVE  FALSE
    BY DEF PromotedOnce
  <2>1. ASSUME NEW k \in {i, j} PROVE records[k].was = {Key(records[k])}
    <3>1. Key(records[k]) \in records[k].was /\ IsFiniteSet(records[k].was)
      BY <1>1, InvFacts, PlanFacts DEF RowsOK
    <3>2. ASSUME NEW other \in records[k].was, other # Key(records[k]) PROVE FALSE
      <4>1. Cardinality({other, Key(records[k])}) = 2 /\ IsFiniteSet({other, Key(records[k])})
        <5> DEFINE key == Key(records[k])
        <5>1. Cardinality({other}) = 1 /\ IsFiniteSet({other})
          BY FS_Singleton
        <5>2. key \notin {other} /\ {other, key} = {other} \cup {key}
          BY <3>2
        <5> HIDE DEF key
        <5>3. /\ IsFiniteSet({other} \cup {key})
              /\ Cardinality({other} \cup {key}) = Cardinality({other}) + 1
          BY <5>1, <5>2, FS_AddElement
        <5> QED
          BY <5>1, <5>2, <5>3 DEF key
      <4>2. Cardinality({other, Key(records[k])}) <= Cardinality(records[k].was)
        BY <3>1, <3>2, FS_Subset
      <4>3. Cardinality(records[k].was) \in Nat
        BY <3>1, FS_CardinalityType
      <4> QED
        BY <4>1, <4>2, <4>3
    <3> QED
      BY <3>1, <3>2
  <2>2. records[i].was \cap records[j].was # {}
    BY <1>1 DEF PlanInv, Traced
  <2>3. Key(records[i]) = Key(records[j])
    BY <2>1, <2>2
  <2> QED
    BY <1>1, <2>3, InvFacts DEF RowsOK
<1> QED
  BY <1>1, Invariance, PlanInvariance, PTL

-----------------------------------------------------------------------------
(* What a confirm is doing: the invariant behind ReconciledIsPlan. *)

Excluded(R) == {i \in DOMAIN R : R[i].by # None}

\* The exclusions written and the ones still to write.
Whole(plan, R) ==
    [i \in Excluded(R) \cup DOMAIN plan |-> IF i \in DOMAIN plan THEN plan[i] ELSE R[i].by]

\* A confirm that has read the rows as they are, or has planned over them.
OnPlan(q, R, T) ==
    \/ q.at = "clear" /\ q.rows = ConfirmedRows(R)
    \/ q.at = "exclude" /\ Whole(q.plan, R) \in Plans(ConfirmedRows(R), T)

ReconcileInv == \A r \in undisturbed : OnPlan(req[r], records, terms)

\* The policy does not look at exclusions, nor at terms no row is in.
LEMMA PlansSame ==
    ASSUME NEW R, NEW S, NEW T, NEW U, DOMAIN S = DOMAIN R,
           \A i \in DOMAIN R : /\ S[i].inst = R[i].inst /\ S[i].term = R[i].term
                               /\ S[i].catalog = R[i].catalog /\ S[i].code = R[i].code
                               /\ S[i].grade = R[i].grade
                               /\ R[i].term # 0 => U[R[i].term] = T[R[i].term]
    PROVE  Plans(S, U) = Plans(R, T)
<1>1. Considered(S) = Considered(R)
  BY DEF Considered
<1>2. \A i \in DOMAIN R : GroupKey(S[i]) = GroupKey(R[i])
  BY DEF GroupKey
<1>3. \A i \in DOMAIN R : Replaceable(S[i]) <=> Replaceable(R[i])
  BY DEF Replaceable
<1>4. Considered(R) \subseteq DOMAIN R /\ \A i \in Considered(R) : R[i].term # 0
  BY DEF Considered
<1>5. Groups(S) = Groups(R)
  BY <1>1, <1>2, <1>4 DEF Groups
<1>6. \A key : Group(S, key) = Group(R, key) /\ Group(R, key) \subseteq Considered(R)
  BY <1>1, <1>2, <1>4 DEF Group
<1>7. ASSUME NEW key PROVE Latest(S, U, key) = Latest(R, T, key)
  <2>1. \A i \in Group(R, key) : S[i].term = R[i].term /\ U[R[i].term] = T[R[i].term]
    BY <1>4, <1>6
  <2> QED
    BY <1>6, <2>1 DEF Latest
<1>8. ASSUME NEW last PROVE Plan(S, last) = Plan(R, last)
  <2>1. {j \in Considered(S) : last[GroupKey(S[j])] # j /\ Replaceable(S[j])}
          = {j \in Considered(R) : last[GroupKey(R[j])] # j /\ Replaceable(R[j])}
    BY <1>1, <1>2, <1>3, <1>4
  <2> DEFINE D == {j \in Considered(R) : last[GroupKey(R[j])] # j /\ Replaceable(R[j])}
  <2>2. Plan(S, last) = [i \in D |-> last[GroupKey(S[i])]]
    BY <2>1 DEF Plan
  <2>3. Plan(R, last) = [i \in D |-> last[GroupKey(R[i])]]
    BY DEF Plan
  <2>4. \A i \in D : GroupKey(S[i]) = GroupKey(R[i])
    BY <1>2, <1>4
  <2> HIDE DEF D
  <2> QED
    BY <2>2, <2>3, <2>4
<1>9. {f \in [Groups(S) -> DOMAIN S] : \A key \in Groups(S) : f[key] \in Latest(S, U, key)}
        = {f \in [Groups(R) -> DOMAIN R] : \A key \in Groups(R) : f[key] \in Latest(R, T, key)}
  BY <1>5, <1>7
<1> QED
  BY <1>8, <1>9 DEF Plans

\* The rows are the same but for their exclusions.
Reexcluded(R, S) ==
    DOMAIN S = DOMAIN R /\ \A i \in DOMAIN R : S[i] = [R[i] EXCEPT !.by = S[i].by]

LEMMA ConfirmedSame ==
    ASSUME NEW R, NEW S, NEW T \in Seq(TermKeys), NEW U \in Seq(TermKeys),
           Extends(T, U), RowsOK(R, Len(T)), Reexcluded(R, S)
    PROVE  Plans(ConfirmedRows(S), U) = Plans(ConfirmedRows(R), T)
<1>1. ASSUME NEW i \in DOMAIN R
      PROVE  /\ S[i].inst = R[i].inst /\ S[i].term = R[i].term /\ S[i].catalog = R[i].catalog
             /\ S[i].code = R[i].code /\ S[i].grade = R[i].grade /\ S[i].confirmed = R[i].confirmed
             /\ R[i].term # 0 => U[R[i].term] = T[R[i].term]
  <2>1. R[i] \in Row /\ Len(T) \in Nat /\ R[i].term \in 0 .. Len(T)
    BY DEF RowsOK
  <2>2. R[i].term # 0 => U[R[i].term] = T[R[i].term]
    BY <2>1 DEF Extends
  <2>3. S[i] = [R[i] EXCEPT !.by = S[i].by]
    BY DEF Reexcluded
  <2> QED
    BY <2>1, <2>2, <2>3 DEF Row
<1>2. {j \in DOMAIN S : S[j].confirmed} = {j \in DOMAIN R : R[j].confirmed}
  BY <1>1 DEF Reexcluded
<1> DEFINE C == {j \in DOMAIN R : R[j].confirmed}
<1>3. ConfirmedRows(S) = [i \in C |-> S[i]] /\ ConfirmedRows(R) = [i \in C |-> R[i]]
  BY <1>2 DEF ConfirmedRows
<1>4. C \subseteq DOMAIN R
  OBVIOUS
<1> HIDE DEF C
<1>5. DOMAIN ConfirmedRows(S) = DOMAIN ConfirmedRows(R) /\ DOMAIN ConfirmedRows(R) = C
      /\ \A i \in C : ConfirmedRows(S)[i] = S[i] /\ ConfirmedRows(R)[i] = R[i]
  BY <1>3
<1> DEFINE P == ConfirmedRows(R)
           Q == ConfirmedRows(S)
<1>6. ASSUME NEW i \in DOMAIN P
      PROVE  /\ Q[i].inst = P[i].inst /\ Q[i].term = P[i].term
             /\ Q[i].catalog = P[i].catalog /\ Q[i].code = P[i].code
             /\ Q[i].grade = P[i].grade
             /\ P[i].term # 0 => U[P[i].term] = T[P[i].term]
  <2>1. i \in DOMAIN R /\ P[i] = R[i] /\ Q[i] = S[i]
    BY <1>4, <1>5
  <2> HIDE DEF P, Q
  <2> QED
    BY <1>1, <2>1
<1>7. DOMAIN Q = DOMAIN P
  BY <1>5
<1> HIDE DEF P, Q
<1>8. Plans(Q, U) = Plans(P, T)
  BY <1>6, <1>7, PlansSame
<1> QED
  BY <1>8 DEF P, Q

\* One request goes on: the others are still on their plan, or disturbed.
LEMMA ReconcileStep ==
    ASSUME IInv, ReconcileInv, IInv', NEW r, \A u \in Reqs \ {r} : req'[u] = req[u],
           Extends(terms, terms'), undisturbed' \subseteq undisturbed \cup {r},
           records' = records \/ undisturbed' \subseteq {r},
           r \in undisturbed' => OnPlan(req'[r], records', terms')
    PROVE  ReconcileInv'
<1>1. ASSUME NEW u \in undisturbed', u # r PROVE OnPlan(req'[u], records', terms')
  <2>1. u \in undisturbed /\ u \in Reqs /\ records' = records /\ req'[u] = req[u]
    BY <1>1 DEF IInv
  <2>2. OnPlan(req[u], records, terms)
    BY <2>1 DEF ReconcileInv
  <2>3. Plans(ConfirmedRows(records), terms') = Plans(ConfirmedRows(records), terms)
    <3>1. Reexcluded(records, records)
      BY InvFacts, ByItself DEF Reexcluded
    <3>2. RowsOK(records, Len(terms)) /\ terms \in Seq(TermKeys) /\ terms' \in Seq(TermKeys)
      BY DEF IInv
    <3> QED
      BY <3>1, <3>2, ConfirmedSame
  <2> QED
    BY <2>1, <2>2, <2>3 DEF OnPlan
<1> QED
  BY <1>1 DEF ReconcileInv

\* A request that is not reconciling writes or reads.
LEMMA OtherStep ==
    ASSUME IInv, ReconcileInv, IInv', NEW r \in Reqs, NEW q, Goto(r, q),
           req[r].at \notin {"clear", "exclude"}, Extends(terms, terms'),
           UNCHANGED <<records, undisturbed>> \/ \E rows : Write(r, rows)
    PROVE  ReconcileInv'
<1>1. r \notin undisturbed
  BY DEF ReconcileInv, OnPlan
<1>2. undisturbed' \subseteq undisturbed /\ (records' = records \/ undisturbed' \subseteq {r})
  BY DEF Write
<1>3. \A u \in Reqs \ {r} : req'[u] = req[u]
  BY DEF Goto, IInv
<1> QED
  BY <1>1, <1>2, <1>3, ReconcileStep

LEMMA BeginsReconcile ==
    ASSUME IInv, ReconcileInv, IInv', NEW r \in Reqs, Begin(r)
    PROVE  ReconcileInv'
<1>1. Extends(terms, terms)
  BY InvFacts
<1>2. UNCHANGED <<records, undisturbed, terms>> /\ req[r].at = "idle"
  BY DEF Begin, LoadPage, AddCourse, Finalize, Upload, Confirm, Start, At
<1>3. \E q : Goto(r, q)
  BY Zenon DEF Begin, LoadPage, AddCourse, Finalize, Upload, Confirm
<1> QED
  BY <1>1, <1>2, <1>3, OtherStep

LEMMA WorksReconcile ==
    ASSUME IInv, ReconcileInv, IInv', NEW r \in Reqs,
           \/ Promote(r) \/ Fulfil(r) \/ Proceed(r) \/ AddPlanned(r) \/ AddRecord(r)
           \/ Complete(r) \/ StoreCourse(r) \/ Stamp(r)
    PROVE  ReconcileInv'
<1>1. Extends(terms, terms) /\ terms' = terms
  BY InvFacts DEF Promote, Fulfil, Proceed, AddPlanned, AddRecord, Complete, StoreCourse, Stamp
<1>2. req[r].at \notin {"clear", "exclude"}
  BY DEF Promote, Fulfil, Proceed, AddPlanned, AddRecord, Complete, StoreCourse, Stamp, At
<1>3. UNCHANGED <<records, undisturbed>> \/ \E rows : Write(r, rows)
  BY Zenon DEF Promote, Fulfil, Proceed, AddPlanned, AddRecord, Complete, StoreCourse, Stamp
<1>4. \E q : Goto(r, q)
  BY Zenon DEF Promote, Fulfil, Proceed, AddPlanned, AddRecord, Complete, StoreCourse, Stamp
<1> QED
  BY <1>1, <1>2, <1>3, <1>4, OtherStep

LEMMA TermReconciles ==
    ASSUME IInv, ReconcileInv, IInv', NEW r \in Reqs, InsertTerm(r)
    PROVE  ReconcileInv'
<1>1. terms' = terms \/ \E k \in req[r].missing : terms' = Append(terms, k)
  BY DEF InsertTerm
<1>2. Extends(terms, terms')
  <2>1. terms \in Seq(TermKeys) /\ \A k \in req[r].missing : k \in TermKeys
    BY DEF IInv, Sound, InsertTerm, At
  <2> QED
    BY <1>1, <2>1 DEF Extends
<1>3. UNCHANGED <<records, undisturbed>> /\ req[r].at = "resolve"
  BY DEF InsertTerm, At
<1>4. \E q : Goto(r, q)
  BY Zenon DEF InsertTerm
<1> QED
  BY <1>2, <1>3, <1>4, OtherStep

\* Giving up and answering end the reconciliation.
LEMMA EndsReconcile ==
    ASSUME IInv, ReconcileInv, IInv', NEW r \in Reqs, AnswerConfirm(r) \/ Fail(r)
    PROVE  ReconcileInv'
<1>1. Goto(r, Idle) /\ UNCHANGED <<records, terms>> /\ undisturbed' = undisturbed \ {r}
  BY DEF AnswerConfirm, Fail
<1>2. \A u \in Reqs \ {r} : req'[u] = req[u]
  BY <1>1 DEF Goto, IInv
<1>3. Extends(terms, terms')
  BY <1>1, InvFacts
<1> QED
  BY <1>1, <1>2, <1>3, ReconcileStep

LEMMA ReadReconciles ==
    ASSUME IInv, ReconcileInv, IInv', NEW r \in Reqs, ReadConfirmed(r)
    PROVE  ReconcileInv'
<1> DEFINE q == [at |-> "clear", rows |-> ConfirmedRows(records)]
<1>1. Goto(r, q) /\ UNCHANGED <<records, terms>> /\ undisturbed' = undisturbed \cup {r}
  BY DEF ReadConfirmed
<1>2. OnPlan(q, records, terms)
  BY DEF OnPlan
<1> HIDE DEF q
<1>3. req'[r] = q /\ \A u \in Reqs \ {r} : req'[u] = req[u]
  BY <1>1 DEF Goto, IInv
<1>4. Extends(terms, terms')
  BY <1>1, InvFacts
<1> QED
  BY <1>1, <1>2, <1>3, <1>4, ReconcileStep

\* What the read found excluded is all there is: nothing is left of an earlier run.
LEMMA ClearReconciles ==
    ASSUME IInv, ReconcileInv, IInv', NEW r \in Reqs, Clear(r)
    PROVE  ReconcileInv'
<1> DEFINE rows == req[r].rows
           S == Cleared(rows)
<1>1. PICK plan \in Plans(rows, terms) : Goto(r, [at |-> "exclude", plan |-> plan])
  BY DEF Clear
<1> DEFINE q == [at |-> "exclude", plan |-> plan]
<1>2. Write(r, S) /\ terms' = terms /\ req[r].at = "clear"
  BY DEF Clear, At
<1>3. records' = S /\ undisturbed' \subseteq undisturbed /\ (records' = records \/ undisturbed' \subseteq {r})
  BY <1>2 DEF Write
<1>4. req'[r] = q /\ \A u \in Reqs \ {r} : req'[u] = req[u]
  BY <1>1 DEF Goto, IInv
<1>5. Extends(terms, terms')
  BY <1>2, InvFacts
<1>6. ASSUME r \in undisturbed' PROVE OnPlan(q, records', terms')
  <2>1. rows = ConfirmedRows(records)
    BY <1>2, <1>3, <1>6 DEF ReconcileInv, OnPlan
  <2>2. ASSUME NEW i \in DOMAIN records
        PROVE  S[i] = [records[i] EXCEPT !.by = S[i].by] /\ S[i].by = None
    <3>1. records[i] \in Row /\ records[i] = [records[i] EXCEPT !.by = records[i].by]
      BY InvFacts, ByItself
    <3>2. CASE records[i].by = None
      <4>1. records[i] = [records[i] EXCEPT !.by = None]
        BY <3>1, <3>2
      <4>2. S[i] = records[i]
        BY <4>1 DEF Cleared
      <4> QED
        BY <3>1, <3>2, <4>2
    <3>3. CASE records[i].by # None
      <4>1. records[i].confirmed
        BY <3>3, InvFacts DEF RowsOK
      <4>2. i \in DOMAIN rows /\ rows[i] = records[i]
        BY <2>1, <4>1 DEF ConfirmedRows
      <4>3. S[i] = [records[i] EXCEPT !.by = None]
        BY <3>3, <4>2 DEF Cleared
      <4> QED
        BY <3>1, <4>3 DEF Row
    <3> QED
      BY <3>2, <3>3
  <2>3. DOMAIN S = DOMAIN records
    BY DEF Cleared
  <2>4. Plans(ConfirmedRows(records'), terms') = Plans(ConfirmedRows(records), terms)
    <3> HIDE DEF S
    <3>1. Reexcluded(records, records')
      BY <1>3, <2>2, <2>3 DEF Reexcluded
    <3>2. RowsOK(records, Len(terms)) /\ terms \in Seq(TermKeys) /\ terms' \in Seq(TermKeys)
      BY DEF IInv
    <3> QED
      BY <1>5, <3>1, <3>2, ConfirmedSame
  <2>5. Whole(plan, records') = plan
    <3>1. Excluded(records') = {}
      BY <1>3, <2>2, <2>3 DEF Excluded
    <3>2. plan = [i \in DOMAIN plan |-> plan[i]]
      BY DEF Plans, Plan
    <3> QED
      BY <3>1, <3>2 DEF Whole
  <2>6. q.at = "exclude" /\ q.plan = plan
    OBVIOUS
  <2> HIDE DEF S, q, rows
  <2> QED
    BY <2>1, <2>4, <2>5, <2>6 DEF OnPlan, rows
<1> HIDE DEF S, q
<1> QED
  BY <1>3, <1>4, <1>5, <1>6, ReconcileStep

\* An exclusion goes from those to write to those written.
LEMMA ExcludeReconciles ==
    ASSUME IInv, ReconcileInv, IInv', NEW r \in Reqs, Exclude(r)
    PROVE  ReconcileInv'
<1> DEFINE plan == req[r].plan
<1>1. PICK n \in DOMAIN plan :
         /\ Write(r, [records EXCEPT ![n].by = plan[n]])
         /\ Goto(r, [at |-> "exclude", plan |-> [j \in DOMAIN plan \ {n} |-> plan[j]]])
  BY DEF Exclude
<1> DEFINE S == [records EXCEPT ![n].by = plan[n]]
           left == [j \in DOMAIN plan \ {n} |-> plan[j]]
           q == [at |-> "exclude", plan |-> left]
<1>2. terms' = terms /\ req[r].at = "exclude"
  BY DEF Exclude, At
<1>3. /\ records' = S /\ undisturbed' \subseteq undisturbed
      /\ records' = records \/ undisturbed' \subseteq {r}
  BY <1>1 DEF Write
<1>4. req'[r] = q /\ \A u \in Reqs \ {r} : req'[u] = req[u]
  BY <1>1 DEF Goto, IInv
<1>5. Extends(terms, terms')
  BY <1>2, InvFacts
<1>6. ASSUME r \in undisturbed' PROVE OnPlan(q, records', terms')
  <2>1. Whole(plan, records) \in Plans(ConfirmedRows(records), terms)
    BY <1>2, <1>3, <1>6 DEF ReconcileInv, OnPlan
  <2>2. n \in DOMAIN records /\ plan[n] \in DOMAIN records
    BY <1>2 DEF IInv, Sound
  <2> HIDE DEF plan
  <2>3. plan[n] \in Nat /\ plan[n] # None
    BY <2>2, InvFacts, RulesAssumption
  <2>4. /\ DOMAIN S = DOMAIN records /\ S[n] = [records[n] EXCEPT !.by = plan[n]]
        /\ \A i \in DOMAIN records \ {n} : S[i] = records[i]
    BY <2>2, InvFacts
  <2>5. ASSUME NEW i \in DOMAIN records
        PROVE  /\ S[i] = [records[i] EXCEPT !.by = S[i].by]
               /\ S[i].by = IF i = n THEN plan[n] ELSE records[i].by
    <3>1. records[i] \in Row /\ records[i] = [records[i] EXCEPT !.by = records[i].by]
      BY InvFacts, ByItself
    <3> HIDE DEF S
    <3>2. CASE i = n
      <4>1. S[i].by = plan[n]
        BY <2>4, <3>1, <3>2 DEF Row
      <4> QED
        BY <2>4, <3>2, <4>1
    <3>3. CASE i # n
      BY <2>4, <3>1, <3>3
    <3> QED
      BY <3>2, <3>3
  <2> HIDE DEF S
  <2>6. Plans(ConfirmedRows(records'), terms') = Plans(ConfirmedRows(records), terms)
    <3>1. Reexcluded(records, records')
      BY <1>3, <2>4, <2>5 DEF Reexcluded
    <3>2. RowsOK(records, Len(terms)) /\ terms \in Seq(TermKeys) /\ terms' \in Seq(TermKeys)
      BY DEF IInv
    <3> QED
      BY <1>5, <3>1, <3>2, ConfirmedSame
  <2>7. Whole(left, records') = Whole(plan, records)
    <3>1. DOMAIN left = DOMAIN plan \ {n} /\ \A j \in DOMAIN left : left[j] = plan[j]
      OBVIOUS
    <3> HIDE DEF left
    <3>2. Excluded(records') = Excluded(records) \cup {n}
      BY <1>3, <2>2, <2>3, <2>4, <2>5 DEF Excluded
    <3>3. Excluded(records') \cup DOMAIN left = Excluded(records) \cup DOMAIN plan
      BY <3>1, <3>2
    <3>4. ASSUME NEW i \in Excluded(records) \cup DOMAIN plan
          PROVE  (IF i \in DOMAIN left THEN left[i] ELSE records'[i].by)
                   = (IF i \in DOMAIN plan THEN plan[i] ELSE records[i].by)
      <4>1. CASE i \in DOMAIN left
        BY <3>1, <4>1
      <4>2. CASE i = n
        BY <1>3, <2>2, <2>5, <3>1, <4>2
      <4>3. CASE i \notin DOMAIN plan
        <5>1. i \in DOMAIN records /\ i # n
          BY <4>3 DEF Excluded
        <5> QED
          BY <1>3, <2>5, <3>1, <4>3, <5>1
      <4> QED
        BY <3>1, <4>1, <4>2, <4>3
    <3> QED
      BY <3>3, <3>4 DEF Whole
  <2>8. q.at = "exclude" /\ q.plan = left
    OBVIOUS
  <2> HIDE DEF left, q
  <2> QED
    BY <2>1, <2>6, <2>7, <2>8 DEF OnPlan
<1> HIDE DEF S, q
<1> QED
  BY <1>3, <1>4, <1>5, <1>6, ReconcileStep

\* An edit disturbs every confirm.
LEMMA EditReconciles ==
    ASSUME IInv, ReconcileInv, IInv', NEW i, NEW x, EditCourse(i, x) \/ ReviewEdit(i, x)
    PROVE  ReconcileInv'
<1>1. /\ UNCHANGED <<terms, req>> /\ undisturbed' \subseteq undisturbed
      /\ records' = records \/ undisturbed' \subseteq {None}
  BY DEF EditCourse, ReviewEdit, Rekey, Write
<1>2. None \notin undisturbed
  BY RecordsAssumption DEF IInv
<1>3. Extends(terms, terms')
  BY <1>1, InvFacts
<1> QED
  BY <1>1, <1>2, <1>3, ReconcileStep

LEMMA NextReconciles ==
    ASSUME IInv, ReconcileInv, IInv', [Next]_vars
    PROVE  ReconcileInv'
<1>1. ASSUME NEW r \in Reqs, Begin(r) \/ Step(r) \/ Fail(r) PROVE ReconcileInv'
  BY <1>1, BeginsReconcile, WorksReconcile, TermReconciles, EndsReconcile, ReadReconciles,
     ClearReconciles, ExcludeReconciles DEF Step
<1>2. ASSUME NEW i \in DOMAIN records, NEW x \in Edits, EditCourse(i, x) \/ ReviewEdit(i, x)
      PROVE  ReconcileInv'
  BY <1>2, EditReconciles
<1>3. CASE Tomorrow \/ (\E p \in planned : RemovePlanned(p)) \/ UNCHANGED vars
  <2>1. UNCHANGED <<terms, records, req, undisturbed>>
    BY <1>3 DEF Tomorrow, RemovePlanned, vars
  <2> QED
    BY <2>1 DEF ReconcileInv
<1> QED
  BY <1>1, <1>2, <1>3 DEF Next

LEMMA ReconcileInvariance == Spec => []ReconcileInv
<1>1. Init => ReconcileInv
  BY DEF Init, ReconcileInv
<1>2. ASSUME IInv, IInv', ReconcileInv, [Next]_vars PROVE ReconcileInv'
  BY <1>2, NextReconciles
<1> QED
  BY <1>1, <1>2, Invariance, PTL DEF Spec

\* repeats.py: a confirm nobody wrote beside leaves the exclusions the policy
\* gives for the confirmed rows, whatever terms, pages and reviews come between.
THEOREM ReconciledAsPlanned == Spec => []ReconciledIsPlan
<1>1. ASSUME ReconcileInv PROVE ReconciledIsPlan
  <2> SUFFICES ASSUME NEW r \in undisturbed, Answered(r)
               PROVE  [i \in Excluded(records) |-> records[i].by]
                          \in Plans(ConfirmedRows(records), terms)
    BY DEF ReconciledIsPlan, Excluded
  <2>1. Whole(req[r].plan, records) \in Plans(ConfirmedRows(records), terms)
    BY <1>1 DEF ReconcileInv, OnPlan, Answered, At
  <2>2. Whole(req[r].plan, records) = [i \in Excluded(records) |-> records[i].by]
    BY DEF Whole, Answered
  <2> QED
    BY <2>1, <2>2
<1> QED
  BY <1>1, ReconcileInvariance, PTL

=============================================================================
