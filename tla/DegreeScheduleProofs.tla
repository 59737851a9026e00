------------------------ MODULE DegreeScheduleProofs ------------------------
(***************************************************************************)
(* What holds of DegreeSchedule for any number of tabs, processes, groups, *)
(* candidates and tables.                                                  *)
(***************************************************************************)
EXTENDS DegreeSchedule, TLAPS

USE DataAssumption, ScheduleAssumption

-----------------------------------------------------------------------------
(* The data. *)

\* Every table is guarded by one of the three revision rows.
LEMMA GuardIsRevision == \A t \in Tables : Guard(t) \in Revisions
  BY DEF Guard, Revisions

\* A transaction touches only revision rows.
LEMMA TouchedAreRevisions ==
  ASSUME NEW d, NEW t \in Tables, NEW v
  PROVE  Touched(d, t, v) \subseteq Revisions
  BY GuardIsRevision DEF Touched, Revisions

\* The choice tables are not input tables.
LEMMA KindsAreNotSources ==
  /\ Kinds \cap Sources = {}
  /\ \A k \in Kinds : k \in Tables /\ Guard(k) = "student"
  BY DEF Kinds, AllSources, Tables, Guard

\* Input tables hold Values.
LEMMA SourceContents == \A t \in Sources : t \in Tables /\ Contents(t) = Values
  BY DEF Contents, AllSources, Tables

\* Committing contents of an input table gives a database again.
LEMMA CommitIsDatabase ==
  ASSUME NEW d, IsDatabase(d), NEW t \in Sources, NEW v \in Values
  PROVE  IsDatabase(Commit(d, t, v))
<1>1. ASSUME NEW u \in Tables
      PROVE  Commit(d, t, v)[u] \in Contents(u)
  <2>1. CASE u = t
    BY <2>1, SourceContents DEF Commit
  <2>2. CASE u \in Kinds
    <3>1. Commit(d, t, v)[u] \in {d[u], d[u] \ Orphans(d, v)[u]}
      BY <2>2, KindsAreNotSources DEF Commit
    <3>2. d[u] \in Contents(u)
      BY DEF IsDatabase
    <3>. QED  BY <2>2, <3>1, <3>2 DEF Kinds, Contents
  <2>3. CASE u # t /\ u \notin Kinds
    BY <2>3 DEF Commit, IsDatabase
  <2>. QED  BY <2>1, <2>2, <2>3
<1>. QED  BY <1>1 DEF IsDatabase, Commit

\* A commit changes the table it is for, and a choice table only if the
\* transaction also touches the student's revision.
LEMMA CommitChanges ==
  ASSUME NEW d, IsDatabase(d), NEW t \in Sources, NEW v, NEW u \in Tables,
         Commit(d, t, v)[u] # d[u]
  PROVE  \/ u = t
         \/ u \in Kinds /\ t = "requirement_groups" /\ "student" \in Touched(d, t, v)
<1>1. CASE u # t
  <2>1. /\ t = "requirement_groups" /\ u \in Kinds
        /\ Commit(d, t, v)[u] = d[u] \ Orphans(d, v)[u]
    BY <1>1 DEF Commit
  <2>2. Orphans(d, v)[u] # {}
    BY <2>1
  <2>. QED  BY <2>1, <2>2 DEF Touched
<1>. QED  BY <1>1

-----------------------------------------------------------------------------
(* Type correctness. *)

\* The initial states have the right types.
LEMMA InitType == Init => TypeOK
<1> SUFFICES ASSUME Init PROVE TypeOK
  OBVIOUS
<1>1. IsDatabase(db)
  BY DEF Init, IsDatabase, Contents, Kinds, Tables, AllSources
<1>2. StoreOK
  BY <1>1 DEF Init, StoreOK, Revisions
<1>3. ASSUME NEW c \in Tabs PROVE TabOK(c)
  BY DEF Init, TabOK, NoView, InPut, Guarded
<1>. QED  BY <1>2, <1>3 DEF Init, TypeOK

\* The state of a tab that a step leaves alone keeps its type.
LEMMA TabOKStable ==
  ASSUME NEW c, TabOK(c), pc'[c] = pc[c], proc'[c] = proc[c], view'[c] = view[c],
         want'[c] = want[c], expected'[c] = expected[c], snap'[c] = snap[c],
         todo'[c] = todo[c]
  PROVE  TabOK(c)'
  BY DEF TabOK

\* A tab that starts a (re)load keeps the types.
LEMMA ReloadType ==
  ASSUME TypeOK, NEW c \in Tabs, Reload(c), StoreOK',
         view' = view \/ view' = [view EXCEPT ![c] = NoView]
  PROVE  TypeOK'
<1>1. ASSUME NEW d \in Tabs PROVE TabOK(d)'
  <2>1. CASE d = c
    <3>1. /\ pc'[c] = "get" /\ snap'[c] = <<>> /\ todo'[c] = Tables
          /\ view'[c] \in {view[c], NoView}
      BY DEF TypeOK, Reload
    <3>2. "get" \notin InPut /\ "get" \notin Guarded
      BY DEF InPut, Guarded
    <3>3. TabOK(c)
      BY DEF TypeOK
    <3>4. view'[c].shown => IsDatabase(view'[c].rows) /\ view'[c].semantics \in Identities
      BY <3>1, <3>3 DEF TabOK, NoView
    <3>5. DOMAIN snap'[c] = {} /\ snap'[c] = [t \in {} |-> snap'[c][t]]
      BY <3>1
    <3>6. DOMAIN snap'[c] = Tables \ todo'[c]
      BY <3>1, <3>5
    <3>. QED  BY <2>1, <3>1, <3>2, <3>4, <3>5, <3>6 DEF TabOK
  <2>2. CASE d # c
    BY <2>2, TabOKStable DEF TypeOK, Reload
  <2>. QED  BY <2>1, <2>2
<1>. QED  BY <1>1 DEF TypeOK, Reload, InPut

\* Every step keeps the types.
LEMMA TypeStep == TypeOK /\ [Next]_vars => TypeOK'
<1> SUFFICES ASSUME TypeOK, [Next]_vars PROVE TypeOK'
  OBVIOUS
<1> USE DEF TypeOK
<1>1. ASSUME NEW t \in Sources, NEW v \in Values, BeginEdit(t, v) PROVE TypeOK'
  <2>1. StoreOK'
    BY <1>1, TouchedAreRevisions, SourceContents DEF StoreOK, BeginEdit
  <2>2. \A d \in Tabs : TabOK(d)'
    BY <1>1, TabOKStable DEF BeginEdit, tabVars
  <2>. QED  BY <1>1, <2>1, <2>2 DEF BeginEdit, tabVars
<1>2. ASSUME NEW t \in Sources, CommitEdit(t) PROVE TypeOK'
  <2>1. open[t].value \in Values
    BY <1>2 DEF StoreOK, CommitEdit
  <2>2. IsDatabase(db')
    BY <1>2, <2>1, CommitIsDatabase DEF StoreOK, CommitEdit
  <2>3. rev' \in [Revisions -> Nat]
    BY <1>2 DEF StoreOK, CommitEdit, Bumped
  <2>4. StoreOK'
    BY <1>2, <2>2, <2>3 DEF StoreOK, CommitEdit
  <2>5. \A d \in Tabs : TabOK(d)'
    BY <1>2, TabOKStable DEF CommitEdit
  <2>6. overtaken' \in [Tabs -> SUBSET Sources]
    BY <1>2 DEF CommitEdit
  <2>. QED  BY <1>2, <2>4, <2>5, <2>6 DEF CommitEdit
<1>3. ASSUME NEW t \in Sources, AbortEdit(t) PROVE TypeOK'
  <2>1. StoreOK'
    BY <1>3 DEF StoreOK, AbortEdit
  <2>2. \A d \in Tabs : TabOK(d)'
    BY <1>3, TabOKStable DEF AbortEdit, tabVars
  <2>. QED  BY <1>3, <2>1, <2>2 DEF AbortEdit, tabVars
<1>4. ASSUME NEW c \in Tabs, Reload(c), UNCHANGED dbVars,
             view' = view \/ view' = [view EXCEPT ![c] = NoView]
      PROVE  TypeOK'
  <2>1. StoreOK'
    BY <1>4 DEF StoreOK, dbVars
  <2>. QED  BY <1>4, <2>1, ReloadType
<1>5. ASSUME NEW c \in Tabs, NEW t \in Tables, ReadTable(c, t) PROVE TypeOK'
  <2>1. StoreOK'
    BY <1>5 DEF StoreOK, ReadTable, dbVars
  <2>2. TabOK(c)'
    <3>1. /\ snap'[c] = [u \in DOMAIN snap[c] \cup {t} |-> IF u = t THEN db[t] ELSE snap[c][u]]
          /\ todo'[c] = todo[c] \ {t}
          /\ t \in todo[c] /\ todo[c] \subseteq Tables
          /\ pc[c] \in {"get", "read"}
          /\ UNCHANGED <<pc, proc, view, want, expected>>
      BY <1>5 DEF ReadTable
    <3>2. DOMAIN snap'[c] = Tables \ todo'[c]
      BY <3>1 DEF TabOK, Guarded
    <3>3. \A u \in DOMAIN snap'[c] : snap'[c][u] \in Contents(u)
      BY <3>1 DEF TabOK, StoreOK, IsDatabase
    <3>4. snap'[c] = [u \in DOMAIN snap'[c] |-> snap'[c][u]]
      BY <3>1
    <3>. QED  BY <3>1, <3>2, <3>3, <3>4 DEF TabOK, Guarded
  <2>3. \A d \in Tabs \ {c} : TabOK(d)'
    BY <1>5, TabOKStable DEF ReadTable
  <2>. QED  BY <1>5, <2>1, <2>2, <2>3 DEF ReadTable
<1>6. ASSUME NEW c \in Tabs, NEW p \in Processes, ShowSchedule(c, p) PROVE TypeOK'
  <2>1. StoreOK'
    BY <1>6 DEF StoreOK, ShowSchedule, dbVars
  <2>2. TabOK(c)'
    <3>1. /\ view'[c] = [shown |-> TRUE, rows |-> snap[c], semantics |-> IdentityOf[p]]
          /\ pc'[c] = "idle" /\ snap'[c] = <<>>
          /\ pc[c] = "get" /\ todo[c] = {}
      BY <1>6 DEF ShowSchedule
    <3>2. IsDatabase(snap[c])
      BY <3>1 DEF TabOK, IsDatabase
    <3>3. DOMAIN snap'[c] = {} /\ snap'[c] = [u \in {} |-> snap'[c][u]]
      BY <3>1
    <3>. QED  BY <3>1, <3>2, <3>3 DEF TabOK, Guarded, InPut
  <2>3. \A d \in Tabs \ {c} : TabOK(d)'
    BY <1>6, TabOKStable DEF ShowSchedule
  <2>. QED  BY <1>6, <2>1, <2>2, <2>3 DEF ShowSchedule
<1>7. ASSUME NEW c \in Tabs, NEW p \in Processes, NEW k \in Kinds,
             NEW s \in Contents(k), StartPut(c, p, k, s)
      PROVE  TypeOK'
  <2>1. StoreOK'
    BY <1>7 DEF StoreOK, StartPut, dbVars
  <2>2. TabOK(c)'
    BY <1>7 DEF TabOK, StartPut, Guarded, InPut
  <2>3. \A d \in Tabs \ {c} : TabOK(d)'
    BY <1>7, TabOKStable DEF StartPut
  <2>. QED  BY <1>7, <2>1, <2>2, <2>3 DEF StartPut, InPut
<1>8. ASSUME NEW id \in Identities, SyncSemantics(id) PROVE StoreOK'
  BY <1>8 DEF SyncSemantics, StoreOK, Revisions
<1>9. ASSUME NEW c \in Tabs, Sync(c) PROVE TypeOK'
  <2>1. StoreOK'
    BY <1>8, <1>9 DEF Sync, TabOK, InPut
  <2>2. TabOK(c)'
    BY <1>9 DEF TabOK, Sync, Guarded, InPut
  <2>3. \A d \in Tabs \ {c} : TabOK(d)'
    BY <1>9, TabOKStable DEF Sync
  <2>. QED  BY <1>9, <2>1, <2>2, <2>3 DEF Sync, InPut
<1>10. ASSUME NEW c \in Tabs, Capture(c) PROVE TypeOK'
  <2>1. rev' \in [Revisions -> Nat \ {0}] /\ expected'[c] = rev'
    BY <1>10 DEF Capture, StoreOK
  <2>2. StoreOK'
    BY <1>10, <2>1 DEF StoreOK, Capture
  <2>3. TabOK(c)'
    <3>1. /\ pc[c] = "capture" /\ pc'[c] = "read" /\ todo'[c] = Tables
          /\ UNCHANGED <<proc, view, want, snap>>
      BY <1>10 DEF Capture
    <3>2. DOMAIN snap[c] = {}
      BY <3>1 DEF TabOK, Guarded
    <3>3. DOMAIN snap'[c] = Tables \ todo'[c]
      BY <3>1, <3>2
    <3>. QED  BY <2>1, <3>1, <3>2, <3>3 DEF TabOK, Guarded, InPut
  <2>4. \A d \in Tabs \ {c} : TabOK(d)'
    BY <1>10, TabOKStable DEF Capture
  <2>. QED  BY <1>10, <2>2, <2>3, <2>4 DEF Capture, InPut, Guarded
<1>11. ASSUME NEW c \in Tabs, Resync(c) PROVE TypeOK'
  <2>1. StoreOK'
    BY <1>8, <1>11 DEF Resync, TabOK, InPut, Guarded
  <2>2. TabOK(c)'
    BY <1>11 DEF TabOK, Resync, Guarded, InPut
  <2>3. \A d \in Tabs \ {c} : TabOK(d)'
    BY <1>11, TabOKStable DEF Resync
  <2>. QED  BY <1>11, <2>1, <2>2, <2>3 DEF Resync, InPut, Guarded
<1>12. ASSUME NEW c \in Tabs, CasApplied(c) PROVE TypeOK'
  <2>1. want[c].kind \in Kinds /\ want[c].set \in Contents(want[c].kind)
    BY <1>12 DEF CasApplied, TabOK, InPut, Guarded
  <2>2. IsDatabase(db')
    BY <1>12, <2>1, KindsAreNotSources DEF CasApplied, StoreOK, IsDatabase
  <2>3. StoreOK'
    BY <1>12, <2>2 DEF CasApplied, StoreOK, Revisions
  <2>. QED  BY <1>12, <2>3, ReloadType DEF CasApplied
<1>13. ASSUME NEW c \in Tabs, FailGet(c) PROVE TypeOK'
  <2>1. StoreOK'
    BY <1>13 DEF StoreOK, FailGet, dbVars
  <2>2. TabOK(c)'
    <3>1. /\ pc'[c] = "idle" /\ snap'[c] = <<>>
          /\ view'[c] = view[c]
      BY <1>13 DEF FailGet
    <3>2. DOMAIN snap'[c] = {} /\ snap'[c] = [u \in {} |-> snap'[c][u]]
      BY <3>1
    <3>. QED  BY <3>1, <3>2 DEF TabOK, Guarded, InPut
  <2>3. \A d \in Tabs \ {c} : TabOK(d)'
    BY <1>13, TabOKStable DEF FailGet
  <2>. QED  BY <1>13, <2>1, <2>2, <2>3 DEF FailGet
<1>14. CASE UNCHANGED vars
  <2>1. \A d \in Tabs : TabOK(d)'
    BY <1>14, TabOKStable DEF vars, tabVars
  <2>. QED  BY <1>14, <2>1 DEF vars, tabVars, dbVars, StoreOK
<1>. QED
  BY <1>1, <1>2, <1>3, <1>4, <1>5, <1>6, <1>7, <1>9, <1>10, <1>11, <1>12, <1>13, <1>14
  DEF Next, Edit, Submit, Advance, StartGet, Refuse, CasUnchanged, CasConflict, FailPut

\* Types hold in every reachable state, for any number of tabs, processes,
\* groups, candidates and tables.
THEOREM TypeCorrect == Spec => []TypeOK
  BY InitType, TypeStep, PTL DEF Spec

-----------------------------------------------------------------------------
(* What a step does to the revisions, the rows and a guarded request. *)

\* No revision ever goes back.
LEMMA RevisionsGrow ==
  ASSUME TypeOK, [Next]_vars
  PROVE  \A r \in Revisions : rev[r] <= rev'[r]
<1>1. rev \in [Revisions -> Nat]
  BY DEF TypeOK, StoreOK
<1>2. ASSUME NEW t \in Sources, CommitEdit(t) PROVE \A r \in Revisions : rev[r] <= rev'[r]
  BY <1>1, <1>2 DEF CommitEdit, Bumped
<1>3. ASSUME NEW id, SyncSemantics(id) PROVE \A r \in Revisions : rev[r] <= rev'[r]
  BY <1>1, <1>3 DEF SyncSemantics
<1>4. ASSUME NEW c \in Tabs, Capture(c) PROVE \A r \in Revisions : rev[r] <= rev'[r]
  BY <1>1, <1>4 DEF Capture
<1>5. ASSUME NEW c \in Tabs, CasApplied(c) PROVE \A r \in Revisions : rev[r] <= rev'[r]
  BY <1>1, <1>5 DEF CasApplied
<1>6. CASE rev' = rev
  BY <1>1, <1>6
<1>. QED
  BY <1>2, <1>3, <1>4, <1>5, <1>6
  DEF Next, Edit, Submit, Advance, StartGet, Refuse, CasUnchanged, CasConflict, FailPut,
      BeginEdit, AbortEdit, ReadTable, ShowSchedule, StartPut, Sync, Resync, FailGet,
      dbVars, vars

\* Only a committed edit or an applied write changes a row.
LEMMA RowSteps ==
  ASSUME [Next]_vars, db' # db
  PROVE  \/ \E t \in Sources : CommitEdit(t)
         \/ \E c \in Tabs : CasApplied(c)
  BY DEF Next, Edit, Submit, Advance, StartGet, Refuse, CasUnchanged, CasConflict, FailPut,
      BeginEdit, AbortEdit, ReadTable, ShowSchedule, StartPut, Sync, Resync, FailGet,
      Capture, SyncSemantics, dbVars, vars

\* A new registration advances the institution revision.
LEMMA RegistrationSteps ==
  ASSUME TypeOK, [Next]_vars, registered' # registered
  PROVE  rev'["institution"] > rev["institution"]
<1>1. ASSUME NEW id, SyncSemantics(id) PROVE rev'["institution"] > rev["institution"]
  BY <1>1 DEF SyncSemantics, TypeOK, StoreOK, Revisions
<1>. QED
  BY <1>1
  DEF Next, Edit, Submit, Advance, StartGet, Refuse, CasUnchanged, CasConflict, FailPut,
      BeginEdit, CommitEdit, AbortEdit, ReadTable, ShowSchedule, StartPut, Sync, Resync,
      FailGet, Capture, CasApplied, dbVars, vars

\* What a request carries from its capture to its write stays what it is.
LEMMA GuardedSteps ==
  ASSUME TypeOK, [Next]_vars, NEW c \in Tabs, pc'[c] \in Guarded, ~Capture(c)
  PROVE  /\ pc[c] \in Guarded
         /\ UNCHANGED <<expected[c], proc[c], want[c], view[c]>>
         /\ overtaken[c] \subseteq overtaken'[c]
         /\ \/ UNCHANGED <<snap[c], todo[c]>>
            \/ \E t \in Tables : ReadTable(c, t)
         /\ pc'[c] = "cas" => \/ Resync(c)
                              \/ pc[c] = "cas" /\ UNCHANGED <<snap[c], todo[c]>>
<1> DEFINE Kept == /\ UNCHANGED <<pc[c], expected[c], proc[c], want[c], view[c], snap[c], todo[c]>>
                   /\ overtaken[c] \subseteq overtaken'[c]
<1> USE DEF TypeOK
<1>1. ASSUME NEW t \in Sources, NEW v \in Values, BeginEdit(t, v) PROVE Kept
  BY <1>1 DEF BeginEdit, tabVars
<1>2. ASSUME NEW t \in Sources, CommitEdit(t) PROVE Kept
  BY <1>2 DEF CommitEdit
<1>3. ASSUME NEW t \in Sources, AbortEdit(t) PROVE Kept
  BY <1>3 DEF AbortEdit, tabVars
<1>4. ASSUME NEW d \in Tabs, Reload(d), view' = view \/ view' = [view EXCEPT ![d] = NoView]
      PROVE  Kept
  BY <1>4 DEF Reload, Guarded
<1>5. ASSUME NEW d \in Tabs, NEW p \in Processes, ShowSchedule(d, p) PROVE Kept
  BY <1>5 DEF ShowSchedule, Guarded
<1>6. ASSUME NEW d \in Tabs, NEW p \in Processes, NEW k, NEW s, StartPut(d, p, k, s) PROVE Kept
  BY <1>6 DEF StartPut, Guarded
<1>7. ASSUME NEW d \in Tabs, Sync(d) PROVE Kept
  BY <1>7 DEF Sync, Guarded
<1>8. ASSUME NEW d \in Tabs, Capture(d) PROVE Kept
  BY <1>8 DEF Capture
<1>9. ASSUME NEW d \in Tabs, FailGet(d) PROVE Kept
  BY <1>9 DEF FailGet, Guarded
<1>10. ASSUME NEW d \in Tabs, d # c, (\E t \in Tables : ReadTable(d, t)) \/ Resync(d) PROVE Kept
  BY <1>10 DEF ReadTable, Resync
<1>11. CASE Kept
  BY <1>11
<1>12. ASSUME NEW t \in Tables, ReadTable(c, t) PROVE UNCHANGED <<pc[c], expected[c], proc[c], want[c], view[c], overtaken[c]>> /\ pc[c] # "cas"
  BY <1>12 DEF ReadTable
<1>13. CASE Resync(c)
  BY <1>13 DEF Resync, Guarded
<1>14. CASE UNCHANGED vars
  BY <1>14, <1>11 DEF vars, tabVars
<1> HIDE DEF Kept
<1>. QED
  BY <1>1, <1>2, <1>3, <1>4, <1>5, <1>6, <1>7, <1>8, <1>9, <1>10, <1>11, <1>12, <1>13, <1>14
  DEF Next, Edit, Submit, Advance, StartGet, Refuse, CasApplied, CasUnchanged, CasConflict, FailPut

-----------------------------------------------------------------------------
(* The inductive invariant. *)

\* A row can change while its revision stays only by the commit of a
\* transaction on that very table that found no revision row.
LEMMA UnguardedChange ==
  ASSUME WriteGuarded, [Next]_vars, NEW t \in Tables,
         db'[t] # db[t], rev'[Guard(t)] = rev[Guard(t)]
  PROVE  t \in Sources /\ CommitEdit(t) /\ Guard(t) \notin open[t].bumps
<1> USE DEF WriteGuarded, TypeOK, StoreOK
<1>0. Guard(t) \in Revisions /\ rev[Guard(t)] \in Nat
  BY GuardIsRevision
<1>1. ASSUME NEW u \in Sources, CommitEdit(u)
      PROVE  t = u /\ Guard(t) \notin open[u].bumps
  <2>1. Guard(t) \notin open[u].bumps
    BY <1>0, <1>1 DEF CommitEdit, Bumped
  <2>2. t = u \/ (t \in Kinds /\ u = "requirement_groups"
                  /\ "student" \in Touched(db, u, open[u].value))
    BY <1>1, CommitChanges DEF CommitEdit
  <2>3. ~(t \in Kinds /\ u = "requirement_groups"
          /\ "student" \in Touched(db, u, open[u].value))
    BY <1>1, <2>1, KindsAreNotSources DEF EditsLock, CommitEdit, Guard
  <2>. QED  BY <2>1, <2>2, <2>3
<1>2. ASSUME NEW c \in Tabs, CasApplied(c) PROVE FALSE
  <2>1. want[c].kind \in Kinds
    BY <1>2 DEF CasApplied, TabOK, InPut, Guarded
  <2>2. t = want[c].kind
    BY <1>2, <2>1 DEF CasApplied, IsDatabase
  <2>3. Guard(t) = "student"
    BY <2>1, <2>2, KindsAreNotSources
  <2>. QED  BY <1>0, <1>2, <2>3 DEF CasApplied
<1>. QED  BY <1>1, <1>2, RowSteps

\* Captured revisions stay at or below the current ones.
LEMMA CapturedBelowStep ==
  ASSUME WriteGuarded, [Next]_vars
  PROVE  CapturedBelow'
<1> SUFFICES ASSUME NEW c \in Tabs, pc'[c] \in Guarded, NEW r \in Revisions
             PROVE  expected'[c][r] <= rev'[r]
  BY DEF CapturedBelow
<1> USE DEF WriteGuarded, TypeOK
<1>0. rev[r] \in Nat
  BY DEF StoreOK
<1>1. CASE Capture(c)
  BY <1>0, <1>1 DEF Capture
<1>2. CASE ~Capture(c)
  <2>1. expected'[c] = expected[c] /\ pc[c] \in Guarded
    BY <1>2, GuardedSteps
  <2>2. expected[c][r] \in Nat /\ expected[c][r] <= rev[r] /\ rev[r] <= rev'[r]
    BY <2>1, RevisionsGrow DEF CapturedBelow, TabOK
  <2>3. rev'[r] \in Nat
    BY TypeStep DEF StoreOK
  <2>. QED  BY <1>0, <2>1, <2>2, <2>3
<1>. QED  BY <1>1, <1>2

\* A revision that is the captured one after a step was so before it.
LEMMA CapturedStays ==
  ASSUME WriteGuarded, [Next]_vars, NEW c \in Tabs, pc'[c] \in Guarded, ~Capture(c),
         NEW r \in Revisions, expected'[c][r] = rev'[r]
  PROVE  expected[c][r] = rev[r] /\ rev'[r] = rev[r]
<1> USE DEF WriteGuarded, TypeOK
<1>1. expected'[c] = expected[c] /\ pc[c] \in Guarded
  BY GuardedSteps
<1>2. expected[c][r] \in Nat /\ expected[c][r] <= rev[r] /\ rev[r] <= rev'[r]
  BY <1>1, RevisionsGrow DEF CapturedBelow, TabOK
<1>3. rev[r] \in Nat /\ rev'[r] \in Nat
  BY TypeStep DEF StoreOK
<1>. QED  BY <1>1, <1>2, <1>3

\* While its revision is the captured one, a row that was read stays the stored
\* one: a change to the table advances the revision, or is noted as overtaken.
LEMMA ReadRowsStep ==
  ASSUME WriteGuarded, [Next]_vars
  PROVE  ReadRowsGuarded'
<1> SUFFICES ASSUME NEW c \in Tabs, pc'[c] \in Guarded,
                    NEW t \in DOMAIN snap'[c] \ overtaken'[c],
                    expected'[c][Guard(t)] = rev'[Guard(t)]
             PROVE  snap'[c][t] = db'[t]
  BY DEF ReadRowsGuarded
<1> USE DEF WriteGuarded
<1>0. t \in Tables
  BY TypeStep DEF TypeOK, TabOK
<1>1. CASE Capture(c)
  BY <1>1 DEF Capture, TypeOK, TabOK, Guarded
<1>2. CASE ~Capture(c)
  <2>1. /\ pc[c] \in Guarded
        /\ expected[c][Guard(t)] = rev[Guard(t)]
        /\ rev'[Guard(t)] = rev[Guard(t)]
        /\ overtaken[c] \subseteq overtaken'[c]
    BY <1>0, <1>2, GuardIsRevision, GuardedSteps, CapturedStays
  <2>2. ASSUME NEW u \in Tables, ReadTable(c, u)
        PROVE  snap'[c][t] = db'[t]
    <3>1. /\ db' = db
          /\ snap'[c] = [w \in DOMAIN snap[c] \cup {u} |-> IF w = u THEN db[u] ELSE snap[c][w]]
      BY <2>2 DEF ReadTable, dbVars, TypeOK
    <3>2. CASE t = u
      BY <3>1, <3>2
    <3>3. CASE t # u
      BY <2>1, <3>1, <3>3 DEF ReadRowsGuarded
    <3>. QED  BY <3>2, <3>3
  <2>3. CASE snap'[c] = snap[c]
    <3>1. snap[c][t] = db[t]
      BY <2>1, <2>3 DEF ReadRowsGuarded
    <3>2. ASSUME db'[t] # db[t] PROVE FALSE
      <4>1. t \in Sources /\ CommitEdit(t) /\ Guard(t) \notin open[t].bumps
        BY <1>0, <2>1, <3>2, UnguardedChange
      <4>2. t \in overtaken'[c]
        BY <2>1, <4>1 DEF CommitEdit
      <4>. QED  BY <4>2
    <3>. QED  BY <2>3, <3>1, <3>2
  <2>. QED  BY <1>2, <2>2, <2>3, GuardedSteps
<1>. QED  BY <1>1, <1>2

\* Nothing disturbs the acceptance of a request about to write, except another
\* release's registration, and that advances the institution revision.
LEMMA AcceptedStep ==
  ASSUME WriteGuarded, [Next]_vars
  PROVE  AcceptedBeforeWrite'
<1> SUFFICES ASSUME NEW c \in Tabs, pc'[c] = "cas"
             PROVE  /\ todo'[c] = {}
                    /\ Accepted(c)'
                    /\ expected'[c]["institution"] = rev'["institution"]
                         => registered' = IdentityOf[proc'[c]]
  BY DEF AcceptedBeforeWrite
<1> USE DEF WriteGuarded, TypeOK
<1>1. ~Capture(c) /\ pc'[c] \in Guarded
  BY DEF Capture, Guarded
<1>2. CASE Resync(c)
  BY <1>2 DEF Resync, SyncSemantics, Accepted
<1>3. CASE pc[c] = "cas" /\ UNCHANGED <<snap[c], todo[c]>>
  <2>1. UNCHANGED <<expected[c], proc[c], want[c], view[c]>>
    BY <1>1, GuardedSteps
  <2>2. todo'[c] = {} /\ Accepted(c)'
    BY <1>3, <2>1 DEF AcceptedBeforeWrite, Accepted
  <2>3. ASSUME expected'[c]["institution"] = rev'["institution"]
        PROVE  registered' = IdentityOf[proc'[c]]
    <3>1. /\ expected[c]["institution"] = rev["institution"]
          /\ rev'["institution"] = rev["institution"]
      BY <1>1, <2>3, CapturedStays DEF Revisions
    <3>2. rev["institution"] \in Nat
      BY DEF StoreOK, Revisions
    <3>3. registered' = registered
      BY <3>1, <3>2, RegistrationSteps
    <3>. QED  BY <1>3, <2>1, <3>1, <3>3 DEF AcceptedBeforeWrite
  <2>. QED  BY <2>2, <2>3
<1>. QED  BY <1>1, <1>2, <1>3, GuardedSteps

\* With fewer choices stored, a commit orphans no more of them.
LEMMA TouchedShrinks ==
  ASSUME NEW d, NEW e, NEW t \in Sources, NEW v,
         \A k \in Kinds : e[k] \subseteq d[k]
  PROVE  Touched(e, t, v) \subseteq Touched(d, t, v)
<1>1. ASSUME NEW k \in Kinds, Orphans(e, v)[k] # {} PROVE Orphans(d, v)[k] # {}
  <2>1. CASE k = "selections"
    <3>1. PICK s \in e["selections"] : s[1] \notin LiveGroups[v]
      BY <1>1, <2>1 DEF Orphans
    <3>2. s \in {x \in d["selections"] : x[1] \notin LiveGroups[v]}
      BY <3>1 DEF Kinds
    <3>. QED  BY <2>1, <3>2 DEF Orphans
  <2>2. CASE k = "exclusions"
    <3>1. e["exclusions"] \subseteq d["exclusions"]
      BY DEF Kinds
    <3>. QED  BY <1>1, <2>2, <3>1 DEF Orphans
  <2>. QED  BY <2>1, <2>2 DEF Kinds
<1>. QED  BY <1>1 DEF Touched

\* A commit adds no choice: a cascade only deletes them.
LEMMA CommitShrinks ==
  ASSUME NEW d, NEW t \in Sources, NEW v, NEW k \in Kinds
  PROVE  Commit(d, t, v)[k] \subseteq d[k]
  BY KindsAreNotSources DEF Commit

\* Choices written while a transaction is open never add a revision it would
\* have to advance and does not hold.
LEMMA EditsLockStep ==
  ASSUME WriteGuarded, [Next]_vars
  PROVE  EditsLock'
<1> SUFFICES ASSUME NEW t \in Sources, open'[t] # None,
                    NEW r \in Touched(db', t, open'[t].value) \ open'[t].bumps
             PROVE  r = "student" /\ r = Guard(t)
  BY DEF EditsLock
<1> USE DEF WriteGuarded, TypeOK, StoreOK
<1>1. CASE /\ open'[t] = open[t]
           /\ r \in Touched(db, t, open[t].value)
  BY <1>1 DEF EditsLock
<1>2. ASSUME NEW u \in Sources, NEW v \in Values, BeginEdit(u, v)
      PROVE  r = "student" /\ r = Guard(t)
  <2>1. CASE t = u
    <3>1. r \in Touched(db, t, v) /\ r = "student" /\ rev["student"] = 0
      BY <1>2, <2>1 DEF BeginEdit
    <3>2. \A k \in Kinds : Orphans(db, v)[k] = {}
      BY <3>1 DEF RowBeforeChoices, Orphans, Kinds
    <3>. QED  BY <3>1, <3>2 DEF Touched
  <2>2. CASE t # u
    BY <1>1, <1>2, <2>2 DEF BeginEdit
  <2>. QED  BY <2>1, <2>2
<1>3. ASSUME NEW u \in Sources, CommitEdit(u) PROVE r = "student" /\ r = Guard(t)
  <2>1. open'[t] = open[t]
    BY <1>3 DEF CommitEdit
  <2>2. \A k \in Kinds : db'[k] \subseteq db[k]
    BY <1>3, CommitShrinks DEF CommitEdit
  <2>. QED  BY <1>1, <2>1, <2>2, TouchedShrinks
<1>4. ASSUME NEW u \in Sources, AbortEdit(u) PROVE r = "student" /\ r = Guard(t)
  BY <1>1, <1>4 DEF AbortEdit
<1>5. ASSUME NEW c \in Tabs, CasApplied(c) PROVE r = "student" /\ r = Guard(t)
  <2>1. open'[t] = open[t] /\ open[t] # None
    BY <1>5 DEF CasApplied
  <2>2. t # "requirement_groups"
    <3>1. SUFFICES ASSUME t = "requirement_groups" PROVE FALSE
      OBVIOUS
    <3>2. Guard(t) = "program" /\ Guard(t) \in Touched(db, t, open[t].value)
      BY <3>1 DEF Touched, Guard, Kinds
    <3>3. Locked("program")
      BY <2>1, <3>2 DEF EditsLock, Locked
    <3>. QED  BY <1>5, <3>3 DEF CasApplied, Revisions
  <2>. QED  BY <1>1, <2>1, <2>2 DEF Touched
<1>6. CASE UNCHANGED <<db, open>>
  BY <1>1, <1>6
<1>. QED
  BY <1>2, <1>3, <1>4, <1>5, <1>6
  DEF Next, Edit, Submit, Advance, StartGet, Refuse, CasUnchanged, CasConflict, FailPut,
      ReadTable, ShowSchedule, StartPut, Sync, Resync, FailGet,
      Capture, SyncSemantics, dbVars, vars

\* Choices appear only once the student's revision row exists.
LEMMA RowBeforeChoicesStep ==
  ASSUME WriteGuarded, [Next]_vars
  PROVE  RowBeforeChoices'
<1> SUFFICES ASSUME rev'["student"] = 0, NEW k \in Kinds PROVE db'[k] = {}
  BY DEF RowBeforeChoices
<1> USE DEF WriteGuarded, TypeOK, StoreOK
<1>1. rev["student"] \in Nat /\ rev["student"] <= rev'["student"]
  BY RevisionsGrow DEF Revisions
<1>2. db[k] = {}
  BY <1>1 DEF RowBeforeChoices
<1>3. ASSUME NEW t \in Sources, CommitEdit(t) PROVE db'[k] = {}
  BY <1>2, <1>3, CommitShrinks DEF CommitEdit
<1>4. ASSUME NEW c \in Tabs, CasApplied(c) PROVE FALSE
  BY <1>1, <1>4 DEF CasApplied, Revisions
<1>. QED  BY <1>2, <1>3, <1>4, RowSteps

\* The inductive invariant holds initially.
LEMMA InitGuarded == Init => WriteGuarded
  BY InitType
  DEF Init, WriteGuarded, CapturedBelow, ReadRowsGuarded, AcceptedBeforeWrite, EditsLock,
      RowBeforeChoices, Guarded, Kinds, Tables

\* Every step keeps the inductive invariant.
LEMMA GuardedStep == WriteGuarded /\ [Next]_vars => WriteGuarded'
<1> SUFFICES ASSUME WriteGuarded, [Next]_vars PROVE WriteGuarded'
  OBVIOUS
<1>1. TypeOK'
  BY TypeStep DEF WriteGuarded
<1>. QED
  BY <1>1, CapturedBelowStep, ReadRowsStep, AcceptedStep, EditsLockStep, RowBeforeChoicesStep
  DEF WriteGuarded

\* In every reachable state: revisions guard the rows a request has read, and a
\* request about to write was accepted on them under the registered semantics.
THEOREM WritesAreGuarded == Spec => []WriteGuarded
  BY InitGuarded, GuardedStep, PTL DEF Spec

-----------------------------------------------------------------------------
(* What a write promises. *)

\* A step that replaces a stored set is the compare-and-swap of that tab: every
\* revision is the captured one, and the planner accepted what the tab read.
LEMMA ReplacesIsCas ==
  ASSUME WriteGuarded, [Next]_vars, NEW c \in Tabs, Replaces(c)
  PROVE  /\ CasApplied(c)
         /\ Accepted(c)
         /\ registered = IdentityOf[proc[c]]
         /\ IsDatabase(view[c].rows) /\ IsDatabase(db)
         /\ DOMAIN snap[c] = Tables
         /\ snap[c] = [t \in Tables |-> snap[c][t]]
         /\ \A t \in Tables \ overtaken[c] : snap[c][t] = db[t]
<1> USE DEF WriteGuarded, TypeOK
<1>1. CasApplied(c)
  <2>1. db' # db
    BY DEF Replaces
  <2>2. ASSUME NEW t \in Sources, CommitEdit(t) PROVE FALSE
    BY <2>2 DEF Replaces, CommitEdit
  <2>3. ASSUME NEW d \in Tabs, d # c, CasApplied(d) PROVE FALSE
    BY <2>3 DEF Replaces, CasApplied, Reload
  <2>. QED  BY <2>1, <2>2, <2>3, RowSteps
<1>2. /\ pc[c] = "cas" /\ pc[c] \in Guarded /\ pc[c] \in InPut
      /\ \A r \in Revisions : rev[r] = expected[c][r]
  BY <1>1 DEF CasApplied, Guarded, InPut
<1>3. todo[c] = {} /\ Accepted(c) /\ registered = IdentityOf[proc[c]]
  BY <1>2 DEF AcceptedBeforeWrite, Revisions
<1>4. DOMAIN snap[c] = Tables /\ snap[c] = [t \in Tables |-> snap[c][t]]
  BY <1>2, <1>3 DEF TabOK
<1>5. \A t \in Tables \ overtaken[c] : snap[c][t] = db[t]
  BY <1>2, <1>4, GuardIsRevision DEF ReadRowsGuarded
<1>. QED  BY <1>1, <1>2, <1>3, <1>4, <1>5 DEF TabOK, StoreOK

\* A set is stored only on the rows its validation read.
THEOREM FreshRows == Spec => AppliedOnFreshRows
<1>1. WriteGuarded /\ [Next]_vars
        => [\A c \in Tabs : Replaces(c) =>
               \A t \in Tables \ overtaken[c] : snap[c][t] = db[t]]_vars
  BY ReplacesIsCas
<1>. QED  BY <1>1, WritesAreGuarded, PTL DEF Spec, AppliedOnFreshRows

\* A set is stored only while the process that validated it has the registered
\* catalog and planner semantics, the ones the tab's schedule was computed with.
THEOREM OwnSemantics == Spec => AppliedUnderOwnSemantics
<1>1. WriteGuarded /\ [Next]_vars
        => [\A c \in Tabs : Replaces(c) =>
               registered = IdentityOf[proc[c]] /\ view[c].semantics = registered]_vars
  BY ReplacesIsCas DEF Accepted, Version
<1>. QED  BY <1>1, WritesAreGuarded, PTL DEF Spec, AppliedUnderOwnSemantics

\* A set is stored only if the planner accepts it on the rows stored then.
THEOREM ValidSets == Spec => OnlyValidSetsStored
<1>1. ASSUME WriteGuarded, [Next]_vars, NEW c \in Tabs, Replaces(c), overtaken[c] = {}
      PROVE  Valid(want[c].kind, db, want[c].set)
  <2>1. \A t \in Tables : snap[c][t] = db[t]
    BY <1>1, ReplacesIsCas
  <2>2. /\ snap[c] = [t \in Tables |-> snap[c][t]]
        /\ db = [t \in Tables |-> db[t]]
    BY <1>1, ReplacesIsCas DEF IsDatabase
  <2>3. snap[c] = db
    BY <2>1, <2>2
  <2>. QED  BY <1>1, <2>3, ReplacesIsCas DEF Accepted
<1>2. WriteGuarded /\ [Next]_vars
        => [\A c \in Tabs : Replaces(c) /\ overtaken[c] = {} =>
               Valid(want[c].kind, db, want[c].set)]_vars
  BY <1>1
<1>. QED  BY <1>2, WritesAreGuarded, PTL DEF Spec, OnlyValidSetsStored

\* A write replaces the choices its tab showed: no selection stored since then
\* is lost, nor any exclusion of a group the coursework leaves open.
THEOREM NothingLost == Spec => NoLostUpdate
<1> DEFINE Differ(c) == {g \in Groups : (g \in view[c].rows["exclusions"]) # (g \in db["exclusions"])}
           Kept(c) == [view[c].rows EXCEPT !["exclusions"] = Differ(c)]
<1>1. ASSUME WriteGuarded, [Next]_vars, NEW c \in Tabs, Replaces(c)
      PROVE  /\ view[c].rows["selections"] = db["selections"]
             /\ EffectiveExclusions(Kept(c)) = {}
  <2>1. \A k \in Kinds : k \in Tables \ overtaken[c]
    BY KindsAreNotSources, <1>1 DEF WriteGuarded, TypeOK
  <2>2. \A k \in Kinds : snap[c][k] = db[k]
    BY <1>1, <2>1, ReplacesIsCas
  <2>3. /\ \A t \in Tables \ {"exclusions"} : snap[c][t] = view[c].rows[t]
        /\ EffectiveExclusions(snap[c]) = EffectiveExclusions(view[c].rows)
    <3>1. Version(snap[c], IdentityOf[proc[c]]) = Version(view[c].rows, view[c].semantics)
      BY <1>1, ReplacesIsCas DEF Accepted
    <3>2. /\ [t \in Tables \ {"exclusions"} |-> snap[c][t]]
               = [t \in Tables \ {"exclusions"} |-> view[c].rows[t]]
          /\ EffectiveExclusions(snap[c]) = EffectiveExclusions(view[c].rows)
      BY <3>1 DEF Version
    <3>3. ASSUME NEW t \in Tables \ {"exclusions"}
          PROVE  snap[c][t] = view[c].rows[t]
      <4>1. /\ [u \in Tables \ {"exclusions"} |-> snap[c][u]][t] = snap[c][t]
            /\ [u \in Tables \ {"exclusions"} |-> view[c].rows[u]][t] = view[c].rows[t]
        OBVIOUS
      <4>. QED  BY <3>2, <4>1
    <3>. QED  BY <3>2, <3>3
  <2>4. "selections" \in Kinds /\ "exclusions" \in Kinds
    BY DEF Kinds
  <2>5. view[c].rows["selections"] = db["selections"]
    BY <2>1, <2>2, <2>3, <2>4
  <2>6. /\ Kept(c)["exclusions"] = Differ(c)
        /\ Kept(c)["course_records"] = view[c].rows["course_records"]
    <3>1. view[c].rows = [t \in Tables |-> view[c].rows[t]]
      BY <1>1, ReplacesIsCas DEF IsDatabase
    <3>2. "exclusions" \in DOMAIN view[c].rows
      BY <2>1, <2>4, <3>1
    <3>. QED  BY <3>2
  <2>7. CASE "course_records" \in Sources
    <3>1. snap[c]["course_records"] = view[c].rows["course_records"]
      BY <2>3, <2>7 DEF Tables, Kinds
    <3>2. \A g \in Differ(c) : g \in SatisfiedBy[view[c].rows["course_records"]]
      BY <2>2, <2>3, <2>4, <2>7, <3>1 DEF EffectiveExclusions
    <3>. QED  BY <2>5, <2>6, <2>7, <3>2 DEF EffectiveExclusions
  <2>8. CASE "course_records" \notin Sources
    <3>1. Differ(c) = {}
      BY <2>2, <2>3, <2>4, <2>8 DEF EffectiveExclusions
    <3>. QED  BY <2>5, <2>6, <2>8, <3>1 DEF EffectiveExclusions
  <2>. QED  BY <2>7, <2>8
<1>2. WriteGuarded /\ [Next]_vars
        => [\A c \in Tabs : Replaces(c) =>
               LET seen == view[c].rows
                   differ == {g \in Groups : (g \in seen["exclusions"]) # (g \in db["exclusions"])}
               IN  /\ seen["selections"] = db["selections"]
                   /\ EffectiveExclusions([seen EXCEPT !["exclusions"] = differ]) = {}]_vars
  BY <1>1
<1>. QED  BY <1>2, WritesAreGuarded, PTL DEF Spec, NoLostUpdate
-----------------------------------------------------------------------------
(* Refinement: one compare-and-swap on the whole schedule. *)

\* With a revision row from the start, every transaction fires its trigger.
NothingBlind ==
    /\ rev["student"] # 0
    /\ \A t \in Sources : open[t] # None => Guard(t) \in open[t].bumps
    /\ \A c \in Tabs : overtaken[c] = {}

\* With a revision row from the start no transaction is blind initially.
LEMMA InitNotBlind == 0 \notin InitialStudentRevisions /\ Init => NothingBlind
  BY DEF Init, NothingBlind

\* No transaction becomes blind while the revision row exists.
LEMMA NotBlindStep == WriteGuarded /\ NothingBlind /\ [Next]_vars => NothingBlind'
<1> SUFFICES ASSUME WriteGuarded, NothingBlind, [Next]_vars PROVE NothingBlind'
  OBVIOUS
<1> USE DEF WriteGuarded, TypeOK
<1>1. rev'["student"] # 0
  <2>1. /\ rev["student"] \in Nat /\ rev'["student"] \in Nat
        /\ rev["student"] <= rev'["student"]
    BY TypeStep, RevisionsGrow DEF StoreOK, Revisions
  <2>. QED  BY <2>1 DEF NothingBlind
<1>2. ASSUME NEW t \in Sources, open'[t] # None PROVE Guard(t) \in open'[t].bumps
  <2>1. CASE open'[t] = open[t]
    BY <1>2, <2>1 DEF NothingBlind
  <2>2. ASSUME NEW v \in Values, BeginEdit(t, v) PROVE Guard(t) \in open'[t].bumps
    BY <2>2 DEF BeginEdit, Touched, NothingBlind, StoreOK
  <2>3. ASSUME NEW u \in Sources, u # t, NEW v \in Values, BeginEdit(u, v)
        PROVE  open'[t] = open[t]
    BY <2>3 DEF BeginEdit, StoreOK
  <2>4. ASSUME NEW u \in Sources, CommitEdit(u) \/ AbortEdit(u) PROVE open'[t] = open[t]
    BY <1>2, <2>4 DEF CommitEdit, AbortEdit, StoreOK
  <2>. QED
    BY <2>1, <2>2, <2>3, <2>4
    DEF Next, Edit, Submit, Advance, StartGet, Refuse, CasUnchanged, CasConflict, FailPut,
        ReadTable, ShowSchedule, StartPut, Sync, Resync, FailGet, CasApplied,
        Capture, SyncSemantics, dbVars, vars
<1>3. ASSUME NEW c \in Tabs PROVE overtaken'[c] = {}
  <2>1. ASSUME NEW t \in Sources, CommitEdit(t) PROVE overtaken'[c] = {}
    BY <2>1 DEF CommitEdit, NothingBlind
  <2>2. ASSUME NEW d \in Tabs, Reload(d) PROVE overtaken'[c] = {}
    BY <2>2 DEF Reload, NothingBlind
  <2>3. CASE overtaken' = overtaken
    BY <2>3 DEF NothingBlind
  <2>. QED
    BY <2>1, <2>2, <2>3
    DEF Next, Edit, Submit, Advance, StartGet, Refuse, CasUnchanged, CasConflict, FailPut,
        BeginEdit, AbortEdit, ReadTable, ShowSchedule, StartPut, Sync, Resync, FailGet,
        CasApplied, Capture, tabVars, vars
<1>. QED  BY <1>1, <1>2, <1>3 DEF NothingBlind

\* Initial states are initial states of the abstract store.
LEMMA StoreInit == Init => Store!Init
<1> SUFFICES ASSUME Init PROVE Store!Init
  OBVIOUS
<1>1. IsDatabase(db)
  BY InitType DEF TypeOK, StoreOK
<1>2. Store!IsDatabase(db)
  BY <1>1 DEF IsDatabase, Store!IsDatabase, Tables, Store!Tables, Kinds, Store!Kinds,
              Contents, Store!Contents
<1>3. \A k \in Store!Kinds : db[k] = {}
  BY DEF Init, Store!Kinds, Kinds, Tables
<1>. QED  BY <1>2, <1>3 DEF Init, Store!Init, NoView

\* A write is the abstract compare-and-swap.
LEMMA CasIsReplace ==
  ASSUME WriteGuarded, NothingBlind, [Next]_vars, NEW c \in Tabs, CasApplied(c)
  PROVE  Store!Replace(c, want[c].kind, want[c].set)
<1> DEFINE k == want[c].kind
<1>1. Replaces(c)
  <2>1. pc[c] = "cas" /\ pc'[c] = "get"
    BY DEF CasApplied, Reload, WriteGuarded, TypeOK
  <2>2. k \in Kinds
    BY <2>1 DEF WriteGuarded, TypeOK, TabOK, InPut, Guarded
  <2>3. db'[k] # db[k]
    BY <2>2, KindsAreNotSources DEF CasApplied, WriteGuarded, TypeOK, StoreOK, IsDatabase
  <2>. QED  BY <2>1, <2>3 DEF Replaces
<1>2. snap[c] = db
  <2>0. overtaken[c] = {}
    BY DEF NothingBlind
  <2>1. \A t \in Tables : snap[c][t] = db[t]
    BY <1>1, <2>0, ReplacesIsCas
  <2>2. /\ snap[c] = [t \in Tables |-> snap[c][t]]
        /\ db = [t \in Tables |-> db[t]]
    BY <1>1, ReplacesIsCas DEF IsDatabase
  <2>. QED  BY <2>1, <2>2
<1>3. /\ Version(view[c].rows, view[c].semantics) = Version(db, registered)
      /\ Valid(k, db, want[c].set)
  BY <1>1, <1>2, ReplacesIsCas DEF Accepted
<1>4. Store!Version(view[c].rows, view[c].semantics) = Store!Version(db, registered)
  BY <1>3 DEF Version, Store!Version, EffectiveExclusions, Store!EffectiveExclusions,
              Tables, Store!Tables, Kinds, Store!Kinds
<1>5. view[c].shown
  BY DEF CasApplied, WriteGuarded, TypeOK, TabOK, InPut, Guarded
<1>. QED  BY <1>3, <1>4, <1>5 DEF Store!Replace, CasApplied, Reload

\* Every step of the detailed system is a step of the abstract one, or none.
LEMMA StoreStep ==
  ASSUME WriteGuarded, NothingBlind, [Next]_vars
  PROVE  [Store!Next]_Store!vars
<1> USE DEF WriteGuarded, TypeOK
<1>1. ASSUME NEW t \in Sources, CommitEdit(t) PROVE Store!Next
  <2>1. open[t].value \in Values /\ db' = Commit(db, t, open[t].value)
    BY <1>1 DEF CommitEdit, StoreOK
  <2>2. Store!Commit(db, t, open[t].value) = Commit(db, t, open[t].value)
    BY DEF Commit, Store!Commit, Orphans, Store!Orphans, Tables, Store!Tables,
           Kinds, Store!Kinds
  <2>3. Store!Change(t)
    BY <1>1, <2>1, <2>2 DEF CommitEdit, Store!Change
  <2>. QED  BY <2>3 DEF Store!Next
<1>0. ASSUME NEW c \in Tabs, StartGet(c) PROVE Store!Next
  <2>1. Store!Look(c)
    BY <1>0 DEF StartGet, Store!Look, dbVars
  <2>. QED  BY <2>1 DEF Store!Next
<1>2. ASSUME NEW c \in Tabs, NEW p \in Processes, ShowSchedule(c, p) PROVE Store!Next
  <2>1. Store!Look(c)
    BY <1>2 DEF ShowSchedule, Store!Look, dbVars
  <2>. QED  BY <2>1 DEF Store!Next
<1>3. ASSUME NEW c \in Tabs, Sync(c) \/ Resync(c) PROVE Store!Next
  <2>1. IdentityOf[proc[c]] \in Identities
    BY <1>3 DEF Sync, Resync, TabOK, InPut, Guarded
  <2>2. Store!Deploy(IdentityOf[proc[c]])
    BY <1>3 DEF Sync, Resync, SyncSemantics, Store!Deploy
  <2>. QED  BY <2>1, <2>2 DEF Store!Next
<1>4. ASSUME NEW c \in Tabs, CasApplied(c) PROVE Store!Next
  <2>1. Store!Replace(c, want[c].kind, want[c].set)
    BY <1>4, CasIsReplace
  <2>2. want[c].kind \in Store!Kinds /\ want[c].set \in Store!Contents(want[c].kind)
    BY <1>4 DEF CasApplied, TabOK, InPut, Guarded, Kinds, Store!Kinds, Contents, Store!Contents
  <2>. QED  BY <2>1, <2>2 DEF Store!Next
<1>5. CASE UNCHANGED <<db, registered, view>>
  BY <1>5 DEF Store!vars
<1>. QED
  BY <1>0, <1>1, <1>2, <1>3, <1>4, <1>5
  DEF Next, Edit, Submit, Advance, Refuse, CasUnchanged, CasConflict, FailPut,
      BeginEdit, AbortEdit, ReadTable, StartPut, FailGet, Capture,
      dbVars, tabVars, vars

\* Revisions, separate reads, two releases and failing calls implement the
\* abstract compare-and-swap, if every student has a revision row.
THEOREM Refinement == 0 \notin InitialStudentRevisions /\ Spec => ImplementsStore
<1>1. WriteGuarded /\ NothingBlind /\ [Next]_vars => [Store!Next]_Store!vars
  BY StoreStep
<1>. QED
  BY <1>1, StoreInit, WritesAreGuarded, InitNotBlind, NotBlindStep, PTL
  DEF Spec, ImplementsStore, Store!Spec
=============================================================================
