--------------------------- MODULE DegreeSchedule ---------------------------
(***************************************************************************)
(* The optimistic writes of the Degree Schedule: browser tabs that load a  *)
(* schedule and replace the complete set of requirement selections or      *)
(* exclusions, the backend processes that validate the set in Python       *)
(* between two RPCs, and the Postgres revision rows that are to prove that *)
(* nothing the validation read has changed in between.                     *)
(*                                                                         *)
(* A tab is one request at a time: idle -> get -> idle loads a schedule,   *)
(* idle -> sync -> capture -> read -> cas -> get is a PUT and the refetch  *)
(* the panel always sends after it.                                        *)
(***************************************************************************)
EXTENDS ScheduleData

CONSTANTS
    Tabs,
    Processes,
    IdentityOf,               \* the semantics each backend process was built with
    InitialStudentRevisions,  \* 0: the student's revision row does not exist yet
    MaxRevision,              \* bound: no edit or PUT starts beyond this revision
    None

ASSUME ScheduleAssumption ==
    /\ IdentityOf \in [Processes -> Identities]
    /\ InitialStudentRevisions \subseteq {0, 1}
    /\ MaxRevision \in Nat
    /\ None \notin Identities

VARIABLES
    db,          \* committed rows
    rev,         \* committed revision rows; 0: the row does not exist
    registered,  \* degree_schedule_institution_semantics of the institution
    open,        \* the transaction in flight on each input table
    pc,          \* where each tab's request is
    proc,        \* the process that serves it
    view,        \* the schedule the tab shows
    want,        \* the complete set the tab submitted
    expected,    \* revisions the request captured
    snap,        \* rows reconstruct() has read so far
    todo,        \* tables reconstruct() has still to read
    overtaken    \* history: tables committed without a revision bump since the capture

dbVars == <<db, rev, registered, open>>
tabVars == <<pc, proc, view, want, expected, snap, todo, overtaken>>
vars == <<dbVars, tabVars>>

NoView == [shown |-> FALSE]

\* Requests past the capture of the revisions.
Guarded == {"read", "cas"}

InPut == {"sync", "capture"} \cup Guarded

Locked(r) == \E t \in Sources : open[t] # None /\ r \in open[t].bumps

-----------------------------------------------------------------------------

Init ==
    /\ db \in {[t \in Tables |-> IF t \in Kinds THEN {} ELSE f[t]] : f \in [Sources -> Values]}
    /\ rev \in {[student |-> n, program |-> 0, institution |-> 0] :
                   n \in InitialStudentRevisions}
    /\ registered = None
    /\ open = [t \in Sources |-> None]
    /\ pc = [c \in Tabs |-> "idle"]
    /\ proc = [c \in Tabs |-> None]
    /\ view = [c \in Tabs |-> NoView]
    /\ want = [c \in Tabs |-> None]
    /\ expected = [c \in Tabs |-> None]
    /\ snap = [c \in Tabs |-> <<>>]
    /\ todo = [c \in Tabs |-> {}]
    /\ overtaken = [c \in Tabs |-> {}]

-----------------------------------------------------------------------------
(* Other transactions: transcript import, course edits, catalog seeding... *)

\* A transaction writes table t and fires its trigger.  The trigger of a
\* student table only updates the revision row, so it does nothing when there
\* is none; the program and institution triggers insert or update.  Every
\* revision row it touched stays locked until the transaction ends.
BeginEdit(t, v) ==
    LET bumps == {r \in Touched(db, t, v) : r = "student" => rev[r] # 0}
    IN  /\ open[t] = None
        /\ v # db[t]
        /\ \A r \in bumps : ~Locked(r)
        /\ rev[Guard(t)] < MaxRevision
        /\ open' = [open EXCEPT ![t] = [value |-> v, bumps |-> bumps]]
        /\ UNCHANGED <<db, rev, registered, tabVars>>

\* "insert (..., 2) on conflict do update set revision = revision + 1".
Bumped(n) == IF n = 0 THEN 2 ELSE n + 1

CommitEdit(t) ==
    /\ open[t] # None
    /\ db' = Commit(db, t, open[t].value)
    /\ rev' = [r \in Revisions |-> IF r \in open[t].bumps THEN Bumped(rev[r]) ELSE rev[r]]
    /\ open' = [open EXCEPT ![t] = None]
    /\ overtaken' = [c \in Tabs |->
                        IF pc[c] \in Guarded /\ Guard(t) \notin open[t].bumps
                          THEN overtaken[c] \cup {t} ELSE overtaken[c]]
    /\ UNCHANGED <<registered, pc, proc, view, want, expected, snap, todo>>

AbortEdit(t) ==
    /\ open[t] # None
    /\ open' = [open EXCEPT ![t] = None]
    /\ UNCHANGED <<db, rev, registered, tabVars>>

-----------------------------------------------------------------------------
(* Reading a schedule. *)

\* fields a request leaves behind when it starts a new (re)load
Reload(c) ==
    /\ pc' = [pc EXCEPT ![c] = "get"]
    /\ todo' = [todo EXCEPT ![c] = Tables]
    /\ snap' = [snap EXCEPT ![c] = <<>>]
    /\ want' = [want EXCEPT ![c] = None]
    /\ expected' = [expected EXCEPT ![c] = None]
    /\ overtaken' = [overtaken EXCEPT ![c] = {}]
    /\ proc' = [proc EXCEPT ![c] = None]

\* useAnalysisRun's trigger: while it loads, the panel shows nothing.
StartGet(c) ==
    /\ pc[c] = "idle"
    /\ Reload(c)
    /\ view' = [view EXCEPT ![c] = NoView]
    /\ UNCHANGED dbVars

\* The order in which _reconstruct_academic_schedule issues its reads.
ReadRank(t) ==
    CASE t = "student_institutions"      -> 1
      [] t = "students"                  -> 2
      [] t = "academic_term_dates"       -> 3
      [] t = "requirement_groups"        -> 4
      [] t = "requirement_group_options" -> 5
      [] t = "course_records"            -> 6
      [] t = "programs"                  -> 7
      [] t = "course_catalog"            -> 8
      [] t = "selections"                -> 9
      [] t = "exclusions"                -> 10
      [] t = "institutions"              -> 11

\* One REST read: each is a transaction of its own.
ReadTable(c, t) ==
    /\ pc[c] \in {"get", "read"}
    /\ t \in todo[c]
    /\ \A u \in todo[c] : ReadRank(t) <= ReadRank(u)
    /\ snap' = [snap EXCEPT ![c] = [u \in DOMAIN snap[c] \cup {t} |->
                                       IF u = t THEN db[t] ELSE snap[c][u]]]
    /\ todo' = [todo EXCEPT ![c] = @ \ {t}]
    /\ UNCHANGED <<dbVars, pc, proc, view, want, expected, overtaken>>

\* The GET's answer replaces what the tab shows; any process may compute it.
ShowSchedule(c, p) ==
    /\ pc[c] = "get"
    /\ todo[c] = {}
    /\ view' = [view EXCEPT ![c] = [shown |-> TRUE, rows |-> snap[c],
                                    semantics |-> IdentityOf[p]]]
    /\ pc' = [pc EXCEPT ![c] = "idle"]
    /\ snap' = [snap EXCEPT ![c] = <<>>]
    /\ UNCHANGED <<dbVars, proc, want, expected, todo, overtaken>>

-----------------------------------------------------------------------------
(* write_degree_schedule_choices and write_degree_schedule_exclusions. *)

StartPut(c, p, kind, set) ==
    /\ pc[c] = "idle"
    /\ view[c].shown
    /\ rev["student"] < MaxRevision /\ rev["institution"] < MaxRevision
    /\ proc' = [proc EXCEPT ![c] = p]
    /\ want' = [want EXCEPT ![c] = [kind |-> kind, set |-> set]]
    /\ pc' = [pc EXCEPT ![c] = "sync"]
    /\ UNCHANGED <<dbVars, view, expected, snap, todo, overtaken>>

\* Mutant: a new identity is registered without advancing the revision.
SyncWithoutBump(id) ==
    /\ ~Locked("institution")
    /\ registered' = id
    /\ rev' = [rev EXCEPT !["institution"] = IF @ = 0 THEN 1 ELSE @]
    /\ UNCHANGED <<db, open>>

\* sync_degree_schedule_institution_semantics: an identity other than the
\* registered one advances the institution revision.
SyncSemantics(id) ==
    LET row == IF rev["institution"] = 0 THEN 1 ELSE rev["institution"]
    IN  /\ ~Locked("institution")
        /\ registered' = id
        /\ rev' = [rev EXCEPT !["institution"] = IF registered = id THEN row ELSE row + 1]
        /\ UNCHANGED <<db, open>>

Sync(c) ==
    /\ pc[c] = "sync"
    /\ SyncSemantics(IdentityOf[proc[c]])
    /\ pc' = [pc EXCEPT ![c] = "capture"]
    /\ UNCHANGED <<proc, view, want, expected, snap, todo, overtaken>>

\* get_degree_schedule_revisions creates the rows that are missing; the insert
\* waits for a transaction that is inserting the same row.
Capture(c) ==
    LET rows == [r \in Revisions |-> IF rev[r] = 0 THEN 1 ELSE rev[r]]
    IN  /\ pc[c] = "capture"
        /\ \A r \in Revisions : rev[r] = 0 => ~Locked(r)
        /\ rev' = rows
        /\ expected' = [expected EXCEPT ![c] = rows]
        /\ todo' = [todo EXCEPT ![c] = Tables]
        /\ pc' = [pc EXCEPT ![c] = "read"]
        /\ UNCHANGED <<db, registered, open, proc, view, want, snap, overtaken>>

\* The rows as read give the version the tab submitted, and the planner
\* accepts the submitted set on them.
Accepted(c) ==
    /\ Version(snap[c], IdentityOf[proc[c]]) = Version(view[c].rows, view[c].semantics)
    /\ Valid(want[c].kind, snap[c], want[c].set)

\* SCHEDULE_VERSION_CONFLICT, a locked-selection failure or UNKNOWN_REQUIREMENT.
Refuse(c) ==
    /\ pc[c] = "read"
    /\ todo[c] = {}
    /\ ~Accepted(c)
    /\ Reload(c)
    /\ UNCHANGED <<dbVars, view>>

\* Mutants: the revisions are captured again after the reads; the identity is
\* not registered a second time.
ResyncRecapturing(c) ==
    /\ pc[c] = "read" /\ todo[c] = {} /\ Accepted(c)
    /\ SyncSemantics(IdentityOf[proc[c]])
    /\ pc' = [pc EXCEPT ![c] = "cas"]
    /\ expected' = [expected EXCEPT ![c] = rev']
    /\ UNCHANGED <<proc, view, want, snap, todo, overtaken>>

ResyncSkipped(c) ==
    /\ pc[c] = "read" /\ todo[c] = {} /\ Accepted(c)
    /\ pc' = [pc EXCEPT ![c] = "cas"]
    /\ UNCHANGED <<dbVars, proc, view, want, expected, snap, todo, overtaken>>

\* The expected revisions deliberately stay those captured before the reads.
Resync(c) ==
    /\ pc[c] = "read"
    /\ todo[c] = {}
    /\ Accepted(c)
    /\ SyncSemantics(IdentityOf[proc[c]])
    /\ pc' = [pc EXCEPT ![c] = "cas"]
    /\ UNCHANGED <<proc, view, want, expected, snap, todo, overtaken>>

\* Mutant: the write compares every revision but the student's.
CasIgnoringStudent(c) ==
    /\ pc[c] = "cas"
    /\ \A r \in Revisions : ~Locked(r) /\ (r # "student" => rev[r] = expected[c][r])
    /\ db[want[c].kind] # want[c].set
    /\ db' = [db EXCEPT ![want[c].kind] = want[c].set]
    /\ rev' = [rev EXCEPT !["student"] = @ + 1]
    /\ Reload(c)
    /\ UNCHANGED <<registered, open, view>>

\* replace_degree_requirement_selections / _exclusions, after it has taken the
\* three revision rows "for update".
CasApplied(c) ==
    LET k == want[c].kind
    IN  /\ pc[c] = "cas"
        /\ \A r \in Revisions : ~Locked(r) /\ rev[r] = expected[c][r]
        /\ db[k] # want[c].set
        /\ db' = [db EXCEPT ![k] = want[c].set]
        /\ rev' = [rev EXCEPT !["student"] = @ + 1]
        /\ Reload(c)
        /\ UNCHANGED <<registered, open, view>>

CasUnchanged(c) ==
    /\ pc[c] = "cas"
    /\ \A r \in Revisions : ~Locked(r) /\ rev[r] = expected[c][r]
    /\ db[want[c].kind] = want[c].set
    /\ Reload(c)
    /\ UNCHANGED <<dbVars, view>>

\* Mutant: the conflict branch compares the wrong way round.
CasConflictOlder(c) ==
    /\ pc[c] = "cas"
    /\ \A r \in Revisions : ~Locked(r)
    /\ \E r \in Revisions : rev[r] < expected[c][r]
    /\ Reload(c)
    /\ UNCHANGED <<dbVars, view>>

\* REVISION_CONFLICT -> ACADEMIC_REVISION_CONFLICT.
CasConflict(c) ==
    /\ pc[c] = "cas"
    /\ \A r \in Revisions : ~Locked(r)
    /\ \E r \in Revisions : rev[r] # expected[c][r]
    /\ Reload(c)
    /\ UNCHANGED <<dbVars, view>>

\* A call fails or times out: the panel keeps what it shows when the refetch
\* fails, and refetches after a failed PUT.
FailGet(c) ==
    /\ pc[c] = "get"
    /\ pc' = [pc EXCEPT ![c] = "idle"]
    /\ snap' = [snap EXCEPT ![c] = <<>>]
    /\ todo' = [todo EXCEPT ![c] = {}]
    /\ UNCHANGED <<dbVars, proc, view, want, expected, overtaken>>

FailPut(c) ==
    /\ pc[c] \in InPut
    /\ Reload(c)
    /\ UNCHANGED <<dbVars, view>>

-----------------------------------------------------------------------------

Edit == \E t \in Sources : \/ \E v \in Values : BeginEdit(t, v)
                           \/ CommitEdit(t)
                           \/ AbortEdit(t)

Submit(c) == \E p \in Processes, k \in Kinds : \E s \in Contents(k) : StartPut(c, p, k, s)

\* The steps a request takes on its own once it was sent.
Advance(c) ==
    \/ \E t \in Tables : ReadTable(c, t)
    \/ \E p \in Processes : ShowSchedule(c, p)
    \/ Sync(c)
    \/ Capture(c)
    \/ Refuse(c)
    \/ Resync(c)
    \/ CasApplied(c)
    \/ CasUnchanged(c)
    \/ CasConflict(c)

Next == \/ Edit
        \/ \E c \in Tabs : StartGet(c) \/ Submit(c) \/ Advance(c) \/ FailGet(c) \/ FailPut(c)

Spec == Init /\ [][Next]_vars

\* Once sent, a request runs to its end: Postgres serves row-lock waiters in
\* turn, hence strong fairness.  No transaction stays open for ever.
FairSpec == /\ Spec
            /\ \A c \in Tabs : SF_vars(Advance(c))
            /\ \A t \in Sources : WF_vars(CommitEdit(t) \/ AbortEdit(t))

-----------------------------------------------------------------------------

Submission(k) == [kind : {k}, set : Contents(k)]

StoreOK ==
    /\ IsDatabase(db)
    /\ rev \in [Revisions -> Nat]
    /\ registered \in Identities \cup {None}
    /\ DOMAIN open = Sources
    /\ \A t \in Sources : open[t] # None =>
          open[t] \in [value : Values, bumps : SUBSET Revisions]

TabOK(c) ==
    /\ view[c].shown => IsDatabase(view[c].rows) /\ view[c].semantics \in Identities
    /\ snap[c] = [t \in DOMAIN snap[c] |-> snap[c][t]]
    /\ DOMAIN snap[c] = IF pc[c] \in {"get"} \cup Guarded THEN Tables \ todo[c] ELSE {}
    /\ \A t \in DOMAIN snap[c] : snap[c][t] \in Contents(t)
    /\ pc[c] \in InPut => /\ view[c].shown
                         /\ proc[c] \in Processes
                         /\ want[c].kind \in Kinds
                         /\ want[c].set \in Contents(want[c].kind)
    /\ pc[c] \in Guarded => expected[c] \in [Revisions -> Nat \ {0}]

\* Every variable holds what its declaration says.
TypeOK ==
    /\ StoreOK
    /\ pc \in [Tabs -> {"idle", "get"} \cup InPut]
    /\ proc \in [Tabs -> Processes \cup {None}]
    /\ overtaken \in [Tabs -> SUBSET Sources]
    /\ todo \in [Tabs -> SUBSET Tables]
    /\ DOMAIN view = Tabs /\ DOMAIN want = Tabs
    /\ DOMAIN expected = Tabs /\ DOMAIN snap = Tabs
    /\ \A c \in Tabs : TabOK(c)

\* A revision only grows, so a request whose captured revision is gone is
\* never served again.
CapturedBelow ==
    \A c \in Tabs : pc[c] \in Guarded => \A r \in Revisions : expected[c][r] <= rev[r]

\* While the revision that guards a table is the captured one, a row read from
\* the table is the row stored now -- however far apart the reads were.
ReadRowsGuarded ==
    \A c \in Tabs : pc[c] \in Guarded =>
        \A t \in DOMAIN snap[c] \ overtaken[c] :
            expected[c][Guard(t)] = rev[Guard(t)] => snap[c][t] = db[t]

\* A request about to write has read every table, was accepted on what it read,
\* and its release is the registered one unless another came after it.
AcceptedBeforeWrite ==
    \A c \in Tabs : pc[c] = "cas" =>
        /\ todo[c] = {}
        /\ Accepted(c)
        /\ expected[c]["institution"] = rev["institution"] => registered = IdentityOf[proc[c]]

\* An open transaction holds every revision row it is going to advance; only a
\* student table can be written without one, before the row exists.
EditsLock ==
    \A t \in Sources : open[t] # None =>
        \A r \in Touched(db, t, open[t].value) \ open[t].bumps :
            r = "student" /\ r = Guard(t)

\* Choices are only ever stored by a request that captured the revisions.
RowBeforeChoices == rev["student"] = 0 => \A k \in Kinds : db[k] = {}

\* The inductive invariant.
WriteGuarded ==
    /\ TypeOK
    /\ CapturedBelow
    /\ ReadRowsGuarded
    /\ AcceptedBeforeWrite
    /\ EditsLock
    /\ RowBeforeChoices

-----------------------------------------------------------------------------

\* Tab c's step is the compare-and-swap that replaced a stored set.
Replaces(c) == pc[c] = "cas" /\ pc'[c] # "cas" /\ db' # db

\* A set is stored only if every table its validation read, one REST call
\* after the other, still holds the very rows it read -- but for tables changed
\* by a transaction whose trigger ran before the student had a revision row.
AppliedOnFreshRows ==
    [][\A c \in Tabs : Replaces(c) =>
          \A t \in Tables \ overtaken[c] : snap[c][t] = db[t]]_vars

\* A write replaces the choices its tab showed: no selection made elsewhere in
\* the meantime is lost, nor any exclusion of a group the coursework leaves open.
NoLostUpdate ==
    [][\A c \in Tabs : Replaces(c) =>
          LET seen == view[c].rows
              differ == {g \in Groups : (g \in seen["exclusions"]) # (g \in db["exclusions"])}
          IN  /\ seen["selections"] = db["selections"]
              /\ EffectiveExclusions([seen EXCEPT !["exclusions"] = differ]) = {}]_vars

\* A process stores a set only while its own catalog and planner semantics are
\* the registered ones: during a rolling deploy the other release's requests
\* turn the write into a conflict.
AppliedUnderOwnSemantics ==
    [][\A c \in Tabs : Replaces(c) =>
          registered = IdentityOf[proc[c]] /\ view[c].semantics = registered]_vars

\* The planner would accept, on the rows stored at that moment, every set that
\* gets stored.
OnlyValidSetsStored ==
    [][\A c \in Tabs : Replaces(c) /\ overtaken[c] = {} =>
          Valid(want[c].kind, db, want[c].set)]_vars

\* Every PUT is answered and the panel comes to rest, whatever locks, conflicts
\* and failures it meets.
PutAnswered == \A c \in Tabs : (pc[c] \in InPut) ~> (pc[c] = "idle")

-----------------------------------------------------------------------------

Store == INSTANCE ChoiceStore WITH seen <- view

\* Revisions, separate REST reads, two releases and failing calls together act
\* like one compare-and-swap on the whole schedule, provided the student has a
\* revision row from the start.
ImplementsStore == Store!Spec
=============================================================================
