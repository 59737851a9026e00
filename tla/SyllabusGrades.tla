--------------------------- MODULE SyllabusGrades ---------------------------
(***************************************************************************)
(* One grade calculator of a student: the syllabus profile, the immutable  *)
(* revisions extracted from its sources, the corrections and confirmation  *)
(* of a revision, and the saved scores (syllabus/service.py, store.py).    *)
(* Every request is a series of single-row reads and writes without a      *)
(* transaction; each browser tab has one request under way at a time.      *)
(***************************************************************************)
EXTENDS Naturals, Sequences, FiniteSets

CONSTANTS
    None,
    Tabs,
    Kinds,        \* what the student does in this instance
    Sources,      \* syllabus files, told apart by their hash
    Extracts,     \* grade models an extraction may come back with
    Batches,      \* correction batches the student may send
    Plain,        \* the model as extracted, without corrections
    Accepts,      \* the <<extract, batch or Plain>> that reconcile as accepted
    MaxRequests,  \* bound on the requests that come in
    MaxFailures   \* bound on the calls that fail

ASSUME SyllabusAssumption ==
    /\ Accepts \subseteq Extracts \X (Batches \cup {Plain})
    /\ None \notin Batches \cup {Plain}
    /\ MaxRequests \in Nat /\ MaxFailures \in Nat

VARIABLES
    profile,    \* syllabus_grade_profiles row; current 0 is a null current_revision_id
    revisions,  \* syllabus_grade_revisions: position is the id
    grades,     \* syllabus_grade_states row; revision 0 when there is none
    seen,       \* the saved scores each tab shows, and their revision
    req,        \* each tab's request: where it is and what it has read
    asked,      \* revisions a confirmation was asked for
    torn,       \* revisions left by a correction that landed inside a confirm or failed midway
    requests, failures

vars == <<profile, revisions, grades, seen, req, asked, torn, requests, failures>>

Idle == [at |-> "idle"]

At(t, where) == req[t].at = where

Goto(t, where) == req' = [req EXCEPT ![t] = where]

NoGrades == [revision |-> 0, saves |-> {}]

Init ==
    /\ profile = [state |-> "needs_review", current |-> 0, deleted |-> FALSE]
    /\ revisions = <<>>
    /\ grades = NoGrades
    /\ seen = [t \in Tabs |-> NoGrades]
    /\ req = [t \in Tabs |-> Idle]
    /\ asked = {}
    /\ torn = {}
    /\ requests = 0
    /\ failures = 0

\* Every route but the delete looks the profile up without deleted ones.
Begin(t, kind, where) ==
    /\ At(t, "idle") /\ kind \in Kinds
    /\ ~profile.deleted
    /\ requests < MaxRequests
    /\ requests' = requests + 1
    /\ Goto(t, where)

\* A correction is between its write of the revision and that of the profile.
Correcting(t, n) == req[t].at \in {"look", "reopen"} /\ req[t].rev = n

\* A call fails or its answer is lost, and with it the request; what it wrote stays.
Fail(t) ==
    /\ ~At(t, "idle")
    /\ failures < MaxFailures
    /\ failures' = failures + 1
    /\ torn' = torn \cup {n \in DOMAIN revisions : Correcting(t, n)}
    /\ Goto(t, Idle)
    /\ UNCHANGED <<profile, revisions, grades, seen, asked, requests>>

Delete ==
    /\ "delete" \in Kinds
    /\ profile' = [profile EXCEPT !.deleted = TRUE]
    /\ UNCHANGED <<revisions, grades, seen, req, asked, torn, requests, failures>>

-----------------------------------------------------------------------------
(* Ingesting a source.                                                     *)

Ingest(t, source, extract) ==
    /\ Begin(t, "ingest", [at |-> "find", source |-> source, extract |-> extract])
    /\ UNCHANGED <<profile, revisions, grades, seen, asked, torn, failures>>

Stored(source) == \E n \in DOMAIN revisions : revisions[n].source = source

\* find_revision_by_hash: a source that was ingested before changes nothing.
Find(t) ==
    /\ At(t, "find")
    /\ Goto(t, IF Stored(req[t].source) THEN Idle ELSE [req[t] EXCEPT !.at = "insert"])
    /\ UNCHANGED <<profile, revisions, grades, seen, asked, torn, requests, failures>>

NewRevision(source, extract) ==
    [source |-> source, extract |-> extract, model |-> None, accepted |-> FALSE, stamped |-> FALSE]

\* Mutant: without unique (profile_id, source_content_hash).
InsertAlways(t) ==
    /\ At(t, "insert")
    /\ revisions' = Append(revisions, NewRevision(req[t].source, req[t].extract))
    /\ Goto(t, [at |-> "state", rev |-> Len(revisions) + 1])
    /\ UNCHANGED <<profile, grades, seen, asked, torn, requests, failures>>

InsertRevision(t) ==
    /\ At(t, "insert")
    /\ IF Stored(req[t].source)
         THEN Goto(t, Idle) /\ UNCHANGED revisions
         ELSE /\ revisions' = Append(revisions, NewRevision(req[t].source, req[t].extract))
              /\ Goto(t, [at |-> "state", rev |-> Len(revisions) + 1])
    /\ UNCHANGED <<profile, grades, seen, asked, torn, requests, failures>>

\* Mutant: the state the profile is in goes with the new source.
ReviewAsBefore(t) ==
    /\ At(t, "state")
    /\ Goto(t, [at |-> "point", rev |-> req[t].rev, state |-> profile.state])
    /\ UNCHANGED <<profile, revisions, grades, seen, asked, torn, requests, failures>>

\* A confirmed profile must be confirmed again; get_profile does not see a deleted one.
ReviewAgain(t) ==
    /\ At(t, "state")
    /\ Goto(t, [at |-> "point", rev |-> req[t].rev,
                state |-> IF profile.state = "confirmed" /\ ~profile.deleted
                            THEN "reconfirm_required" ELSE "needs_review"])
    /\ UNCHANGED <<profile, revisions, grades, seen, asked, torn, requests, failures>>

\* update_profile_state
UpdateProfile(state, current) ==
    profile' = [profile EXCEPT !.state = state, !.current = current]

Point(t) ==
    /\ At(t, "point")
    /\ UpdateProfile(req[t].state, req[t].rev)
    /\ Goto(t, Idle)
    /\ UNCHANGED <<revisions, grades, seen, asked, torn, requests, failures>>

-----------------------------------------------------------------------------
(* Correcting and confirming the current revision.                         *)

Correct(t, batch) ==
    /\ profile.current # 0
    /\ Begin(t, "correct", [at |-> "correct", rev |-> profile.current, batch |-> batch])
    /\ UNCHANGED <<profile, revisions, grades, seen, asked, torn, failures>>

\* Another request has stamped this revision and not yet marked the profile.
Marking(n) == \E t \in Tabs : At(t, "mark") /\ req[t].rev = n

\* Mutant: the status of the extraction stays with the corrected model.
WriteOverAccepted(t) ==
    /\ At(t, "correct")
    /\ LET n == req[t].rev
       IN  /\ revisions' = [revisions EXCEPT ![n].model = req[t].batch,
                                             ![n].accepted = <<revisions[n].extract, Plain>> \in Accepts,
                                             ![n].stamped = FALSE]
           /\ torn' = IF Marking(n) THEN torn \cup {n} ELSE torn
           /\ Goto(t, [at |-> "look", rev |-> n])
    /\ UNCHANGED <<profile, grades, seen, asked, requests, failures>>

\* The candidate is reconciled again and stored, accepted or not, unconfirmed.
WriteCorrection(t) ==
    /\ At(t, "correct")
    /\ LET n == req[t].rev
       IN  /\ revisions' = [revisions EXCEPT ![n].model = req[t].batch,
                                             ![n].accepted = <<revisions[n].extract, req[t].batch>> \in Accepts,
                                             ![n].stamped = FALSE]
           /\ torn' = IF Marking(n) THEN torn \cup {n} ELSE torn
           /\ Goto(t, [at |-> "look", rev |-> n])
    /\ UNCHANGED <<profile, grades, seen, asked, requests, failures>>

\* CorrectionApplicationError: a correction of the batch cannot be applied.
RefuseBatch(t) ==
    /\ At(t, "correct")
    /\ Goto(t, Idle)
    /\ UNCHANGED <<profile, revisions, grades, seen, asked, torn, requests, failures>>

\* Mutant: the profile keeps its confirmation.
LookAway(t) ==
    /\ At(t, "look")
    /\ Goto(t, Idle)
    /\ UNCHANGED <<profile, revisions, grades, seen, asked, torn, requests, failures>>

Look(t) ==
    /\ At(t, "look")
    /\ Goto(t, IF profile.state = "confirmed" /\ ~profile.deleted
                 THEN [at |-> "reopen", rev |-> req[t].rev, current |-> profile.current]
                 ELSE Idle)
    /\ UNCHANGED <<profile, revisions, grades, seen, asked, torn, requests, failures>>

Reopen(t) ==
    /\ At(t, "reopen")
    /\ UpdateProfile("reconfirm_required", req[t].current)
    /\ Goto(t, Idle)
    /\ UNCHANGED <<revisions, grades, seen, asked, torn, requests, failures>>

Confirm(t) ==
    /\ profile.current # 0
    /\ Begin(t, "confirm", [at |-> "read", rev |-> profile.current])
    /\ asked' = asked \cup {profile.current}
    /\ UNCHANGED <<profile, revisions, grades, seen, torn, failures>>

\* The corrected model if there is one, else the extraction; refused unless accepted.
ReadModel(t) ==
    /\ At(t, "read")
    /\ LET row == revisions[req[t].rev]
           model == IF row.model # None THEN row.model ELSE Plain
           accepted == IF row.model # None THEN row.accepted ELSE <<row.extract, Plain>> \in Accepts
       IN  Goto(t, IF accepted THEN [at |-> "stamp", rev |-> req[t].rev, model |-> model] ELSE Idle)
    /\ UNCHANGED <<profile, revisions, grades, seen, asked, torn, requests, failures>>

\* update_revision_confirmation with the model as it was read.
Stamp(t) ==
    /\ At(t, "stamp")
    /\ revisions' = [revisions EXCEPT ![req[t].rev].model = req[t].model,
                                      ![req[t].rev].accepted = TRUE,
                                      ![req[t].rev].stamped = TRUE]
    /\ torn' = torn \ {req[t].rev}
    /\ Goto(t, [at |-> "mark", rev |-> req[t].rev])
    /\ UNCHANGED <<profile, grades, seen, asked, requests, failures>>

Mark(t) ==
    /\ At(t, "mark")
    /\ UpdateProfile("confirmed", req[t].rev)
    /\ Goto(t, Idle)
    /\ UNCHANGED <<revisions, grades, seen, asked, torn, requests, failures>>

-----------------------------------------------------------------------------
(* The saved scores.                                                       *)

Reload(t) ==
    /\ At(t, "idle") /\ "save" \in Kinds
    /\ ~profile.deleted
    /\ seen' = [seen EXCEPT ![t] = grades]
    /\ UNCHANGED <<profile, revisions, grades, req, asked, torn, requests, failures>>

\* The tab sends the scores it shows with one more, and the revision it shows.
Save(t) ==
    /\ Begin(t, "save", [at |-> "load", expected |-> seen[t].revision,
                         saves |-> seen[t].saves \cup {requests + 1}])
    /\ UNCHANGED <<profile, revisions, grades, seen, asked, torn, failures>>

\* A null revision is sent as no expectation; otherwise a mismatch is a conflict.
Load(t) ==
    /\ At(t, "load")
    /\ Goto(t, IF req[t].expected # 0 /\ req[t].expected # grades.revision THEN [at |-> "conflict"]
               ELSE [at |-> "store", base |-> grades.revision, expected |-> req[t].expected,
                     saves |-> req[t].saves])
    /\ UNCHANGED <<profile, revisions, grades, seen, asked, torn, requests, failures>>

Stores(t) ==
    /\ grades' = [revision |-> req[t].base + 1, saves |-> req[t].saves]
    /\ Goto(t, [at |-> "saved", grades |-> grades'])

\* Mutant: the update is not scoped to the revision that was read.
StoreBlind(t) ==
    /\ At(t, "store")
    /\ Stores(t)
    /\ UNCHANGED <<profile, revisions, seen, asked, torn, requests, failures>>

\* An insert meets the unique profile_id, an update somebody else's revision.
Store(t) ==
    /\ At(t, "store")
    /\ IF grades.revision = req[t].base
         THEN Stores(t)
         ELSE /\ Goto(t, IF req[t].base = 0 THEN Idle ELSE [at |-> "conflict"])
              /\ UNCHANGED grades
    /\ UNCHANGED <<profile, revisions, seen, asked, torn, requests, failures>>

Saved(t) ==
    /\ At(t, "saved")
    /\ seen' = [seen EXCEPT ![t] = req[t].grades]
    /\ Goto(t, Idle)
    /\ UNCHANGED <<profile, revisions, grades, asked, torn, requests, failures>>

\* 409: the tab loads the latest values.
Conflict(t) ==
    /\ At(t, "conflict")
    /\ seen' = IF profile.deleted THEN seen ELSE [seen EXCEPT ![t] = grades]
    /\ Goto(t, Idle)
    /\ UNCHANGED <<profile, revisions, grades, asked, torn, requests, failures>>

-----------------------------------------------------------------------------

Step(t) ==
    \/ Find(t) \/ InsertRevision(t) \/ ReviewAgain(t) \/ Point(t)
    \/ WriteCorrection(t) \/ RefuseBatch(t) \/ Look(t) \/ Reopen(t)
    \/ ReadModel(t) \/ Stamp(t) \/ Mark(t)
    \/ Load(t) \/ Store(t) \/ Saved(t) \/ Conflict(t)

Request(t) ==
    \/ \E source \in Sources, extract \in Extracts : Ingest(t, source, extract)
    \/ \E batch \in Batches : Correct(t, batch)
    \/ Confirm(t)
    \/ Save(t)

Next ==
    \/ Delete
    \/ \E t \in Tabs : Request(t) \/ Step(t) \/ Reload(t) \/ Fail(t)

Spec == Init /\ [][Next]_vars

-----------------------------------------------------------------------------

Revision == [source : Sources, extract : Extracts, model : Batches \cup {Plain, None},
             accepted : BOOLEAN, stamped : BOOLEAN]

Scores == [revision : Nat, saves : SUBSET (1 .. MaxRequests)]

\* The rows have their columns and the profile points at a revision that exists.
TypeOK ==
    /\ profile \in [state : {"needs_review", "confirmed", "reconfirm_required"},
                    current : {0} \cup DOMAIN revisions, deleted : BOOLEAN]
    /\ revisions \in Seq(Revision)
    /\ grades \in Scores
    /\ seen \in [Tabs -> Scores]
    /\ asked \subseteq DOMAIN revisions
    /\ torn \subseteq DOMAIN revisions

\* read.py calculator_ready, of a profile that get_syllabus_grade_profile returns
CalculatorReady ==
    /\ ~profile.deleted
    /\ profile.current # 0
    /\ profile.state = "confirmed"
    /\ revisions[profile.current].model # None
    /\ revisions[profile.current].accepted

\* Uploads of one file from two tabs leave one revision of it.
OneRevisionPerSource ==
    \A m, n \in DOMAIN revisions : revisions[m].source = revisions[n].source => m = n

\* The trust gate: however corrections and confirmations of a revision
\* interleave, the calculator never works on a model that reconciliation did
\* not accept, because model and status are written together.
ReadyIsAccepted ==
    CalculatorReady =>
        LET row == revisions[profile.current] IN <<row.extract, row.model>> \in Accepts

\* ingest_syllabus_extraction: "a new source must never silently inherit an
\* old confirmation", whatever uploads, corrections and confirmations overlap.
NothingInherited == profile.state = "confirmed" => profile.current \in asked

\* When no correction of it is under way, a calculator that is ready works on
\* a model the student confirmed, unless a correction landed between the two
\* writes of a confirm or failed between its own.
ReadyIsConfirmed ==
    CalculatorReady =>
        LET n == profile.current
        IN  revisions[n].stamped \/ n \in torn \/ \E t \in Tabs : Correcting(t, n)

\* save_grade_state: a save of a tab that had loaded saved scores replaces
\* exactly the scores it had loaded, so no other tab's save is lost.
SavesBuildOnSeen ==
    [][\A t \in Tabs :
          At(t, "store") /\ req[t].expected # 0 /\ req'[t].at = "saved"
              => grades.revision = req[t].expected /\ grades.saves \subseteq grades'.saves]_vars

\* read.py calculator_ready: "Requires BOTH: the student has confirmed ..."
ReadyOnlyConfirmed ==
    CalculatorReady /\ (\A t \in Tabs : At(t, "idle")) => revisions[profile.current].stamped

=============================================================================
