--------------------------- MODULE CourseRecords ---------------------------
(***************************************************************************)
(* One student's planned_courses, academic_terms and course_records.  A    *)
(* page load promotes due planned courses (planning/lifecycle.py), the     *)
(* student adds, edits, drops and finalizes courses, uploads transcripts,  *)
(* corrects and confirms their rows, and a confirm reconciles repeats      *)
(* (transcript/store.py, review.py, repeats.py).  No request holds a       *)
(* transaction across its calls, and requests run on a pool of threads.    *)
(***************************************************************************)
EXTENDS RecordRules

CONSTANTS
    Reqs,          \* requests the server handles at the same time
    Kinds,         \* what the student does in this instance
    FirstTerms,    \* the student's term rows at the start, a sequence of TermKeys
    Activation,    \* TermKeys -> day a term activates, None without a calendar row
    LastDay,       \* bound on the days that pass
    Transcripts,   \* what an upload may parse to: [inst, courses]
    NewCourses,    \* what the student may add: [key, code, catalog,
                   \* hours, force]
    Edits,         \* what an edit may write: [key, code, grade, status]
    Home,          \* institution of planned courses
    Verified,      \* institutions with a verified grade scale
    MaxInputs,     \* bound on the courses added and transcripts uploaded
    MaxFailures    \* bound on the calls that fail

ASSUME RecordsAssumption ==
    /\ FirstTerms \in Seq(TermKeys)
    /\ \A i, j \in DOMAIN FirstTerms : FirstTerms[i] = FirstTerms[j] => i = j
    /\ Activation \in [TermKeys -> Nat \cup {None}]
    /\ None \notin Reqs
    /\ Home \in Institutions
    /\ Verified \subseteq Institutions
    /\ LastDay \in Nat /\ MaxInputs \in Nat /\ MaxFailures \in Nat
    /\ Transcripts \subseteq
          [inst : Institutions,
           courses : SUBSET [key : TermKeys \cup {None}, code : Codes,
                             grade : Letters \cup {None}, status : {"completed", "in_progress"}]]
    /\ NewCourses \subseteq [key : TermKeys \cup {None}, code : Codes, catalog : Nat \cup {None},
                             hours : BOOLEAN, force : BOOLEAN]
    /\ Edits \subseteq [key : TermKeys \cup {None}, code : Codes, grade : Letters \cup {None},
                        status : {"completed", "in_progress", "dropped"}]

VARIABLES
    terms,        \* academic_terms: position is the id and the sequence number
    planned,      \* planned_courses rows
    records,      \* course_records: position is the id; rows are never deleted
    today,
    req,          \* each request: where it is and what it has read
    undisturbed,  \* reconciling requests since whose read nobody else wrote records
    removed,      \* planned rows the student deleted
    inputs,       \* courses added and transcripts uploaded so far
    failures      \* calls that failed so far

vars == <<terms, planned, records, today, req, undisturbed, removed, inputs, failures>>

Idle == [at |-> "idle"]

Goto(r, where) == req' = [req EXCEPT ![r] = where]

At(r, where) == req[r].at = where

Start(r, kind) == At(r, "idle") /\ kind \in Kinds

-----------------------------------------------------------------------------
(* The tables. *)

\* course_records_student_term_course_key: null terms are not distinct.
Key(row) == <<row.term, row.code>>

Taken(key, rows) == \E i \in DOMAIN rows : Key(rows[i]) = key

\* plan is the planned row it comes from, if any, and was every key it has had.
NewRow(plan, term, code, catalog, inst, grade, status, confirmed) ==
    [plan |-> plan, term |-> term, code |-> code, was |-> {<<term, code>>}, catalog |-> catalog,
     inst |-> inst, grade |-> grade, status |-> status, confirmed |-> confirmed, by |-> None]

\* A course under way, as promotion and a direct add write it.
Current(plan, term, x) ==
    NewRow(plan, term, x.code, x.catalog, Home, None, "in_progress", TRUE)

\* Mutant: a plain insert, as on a table without the unique key.
Insert(row) == Append(records, row)

\* ON CONFLICT DO NOTHING
Upsert(row) == IF Taken(Key(row), records) THEN records ELSE Append(records, row)

\* A request writes course_records; the others that are reconciling are disturbed.
Write(r, rows) ==
    /\ records' = rows
    /\ undisturbed' = IF rows = records THEN undisturbed ELSE undisturbed \cap {r}

Init ==
    /\ terms = FirstTerms
    /\ planned = {}
    /\ records = <<>>
    /\ today = 0
    /\ req = [r \in Reqs |-> Idle]
    /\ undisturbed = {}
    /\ removed = {}
    /\ inputs = 0
    /\ failures = 0

Tomorrow ==
    /\ today < LastDay
    /\ today' = today + 1
    /\ UNCHANGED <<terms, planned, records, req, undisturbed, removed, inputs, failures>>

Activated(term) ==
    term # 0 /\ Activation[terms[term]] # None /\ today >= Activation[terms[term]]

\* A call fails or its answer is lost, and with it the request; what it wrote stays.
Fail(r) ==
    /\ ~At(r, "idle")
    /\ failures < MaxFailures
    /\ failures' = failures + 1
    /\ Goto(r, Idle)
    /\ undisturbed' = undisturbed \ {r}
    /\ UNCHANGED <<terms, planned, records, today, removed, inputs>>

-----------------------------------------------------------------------------
(* GET terms, planned-courses or profile: promote_due_planned_courses.     *)

LoadPage(r) ==
    /\ Start(r, "page")
    /\ \E p \in planned : Activated(p.term)
    /\ Goto(r, [at |-> "promote", due |-> {p \in planned : Activated(p.term)}])
    /\ UNCHANGED <<terms, planned, records, today, undisturbed, removed, inputs, failures>>

Remaining(due) == IF due = {} THEN Idle ELSE [at |-> "promote", due |-> due]

\* Mutant: an error in one row is passed over and the row is removed all the same.
PromoteRegardless(r) ==
    /\ At(r, "promote")
    /\ \E p \in req[r].due :
          /\ Write(r, IF p.hours THEN Upsert(Current(p.id, p.term, p)) ELSE records)
          /\ Goto(r, [at |-> "fulfil", plan |-> p, due |-> req[r].due \ {p}])
    /\ UNCHANGED <<terms, planned, today, removed, inputs, failures>>

\* Mutant: a course that is recorded already is left in the plan.
PromoteUnlessRecorded(r) ==
    /\ At(r, "promote")
    /\ \E p \in req[r].due :
          /\ p.hours
          /\ Write(r, Upsert(Current(p.id, p.term, p)))
          /\ Goto(r, IF Taken(<<p.term, p.code>>, records) THEN Remaining(req[r].due \ {p})
                     ELSE [at |-> "fulfil", plan |-> p, due |-> req[r].due \ {p}])
    /\ UNCHANGED <<terms, planned, today, removed, inputs, failures>>

\* A row without credit hours violates NOT NULL, and the rest of the loop is lost.
Promote(r) ==
    /\ At(r, "promote")
    /\ \E p \in req[r].due :
          \/ /\ p.hours
             /\ Write(r, Upsert(Current(p.id, p.term, p)))
             /\ Goto(r, [at |-> "fulfil", plan |-> p, due |-> req[r].due \ {p}])
          \/ /\ ~p.hours
             /\ Goto(r, Idle)
             /\ UNCHANGED <<records, undisturbed>>
    /\ UNCHANGED <<terms, planned, today, removed, inputs, failures>>

\* The planned row goes once a record covers it.
Fulfil(r) ==
    /\ At(r, "fulfil")
    /\ planned' = planned \ {req[r].plan}
    /\ Goto(r, Remaining(req[r].due))
    /\ UNCHANGED <<terms, records, today, undisturbed, removed, inputs, failures>>

-----------------------------------------------------------------------------
(* Term rows on demand: ensure_term_row and resolve_terms.                 *)

\* The missing terms are inserted in time order after the highest sequence read.
Resolving(keys, then) ==
    [at |-> "resolve", missing |-> {k \in keys : \A i \in DOMAIN terms : terms[i] # k},
     next |-> Len(terms) + 1, then |-> then]

Resolved(q, k) ==
    [at |-> "resolve", missing |-> q.missing \ {k}, next |-> q.next + 1, then |-> q.then]

\* Mutant: the insert does not run into academic_terms_student_sequence_key.
InsertTermAnyway(r) ==
    /\ At(r, "resolve")
    /\ \E k \in req[r].missing :
          /\ \A other \in req[r].missing : k <= other
          /\ terms' = Append(terms, k)
          /\ Goto(r, Resolved(req[r], k))
    /\ UNCHANGED <<planned, records, today, undisturbed, removed, inputs, failures>>

\* Somebody else's term row at this sequence number fails the insert.
InsertTerm(r) ==
    /\ At(r, "resolve")
    /\ \E k \in req[r].missing :
          /\ \A other \in req[r].missing : k <= other
          /\ IF Len(terms) < req[r].next
               THEN /\ terms' = Append(terms, k)
                    /\ Goto(r, Resolved(req[r], k))
               ELSE Goto(r, Idle) /\ UNCHANGED terms
    /\ UNCHANGED <<planned, records, today, undisturbed, removed, inputs, failures>>

TermOf(key) == IF key = None THEN 0 ELSE CHOOSE i \in DOMAIN terms : terms[i] = key

\* The term is known: its activation decides which table an added course goes to.
Proceed(r) ==
    /\ At(r, "resolve") /\ req[r].missing = {}
    /\ LET then == req[r].then
       IN  Goto(r, IF then.at = "plan" /\ ~then.course.force /\ Activated(TermOf(then.course.key))
                     THEN [then EXCEPT !.at = "record"] ELSE then)
    /\ UNCHANGED <<terms, planned, records, today, undisturbed, removed, inputs, failures>>

-----------------------------------------------------------------------------
(* POST and DELETE planned-courses.                                        *)

AddCourse(r, x) ==
    /\ Start(r, "add")
    /\ inputs < MaxInputs
    /\ inputs' = inputs + 1
    /\ Goto(r, Resolving({x.key} \ {None}, [at |-> "plan", id |-> inputs + 1, course |-> x]))
    /\ UNCHANGED <<terms, planned, records, today, undisturbed, removed, failures>>

\* add_planned: no dedupe.
AddPlanned(r) ==
    /\ At(r, "plan")
    /\ LET x == req[r].course
       IN  planned' = planned \cup {[id |-> req[r].id, term |-> TermOf(x.key), code |-> x.code,
                                     catalog |-> x.catalog, hours |-> x.hours]}
    /\ Goto(r, Idle)
    /\ UNCHANGED <<terms, records, today, undisturbed, removed, inputs, failures>>

\* Without credit hours the insert fails.
AddRecord(r) ==
    /\ At(r, "record")
    /\ LET x == req[r].course
       IN  Write(r, IF x.hours THEN Upsert(Current(None, TermOf(x.key), x)) ELSE records)
    /\ Goto(r, Idle)
    /\ UNCHANGED <<terms, planned, today, removed, inputs, failures>>

RemovePlanned(p) ==
    /\ "remove" \in Kinds
    /\ planned' = planned \ {p}
    /\ removed' = removed \cup {p.id}
    /\ UNCHANGED <<terms, records, today, req, undisturbed, inputs, failures>>

-----------------------------------------------------------------------------
(* POST finalize and PATCH course-records.                                 *)

Finalize(r, i, letter) ==
    /\ Start(r, "finalize")
    /\ records[i].status = "in_progress"
    /\ Goto(r, [at |-> "finalize", id |-> i, grade |-> letter])
    /\ UNCHANGED <<terms, planned, records, today, undisturbed, removed, inputs, failures>>

\* Mutant: the update is not scoped to status = 'in_progress'.
CompleteAgain(r) ==
    /\ At(r, "finalize")
    /\ Write(r, [records EXCEPT ![req[r].id].grade = req[r].grade,
                                ![req[r].id].status = "completed"])
    /\ Goto(r, Idle)
    /\ UNCHANGED <<terms, planned, today, removed, inputs, failures>>

\* A request that lost the race changes nothing.
Complete(r) ==
    /\ At(r, "finalize")
    /\ Write(r, IF records[req[r].id].status = "in_progress"
                  THEN [records EXCEPT ![req[r].id].grade = req[r].grade,
                                       ![req[r].id].status = "completed"]
                  ELSE records)
    /\ Goto(r, Idle)
    /\ UNCHANGED <<terms, planned, today, removed, inputs, failures>>

\* An update that would collide with another row's key is refused.
Rekey(i, term, code, rest) ==
    /\ \A j \in DOMAIN records : Key(records[j]) = <<term, code>> => j = i
    /\ Write(None, [records EXCEPT ![i] = [rest EXCEPT !.term = term, !.code = code,
                                                       !.was = @ \cup {<<term, code>>}]])
    /\ UNCHANGED <<terms, planned, today, req, removed, inputs, failures>>

\* edit_in_progress_course: course, term and current grade, or a drop.
EditCourse(i, x) ==
    /\ "edit" \in Kinds
    /\ records[i].status = "in_progress"
    /\ x.status # "completed"
    /\ x.key = None \/ x.key \in {terms[t] : t \in DOMAIN terms}
    /\ Rekey(i, TermOf(x.key), x.code, [records[i] EXCEPT !.grade = x.grade, !.status = x.status])

-----------------------------------------------------------------------------
(* Transcript upload, review and confirmation.                             *)

Storing(t) == [at |-> "store", parsed |-> t]

Upload(r, t) ==
    /\ Start(r, "upload")
    /\ inputs < MaxInputs
    /\ inputs' = inputs + 1
    /\ Goto(r, Resolving({c.key : c \in t.courses} \ {None}, Storing(t)))
    /\ UNCHANGED <<terms, planned, records, today, undisturbed, removed, failures>>

\* store_parsed_transcript upserts one course at a time.
StoreCourse(r) ==
    /\ At(r, "store")
    /\ \E c \in req[r].parsed.courses :
          /\ Write(r, Upsert(NewRow(None, TermOf(c.key), c.code, Match(c.code), req[r].parsed.inst,
                                    c.grade, c.status, FALSE)))
          /\ Goto(r, IF req[r].parsed.courses = {c} THEN Idle
                     ELSE Storing([req[r].parsed EXCEPT !.courses = @ \ {c}]))
    /\ UNCHANGED <<terms, planned, today, removed, inputs, failures>>

\* apply_edit: only while the row is unconfirmed; the term and the catalog match stay.
ReviewEdit(i, x) ==
    /\ "review" \in Kinds
    /\ ~records[i].confirmed
    /\ x.status # "dropped"
    /\ Rekey(i, records[i].term, x.code, [records[i] EXCEPT !.grade = x.grade, !.status = x.status])

Pending == {i \in DOMAIN records : ~records[i].confirmed}

\* confirm_course_rows: the institutions of the pending rows pass the gate.
Confirm(r, all, ids) ==
    /\ Start(r, "confirm")
    /\ ids \subseteq Pending /\ ids # {}
    /\ all => ids = Pending
    /\ \A i \in ids : records[i].inst \in Verified
    /\ Goto(r, [at |-> "stamp", all |-> all, ids |-> ids])
    /\ UNCHANGED <<terms, planned, records, today, undisturbed, removed, inputs, failures>>

Stamp(r) ==
    /\ At(r, "stamp")
    /\ LET ids == IF req[r].all THEN Pending ELSE req[r].ids
       IN  Write(r, [i \in DOMAIN records |->
                       IF i \in ids THEN [records[i] EXCEPT !.confirmed = TRUE] ELSE records[i]])
    /\ Goto(r, [at |-> "reconcile"])
    /\ UNCHANGED <<terms, planned, today, removed, inputs, failures>>

\* Mutant: exclusions are planned over the pending rows too.
RowsOf(rows) == rows

\* _confirmed_rows_with_terms
ConfirmedRows(rows) == [i \in {j \in DOMAIN rows : rows[j].confirmed} |-> rows[i]]

ReadConfirmed(r) ==
    /\ At(r, "reconcile")
    /\ Goto(r, [at |-> "clear", rows |-> ConfirmedRows(records)])
    /\ undisturbed' = undisturbed \cup {r}
    /\ UNCHANGED <<terms, planned, records, today, removed, inputs, failures>>

\* Mutant: the exclusions of the last run are left standing.
NotCleared(rows) == records

Cleared(rows) ==
    [i \in DOMAIN records |->
        IF i \in DOMAIN rows /\ rows[i].by # None THEN [records[i] EXCEPT !.by = None]
        ELSE records[i]]

\* Clear what the read found excluded, then plan over the rows read.
Clear(r) ==
    /\ At(r, "clear")
    /\ Write(r, Cleared(req[r].rows))
    /\ \E plan \in Plans(req[r].rows, terms) : Goto(r, [at |-> "exclude", plan |-> plan])
    /\ UNCHANGED <<terms, planned, today, removed, inputs, failures>>

Exclude(r) ==
    /\ At(r, "exclude")
    /\ \E i \in DOMAIN req[r].plan :
          /\ Write(r, [records EXCEPT ![i].by = req[r].plan[i]])
          /\ Goto(r, [at |-> "exclude",
                      plan |-> [j \in DOMAIN req[r].plan \ {i} |-> req[r].plan[j]]])
    /\ UNCHANGED <<terms, planned, today, removed, inputs, failures>>

\* Every exclusion is written and the confirmation is answered.
Answered(r) == At(r, "exclude") /\ DOMAIN req[r].plan = {}

AnswerConfirm(r) ==
    /\ Answered(r)
    /\ Goto(r, Idle)
    /\ undisturbed' = undisturbed \ {r}
    /\ UNCHANGED <<terms, planned, records, today, removed, inputs, failures>>

-----------------------------------------------------------------------------

\* What a request that the server has begun does next.
Step(r) ==
    \/ Promote(r) \/ Fulfil(r)
    \/ InsertTerm(r) \/ Proceed(r) \/ AddPlanned(r) \/ AddRecord(r)
    \/ Complete(r)
    \/ StoreCourse(r)
    \/ Stamp(r) \/ ReadConfirmed(r) \/ Clear(r) \/ Exclude(r) \/ AnswerConfirm(r)

\* A request of the student comes in.
Begin(r) ==
    \/ LoadPage(r)
    \/ \E x \in NewCourses : AddCourse(r, x)
    \/ \E i \in DOMAIN records, letter \in Letters : Finalize(r, i, letter)
    \/ \E t \in Transcripts : Upload(r, t)
    \/ \E all \in BOOLEAN, ids \in SUBSET Pending : Confirm(r, all, ids)

Next ==
    \/ Tomorrow
    \/ \E r \in Reqs : Begin(r) \/ Step(r) \/ Fail(r)
    \/ \E p \in planned : RemovePlanned(p)
    \/ \E i \in DOMAIN records, x \in Edits : EditCourse(i, x) \/ ReviewEdit(i, x)

Spec == Init /\ [][Next]_vars

\* A request the server has begun goes on, and the student keeps loading pages.
FairSpec == Spec /\ \A r \in Reqs : WF_vars(Step(r)) /\ SF_vars(LoadPage(r))

-----------------------------------------------------------------------------

Row == [plan : Nat \cup {None}, term : Nat, code : Codes, was : SUBSET (Nat \X Codes),
        inst : Institutions, catalog : Nat \cup {None}, grade : Letters \cup {None},
        status : {"completed", "in_progress", "dropped"}, confirmed : BOOLEAN,
        by : Nat \cup {None}]

\* Every row has its columns, points at a term row that exists and is
\* superseded, if at all, by a row that exists (course_records and its checks).
TypeOK ==
    /\ terms \in Seq(TermKeys)
    /\ planned \subseteq [id : 1 .. inputs, term : 0 .. Len(terms), code : Codes,
                    catalog : Nat \cup {None}, hours : BOOLEAN]
    /\ \A i \in DOMAIN records :
          /\ records[i] \in Row
          /\ records[i].term \in 0 .. Len(terms)
          /\ records[i].by \in DOMAIN records \cup {None}
    /\ today \in 0 .. LastDay
    /\ undisturbed \subseteq Reqs
    /\ removed \subseteq 1 .. inputs

\* terms.py and ensure_term_row read the terms and insert later, with no key on
\* (year, season): the key on the sequence number alone keeps a term from
\* getting two rows, which would split its courses and admit a course twice.
OneRowPerTerm == \A i, j \in DOMAIN terms : terms[i] = terms[j] => i = j

\* Whatever page loads overlap or die between the upsert and the delete, a
\* planned row becomes two records only if the student re-keyed one of them.
PromotedOnce ==
    \A i, j \in DOMAIN records :
        i # j /\ records[i].plan # None /\ records[i].plan = records[j].plan
            => \E k \in {i, j} : Cardinality(records[k].was) > 1

\* A planned row disappears because the student removed it or because a record
\* has covered its term and course: a failing promotion loses no plan.
FulfilledNotLost ==
    [][\A p \in planned \ planned' :
          \/ p.id \in removed'
          \/ \E i \in DOMAIN records : <<p.term, p.code>> \in records[i].was]_vars

\* A confirmed row with a final status keeps its course, term, grade and
\* status, whatever finalize, edit, review and upload requests are under way.
HistoryKept ==
    [][\A i \in DOMAIN records :
          records[i].confirmed /\ records[i].status # "in_progress"
              => records'[i] = [records[i] EXCEPT !.by = records'[i].by]]_vars

\* Confirms that interleave with uploads and each other never let a row that
\* is not confirmed, or the row itself, take a grade out of the GPA.
ExclusionsSound ==
    \A i \in DOMAIN records :
        LET j == records[i].by
        IN  j # None => j # i /\ records[i].confirmed /\ records[j].confirmed

\* A confirm nobody wrote beside leaves exactly the exclusions the policy
\* gives for the confirmed rows, none of an earlier run.
ReconciledIsPlan ==
    \A r \in undisturbed :
        Answered(r) =>
            LET out == {i \in DOMAIN records : records[i].by # None}
            IN  [i \in out |-> records[i].by] \in Plans(ConfirmedRows(records), terms)

Due(n) == \E p \in planned : p.id = n /\ p.hours /\ Activated(p.term)

Gone(n) == \A p \in planned : p.id # n

\* Although page loads overlap, fail and give up midway, a planned course with
\* credit hours leaves the plan once its term has activated, if no planned
\* course without credit hours is due beside it.
DuePromoted ==
    \A n \in 1 .. MaxInputs :
        Due(n) ~> Gone(n) \/ \E p \in planned : ~p.hours /\ Activated(p.term)

\* repeats.py: a row can only ever be superseded by a row that is already
\* counting.
SupersededByCounting ==
    \A i \in DOMAIN records :
        records[i].by # None => InOfficialGpa(records[records[i].by])

=============================================================================
