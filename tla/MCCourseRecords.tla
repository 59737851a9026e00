-------------------------- MODULE MCCourseRecords --------------------------
(***************************************************************************)
(* Instances of CourseRecords.                                             *)
(***************************************************************************)
EXTENDS CourseRecords, TLC

CONSTANTS r1, r2, smu, tamu, m251, math251, cs

ReqSymmetry == Permutations(Reqs)

\* "MATH 251" and "MATH251" match one catalog course; the third matches none.
MCNormal == (m251 :> m251) @@ (math251 :> m251) @@ (cs :> None)

MCCatalogId == m251 :> 1

\* W is mapped and worth no points; Z is not in the scale.
MCPoints == ("A" :> 4) @@ ("F" :> 0) @@ ("W" :> None)

PassPoints == "A" :> 4

\* Term 1 has begun, term 2 activates on day 1, term 3 is not in the calendar.
MCActivation == (1 :> 0) @@ (2 :> 1) @@ (3 :> None)

OneTerm == <<1>>

Courses(keys, codes, hours, force) == [key : keys, code : codes, catalog : {None}, hours : hours, force : force]

PlanCourses == Courses({2}, {cs}, BOOLEAN, {FALSE}) \cup Courses({2}, {cs}, {TRUE}, {TRUE})

Entry(key, code, grade, status) == [key |-> key, code |-> code, grade |-> grade, status |-> status]

\* A failed attempt and its retake, a later upload in another spelling, and
\* another institution's transcript without a term.
MCTranscripts ==
    {[inst |-> smu, courses |-> {Entry(1, m251, "F", "completed"), Entry(2, m251, None, "in_progress")}],
     [inst |-> smu, courses |-> {Entry(2, math251, "F", "completed")}],
     [inst |-> tamu, courses |-> {Entry(None, cs, "W", "completed")}]}

FailedOnce == {[inst |-> smu, courses |-> {Entry(1, m251, "F", "completed")}]}

Retake == {[key |-> 2, code |-> m251, catalog |-> 1, hours |-> TRUE, force |-> FALSE]}

\* A correction to an A, and a course moved out of its term.
ReviewEdits == {[key |-> None, code |-> m251, grade |-> "A", status |-> "completed"],
                [key |-> None, code |-> m251, grade |-> "Z", status |-> "in_progress"]}

PlanEdits == {[key |-> 2, code |-> m251, grade |-> None, status |-> "in_progress"],
              [key |-> None, code |-> cs, grade |-> None, status |-> "dropped"]}

=============================================================================
