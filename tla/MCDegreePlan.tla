---------------------------- MODULE MCDegreePlan ----------------------------
(***************************************************************************)
(* A program with a core, a choice of one of two courses, a choice of two  *)
(* paths and a freeform group, for students and catalogs that differ in    *)
(* what is completed, what requires what, and what is locked or set aside. *)
(***************************************************************************)
EXTENDS DegreePlan, TLC

Codes == <<"A", "B", "C", "D", "E", "F", "G">>

MCCourses == {Codes[i] : i \in 1..7}

MCRank == [c \in MCCourses |-> CHOOSE i \in 1..7 : Codes[i] = c]

\* F weighs more than the others.
MCHours == [c \in MCCourses |-> IF c = "F" THEN 4 ELSE 3]

Option(index, logic, rows) == [index |-> index, logic |-> logic, rows |-> rows]

Row(type, kids, options, need) ==
    [type |-> type, kids |-> kids, options |-> options, need |-> need,
     manual |-> FALSE, unsafe |-> FALSE]

\* C and D are one cross-listed course.
MCProgram ==
    ("top" :> Row("compound_all", {"core", "pick", "path", "talk"}, {}, 0)) @@
    ("core" :> Row("enumerated_all", {},
                   {Option(1, "and", {{"A"}, {"B"}}), Option(2, "or", {{"C", "D"}})}, 0)) @@
    ("pick" :> Row("enumerated_at_least_n", {},
                   {Option(1, "or", {{"E"}}), Option(2, "or", {{"F"}})}, 1)) @@
    ("path" :> Row("compound_any", {"one", "sum"}, {}, 0)) @@
    ("one" :> Row("enumerated_all", {}, {Option(1, "or", {{"E"}, {"G"}})}, 0)) @@
    ("sum" :> Row("enumerated_credit_threshold", {},
                  {Option(1, "or", {{"F"}}), Option(2, "or", {{"G"}})}, 6)) @@
    ("talk" :> Row("freeform", {}, {}, 0))

MCGroups == DOMAIN MCProgram

Needs(all, coreq) == [all |-> all, coreq |-> coreq, review |-> FALSE]

Catalog(rules) == rules @@ [c \in MCCourses |-> Needs({}, {})]

\* A chain; two courses that have to be taken together; a cycle within the
\* core; a corequisite that is not ready yet, and three that fit in no term.
MCPrereqs ==
    {Catalog(("B" :> Needs({{"A"}}, {})) @@ ("F" :> Needs({{"A"}, {"B"}}, {})) @@ ("G" :> Needs({{"A", "E"}}, {}))),
     Catalog(("A" :> Needs({}, {"C"})) @@ ("C" :> Needs({{"A"}}, {"A"})) @@ ("G" :> Needs({{"E"}}, {"E"}))),
     Catalog(("A" :> Needs({{"B"}}, {})) @@ ("B" :> Needs({{"A"}}, {})) @@ ("E" :> [Needs({}, {}) EXCEPT !.review = TRUE])),
     Catalog(("B" :> Needs({{"A"}}, {})) @@ ("C" :> Needs({}, {"B"})) @@
             ("E" :> Needs({}, {"F"})) @@ ("F" :> Needs({{"G", "C"}}, {"G"})) @@ ("G" :> Needs({}, {"E"})))}

Record(code, status, credit) ==
    [code |-> code, status |-> status, credit |-> credit, hours |-> MCHours[code]]

MCRecords ==
    {{},
     {Record("A", "completed", TRUE), Record("E", "in_progress", FALSE)},
     {Record("B", "completed", TRUE), Record("D", "planned", FALSE)},
     {Record("F", "completed", TRUE)}}

Lock(group, owner, order, codes) ==
    [group |-> group, choice |-> [owner |-> owner, order |-> order, courses |-> codes]]

PickE == Lock("pick", "pick", {1}, {"E"})

PickF == Lock("pick", "pick", {2}, {"F"})

\* None; one of each group; the same course twice; two for one group.
MCLocks ==
    {{}, {PickE}, {PickF}, {Lock("path", "sum", {1, 2}, {"F", "G"})},
     {PickE, Lock("path", "one", {1}, {"E"})}, {PickE, PickF}}

Input(records, prereqs, locks, excluded, ranked, maxTerms) ==
    [records : records, prereqs : prereqs, locks : locks, excluded : excluded,
     ranked : ranked, maxTerms : maxTerms]

MCInputs ==
    Input(MCRecords, MCPrereqs, MCLocks, {{}, {"core"}, {"pick"}}, BOOLEAN, {1, 2, 3})

\* What the completeness of a plan is proved from is true of this instance.
MCAnswerable ==
    /\ ProgramAnswerable
    /\ Inputs = MCInputs => RecordsCredited
ASSUME MCAnswerable

\* A withdrawal: completed, but not toward credit.
WithdrawnInputs ==
    Input({{Record("E", "completed", FALSE)}}, MCPrereqs, {{}}, {{}}, {FALSE}, {3})

=============================================================================
