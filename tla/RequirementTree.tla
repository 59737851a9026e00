-------------------------- MODULE RequirementTree --------------------------
(***************************************************************************)
(* A degree program as a tree of requirement groups, evaluated against the *)
(* student's course records (requirement_satisfaction.py), split into the  *)
(* courses that are required without a choice and the groups left to a     *)
(* choice (scheduler_scope.py), and the candidates of such a group         *)
(* (requirement_selection.py).                                             *)
(***************************************************************************)
EXTENDS CourseCatalog

CONSTANTS
    Groups,        \* requirement groups
    Top,           \* the groups without a parent
    Program        \* group -> its row, its children and its options

GroupTypes == {"compound_all", "compound_any", "enumerated_all",
               "enumerated_at_least_n", "enumerated_credit_threshold", "freeform"}

\* A row of an option is the set of codes that satisfy it: two for a course
\* listed by two departments, none for a reference the catalog does not have.
OptionRows == [index : Nat, logic : {"and", "or"}, rows : SUBSET SUBSET Courses]

\* need stands for n_required and credit_hours_required, manual for
\* requires_manual_definition, unsafe for notes that ask for an approval.
GroupRows == [type : GroupTypes, kids : SUBSET Groups, options : SUBSET OptionRows,
              need : Nat, manual : BOOLEAN, unsafe : BOOLEAN]

\* Rows of one group name different courses; a group has one parent, so that no
\* group the top ones lead to is its own ancestor.
TreeAssumption ==
    /\ IsFiniteSet(Groups)
    /\ Top \subseteq Groups
    /\ \A S \in SUBSET Groups : S # {} => \E g \in S : Program[g].kids \cap S = {}
    /\ \A g \in Groups :
          LET p == Program[g] IN
          /\ p.type \in GroupTypes /\ p.kids \subseteq Groups /\ p.need \in Nat
          /\ p.manual \in BOOLEAN /\ p.unsafe \in BOOLEAN
          /\ IsFiniteSet(p.options)
          /\ \A o \in p.options :
                /\ o.index \in Nat /\ o.logic \in {"and", "or"}
                /\ \A row \in o.rows : row \subseteq Courses
          /\ \A o, q \in p.options : \A r \in o.rows, s \in q.rows :
                r = s \/ r \cap s = {}
ASSUME TreeAssumption

Compound(g) == Program[g].type \in {"compound_all", "compound_any"}

----------------------------------------------------------------------------
(* The student's records: rows of a code, a status, whether they count     *)
(* toward credit, and their credit hours.                                  *)

\* Rows that count toward a requirement; an open one counts without credit.
Counting(records) ==
    {r \in records : r.status = "in_progress" \/ (r.status = "completed" /\ r.credit)}

Earned(records) == {r.code : r \in Counting(records)}

\* _build_matched_courses: a completed row stands before one in progress.
Matched(records, c) ==
    LET rows == {r \in Counting(records) : r.code = c}
        completed == {r \in rows : r.status = "completed"}
    IN  CHOOSE r \in rows : completed # {} => r \in completed

\* satisfied_course_codes: what counts as a cleared prerequisite.
Cleared(records) == {r.code : r \in {r \in records : r.status \in {"completed", "in_progress"}}}

----------------------------------------------------------------------------
(* Evaluation.                                                             *)

OptionMet(o, earned) ==
    IF o.logic = "and"
      THEN o.rows # {} /\ \A row \in o.rows : row \cap earned # {}
      ELSE (UNION o.rows) \cap earned # {}

\* An option with a row that cannot be resolved reports no match at all.
OptionHits(o, earned) ==
    IF o.logic = "and" /\ {} \in o.rows THEN {} ELSE (UNION o.rows) \cap earned

LeafHits(g, earned) ==
    IF Program[g].type = "enumerated_credit_threshold"
      THEN (UNION {UNION o.rows : o \in Program[g].options}) \cap earned
      ELSE UNION {OptionHits(o, earned) : o \in Program[g].options}

\* Hours count as the student's records have them, not the catalog.
HoursEarned(records, hits) == MapThenSumSet(LAMBDA c : Matched(records, c).hours, hits)

LeafMet(g, records) ==
    LET p == Program[g]
        earned == Earned(records)
        met == {o \in p.options : OptionMet(o, earned)}
        total == HoursEarned(records, LeafHits(g, earned))
    IN  CASE p.type = "enumerated_at_least_n" -> Cardinality(met) >= p.need
          [] p.type = "enumerated_credit_threshold" -> total > 0 /\ total >= p.need
          [] OTHER -> p.options # {} /\ met = p.options

Result(status, hits, started, kids) ==
    [status |-> status, hits |-> hits, started |-> started, kids |-> kids]

Graded(met, started) ==
    IF met THEN "SATISFIED" ELSE IF started THEN "IN_PROGRESS" ELSE "NOT_STARTED"

\* A leaf whose hits are worth no hours is not started, yet has its match.
LeafResult(g, records) ==
    LET hits == LeafHits(g, Earned(records))
        begun == IF Program[g].type = "enumerated_credit_threshold"
                   THEN HoursEarned(records, hits) > 0 ELSE hits # {}
    IN  Result(Graded(LeafMet(g, records), begun), hits, hits # {}, {})

\* evaluate_requirement_tree
Evaluate(records) ==
    LET result[g \in Groups] ==
          LET kids == Program[g].kids
              met == {k \in kids : result[k].status = "SATISFIED"}
              started == \E k \in kids : result[k].started
          IN  IF Program[g].manual THEN Result("MANUAL_REVIEW", {}, FALSE, {})
              ELSE IF ~ Compound(g) THEN LeafResult(g, records)
              ELSE LET done == IF Program[g].type = "compound_all"
                                 THEN kids # {} /\ met = kids ELSE met # {}
                   IN  Result(Graded(done, started), {}, started, kids)
    IN  result

----------------------------------------------------------------------------
(* Scope: what is scheduled without a choice, what is deferred.            *)

\* visit goes through compound_all groups only.
Visited(result) ==
    LET under[g \in Groups] ==
          IF Program[g].type = "compound_all" /\ result[g].kids # {}
            THEN UNION {under[k] : k \in result[g].kids} ELSE {g}
    IN  UNION {under[g] : g \in Top}

Open(result) == {g \in Visited(result) : result[g].status # "SATISFIED"}

OptionsHaveChoice(g) ==
    \E o \in Program[g].options : o.logic = "or" /\ Cardinality(o.rows) > 1

NoChoice(result, excluded) ==
    {g \in Open(result) : /\ Program[g].type = "enumerated_all"
                          /\ ~ OptionsHaveChoice(g)
                          /\ g \notin excluded}

Freeform(result) == {g \in Open(result) : Program[g].type = "freeform"}

Deferred(result, excluded) ==
    Open(result) \ (NoChoice(result, excluded) \cup Freeform(result))

Usable(row) == {c \in row : Hours[c] > 0}

First(S) == CHOOSE c \in S : \A d \in S : Rank[c] <= Rank[d]

\* One code of a cross-listed row: on the transcript, else first in order.
Preferred(codes, cleared) == First(IF codes \cap cleared # {} THEN codes \cap cleared ELSE codes)

\* Mutant: a group with a match is taken as under way.
RequiredUnlessStarted(result, excluded, cleared) ==
    {Preferred(Usable(row), cleared) :
        row \in UNION {{row \in UNION {o.rows : o \in Program[g].options} : Usable(row) # {}} :
                         g \in {g \in NoChoice(result, excluded) : result[g].hits = {}}}}

\* scope_schedule_input's courses: a row with a match in its group is done, one
\* without usable hours is skipped.
Required(result, excluded, cleared) ==
    {Preferred(Usable(row), cleared) :
        row \in UNION {{row \in UNION {o.rows : o \in Program[g].options} :
                           row \cap result[g].hits = {} /\ Usable(row) # {}} :
                         g \in NoChoice(result, excluded)}}

----------------------------------------------------------------------------
(* The candidates of a deferred group.                                     *)

\* _option_variants: one code stands for a cross-listed row.
Alias(row, cleared) ==
    IF row \cap cleared # {} \/ Usable(row) = {} THEN Preferred(row, cleared)
      ELSE First(Usable(row))

Variants(o, cleared) ==
    LET codes == {Alias(row, cleared) : row \in o.rows \ {{}}}
    IN  IF codes = {} THEN {} ELSE IF o.logic = "or" THEN {{c} : c \in codes} ELSE {codes}

OptionDone(o, cleared) == \E v \in Variants(o, cleared) : v \subseteq cleared

\* One variant of each of the options.
Picks(options, cleared) ==
    {pick \in [options -> UNION {Variants(o, cleared) : o \in options}] :
        \A o \in options : pick[o] \in Variants(o, cleared)}

Choice(g, pick, cleared) ==
    [owner |-> g, order |-> {o.index : o \in DOMAIN pick},
     courses |-> (UNION {pick[o] : o \in DOMAIN pick}) \ cleared]

\* Which sets of options a leaf may be completed with.
Selections(g, result, cleared) ==
    LET p == Program[g]
        left == {o \in p.options : ~ OptionDone(o, cleared)}
        available == {o \in left : Variants(o, cleared) # {}}
        missing == p.need - Cardinality(p.options \ left)
    IN  CASE p.type = "enumerated_all" -> IF left = available THEN {left} ELSE {}
          [] p.type = "enumerated_at_least_n" ->
                {s \in SUBSET available : Cardinality(s) = IF missing > 0 THEN missing ELSE 0}
          [] p.type = "enumerated_credit_threshold" -> SUBSET available
          [] OTHER -> {}

LeafChoices(g, result, cleared) ==
    LET picks == UNION {Picks(s, cleared) : s \in Selections(g, result, cleared)}
        missing == Program[g].need - TotalHours(result[g].hits)   \* of the catalog
        enough == {pick \in picks : TotalHours(UNION {pick[o] : o \in DOMAIN pick}) >= missing}
    IN  {Choice(g, pick, cleared) :
            pick \in IF Program[g].type = "enumerated_credit_threshold" THEN enough ELSE picks}

\* _choices_for_group
CandidatesOf(result, cleared) ==
    LET choices[g \in Groups] ==
          IF Program[g].manual \/ Program[g].unsafe THEN {}
          ELSE IF Program[g].type = "compound_any"
            THEN UNION {{[ch EXCEPT !.owner = k] : ch \in choices[k]} : k \in result[g].kids}
          ELSE IF result[g].kids # {} THEN {}
          ELSE LeafChoices(g, result, cleared)
    IN  choices

=============================================================================
