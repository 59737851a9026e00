----------------------------- MODULE DegreePlan -----------------------------
(***************************************************************************)
(* How a degree schedule is computed (_build_academic_schedule_state and   *)
(* build_optimized in api.py): the requirement tree is evaluated and split *)
(* into required courses and deferred groups; every combination of         *)
(* candidates of the deferred groups is tried on the scheduler             *)
(* (select_structured_requirements); the decisions are taken from the      *)
(* combinations that fit; and what they resolve is scheduled.              *)
(***************************************************************************)
EXTENDS RequirementTree, TermScheduler

CONSTANTS
    Inputs,      \* what the rows of a student and a catalog may give
    None

\* _count_long_terms counts from 0.
HorizonAssumption == \A i \in Inputs : i.maxTerms \in Nat
ASSUME HorizonAssumption

VARIABLES
    input,       \* the input of this computation
    stage,       \* "load", "pair", "try" combinations, "packing" one, "final", "done"
    base,        \* the required courses
    deferred,    \* the groups left to a choice
    manual,      \* the freeform groups
    choices,     \* deferred groups with a safe candidate -> their candidates
    untried,     \* combinations not simulated yet
    trying,      \* the one on the scheduler
    valid,       \* combinations that can be scheduled without a limitation
    plan         \* the decisions and what is left unscheduled

scoped == <<base, deferred, manual, choices>>

vars == <<input, stage, scoped, untried, trying, valid, plan, packing>>

----------------------------------------------------------------------------
(* Combinations of candidates.                                             *)

cleared == Cleared(input.records)

\* A candidate that has hours and hides no course behind needs_review.
Safe(candidate) ==
    \A c \in candidate.courses : Hours[c] > 0 /\ ~ input.prereqs[c].review

Choosable == DOMAIN choices

Chosen(combination, groups) == UNION {combination[g].courses : g \in groups}

\* A course has one owner: no group shares one with another or with the
\* required courses.
Compatible(combination) ==
    /\ \A g \in Choosable : combination[g].courses \cap base = {}
    /\ \A g, h \in Choosable : g # h => combination[g].courses \cap combination[h].courses = {}

Combinations ==
    {combination \in [Choosable -> UNION {choices[g] : g \in Choosable}] :
        (\A g \in Choosable : combination[g] \in choices[g]) /\ Compatible(combination)}

----------------------------------------------------------------------------
(* The decisions.                                                          *)

Candidates(g, combinations) == {combination[g] : combination \in combinations}

\* _validate_locks: a lock must name a candidate that is feasible without any
\* lock, of a group with more than one and not set aside.
LockValid(l) ==
    /\ l.group \in Choosable \ input.excluded
    /\ l.choice \in Candidates(l.group, valid)
    /\ Cardinality(Candidates(l.group, valid)) > 1

LockGroups(locks) == {l.group : l \in locks}

Respects(combination, locks) ==
    \A l \in locks : l.group \in Choosable /\ combination[l.group] = l.choice

\* locked_selection_failure, of the locks themselves or of them together.
LocksFail ==
    /\ input.locks # {}
    /\ \/ \E l, m \in input.locks : l # m /\ l.group = m.group
       \/ \E l \in input.locks : ~ LockValid(l)
       \/ \A combination \in valid : ~ Respects(combination, input.locks)

\* Locks that fail are set aside as a whole and reselection is asked for.
ActiveLocks == IF LocksFail THEN {} ELSE input.locks

Constrained == {combination \in valid : Respects(combination, ActiveLocks)}

\* Candidates of a locked group stay those without locks.
Feasible(g) ==
    Candidates(g, IF g \in LockGroups(ActiveLocks) THEN valid ELSE Constrained)

\* _requirement_decisions, then the locks.
Decision(g) ==
    IF g \in input.excluded THEN "EXCLUDED"
    ELSE IF g \in LockGroups(ActiveLocks) THEN "LOCKED"
    ELSE IF valid = {} \/ g \notin Choosable THEN "UNRESOLVED"
    ELSE IF Cardinality(Feasible(g)) = 1 THEN "AUTO_SELECTED" ELSE "CHOICE_REQUIRED"

\* Sole candidates and locks, unless set aside.
Resolved ==
    {g \in Choosable \ input.excluded : Decision(g) \in {"AUTO_SELECTED", "LOCKED"}}

\* Mutant: a ranked plan holds what was set aside, too.
ScheduledAnyway == IF input.ranked THEN Choosable ELSE Resolved

\* The ranked plan schedules the whole winning combination, the academic one
\* what is resolved.
Scheduled == IF input.ranked THEN Choosable \ input.excluded ELSE Resolved

\* final_unscheduled; without a winning combination nothing is taken off.
Unscheduled ==
    (deferred \cup manual) \ (IF valid = {} THEN {} ELSE Scheduled)

\* The route of the ranked plan wants valid locks and an open choice.
RankedRefused ==
    input.ranked /\ (LocksFail \/ \A g \in Choosable : Decision(g) # "CHOICE_REQUIRED")

NoPlan == [refused |-> FALSE, decisions |-> <<>>, best |-> None, unscheduled |-> {}]

----------------------------------------------------------------------------

Init ==
    /\ input \in Inputs
    /\ stage = "load"
    /\ base = {} /\ deferred = {} /\ manual = {} /\ choices = <<>>
    /\ untried = {} /\ trying = None /\ valid = {} /\ plan = NoPlan
    /\ horizon = 0 /\ scope = {} /\ edges = {} /\ pairs = {} /\ noted = {}
    /\ terms = <<>> /\ ready = {} /\ queue = {} /\ chosen = {} /\ load = 0
    /\ step = "end" /\ failed = FALSE

\* The tree is evaluated and split, and the candidates are listed.
Load ==
    /\ stage = "load"
    /\ stage' = "pair"
    /\ LET result == Evaluate(input.records)
           safe == [g \in Groups |-> {ch \in CandidatesOf(result, cleared)[g] : Safe(ch)}]
       IN  /\ base' = Required(result, input.excluded, cleared)
           /\ deferred' = Deferred(result, input.excluded)
           /\ manual' = Freeform(result)
           /\ choices' = [g \in {g \in deferred' : safe[g] # {}} |-> safe[g]]
    /\ UNCHANGED <<input, untried, trying, valid, plan, packing>>

\* Without a group to choose for, nothing is tried.
Pair ==
    /\ stage = "pair"
    /\ stage' = "try"
    /\ untried' = IF Choosable = {} THEN {} ELSE Combinations
    /\ UNCHANGED <<input, scoped, trying, valid, plan, packing>>

\* place_courses of the next combination; their order does not matter.
Try ==
    /\ stage = "try"
    /\ untried # {}
    /\ LET combination == CHOOSE x \in untried : TRUE
       IN  /\ trying' = combination
           /\ untried' = untried \ {combination}
           /\ Begin(base \cup Chosen(combination, Choosable), input.prereqs, cleared, input.maxTerms)
    /\ stage' = "packing"
    /\ UNCHANGED <<input, scoped, valid, plan>>

Packing ==
    /\ stage \in {"packing", "final"}
    /\ Pack
    /\ UNCHANGED <<input, stage, scoped, untried, trying, valid, plan>>

\* A combination is valid if it fits and none of its courses is limited.
Tried ==
    /\ stage = "packing"
    /\ step = "end"
    /\ valid' = IF ~ failed /\ Placed \cap noted = {} THEN valid \cup {trying} ELSE valid
    /\ trying' = None
    /\ stage' = "try"
    /\ UNCHANGED <<input, scoped, untried, plan, packing>>

\* The winning combination is the best by score; here it is any of them.
Decide ==
    /\ stage = "try"
    /\ untried = {}
    /\ \/ /\ RankedRefused
          /\ plan' = [NoPlan EXCEPT !.refused = TRUE]
          /\ stage' = "done"
          /\ UNCHANGED packing
       \/ /\ ~ RankedRefused
          /\ \E best \in IF valid = {} THEN {None} ELSE Constrained :
                /\ plan' = [refused |-> FALSE,
                            decisions |-> [g \in deferred |-> Decision(g)],
                            best |-> best,
                            unscheduled |-> Unscheduled]
                /\ Begin(base \cup (IF valid = {} THEN {} ELSE Chosen(best, Scheduled)),
                         input.prereqs, cleared, input.maxTerms)
          /\ stage' = "final"
    /\ UNCHANGED <<input, scoped, untried, trying, valid>>

\* An ERROR result carries no terms and no unscheduled requirements.
Finish ==
    /\ stage = "final"
    /\ step = "end"
    /\ stage' = "done"
    /\ plan' = IF failed THEN [plan EXCEPT !.unscheduled = {}] ELSE plan
    /\ UNCHANGED <<input, scoped, untried, trying, valid, packing>>

Next == Load \/ Pair \/ Try \/ Packing \/ Tried \/ Decide \/ Finish

Spec == Init /\ [][Next]_vars

----------------------------------------------------------------------------
(* What a finished plan has to be.                                         *)

Answered == stage = "done" /\ ~ plan.refused /\ ~ failed

\* The records once everything in the plan is completed.
Completed ==
    input.records \cup
    {[code |-> c, status |-> "completed", credit |-> TRUE, hours |-> Hours[c]] : c \in Placed}

\* The plan answers for the whole program: what is open, and not listed as
\* unscheduled, is satisfied once the planned courses are completed.
NeverSilentlyIncomplete ==
    Answered =>
        \A g \in Open(Evaluate(input.records)) \ plan.unscheduled :
            Evaluate(Completed)[g].status = "SATISFIED"

\* Records that earn the credit hours of the catalog: no course is completed
\* without credit.
RecordsCredited ==
    \A i \in Inputs : \A r \in i.records :
        /\ r.status = "completed" => r.credit
        /\ r.hours = Hours[r.code]

\* A program that courses can answer for: every row has one with hours, a list
\* of courses that are all required is not empty nor defined by hand, and one
\* that asks for hours asks for some and offers its courses one by one.
ProgramAnswerable ==
    \A g \in Groups :
        LET p == Program[g] IN
        /\ \A o \in p.options : o.rows # {} /\ \A row \in o.rows : Usable(row) # {}
        /\ p.type = "enumerated_all" => p.options # {} /\ ~ p.manual
        /\ p.type = "enumerated_credit_threshold" =>
              p.need > 0 /\ \A o \in p.options : o.logic = "or"

\* The plan follows the student: an accepted lock is planned, what is set aside
\* is not, and the academic plan holds no course beyond the required ones that
\* a valid combination with the same locks could avoid.
ChoicesHonoured ==
    Answered /\ plan.best # None =>
        /\ \A l \in {l \in input.locks : l.group \in deferred} :
              plan.decisions[l.group] = "LOCKED" => l.choice.courses \subseteq Placed
        /\ \A g \in input.excluded \cap Choosable :
              g \in plan.unscheduled /\ plan.best[g].courses \cap Placed = {}
        /\ input.ranked \/ \A c \in Placed \ base : \A combination \in Constrained :
              c \in Chosen(combination, Choosable)

=============================================================================
