--------------------------- MODULE TermScheduler ---------------------------
(***************************************************************************)
(* The deterministic term scheduler (course_discovery/scheduler.py): which *)
(* prerequisites order the courses and which may share a term, and the     *)
(* greedy loop that packs them into terms.  place_courses and              *)
(* schedule_courses run the same loop on the same dependencies; one run of *)
(* it is Begin, then OpenTerm, Consider and CloseTerm until Result is set. *)
(***************************************************************************)
EXTENDS CourseCatalog, Sequences

CONSTANT Cap     \* credit_hour_cap

CapAssumption == Cap \in Nat
ASSUME CapAssumption

VARIABLES
    horizon,     \* max_terms
    scope,       \* the codes of the courses to schedule
    edges,       \* <<course, prerequisite in an earlier term>>
    pairs,       \* <<course, corequisite not in a later term>>
    noted,       \* courses with a prerequisite or corequisite limitation
    terms,       \* the courses of each term
    ready,       \* unplaced courses whose in-degree is 0
    queue,       \* those of ready the open term has not tried yet
    chosen,      \* courses of the open term
    load,        \* chosen_credits
    step,        \* "head" of the loop, "term" is open, "end"
    failed       \* a PlanFailure was returned

packing == <<horizon, scope, edges, pairs, noted, terms, ready, queue, chosen, load, step, failed>>

----------------------------------------------------------------------------
(* _build_dependencies.  prereqs[c].all are the clauses of c, each a set   *)
(* of alternatives; prereqs[c].coreq may be taken in the same term.        *)

OpenClauses(c, prereqs, cleared) == {cl \in prereqs[c].all : cl \cap cleared = {}}

\* What is left of a clause for an earlier term.
Strict(c, clause, prereqs) == clause \ prereqs[c].coreq

StrictEdges(courses, prereqs, cleared) ==
    {e \in courses \X courses :
        \E cl \in OpenClauses(e[1], prereqs, cleared) : Strict(e[1], cl, prereqs) = {e[2]}}

\* Corequisites named by no clause.
PureCoreqs(c, prereqs, cleared) == prereqs[c].coreq \ ((UNION prereqs[c].all) \cup cleared)

CoreqPairs(courses, prereqs, cleared) ==
    {e \in courses \X courses :
        \/ e[2] \in PureCoreqs(e[1], prereqs, cleared)
        \/ \E cl \in OpenClauses(e[1], prereqs, cleared) :
              cl \cap prereqs[e[1]].coreq \cap courses = {e[2]}}

\* A clause that is neither an edge nor a pair nor met within the plan is noted.
ClauseNoted(c, clause, courses, prereqs) ==
    LET coreqs == clause \cap prereqs[c].coreq
    IN  \/ coreqs # {} /\ Cardinality(coreqs \cap courses) # 1
        \/ Strict(c, clause, prereqs) # {} /\ Strict(c, clause, prereqs) \cap courses = {}

Noted(courses, prereqs, cleared) ==
    {c \in courses :
        \/ ~ PureCoreqs(c, prereqs, cleared) \subseteq courses
        \/ \E cl \in OpenClauses(c, prereqs, cleared) : ClauseNoted(c, cl, courses, prereqs)}

\* What a topological sort cannot consume is not empty exactly when a set of
\* courses has a prerequisite of each of its members in it.
Cyclic(courses, strict) ==
    \E S \in SUBSET courses : S # {} /\ \A c \in S : \E d \in S : <<c, d>> \in strict

----------------------------------------------------------------------------
(* _pack_terms.                                                            *)

Prerequisites(c) == {d \in scope : <<c, d>> \in edges}

Placed == UNION {terms[i] : i \in DOMAIN terms}

Begin(courses, prereqs, cleared, maxTerms) ==
    /\ horizon' = maxTerms
    /\ scope' = courses
    /\ edges' = StrictEdges(courses, prereqs, cleared)
    /\ pairs' = CoreqPairs(courses, prereqs, cleared)
    /\ noted' = Noted(courses, prereqs, cleared)
    /\ terms' = <<>>
    /\ ready' = {c \in courses : \A d \in courses : <<c, d>> \notin edges'}
    /\ queue' = {}
    /\ chosen' = {}
    /\ load' = 0
    /\ failed' = (Cyclic(courses, edges') \/ \E c \in courses : Hours[c] > Cap)
    /\ step' = IF failed' THEN "end" ELSE "head"

\* The next iteration of the loop, if there is one.
OpenTerm ==
    /\ step = "head"
    /\ IF Len(terms) < horizon /\ ready # {}
         THEN /\ step' = "term"
              /\ queue' = ready
              /\ UNCHANGED failed
         ELSE /\ step' = "end"
              /\ failed' = (ready # {})
              /\ UNCHANGED queue
    /\ UNCHANGED <<horizon, scope, edges, pairs, noted, terms, ready, chosen, load>>

\* The corequisites that have to accompany a course this term.
Missing(c) == {d \in scope : <<c, d>> \in pairs} \ (Placed \cup chosen)

\* Mutant: a course comes without what has to accompany it.
ClosureAlone(c) == {c}

\* corequisite_closure
Closure(c) ==
    {x \in scope : \A S \in SUBSET scope : (c \in S /\ \A d \in S : Missing(d) \subseteq S) => x \in S}

\* Mutant: only the hours of the course itself are looked at.
FitsItself(c) == /\ c \notin chosen
                 /\ Closure(c) \subseteq ready
                 /\ load + Hours[c] <= Cap

Fits(c) == /\ c \notin chosen
           /\ Closure(c) \subseteq ready
           /\ load + TotalHours(Closure(c)) <= Cap

\* for code in ready
Consider ==
    /\ step = "term"
    /\ \E c \in queue :
          /\ \A d \in queue : Rank[c] <= Rank[d]
          /\ queue' = queue \ {c}
          /\ IF Fits(c)
               THEN /\ chosen' = chosen \cup Closure(c)
                    /\ load' = load + TotalHours(Closure(c))
               ELSE UNCHANGED <<chosen, load>>
    /\ UNCHANGED <<horizon, scope, edges, pairs, noted, terms, ready, step, failed>>

\* Mutant: every prerequisite has to be in the term that closes.
NewlyReadyAtOnce == {c \in scope : Prerequisites(c) # {} /\ Prerequisites(c) \subseteq chosen}

\* Successors whose last prerequisite was placed in this term.
NewlyReady ==
    {c \in scope : /\ Prerequisites(c) \cap chosen # {}
                   /\ Prerequisites(c) \subseteq Placed \cup chosen}

CloseTerm ==
    /\ step = "term"
    /\ queue = {}
    /\ IF chosen # {}
         THEN /\ terms' = Append(terms, chosen)
              /\ ready' = (ready \ chosen) \cup NewlyReady
              /\ step' = "head"
              /\ UNCHANGED failed
         ELSE /\ step' = "end"
              /\ failed' = TRUE
              /\ UNCHANGED <<terms, ready>>
    /\ chosen' = {}
    /\ load' = 0
    /\ UNCHANGED <<horizon, scope, edges, pairs, noted, queue>>

Pack == OpenTerm \/ Consider \/ CloseTerm

----------------------------------------------------------------------------
(* What a placement has to be.                                             *)

\* Every strict prerequisite is placed in an earlier term and every
\* corequisite in the same or an earlier one.
OrderKept ==
    \A i \in DOMAIN terms : \A c \in terms[i] :
        /\ \A d \in scope : <<c, d>> \in edges => \E j \in DOMAIN terms : j < i /\ d \in terms[j]
        /\ \A d \in scope : <<c, d>> \in pairs => \E j \in DOMAIN terms : j <= i /\ d \in terms[j]

\* No term is above the cap, summed afresh.
HoursCapped ==
    /\ \A i \in DOMAIN terms : TotalHours(terms[i]) <= Cap
    /\ Len(terms) <= horizon

\* A loop that ends without a failure has placed every course, each once.
NothingDropped ==
    /\ step = "end" /\ ~ failed => Placed = scope
    /\ \A i, j \in DOMAIN terms : i # j => terms[i] \cap terms[j] = {}

=============================================================================
