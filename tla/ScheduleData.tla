---------------------------- MODULE ScheduleData ----------------------------
(***************************************************************************)
(* The rows a degree schedule is computed from, seen as the contents of    *)
(* one table each, for one student and one program.  What the planner      *)
(* computes from them (requirement satisfaction, candidate feasibility,    *)
(* term placement) is deterministic and is left abstract: LiveGroups,      *)
(* SatisfiedBy and Valid say the little of it that decides a write.        *)
(***************************************************************************)
EXTENDS Naturals, FiniteSets

CONSTANTS
    Sources,        \* the input tables of an instance, a part of AllSources
    Values,         \* what the rows of an input table can say
    Groups,         \* requirement group ids
    Candidates,     \* structured candidates of a requirement group
    LiveGroups,     \* requirement_groups contents -> groups that exist in it
    SatisfiedBy,    \* course_records contents -> groups that coursework satisfies
    Valid(_, _, _), \* Valid(kind, snapshot, set): the planner accepts the set
    Identities      \* <<local_catalog_fingerprint, planner_contract_version>>

AllSources == {"students", "student_institutions", "course_records",
               "requirement_groups", "requirement_group_options", "programs",
               "course_catalog", "academic_term_dates", "institutions"}

\* The two complete sets a student replaces.
Kinds == {"selections", "exclusions"}

Tables == Sources \cup Kinds

Revisions == {"student", "program", "institution"}

\* The revision row that a write to table t advances (the triggers).
Guard(t) ==
    IF t \in {"students", "student_institutions", "course_records"} \cup Kinds
      THEN "student"
    ELSE IF t \in {"requirement_groups", "requirement_group_options", "programs"}
      THEN "program"
    ELSE "institution"

Contents(t) ==
    IF t = "selections" THEN SUBSET (Groups \X Candidates)
    ELSE IF t = "exclusions" THEN SUBSET Groups
    ELSE Values

\* d holds contents of the right kind for every table.
IsDatabase(d) == /\ d = [t \in Tables |-> d[t]]
                 /\ \A t \in Tables : d[t] \in Contents(t)

ASSUME DataAssumption ==
    /\ Sources \subseteq AllSources
    /\ LiveGroups \in [Values -> SUBSET Groups]
    /\ SatisfiedBy \in [Values -> SUBSET Groups]

-----------------------------------------------------------------------------

\* Rows of selections and exclusions whose requirement group v no longer has.
Orphans(d, v) ==
    [selections |-> {s \in d["selections"] : s[1] \notin LiveGroups[v]},
     exclusions |-> d["exclusions"] \ LiveGroups[v]]

\* Committing contents v of table t, with its "on delete cascade".
Commit(d, t, v) ==
    [u \in Tables |->
        IF u = t THEN v
        ELSE IF t = "requirement_groups" /\ u \in Kinds
             THEN d[u] \ Orphans(d, v)[u]
             ELSE d[u]]

\* Mutant: the cascaded deletes of choices fire no trigger.
TouchedWithoutCascade(d, t, v) == {Guard(t)}

\* The revision rows the triggers of that commit touch.
Touched(d, t, v) ==
    {Guard(t)} \cup
    (IF t = "requirement_groups" /\ \E k \in Kinds : Orphans(d, v)[k] # {}
     THEN {"student"} ELSE {})

\* An exclusion shows in a decision only while its group is not satisfied.
EffectiveExclusions(d) ==
    IF "course_records" \in Sources
      THEN d["exclusions"] \ SatisfiedBy[d["course_records"]]
      ELSE d["exclusions"]

\* Mutant: the version leaves the stored selections out.
VersionOfInputs(d, id) ==
    [rows |-> [t \in Sources |-> d[t]], excluded |-> EffectiveExclusions(d), semantics |-> id]

\* schedule_version: a collision-free digest of what the schedule depends on.
Version(d, id) ==
    [rows     |-> [t \in Tables \ {"exclusions"} |-> d[t]],
     excluded |-> EffectiveExclusions(d),
     semantics |-> id]
=============================================================================
