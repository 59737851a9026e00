-------------------------- MODULE MCDegreeSchedule --------------------------
(* Small instances of DegreeSchedule: one group, two candidates, two releases. *)
EXTENDS DegreeSchedule, TLC

CONSTANTS c1, c2, old, new, g1, a, b, v1, v2

\* v1: the group exists and is open; v2: coursework satisfies it, or the
\* catalog dropped it.
MCLiveGroups == (v1 :> {g1}) @@ (v2 :> {})
MCSatisfiedBy == (v1 :> {}) @@ (v2 :> {g1})

MCIdentityOf == [p \in Processes |-> IF p = old THEN "r1" ELSE "r2"]
MCIdentities == {"r1", "r2"}

\* A lock must be on an open, live group that is not set aside, at most one
\* per group; an exclusion must name a live group.
MCValid(kind, d, set) ==
    LET live == IF "requirement_groups" \in Sources
                  THEN LiveGroups[d["requirement_groups"]] ELSE Groups
        done == IF "course_records" \in Sources
                  THEN SatisfiedBy[d["course_records"]] ELSE {}
    IN  IF kind = "exclusions"
          THEN set \subseteq live
          ELSE /\ \A s \in set : s[1] \in live \ (done \cup d["exclusions"])
               /\ \A s, t \in set : s[1] = t[1] => s = t

TabSymmetry == Permutations(Tabs)
=============================================================================
