---------------------------- MODULE RecordRules ----------------------------
(***************************************************************************)
(* The rules that read course_records: which rows score in the official    *)
(* GPA (academics/gpa.py) and which attempts a repeat policy excludes from *)
(* it (transcript/repeats.py).                                             *)
(***************************************************************************)
EXTENDS Naturals, Sequences, FiniteSets

CONSTANTS
    None,
    TermKeys,      \* (year, season) pairs as ordinals: later is larger
    Codes,         \* course codes as students and transcripts write them
    Normal,        \* code -> normalize_code of it, None when it has no normal form
    CatalogId,     \* normal form -> catalog course, for those the catalog has
    Letters,       \* grade strings a student may enter
    Points,        \* grade_point_map: mapped letter -> points, None if not scored
    Institutions,
    Replaces,      \* the institutions whose repeat_policy is latest_replaces
    MaxPoints      \* repeat_replacement_max_points, None when not set

ASSUME RulesAssumption ==
    /\ TermKeys \subseteq Nat \ {0}
    /\ Normal \in [Codes -> Codes \cup {None}]
    /\ CatalogId \in [DOMAIN CatalogId -> Nat]
    /\ DOMAIN CatalogId \subseteq Codes
    /\ Points \in [DOMAIN Points -> Nat \cup {None}]
    /\ DOMAIN Points \subseteq Letters
    /\ Replaces \subseteq Institutions
    /\ MaxPoints \in Nat \cup {None}
    /\ None \notin Nat \cup Codes \cup Letters \cup Institutions

\* The points a letter is worth; an unmapped letter has none.
PointsOf(letter) == IF letter \in DOMAIN Points THEN Points[letter] ELSE None

\* compute_gpa for 'official' and 'projected', whose scope is the statuses, for
\* courses taken: transfer and exam credit (credit_type) is left out.
Scored(row, statuses) ==
    /\ row.by = None
    /\ row.status \in statuses
    /\ PointsOf(row.grade) # None
    /\ row.confirmed

InOfficialGpa(row) == Scored(row, {"completed"})

\* match_courses
Match(code) == IF Normal[code] \in DOMAIN CatalogId THEN CatalogId[Normal[code]] ELSE None

\* Attempts at the same course share this key.
GroupKey(row) ==
    <<row.inst, IF row.catalog # None THEN row.catalog
                ELSE IF Normal[row.code] # None THEN Normal[row.code] ELSE row.code>>

\* The eligibility gate on the earlier attempt.
Replaceable(row) ==
    MaxPoints # None => PointsOf(row.grade) # None /\ PointsOf(row.grade) <= MaxPoints

(***************************************************************************)
(* plan_exclusions over rows, a function from row ids, whose terms are     *)
(* term ids and termKey gives the (year, season).  The sort is stable and  *)
(* the rows arrive in no particular order, so of several attempts in the   *)
(* latest term any may be the latest: last names the one of each group.    *)
(***************************************************************************)
Considered(rows) == {i \in DOMAIN rows : rows[i].inst \in Replaces /\ rows[i].term # 0}

Groups(rows) == {GroupKey(rows[i]) : i \in Considered(rows)}

Group(rows, key) == {i \in Considered(rows) : GroupKey(rows[i]) = key}

Latest(rows, termKey, key) ==
    {i \in Group(rows, key) :
        \A j \in Group(rows, key) : termKey[rows[j].term] <= termKey[rows[i].term]}

Plan(rows, last) ==
    [i \in {j \in Considered(rows) : last[GroupKey(rows[j])] # j /\ Replaceable(rows[j])} |->
        last[GroupKey(rows[i])]]

Plans(rows, termKey) ==
    {Plan(rows, last) :
        last \in {f \in [Groups(rows) -> DOMAIN rows] :
                     \A key \in Groups(rows) : f[key] \in Latest(rows, termKey, key)}}

=============================================================================
