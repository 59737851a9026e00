----------------------------- MODULE ChoiceStore ----------------------------
(***************************************************************************)
(* What the Degree Schedule promises its users: the stored choices are a   *)
(* register that is replaced by compare-and-swap on the whole schedule.  A *)
(* tab looks at a schedule; later one atomic step stores its complete set  *)
(* if the schedule is still the one it looked at and the planner accepts   *)
(* the set.  There are no revisions, no separate reads and no processes.   *)
(***************************************************************************)
EXTENDS ScheduleData

CONSTANTS Tabs, None

VARIABLES
    db,          \* committed rows
    registered,  \* semantics the schedule is computed with
    seen         \* the schedule each tab looks at

vars == <<db, registered, seen>>

Init == /\ IsDatabase(db)
        /\ \A k \in Kinds : db[k] = {}
        /\ registered = None
        /\ seen \in [Tabs -> {[shown |-> FALSE]}]

\* What a tab looks at need not be one state of the database.
Look(c) == /\ \A d \in Tabs \ {c} : seen'[d] = seen[d]
           /\ UNCHANGED <<db, registered>>

Change(t) == /\ \E v \in Values : db' = Commit(db, t, v)
             /\ UNCHANGED <<registered, seen>>

Deploy(id) == /\ registered' = id
              /\ UNCHANGED <<db, seen>>

Replace(c, k, set) ==
    /\ seen[c].shown
    /\ Version(seen[c].rows, seen[c].semantics) = Version(db, registered)
    /\ Valid(k, db, set)
    /\ db' = [db EXCEPT ![k] = set]
    /\ UNCHANGED <<registered, seen>>

Next == \/ \E c \in Tabs : Look(c)
        \/ \E t \in Sources : Change(t)
        \/ \E id \in Identities : Deploy(id)
        \/ \E c \in Tabs, k \in Kinds : \E set \in Contents(k) : Replace(c, k, set)

Spec == Init /\ [][Next]_vars
=============================================================================
