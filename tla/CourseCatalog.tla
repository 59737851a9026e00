--------------------------- MODULE CourseCatalog ---------------------------
(***************************************************************************)
(* What the catalog says of a course: its code, the place of the code in   *)
(* lexicographic order, and its credit hours, 0 when it lists none.        *)
(***************************************************************************)
EXTENDS Integers, FiniteSets, FiniteSetsExt

CONSTANTS
    Courses,
    Rank,
    Hours

CatalogAssumption ==
    /\ IsFiniteSet(Courses)
    /\ \A c \in Courses : Rank[c] \in Nat /\ Hours[c] \in Nat
    /\ \A c, d \in Courses : Rank[c] = Rank[d] => c = d
ASSUME CatalogAssumption

\* Credit hours of a set of courses.
TotalHours(S) == MapThenSumSet(LAMBDA c : Hours[c], S)

=============================================================================
