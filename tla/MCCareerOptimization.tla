------------------------ MODULE MCCareerOptimization ------------------------
(* Small instances of CareerOptimization. *)
EXTENDS CareerOptimization

CONSTANTS r1, r2, r3, k1, k2

RequestSymmetry == Permutations(Requests)
KeySymmetry == Permutations(Keys)
Symmetry == RequestSymmetry \cup KeySymmetry
=============================================================================
