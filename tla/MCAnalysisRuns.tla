--------------------------- MODULE MCAnalysisRuns ---------------------------
(* Small instances of AnalysisRuns. *)
EXTENDS AnalysisRuns, TLC

CONSTANTS p1, p2, gap, shift, v1, v2
=============================================================================
