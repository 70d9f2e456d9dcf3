-------------------------- MODULE MCSolutionTotals --------------------------
(* Small instances of SolutionTotals.                                      *)
EXTENDS SolutionTotals
=============================================================================
