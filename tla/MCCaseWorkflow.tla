--------------------------- MODULE MCCaseWorkflow ---------------------------
(***************************************************************************)
(* Constants for the runs with overlapping requests: the request slots are *)
(* interchangeable.                                                        *)
(***************************************************************************)
EXTENDS CaseWorkflow, TLC

RequestSymmetry == Permutations(Requests)
=============================================================================
