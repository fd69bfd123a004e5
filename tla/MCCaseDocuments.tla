--------------------------- MODULE MCCaseDocuments ---------------------------
(***************************************************************************)
(* CaseDocuments for the model checker: the request slots are              *)
(* interchangeable.  The names of files are not: a report chooses one.     *)
(***************************************************************************)
EXTENDS CaseDocuments, TLC

RequestSymmetry == Permutations(Requests)
==============================================================================
