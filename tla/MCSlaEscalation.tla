--------------------------- MODULE MCSlaEscalation ---------------------------
(* Instances of SlaEscalation for TLC. *)
EXTENDS SlaEscalation

Targets == [p \in Priorities |-> IF p = "HIGH" THEN 1 ELSE 3]
=============================================================================
