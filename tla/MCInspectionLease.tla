--------------------------- MODULE MCInspectionLease ---------------------------
(* Processes are interchangeable. *)
EXTENDS InspectionLease, TLC

Symmetry == Permutations(Process)
=============================================================================
