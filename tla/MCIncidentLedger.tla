-------------------------- MODULE MCIncidentLedger --------------------------
(* Model-checking instances of IncidentLedger. *)
EXTENDS IncidentLedger, TLC

Symmetry == Permutations(Runs)
=============================================================================
