--------------------------- MODULE MCLongformCycle ---------------------------
(* Model-checking instances of LongformCycle. *)
EXTENDS LongformCycle, TLC

Symmetry == Permutations(Events) \cup Permutations(Runs)
=============================================================================
