------------------------------ MODULE MCXQueue ------------------------------
(* Instance of XQueue: a thread of two posts, and a single split in two.     *)
EXTENDS XQueue, TLC
CONSTANTS a1, a2, m1, m2
MCParts == a1 :> 2 @@ a2 :> 1
MCPlan == a1 :> <<1, 2>> @@ a2 :> <<1, 1>>
MCSymmetry == Permutations({m1, m2})
=============================================================================
