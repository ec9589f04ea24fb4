------------------------ MODULE MCSyntheticMarkets --------------------------
(* Instance of SyntheticMarkets: one market that is traded, two more that an *)
(* event may get.                                                            *)
EXTENDS SyntheticMarkets, TLC
CONSTANTS m1, m2, m3, x1, x2
MCMaxTrades == m1 :> 3 @@ m2 :> 0 @@ m3 :> 0
MCSymmetry == Permutations({m2, m3}) \cup Permutations({x1, x2})
=============================================================================
