---------------------------- MODULE MCVideoCycle ----------------------------
(* Instances of VideoCycle: a1 and a2 share a publisher, a2 and a3 an       *)
(* event, and a1, which is linked to none, has the headline of a3; or every *)
(* article has its own.                                                     *)
EXTENDS VideoCycle, TLC
CONSTANTS a1, a2, a3
MCPublisherOf == a1 :> "wire" @@ a2 :> "wire" @@ a3 :> "daily"
MCEventOf == a1 :> NoEvent @@ a2 :> "vote" @@ a3 :> "vote"
MCSimilarTo == a1 :> {a1, a3} @@ a2 :> {a2} @@ a3 :> {a1, a3}
MCOwn == [a \in {a1, a2, a3} |-> a]
MCUnlinked == [a \in {a1, a2, a3} |-> NoEvent]
MCUnlike == [a \in {a1, a2, a3} |-> {a}]
MCSymmetry == Permutations({a1, a2, a3})
MCRunSymmetry == Permutations(Runs)
=============================================================================
