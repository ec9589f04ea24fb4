---------------------------- MODULE MCSocialCycle ---------------------------
(* Instances of SocialCycle: a1 and a2 belong to one event, a3 to none. *)
EXTENDS SocialCycle, TLC
CONSTANTS a1, a2, a3, e1
MCEventOf == a1 :> e1 @@ a2 :> e1 @@ a3 :> NoEvent
OnePlatform == <<"instagram">>
MCSends == [p \in {"instagram"} |-> 3]

\* The articles of the event are alike, and so are the invocations.
MCSymmetry == Permutations({a1, a2}) \cup Permutations(Invocations)
=============================================================================
