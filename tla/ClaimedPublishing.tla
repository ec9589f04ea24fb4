-------------------------- MODULE ClaimedPublishing --------------------------
(***************************************************************************)
(* What a publishing loop promises of a channel that takes nothing back,   *)
(* whatever its cycles, crashes and lost answers look like: an item is     *)
(* claimed a bounded number of times; every copy of it on the channel was  *)
(* paid for by a claim that was written before; and what is on record as   *)
(* published is there.  LongformCycle implements it with one claim,        *)
(* VideoCycle with two and one for every overlapping cycle.                *)
(***************************************************************************)
EXTENDS Naturals

CONSTANTS
    Items,
    MaxClaims

VARIABLES
    claims,     \* how often each item was claimed
    copies,     \* how many copies of it the channel holds
    recorded    \* the items with a publish time

vars == <<claims, copies, recorded>>

Init ==
    /\ claims = [i \in Items |-> 0]
    /\ copies = [i \in Items |-> 0]
    /\ recorded = {}

Claim(i) ==
    /\ claims[i] < MaxClaims
    /\ claims' = [claims EXCEPT ![i] = @ + 1]
    /\ UNCHANGED <<copies, recorded>>

Send(i) ==
    /\ copies[i] < claims[i]
    /\ copies' = [copies EXCEPT ![i] = @ + 1]
    /\ UNCHANGED <<claims, recorded>>

Record(i) ==
    /\ copies[i] > 0
    /\ recorded' = recorded \cup {i}
    /\ UNCHANGED <<claims, copies>>

Next == \E i \in Items : Claim(i) \/ Send(i) \/ Record(i)

Spec == Init /\ [][Next]_vars
=============================================================================
