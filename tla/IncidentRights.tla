--------------------------- MODULE IncidentRights ---------------------------
(***************************************************************************)
(* What the incident media engine promises to the person whose footage it  *)
(* is, whatever its tables look like: somebody vouched for the footage     *)
(* before a licence to it was recorded, nothing is published without a     *)
(* licence, a withdrawn licence publishes nothing and is never renewed,    *)
(* and a published use that was withdrawn is pulled at most once, after    *)
(* the withdrawal.  IncidentLedger implements it.                          *)
(***************************************************************************)

CONSTANT Candidates

VARIABLES
    vouched,    \* a person passed the prior-appearance check
    licensed,   \* rights to use it were recorded at some time
    published,  \* it went into a video
    withdrawn,  \* the rights were taken back
    pulled      \* the video is recorded as taken down

vars == <<vouched, licensed, published, withdrawn, pulled>>

Init ==
    /\ vouched = {}
    /\ licensed = {}
    /\ published = {}
    /\ withdrawn = {}
    /\ pulled = {}

Vouch(c) ==
    /\ vouched' = vouched \cup {c}
    /\ UNCHANGED <<licensed, published, withdrawn, pulled>>

License(c) ==
    /\ c \in vouched \ licensed
    /\ licensed' = licensed \cup {c}
    /\ UNCHANGED <<vouched, published, withdrawn, pulled>>

Publish(c) ==
    /\ c \in licensed \ withdrawn
    /\ published' = published \cup {c}
    /\ UNCHANGED <<vouched, licensed, withdrawn, pulled>>

Withdraw(c) ==
    /\ c \in licensed
    /\ withdrawn' = withdrawn \cup {c}
    /\ UNCHANGED <<vouched, licensed, published, pulled>>

Pull(c) ==
    /\ c \in (published \cap withdrawn) \ pulled
    /\ pulled' = pulled \cup {c}
    /\ UNCHANGED <<vouched, licensed, published, withdrawn>>

Next ==
    \E c \in Candidates :
        Vouch(c) \/ License(c) \/ Publish(c) \/ Withdraw(c) \/ Pull(c)

Spec == Init /\ [][Next]_vars

=============================================================================
