--------------------------- MODULE IncidentStatus ---------------------------
(***************************************************************************)
(* The status machine of an incident media candidate                       *)
(* (services/incident/incidentStatus.js): the states, the closed set of    *)
(* legal edges and the payload a target state demands.  Pure; the ledger   *)
(* that applies it is in IncidentLedger.                                   *)
(***************************************************************************)

\* "none" is a post that has no row yet: the null from_status of the opening
\* audit row.
States == {"candidate", "verifying", "verified", "killed", "clearing",
           "cleared", "uncleared", "constructed", "revoked"}

NoRow == "none"
Status == States \cup {NoRow}

TerminalStates == {"killed", "uncleared", "revoked"}

\* The ten edges of TRANSITIONS.
Transitions ==
    {<<"candidate", "verifying">>, <<"candidate", "killed">>,
     <<"verifying", "verified">>, <<"verifying", "killed">>,
     <<"verified", "clearing">>,
     <<"clearing", "cleared">>, <<"clearing", "uncleared">>,
     <<"cleared", "constructed">>, <<"cleared", "revoked">>,
     <<"constructed", "revoked">>}

\* The edges an audit row can record: the machine's and the intake.
TrailEdges == Transitions \cup {<<NoRow, "candidate">>}

CanTransition(from, to) == <<from, to>> \in Transitions

ClearanceBases == {"grant", "fair_use", "owner"}
NoBasis == "no_basis"

\* provenanceFor / requiresCredit: every basis but "owner", a missing one
\* included, owes a credit.
OwnClearanceBases == {"owner"}
RequiresCredit(basis) == basis \notin OwnClearanceBases

=============================================================================
