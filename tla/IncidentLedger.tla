--------------------------- MODULE IncidentLedger ---------------------------
(***************************************************************************)
(* The incident media engine's ledger: what may happen to somebody else's  *)
(* footage between a pasted post and a published video.                    *)
(*                                                                         *)
(* One SQLite row per candidate (media_candidates) and an append-only      *)
(* audit trail (media_candidate_events).  Every handler is synchronous and *)
(* therefore one step, except verification: runVerification reads the row, *)
(* awaits the checks (a reverse image search), and decides afterwards, so  *)
(* several runs on one candidate interleave with each other and with the   *)
(* operator's rulings.                                                     *)
(*                                                                         *)
(* last_verification, the embed-only and acquisition flags and the wording *)
(* of reasons and notes are not represented: no rule reads them.           *)
(***************************************************************************)
EXTENDS IncidentStatus, FiniteSets

CONSTANTS
    Candidates,     \* the posts and clips the operator may take in
    Runs,           \* the verification requests that may be in flight at once
    NoCandidate,    \* what an idle run works on
    Named,          \* candidates whose poster has a handle or a display name
    VisionWired,    \* whether a vision model is passed to the context check
    Ruleable        \* the checks the operator rules on in this instance

Checks == {"sensitivity", "prior_appearance", "corroboration", "context"}

ASSUME LedgerAssumption ==
    /\ NoCandidate \notin Candidates
    /\ Named \subseteq Candidates
    /\ VisionWired \in BOOLEAN
    /\ Ruleable \subseteq Checks

VARIABLES
    status,     \* media_candidates.status
    basis,      \* clearance_basis
    credit,     \* whether credit_text is a non-empty string
    approved,   \* render_approved
    takedown,   \* takedown_required / takedown_actioned_at
    treated,    \* whether treated_path names a file that is on disk
    trail,      \* the <<from_status, to_status>> pairs of the audit rows
    ruling,     \* the latest human:<check> row of every check
    passed,     \* the checks some human:<check> row has passed
    tapped,     \* whether the trail holds a render:approved row
    drawn,      \* candidates a render in progress has selected
    run         \* what every verification request awaits

row == <<status, basis, credit, approved, takedown, treated>>
audit == <<trail, ruling, passed, tapped>>
vars == <<status, basis, credit, approved, takedown, treated,
          trail, ruling, passed, tapped, drawn, run>>

Verdicts == {"pass", "kill", "needs_human"}
NoRuling == "no_ruling"
TakedownStates == {"none", "required", "actioned"}

TypeOK ==
    /\ status \in [Candidates -> Status]
    /\ basis \in [Candidates -> ClearanceBases \cup {NoBasis}]
    /\ credit \in [Candidates -> BOOLEAN]
    /\ approved \in [Candidates -> BOOLEAN]
    /\ takedown \in [Candidates -> TakedownStates]
    /\ treated \in [Candidates -> BOOLEAN]
    /\ trail \in [Candidates -> SUBSET TrailEdges]
    /\ ruling \in [Candidates -> [Checks -> {"pass", "kill", NoRuling}]]
    /\ passed \in [Candidates -> SUBSET Checks]
    /\ tapped \in [Candidates -> BOOLEAN]
    /\ drawn \subseteq Candidates
    /\ run \in [Runs -> Candidates \cup {NoCandidate}]

Init ==
    /\ status = [c \in Candidates |-> NoRow]
    /\ basis = [c \in Candidates |-> NoBasis]
    /\ credit = [c \in Candidates |-> FALSE]
    /\ approved = [c \in Candidates |-> FALSE]
    /\ takedown = [c \in Candidates |-> "none"]
    /\ treated = [c \in Candidates |-> FALSE]
    /\ trail = [c \in Candidates |-> {}]
    /\ ruling = [c \in Candidates |-> [k \in Checks |-> NoRuling]]
    /\ passed = [c \in Candidates |-> {}]
    /\ tapped = [c \in Candidates |-> FALSE]
    /\ drawn = {}
    /\ run = [r \in Runs |-> NoCandidate]

-----------------------------------------------------------------------------
(***************************************************************************)
(* The ledger's own writes.                                                *)
(***************************************************************************)

\* createCandidate / createOwnCandidate: the insert and its opening audit row
\* are one transaction; an already known post is returned, not written.
Intake(c) ==
    /\ status[c] = NoRow
    /\ status' = [status EXCEPT ![c] = "candidate"]
    /\ trail' = [trail EXCEPT ![c] = @ \cup {<<NoRow, "candidate">>}]
    /\ UNCHANGED <<basis, credit, approved, takedown, treated, ruling, passed,
                   tapped, drawn, run>>

\* Mutants: the audit row takes its from_status from the updated row, and
\* takedown_required is derived from it.
TransitionDerivesLate(c, to) ==
    /\ CanTransition(status[c], to)
    /\ status' = [status EXCEPT ![c] = to]
    /\ takedown' = [takedown EXCEPT ![c] =
                       IF status'[c] = "constructed" THEN "required" ELSE @]
    /\ trail' = [trail EXCEPT ![c] = @ \cup {<<status[c], to>>}]

\* transition(): re-reads the row inside the transaction, refuses an edge the
\* machine does not have, derives takedown_required while the row still says
\* what it was, and writes the audit row with the status.
Transition(c, to) ==
    /\ CanTransition(status[c], to)
    /\ status' = [status EXCEPT ![c] = to]
    /\ takedown' = [takedown EXCEPT ![c] =
                       IF to = "revoked" /\ status[c] = "constructed"
                       THEN "required" ELSE @]
    /\ trail' = [trail EXCEPT ![c] = @ \cup {<<status[c], to>>}]

\* clearance_basis is set by the transition that establishes it and carried
\* by every later one (detail.clearanceBasis ?? row.clearance_basis).
DropBasis(c) == basis' = [basis EXCEPT ![c] = NoBasis]  \* mutant

KeepBasis(c) == basis' = basis

-----------------------------------------------------------------------------
(***************************************************************************)
(* Verification (incidentChecks, incidentVerification,                     *)
(* incidentVerifyRunner).                                                  *)
(***************************************************************************)

\* What the four checks can return together.  Sensitivity short-circuits the
\* rest; the reverse search never passes; the context check abstains or kills
\* unless a vision model is wired.
MachineResults ==
    {m \in [Checks -> Verdicts] :
        \/ /\ m["sensitivity"] = "kill"
           /\ \A k \in Checks \ {"sensitivity"} : m[k] = "needs_human"
        \/ /\ m["sensitivity"] = "pass"
           /\ m["prior_appearance"] = "needs_human"
           /\ VisionWired \/ m["context"] # "pass"}

\* applyHumanVerdicts: a human KILL always stands, a human PASS settles an
\* abstention only ...
Amended(m, h) ==
    [k \in Checks |->
        IF h[k] = "kill" \/ (h[k] = "pass" /\ m[k] = "needs_human")
        THEN h[k] ELSE m[k]]

\* ... and one on a check the machine killed is refused by throwing.
Overrides(m, h) == \E k \in Checks : h[k] = "pass" /\ m[k] = "kill"

OutcomeWithoutHumans(m) ==  \* mutant: an abstention does not hold it back
    IF \E k \in Checks : m[k] = "kill" THEN "killed" ELSE "verified"

\* outcomeFor: any KILL kills, all PASS verifies, anything else waits.
Outcome(m) ==
    CASE \E k \in Checks : m[k] = "kill" -> "killed"
      [] \A k \in Checks : m[k] = "pass" -> "verified"
      [] OTHER -> "needs_human"

\* runVerification up to its await.  A candidate past verifying is returned
\* as it is.
BeginRun(r, c) ==
    /\ run[r] = NoCandidate
    /\ status[c] \in {"candidate", "verifying"}
    /\ run' = [run EXCEPT ![r] = c]
    /\ \/ status[c] = "candidate" /\ Transition(c, "verifying")
       \/ status[c] = "verifying" /\ UNCHANGED <<status, takedown, trail>>
    /\ KeepBasis(c)
    /\ UNCHANGED <<credit, approved, treated, ruling, passed, tapped, drawn>>

RunDecidesStale(r, m) ==  \* mutant: trusts the row it read before the await
    LET c == run[r]
        to == Outcome(Amended(m, ruling[c]))
    IN  /\ c # NoCandidate
        /\ ~Overrides(m, ruling[c])
        /\ to \in {"killed", "verified"}
        /\ run' = [run EXCEPT ![r] = NoCandidate]
        /\ status' = [status EXCEPT ![c] = to]
        /\ trail' = [trail EXCEPT ![c] = @ \cup {<<"verifying", to>>}]
        /\ UNCHANGED <<basis, credit, approved, takedown, treated, ruling,
                       passed, tapped, drawn>>

\* runVerification after its await, when the rulings recorded by then amend
\* the results to a decision.  The transition is refused, and the request
\* fails, if another run has moved the candidate meanwhile.
RunDecides(r, m) ==
    LET c == run[r] IN
    /\ c # NoCandidate
    /\ ~Overrides(m, ruling[c])
    /\ Outcome(Amended(m, ruling[c])) \in {"killed", "verified"}
    /\ run' = [run EXCEPT ![r] = NoCandidate]
    /\ LET to == Outcome(Amended(m, ruling[c])) IN
         \/ Transition(c, to)
         \/ /\ ~CanTransition(status[c], to)
            /\ UNCHANGED <<status, takedown, trail>>
    /\ KeepBasis(c)
    /\ UNCHANGED <<credit, approved, treated, ruling, passed, tapped, drawn>>

\* ... when it leaves the candidate waiting, or a standing PASS on a check the
\* machine killed makes applyHumanVerdicts throw.
RunLeavesWaiting(r, m) ==
    LET c == run[r] IN
    /\ c # NoCandidate
    /\ \/ Overrides(m, ruling[c])
       \/ Outcome(Amended(m, ruling[c])) = "needs_human"
    /\ run' = [run EXCEPT ![r] = NoCandidate]
    /\ UNCHANGED <<row, audit, drawn>>

\* The web process restarts while the checks are awaited.
RunLost(r) ==
    /\ run[r] # NoCandidate
    /\ run' = [run EXCEPT ![r] = NoCandidate]
    /\ UNCHANGED <<row, audit, drawn>>

\* recordHumanVerdict: refused only for a PASS on a killed candidate.  It
\* moves nothing by itself.
RecordHumanVerdict(c, k, v) ==
    /\ status[c] # NoRow
    /\ ~(v = "pass" /\ status[c] = "killed")
    /\ ruling' = [ruling EXCEPT ![c] = [@ EXCEPT ![k] = v]]
    /\ passed' = [passed EXCEPT ![c] = IF v = "pass" THEN @ \cup {k} ELSE @]
    /\ UNCHANGED <<row, trail, tapped, drawn, run>>

\* transition(id, "killed", { killReason: "operator" }) on a row that should
\* never have existed: the one-step retirement of migration 037.
Retire(c) ==
    /\ status[c] = "candidate"
    /\ Transition(c, "killed")
    /\ KeepBasis(c)
    /\ UNCHANGED <<credit, approved, treated, ruling, passed, tapped, drawn,
                   run>>

-----------------------------------------------------------------------------
(***************************************************************************)
(* Clearance, the render tap, the render and the revocation.               *)
(***************************************************************************)

BeginClearing(c) ==
    /\ Transition(c, "clearing")
    /\ KeepBasis(c)
    /\ UNCHANGED <<credit, approved, treated, ruling, passed, tapped, drawn,
                   run>>

\* applyClearance, the single write path into "cleared": the transition, the
\* basis and the credit in one transaction.  The third-party lanes refuse a
\* candidate with no credit to burn (creditTextFor, or one the operator
\* typed); the owner lane stores none.
ApplyClearance(c, lane, typed) ==
    /\ RequiresCredit(lane) => c \in Named \/ typed
    /\ Transition(c, "cleared")
    /\ basis' = [basis EXCEPT ![c] = lane]
    /\ credit' = [credit EXCEPT ![c] = RequiresCredit(lane)]
    /\ UNCHANGED <<approved, treated, ruling, passed, tapped, drawn, run>>

\* markUncleared, and recordGrantReply with "refused" or "no_reply".
MarkUncleared(c) ==
    /\ Transition(c, "uncleared")
    /\ KeepBasis(c)
    /\ UNCHANGED <<credit, approved, treated, ruling, passed, tapped, drawn,
                   run>>

Credited(c) == RequiresCredit(basis[c]) => credit[c]

ApproveForRender(c) ==
    /\ status[c] = "cleared"
    /\ Credited(c)
    /\ approved' = [approved EXCEPT ![c] = TRUE]
    /\ tapped' = [tapped EXCEPT ![c] = TRUE]
    /\ UNCHANGED <<status, basis, credit, takedown, treated, trail, ruling,
                   passed, drawn, run>>

\* Refused for a constructed candidate only; any other row is written.
WithdrawRenderApproval(c) ==
    /\ status[c] \notin {NoRow, "constructed"}
    /\ approved' = [approved EXCEPT ![c] = FALSE]
    /\ UNCHANGED <<status, basis, credit, takedown, treated, audit, drawn, run>>

\* treatFile grades the quarantined file, at any point of the machine.  No code
\* of the repository writes the column that names the result.
TreatFootage(c) ==
    /\ status[c] # NoRow
    /\ treated' = [treated EXCEPT ![c] = TRUE]
    /\ UNCHANGED <<status, basis, credit, approved, takedown, audit, drawn, run>>

\* sweep() deletes the bytes of a decision against the candidate, and of one
\* that was left undecided for a week.  The row goes on naming them.
SweepFootage(c) ==
    /\ status[c] \in {"killed", "uncleared", "candidate", "verifying"}
    /\ treated[c]
    /\ treated' = [treated EXCEPT ![c] = FALSE]
    /\ UNCHANGED <<status, basis, credit, approved, takedown, audit, drawn, run>>

RenderableUntapped(c) == status[c] = "cleared" /\ Credited(c)  \* mutant

\* assertRenderable and the renderableCandidates query: cleared, credited,
\* tapped.
Renderable(c) == status[c] = "cleared" /\ Credited(c) /\ approved[c]

\* The render path asks toRenderable before it assembles a video: on top of
\* assertRenderable it refuses a row that names no file, one whose file is not
\* on disk, and one that was not treated ...
SelectForRender(c) ==
    /\ Renderable(c)
    /\ treated[c]
    /\ drawn' = drawn \cup {c}
    /\ UNCHANGED <<row, audit, run>>

ConstructUnchecked(c) ==  \* mutant: the edge is not checked against the row
    /\ c \in drawn
    /\ drawn' = drawn \ {c}
    /\ status' = [status EXCEPT ![c] = "constructed"]
    /\ trail' = [trail EXCEPT ![c] = @ \cup {<<"cleared", "constructed">>}]
    /\ UNCHANGED <<basis, credit, approved, takedown, treated, ruling, passed,
                   tapped, run>>

\* ... and records the construction when the video exists, by which time the
\* row may have moved: the machine alone decides then.
Construct(c) ==
    /\ c \in drawn
    /\ drawn' = drawn \ {c}
    /\ \/ Transition(c, "constructed")
       \/ /\ ~CanTransition(status[c], "constructed")
          /\ UNCHANGED <<status, takedown, trail>>
    /\ KeepBasis(c)
    /\ UNCHANGED <<credit, approved, treated, ruling, passed, tapped, run>>

RevokeClearance(c) ==
    /\ Transition(c, "revoked")
    /\ KeepBasis(c)
    /\ UNCHANGED <<credit, approved, treated, ruling, passed, tapped, drawn,
                   run>>

RecordTakedownActioned(c) ==
    /\ takedown[c] = "required"
    /\ takedown' = [takedown EXCEPT ![c] = "actioned"]
    /\ UNCHANGED <<status, basis, credit, approved, treated, audit, drawn, run>>

-----------------------------------------------------------------------------

RunStep(r) ==
    \/ \E c \in Candidates : BeginRun(r, c)
    \/ \E m \in MachineResults : RunDecides(r, m)
    \/ \E m \in MachineResults : RunLeavesWaiting(r, m)
    \/ RunLost(r)

CandidateStep(c) ==
    \/ Intake(c)
    \/ \E k \in Ruleable, v \in {"pass", "kill"} : RecordHumanVerdict(c, k, v)
    \/ Retire(c)
    \/ BeginClearing(c)
    \/ \E lane \in ClearanceBases, typed \in BOOLEAN :
          ApplyClearance(c, lane, typed)
    \/ MarkUncleared(c)
    \/ ApproveForRender(c)
    \/ WithdrawRenderApproval(c)
    \/ TreatFootage(c)
    \/ SweepFootage(c)
    \/ SelectForRender(c)
    \/ Construct(c)
    \/ RevokeClearance(c)
    \/ RecordTakedownActioned(c)

Next ==
    \/ \E r \in Runs : RunStep(r)
    \/ \E c \in Candidates : CandidateStep(c)

Spec == Init /\ [][Next]_vars

-----------------------------------------------------------------------------
(***************************************************************************)
(* Properties                                                              *)
(***************************************************************************)

\* The statuses in which rights to a verified candidate have been obtained.
RightsHeld == {"cleared", "constructed"}
PastVerification == {"verified", "clearing", "cleared", "uncleared",
                     "constructed", "revoked"}

\* "A human ruling on prior appearance is the ONLY route to verified"
\* (incidentVerifyRunner.js:24): of every candidate that runVerification took
\* past verification, whatever requests and rulings interleave, a PASS of a
\* person on the check the machine cannot pass is on record.  This is the code
\* that is wired, not what the repository has since decided: the ruling of
\* 2026-08-30 in incidentAutoMode.js:4 does away with the human taps, its
\* decideAuto turns NEEDS_HUMAN into verified (:104, incidentAutoMode.test.js:36
\* expects it), and incidentDigest.js:4 speaks of that review as gone.  Nothing
\* but a test calls decideAuto; a caller of it would break this property.
VerifiedRestsOnAPerson ==
    \A c \in Candidates :
        status[c] \in PastVerification => "prior_appearance" \in passed[c]

\* The audit rows of a candidate are one path of the machine that ends in its
\* status: no state is left twice, so two runs that decide the same candidate
\* never both write, and the trail always explains the row
\* (incidentLedger.js:309).
TrailIsThePath ==
    \A c \in Candidates :
        /\ trail[c] = {} <=> status[c] = NoRow
        /\ \A e \in trail[c] :
              /\ e[1] # status[c]
              /\ e[2] # status[c] => \E f \in trail[c] : f[1] = e[2]
        /\ \A e, f \in trail[c] : e[1] = f[1] => e = f

\* Nothing third-party is usable without a credit, nothing is usable without
\* a basis, and nothing was put in a video that nobody tapped
\* (incidentClearanceLedger.js:120, incidentQueue.js:172).
NothingDrawnUnearned ==
    \A c \in Candidates :
        /\ status[c] \in RightsHeld => basis[c] # NoBasis /\ Credited(c)
        /\ status[c] = "constructed" => tapped[c]

\* A takedown is owed exactly for the candidates that were revoked out of a
\* published video, and only recordTakedownActioned settles it
\* (incidentRevocation.js:19).
TakedownIsNeverForgotten ==
    \A c \in Candidates :
        takedown[c] # "none" <=> <<"constructed", "revoked">> \in trail[c]

\* Why an asset was usable is never erased or rewritten once it is usable
\* (incidentLedger.js:337), and a terminal decision stands.
DecisionsStand ==
    [][\A c \in Candidates :
          /\ basis[c] # NoBasis => basis'[c] = basis[c]
          /\ status[c] \in TerminalStates => status'[c] = status[c]
          /\ takedown[c] = "actioned" => takedown'[c] = "actioned"]_vars

-----------------------------------------------------------------------------
(***************************************************************************)
(* Implementation: the rows and their audit trail as the promise of        *)
(* IncidentRights.                                                         *)
(***************************************************************************)

Crossed(edge) == {c \in Candidates : edge \in trail[c]}

Rights == INSTANCE IncidentRights WITH
    vouched <- {c \in Candidates : "prior_appearance" \in passed[c]},
    licensed <- Crossed(<<"clearing", "cleared">>),
    published <- Crossed(<<"cleared", "constructed">>),
    withdrawn <- {c \in Candidates : status[c] = "revoked"},
    pulled <- {c \in Candidates : takedown[c] = "actioned"}

\* Every step of the ledger is a step of the promise or none of its business.
KeepsThePromise == Rights!Spec

-----------------------------------------------------------------------------
(***************************************************************************)
(* What comments of the code say and the code does not do.                 *)
(***************************************************************************)

\* "human KILL -> always allowed. A person may refuse anything"
\* (incidentVerifyRunner.js:73), and "re-run /verify to apply it"
\* (incident-ops.js:302): a candidate whose latest ruling on some check is a
\* KILL is not cleared.
HumanKillIsApplied ==
    [][\A c \in Candidates :
          (\E k \in Checks : ruling[c][k] = "kill")
              => ~(status[c] # "cleared" /\ status'[c] = "cleared")]_vars
=============================================================================
