----------------------- MODULE IncidentLedger_proofs -----------------------
(***************************************************************************)
(* The incident ledger keeps its promise for any number of candidates and  *)
(* of verification requests in flight.                                     *)
(*                                                                         *)
(* The properties are not inductive: each speaks of one pair of variables, *)
(* and what keeps it true is the whole path behind a status.  IInv says    *)
(* what the trail shows of that path.  The status machine only climbs      *)
(* (Rank), so an edge once crossed can never be crossed again.             *)
(***************************************************************************)
EXTENDS IncidentLedger, Integers, TLAPS

\* Every edge of the machine leads up.
Rank ==
    [s \in Status |->
        IF s = "none" THEN 0 ELSE
        IF s = "candidate" THEN 1 ELSE
        IF s = "verifying" THEN 2 ELSE
        IF s = "verified" THEN 3 ELSE
        IF s = "clearing" THEN 4 ELSE
        IF s = "cleared" THEN 5 ELSE
        IF s = "constructed" THEN 6 ELSE 7]

\* The states left behind are below the present one.
TrailClimbs ==
    \A c \in Candidates : \A e \in trail[c] : Rank[e[1]] < Rank[status[c]]

\* A candidate that holds or held rights has crossed into "cleared", and one
\* that was in a video has crossed into "constructed".
TrailShowsTheRights ==
    \A c \in Candidates :
        /\ status[c] \in {"cleared", "constructed", "revoked"}
              => <<"clearing", "cleared">> \in trail[c]
        /\ status[c] = "constructed"
              => <<"cleared", "constructed">> \in trail[c]
        /\ <<"constructed", "revoked">> \in trail[c]
              => /\ <<"cleared", "constructed">> \in trail[c]
                 /\ status[c] = "revoked"

\* A basis is only recorded by the edge into "cleared".
BasisIsEarned ==
    \A c \in Candidates :
        basis[c] # NoBasis => <<"clearing", "cleared">> \in trail[c]

\* What a ruling, an approval and a render in progress leave behind.
RulingsLeaveTracks ==
    \A c \in Candidates :
        /\ \A k \in Checks : ruling[c][k] = "pass" => k \in passed[c]
        /\ approved[c] => tapped[c]
        /\ c \in drawn => tapped[c]

IInv ==
    /\ TypeOK
    /\ TrailClimbs
    /\ TrailShowsTheRights
    /\ BasisIsEarned
    /\ RulingsLeaveTracks
    /\ VerifiedRestsOnAPerson
    /\ TrailIsThePath
    /\ NothingDrawnUnearned
    /\ TakedownIsNeverForgotten

-----------------------------------------------------------------------------
(***************************************************************************)
(* The machine.                                                            *)
(***************************************************************************)

LEMMA Climb ==
    /\ \A s \in Status : Rank[s] \in Nat
    /\ \A e \in TrailEdges : e \in Status \X Status /\ Rank[e[1]] < Rank[e[2]]
BY DEF Rank, Status, States, NoRow, TrailEdges, Transitions

LEMMA EdgesAreTyped ==
    ASSUME NEW from, NEW to, CanTransition(from, to)
    PROVE  /\ <<from, to>> \in TrailEdges
           /\ from \in States /\ to \in States
           /\ from \notin TerminalStates
           /\ Rank[from] < Rank[to] /\ from # to
           /\ to # "candidate" /\ to # NoRow
BY Climb DEF CanTransition, TrailEdges, Transitions, States, Status, NoRow,
             TerminalStates, Rank

LEMMA EdgesArePairs ==
    \A e \in TrailEdges : e = <<e[1], e[2]>>
BY DEF TrailEdges, Transitions, NoRow

\* The edges into the states the invariants speak of.
LEMMA OnlyWayIn ==
    ASSUME NEW from, NEW to, CanTransition(from, to)
    PROVE  /\ to = "cleared" => from = "clearing"
           /\ to = "constructed" => from = "cleared"
           /\ to = "revoked" => from \in {"cleared", "constructed"}
           /\ to \in PastVerification /\ to # "verified"
                 => from \in PastVerification
BY DEF CanTransition, Transitions, PastVerification

\* Transition keeps every part of the invariant that speaks of the status, the
\* takedown and the trail only.
LEMMA TransitionKeeps ==
    ASSUME IInv, NEW c \in Candidates, NEW to, Transition(c, to)
    PROVE  /\ status' \in [Candidates -> Status]
           /\ takedown' \in [Candidates -> TakedownStates]
           /\ trail' \in [Candidates -> SUBSET TrailEdges]
           /\ TrailClimbs'
           /\ TrailShowsTheRights'
           /\ TrailIsThePath'
           /\ TakedownIsNeverForgotten'
<1> DEFINE edge == <<status[c], to>>
<1>1. /\ edge \in TrailEdges /\ to \in States
      /\ edge[1] = status[c] /\ edge[2] = to
      /\ Rank[status[c]] < Rank[to] /\ status[c] # to
      /\ to # "candidate" /\ to # NoRow
      /\ \A e \in TrailEdges : e[1] = status[c] /\ e[2] = to => e = edge
  BY EdgesAreTyped, EdgesArePairs DEF Transition
<1>2. /\ status' = [status EXCEPT ![c] = to]
      /\ trail' = [trail EXCEPT ![c] = @ \cup {edge}]
      /\ CanTransition(status[c], to)
  BY DEF Transition
<1>3. /\ status \in [Candidates -> Status]
      /\ trail \in [Candidates -> SUBSET TrailEdges]
      /\ takedown \in [Candidates -> TakedownStates]
  BY DEF IInv, TypeOK
<1>4. /\ status' \in [Candidates -> Status]
      /\ trail' \in [Candidates -> SUBSET TrailEdges]
  BY <1>1, <1>2, <1>3 DEF Status
<1>5. takedown' \in [Candidates -> TakedownStates]
  BY <1>3 DEF Transition, TakedownStates
<1>6. /\ status'[c] = to /\ trail'[c] = trail[c] \cup {edge}
      /\ \A d \in Candidates \ {c} :
            status'[d] = status[d] /\ trail'[d] = trail[d]
  BY <1>2, <1>3
<1>7. \A e \in trail[c] :
         Rank[e[1]] < Rank[status[c]] /\ Rank[e[1]] < Rank[to] /\ e[1] # to
  <2>1. TAKE e \in trail[c]
  <2>2. e \in TrailEdges /\ Rank[e[1]] < Rank[status[c]]
    BY <1>3, <2>1 DEF IInv, TrailClimbs
  <2>3. e[1] \in Status /\ status[c] \in Status /\ to \in Status
    BY <1>1, <1>3, <2>2, Climb DEF Status
  <2>. QED  BY <1>1, <2>2, <2>3, Climb
<1>8. TrailClimbs'
  BY <1>1, <1>6, <1>7 DEF IInv, TrailClimbs
<1>9. TrailShowsTheRights'
  <2>1. SUFFICES ASSUME NEW d \in Candidates, d = c
                 PROVE  TrailShowsTheRights!(d)'
    BY <1>6 DEF IInv, TrailShowsTheRights
  <2>2. to = "revoked" => status[c] \in {"cleared", "constructed"}
    BY <1>2, OnlyWayIn
  <2>3. to \in {"cleared", "constructed", "revoked"}
           => <<"clearing", "cleared">> \in trail'[c]
    BY <1>2, <1>6, OnlyWayIn DEF IInv, TrailShowsTheRights
  <2>4. to = "constructed" => <<"cleared", "constructed">> \in trail'[c]
    BY <1>2, <1>6, OnlyWayIn
  <2>5. ASSUME <<"constructed", "revoked">> \in trail'[c]
        PROVE  <<"cleared", "constructed">> \in trail'[c] /\ to = "revoked"
    <3>1. status[c] # "revoked"
      BY <1>2, EdgesAreTyped DEF TerminalStates
    <3>2. edge = <<"constructed", "revoked">>
      BY <1>6, <2>5, <3>1 DEF IInv, TrailShowsTheRights
    <3>. QED  BY <1>6, <3>2 DEF IInv, TrailShowsTheRights
  <2>. QED  BY <1>6, <2>1, <2>3, <2>4, <2>5
<1>10. TrailIsThePath'
  <2>1. /\ trail'[c] # {} /\ status'[c] # NoRow
        /\ \A e \in trail'[c] : e[1] # status'[c]
    BY <1>1, <1>6, <1>7
  <2>2. \A e \in trail'[c] :
           e[2] # status'[c] => \E f \in trail'[c] : f[1] = e[2]
    <3>1. edge \in trail'[c] /\ edge[1] = status[c] /\ edge[2] = status'[c]
      BY <1>1, <1>6
    <3>2. \A e \in trail[c] :
             e[2] # status[c] => \E f \in trail[c] : f[1] = e[2]
      BY DEF IInv, TrailIsThePath
    <3>. HIDE DEF edge
    <3>. QED  BY <1>6, <3>1, <3>2
  <2>3. \A e, f \in trail'[c] : e[1] = f[1] => e = f
    BY <1>6 DEF IInv, TrailIsThePath
  <2>. QED  BY <1>6, <2>1, <2>2, <2>3 DEF IInv, TrailIsThePath
<1>11. TakedownIsNeverForgotten'
  <2>1. CASE to = "revoked" /\ status[c] = "constructed"
    <3>1. takedown' = [takedown EXCEPT ![c] = "required"]
      BY <2>1, <1>3 DEF Transition
    <3>. QED  BY <1>3, <1>6, <2>1, <3>1 DEF IInv, TakedownIsNeverForgotten
  <2>2. CASE ~(to = "revoked" /\ status[c] = "constructed")
    <3>1. takedown' = takedown
      BY <2>2, <1>3 DEF Transition
    <3>. QED  BY <1>6, <2>2, <3>1 DEF IInv, TakedownIsNeverForgotten
  <2>. QED  BY <2>1, <2>2
<1>. QED  BY <1>4, <1>5, <1>8, <1>9, <1>10, <1>11

-----------------------------------------------------------------------------
(***************************************************************************)
(* The invariant.                                                          *)
(***************************************************************************)

LEMMA InitIInv == Init => IInv
<1>. SUFFICES ASSUME Init PROVE IInv
  OBVIOUS
<1>1. TypeOK
  BY DEF Init, TypeOK, Status, NoRow, NoBasis, NoRuling, TakedownStates
<1>2. /\ TrailClimbs /\ TrailShowsTheRights /\ BasisIsEarned
      /\ RulingsLeaveTracks
  BY DEF Init, TrailClimbs, TrailShowsTheRights, BasisIsEarned,
         RulingsLeaveTracks, NoRow, NoRuling
<1>3. /\ VerifiedRestsOnAPerson /\ TrailIsThePath /\ NothingDrawnUnearned
      /\ TakedownIsNeverForgotten
  BY DEF Init, VerifiedRestsOnAPerson, TrailIsThePath, NothingDrawnUnearned,
         TakedownIsNeverForgotten, PastVerification, RightsHeld, NoRow
<1>. QED  BY <1>1, <1>2, <1>3 DEF IInv

\* A step that moves one candidate by the machine, other than into "verified"
\* or into a state that needs a basis or a tap, and touches no ruling,
\* clearance or approval.
LEMMA PlainMoveKeeps ==
    ASSUME IInv, NEW c \in Candidates, NEW to, Transition(c, to),
           to \notin {"verified", "cleared", "constructed"},
           UNCHANGED <<basis, credit, approved, treated, ruling, passed,
                       tapped>>,
           drawn' \subseteq drawn,
           run' \in [Runs -> Candidates \cup {NoCandidate}]
    PROVE  IInv'
<1>1. TypeOK'
  BY TransitionKeeps DEF IInv, TypeOK
<1>2. /\ TrailClimbs' /\ TrailShowsTheRights' /\ TrailIsThePath'
      /\ TakedownIsNeverForgotten'
  BY TransitionKeeps
<1>3. /\ status' = [status EXCEPT ![c] = to]
      /\ trail' = [trail EXCEPT ![c] = @ \cup {<<status[c], to>>}]
      /\ CanTransition(status[c], to)
      /\ status \in [Candidates -> Status]
      /\ trail \in [Candidates -> SUBSET TrailEdges]
  BY DEF Transition, IInv, TypeOK
<1>4. BasisIsEarned'
  BY <1>3 DEF IInv, BasisIsEarned
<1>5. RulingsLeaveTracks'
  BY DEF IInv, RulingsLeaveTracks
<1>6. VerifiedRestsOnAPerson'
  BY <1>3, OnlyWayIn DEF IInv, VerifiedRestsOnAPerson
<1>7. NothingDrawnUnearned'
  BY <1>3 DEF IInv, NothingDrawnUnearned, RightsHeld, Credited
<1>. QED  BY <1>1, <1>2, <1>4, <1>5, <1>6, <1>7 DEF IInv

\* A step that leaves status, trail, takedown, basis and credit alone.
LEMMA QuietStepKeeps ==
    ASSUME IInv, UNCHANGED <<status, trail, takedown, basis, credit>>,
           TypeOK', RulingsLeaveTracks',
           \A c \in Candidates : passed[c] \subseteq passed'[c],
           \A c \in Candidates : tapped[c] => tapped'[c]
    PROVE  IInv'
<1>1. /\ TrailClimbs' /\ TrailShowsTheRights' /\ BasisIsEarned'
      /\ TrailIsThePath' /\ TakedownIsNeverForgotten'
  BY DEF IInv, TrailClimbs, TrailShowsTheRights, BasisIsEarned,
         TrailIsThePath, TakedownIsNeverForgotten
<1>2. VerifiedRestsOnAPerson' /\ NothingDrawnUnearned'
  BY DEF IInv, VerifiedRestsOnAPerson, NothingDrawnUnearned, Credited
<1>. QED  BY <1>1, <1>2 DEF IInv

\* What a run may decide: never a state past verification but "verified", and
\* that only with a person's PASS on prior appearance, which no machine result
\* passes.
LEMMA VerifiedNeedsAPerson ==
    ASSUME IInv, NEW c \in Candidates, NEW m \in MachineResults,
           Outcome(Amended(m, ruling[c])) = "verified"
    PROVE  "prior_appearance" \in passed[c]
<1> DEFINE a == Amended(m, ruling[c])
<1>1. "prior_appearance" \in Checks /\ m["prior_appearance"] = "needs_human"
  BY DEF MachineResults, Checks
<1>2. a["prior_appearance"] = "pass"
  <2>1. ~\E k \in Checks : a[k] = "kill"
    BY DEF Outcome
  <2>2. \A k \in Checks : a[k] = "pass"
    BY <2>1 DEF Outcome
  <2>. QED  BY <1>1, <2>2
<1>3. ruling[c]["prior_appearance"] = "pass"
  BY <1>1, <1>2 DEF Amended
<1>. QED  BY <1>1, <1>3 DEF IInv, RulingsLeaveTracks

LEMMA BeginRunKeeps ==
    ASSUME IInv, NEW r \in Runs, NEW c \in Candidates, BeginRun(r, c)
    PROVE  IInv'
<1>1. /\ UNCHANGED <<basis, credit, approved, treated, ruling, passed, tapped,
                     drawn>>
      /\ run' \in [Runs -> Candidates \cup {NoCandidate}]
  BY DEF BeginRun, KeepBasis, IInv, TypeOK
<1>2. CASE Transition(c, "verifying")
  BY <1>1, <1>2, PlainMoveKeeps DEF IInv, TypeOK
<1>3. CASE UNCHANGED <<status, takedown, trail>>
  <2>1. TypeOK' /\ RulingsLeaveTracks'
    BY <1>1, <1>3 DEF IInv, TypeOK, RulingsLeaveTracks
  <2>. QED  BY <1>1, <1>3, <2>1, QuietStepKeeps
<1>. QED  BY <1>2, <1>3 DEF BeginRun

LEMMA RunDecidesKeeps ==
    ASSUME IInv, NEW r \in Runs, NEW m \in MachineResults, RunDecides(r, m)
    PROVE  IInv'
<1> DEFINE c == run[r]
           to == Outcome(Amended(m, ruling[c]))
<1>1. /\ UNCHANGED <<basis, credit, approved, treated, ruling, passed, tapped,
                     drawn>>
      /\ run' \in [Runs -> Candidates \cup {NoCandidate}]
      /\ to \in {"killed", "verified"}
      /\ c \in Candidates
  BY DEF RunDecides, KeepBasis, IInv, TypeOK
<1>2. CASE Transition(c, to) /\ to = "killed"
  BY <1>1, <1>2, PlainMoveKeeps
<1>3. CASE Transition(c, to) /\ to = "verified"
  <2>1. TypeOK'
    BY <1>1, <1>3, TransitionKeeps DEF IInv, TypeOK
  <2>2. /\ TrailClimbs' /\ TrailShowsTheRights' /\ TrailIsThePath'
        /\ TakedownIsNeverForgotten'
    BY <1>1, <1>3, TransitionKeeps
  <2>3. /\ status' = [status EXCEPT ![c] = "verified"]
        /\ trail' = [trail EXCEPT ![c] = @ \cup {<<status[c], "verified">>}]
        /\ status \in [Candidates -> Status]
        /\ trail \in [Candidates -> SUBSET TrailEdges]
    BY <1>3 DEF Transition, IInv, TypeOK
  <2>4. BasisIsEarned' /\ RulingsLeaveTracks' /\ NothingDrawnUnearned'
    BY <1>1, <2>3 DEF IInv, BasisIsEarned, RulingsLeaveTracks,
                      NothingDrawnUnearned, RightsHeld, Credited
  <2>5. "prior_appearance" \in passed[c]
    BY <1>1, <1>3, VerifiedNeedsAPerson
  <2>6. VerifiedRestsOnAPerson'
    BY <1>1, <2>3, <2>5 DEF IInv, VerifiedRestsOnAPerson
  <2>. QED  BY <2>1, <2>2, <2>4, <2>6 DEF IInv
<1>4. CASE UNCHANGED <<status, takedown, trail>>
  <2>1. TypeOK' /\ RulingsLeaveTracks'
    BY <1>1, <1>4 DEF IInv, TypeOK, RulingsLeaveTracks
  <2>. QED  BY <1>1, <1>4, <2>1, QuietStepKeeps
<1>. QED  BY <1>1, <1>2, <1>3, <1>4 DEF RunDecides

LEMMA RunStepKeeps ==
    ASSUME IInv, NEW r \in Runs, RunStep(r)
    PROVE  IInv'
<1>1. ASSUME NEW c \in Candidates, BeginRun(r, c)
      PROVE  IInv'
  BY <1>1, BeginRunKeeps
<1>2. ASSUME NEW m \in MachineResults, RunDecides(r, m)
      PROVE  IInv'
  BY <1>2, RunDecidesKeeps
<1>3. ASSUME NEW m \in MachineResults, RunLeavesWaiting(r, m)
      PROVE  IInv'
  <2>1. /\ UNCHANGED <<row, audit, drawn>>
        /\ TypeOK'
    BY <1>3 DEF RunLeavesWaiting, IInv, TypeOK, row, audit
  <2>. QED  BY <2>1, QuietStepKeeps DEF row, audit, IInv, RulingsLeaveTracks
<1>4. ASSUME RunLost(r)
      PROVE  IInv'
  <2>1. /\ UNCHANGED <<row, audit, drawn>>
        /\ TypeOK'
    BY <1>4 DEF RunLost, IInv, TypeOK, row, audit
  <2>. QED  BY <2>1, QuietStepKeeps DEF row, audit, IInv, RulingsLeaveTracks
<1>. QED  BY <1>1, <1>2, <1>3, <1>4 DEF RunStep

LEMMA IntakeKeeps ==
    ASSUME IInv, NEW c \in Candidates, Intake(c)
    PROVE  IInv'
<1> DEFINE edge == <<NoRow, "candidate">>
<1>1. /\ status' = [status EXCEPT ![c] = "candidate"]
      /\ trail' = [trail EXCEPT ![c] = @ \cup {edge}]
      /\ status[c] = NoRow
      /\ UNCHANGED <<basis, credit, approved, takedown, treated, ruling,
                     passed, tapped, drawn, run>>
  BY DEF Intake
<1>2. /\ status \in [Candidates -> Status]
      /\ trail \in [Candidates -> SUBSET TrailEdges]
      /\ edge \in TrailEdges /\ "candidate" \in Status
      /\ trail[c] = {}
  BY <1>1 DEF IInv, TypeOK, TrailEdges, Status, States, TrailIsThePath
<1>3. /\ status'[c] = "candidate" /\ trail'[c] = {edge}
      /\ edge[1] = NoRow /\ edge[2] = "candidate"
      /\ \A d \in Candidates \ {c} :
            status'[d] = status[d] /\ trail'[d] = trail[d]
  BY <1>1, <1>2
<1>4. TypeOK'
  BY <1>1, <1>2 DEF IInv, TypeOK
<1>5. TrailClimbs'
  BY <1>2, <1>3, Climb DEF IInv, TrailClimbs
<1>6. TrailShowsTheRights' /\ TakedownIsNeverForgotten'
  BY <1>1, <1>2, <1>3
     DEF IInv, TrailShowsTheRights, TakedownIsNeverForgotten, NoRow
<1>7. TrailIsThePath'
  BY <1>2, <1>3 DEF IInv, TrailIsThePath, NoRow
<1>8. BasisIsEarned' /\ RulingsLeaveTracks'
  BY <1>1, <1>2 DEF IInv, BasisIsEarned, RulingsLeaveTracks
<1>9. VerifiedRestsOnAPerson' /\ NothingDrawnUnearned'
  BY <1>1, <1>3 DEF IInv, VerifiedRestsOnAPerson, NothingDrawnUnearned,
                    PastVerification, RightsHeld, Credited
<1>. QED  BY <1>4, <1>5, <1>6, <1>7, <1>8, <1>9 DEF IInv

LEMMA ApplyClearanceKeeps ==
    ASSUME IInv, NEW c \in Candidates, NEW lane \in ClearanceBases,
           NEW typed \in BOOLEAN, ApplyClearance(c, lane, typed)
    PROVE  IInv'
<1>1. /\ Transition(c, "cleared")
      /\ basis' = [basis EXCEPT ![c] = lane]
      /\ credit' = [credit EXCEPT ![c] = RequiresCredit(lane)]
      /\ UNCHANGED <<approved, treated, ruling, passed, tapped, drawn, run>>
  BY DEF ApplyClearance
<1>2. TypeOK'
  BY <1>1, TransitionKeeps DEF IInv, TypeOK, RequiresCredit
<1>3. /\ TrailClimbs' /\ TrailShowsTheRights' /\ TrailIsThePath'
      /\ TakedownIsNeverForgotten'
  BY <1>1, TransitionKeeps
<1>4. /\ status' = [status EXCEPT ![c] = "cleared"]
      /\ trail' = [trail EXCEPT ![c] = @ \cup {<<status[c], "cleared">>}]
      /\ status[c] = "clearing"
      /\ status \in [Candidates -> Status]
      /\ trail \in [Candidates -> SUBSET TrailEdges]
      /\ basis \in [Candidates -> ClearanceBases \cup {NoBasis}]
      /\ credit \in [Candidates -> BOOLEAN]
  BY <1>1, OnlyWayIn DEF Transition, IInv, TypeOK
<1>5. BasisIsEarned' /\ RulingsLeaveTracks'
  BY <1>1, <1>4 DEF IInv, BasisIsEarned, RulingsLeaveTracks
<1>6. VerifiedRestsOnAPerson'
  BY <1>1, <1>4 DEF IInv, VerifiedRestsOnAPerson, PastVerification
<1>7. NothingDrawnUnearned'
  <2>1. lane # NoBasis
    BY DEF ClearanceBases, NoBasis
  <2>2. basis'[c] = lane /\ credit'[c] = RequiresCredit(lane)
    BY <1>1, <1>4
  <2>3. \A d \in Candidates \ {c} :
           basis'[d] = basis[d] /\ credit'[d] = credit[d]
    BY <1>1, <1>4
  <2>. QED  BY <1>1, <1>4, <2>1, <2>2, <2>3
            DEF IInv, NothingDrawnUnearned, RightsHeld, Credited
<1>. QED  BY <1>2, <1>3, <1>5, <1>6, <1>7 DEF IInv

LEMMA ConstructKeeps ==
    ASSUME IInv, NEW c \in Candidates, Construct(c)
    PROVE  IInv'
<1>1. /\ c \in drawn /\ drawn' = drawn \ {c}
      /\ UNCHANGED <<basis, credit, approved, treated, ruling, passed, tapped,
                     run>>
  BY DEF Construct, KeepBasis
<1>2. CASE Transition(c, "constructed")
  <2>1. TypeOK'
    BY <1>1, <1>2, TransitionKeeps DEF IInv, TypeOK
  <2>2. /\ TrailClimbs' /\ TrailShowsTheRights' /\ TrailIsThePath'
        /\ TakedownIsNeverForgotten'
    BY <1>2, TransitionKeeps
  <2>3. /\ status' = [status EXCEPT ![c] = "constructed"]
        /\ trail' = [trail EXCEPT ![c] = @ \cup {<<status[c], "constructed">>}]
        /\ status[c] = "cleared"
        /\ status \in [Candidates -> Status]
        /\ trail \in [Candidates -> SUBSET TrailEdges]
    BY <1>2, OnlyWayIn DEF Transition, IInv, TypeOK
  <2>4. BasisIsEarned' /\ RulingsLeaveTracks'
    BY <1>1, <2>3 DEF IInv, BasisIsEarned, RulingsLeaveTracks
  <2>5. VerifiedRestsOnAPerson'
    BY <1>1, <2>3 DEF IInv, VerifiedRestsOnAPerson, PastVerification
  <2>6. NothingDrawnUnearned'
    BY <1>1, <2>3 DEF IInv, NothingDrawnUnearned, RightsHeld, Credited,
                      RulingsLeaveTracks
  <2>. QED  BY <2>1, <2>2, <2>4, <2>5, <2>6 DEF IInv
<1>3. CASE UNCHANGED <<status, takedown, trail>>
  <2>1. TypeOK' /\ RulingsLeaveTracks'
    BY <1>1, <1>3 DEF IInv, TypeOK, RulingsLeaveTracks
  <2>. QED  BY <1>1, <1>3, <2>1, QuietStepKeeps
<1>. QED  BY <1>2, <1>3 DEF Construct

LEMMA RecordTakedownActionedKeeps ==
    ASSUME IInv, NEW c \in Candidates, RecordTakedownActioned(c)
    PROVE  IInv'
<1>1. /\ takedown' = [takedown EXCEPT ![c] = "actioned"]
      /\ takedown[c] = "required"
      /\ UNCHANGED <<status, basis, credit, approved, treated, trail, ruling,
                     passed, tapped, drawn, run>>
      /\ takedown \in [Candidates -> TakedownStates]
  BY DEF RecordTakedownActioned, audit, IInv, TypeOK
<1>2. TypeOK'
  BY <1>1 DEF IInv, TypeOK, TakedownStates
<1>3. TakedownIsNeverForgotten'
  BY <1>1 DEF IInv, TakedownIsNeverForgotten
<1>. QED  BY <1>1, <1>2, <1>3
          DEF IInv, TrailClimbs, TrailShowsTheRights, BasisIsEarned,
              RulingsLeaveTracks, VerifiedRestsOnAPerson, TrailIsThePath,
              NothingDrawnUnearned, Credited

LEMMA CandidateStepKeeps ==
    ASSUME IInv, NEW c \in Candidates, CandidateStep(c)
    PROVE  IInv'
<1>0. run \in [Runs -> Candidates \cup {NoCandidate}]
  BY DEF IInv, TypeOK
<1>1. ASSUME Intake(c) PROVE IInv'
  BY <1>1, IntakeKeeps
<1>2. ASSUME NEW k \in Ruleable, NEW v \in {"pass", "kill"},
             RecordHumanVerdict(c, k, v)
      PROVE  IInv'
  <2>1. /\ ruling' = [ruling EXCEPT ![c] = [@ EXCEPT ![k] = v]]
        /\ passed' = [passed EXCEPT ![c] =
                         IF v = "pass" THEN @ \cup {k} ELSE @]
        /\ UNCHANGED <<status, basis, credit, approved, takedown, treated,
                       trail, tapped, drawn, run>>
        /\ k \in Checks
    BY <1>2, LedgerAssumption DEF RecordHumanVerdict, row, LedgerAssumption
  <2>2. /\ ruling \in [Candidates -> [Checks -> {"pass", "kill", NoRuling}]]
        /\ passed \in [Candidates -> SUBSET Checks]
    BY DEF IInv, TypeOK
  <2>3. TypeOK'
    BY <2>1, <2>2 DEF IInv, TypeOK
  <2>4. RulingsLeaveTracks'
    BY <2>1, <2>2 DEF IInv, RulingsLeaveTracks
  <2>5. \A d \in Candidates : passed[d] \subseteq passed'[d]
    BY <2>1, <2>2
  <2>. QED  BY <2>1, <2>3, <2>4, <2>5, QuietStepKeeps
<1>3. ASSUME Retire(c) PROVE IInv'
  BY <1>0, <1>3, PlainMoveKeeps DEF Retire, KeepBasis
<1>4. ASSUME BeginClearing(c) PROVE IInv'
  BY <1>0, <1>4, PlainMoveKeeps DEF BeginClearing, KeepBasis
<1>5. ASSUME NEW lane \in ClearanceBases, NEW typed \in BOOLEAN,
             ApplyClearance(c, lane, typed)
      PROVE  IInv'
  BY <1>5, ApplyClearanceKeeps
<1>6. ASSUME MarkUncleared(c) PROVE IInv'
  BY <1>0, <1>6, PlainMoveKeeps DEF MarkUncleared, KeepBasis
<1>7. ASSUME ApproveForRender(c) PROVE IInv'
  <2>1. TypeOK' /\ RulingsLeaveTracks'
    BY <1>7 DEF ApproveForRender, IInv, TypeOK, RulingsLeaveTracks
  <2>. QED  BY <1>7, <2>1, QuietStepKeeps DEF ApproveForRender, IInv, TypeOK
<1>8. ASSUME WithdrawRenderApproval(c) PROVE IInv'
  <2>1. TypeOK' /\ RulingsLeaveTracks'
    BY <1>8 DEF WithdrawRenderApproval, IInv, TypeOK, RulingsLeaveTracks,
                audit
  <2>. QED  BY <1>8, <2>1, QuietStepKeeps DEF WithdrawRenderApproval, audit
<1>9. ASSUME SelectForRender(c) PROVE IInv'
  <2>1. TypeOK' /\ RulingsLeaveTracks'
    BY <1>9 DEF SelectForRender, Renderable, IInv, TypeOK, row, audit,
                RulingsLeaveTracks
  <2>. QED  BY <1>9, <2>1, QuietStepKeeps DEF SelectForRender, row, audit
<1>10. ASSUME Construct(c) PROVE IInv'
  BY <1>10, ConstructKeeps
<1>11. ASSUME RevokeClearance(c) PROVE IInv'
  BY <1>0, <1>11, PlainMoveKeeps DEF RevokeClearance, KeepBasis
<1>12. ASSUME RecordTakedownActioned(c) PROVE IInv'
  BY <1>12, RecordTakedownActionedKeeps
<1>13. ASSUME TreatFootage(c) \/ SweepFootage(c) PROVE IInv'
  <2>1. /\ UNCHANGED <<status, basis, credit, approved, takedown, audit, drawn,
                       run>>
        /\ treated' \in [Candidates -> BOOLEAN]
    BY <1>13 DEF TreatFootage, SweepFootage, IInv, TypeOK
  <2>2. TypeOK' /\ RulingsLeaveTracks'
    BY <2>1 DEF IInv, TypeOK, RulingsLeaveTracks, audit
  <2>. QED  BY <2>1, <2>2, QuietStepKeeps DEF audit
<1>. QED  BY <1>1, <1>2, <1>3, <1>4, <1>5, <1>6, <1>7, <1>8, <1>9, <1>10,
             <1>11, <1>12, <1>13 DEF CandidateStep

LEMMA NextIInv == IInv /\ [Next]_vars => IInv'
<1>1. ASSUME IInv, UNCHANGED vars PROVE IInv'
  <2>1. TypeOK' /\ RulingsLeaveTracks'
    BY <1>1 DEF vars, IInv, TypeOK, RulingsLeaveTracks
  <2>. QED  BY <1>1, <2>1, QuietStepKeeps DEF vars
<1>. QED  BY <1>1, RunStepKeeps, CandidateStepKeeps DEF Next

\* IInv is an invariant of the ledger.
THEOREM Invariance == Spec => []IInv
BY InitIInv, NextIInv, PTL DEF Spec

-----------------------------------------------------------------------------
(***************************************************************************)
(* The properties.                                                         *)
(***************************************************************************)

\* Every variable keeps its type: no status, edge or takedown state outside
\* the machine's is ever written.
THEOREM TypeCorrect == Spec => []TypeOK
BY Invariance, PTL DEF IInv

\* The wired runner gets nothing past verification without a recorded human
\* PASS on prior appearance, however many requests interleave; incidentAutoMode's
\* decideAuto, which would, has no caller.
THEOREM VerificationNeedsAPerson == Spec => []VerifiedRestsOnAPerson
BY Invariance, PTL DEF IInv

\* The audit rows are one path of the machine ending in the row's status.
THEOREM TheTrailExplainsTheRow == Spec => []TrailIsThePath
BY Invariance, PTL DEF IInv

\* Usable means a basis and its credit; in a video means somebody tapped.
THEOREM UsableIsEarned == Spec => []NothingDrawnUnearned
BY Invariance, PTL DEF IInv

\* A takedown is owed or settled exactly for what was revoked out of a video.
THEOREM TakedownsAreOwed == Spec => []TakedownIsNeverForgotten
BY Invariance, PTL DEF IInv

\* An edge behind the status, or one into a terminal state, is not taken again.
LEMMA NoWayBack ==
    ASSUME IInv, NEW c \in Candidates, NEW to, Transition(c, to)
    PROVE  /\ basis[c] = NoBasis \/ status[c] # "clearing"
           /\ takedown[c] = "none"
           /\ status[c] \notin TerminalStates
           /\ <<status[c], to>> \notin trail[c]
<1>1. /\ CanTransition(status[c], to)
      /\ \A e \in trail[c] : e[1] # status[c]
  BY DEF Transition, IInv, TrailIsThePath
<1>2. /\ status[c] \notin TerminalStates
      /\ <<status[c], to>> \notin trail[c]
  BY <1>1, EdgesAreTyped
<1>3. basis[c] # NoBasis => status[c] # "clearing"
  BY <1>1 DEF IInv, BasisIsEarned
<1>4. takedown[c] = "none"
  BY <1>2 DEF IInv, TakedownIsNeverForgotten, TrailShowsTheRights,
              TerminalStates
<1>. QED  BY <1>2, <1>3, <1>4

\* The clearance basis, a terminal status and an actioned takedown are never
\* rewritten by any handler.
THEOREM DecisionsAreFinal == Spec => DecisionsStand
<1> DEFINE Stand(d) ==
              /\ basis[d] # NoBasis => basis'[d] = basis[d]
              /\ status[d] \in TerminalStates => status'[d] = status[d]
              /\ takedown[d] = "actioned" => takedown'[d] = "actioned"
<1>1. ASSUME IInv, NEW c \in Candidates, NEW to, Transition(c, to),
             NEW d \in Candidates, basis'[d] = basis[d]
      PROVE  Stand(d)
  <2>1. /\ status' = [status EXCEPT ![c] = to]
        /\ status[c] \notin TerminalStates
        /\ takedown[c] = "none"
        /\ c # d => takedown'[d] = takedown[d]
        /\ status \in [Candidates -> Status]
        /\ takedown \in [Candidates -> TakedownStates]
    BY <1>1, NoWayBack DEF Transition, IInv, TypeOK
  <2>. QED  BY <1>1, <2>1
<1>2. ASSUME IInv, UNCHANGED <<status, basis, takedown>>, NEW d \in Candidates
      PROVE  Stand(d)
  BY <1>2
<1>3. ASSUME IInv, NEW r \in Runs, RunStep(r), NEW d \in Candidates
      PROVE  Stand(d)
  <2>1. ASSUME NEW c \in Candidates, BeginRun(r, c) PROVE Stand(d)
    BY <1>1, <1>2, <1>3, <2>1 DEF BeginRun, KeepBasis
  <2>2. ASSUME NEW m \in MachineResults, RunDecides(r, m) PROVE Stand(d)
    <3>1. run[r] \in Candidates
      BY <1>3, <2>2 DEF RunDecides, IInv, TypeOK
    <3>. QED  BY <1>1, <1>2, <1>3, <2>2, <3>1 DEF RunDecides, KeepBasis
  <2>3. ASSUME NEW m \in MachineResults, RunLeavesWaiting(r, m)
        PROVE  Stand(d)
    BY <1>2, <1>3, <2>3 DEF RunLeavesWaiting, row
  <2>4. ASSUME RunLost(r) PROVE Stand(d)
    BY <1>2, <1>3, <2>4 DEF RunLost, row
  <2>. QED  BY <1>3, <2>1, <2>2, <2>3, <2>4 DEF RunStep
<1>4. ASSUME IInv, NEW c \in Candidates, Intake(c), NEW d \in Candidates
      PROVE  Stand(d)
  BY <1>4 DEF Intake, NoRow, TerminalStates, IInv, TypeOK
<1>5. ASSUME IInv, NEW c \in Candidates, NEW lane \in ClearanceBases,
             NEW typed \in BOOLEAN, ApplyClearance(c, lane, typed),
             NEW d \in Candidates
      PROVE  Stand(d)
  <2>1. /\ Transition(c, "cleared") /\ status[c] = "clearing"
        /\ basis' = [basis EXCEPT ![c] = lane]
    BY <1>5, OnlyWayIn DEF ApplyClearance, Transition
  <2>2. CASE c = d
    <3>1. /\ basis[c] = NoBasis /\ takedown[c] = "none"
          /\ status[c] \notin TerminalStates
      BY <1>5, <2>1, NoWayBack
    <3>. QED  BY <2>2, <3>1
  <2>3. CASE c # d
    BY <1>1, <1>5, <2>1, <2>3 DEF IInv, TypeOK
  <2>. QED  BY <2>2, <2>3
<1>6. ASSUME IInv, NEW c \in Candidates, RecordTakedownActioned(c),
             NEW d \in Candidates
      PROVE  Stand(d)
  BY <1>6 DEF RecordTakedownActioned, IInv, TypeOK
<1>7. ASSUME IInv, NEW c \in Candidates, CandidateStep(c),
             NEW d \in Candidates
      PROVE  Stand(d)
  BY <1>1, <1>2, <1>4, <1>5, <1>6, <1>7
     DEF CandidateStep, RecordHumanVerdict, Retire, BeginClearing,
         MarkUncleared, ApproveForRender, WithdrawRenderApproval,
         TreatFootage, SweepFootage, SelectForRender, Construct,
         RevokeClearance, KeepBasis, row, audit
<1>8. IInv /\ [Next]_vars
      => [\A c \in Candidates :
            /\ basis[c] # NoBasis => basis'[c] = basis[c]
            /\ status[c] \in TerminalStates => status'[c] = status[c]
            /\ takedown[c] = "actioned" => takedown'[c] = "actioned"]_vars
  BY <1>3, <1>7 DEF Next
<1>. QED  BY <1>8, Invariance, PTL DEF Spec, DecisionsStand

-----------------------------------------------------------------------------
(***************************************************************************)
(* The ledger implements IncidentRights.                                   *)
(***************************************************************************)

Vouched == {c \in Candidates : "prior_appearance" \in passed[c]}
Withdrawn == {c \in Candidates : status[c] = "revoked"}
Pulled == {c \in Candidates : takedown[c] = "actioned"}

LEMMA InitRights == Init => Rights!Init
BY DEF Init, Rights!Init, Crossed, NoRow

\* What an edge does to the mapped state.
LEMMA MoveMaps ==
    ASSUME IInv, NEW c \in Candidates, NEW to, Transition(c, to),
           UNCHANGED passed
    PROVE  /\ Vouched' = Vouched
           /\ Pulled' = Pulled
           /\ Withdrawn' = IF to = "revoked" THEN Withdrawn \cup {c}
                                             ELSE Withdrawn
           /\ \A edge \in TrailEdges :
                 Crossed(edge)' = IF edge = <<status[c], to>>
                                  THEN Crossed(edge) \cup {c}
                                  ELSE Crossed(edge)
<1>1. /\ status' = [status EXCEPT ![c] = to]
      /\ trail' = [trail EXCEPT ![c] = @ \cup {<<status[c], to>>}]
      /\ status \in [Candidates -> Status]
      /\ trail \in [Candidates -> SUBSET TrailEdges]
      /\ takedown \in [Candidates -> TakedownStates]
      /\ status[c] # "revoked"
      /\ takedown[c] = "none"
  BY NoWayBack DEF Transition, IInv, TypeOK, TerminalStates
<1>2. \A d \in Candidates :
         takedown'[d] = "actioned" <=> takedown[d] = "actioned"
  BY <1>1 DEF Transition
<1>3. Pulled' = Pulled
  BY <1>2 DEF Pulled
<1>4. Vouched' = Vouched
  BY DEF Vouched
<1>5. Withdrawn' = IF to = "revoked" THEN Withdrawn \cup {c} ELSE Withdrawn
  BY <1>1 DEF Withdrawn
<1>6. ASSUME NEW edge \in TrailEdges
      PROVE  Crossed(edge)' = IF edge = <<status[c], to>>
                              THEN Crossed(edge) \cup {c}
                              ELSE Crossed(edge)
  <2>1. trail'[c] = trail[c] \cup {<<status[c], to>>}
    BY <1>1
  <2>2. \A d \in Candidates \ {c} : trail'[d] = trail[d]
    BY <1>1
  <2>. QED  BY <2>1, <2>2 DEF Crossed
<1>. QED  BY <1>3, <1>4, <1>5, <1>6

\* A move of the machine is the matching step of the promise: into "cleared"
\* it licenses, into "constructed" it publishes, into "revoked" it withdraws.
LEMMA MoveImplements ==
    ASSUME IInv, NEW c \in Candidates, NEW to, Transition(c, to),
           UNCHANGED passed
    PROVE  [Rights!Next]_(Rights!vars)
<1> DEFINE licensing == <<"clearing", "cleared">>
           publishing == <<"cleared", "constructed">>
<1>1. licensing \in TrailEdges /\ publishing \in TrailEdges
  BY DEF TrailEdges, Transitions
<1>2. /\ CanTransition(status[c], to)
      /\ <<status[c], to>> \notin trail[c]
      /\ status[c] # "revoked"
  BY NoWayBack DEF Transition, TerminalStates
<1>3. CASE to = "cleared"
  <2>1. status[c] = "clearing"
    BY <1>2, <1>3, OnlyWayIn
  <2>2. c \in Vouched \ Crossed(licensing)
    BY <1>2, <1>3, <2>1
       DEF IInv, VerifiedRestsOnAPerson, PastVerification, Vouched, Crossed
  <2>3. /\ Crossed(licensing)' = Crossed(licensing) \cup {c}
        /\ Crossed(publishing)' = Crossed(publishing)
        /\ UNCHANGED <<Vouched, Withdrawn, Pulled>>
    BY <1>1, <1>3, <2>1, MoveMaps
  <2>. QED  BY <2>2, <2>3 DEF Rights!Next, Rights!License, Vouched, Withdrawn,
                              Pulled
<1>4. CASE to = "constructed"
  <2>1. status[c] = "cleared"
    BY <1>2, <1>4, OnlyWayIn
  <2>2. c \in Crossed(licensing) \ Withdrawn
    BY <1>2, <2>1 DEF IInv, TrailShowsTheRights, Withdrawn, Crossed
  <2>3. /\ Crossed(licensing)' = Crossed(licensing)
        /\ Crossed(publishing)' = Crossed(publishing) \cup {c}
        /\ UNCHANGED <<Vouched, Withdrawn, Pulled>>
    BY <1>1, <1>4, <2>1, MoveMaps
  <2>. QED  BY <2>2, <2>3 DEF Rights!Next, Rights!Publish, Vouched, Withdrawn,
                              Pulled
<1>5. CASE to = "revoked"
  <2>1. status[c] \in {"cleared", "constructed"}
    BY <1>2, <1>5, OnlyWayIn
  <2>2. c \in Crossed(licensing)
    BY <2>1 DEF IInv, TrailShowsTheRights, Crossed
  <2>3. /\ Crossed(licensing)' = Crossed(licensing)
        /\ Crossed(publishing)' = Crossed(publishing)
        /\ Withdrawn' = Withdrawn \cup {c}
        /\ UNCHANGED <<Vouched, Pulled>>
    BY <1>1, <1>5, <2>1, MoveMaps
  <2>. QED  BY <2>2, <2>3 DEF Rights!Next, Rights!Withdraw, Vouched, Withdrawn,
                              Pulled
<1>6. CASE to \notin {"cleared", "constructed", "revoked"}
  <2>1. /\ Crossed(licensing)' = Crossed(licensing)
        /\ Crossed(publishing)' = Crossed(publishing)
        /\ UNCHANGED <<Vouched, Withdrawn, Pulled>>
    BY <1>1, <1>6, MoveMaps
  <2>. QED  BY <2>1 DEF Rights!vars, Vouched, Withdrawn, Pulled
<1>. QED  BY <1>3, <1>4, <1>5, <1>6

\* Steps that move nothing in the trail.
LEMMA QuietStutters ==
    ASSUME UNCHANGED <<status, trail, takedown, passed>>
    PROVE  UNCHANGED Rights!vars
BY DEF Rights!vars, Crossed

LEMMA IntakeStutters ==
    ASSUME IInv, NEW c \in Candidates, Intake(c)
    PROVE  UNCHANGED Rights!vars
<1>1. /\ status \in [Candidates -> Status]
      /\ trail \in [Candidates -> SUBSET TrailEdges]
      /\ status' = [status EXCEPT ![c] = "candidate"]
      /\ trail' = [trail EXCEPT ![c] = @ \cup {<<NoRow, "candidate">>}]
      /\ status[c] = NoRow
      /\ UNCHANGED <<takedown, passed>>
  BY DEF Intake, IInv, TypeOK
<1>2. Withdrawn' = Withdrawn
  BY <1>1 DEF Withdrawn, NoRow
<1>3. /\ Crossed(<<"clearing", "cleared">>)' = Crossed(<<"clearing", "cleared">>)
      /\ Crossed(<<"cleared", "constructed">>)'
            = Crossed(<<"cleared", "constructed">>)
  BY <1>1 DEF Crossed, NoRow
<1>. QED  BY <1>1, <1>2, <1>3 DEF Rights!vars, Withdrawn

LEMMA RunStepImplements ==
    ASSUME IInv, NEW r \in Runs, RunStep(r)
    PROVE  [Rights!Next]_(Rights!vars)
<1>1. ASSUME NEW c \in Candidates, BeginRun(r, c)
      PROVE  [Rights!Next]_(Rights!vars)
  BY <1>1, MoveImplements, QuietStutters DEF BeginRun
<1>2. ASSUME NEW m \in MachineResults, RunDecides(r, m)
      PROVE  [Rights!Next]_(Rights!vars)
  <2>1. run[r] \in Candidates
    BY <1>2 DEF RunDecides, IInv, TypeOK
  <2>. QED  BY <1>2, <2>1, MoveImplements, QuietStutters DEF RunDecides
<1>3. ASSUME NEW m \in MachineResults, RunLeavesWaiting(r, m)
      PROVE  [Rights!Next]_(Rights!vars)
  BY <1>3, QuietStutters DEF RunLeavesWaiting, row, audit
<1>4. ASSUME RunLost(r)
      PROVE  [Rights!Next]_(Rights!vars)
  BY <1>4, QuietStutters DEF RunLost, row, audit
<1>. QED  BY <1>1, <1>2, <1>3, <1>4 DEF RunStep

LEMMA CandidateStepImplements ==
    ASSUME IInv, NEW c \in Candidates, CandidateStep(c)
    PROVE  [Rights!Next]_(Rights!vars)
<1>1. ASSUME NEW k \in Ruleable, NEW v \in {"pass", "kill"},
             RecordHumanVerdict(c, k, v)
      PROVE  [Rights!Next]_(Rights!vars)
  <2>1. /\ UNCHANGED <<status, takedown, trail>>
        /\ passed \in [Candidates -> SUBSET Checks]
        /\ passed' = [passed EXCEPT ![c] =
                         IF v = "pass" THEN @ \cup {k} ELSE @]
    BY <1>1 DEF RecordHumanVerdict, row, IInv, TypeOK
  <2>2. Vouched' \in {Vouched, Vouched \cup {c}}
    BY <2>1 DEF Vouched
  <2>3. UNCHANGED <<Crossed(<<"clearing", "cleared">>),
                    Crossed(<<"cleared", "constructed">>), Withdrawn, Pulled>>
    BY <2>1 DEF Crossed, Withdrawn, Pulled
  <2>. QED  BY <2>2, <2>3 DEF Rights!Next, Rights!Vouch, Rights!vars, Vouched,
                              Withdrawn, Pulled
<1>2. ASSUME NEW lane \in ClearanceBases, NEW typed \in BOOLEAN,
             ApplyClearance(c, lane, typed)
      PROVE  [Rights!Next]_(Rights!vars)
  BY <1>2, MoveImplements DEF ApplyClearance
<1>3. ASSUME RecordTakedownActioned(c)
      PROVE  [Rights!Next]_(Rights!vars)
  <2>1. /\ takedown[c] = "required"
        /\ takedown' = [takedown EXCEPT ![c] = "actioned"]
        /\ takedown \in [Candidates -> TakedownStates]
        /\ UNCHANGED <<status, trail, passed>>
    BY <1>3 DEF RecordTakedownActioned, audit, IInv, TypeOK
  <2>2. Pulled' = Pulled \cup {c} /\ c \notin Pulled
    BY <2>1 DEF Pulled
  <2>3. c \in Crossed(<<"cleared", "constructed">>) \cap Withdrawn
    BY <2>1 DEF IInv, TakedownIsNeverForgotten, TrailShowsTheRights, Crossed,
                Withdrawn
  <2>4. UNCHANGED <<Crossed(<<"clearing", "cleared">>),
                    Crossed(<<"cleared", "constructed">>), Withdrawn, Vouched>>
    BY <2>1 DEF Crossed, Withdrawn, Vouched
  <2>. QED  BY <2>2, <2>3, <2>4 DEF Rights!Next, Rights!Pull, Vouched,
                                    Withdrawn, Pulled
<1>4. ASSUME Intake(c)
      PROVE  [Rights!Next]_(Rights!vars)
  BY <1>4, IntakeStutters
<1>5. ASSUME \/ Retire(c) \/ BeginClearing(c) \/ MarkUncleared(c)
             \/ RevokeClearance(c) \/ Construct(c)
      PROVE  [Rights!Next]_(Rights!vars)
  BY <1>5, MoveImplements, QuietStutters
     DEF Retire, BeginClearing, MarkUncleared, RevokeClearance, Construct
<1>6. ASSUME \/ ApproveForRender(c) \/ WithdrawRenderApproval(c)
             \/ TreatFootage(c) \/ SweepFootage(c) \/ SelectForRender(c)
      PROVE  [Rights!Next]_(Rights!vars)
  BY <1>6, QuietStutters
     DEF ApproveForRender, WithdrawRenderApproval, TreatFootage, SweepFootage,
         SelectForRender, row, audit
<1>. QED  BY <1>1, <1>2, <1>3, <1>4, <1>5, <1>6 DEF CandidateStep

\* The rows and their audit trail implement the promise: initial states map to
\* initial states, and every handler maps to a step of the promise or to none.
THEOREM Implementation == Spec => KeepsThePromise
<1>1. IInv /\ [Next]_vars => [Rights!Next]_(Rights!vars)
  <2>1. ASSUME UNCHANGED vars PROVE UNCHANGED Rights!vars
    BY <2>1, QuietStutters DEF vars
  <2>. QED  BY <2>1, RunStepImplements, CandidateStepImplements DEF Next
<1>. QED  BY <1>1, InitRights, Invariance, PTL
          DEF Spec, KeepsThePromise, Rights!Spec

=============================================================================
