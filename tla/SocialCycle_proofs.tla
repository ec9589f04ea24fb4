------------------------ MODULE SocialCycle_proofs ------------------------
(***************************************************************************)
(* The social cycle, for any number of abandoned invocations, platforms    *)
(* and articles: types, the minimum interval of a platform, that a settled *)
(* article is left alone, the single-flight guard and the heartbeat.       *)
(*                                                                         *)
(* Two arguments that do not meet.  The guard is about who started when,   *)
(* and says nothing of posts.  The rows are about who picked what: an      *)
(* invocation that picks found its platform rested, whoever else is under  *)
(* way, and adds one post at most, guard or no guard.                      *)
(***************************************************************************)
EXTENDS SocialCycle, FiniteSetTheorems, TLAPS

-----------------------------------------------------------------------------
(* The guard and the heartbeat.                                            *)

InFlight(i) == pc[i] # "idle"

GuardTypes ==
    /\ flight \in Time \cup {Never}
    /\ heartbeat \in [phase : {"none", "start", "complete", "error"},
                      started : Time \cup {Never}]
    /\ pc \in [Invocations -> {"idle", "turn", "composing", "landed"}]
    /\ started \in [Invocations -> Time]
    /\ clock \in Time

\* Nothing started in the future.
NothingIsEarly ==
    /\ flight <= clock
    /\ heartbeat.started <= clock
    /\ \A i \in Invocations : InFlight(i) => started[i] <= clock

\* Distinct starts, so started[i] tells whose flag it is.
StartsDiffer ==
    \A i, j \in Invocations :
        InFlight(i) /\ InFlight(j) /\ i # j => started[i] # started[j]

\* Everyone but the holder is past the threshold: as seen by the holder when it
\* started, or, when nobody holds the guard, as seen now.
OthersAreOld ==
    \A i \in Invocations : InFlight(i) =>
        /\ flight = Never => clock - started[i] > Hang
        /\ flight # Never => started[i] = flight \/ flight - started[i] > Hang

\* The heartbeat shows the newest start, and that of the holder as running.
HeartbeatIsNewest ==
    /\ \A i \in Invocations : InFlight(i) => started[i] <= heartbeat.started
    /\ flight # Never => heartbeat = [phase |-> "start", started |-> flight]

IInv ==
    /\ GuardTypes
    /\ NothingIsEarly
    /\ StartsDiffer
    /\ OthersAreOld
    /\ HeartbeatIsNewest

\* The process comes up with nobody in flight and no heartbeat yet.
LEMMA InitIInv == Init => IInv
BY SocialAssumption
   DEF SocialAssumption, Init, IInv, GuardTypes, NothingIsEarly, StartsDiffer,
       OthersAreOld, HeartbeatIsNewest, InFlight, Time, Never

\* A step of a turn moves an invocation that is in flight and stays there.
LEMMA TurnKeeps ==
    ASSUME IInv, NEW i \in Invocations, InFlight(i),
           NEW to \in {"turn", "composing", "landed"},
           pc' = [pc EXCEPT ![i] = to],
           UNCHANGED <<started, flight, heartbeat, clock>>
    PROVE  IInv'
<1>1. \A j \in Invocations : InFlight(j)' <=> InFlight(j)
  BY DEF IInv, GuardTypes, InFlight
<1>2. GuardTypes'
  BY DEF IInv, GuardTypes
<1>. QED  BY <1>1, <1>2 DEF IInv, NothingIsEarly, StartsDiffer, OthersAreOld,
                            HeartbeatIsNewest

\* An invocation starts when the guard is free or its holder has hung.
LEMMA StartKeeps ==
    ASSUME IInv, NEW i \in Invocations, Start(i)
    PROVE  IInv'
<1>1. /\ ~InFlight(i) /\ clock \in Time
      /\ flight = Never \/ clock - flight > Hang
      /\ flight' = clock /\ clock' = clock
      /\ heartbeat' = [phase |-> "start", started |-> clock]
      /\ pc' = [pc EXCEPT ![i] = "turn"]
      /\ started' = [started EXCEPT ![i] = clock]
  BY DEF Start, InFlight, IInv, GuardTypes
<1>2. GuardTypes'
  BY <1>1 DEF IInv, GuardTypes
<1>3. /\ InFlight(i)' /\ started'[i] = clock
      /\ \A j \in Invocations \ {i} :
            (InFlight(j)' <=> InFlight(j)) /\ started'[j] = started[j]
  BY <1>1 DEF IInv, GuardTypes, InFlight
<1>4. Hang \in Nat /\ clock \in Nat /\ \A j \in Invocations : started[j] \in Nat
  BY SocialAssumption DEF SocialAssumption, IInv, GuardTypes, Time
<1>5. \A j \in Invocations \ {i} : InFlight(j) => clock - started[j] > Hang
  <2>. SUFFICES ASSUME NEW j \in Invocations \ {i}, InFlight(j)
               PROVE  clock - started[j] > Hang
    OBVIOUS
  <2>1. CASE flight = Never
    BY <2>1 DEF IInv, OthersAreOld
  <2>2. CASE flight # Never
    <3>1. flight \in Nat /\ clock - flight > Hang
      BY <1>1, <2>2 DEF IInv, GuardTypes, Time
    <3>2. started[j] = flight \/ flight - started[j] > Hang
      BY <2>2 DEF IInv, OthersAreOld
    <3>. QED  BY <1>4, <3>1, <3>2
  <2>. QED  BY <2>1, <2>2
<1>6. clock # Never
  BY <1>4 DEF Never
<1>7. NothingIsEarly'
  BY <1>1, <1>3, <1>4, <1>5 DEF NothingIsEarly, IInv
<1>8. StartsDiffer'
  BY <1>3, <1>4, <1>5 DEF StartsDiffer, IInv
<1>9. OthersAreOld' /\ HeartbeatIsNewest'
  BY <1>1, <1>3, <1>4, <1>5, <1>6 DEF OthersAreOld, HeartbeatIsNewest
<1>. QED  BY <1>2, <1>7, <1>8, <1>9 DEF IInv

\* An invocation leaves: stampIfNewer first, then the flag, if it is its own.
LEMMA LeaveKeeps ==
    ASSUME IInv, NEW i \in Invocations, InFlight(i),
           NEW phase \in {"complete", "error"}, Leave(i, phase)
    PROVE  IInv'
<1>1. /\ heartbeat' = IF heartbeat.started > started[i] THEN heartbeat
                      ELSE [phase |-> phase, started |-> started[i]]
      /\ flight' = IF flight = started[i] THEN Never ELSE flight
      /\ pc' = [pc EXCEPT ![i] = "idle"]
      /\ started' = [started EXCEPT ![i] = 0]
      /\ clock' = clock
  BY DEF Leave, Stamp, Release
<1>2. /\ Hang \in Nat /\ clock \in Nat /\ 0 \in Time
      /\ \A j \in Invocations : started[j] \in Nat /\ started[j] \in Time
  BY SocialAssumption DEF SocialAssumption, IInv, GuardTypes, Time
<1>3. /\ flight \in Nat \/ flight = Never
      /\ heartbeat.started \in Nat \/ heartbeat.started = Never
      /\ heartbeat.started <= clock
  BY DEF IInv, GuardTypes, NothingIsEarly, Time
<1>4. GuardTypes'
  BY <1>1, <1>2 DEF IInv, GuardTypes
<1>5. \A j \in Invocations :
         InFlight(j)' => InFlight(j) /\ j # i /\ started'[j] = started[j]
  BY <1>1 DEF IInv, GuardTypes, InFlight
<1>6. started[i] <= heartbeat.started
  BY DEF IInv, HeartbeatIsNewest
<1>7. heartbeat'.started = heartbeat.started
  BY <1>1, <1>2, <1>3, <1>6 DEF Never
<1>8. NothingIsEarly' /\ StartsDiffer'
  BY <1>1, <1>2, <1>3, <1>5, <1>7
     DEF IInv, NothingIsEarly, StartsDiffer, Never
<1>9. OthersAreOld'
  <2>. SUFFICES ASSUME NEW j \in Invocations, InFlight(j)'
               PROVE  /\ flight' = Never => clock' - started'[j] > Hang
                      /\ flight' # Never => \/ started'[j] = flight'
                                            \/ flight' - started'[j] > Hang
    BY DEF OthersAreOld
  <2>1. InFlight(j) /\ j # i /\ started'[j] = started[j]
    BY <1>5
  <2>2. CASE flight = started[i]
    <3>1. flight # Never /\ started[j] # flight
      BY <1>2, <2>1, <2>2 DEF IInv, StartsDiffer, Never
    <3>2. flight - started[j] > Hang /\ flight <= clock
      BY <2>1, <3>1 DEF IInv, OthersAreOld, NothingIsEarly
    <3>. QED  BY <1>1, <1>2, <2>1, <2>2, <3>2
  <2>3. CASE flight # started[i]
    BY <1>1, <2>1, <2>3 DEF IInv, OthersAreOld
  <2>. QED  BY <2>2, <2>3
<1>10. HeartbeatIsNewest'
  <2>1. ASSUME flight' # Never
        PROVE  heartbeat' = [phase |-> "start", started |-> flight']
    <3>1. flight' = flight /\ flight # started[i]
      BY <1>1, <2>1
    <3>2. heartbeat = [phase |-> "start", started |-> flight]
      BY <2>1, <3>1 DEF IInv, HeartbeatIsNewest
    <3>3. heartbeat.started > started[i]
      BY <1>2, <1>3, <1>6, <2>1, <3>1, <3>2
    <3>. QED  BY <1>1, <3>1, <3>2, <3>3
  <2>2. \A j \in Invocations : InFlight(j)' => started'[j] <= heartbeat'.started
    BY <1>5, <1>7 DEF IInv, HeartbeatIsNewest
  <2>. QED  BY <2>1, <2>2 DEF HeartbeatIsNewest
<1>. QED  BY <1>4, <1>8, <1>9, <1>10 DEF IInv

\* The process dies, and every flag and invocation with it.
LEMMA DieKeeps == IInv /\ Die => IInv'
<1>. SUFFICES ASSUME IInv, Die PROVE IInv'
  OBVIOUS
<1>1. /\ flight' = Never /\ UNCHANGED <<heartbeat, clock>>
      /\ pc' = [i \in Invocations |-> "idle"]
      /\ started' = [i \in Invocations |-> 0]
  BY DEF Die
<1>2. 0 \in Time /\ clock \in Nat /\ \A i \in Invocations : ~InFlight(i)'
  BY <1>1, SocialAssumption
     DEF SocialAssumption, IInv, GuardTypes, Time, InFlight
<1>3. GuardTypes'
  BY <1>1, <1>2 DEF IInv, GuardTypes
<1>4. NothingIsEarly'
  BY <1>1, <1>2 DEF IInv, NothingIsEarly, Never
<1>. QED  BY <1>1, <1>2, <1>3, <1>4
          DEF IInv, StartsDiffer, OthersAreOld, HeartbeatIsNewest

\* Time passes: the old get older.
LEMMA TickKeeps == IInv /\ Tick => IInv'
<1>. SUFFICES ASSUME IInv, Tick PROVE IInv'
  OBVIOUS
<1>1. /\ clock' = clock + 1 /\ clock < MaxClock
      /\ UNCHANGED <<flight, heartbeat, pc, started>>
  BY DEF Tick, locals
<1>2. /\ Hang \in Nat /\ MaxClock \in Nat /\ clock \in Nat
      /\ \A i \in Invocations : started[i] \in Nat
      /\ flight \in Nat \/ flight = Never
      /\ heartbeat.started \in Nat \/ heartbeat.started = Never
  BY SocialAssumption DEF SocialAssumption, IInv, GuardTypes, Time
<1>3. GuardTypes'
  BY <1>1, <1>2 DEF IInv, GuardTypes, Time
<1>4. NothingIsEarly' /\ OthersAreOld'
  BY <1>1, <1>2 DEF IInv, NothingIsEarly, OthersAreOld, InFlight, Never
<1>. QED  BY <1>1, <1>3, <1>4
          DEF IInv, StartsDiffer, HeartbeatIsNewest, InFlight

\* What every other step of an invocation does to the guard.
LEMMA OtherStepsAreTurns ==
    ASSUME IInv, NEW i \in Invocations,
           \/ Decline(i) \/ Pick(i) \/ ComposeFails(i)
           \/ Land(i) \/ Resend(i) \/ PostThrows(i) \/ Record(i)
    PROVE  /\ InFlight(i)
           /\ \E to \in {"turn", "composing", "landed"} :
                 pc' = [pc EXCEPT ![i] = to]
           /\ UNCHANGED <<started, flight, heartbeat, clock>>
<1>1. CASE Decline(i) \/ ComposeFails(i)
  BY <1>1 DEF Decline, ComposeFails, NextTurn, InFlight
<1>2. CASE Pick(i)
  BY <1>2 DEF Pick, InFlight
<1>3. CASE Land(i)
  BY <1>3 DEF Land, InFlight
<1>4. CASE PostThrows(i)
  BY <1>4 DEF PostThrows, RecordFailed, NextTurn, InFlight
<1>5. CASE Record(i)
  BY <1>5 DEF Record, RecordFailed, NextTurn, InFlight
<1>6. CASE Resend(i)
  <2>1. pc[i] = "landed" /\ UNCHANGED <<pc, started, flight, heartbeat, clock>>
    BY <1>6 DEF Resend
  <2>2. pc' = [pc EXCEPT ![i] = "landed"]
    BY <2>1 DEF IInv, GuardTypes
  <2>. QED  BY <2>1, <2>2 DEF InFlight
<1>. QED  BY <1>1, <1>2, <1>3, <1>4, <1>5, <1>6

\* Every step of the cycle keeps the invariant.
LEMMA NextIInv == IInv /\ [Next]_vars => IInv'
<1>. SUFFICES ASSUME IInv, [Next]_vars PROVE IInv'
  OBVIOUS
<1>1. ASSUME NEW i \in Invocations, Start(i) PROVE IInv'
  BY <1>1, StartKeeps
<1>2. ASSUME NEW i \in Invocations, Complete(i) PROVE IInv'
  BY <1>2, LeaveKeeps DEF Complete, InFlight
<1>3. ASSUME NEW i \in Invocations, Throw(i) PROVE IInv'
  BY <1>3, LeaveKeeps DEF Throw, InFlight
<1>4. ASSUME NEW i \in Invocations,
             \/ Decline(i) \/ Pick(i) \/ ComposeFails(i)
             \/ Land(i) \/ Resend(i) \/ PostThrows(i) \/ Record(i)
      PROVE  IInv'
  BY <1>4, OtherStepsAreTurns, TurnKeeps
<1>5. CASE UNCHANGED vars
  BY <1>5 DEF vars, IInv, GuardTypes, NothingIsEarly, StartsDiffer,
              OthersAreOld, HeartbeatIsNewest, InFlight
<1>. QED  BY <1>1, <1>2, <1>3, <1>4, <1>5, DieKeeps, TickKeeps DEF Next

\* IInv is an invariant of the cycle.
THEOREM Invariance == Spec => []IInv
BY InitIInv, NextIInv, PTL DEF Spec

\* The invocation that holds the guard is the one the heartbeat row shows as
\* started, so a hang is never hidden by an older cycle's completion.
THEOREM TheHolderIsVisible == Spec => []HolderIsVisible
<1>1. IInv => HolderIsVisible
  BY DEF IInv, GuardTypes, HeartbeatIsNewest, HolderIsVisible, InFlight, Time,
         Never
<1>. QED  BY <1>1, Invariance, PTL

\* A cycle that comes back late never overwrites the heartbeat of a newer one.
THEOREM TheHeartbeatMovesOn == Spec => HeartbeatNeverGoesBack
<1>1. IInv /\ [Next]_vars => [heartbeat'.started >= heartbeat.started]_vars
  <2>. SUFFICES ASSUME IInv, Next
               PROVE  heartbeat'.started >= heartbeat.started
    OBVIOUS
  <2>1. heartbeat.started \in Int /\ heartbeat.started <= clock /\ clock \in Int
        /\ \A i \in Invocations : started[i] \in Int
    BY SocialAssumption
       DEF SocialAssumption, IInv, GuardTypes, NothingIsEarly, Time, Never
  <2>2. ASSUME NEW i \in Invocations, Start(i)
        PROVE  heartbeat'.started >= heartbeat.started
    BY <2>1, <2>2 DEF Start
  <2>3. ASSUME NEW i \in Invocations, Complete(i) \/ Throw(i)
        PROVE  heartbeat'.started >= heartbeat.started
    BY <2>1, <2>3 DEF Complete, Throw, Leave, Stamp
  <2>4. ASSUME heartbeat' = heartbeat
        PROVE  heartbeat'.started >= heartbeat.started
    BY <2>1, <2>4
  <2>5. Die \/ Tick => heartbeat' = heartbeat
    BY DEF Die, Tick
  <2>. QED  BY <2>2, <2>3, <2>4, <2>5, OtherStepsAreTurns DEF Next
<1>. QED  BY <1>1, Invariance, PTL DEF Spec, HeartbeatNeverGoesBack

\* A cycle starts only when every other one in flight is past the threshold.
THEOREM YoungCyclesAreAlone == Spec => YoungCyclesRunAlone
<1>. DEFINE Alone ==
        \A i, j \in Invocations :
           /\ i # j
           /\ pc[i] = "idle" /\ pc'[i] # "idle"
           /\ pc[j] # "idle"
           => clock - started[j] > Hang
<1>1. IInv /\ [Next]_vars => [Alone]_vars
  <2>. SUFFICES ASSUME IInv, Next, NEW i \in Invocations, NEW j \in Invocations,
                      i # j, pc[i] = "idle", pc'[i] # "idle", pc[j] # "idle"
               PROVE  clock - started[j] > Hang
    OBVIOUS
  <2>1. Start(i)
    <3>1. ASSUME NEW k \in Invocations, NEW to, pc' = [pc EXCEPT ![k] = to],
                 pc[k] # "idle" \/ to = "idle"
          PROVE  FALSE
      BY <3>1 DEF IInv, GuardTypes
    <3>2. ASSUME NEW k \in Invocations, Complete(k) \/ Throw(k) PROVE FALSE
      BY <3>1, <3>2 DEF Complete, Throw, Leave
    <3>3. ASSUME NEW k \in Invocations,
                 \/ Decline(k) \/ Pick(k) \/ ComposeFails(k)
                 \/ Land(k) \/ Resend(k) \/ PostThrows(k) \/ Record(k)
          PROVE  FALSE
      BY <3>1, <3>3, OtherStepsAreTurns DEF InFlight
    <3>4. ~Die /\ ~Tick
      BY DEF Die, Tick, locals
    <3>5. ASSUME NEW k \in Invocations, Start(k) PROVE k = i
      BY <3>5 DEF Start, IInv, GuardTypes
    <3>. QED  BY <3>2, <3>3, <3>4, <3>5 DEF Next
  <2>2. /\ Hang \in Nat /\ clock \in Nat /\ started[j] \in Nat
        /\ flight = Never \/ (flight \in Nat /\ clock - flight > Hang)
    BY <2>1, SocialAssumption
       DEF SocialAssumption, Start, IInv, GuardTypes, Time
  <2>3. /\ flight = Never => clock - started[j] > Hang
        /\ flight # Never => started[j] = flight \/ flight - started[j] > Hang
    BY DEF IInv, OthersAreOld, InFlight
  <2>. QED  BY <2>2, <2>3
<1>. QED  BY <1>1, Invariance, PTL DEF Spec, YoungCyclesRunAlone

-----------------------------------------------------------------------------
(* The rows: types first.                                                  *)

AtWork(i) == pc[i] \in {"composing", "landed"}

\* Whoever is at work has an article and a platform.
Shape ==
    \A i \in Invocations :
        AtWork(i) => topic[i] \in Articles /\ turn[i] \in 1..Len(Order)

Base == TypeOK /\ Shape

LEMMA Orders ==
    /\ Len(Order) \in Nat \ {0} /\ 1 \in 1..Len(Order) + 1
    /\ \A k \in 1..Len(Order) : Order[k] \in Platforms /\ k + 1 \in 1..Len(Order) + 1
<1>1. Order \in Seq(Platforms) /\ Order # <<>>
  BY SocialAssumption DEF SocialAssumption
<1>2. Len(Order) \in Nat \ {0} /\ \A k \in 1..Len(Order) : Order[k] \in Platforms
  BY <1>1
<1>. QED  BY <1>2

LEMMA InitBase == Init => Base
BY SocialAssumption, Orders
   DEF SocialAssumption, Init, Base, TypeOK, Shape, AtWork, Time, Never

\* The turn is over: nobody else is touched.
LEMMA NextTurnKeeps ==
    ASSUME Base, NEW i \in Invocations, NextTurn(i), turn[i] \in 1..Len(Order)
    PROVE  /\ pc' \in [Invocations -> {"idle", "turn", "composing", "landed"}]
           /\ turn' \in [Invocations -> 1..Len(Order) + 1]
           /\ topic' \in [Invocations -> Articles \cup {NoArticle}]
           /\ preEvent' \in [Invocations -> Events \cup {NoEvent}]
           /\ subject' \in [Invocations -> Events \cup {NoEvent}]
           /\ sends' \in [Invocations -> Nat]
           /\ started' \in [Invocations -> Time]
           /\ Shape'
<1>1. /\ pc' = [pc EXCEPT ![i] = "turn"]
      /\ turn' = [turn EXCEPT ![i] = turn[i] + 1]
      /\ topic' = [topic EXCEPT ![i] = NoArticle]
      /\ preEvent' = [preEvent EXCEPT ![i] = NoEvent]
      /\ subject' = [subject EXCEPT ![i] = NoEvent]
      /\ sends' = [sends EXCEPT ![i] = 0]
      /\ started' = started
  BY DEF NextTurn
<1>2. turn[i] + 1 \in 1..Len(Order) + 1
  BY Orders
<1>3. Shape'
  BY <1>1 DEF Base, TypeOK, Shape, AtWork
<1>. QED  BY <1>1, <1>2, <1>3 DEF Base, TypeOK

LEMMA LeaveBase ==
    ASSUME Base, NEW i \in Invocations, NEW phase \in {"complete", "error"},
           Leave(i, phase)
    PROVE  Base'
<1>1. /\ flight' \in Time \cup {Never}
      /\ heartbeat' \in [phase : {"none", "start", "complete", "error"},
                         started : Time \cup {Never}]
  BY DEF Leave, Stamp, Release, Base, TypeOK
<1>2. 0 \in Time
  BY SocialAssumption DEF SocialAssumption, Time
<1>3. Shape'
  BY DEF Leave, Base, TypeOK, Shape, AtWork
<1>. QED  BY <1>1, <1>2, <1>3, Orders DEF Leave, rows, Base, TypeOK

LEMMA RecordRowTypes ==
    ASSUME Base, NEW p \in Platforms, NEW a \in Articles,
           NEW s \in {"posted", "failed"}, NEW t \in Time \cup {Never},
           NEW e \in Events \cup {NoEvent}, RecordRow(p, a, s, t, e)
    PROVE  /\ status' \in [Platforms -> [Articles -> {"none", "posted", "failed"}]]
           /\ postedAt' \in [Platforms -> [Articles -> Time \cup {Never}]]
           /\ eventId' \in [Platforms -> [Articles -> Events \cup {NoEvent}]]
BY DEF RecordRow, Base, TypeOK

LEMMA PickTypes ==
    ASSUME Base, NEW p, NEW pick \in Picks(p)
    PROVE  /\ pick[1] \in Articles /\ status[p][pick[1]] = "none"
           /\ pick[2] \in Events \cup {NoEvent}
<1>1. EventOf \in [Articles -> Events \cup {NoEvent}]
  BY SocialAssumption DEF SocialAssumption
<1>. QED  BY <1>1 DEF Picks, Unposted

\* Cycles of a kind can be counted.
LEMMA FiniteCycles ==
    \A W \in SUBSET Invocations :
        IsFiniteSet(W) /\ Cardinality(W) \in Nat
            /\ Cardinality(W) <= Cardinality(Invocations)
            /\ Cardinality(Invocations) \in Nat
BY SocialAssumption, FS_Subset, FS_CardinalityType DEF SocialAssumption

LEMMA SentAreCycles == \A p, a : Sent(p, a) \in SUBSET Invocations
BY DEF Sent

\* Every step keeps the types.
LEMMA NextBase == Base /\ [Next]_vars => Base'
<1>. SUFFICES ASSUME Base, [Next]_vars PROVE Base'
  OBVIOUS
<1>1. ASSUME NEW i \in Invocations, Start(i) PROVE Base'
  <2>1. Shape'
    BY <1>1 DEF Start, Base, TypeOK, Shape, AtWork
  <2>2. heartbeat' \in [phase : {"none", "start", "complete", "error"},
                        started : Time \cup {Never}]
    BY <1>1 DEF Start, Base, TypeOK
  <2>3. /\ flight' \in Time \cup {Never} /\ started' \in [Invocations -> Time]
        /\ pc' \in [Invocations -> {"idle", "turn", "composing", "landed"}]
        /\ UNCHANGED <<status, postedAt, eventId, posts, lost, turn, topic, preEvent,
                       subject, sends, clock>>
    BY <1>1 DEF Start, rows, Base, TypeOK
  <2>. QED  BY <2>1, <2>2, <2>3 DEF Base, TypeOK
<1>2. ASSUME NEW i \in Invocations, Complete(i) \/ Throw(i) PROVE Base'
  BY <1>2, LeaveBase DEF Complete, Throw
<1>3. ASSUME NEW i \in Invocations, Decline(i) \/ ComposeFails(i) PROVE Base'
  <2>1. NextTurn(i) /\ UNCHANGED <<rows, posts, lost, flight, heartbeat, clock>>
        /\ turn[i] \in 1..Len(Order)
    BY <1>3, Orders DEF Decline, ComposeFails, Base, TypeOK, Shape, AtWork
  <2>. QED  BY <2>1, NextTurnKeeps DEF rows, Base, TypeOK
<1>4. ASSUME NEW i \in Invocations, Pick(i) PROVE Base'
  <2>1. PICK pick \in Picks(Order[turn[i]]) :
           /\ topic' = [topic EXCEPT ![i] = pick[1]]
           /\ preEvent' = [preEvent EXCEPT ![i] = pick[2]]
    BY <1>4 DEF Pick
  <2>2. pick[1] \in Articles /\ pick[2] \in Events \cup {NoEvent}
    BY PickTypes
  <2>3. turn[i] \in 1..Len(Order)
    BY <1>4, Orders DEF Pick, Base, TypeOK
  <2>4. Shape'
    BY <1>4, <2>1, <2>2, <2>3 DEF Pick, Base, TypeOK, Shape, AtWork
  <2>5. /\ topic' \in [Invocations -> Articles \cup {NoArticle}]
        /\ preEvent' \in [Invocations -> Events \cup {NoEvent}]
    BY <2>1, <2>2 DEF Base, TypeOK
  <2>6. /\ pc' \in [Invocations -> {"idle", "turn", "composing", "landed"}]
        /\ UNCHANGED <<status, postedAt, eventId, posts, lost, flight, heartbeat, turn,
                       subject, sends, started, clock>>
    BY <1>4 DEF Pick, rows, Base, TypeOK
  <2>7. TypeOK'
    BY <2>5, <2>6 DEF Base, TypeOK
  <2>. QED  BY <2>4, <2>7 DEF Base
<1>5. ASSUME NEW i \in Invocations, Land(i) PROVE Base'
  <2>1. /\ Order[turn[i]] \in Platforms /\ topic[i] \in Articles
    BY <1>5, Orders DEF Land, Base, Shape, AtWork
  <2>2. posts' \in [Platforms -> [Articles -> 0..MaxPosts]]
    <3>1. posts \in [Platforms -> [Articles -> 0..MaxPosts]] /\ MaxPosts \in Nat
      BY SocialAssumption DEF Base, TypeOK, SocialAssumption
    <3>2. /\ posts[Order[turn[i]]][topic[i]] < MaxPosts
          /\ posts' = [posts EXCEPT ![Order[turn[i]]][topic[i]] =
                                   posts[Order[turn[i]]][topic[i]] + 1]
      BY <1>5 DEF Land
    <3>3. posts[Order[turn[i]]][topic[i]] + 1 \in 0..MaxPosts
      BY <2>1, <3>1, <3>2
    <3>. QED  BY <2>1, <3>1, <3>2, <3>3
  <2>3. subject' \in [Invocations -> Events \cup {NoEvent}]
    <3>1. ParentEvent(i) \in Events \cup {NoEvent}
      BY <2>1, SocialAssumption DEF ParentEvent, Base, TypeOK, SocialAssumption
    <3>. QED  BY <1>5, <3>1 DEF Land, Base, TypeOK
  <2>4. Shape'
    BY <1>5 DEF Land, Base, TypeOK, Shape, AtWork
  <2>. QED  BY <1>5, <2>2, <2>3, <2>4 DEF Land, rows, Base, TypeOK
<1>12. ASSUME NEW i \in Invocations, Resend(i) PROVE Base'
  <2>1. /\ Order[turn[i]] \in Platforms /\ topic[i] \in Articles
    BY <1>12, Orders DEF Resend, Base, Shape, AtWork
  <2>2. posts' \in [Platforms -> [Articles -> 0..MaxPosts]]
    <3>1. posts \in [Platforms -> [Articles -> 0..MaxPosts]] /\ MaxPosts \in Nat
      BY SocialAssumption DEF Base, TypeOK, SocialAssumption
    <3>2. /\ posts[Order[turn[i]]][topic[i]] < MaxPosts
          /\ posts' = [posts EXCEPT ![Order[turn[i]]][topic[i]] =
                                   posts[Order[turn[i]]][topic[i]] + 1]
      BY <1>12 DEF Resend
    <3>3. posts[Order[turn[i]]][topic[i]] + 1 \in 0..MaxPosts
      BY <2>1, <3>1, <3>2
    <3>. QED  BY <2>1, <3>1, <3>2, <3>3
  <2>3. lost' \in [Platforms -> [Articles -> Nat]] /\ sends' \in [Invocations -> Nat]
    BY <1>12, <2>1 DEF Resend, Base, TypeOK
  <2>4. Shape'
    BY <1>12 DEF Resend, Base, TypeOK, Shape, AtWork
  <2>. QED  BY <1>12, <2>2, <2>3, <2>4 DEF Resend, rows, Base, TypeOK
<1>6. ASSUME NEW i \in Invocations, RecordFailed(i), AtWork(i) PROVE Base'
  <2>1. Order[turn[i]] \in Platforms /\ topic[i] \in Articles
        /\ turn[i] \in 1..Len(Order)
    BY <1>6, Orders DEF Base, Shape
  <2>. QED  BY <1>6, <2>1, NextTurnKeeps, RecordRowTypes
            DEF RecordFailed, Base, TypeOK
<1>7. ASSUME NEW i \in Invocations, PostThrows(i) PROVE Base'
  BY <1>6, <1>7 DEF PostThrows, AtWork
<1>8. ASSUME NEW i \in Invocations, Record(i) PROVE Base'
  <2>1. AtWork(i) /\ Order[turn[i]] \in Platforms /\ topic[i] \in Articles
        /\ turn[i] \in 1..Len(Order) /\ subject[i] \in Events \cup {NoEvent}
        /\ clock \in Time
    BY <1>8, Orders DEF Record, Base, TypeOK, Shape, AtWork
  <2>2. CASE RecordFailed(i)
    BY <1>6, <2>1, <2>2
  <2>3. CASE /\ RecordRow(Order[turn[i]], topic[i], "posted", clock, subject[i])
             /\ NextTurn(i)
             /\ UNCHANGED <<posts, lost, flight, heartbeat, clock>>
    BY <2>1, <2>3, NextTurnKeeps, RecordRowTypes DEF Base, TypeOK
  <2>. QED  BY <1>8, <2>2, <2>3 DEF Record
<1>9. CASE Die
  <2>1. 0 \in Time
    BY SocialAssumption DEF SocialAssumption, Time
  <2>2. Shape'
    BY <1>9 DEF Die, Shape, AtWork
  <2>3. lost' \in [Platforms -> [Articles -> Nat]]
    <3>1. \A p \in Platforms, a \in Articles :
             lost[p][a] \in Nat /\ Cardinality(Sent(p, a)) \in Nat
      BY FiniteCycles, SentAreCycles DEF Base, TypeOK
    <3>. QED  BY <1>9, <3>1 DEF Die
  <2>. QED  BY <1>9, <2>1, <2>2, <2>3, Orders DEF Die, rows, Base, TypeOK
<1>10. CASE Tick
  <2>1. clock' \in Time
    BY <1>10, SocialAssumption DEF Tick, SocialAssumption, Base, TypeOK, Time
  <2>. QED  BY <1>10, <2>1 DEF Tick, rows, locals, Base, TypeOK, Shape, AtWork
<1>11. CASE UNCHANGED vars
  BY <1>11 DEF vars, Base, TypeOK, Shape, AtWork
<1>. QED  BY <1>1, <1>2, <1>3, <1>4, <1>5, <1>7, <1>8, <1>9, <1>10, <1>11,
             <1>12
          DEF Next

\* Types and shape are invariants of the cycle.
THEOREM BaseInvariance == Spec => []Base
BY InitBase, NextBase, PTL DEF Spec

\* Every variable keeps its type, posts and rows included.
THEOREM TypeCorrect == Spec => []TypeOK
BY BaseInvariance, PTL DEF Base

-----------------------------------------------------------------------------
(* What a step does to the rows and the work.                              *)

\* The invocations at work on a platform, and on an article of it.
WorkingOn(p) == {i \in Invocations : AtWork(i) /\ Order[turn[i]] = p}

\* An invocation at work records an outcome and is through with it.
Settles(i, s) ==
    /\ AtWork(i)
    /\ RecordRow(Order[turn[i]], topic[i], s,
                 IF s = "posted" THEN clock ELSE Never,
                 IF s = "posted" THEN subject[i] ELSE NoEvent)
    /\ NextTurn(i) /\ clock' = clock

\* Nobody comes to work and no row changes.
Quiet ==
    /\ UNCHANGED rows /\ clock' >= clock
    /\ \A i \in Invocations :
          AtWork(i)' => AtWork(i) /\ turn'[i] = turn[i] /\ topic'[i] = topic[i]

LEMMA Effects ==
    ASSUME Base, [Next]_vars
    PROVE  \/ Quiet
           \/ \E i \in Invocations : Pick(i) \/ Settles(i, "posted") \/ Settles(i, "failed")
<1>0. clock \in Nat /\ clock >= clock
  BY SocialAssumption DEF SocialAssumption, Base, TypeOK, Time
<1>1. ASSUME NEW i \in Invocations, Start(i) PROVE Quiet
  BY <1>0, <1>1 DEF Start, Quiet, AtWork, Base, TypeOK
<1>2. ASSUME NEW i \in Invocations, Complete(i) \/ Throw(i) PROVE Quiet
  BY <1>0, <1>2 DEF Complete, Throw, Leave, Quiet, AtWork, Base, TypeOK
<1>3. ASSUME NEW i \in Invocations, Decline(i) \/ ComposeFails(i) PROVE Quiet
  BY <1>0, <1>3 DEF Decline, ComposeFails, NextTurn, Quiet, AtWork, Base, TypeOK
<1>4. ASSUME NEW i \in Invocations, Land(i) \/ Resend(i) PROVE Quiet
  BY <1>0, <1>4 DEF Land, Resend, Quiet, AtWork, Base, TypeOK
<1>5. ASSUME NEW i \in Invocations, PostThrows(i) PROVE Settles(i, "failed")
  BY <1>5 DEF PostThrows, RecordFailed, Settles, AtWork
<1>6. ASSUME NEW i \in Invocations, Record(i)
      PROVE  Settles(i, "failed") \/ Settles(i, "posted")
  BY <1>6 DEF Record, RecordFailed, Settles, AtWork
<1>7. CASE Die \/ Tick \/ UNCHANGED vars
  BY <1>0, <1>7 DEF Die, Tick, vars, rows, locals, Quiet, AtWork
<1>. QED  BY <1>1, <1>2, <1>3, <1>4, <1>5, <1>6, <1>7 DEF Next

\* An outcome: one row changes, and one invocation is through.
LEMMA Outcome ==
    ASSUME Base, NEW i \in Invocations, NEW s \in {"posted", "failed"},
           Settles(i, s)
    PROVE  /\ Order[turn[i]] \in Platforms /\ topic[i] \in Articles
           /\ \A p \in Platforms, a \in Articles :
                 IF p = Order[turn[i]] /\ a = topic[i]
                 THEN /\ status'[p][a] = s
                      /\ s = "posted" => postedAt'[p][a] = clock
                 ELSE status'[p][a] = status[p][a] /\ postedAt'[p][a] = postedAt[p][a]
           /\ \A j \in Invocations :
                 AtWork(j)' => /\ AtWork(j) /\ j # i
                               /\ turn'[j] = turn[j] /\ topic'[j] = topic[j]
<1>1. Order[turn[i]] \in Platforms /\ topic[i] \in Articles
  BY Orders DEF Settles, Base, Shape
<1>2. \A p \in Platforms, a \in Articles :
         IF p = Order[turn[i]] /\ a = topic[i]
         THEN /\ status'[p][a] = s
              /\ s = "posted" => postedAt'[p][a] = clock
         ELSE status'[p][a] = status[p][a] /\ postedAt'[p][a] = postedAt[p][a]
  BY <1>1 DEF Settles, RecordRow, Base, TypeOK
<1>3. \A j \in Invocations :
         AtWork(j)' => /\ AtWork(j) /\ j # i
                       /\ turn'[j] = turn[j] /\ topic'[j] = topic[j]
  BY DEF Settles, NextTurn, AtWork, Base, TypeOK
<1>. QED  BY <1>1, <1>2, <1>3

\* A pick: one invocation comes to work, on an article without a row and a
\* platform that is rested.
LEMMA APick ==
    ASSUME Base, NEW i \in Invocations, Pick(i)
    PROVE  /\ Order[turn[i]] \in Platforms /\ CadenceAllows(Order[turn[i]])
           /\ UNCHANGED <<rows, clock, turn>>
           /\ topic'[i] \in Articles /\ status[Order[turn[i]]][topic'[i]] = "none"
           /\ \A j \in Invocations \ {i} :
                 (AtWork(j)' <=> AtWork(j)) /\ topic'[j] = topic[j]
<1>1. PICK pick \in Picks(Order[turn[i]]) :
           topic' = [topic EXCEPT ![i] = pick[1]]
  BY DEF Pick
<1>2. pick[1] \in Articles /\ status[Order[turn[i]]][pick[1]] = "none"
  BY PickTypes
<1>3. Order[turn[i]] \in Platforms
  BY Orders DEF Pick, Base, TypeOK
<1>. QED  BY <1>1, <1>2, <1>3 DEF Pick, AtWork, Base, TypeOK

-----------------------------------------------------------------------------
(* Settled articles.                                                       *)

\* An article with an outcome on a platform, and nobody at work on it there, is
\* left alone for good.
THEOREM TheSettledIsFinal == Spec => SettledIsFinal
<1>. DEFINE Final ==
        \A p \in Platforms : \A a \in Articles :
           status[p][a] # "none" /\ Working(p, a) = {} =>
               /\ Working(p, a)' = {}
               /\ status'[p][a] = status[p][a]
<1>1. Base /\ [Next]_vars => [Final]_vars
  <2>. SUFFICES ASSUME Base, [Next]_vars, NEW p \in Platforms, NEW a \in Articles,
                       status[p][a] # "none", Working(p, a) = {}
                PROVE  Working(p, a)' = {} /\ status'[p][a] = status[p][a]
    OBVIOUS
  <2>1. \A j \in Invocations : ~(AtWork(j) /\ topic[j] = a /\ Order[turn[j]] = p)
    BY DEF Working, AtWork
  <2>2. ASSUME \A j \in Invocations :
                  ~(AtWork(j)' /\ topic'[j] = a /\ Order[turn'[j]] = p)
        PROVE  Working(p, a)' = {}
    BY <2>2 DEF Working, AtWork
  <2>3. CASE Quiet
    BY <2>1, <2>2, <2>3 DEF Quiet, rows
  <2>4. ASSUME NEW i \in Invocations, Pick(i)
        PROVE  Working(p, a)' = {} /\ status'[p][a] = status[p][a]
    <3>1. /\ UNCHANGED <<rows, clock, turn>>
          /\ status[Order[turn[i]]][topic'[i]] = "none"
          /\ \A j \in Invocations \ {i} :
                (AtWork(j)' <=> AtWork(j)) /\ topic'[j] = topic[j]
      BY <2>4, APick
    <3>2. ~(topic'[i] = a /\ Order[turn'[i]] = p)
      BY <3>1
    <3>. QED  BY <2>1, <2>2, <3>1, <3>2 DEF rows
  <2>5. ASSUME NEW i \in Invocations, NEW s \in {"posted", "failed"}, Settles(i, s)
        PROVE  Working(p, a)' = {} /\ status'[p][a] = status[p][a]
    <3>1. ~(p = Order[turn[i]] /\ a = topic[i])
      BY <2>1, <2>5 DEF Settles
    <3>2. status'[p][a] = status[p][a]
      BY <2>5, <3>1, Outcome
    <3>3. \A j \in Invocations :
             AtWork(j)' => AtWork(j) /\ turn'[j] = turn[j] /\ topic'[j] = topic[j]
      BY <2>5, Outcome
    <3>. QED  BY <2>1, <2>2, <3>2, <3>3
  <2>. QED  BY <2>3, <2>4, <2>5, Effects
<1>. QED  BY <1>1, BaseInvariance, PTL DEF Spec, SettledIsFinal

-----------------------------------------------------------------------------
(* Counting for gates that are read long before what they admit.  P is     *)
(* what a slot holds, F the invocations that found it open and may still   *)
(* add to it, Q and G the same a step later.                               *)

\* Less in the window and fewer cycles that may add to it.
LEMMA LessAndFewer ==
    ASSUME NEW P, NEW F, NEW Q, NEW G, IsFiniteSet(P), IsFiniteSet(F),
           Q \subseteq P, G \subseteq F
    PROVE  /\ {Cardinality(P), Cardinality(F), Cardinality(Q), Cardinality(G)}
                 \subseteq Nat
           /\ Cardinality(Q) <= Cardinality(P)
           /\ Cardinality(Q) + Cardinality(G) <= Cardinality(P) + Cardinality(F)
<1>1. IsFiniteSet(Q) /\ Cardinality(Q) <= Cardinality(P)
  BY FS_Subset
<1>2. IsFiniteSet(G) /\ Cardinality(G) <= Cardinality(F)
  BY FS_Subset
<1>3. Cardinality(P) \in Nat /\ Cardinality(F) \in Nat
  BY FS_CardinalityType
<1>4. Cardinality(Q) \in Nat /\ Cardinality(G) \in Nat
  BY <1>1, <1>2, FS_CardinalityType
<1>. QED  BY <1>1, <1>2, <1>3, <1>4

\* A cycle adds the one thing it was admitted for.
LEMMA OneSpendsItsTurn ==
    ASSUME NEW P, NEW F, NEW Q, NEW G, NEW x, NEW r,
           IsFiniteSet(P), IsFiniteSet(F), r \in F,
           Q \subseteq P \cup {x}, G \subseteq F \ {r}
    PROVE  Cardinality(Q) + Cardinality(G) <= Cardinality(P) + Cardinality(F)
<1>1. /\ IsFiniteSet(P \cup {x})
      /\ Cardinality(P \cup {x}) = Cardinality(P)
            \/ Cardinality(P \cup {x}) = Cardinality(P) + 1
  BY FS_AddElement
<1>2. IsFiniteSet(F \ {r}) /\ Cardinality(F \ {r}) = Cardinality(F) - 1
  BY FS_RemoveElement
<1>3. /\ {Cardinality(P \cup {x}), Cardinality(F \ {r}), Cardinality(Q),
          Cardinality(G)} \subseteq Nat
      /\ Cardinality(Q) + Cardinality(G)
            <= Cardinality(P \cup {x}) + Cardinality(F \ {r})
  BY <1>1, <1>2, LessAndFewer
<1>4. Cardinality(P) \in Nat /\ Cardinality(F) \in Nat
  BY FS_CardinalityType
<1>. QED  BY <1>1, <1>2, <1>3, <1>4

-----------------------------------------------------------------------------
(* The minimum interval.                                                   *)

PostedIn(p, W) == {a \in Posted(p) : postedAt[p][a] \in W}

Slot(t) == t..(t + MinInterval - 1)

\* A slot that has passed holds one post for each invocation, and in one that
\* has not there is still room for everybody at work.
Room(p, t) ==
    /\ Cardinality(PostedIn(p, Slot(t))) <= Cardinality(Invocations)
    /\ clock < t + MinInterval =>
          Cardinality(PostedIn(p, Slot(t))) + Cardinality(WorkingOn(p))
              <= Cardinality(Invocations)

LEMMA FiniteSlots ==
    ASSUME NEW p, NEW W
    PROVE  /\ IsFiniteSet(PostedIn(p, W)) /\ IsFiniteSet(WorkingOn(p))
           /\ IsFiniteSet(Invocations) /\ Cardinality(Invocations) \in Nat
           /\ Cardinality(PostedIn(p, W)) \in Nat
           /\ Cardinality(WorkingOn(p)) \in Nat
<1>. USE SocialAssumption DEF SocialAssumption
<1>1. PostedIn(p, W) \in SUBSET Articles /\ WorkingOn(p) \in SUBSET Invocations
  BY DEF PostedIn, Posted, WorkingOn
<1>2. /\ IsFiniteSet(PostedIn(p, W)) /\ IsFiniteSet(WorkingOn(p))
      /\ IsFiniteSet(Invocations)
  BY <1>1, FS_Subset
<1>. QED  BY <1>2, FS_CardinalityType

LEMMA FiniteNextSlots ==
    ASSUME NEW p, NEW W
    PROVE  /\ Cardinality(PostedIn(p, W)') \in Nat
           /\ Cardinality(WorkingOn(p)') \in Nat
<1>1. /\ PostedIn(p, W)' \in SUBSET Articles
      /\ WorkingOn(p)' \in SUBSET Invocations
  BY DEF PostedIn, Posted, WorkingOn
<1>2. IsFiniteSet(PostedIn(p, W)') /\ IsFiniteSet(WorkingOn(p)')
  BY <1>1, SocialAssumption, FS_Subset DEF SocialAssumption
<1>. QED  BY <1>2, FS_CardinalityType

\* Nothing is posted and nobody comes to work.
LEMMA RoomStays ==
    ASSUME NEW p, NEW t \in Time, Room(p, t), clock \in Int, clock' \in Int,
           clock' >= clock, PostedIn(p, Slot(t))' \subseteq PostedIn(p, Slot(t)),
           WorkingOn(p)' \subseteq WorkingOn(p)
    PROVE  Room(p, t)'
<1>1. /\ Cardinality(PostedIn(p, Slot(t))') <= Cardinality(PostedIn(p, Slot(t)))
      /\ Cardinality(PostedIn(p, Slot(t))') + Cardinality(WorkingOn(p)')
            <= Cardinality(PostedIn(p, Slot(t))) + Cardinality(WorkingOn(p))
  BY FiniteSlots, LessAndFewer
<1>2. t \in Int /\ MinInterval \in Int
  BY SocialAssumption DEF SocialAssumption, Time
<1>3. Cardinality(PostedIn(p, Slot(t))') <= Cardinality(Invocations)
  BY <1>1, FiniteSlots, FiniteNextSlots DEF Room
<1>4. ASSUME clock' < t + MinInterval
      PROVE  Cardinality(PostedIn(p, Slot(t))') + Cardinality(WorkingOn(p)')
                 <= Cardinality(Invocations)
  <2>1. clock < t + MinInterval
    BY <1>2, <1>4
  <2>2. Cardinality(PostedIn(p, Slot(t))) + Cardinality(WorkingOn(p))
            <= Cardinality(Invocations)
    BY <2>1 DEF Room
  <2>. QED  BY <1>1, <2>2, FiniteSlots, FiniteNextSlots
<1>. QED  BY <1>3, <1>4 DEF Room, Slot

LEMMA PickFits ==
    ASSUME Base, NEW p \in Platforms, NEW t \in Time, Room(p, t),
           NEW i \in Invocations, Pick(i)
    PROVE  Room(p, t)'
<1>1. /\ CadenceAllows(Order[turn[i]]) /\ UNCHANGED <<rows, clock, turn>>
      /\ \A j \in Invocations \ {i} : AtWork(j)' <=> AtWork(j)
  BY APick
<1>2. PostedIn(p, Slot(t))' = PostedIn(p, Slot(t)) /\ clock \in Int /\ t \in Int
      /\ MinInterval \in Int
  BY <1>1, SocialAssumption
     DEF PostedIn, Posted, rows, SocialAssumption, Base, TypeOK, Time, Slot
<1>3. CASE Order[turn[i]] # p
  <2>1. WorkingOn(p)' \subseteq WorkingOn(p)
    BY <1>1, <1>3 DEF WorkingOn
  <2>. QED  BY <1>1, <1>2, <2>1, RoomStays
<1>4. CASE Order[turn[i]] = p /\ clock < t + MinInterval
  <2>1. ASSUME NEW a \in PostedIn(p, Slot(t)) PROVE FALSE
    <3>1. a \in Posted(p) /\ a \in Articles /\ postedAt[p][a] \in Int
          /\ postedAt[p][a] >= t
      BY <1>2, <2>1 DEF PostedIn, Posted, Slot
    <3>2. clock - postedAt[p][a] >= MinInterval
      BY <1>1, <1>4, <3>1 DEF CadenceAllows
    <3>. QED  BY <1>2, <1>4, <3>1, <3>2
  <2>2. PostedIn(p, Slot(t))' = {}
    BY <1>2, <2>1
  <2>3. Cardinality(PostedIn(p, Slot(t))') = 0
    BY <2>2, FS_EmptySet
  <2>4. WorkingOn(p)' \subseteq Invocations
    BY DEF WorkingOn
  <2>5. Cardinality(WorkingOn(p)') <= Cardinality(Invocations)
    BY <2>4, FiniteSlots, FS_Subset
  <2>6. /\ Cardinality(PostedIn(p, Slot(t))') <= Cardinality(Invocations)
        /\ Cardinality(PostedIn(p, Slot(t))') + Cardinality(WorkingOn(p)')
              <= Cardinality(Invocations)
    BY <2>3, <2>5, FiniteSlots, FiniteNextSlots
  <2>. QED  BY <2>6 DEF Room, Slot
<1>5. CASE ~(clock < t + MinInterval)
  <2>1. ~(clock' < t + MinInterval)
    BY <1>1, <1>5
  <2>2. Cardinality(PostedIn(p, Slot(t))') <= Cardinality(Invocations)
    BY <1>2 DEF Room
  <2>. QED  BY <2>1, <2>2 DEF Room, Slot
<1>. QED  BY <1>3, <1>4, <1>5

LEMMA SettlesFits ==
    ASSUME Base, NEW p \in Platforms, NEW t \in Time, Room(p, t),
           NEW i \in Invocations, NEW s \in {"posted", "failed"}, Settles(i, s)
    PROVE  Room(p, t)'
<1>0. topic[i] \in Articles
  BY Outcome
<1>1. /\ clock' = clock /\ clock \in Int /\ t \in Int /\ MinInterval \in Int
  BY SocialAssumption
     DEF Settles, SocialAssumption, Base, TypeOK, Time
<1>2. WorkingOn(p)' \subseteq WorkingOn(p) \ {i}
  BY Outcome DEF WorkingOn
<1>3. \A a \in Articles :
         IF p = Order[turn[i]] /\ a = topic[i]
         THEN /\ status'[p][a] = s
              /\ s = "posted" => postedAt'[p][a] = clock
         ELSE status'[p][a] = status[p][a] /\ postedAt'[p][a] = postedAt[p][a]
  BY Outcome
<1>4. CASE p = Order[turn[i]] /\ s = "posted" /\ clock < t + MinInterval
  <2>1. i \in WorkingOn(p)
    BY <1>4 DEF WorkingOn, Settles
  <2>2. PostedIn(p, Slot(t))' \subseteq PostedIn(p, Slot(t)) \cup {topic[i]}
    BY <1>0, <1>3 DEF PostedIn, Posted, Slot
  <2>3. Cardinality(PostedIn(p, Slot(t))') + Cardinality(WorkingOn(p)')
            <= Cardinality(PostedIn(p, Slot(t))) + Cardinality(WorkingOn(p))
    BY <1>2, <2>1, <2>2, FiniteSlots, OneSpendsItsTurn
  <2>4. Cardinality(PostedIn(p, Slot(t))) + Cardinality(WorkingOn(p))
            <= Cardinality(Invocations)
    BY <1>4 DEF Room
  <2>5. /\ Cardinality(PostedIn(p, Slot(t))') <= Cardinality(Invocations)
        /\ Cardinality(PostedIn(p, Slot(t))') + Cardinality(WorkingOn(p)')
              <= Cardinality(Invocations)
    BY <2>3, <2>4, FiniteSlots, FiniteNextSlots
  <2>. QED  BY <2>5 DEF Room, Slot
<1>5. CASE ~(p = Order[turn[i]] /\ s = "posted" /\ clock < t + MinInterval)
  <2>1. PostedIn(p, Slot(t))' \subseteq PostedIn(p, Slot(t))
    BY <1>1, <1>3, <1>5 DEF PostedIn, Posted, Slot
  <2>2. WorkingOn(p)' \subseteq WorkingOn(p)
    BY <1>2
  <2>. QED  BY <1>1, <2>1, <2>2, RoomStays
<1>. QED  BY <1>4, <1>5

EverySlotHasRoom == \A p \in Platforms : \A t \in Time : Room(p, t)

\* However many invocations overlap, a platform's interval never holds more posts
\* than there are of them.
THEOREM TheCadenceIsHeld == Spec => []CadenceHeld
<1>1. Init => EverySlotHasRoom
  <2>. SUFFICES ASSUME Init, NEW p \in Platforms, NEW t \in Time PROVE Room(p, t)
    BY DEF EverySlotHasRoom
  <2>1. PostedIn(p, Slot(t)) = {} /\ WorkingOn(p) = {}
    BY DEF Init, PostedIn, Posted, WorkingOn, AtWork
  <2>2. Cardinality(PostedIn(p, Slot(t))) = 0 /\ Cardinality(WorkingOn(p)) = 0
    BY <2>1, FS_EmptySet
  <2>. QED  BY <2>2, FiniteSlots DEF Room
<1>2. Base /\ EverySlotHasRoom /\ [Next]_vars => EverySlotHasRoom'
  <2>. SUFFICES ASSUME Base, EverySlotHasRoom, [Next]_vars,
                       NEW p \in Platforms, NEW t \in Time
                PROVE  Room(p, t)'
    BY DEF EverySlotHasRoom
  <2>1. Room(p, t)
    BY DEF EverySlotHasRoom
  <2>2. clock \in Int /\ clock' \in Int
    <3>1. Base'
      BY NextBase
    <3>. QED  BY <3>1, SocialAssumption DEF SocialAssumption, Base, TypeOK, Time
  <2>3. CASE Quiet
    <3>1. /\ clock' >= clock /\ WorkingOn(p)' \subseteq WorkingOn(p)
          /\ PostedIn(p, Slot(t))' \subseteq PostedIn(p, Slot(t))
      BY <2>3 DEF Quiet, rows, WorkingOn, PostedIn, Posted, Slot
    <3>. QED  BY <2>1, <2>2, <3>1, RoomStays
  <2>. QED  BY <2>1, <2>3, Effects, PickFits, SettlesFits
<1>3. EverySlotHasRoom => CadenceHeld
  BY DEF EverySlotHasRoom, Room, CadenceHeld, PostedIn, Slot
<1>. QED  BY <1>1, <1>2, <1>3, InitBase, NextBase, PTL DEF Spec

-----------------------------------------------------------------------------
(* Copies.                                                                 *)

\* The cycles that have picked the article and may yet send it.
Composing(p, a) ==
    {i \in Invocations : pc[i] = "composing" /\ topic[i] = a /\ Order[turn[i]] = p}

\* Without a row, whatever is on the platform is lost or in the hands of a cycle
\* that will record it; and the copies that are and may come are one for a cycle.
Paid(p, a) ==
    /\ posts[p][a] + Cardinality(Composing(p, a))
          <= lost[p][a] + Cardinality(Invocations)
    /\ status[p][a] = "none" =>
          posts[p][a] <= lost[p][a] + Cardinality(Sent(p, a))

EveryCopyIsPaid == \A p \in Platforms : \A a \in Articles : Paid(p, a)

LEMMA CopiesAreCounted ==
    ASSUME NEW p, NEW a
    PROVE  /\ Composing(p, a) \in SUBSET Invocations
           /\ Composing(p, a)' \in SUBSET Invocations
           /\ Sent(p, a) \in SUBSET Invocations /\ Sent(p, a)' \in SUBSET Invocations
           /\ IsFiniteSet(Invocations)
           /\ IsFiniteSet(Composing(p, a)) /\ IsFiniteSet(Composing(p, a)')
           /\ IsFiniteSet(Sent(p, a)) /\ IsFiniteSet(Sent(p, a)')
           /\ {Cardinality(Composing(p, a)), Cardinality(Composing(p, a)'),
               Cardinality(Sent(p, a)), Cardinality(Sent(p, a)'),
               Cardinality(Invocations)} \subseteq Nat
<1>1. /\ Composing(p, a) \in SUBSET Invocations
      /\ Composing(p, a)' \in SUBSET Invocations
      /\ Sent(p, a) \in SUBSET Invocations /\ Sent(p, a)' \in SUBSET Invocations
  BY DEF Composing, Sent
<1>2. IsFiniteSet(Invocations)
  BY SocialAssumption DEF SocialAssumption
<1>. QED  BY <1>1, <1>2, FiniteCycles

\* A step that sends nothing, records nothing and picks nothing pays as before.
LEMMA NothingSent ==
    ASSUME NEW p \in Platforms, NEW a \in Articles, Paid(p, a), Base,
           posts'[p][a] = posts[p][a], lost'[p][a] = lost[p][a],
           status'[p][a] # "none" \/ Sent(p, a)' = Sent(p, a),
           status'[p][a] # "none" \/ status'[p][a] = status[p][a],
           Composing(p, a)' \subseteq Composing(p, a)
    PROVE  Paid(p, a)'
<1>1. Cardinality(Composing(p, a)') <= Cardinality(Composing(p, a))
  BY CopiesAreCounted, FS_Subset
<1>2. posts[p][a] \in Nat /\ lost[p][a] \in Nat
  BY SocialAssumption DEF Base, TypeOK, SocialAssumption
<1>3. posts'[p][a] + Cardinality(Composing(p, a)')
         <= lost'[p][a] + Cardinality(Invocations)
  BY <1>1, <1>2, CopiesAreCounted DEF Paid
<1>4. status'[p][a] = "none" =>
         posts'[p][a] <= lost'[p][a] + Cardinality(Sent(p, a)')
  BY DEF Paid
<1>. QED  BY <1>3, <1>4 DEF Paid

LEMMA PickPays ==
    ASSUME Base, NEW p \in Platforms, NEW a \in Articles, Paid(p, a),
           NEW i \in Invocations, Pick(i)
    PROVE  Paid(p, a)'
<1>1. /\ UNCHANGED <<rows, posts, lost, turn>> /\ topic'[i] \in Articles
      /\ status[Order[turn[i]]][topic'[i]] = "none"
      /\ pc[i] = "turn" /\ pc' = [pc EXCEPT ![i] = "composing"]
      /\ \A j \in Invocations \ {i} : topic'[j] = topic[j]
  BY APick DEF Pick
<1>2. Sent(p, a)' = Sent(p, a)
  BY <1>1 DEF Sent, Base, TypeOK
<1>3. CASE ~(Order[turn[i]] = p /\ topic'[i] = a)
  <2>1. Composing(p, a)' \subseteq Composing(p, a)
    BY <1>1, <1>3 DEF Composing, Base, TypeOK
  <2>. QED  BY <1>1, <1>2, <2>1, NothingSent DEF rows
<1>4. CASE Order[turn[i]] = p /\ topic'[i] = a
  <2>1. status[p][a] = "none" /\ posts[p][a] <= lost[p][a] + Cardinality(Sent(p, a))
    BY <1>1, <1>4 DEF Paid
  <2>2. Composing(p, a)' \cap Sent(p, a)' = {}
    BY DEF Composing, Sent
  <2>3. Cardinality(Composing(p, a)' \cup Sent(p, a)')
           = Cardinality(Composing(p, a)') + Cardinality(Sent(p, a)')
    <3>1. Cardinality(Composing(p, a)' \cap Sent(p, a)') = 0
      BY <2>2, FS_EmptySet
    <3>. QED  BY <3>1, CopiesAreCounted, FS_Union
  <2>4. Cardinality(Composing(p, a)' \cup Sent(p, a)') <= Cardinality(Invocations)
    BY CopiesAreCounted, FS_Subset
  <2>5. posts[p][a] \in Nat /\ lost[p][a] \in Nat
    BY SocialAssumption DEF Base, TypeOK, SocialAssumption
  <2>6. /\ posts[p][a] + Cardinality(Composing(p, a)')
              <= lost[p][a] + Cardinality(Invocations)
        /\ posts[p][a] <= lost[p][a] + Cardinality(Sent(p, a)')
    BY <1>2, <2>1, <2>3, <2>4, <2>5, CopiesAreCounted
  <2>. QED  BY <1>1, <2>6 DEF Paid, rows
<1>. QED  BY <1>3, <1>4

LEMMA LandPays ==
    ASSUME Base, NEW p \in Platforms, NEW a \in Articles, Paid(p, a),
           NEW i \in Invocations, Land(i)
    PROVE  Paid(p, a)'
<1>1. /\ Order[turn[i]] \in Platforms /\ topic[i] \in Articles
      /\ pc[i] = "composing" /\ pc' = [pc EXCEPT ![i] = "landed"]
      /\ UNCHANGED <<rows, lost, turn, topic>>
      /\ posts' = [posts EXCEPT ![Order[turn[i]]][topic[i]] =
                                   posts[Order[turn[i]]][topic[i]] + 1]
  BY Orders DEF Land, Base, Shape, AtWork
<1>2. CASE ~(Order[turn[i]] = p /\ topic[i] = a)
  <2>1. posts'[p][a] = posts[p][a]
    BY <1>1, <1>2 DEF Base, TypeOK
  <2>2. Composing(p, a)' \subseteq Composing(p, a) /\ Sent(p, a)' = Sent(p, a)
    BY <1>1, <1>2 DEF Composing, Sent, Base, TypeOK
  <2>. QED  BY <1>1, <2>1, <2>2, NothingSent DEF rows
<1>3. CASE Order[turn[i]] = p /\ topic[i] = a
  <2>1. posts'[p][a] = posts[p][a] + 1 /\ lost' = lost /\ status' = status
    BY <1>1, <1>3 DEF Base, TypeOK, rows
  <2>2. i \in Composing(p, a) /\ i \notin Sent(p, a)
    BY <1>1, <1>3 DEF Composing, Sent
  <2>3. /\ Composing(p, a)' = Composing(p, a) \ {i}
        /\ Sent(p, a)' = Sent(p, a) \cup {i}
    BY <1>1, <1>3 DEF Composing, Sent, Base, TypeOK
  <2>4. /\ Cardinality(Composing(p, a)') = Cardinality(Composing(p, a)) - 1
        /\ Cardinality(Sent(p, a)') = Cardinality(Sent(p, a)) + 1
    <3>1. IsFiniteSet(Composing(p, a)) /\ IsFiniteSet(Sent(p, a))
      BY CopiesAreCounted
    <3>2. Cardinality(Composing(p, a) \ {i}) = Cardinality(Composing(p, a)) - 1
      BY <2>2, <3>1, FS_RemoveElement
    <3>3. Cardinality(Sent(p, a) \cup {i}) = Cardinality(Sent(p, a)) + 1
      BY <2>2, <3>1, FS_AddElement
    <3>. QED  BY <2>3, <3>2, <3>3
  <2>5. posts[p][a] \in Nat /\ lost[p][a] \in Nat
    BY SocialAssumption DEF Base, TypeOK, SocialAssumption
  <2>6. posts'[p][a] + Cardinality(Composing(p, a)')
           <= lost'[p][a] + Cardinality(Invocations)
    BY <2>1, <2>4, <2>5, CopiesAreCounted DEF Paid
  <2>7. status'[p][a] = "none" =>
           posts'[p][a] <= lost'[p][a] + Cardinality(Sent(p, a)')
    BY <2>1, <2>4, <2>5, CopiesAreCounted DEF Paid
  <2>. QED  BY <2>6, <2>7 DEF Paid
<1>. QED  BY <1>2, <1>3

\* A request repeated pays for the copy it leaves behind.
LEMMA ResendPays ==
    ASSUME Base, NEW p \in Platforms, NEW a \in Articles, Paid(p, a),
           NEW i \in Invocations, Resend(i)
    PROVE  Paid(p, a)'
<1>1. /\ Order[turn[i]] \in Platforms /\ topic[i] \in Articles
      /\ UNCHANGED <<rows, pc, turn, topic>>
      /\ posts' = [posts EXCEPT ![Order[turn[i]]][topic[i]] =
                                   posts[Order[turn[i]]][topic[i]] + 1]
      /\ lost' = [lost EXCEPT ![Order[turn[i]]][topic[i]] =
                                   lost[Order[turn[i]]][topic[i]] + 1]
  BY Orders DEF Resend, Base, Shape, AtWork
<1>2. /\ Composing(p, a)' = Composing(p, a) /\ Sent(p, a)' = Sent(p, a)
      /\ status' = status
  BY <1>1 DEF Composing, Sent, rows
<1>3. posts[p][a] \in Nat /\ lost[p][a] \in Nat
  BY SocialAssumption DEF Base, TypeOK, SocialAssumption
<1>4. \/ posts'[p][a] = posts[p][a] /\ lost'[p][a] = lost[p][a]
      \/ posts'[p][a] = posts[p][a] + 1 /\ lost'[p][a] = lost[p][a] + 1
  BY <1>1 DEF Base, TypeOK
<1>5. posts'[p][a] + Cardinality(Composing(p, a)')
         <= lost'[p][a] + Cardinality(Invocations)
  BY <1>2, <1>3, <1>4, CopiesAreCounted DEF Paid
<1>6. status'[p][a] = "none" =>
         posts'[p][a] <= lost'[p][a] + Cardinality(Sent(p, a)')
  BY <1>2, <1>3, <1>4, CopiesAreCounted DEF Paid
<1>. QED  BY <1>5, <1>6 DEF Paid

LEMMA SettlesPays ==
    ASSUME Base, NEW p \in Platforms, NEW a \in Articles, Paid(p, a),
           NEW i \in Invocations, NEW s \in {"posted", "failed"}, Settles(i, s),
           UNCHANGED <<posts, lost>>
    PROVE  Paid(p, a)'
<1>1. pc' = [pc EXCEPT ![i] = "turn"]
  BY DEF Settles, NextTurn
<1>2. \A j \in Invocations :
         AtWork(j)' => /\ AtWork(j) /\ j # i
                       /\ turn'[j] = turn[j] /\ topic'[j] = topic[j]
  BY Outcome
<1>3. Composing(p, a)' \subseteq Composing(p, a)
  BY <1>1, <1>2 DEF Composing, AtWork, Base, TypeOK
<1>4. CASE Order[turn[i]] = p /\ topic[i] = a
  <2>1. status'[p][a] = s
    BY <1>4, Outcome
  <2>. QED  BY <1>3, <2>1, NothingSent
<1>5. CASE ~(Order[turn[i]] = p /\ topic[i] = a)
  <2>1. status'[p][a] = status[p][a]
    BY <1>5, Outcome
  <2>2. \A j \in Invocations \ {i} :
           /\ pc'[j] = pc[j] /\ turn'[j] = turn[j] /\ topic'[j] = topic[j]
    BY DEF Settles, NextTurn, Base, TypeOK
  <2>3. i \notin Sent(p, a) /\ i \notin Sent(p, a)'
    BY <1>1, <1>5 DEF Sent, Base, TypeOK
  <2>4. Sent(p, a)' = Sent(p, a)
    BY <2>2, <2>3 DEF Sent
  <2>. QED  BY <1>3, <2>1, <2>4, NothingSent
<1>. QED  BY <1>4, <1>5

\* A death moves what was sent to what is lost.
LEMMA DiePays ==
    ASSUME Base, NEW p \in Platforms, NEW a \in Articles, Paid(p, a), Die
    PROVE  Paid(p, a)'
<1>1. /\ status' = status /\ posts' = posts
      /\ lost'[p][a] = lost[p][a] + Cardinality(Sent(p, a))
  BY DEF Die, rows
<1>2. Composing(p, a)' = {} /\ Sent(p, a)' = {}
  BY DEF Die, Composing, Sent
<1>3. Cardinality(Composing(p, a)') = 0 /\ Cardinality(Sent(p, a)') = 0
  BY <1>2, FS_EmptySet
<1>4. posts[p][a] \in Nat /\ lost[p][a] \in Nat
  BY SocialAssumption DEF Base, TypeOK, SocialAssumption
<1>5. posts'[p][a] + Cardinality(Composing(p, a)')
         <= lost'[p][a] + Cardinality(Invocations)
  BY <1>1, <1>3, <1>4, CopiesAreCounted DEF Paid
<1>6. status'[p][a] = "none" =>
         posts'[p][a] <= lost'[p][a] + Cardinality(Sent(p, a)')
  BY <1>1, <1>3, <1>4, CopiesAreCounted DEF Paid
<1>. QED  BY <1>5, <1>6 DEF Paid

LEMMA NextPays ==
    ASSUME Base, EveryCopyIsPaid, [Next]_vars, NEW p \in Platforms, NEW a \in Articles
    PROVE  Paid(p, a)'
<1>0. Paid(p, a)
  BY DEF EveryCopyIsPaid
<1>1. ASSUME NEW i \in Invocations,
             Start(i) \/ Complete(i) \/ Throw(i) \/ Decline(i) \/ ComposeFails(i)
      PROVE  Paid(p, a)'
  <2>1. /\ UNCHANGED <<rows, posts, lost>>
        /\ pc[i] # "landed" /\ pc'[i] \in {"turn", "idle"}
        /\ \A j \in Invocations \ {i} :
              pc'[j] = pc[j] /\ turn'[j] = turn[j] /\ topic'[j] = topic[j]
    BY <1>1 DEF Start, Complete, Throw, Leave, Decline, ComposeFails, NextTurn,
                Base, TypeOK
  <2>2. Sent(p, a)' = Sent(p, a) /\ Composing(p, a)' \subseteq Composing(p, a)
    BY <2>1 DEF Sent, Composing
  <2>. QED  BY <1>0, <2>1, <2>2, NothingSent DEF rows
<1>2. ASSUME NEW i \in Invocations, PostThrows(i) \/ Record(i) PROVE Paid(p, a)'
  <2>1. /\ Settles(i, "failed") \/ Settles(i, "posted")
        /\ UNCHANGED <<posts, lost>>
    BY <1>2 DEF PostThrows, Record, RecordFailed, Settles, AtWork
  <2>. QED  BY <1>0, <2>1, SettlesPays
<1>3. CASE Tick \/ UNCHANGED vars
  <2>1. UNCHANGED <<rows, posts, lost, pc, turn, topic>>
    BY <1>3 DEF Tick, vars, rows, locals
  <2>2. Sent(p, a)' = Sent(p, a) /\ Composing(p, a)' = Composing(p, a)
    BY <2>1 DEF Sent, Composing
  <2>. QED  BY <1>0, <2>1, <2>2, NothingSent DEF rows
<1>4. ASSUME NEW i \in Invocations, Pick(i) \/ Land(i) \/ Resend(i)
      PROVE  Paid(p, a)'
  BY <1>0, <1>4, PickPays, LandPays, ResendPays
<1>5. CASE Die
  BY <1>0, <1>5, DiePays
<1>. QED  BY <1>1, <1>2, <1>3, <1>4, <1>5 DEF Next

\* A platform holds an article once for each invocation, once more for each time
\* a worker died between a post and its row, and for each request that a turn
\* sent again.
THEOREM RepeatsAreLost == Spec => []RepeatsAreLosses
<1>1. Init => EveryCopyIsPaid
  <2>. SUFFICES ASSUME Init, NEW p \in Platforms, NEW a \in Articles PROVE Paid(p, a)
    BY DEF EveryCopyIsPaid
  <2>1. Composing(p, a) = {} /\ Sent(p, a) = {}
    BY DEF Init, Composing, Sent
  <2>2. Cardinality(Composing(p, a)) = 0 /\ Cardinality(Sent(p, a)) = 0
    BY <2>1, FS_EmptySet
  <2>3. posts[p][a] = 0 /\ lost[p][a] = 0
    BY DEF Init
  <2>. QED  BY <2>2, <2>3, CopiesAreCounted DEF Paid
<1>2. Base /\ EveryCopyIsPaid /\ [Next]_vars => EveryCopyIsPaid'
  BY NextPays DEF EveryCopyIsPaid
<1>3. Base /\ EveryCopyIsPaid => RepeatsAreLosses
  <2>. SUFFICES ASSUME Base, EveryCopyIsPaid, NEW p \in Platforms, NEW a \in Articles
                PROVE  posts[p][a] <= lost[p][a] + Cardinality(Invocations)
    BY DEF RepeatsAreLosses
  <2>1. posts[p][a] \in Nat /\ lost[p][a] \in Nat
    BY SocialAssumption DEF Base, TypeOK, SocialAssumption
  <2>. QED  BY <2>1, CopiesAreCounted DEF EveryCopyIsPaid, Paid
<1>. QED  BY <1>1, <1>2, <1>3, InitBase, NextBase, PTL DEF Spec
=============================================================================
