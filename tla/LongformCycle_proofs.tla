----------------------- MODULE LongformCycle_proofs ------------------------
(***************************************************************************)
(* One film per event, for any number of events and overlapping cycles.    *)
(*                                                                         *)
(* The claim is the argument: a row leaves "none" once, in the hands of    *)
(* one cycle, and no code path takes a row back to it.  IInv ties what a   *)
(* cycle has done so far to where it is.                                   *)
(***************************************************************************)
EXTENDS LongformCycle, FiniteSetTheorems, TLAPS

-----------------------------------------------------------------------------
(* Counting for gates that are read long before what they admit.  P is     *)
(* what a window holds, F the cycles that passed its gate and may still    *)
(* add to it, Q and G the same a step later.                               *)

\* Less in the window and fewer cycles that may add to it.
LEMMA LessAndFewer ==
    ASSUME NEW P, NEW F, NEW Q, NEW G, IsFiniteSet(P), IsFiniteSet(F),
           Q \subseteq P, G \subseteq F
    PROVE  /\ {Cardinality(P), Cardinality(F), Cardinality(Q), Cardinality(G)}
                 \subseteq Nat
           /\ Cardinality(Q) <= Cardinality(P)
           /\ Cardinality(Q) + Cardinality(G) <= Cardinality(P) + Cardinality(F)
<1>1. IsFiniteSet(Q) /\ Cardinality(Q) <= Cardinality(P)
  BY FS_Subset
<1>2. IsFiniteSet(G) /\ Cardinality(G) <= Cardinality(F)
  BY FS_Subset
<1>3. Cardinality(P) \in Nat /\ Cardinality(F) \in Nat
  BY FS_CardinalityType
<1>4. Cardinality(Q) \in Nat /\ Cardinality(G) \in Nat
  BY <1>1, <1>2, FS_CardinalityType
<1>. QED  BY <1>1, <1>2, <1>3, <1>4

\* A cycle adds the one thing it was admitted for.
LEMMA OneSpendsItsTurn ==
    ASSUME NEW P, NEW F, NEW Q, NEW G, NEW x, NEW r,
           IsFiniteSet(P), IsFiniteSet(F), r \in F,
           Q \subseteq P \cup {x}, G \subseteq F \ {r}
    PROVE  Cardinality(Q) + Cardinality(G) <= Cardinality(P) + Cardinality(F)
<1>1. /\ IsFiniteSet(P \cup {x})
      /\ Cardinality(P \cup {x}) = Cardinality(P)
            \/ Cardinality(P \cup {x}) = Cardinality(P) + 1
  BY FS_AddElement
<1>2. IsFiniteSet(F \ {r}) /\ Cardinality(F \ {r}) = Cardinality(F) - 1
  BY FS_RemoveElement
<1>3. /\ {Cardinality(P \cup {x}), Cardinality(F \ {r}), Cardinality(Q),
          Cardinality(G)} \subseteq Nat
      /\ Cardinality(Q) + Cardinality(G)
            <= Cardinality(P \cup {x}) + Cardinality(F \ {r})
  BY <1>1, <1>2, LessAndFewer
<1>4. Cardinality(P) \in Nat /\ Cardinality(F) \in Nat
  BY FS_CardinalityType
<1>. QED  BY <1>1, <1>2, <1>3, <1>4

\* When the gate is read with room in the window, everyone may still be under
\* way.
LEMMA RoomForEveryone ==
    ASSUME NEW P, NEW Q, NEW G, NEW R, NEW cap \in Nat,
           IsFiniteSet(P), IsFiniteSet(R), Cardinality(P) < cap,
           Q \subseteq P, G \subseteq R
    PROVE  Cardinality(Q) + Cardinality(G) <= cap + (Cardinality(R) - 1)
<1>1. /\ {Cardinality(P), Cardinality(R), Cardinality(Q), Cardinality(G)}
            \subseteq Nat
      /\ Cardinality(Q) + Cardinality(G) <= Cardinality(P) + Cardinality(R)
  BY LessAndFewer
<1>. QED  BY <1>1

\* A union is no larger than its parts.
LEMMA UnionIsNoMore ==
    ASSUME NEW S, NEW T, IsFiniteSet(S), IsFiniteSet(T)
    PROVE  /\ IsFiniteSet(S \cup T)
           /\ Cardinality(S \cup T) <= Cardinality(S) + Cardinality(T)
<1>1. /\ IsFiniteSet(S \cup T) /\ IsFiniteSet(S \cap T)
      /\ Cardinality(S \cup T)
            = Cardinality(S) + Cardinality(T) - Cardinality(S \cap T)
  BY FS_Union, FS_Intersection
<1>2. {Cardinality(S), Cardinality(T), Cardinality(S \cap T)} \subseteq Nat
  BY <1>1, FS_CardinalityType
<1>. QED  BY <1>1, <1>2

-----------------------------------------------------------------------------
(* The invariant.                                                          *)

\* A cycle has a topic exactly while it works on it; the film goes up between
\* "publishing" and "recording"; without a claim, or after a recorded failure,
\* there is no film.
WorkIsOnTopic ==
    \A r \in Runs :
        /\ pc[r] \in Working <=> topic[r] # NoEvent
        /\ pc[r] \in {"producing", "publishing"} => films[topic[r]] = 0
        /\ pc[r] = "recording" => films[topic[r]] = 1

NoFilmWithoutClaim ==
    \A e \in Events :
        /\ films[e] \in {0, 1}
        /\ row[e] \in {"none", "retry", "failed"} => films[e] = 0

IInv ==
    /\ TypeOK
    /\ ClaimHasOneOwner
    /\ WorkIsOnTopic
    /\ NoFilmWithoutClaim

LEMMA InitIInv == Init => IInv
<1>. SUFFICES ASSUME Init PROVE IInv
  OBVIOUS
<1>1. TypeOK
  BY LongformAssumption DEF Init, TypeOK, Rows, Stages, Time, Never,
                            LongformAssumption
<1>2. ClaimHasOneOwner /\ WorkIsOnTopic /\ NoFilmWithoutClaim
  BY DEF Init, ClaimHasOneOwner, WorkIsOnTopic, NoFilmWithoutClaim, Working
<1>. QED  BY <1>1, <1>2 DEF IInv

\* A working cycle's topic is an event whose row is its claim.
LEMMA TopicOfWork ==
    ASSUME IInv, NEW r \in Runs, pc[r] \in Working
    PROVE  topic[r] \in Events /\ row[topic[r]] = "pending"
BY DEF IInv, TypeOK, WorkIsOnTopic, ClaimHasOneOwner

\* A cycle that gives up without touching a row.
LEMMA LeaveKeeps ==
    ASSUME IInv, NEW r \in Runs, Leave(r),
           UNCHANGED <<row, attempts, publishedAt, films, filmedAt, started,
                       clock>>
    PROVE  IInv'
<1>1. TypeOK'
  BY DEF IInv, TypeOK, Leave, Stages
<1>2. ClaimHasOneOwner' /\ WorkIsOnTopic'
  BY LongformAssumption
     DEF IInv, TypeOK, Leave, ClaimHasOneOwner, WorkIsOnTopic, Working,
         LongformAssumption
<1>3. NoFilmWithoutClaim'
  BY DEF IInv, NoFilmWithoutClaim
<1>. QED  BY <1>1, <1>2, <1>3 DEF IInv

LEMMA BeginCycleKeeps ==
    ASSUME IInv, NEW r \in Runs, BeginCycle(r)
    PROVE  IInv'
<1>1. TypeOK'
  BY DEF IInv, TypeOK, BeginCycle, FilmedEventIds, Stages
<1>2. ClaimHasOneOwner' /\ WorkIsOnTopic' /\ NoFilmWithoutClaim'
  BY DEF IInv, TypeOK, BeginCycle, ClaimHasOneOwner, WorkIsOnTopic,
         NoFilmWithoutClaim, Working
<1>. QED  BY <1>1, <1>2 DEF IInv

LEMMA SelectAndClaimKeeps ==
    ASSUME IInv, NEW r \in Runs, NEW e \in Events, SelectAndClaim(r, e)
    PROVE  IInv'
<1>1. /\ row' = [row EXCEPT ![e] = "pending"]
      /\ pc' = [pc EXCEPT ![r] = "producing"]
      /\ topic' = [topic EXCEPT ![r] = e]
      /\ row[e] = "none" /\ films[e] = 0
      /\ UNCHANGED films
  BY DEF SelectAndClaim, Claimable, IInv, NoFilmWithoutClaim
<1>2. /\ row \in [Events -> Rows] /\ pc \in [Runs -> Stages]
      /\ topic \in [Runs -> Events \cup {NoEvent}]
  BY DEF IInv, TypeOK
<1>3. TypeOK'
  BY DEF IInv, TypeOK, SelectAndClaim, Rows, Stages
<1>4. \A s \in Runs \ {r} : pc[s] \in Working => topic[s] # e
  BY <1>1, TopicOfWork
<1>5. \A s \in Runs \ {r} : topic[s] # e
  BY <1>2, <1>4, LongformAssumption
     DEF IInv, WorkIsOnTopic, LongformAssumption
<1>6. ClaimHasOneOwner'
  <2>1. ASSUME NEW s \in Runs, pc'[s] \in Working
        PROVE  /\ row'[topic'[s]] = "pending"
               /\ \A t \in Runs \ {s} : topic'[t] # topic'[s]
    <3>1. CASE s = r
      BY <1>1, <1>2, <1>5, <3>1
    <3>2. CASE s # r
      <4>1. topic[s] \in Events /\ row[topic[s]] = "pending"
        BY <1>1, <1>2, <2>1, <3>2, TopicOfWork
      <4>. QED  BY <1>1, <1>2, <1>5, <2>1, <3>2, <4>1
                DEF IInv, ClaimHasOneOwner
    <3>. QED  BY <3>1, <3>2
  <2>. QED  BY <2>1 DEF ClaimHasOneOwner
<1>7. WorkIsOnTopic'
  BY <1>1, <1>2, LongformAssumption
     DEF IInv, WorkIsOnTopic, Working, LongformAssumption
<1>8. NoFilmWithoutClaim'
  BY <1>1, <1>2 DEF IInv, NoFilmWithoutClaim
<1>. QED  BY <1>3, <1>6, <1>7, <1>8 DEF IInv

\* A cycle that ends and settles the row of its topic, to "published" or,
\* when there is no film, to a failure.
LEMMA SettleKeeps ==
    ASSUME IInv, NEW r \in Runs, pc[r] \in Working, Leave(r), TypeOK',
           NEW to \in {"retry", "failed", "published"},
           to # "published" => films[topic[r]] = 0,
           row' = [row EXCEPT ![topic[r]] = to],
           UNCHANGED films
    PROVE  IInv'
<1>1. topic[r] \in Events
  BY TopicOfWork
<1>2. /\ row \in [Events -> Rows] /\ pc \in [Runs -> Stages]
      /\ topic \in [Runs -> Events \cup {NoEvent}]
      /\ pc' = [pc EXCEPT ![r] = "idle"]
      /\ topic' = [topic EXCEPT ![r] = NoEvent]
  BY DEF IInv, TypeOK, Leave
<1>3. \A s \in Runs \ {r} : topic[s] # topic[r]
  BY DEF IInv, ClaimHasOneOwner
<1>4. ClaimHasOneOwner'
  <2>1. ASSUME NEW s \in Runs, pc'[s] \in Working
        PROVE  /\ row'[topic'[s]] = "pending"
               /\ \A t \in Runs \ {s} : topic'[t] # topic'[s]
    <3>1. s # r /\ pc[s] \in Working /\ topic'[s] = topic[s]
      BY <1>2, <2>1 DEF Working
    <3>2. topic[s] \in Events /\ row[topic[s]] = "pending"
      BY <3>1, TopicOfWork
    <3>. QED  BY <1>2, <1>3, <3>1, <3>2, LongformAssumption
              DEF IInv, ClaimHasOneOwner, LongformAssumption
  <2>. QED  BY <2>1 DEF ClaimHasOneOwner
<1>5. WorkIsOnTopic'
  BY <1>2 DEF IInv, WorkIsOnTopic, Working
<1>6. NoFilmWithoutClaim'
  BY <1>1, <1>2 DEF IInv, NoFilmWithoutClaim
<1>. QED  BY <1>4, <1>5, <1>6 DEF IInv

LEMMA UploadKeeps ==
    ASSUME IInv, NEW r \in Runs, Upload(r)
    PROVE  IInv'
<1>1. topic[r] \in Events /\ row[topic[r]] = "pending" /\ pc[r] \in Working
  BY TopicOfWork DEF Upload, Working
<1>2. /\ films' = [films EXCEPT ![topic[r]] = @ + 1]
      /\ films[topic[r]] = 0
      /\ pc' = [pc EXCEPT ![r] = "recording"]
      /\ UNCHANGED <<row, topic>>
      /\ films \in [Events -> Nat] /\ pc \in [Runs -> Stages]
  BY DEF Upload, IInv, TypeOK, WorkIsOnTopic
<1>3. \A s \in Runs \ {r} : topic[s] # topic[r]
  BY <1>1 DEF IInv, ClaimHasOneOwner
<1>4. TypeOK'
  BY <1>1, <1>2 DEF Upload, IInv, TypeOK, Stages
<1>5. ClaimHasOneOwner'
  BY <1>1, <1>2 DEF IInv, ClaimHasOneOwner, Working
<1>6. WorkIsOnTopic'
  <2>1. ASSUME NEW s \in Runs
        PROVE  /\ pc'[s] \in Working <=> topic'[s] # NoEvent
               /\ pc'[s] \in {"producing", "publishing"}
                     => films'[topic'[s]] = 0
               /\ pc'[s] = "recording" => films'[topic'[s]] = 1
    <3>1. CASE s = r
      BY <1>1, <1>2, <3>1, LongformAssumption
         DEF Working, LongformAssumption
    <3>2. CASE s # r /\ pc[s] \in Working
      <4>1. topic[s] \in Events /\ topic[s] # topic[r]
        BY <1>3, <3>2, TopicOfWork
      <4>2. pc'[s] = pc[s] /\ films'[topic[s]] = films[topic[s]]
        BY <1>2, <3>2, <4>1
      <4>. QED  BY <1>2, <4>2 DEF IInv, WorkIsOnTopic
    <3>3. CASE s # r /\ pc[s] \notin Working
      BY <1>2, <3>3 DEF IInv, WorkIsOnTopic, Working
    <3>. QED  BY <3>1, <3>2, <3>3
  <2>. QED  BY <2>1 DEF WorkIsOnTopic
<1>7. NoFilmWithoutClaim'
  BY <1>1, <1>2 DEF IInv, NoFilmWithoutClaim
<1>. QED  BY <1>4, <1>5, <1>6, <1>7 DEF IInv

LEMMA CycleStepKeeps ==
    ASSUME IInv, NEW r \in Runs, CycleStep(r)
    PROVE  IInv'
<1>1. ASSUME \/ SelectNothing(r) \/ PublisherFails(r) \/ Die(r)
             \/ \E e \in Events : LoseClaim(r, e)
      PROVE  IInv'
  BY <1>1, LeaveKeeps DEF SelectNothing, PublisherFails, Die, LoseClaim
<1>2. ASSUME FailProduction(r) PROVE IInv'
  <2>1. /\ pc[r] \in Working /\ films[topic[r]] = 0 /\ topic[r] \in Events
        /\ Leave(r) /\ UNCHANGED films
    BY <1>2, TopicOfWork DEF FailProduction, Working, IInv, WorkIsOnTopic
  <2>2. PICK to \in {"retry", "failed"} : row' = [row EXCEPT ![topic[r]] = to]
    BY <1>2 DEF FailProduction, RecordFailure
  <2>3. attempts' \in [Events -> Nat]
    BY <1>2, <2>1 DEF FailProduction, RecordFailure, IInv, TypeOK
  <2>4. TypeOK'
    BY <1>2, <2>1, <2>2, <2>3
       DEF FailProduction, Leave, IInv, TypeOK, Rows, Stages
  <2>. QED  BY <2>1, <2>2, <2>4, SettleKeeps
<1>3. ASSUME RecordPublished(r) PROVE IInv'
  <2>1. /\ pc[r] \in Working /\ Leave(r) /\ UNCHANGED films
        /\ row' = [row EXCEPT ![topic[r]] = "published"]
    BY <1>3 DEF RecordPublished, Working
  <2>2. topic[r] \in Events
    BY <2>1, TopicOfWork
  <2>3. TypeOK'
    BY <1>3, <2>1, <2>2
       DEF RecordPublished, Leave, IInv, TypeOK, Rows, Stages
  <2>. QED  BY <2>1, <2>3, SettleKeeps
<1>4. ASSUME PassGate(r) PROVE IInv'
  <2>1. TypeOK'
    BY <1>4 DEF PassGate, IInv, TypeOK, Stages
  <2>2. ClaimHasOneOwner' /\ WorkIsOnTopic' /\ NoFilmWithoutClaim'
    BY <1>4 DEF PassGate, IInv, TypeOK, ClaimHasOneOwner, WorkIsOnTopic,
                NoFilmWithoutClaim, Working
  <2>. QED  BY <2>1, <2>2 DEF IInv
<1>. QED  BY <1>1, <1>2, <1>3, <1>4, BeginCycleKeeps, SelectAndClaimKeeps,
             UploadKeeps DEF CycleStep

LEMMA NextIInv == IInv /\ [Next]_vars => IInv'
<1>1. ASSUME IInv, Tick PROVE IInv'
  <2>1. TypeOK'
    BY <1>1, LongformAssumption
       DEF Tick, IInv, TypeOK, Time, LongformAssumption
  <2>. QED  BY <1>1, <2>1 DEF Tick, IInv, ClaimHasOneOwner, WorkIsOnTopic,
                              NoFilmWithoutClaim
<1>2. ASSUME IInv, UNCHANGED vars PROVE IInv'
  BY <1>2 DEF vars, IInv, TypeOK, ClaimHasOneOwner, WorkIsOnTopic,
              NoFilmWithoutClaim
<1>. QED  BY <1>1, <1>2, CycleStepKeeps DEF Next

\* IInv is an invariant of the loop.
THEOREM Invariance == Spec => []IInv
BY InitIInv, NextIInv, PTL DEF Spec

\* Every variable keeps its type.
THEOREM TypeCorrect == Spec => []TypeOK
BY Invariance, PTL DEF IInv

\* No overlap of cycles gives an event two owners.
THEOREM ClaimsAreExclusive == Spec => []ClaimHasOneOwner
BY Invariance, PTL DEF IInv

\* No crash, throw, stall or overlap uploads a second film of an event, and an
\* event with a film stays out of the selection.
THEOREM NoSecondFilm == Spec => []OneFilmPerEvent
<1>1. IInv => OneFilmPerEvent
  BY DEF IInv, TypeOK, NoFilmWithoutClaim, OneFilmPerEvent, FilmedEventIds,
         Rows
<1>. QED  BY <1>1, Invariance, PTL

-----------------------------------------------------------------------------
(***************************************************************************)
(* The rate.  A film is recorded with the time its cycle began, which is   *)
(* when the gate was read: the films recorded inside a window and the      *)
(* cycles that began inside it never outgrow the cap by more than overlap. *)
(* What went up in the window is one of the recorded films, in the hands   *)
(* of such a cycle, or a film whose record was lost.                       *)
(***************************************************************************)
BegunIn(window) == {r \in Runs : pc[r] # "idle" /\ started[r] \in window}
RecordedIn(window) == {e \in Events : publishedAt[e] \in window}

Room(window, cap) ==
    Cardinality(RecordedIn(window)) + Cardinality(BegunIn(window))
        <= cap + Overlap

\* The gate leaves room in whatever window the clock is in.
GateLeavesRoom(window, cap) ==
    clock \in window /\ RateGate(clock) => Cardinality(RecordedIn(window)) < cap

LEMMA FiniteWindows ==
    ASSUME NEW W
    PROVE  /\ IsFiniteSet(RecordedIn(W)) /\ IsFiniteSet(BegunIn(W))
           /\ IsFiniteSet(Runs) /\ Overlap \in Nat
           /\ Overlap = Cardinality(Runs) - 1
           /\ Cardinality(RecordedIn(W)) \in Nat
           /\ Cardinality(BegunIn(W)) \in Nat
<1>. USE LongformAssumption DEF LongformAssumption
<1>1. RecordedIn(W) \in SUBSET Events /\ BegunIn(W) \in SUBSET Runs
  BY DEF RecordedIn, BegunIn
<1>2. IsFiniteSet(RecordedIn(W)) /\ IsFiniteSet(BegunIn(W)) /\ IsFiniteSet(Runs)
  BY <1>1, FS_Subset
<1>3. Cardinality(Runs) \in Nat /\ Cardinality(Runs) # 0
  BY <1>2, FS_CardinalityType, FS_EmptySet
<1>4. Cardinality(RecordedIn(W)) \in Nat /\ Cardinality(BegunIn(W)) \in Nat
  BY <1>2, FS_CardinalityType
<1>. QED  BY <1>2, <1>3, <1>4 DEF Overlap

\* A step that films nothing and begins no cycle.
LEMMA RoomStays ==
    ASSUME NEW W, NEW cap \in Nat, Room(W, cap),
           RecordedIn(W)' \subseteq RecordedIn(W), BegunIn(W)' \subseteq BegunIn(W)
    PROVE  Room(W, cap)'
<1>1. /\ {Cardinality(RecordedIn(W)'), Cardinality(BegunIn(W)')} \subseteq Nat
      /\ Cardinality(RecordedIn(W)') + Cardinality(BegunIn(W)')
            <= Cardinality(RecordedIn(W)) + Cardinality(BegunIn(W))
  BY FiniteWindows, LessAndFewer
<1>2. Cardinality(RecordedIn(W)) + Cardinality(BegunIn(W)) <= cap + Overlap
  BY DEF Room
<1>3. Cardinality(RecordedIn(W)') + Cardinality(BegunIn(W)') <= cap + Overlap
  BY <1>1, <1>2, FiniteWindows
<1>. QED  BY <1>3 DEF Room, Overlap

LEMMA BeginCycleFits ==
    ASSUME IInv, NEW W, NEW cap \in Nat, Room(W, cap), GateLeavesRoom(W, cap),
           NEW r \in Runs, BeginCycle(r)
    PROVE  Room(W, cap)'
<1>1. RecordedIn(W)' = RecordedIn(W)
  BY DEF BeginCycle, RecordedIn
<1>2. CASE clock \in W
  <2>1. Cardinality(RecordedIn(W)) < cap
    BY <1>2 DEF BeginCycle, GateLeavesRoom
  <2>2. BegunIn(W)' \subseteq Runs
    BY DEF BegunIn
  <2>3. Cardinality(RecordedIn(W)') + Cardinality(BegunIn(W)')
            <= cap + (Cardinality(Runs) - 1)
    BY <1>1, <2>1, <2>2, FiniteWindows, RoomForEveryone
  <2>. QED  BY <2>3 DEF Room, Overlap
<1>3. CASE clock \notin W
  <2>1. BegunIn(W)' \subseteq BegunIn(W)
    BY <1>3 DEF BeginCycle, BegunIn, IInv, TypeOK
  <2>. QED  BY <1>1, <2>1, RoomStays
<1>. QED  BY <1>2, <1>3

LEMMA RecordPublishedFits ==
    ASSUME IInv, NEW W, NEW cap \in Nat, Room(W, cap),
           NEW r \in Runs, RecordPublished(r)
    PROVE  Room(W, cap)'
<1>1. topic[r] \in Events
  BY TopicOfWork DEF RecordPublished, Working
<1>2. /\ BegunIn(W)' \subseteq BegunIn(W) \ {r}
      /\ RecordedIn(W)' \subseteq RecordedIn(W) \cup {topic[r]}
  BY <1>1 DEF RecordPublished, Leave, BegunIn, RecordedIn, IInv, TypeOK
<1>3. CASE started[r] \in W
  <2>1. r \in BegunIn(W)
    BY <1>3 DEF RecordPublished, BegunIn
  <2>2. Cardinality(RecordedIn(W)') + Cardinality(BegunIn(W)')
            <= Cardinality(RecordedIn(W)) + Cardinality(BegunIn(W))
    BY <1>2, <2>1, FiniteWindows, OneSpendsItsTurn
  <2>3. {Cardinality(RecordedIn(W)'), Cardinality(BegunIn(W)')} \subseteq Nat
    <3>1. RecordedIn(W)' \in SUBSET Events /\ BegunIn(W)' \in SUBSET Runs
      BY DEF RecordedIn, BegunIn
    <3>2. IsFiniteSet(RecordedIn(W)') /\ IsFiniteSet(BegunIn(W)')
      BY <3>1, LongformAssumption, FS_Subset DEF LongformAssumption
    <3>. QED  BY <3>2, FS_CardinalityType
  <2>4. Cardinality(RecordedIn(W)) + Cardinality(BegunIn(W)) <= cap + Overlap
    BY DEF Room
  <2>5. Cardinality(RecordedIn(W)') + Cardinality(BegunIn(W)') <= cap + Overlap
    BY <2>2, <2>3, <2>4, FiniteWindows
  <2>. QED  BY <2>5 DEF Room, Overlap
<1>4. CASE started[r] \notin W
  <2>1. RecordedIn(W)' \subseteq RecordedIn(W)
    BY <1>1, <1>4 DEF RecordPublished, RecordedIn, IInv, TypeOK
  <2>. QED  BY <1>2, <2>1, RoomStays
<1>. QED  BY <1>3, <1>4

LEMMA RoomKeeps ==
    ASSUME IInv, [Next]_vars, NEW W, NEW cap \in Nat, Room(W, cap),
           GateLeavesRoom(W, cap)
    PROVE  Room(W, cap)'
<1>1. ASSUME NEW r \in Runs, Leave(r), publishedAt' = publishedAt,
             started' = started
      PROVE  Room(W, cap)'
  <2>1. /\ RecordedIn(W)' \subseteq RecordedIn(W)
        /\ BegunIn(W)' \subseteq BegunIn(W)
    BY <1>1 DEF Leave, RecordedIn, BegunIn, IInv, TypeOK
  <2>. QED  BY <2>1, RoomStays
<1>2. ASSUME NEW r \in Runs,
             \/ SelectNothing(r) \/ FailProduction(r) \/ PublisherFails(r)
             \/ Die(r) \/ \E e \in Events : LoseClaim(r, e)
      PROVE  Room(W, cap)'
  BY <1>1, <1>2 DEF SelectNothing, FailProduction, PublisherFails, Die, LoseClaim
<1>3. ASSUME NEW r \in Runs,
             \/ PassGate(r) \/ Upload(r)
             \/ \E e \in Events : SelectAndClaim(r, e)
      PROVE  Room(W, cap)'
  <2>1. /\ publishedAt' = publishedAt /\ started' = started /\ pc[r] # "idle"
        /\ \E to \in Stages : pc' = [pc EXCEPT ![r] = to]
    BY <1>3 DEF PassGate, Upload, SelectAndClaim, Stages
  <2>2. /\ RecordedIn(W)' \subseteq RecordedIn(W)
        /\ BegunIn(W)' \subseteq BegunIn(W)
    BY <2>1 DEF RecordedIn, BegunIn, IInv, TypeOK
  <2>. QED  BY <2>2, RoomStays
<1>4. CASE Tick \/ UNCHANGED vars
  <2>1. RecordedIn(W)' = RecordedIn(W) /\ BegunIn(W)' = BegunIn(W)
    BY <1>4 DEF Tick, vars, RecordedIn, BegunIn
  <2>. QED  BY <2>1, RoomStays
<1>. QED  BY <1>2, <1>3, <1>4, BeginCycleFits, RecordPublishedFits
          DEF Next, CycleStep

\* Four fifths of a slot are no more than the week.
LEMMA SlotFitsTheWeek ==
    ASSUME NEW w \in Nat, NEW m \in Nat \ {0}
    PROVE  (w * 4) \div (m * 5) \in 0..w
<1>1. /\ w * 4 \in Nat /\ m * 5 \in Nat \ {0} /\ m * 5 >= 5
  OBVIOUS
<1>2. ASSUME NEW a \in Nat, NEW b \in Nat, b >= 5, a <= 5 * w
      PROVE  a \div b \in 0..w
  <2>. DEFINE q == a \div b
  <2>1. q \in Nat /\ b * q <= a
    BY <1>2
  <2>2. 5 * q <= b * q
    BY <1>2, <2>1
  <2>3. q <= w
    BY <1>2, <2>1, <2>2
  <2>. QED  BY <2>1, <2>3
<1>. QED  BY <1>1, <1>2

LEMMA GateFindsRoom ==
    ASSUME IInv, NEW t \in Time
    PROVE  /\ GateLeavesRoom(t..(t + Week - 1), MaxPerWeek)
           /\ GateLeavesRoom(t..(t + MinInterval - 1), 1)
<1>. USE LongformAssumption DEF LongformAssumption
<1>1. /\ t \in Int /\ clock \in Int /\ Week \in Int
      /\ \A e \in Events : publishedAt[e] \in Int
  BY DEF IInv, TypeOK, Time, Never
<1>2. ASSUME RateGate(clock), clock \in t..(t + Week - 1)
      PROVE  Cardinality(RecordedIn(t..(t + Week - 1))) < MaxPerWeek
  <2>1. RecordedIn(t..(t + Week - 1)) \subseteq Recent(clock)
    BY <1>1, <1>2 DEF RecordedIn, Recent, Never, Time
  <2>2. IsFiniteSet(Recent(clock))
    <3>1. Recent(clock) \in SUBSET Events
      BY DEF Recent
    <3>. QED  BY <3>1, FS_Subset
  <2>3. /\ Cardinality(RecordedIn(t..(t + Week - 1))) <= Cardinality(Recent(clock))
        /\ Cardinality(Recent(clock)) \in Nat
    BY <2>1, <2>2, FS_Subset, FS_CardinalityType
  <2>4. Cardinality(RecordedIn(t..(t + Week - 1))) \in Nat
    BY FiniteWindows
  <2>5. Cardinality(Recent(clock)) < MaxPerWeek
    BY <1>2 DEF RateGate
  <2>. QED  BY <2>3, <2>4, <2>5
<1>3. ASSUME RateGate(clock), clock \in t..(t + MinInterval - 1)
      PROVE  Cardinality(RecordedIn(t..(t + MinInterval - 1))) < 1
  <2>1. MinInterval \in 0..Week
    BY <1>3, SlotFitsTheWeek DEF MinInterval, RateGate
  <2>2. ASSUME NEW e \in RecordedIn(t..(t + MinInterval - 1)) PROVE FALSE
    <3>1. /\ e \in Events /\ publishedAt[e] \in Int /\ publishedAt[e] >= t
          /\ t >= 0
      BY <1>1, <2>1, <2>2 DEF RecordedIn, Time
    <3>2. e \in Recent(clock)
      BY <1>1, <1>3, <2>1, <3>1 DEF Recent, Never
    <3>3. clock - publishedAt[e] >= MinInterval
      BY <1>3, <3>2 DEF RateGate
    <3>. QED  BY <1>1, <1>3, <2>1, <3>1, <3>3
  <2>3. RecordedIn(t..(t + MinInterval - 1)) = {}
    BY <2>2
  <2>4. Cardinality(RecordedIn(t..(t + MinInterval - 1))) = 0
    BY <2>3, FS_EmptySet
  <2>. QED  BY <2>4
<1>. QED  BY <1>2, <1>3 DEF GateLeavesRoom

EveryWindowHasRoom ==
    \A t \in Time : /\ Room(t..(t + Week - 1), MaxPerWeek)
                    /\ Room(t..(t + MinInterval - 1), 1)

\* What a film is stamped with: a record carries the "now" of the cycle that
\* uploaded the film, and a cycle about to record has uploaded in its own name.
Stamped ==
    /\ \A e \in Events :
          publishedAt[e] # Never
             => row[e] = "published" /\ filmedAt[e] = publishedAt[e]
    /\ \A r \in Runs :
          pc[r] = "recording" => filmedAt[topic[r]] = started[r]

LEMMA InitStamped == Init => Stamped
BY DEF Init, Stamped

LEMMA NextStamped == IInv /\ Stamped /\ [Next]_vars => Stamped'
<1>. SUFFICES ASSUME IInv, Stamped, [Next]_vars PROVE Stamped'
  OBVIOUS
<1>0. /\ row \in [Events -> Rows] /\ pc \in [Runs -> Stages]
      /\ topic \in [Runs -> Events \cup {NoEvent}]
      /\ publishedAt \in [Events -> Time \cup {Never}]
      /\ filmedAt \in [Events -> Time \cup {Never}]
      /\ started \in [Runs -> Time]
      /\ \A r \in Runs : pc[r] \in Working =>
            /\ topic[r] \in Events /\ row[topic[r]] = "pending"
            /\ \A s \in Runs \ {r} : topic[s] # topic[r]
  BY TopicOfWork DEF IInv, TypeOK, ClaimHasOneOwner
<1>1. ASSUME NEW r \in Runs, BeginCycle(r) PROVE Stamped'
  BY <1>0, <1>1 DEF BeginCycle, Stamped
<1>2. ASSUME NEW r \in Runs, Leave(r), UNCHANGED <<row, publishedAt, filmedAt, started>>
      PROVE  Stamped'
  BY <1>0, <1>2 DEF Leave, Stamped
<1>3. ASSUME NEW r \in Runs, NEW e \in Events, SelectAndClaim(r, e)
      PROVE  Stamped'
  BY <1>0, <1>3 DEF SelectAndClaim, Claimable, Stamped
<1>4. ASSUME NEW r \in Runs, FailProduction(r) PROVE Stamped'
  <2>1. /\ topic[r] \in Events /\ row[topic[r]] = "pending"
        /\ \A e \in Events : e # topic[r] => row'[e] = row[e]
    BY <1>0, <1>4 DEF FailProduction, RecordFailure, Working
  <2>. QED  BY <1>0, <1>4, <2>1 DEF FailProduction, Leave, Stamped
<1>5. ASSUME NEW r \in Runs, PassGate(r) PROVE Stamped'
  BY <1>0, <1>5 DEF PassGate, Stamped
<1>6. ASSUME NEW r \in Runs, Upload(r) PROVE Stamped'
  <2>1. /\ topic[r] \in Events /\ row[topic[r]] = "pending"
        /\ \A s \in Runs \ {r} : topic[s] # topic[r]
        /\ filmedAt' = [filmedAt EXCEPT ![topic[r]] = started[r]]
        /\ pc' = [pc EXCEPT ![r] = "recording"]
        /\ UNCHANGED <<row, publishedAt, topic, started>>
    BY <1>0, <1>6 DEF Upload, Working
  <2>2. \A s \in Runs \ {r} : pc[s] = "recording" => topic[s] \in Events
    BY <1>0 DEF Working
  <2>. QED  BY <1>0, <2>1, <2>2 DEF Stamped
<1>7. ASSUME NEW r \in Runs, RecordPublished(r) PROVE Stamped'
  <2>1. /\ topic[r] \in Events /\ row[topic[r]] = "pending"
        /\ filmedAt[topic[r]] = started[r]
        /\ row' = [row EXCEPT ![topic[r]] = "published"]
        /\ publishedAt' = [publishedAt EXCEPT ![topic[r]] = started[r]]
        /\ pc' = [pc EXCEPT ![r] = "idle"]
        /\ topic' = [topic EXCEPT ![r] = NoEvent]
        /\ UNCHANGED <<filmedAt, started>>
    BY <1>0, <1>7 DEF RecordPublished, Leave, Working, Stamped
  <2>. QED  BY <1>0, <2>1 DEF Stamped
<1>8. CASE Tick \/ UNCHANGED vars
  BY <1>8 DEF Tick, vars, Stamped
<1>. QED  BY <1>1, <1>2, <1>3, <1>4, <1>5, <1>6, <1>7, <1>8
          DEF Next, CycleStep, SelectNothing, LoseClaim, PublisherFails, Die

\* Every film that went up in a window is recorded there, about to be recorded
\* by a cycle that began there, or unrecorded.
LEMMA FilmsAreAccountedFor ==
    ASSUME IInv, Stamped, NEW W
    PROVE  /\ Cardinality(FilmedIn(W)) <= Cardinality(RecordedIn(W))
                 + Cardinality(BegunIn(W)) + Cardinality(UnrecordedIn(W))
           /\ {Cardinality(FilmedIn(W)), Cardinality(UnrecordedIn(W))} \subseteq Nat
<1> DEFINE Recording == {r \in BegunIn(W) : pc[r] = "recording"}
           Held == {topic[r] : r \in Recording}
<1>1. /\ IsFiniteSet(RecordedIn(W)) /\ IsFiniteSet(BegunIn(W))
      /\ IsFiniteSet(FilmedIn(W)) /\ IsFiniteSet(UnrecordedIn(W))
  <2>1. /\ FilmedIn(W) \in SUBSET Events /\ UnrecordedIn(W) \in SUBSET Events
        /\ RecordedIn(W) \in SUBSET Events /\ BegunIn(W) \in SUBSET Runs
    BY DEF FilmedIn, UnrecordedIn, RecordedIn, BegunIn
  <2>. QED  BY <2>1, LongformAssumption, FS_Subset DEF LongformAssumption
<1>2. /\ IsFiniteSet(Held) /\ Cardinality(Held) <= Cardinality(BegunIn(W))
      /\ Cardinality(Held) \in Nat
  <2>1. IsFiniteSet(Recording) /\ Cardinality(Recording) <= Cardinality(BegunIn(W))
    BY <1>1, FS_Subset
  <2>2. [r \in Recording |-> topic[r]] \in Surjection(Recording, Held)
    BY DEF Surjection
  <2>3. IsFiniteSet(Held) /\ Cardinality(Held) <= Cardinality(Recording)
    BY <2>1, <2>2, FS_Surjection
  <2>4. {Cardinality(Held), Cardinality(Recording), Cardinality(BegunIn(W))}
           \subseteq Nat
    BY <1>1, <2>1, <2>3, FS_CardinalityType
  <2>. QED  BY <2>1, <2>3, <2>4
<1>3. FilmedIn(W) \subseteq (RecordedIn(W) \cup Held) \cup UnrecordedIn(W)
  <2>. SUFFICES ASSUME NEW e \in FilmedIn(W), e \notin UnrecordedIn(W)
                PROVE  e \in RecordedIn(W) \cup Held
    OBVIOUS
  <2>1. e \in Events /\ filmedAt[e] \in W
    BY DEF FilmedIn
  <2>2. CASE publishedAt[e] # Never
    BY <2>1, <2>2 DEF Stamped, RecordedIn
  <2>3. CASE publishedAt[e] = Never
    <3>1. PICK r \in Runs : pc[r] = "recording" /\ topic[r] = e
      BY <2>3 DEF UnrecordedIn
    <3>2. r \in Recording
      BY <2>1, <3>1 DEF Stamped, BegunIn
    <3>. QED  BY <3>1, <3>2
  <2>. QED  BY <2>2, <2>3
<1>. HIDE DEF Held
<1>4. /\ IsFiniteSet(RecordedIn(W) \cup Held)
      /\ Cardinality(RecordedIn(W) \cup Held)
            <= Cardinality(RecordedIn(W)) + Cardinality(Held)
  BY <1>1, <1>2, UnionIsNoMore
<1>5. /\ IsFiniteSet((RecordedIn(W) \cup Held) \cup UnrecordedIn(W))
      /\ Cardinality((RecordedIn(W) \cup Held) \cup UnrecordedIn(W))
            <= Cardinality(RecordedIn(W) \cup Held) + Cardinality(UnrecordedIn(W))
  BY <1>1, <1>4, UnionIsNoMore
<1>6. /\ {Cardinality(RecordedIn(W)), Cardinality(UnrecordedIn(W)),
          Cardinality(BegunIn(W)), Cardinality(FilmedIn(W)),
          Cardinality(RecordedIn(W) \cup Held),
          Cardinality((RecordedIn(W) \cup Held) \cup UnrecordedIn(W))} \subseteq Nat
      /\ Cardinality(FilmedIn(W))
            <= Cardinality((RecordedIn(W) \cup Held) \cup UnrecordedIn(W))
  BY <1>1, <1>3, <1>4, <1>5, FS_Subset, FS_CardinalityType
<1>. QED  BY <1>2, <1>4, <1>5, <1>6

\* However many cycles overlap and whatever dies, no week holds more uploaded
\* films than the cap, one for each further cycle and those no row records, and
\* no slot more than one and the same.
THEOREM TheRateIsHeld == Spec => []RateHeld
<1>1. Init => EveryWindowHasRoom
  <2>. SUFFICES ASSUME Init PROVE EveryWindowHasRoom
    OBVIOUS
  <2>1. ASSUME NEW t \in Time, NEW d \in Int, NEW cap \in Nat
        PROVE  Room(t..(t + d - 1), cap)
    <3>1. RecordedIn(t..(t + d - 1)) = {} /\ BegunIn(t..(t + d - 1)) = {}
      BY LongformAssumption
         DEF Init, RecordedIn, BegunIn, Never, Time, LongformAssumption
    <3>2. Cardinality(RecordedIn(t..(t + d - 1))) = 0
          /\ Cardinality(BegunIn(t..(t + d - 1))) = 0
      BY <3>1, FS_EmptySet
    <3>3. Overlap \in Nat
      BY FiniteWindows
    <3>. QED  BY <3>2, <3>3 DEF Room
  <2>2. /\ MinInterval \in Int
        /\ Week \in Int
        /\ MaxPerWeek \in Nat
    BY LongformAssumption, SlotFitsTheWeek DEF LongformAssumption, MinInterval
  <2>3. ASSUME NEW t \in Time
        PROVE  /\ Room(t..(t + Week - 1), MaxPerWeek)
               /\ Room(t..(t + MinInterval - 1), 1)
    <3>1. Room(t..(t + Week - 1), MaxPerWeek)
      BY ONLY <2>1, <2>2, <2>3
    <3>2. Room(t..(t + MinInterval - 1), 1)
      BY ONLY <2>1, <2>2, <2>3
    <3>. QED  BY ONLY <3>1, <3>2
  <2>. QED  BY ONLY <2>3 DEF EveryWindowHasRoom
<1>2. IInv /\ EveryWindowHasRoom /\ [Next]_vars => EveryWindowHasRoom'
  <2>. SUFFICES ASSUME IInv, EveryWindowHasRoom, [Next]_vars, NEW t \in Time
                PROVE  /\ Room(t..(t + Week - 1), MaxPerWeek)'
                       /\ Room(t..(t + MinInterval - 1), 1)'
    BY DEF EveryWindowHasRoom
  <2>1. /\ Room(t..(t + Week - 1), MaxPerWeek)
        /\ Room(t..(t + MinInterval - 1), 1)
    BY DEF EveryWindowHasRoom
  <2>2. MaxPerWeek \in Nat /\ 1 \in Nat
    BY LongformAssumption DEF LongformAssumption
  <2>. QED  BY <2>1, <2>2, GateFindsRoom, RoomKeeps
<1>3. IInv /\ Stamped /\ EveryWindowHasRoom => RateHeld
  <2>. SUFFICES ASSUME IInv, Stamped, NEW W, NEW cap \in Nat, Room(W, cap)
                PROVE  Cardinality(FilmedIn(W))
                          <= cap + Overlap + Cardinality(UnrecordedIn(W))
    BY LongformAssumption DEF LongformAssumption, EveryWindowHasRoom, RateHeld
  <2>1. /\ Cardinality(FilmedIn(W)) <= Cardinality(RecordedIn(W))
              + Cardinality(BegunIn(W)) + Cardinality(UnrecordedIn(W))
        /\ {Cardinality(FilmedIn(W)), Cardinality(UnrecordedIn(W))} \subseteq Nat
    BY FilmsAreAccountedFor
  <2>2. Cardinality(RecordedIn(W)) + Cardinality(BegunIn(W)) <= cap + Overlap
    BY DEF Room
  <2>. QED  BY <2>1, <2>2, FiniteWindows
<1>. QED  BY <1>1, <1>2, <1>3, InitIInv, NextIInv, InitStamped, NextStamped, PTL
          DEF Spec

-----------------------------------------------------------------------------
(* The loop implements ClaimedPublishing.                                  *)

Claims == [e \in Events |-> IF row[e] = "none" THEN 0 ELSE 1]
Recorded == {e \in Events : publishedAt[e] # Never}

LEMMA InitPublishing == Init => Publishing!Init
BY DEF Init, Publishing!Init

\* A row is never taken away, so only the first writing of one is a claim.
LEMMA RowsStay ==
    ASSUME IInv, NEW e \in Events, NEW s \in Rows \ {"none"},
           row' = [row EXCEPT ![e] = s]
    PROVE  Claims' = [Claims EXCEPT ![e] = 1]
<1>1. /\ row'[e] = s /\ \A d \in Events : d # e => row'[d] = row[d]
  BY DEF IInv, TypeOK
<1>2. \A d \in Events : Claims'[d] = [Claims EXCEPT ![e] = 1][d]
  BY <1>1 DEF Claims
<1>3. DOMAIN Claims' = Events /\ DOMAIN [Claims EXCEPT ![e] = 1] = Events
  BY DEF Claims
<1>. QED  BY <1>2, <1>3 DEF Claims

\* Every step of the loop claims, sends or records one film, or is none of the
\* channel's business.
LEMMA StepPublishes == IInv /\ [Next]_vars => [Publishing!Next]_(Publishing!vars)
<1>. SUFFICES ASSUME IInv, [Next]_vars
              PROVE  [Publishing!Next]_(Publishing!vars)
  OBVIOUS
<1>1. ASSUME UNCHANGED <<row, films, publishedAt>>
      PROVE  UNCHANGED Publishing!vars
  BY <1>1 DEF Publishing!vars
<1>2. ASSUME NEW r \in Runs, NEW e \in Events, SelectAndClaim(r, e)
      PROVE  Publishing!Claim(e)
  <2>1. /\ row[e] = "none" /\ row' = [row EXCEPT ![e] = "pending"]
        /\ UNCHANGED <<films, publishedAt>>
    BY <1>2 DEF SelectAndClaim, Claimable
  <2>2. Claims' = [Claims EXCEPT ![e] = 1]
    BY <2>1, RowsStay DEF Rows
  <2>3. Claims[e] = 0
    BY <2>1 DEF Claims
  <2>4. Claims[e] < 1 /\ Claims' = [Claims EXCEPT ![e] = Claims[e] + 1]
    BY <2>2, <2>3
  <2>. QED  BY <2>1, <2>4 DEF Publishing!Claim, Claims
<1>3. ASSUME NEW r \in Runs, Upload(r), NEW e \in Events, e = topic[r]
      PROVE  Publishing!Send(e)
  <2>1. row[e] = "pending" /\ films[e] = 0
    BY <1>3, TopicOfWork DEF Upload, IInv, WorkIsOnTopic, Working
  <2>2. films[e] < Claims[e]
    BY <2>1 DEF Claims
  <2>. QED  BY <1>3, <2>2 DEF Upload, Publishing!Send, Claims
<1>4. ASSUME NEW r \in Runs, RecordPublished(r), NEW e \in Events, e = topic[r]
      PROVE  Publishing!Record(e)
  <2>1. /\ row[e] = "pending" /\ films[e] = 1
        /\ row' = [row EXCEPT ![e] = "published"]
        /\ publishedAt' = [publishedAt EXCEPT ![e] = started[r]]
        /\ films' = films /\ started[r] # Never
    BY <1>4, TopicOfWork, LongformAssumption
       DEF RecordPublished, IInv, TypeOK, WorkIsOnTopic, Working, Time, Never,
           LongformAssumption
  <2>2. Claims' = [Claims EXCEPT ![e] = 1]
    BY <2>1, RowsStay DEF Rows
  <2>3. Claims' = Claims
    BY <2>1, <2>2 DEF Claims
  <2>4. Recorded' = Recorded \cup {e}
    BY <2>1 DEF Recorded, IInv, TypeOK
  <2>5. films[e] > 0
    BY <2>1
  <2>. QED  BY <2>1, <2>3, <2>4, <2>5 DEF Publishing!Record, Claims, Recorded
<1>5. ASSUME NEW r \in Runs, FailProduction(r) PROVE UNCHANGED Publishing!vars
  <2>1. topic[r] \in Events /\ row[topic[r]] = "pending"
    BY <1>5, TopicOfWork DEF FailProduction, Working
  <2>2. PICK s \in Rows \ {"none"} : row' = [row EXCEPT ![topic[r]] = s]
    <3>1. row' = [row EXCEPT ![topic[r]] =
                     IF attempts[topic[r]] + 1 >= RetireAt THEN "failed" ELSE "retry"]
      BY <1>5 DEF FailProduction, RecordFailure
    <3>2. /\ "failed" \in Rows \ {"none"} /\ "retry" \in Rows \ {"none"}
          /\ \/ row' = [row EXCEPT ![topic[r]] = "failed"]
             \/ row' = [row EXCEPT ![topic[r]] = "retry"]
      BY <3>1 DEF Rows
    <3>. QED  BY <3>2
  <2>3. Claims' = [Claims EXCEPT ![topic[r]] = 1]
    BY <2>1, <2>2, RowsStay
  <2>4. Claims' = Claims
    BY <2>1, <2>3 DEF Claims
  <2>. QED  BY <1>5, <2>4 DEF FailProduction, Publishing!vars, Claims
<1>6. ASSUME NEW r \in Runs, CycleStep(r) PROVE [Publishing!Next]_(Publishing!vars)
  <2>1. ASSUME BeginCycle(r) \/ SelectNothing(r) \/ PassGate(r)
               \/ PublisherFails(r) \/ Die(r)
        PROVE  UNCHANGED <<row, films, publishedAt>>
    BY <2>1 DEF BeginCycle, SelectNothing, PassGate, PublisherFails, Die
  <2>2. ASSUME NEW e \in Events, LoseClaim(r, e)
        PROVE  UNCHANGED <<row, films, publishedAt>>
    BY <2>2 DEF LoseClaim
  <2>3. Upload(r) \/ RecordPublished(r) => topic[r] \in Events
    BY TopicOfWork DEF Upload, RecordPublished, Working
  <2>4. CASE \E e \in Events : SelectAndClaim(r, e)
    BY <1>2, <2>4 DEF Publishing!Next
  <2>5. CASE Upload(r)
    BY <1>3, <2>3, <2>5 DEF Publishing!Next
  <2>6. CASE RecordPublished(r)
    <3>1. PICK e \in Events : e = topic[r]
      BY <2>3, <2>6
    <3>2. Publishing!Record(e)
      BY <1>4, <2>6, <3>1
    <3>3. Publishing!Next
      BY <3>2 DEF Publishing!Next
    <3>. QED  BY <3>3
  <2>. QED  BY <1>1, <1>5, <1>6, <2>1, <2>2, <2>4, <2>5, <2>6 DEF CycleStep
<1>7. Tick \/ UNCHANGED vars => UNCHANGED <<row, films, publishedAt>>
  BY DEF Tick, vars
<1>. QED  BY <1>1, <1>6, <1>7 DEF Next

\* The film loop publishes under claims: one for an event, written before.
THEOREM FilmsAreClaimed == Spec => PublishesUnderClaims
BY InitPublishing, StepPublishes, Invariance, PTL
   DEF Spec, PublishesUnderClaims, Publishing!Spec
=============================================================================
