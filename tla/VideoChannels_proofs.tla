------------------------ MODULE VideoChannels_proofs ------------------------
(***************************************************************************)
(* The channels of a published video, for any chain of surfaces, any       *)
(* articles and any budgets: where the chain stands and what that says of  *)
(* the calls; what the columns say; the caps; and the shares of the lock.  *)
(***************************************************************************)
EXTENDS VideoChannels, FiniteSetTheorems, TLAPS

-----------------------------------------------------------------------------
(* Where the chain stands.                                                 *)

\* One chain at a time, its video the newest, its timer not overdue.
Position ==
    /\ job = NoArticle <=> slot = 0
    /\ deadline # Never => slot \in 1..Len(Chain) /\ clock <= deadline
    /\ now <= clock
    /\ \A a \in Articles : a # job => publishedAt[a] <= now
    /\ job # NoArticle => now <= publishedAt[job] /\ publishedAt[job] <= clock

Base == TypeOK /\ Position

\* The parameters as the steps use them.
LEMMA Parameters ==
    /\ Len(Chain) \in Nat
    /\ \A k \in 1..Len(Chain) : Chain[k] \in Surfaces /\ ColumnOf[Chain[k]] \in Columns
    /\ \A s \in Surfaces : ColumnOf[s] \in Columns
    /\ \A s \in Surfaces : \E k \in 1..Len(Chain) : Chain[k] = s
    /\ \A j, k \in 1..Len(Chain) : Chain[j] = Chain[k] => j = k
    /\ MaxPerDay \in Nat /\ Day \in Nat /\ Ceiling \in Nat
    /\ Lock \in Nat /\ Safety \in Nat /\ MaxClock \in Nat
    /\ \A t \in RenderTimes : t \in Nat
<1>1. Chain \in Seq(Surfaces)
  BY ChannelsAssumption DEF ChannelsAssumption
<1>2. Len(Chain) \in Nat /\ DOMAIN Chain = 1..Len(Chain)
  BY <1>1
<1>. QED  BY <1>2, ChannelsAssumption DEF ChannelsAssumption, Surfaces, Columns

\* Whole-numbered division.
LEMMA Division ==
    ASSUME NEW x \in Int, NEW n \in Nat \ {0}
    PROVE  /\ x \div n \in Int
           /\ n * (x \div n) <= x /\ x < n * (x \div n) + n
           /\ x >= 0 => x \div n >= 0 /\ x \div n <= x
           /\ x < 0 => x \div n < 0
<1>1. /\ x \div n \in Int
      /\ n * (x \div n) <= x /\ x < n * (x \div n) + n
  OBVIOUS
<1>. DEFINE q == x \div n
<1>2. q \in Int /\ n * q <= x /\ x < n * q + n
  BY <1>1
<1>. HIDE DEF q
<1>3. x >= 0 => q >= 0
  <2>1. q \in Int /\ q < 0 => n * q <= -n
    BY <1>2
  <2>. QED  BY <1>2, <2>1
<1>4. q >= 0 => q <= n * q
  BY <1>2
<1>5. x < 0 => q < 0
  <2>1. q >= 0 => n * q >= 0
    BY <1>2
  <2>. QED  BY <1>2, <2>1
<1>. QED  BY <1>2, <1>3, <1>4, <1>5 DEF q

Behind(k) == Len(Chain) - k + 1

\* A budget lies between nothing and the ceiling, and ends before the lock does.
LEMMA Budgets ==
    ASSUME Base, NEW k \in 1..Len(Chain)
    PROVE  /\ Budget(k) \in 0..Ceiling
           /\ clock + Budget(k) <= AtLeast(clock, LockEnds)
           /\ LockEnds >= clock =>
                Budget(k) = AtMost(Ceiling, (LockEnds - clock) \div Behind(k))
<1>1. Behind(k) \in Nat \ {0} /\ LockEnds \in Int /\ clock \in Int /\ Ceiling \in Nat
  BY Parameters DEF Base, TypeOK, Time, LockEnds, Behind
<1>. DEFINE left == LockEnds - clock
            share == left \div Behind(k)
<1>2. Budget(k) = AtLeast(0, AtMost(Ceiling, share))
  BY DEF Budget, Behind
<1>3. left \in Int
  BY <1>1
<1>. HIDE DEF left
<1>4. share \in Int /\ (left >= 0 => share >= 0 /\ share <= left) /\ (left < 0 => share < 0)
  BY <1>1, <1>3, Division
<1>. HIDE DEF share
<1>5. /\ Budget(k) \in 0..Ceiling
      /\ Budget(k) <= AtLeast(0, left)
      /\ left >= 0 => Budget(k) = AtMost(Ceiling, share)
  BY <1>1, <1>2, <1>3, <1>4 DEF AtLeast, AtMost
<1>6. clock + Budget(k) <= AtLeast(clock, LockEnds)
  BY <1>1, <1>5 DEF AtLeast, left
<1>7. LockEnds >= clock => left >= 0
  BY <1>1 DEF left
<1>. QED  BY <1>5, <1>6, <1>7 DEF share, left

LEMMA InitBase == Init => Base
BY Parameters, ChannelsAssumption
   DEF ChannelsAssumption, Init, Base, TypeOK, Position, Time, Never

\* The columns after a mark.
LEMMA MarkTypes ==
    ASSUME TypeOK, NEW a \in Articles, NEW s \in Surfaces,
           NEW status \in {"pending"} \cup Outcomes, Mark(a, s, status)
    PROVE  /\ row' \in [Articles -> [Columns -> {"none", "pending"} \cup Outcomes]]
           /\ row'[a][ColumnOf[s]] = status
           /\ \A b \in Articles, c \in Columns :
                 b # a \/ c # ColumnOf[s] => row'[b][c] = row[b][c]
BY Parameters DEF TypeOK, Mark

CallsAre ==
    call \in [Articles -> [Surfaces ->
                {"none", "off", "probing", "sent", "lost"} \cup Outcomes]]

Becomes(a, s, c) == call' = [call EXCEPT ![a][s] = c]

\* The calls after one of them changed.
LEMMA CallTypes ==
    ASSUME TypeOK, NEW a \in Articles, NEW s \in Surfaces,
           NEW c \in {"off", "probing", "sent"} \cup Outcomes, Becomes(a, s, c)
    PROVE  /\ CallsAre'
           /\ call'[a][s] = c
           /\ \A b \in Articles, z \in Surfaces :
                 b # a \/ z # s => call'[b][z] = call[b][z]
BY DEF TypeOK, CallsAre, Becomes

\* What a surface does to its own call and row, in time or not: (a, s) comes to
\* c, and its column may follow.
Writes(a, s, c) ==
    /\ Becomes(a, s, c)
    /\ \/ UNCHANGED row
       \/ \E status \in {"pending"} \cup Outcomes : Mark(a, s, status)

LEMMA WritesTypes ==
    ASSUME TypeOK, NEW a \in Articles, NEW s \in Surfaces,
           NEW c \in {"off", "probing", "sent"} \cup Outcomes, Writes(a, s, c)
    PROVE  /\ row' \in [Articles -> [Columns -> {"none", "pending"} \cup Outcomes]]
           /\ CallsAre'
<1>1. CallsAre'
  BY CallTypes DEF Writes
<1>2. CASE UNCHANGED row
  BY <1>1, <1>2 DEF TypeOK
<1>3. CASE \E status \in {"pending"} \cup Outcomes : Mark(a, s, status)
  BY <1>1, <1>3, MarkTypes
<1>. QED  BY <1>2, <1>3 DEF Writes

\* Where the chain is while one runs.
LEMMA AtSurface ==
    ASSUME Base, job # NoArticle, slot <= Len(Chain)
    PROVE  job \in Articles /\ slot \in 1..Len(Chain) /\ Chain[slot] \in Surfaces
BY Parameters DEF Base, TypeOK, Position

\* The chain moves on to the next position.
LEMMA NextSlotKeeps ==
    ASSUME Base, job # NoArticle, slot <= Len(Chain), NextSlot,
           UNCHANGED <<publishedAt, job, now, clock>>
    PROVE  /\ slot' \in 0..(Len(Chain) + 1) /\ slot' # 0 /\ deadline' = Never
           /\ Position'
BY AtSurface, Parameters DEF Base, TypeOK, Position, NextSlot, Never, Time

LEMMA DeclineBase == Base /\ Decline => Base'
<1>. SUFFICES ASSUME Base, Decline PROVE Base'
  OBVIOUS
<1>. DEFINE s == Chain[slot]
<1>1. job # NoArticle /\ slot <= Len(Chain) /\ NextSlot
      /\ UNCHANGED <<publishedAt, abandoned, job, now, clock>>
  BY DEF Decline, Starting
<1>2. Writes(job, s, "off") \/ Writes(job, s, "skipped")
  BY DEF Decline, Writes, Outcomes, Becomes
<1>3. /\ row' \in [Articles -> [Columns -> {"none", "pending"} \cup Outcomes]]
      /\ CallsAre'
  BY <1>1, <1>2, AtSurface, WritesTypes DEF Base, Outcomes
<1>. QED
  BY <1>1, <1>3, NextSlotKeeps DEF Base, TypeOK, CallsAre

LEMMA CallBase == Base /\ Call => Base'
<1>. SUFFICES ASSUME Base, Call PROVE Base'
  OBVIOUS
<1>. DEFINE s == Chain[slot]
<1>1. /\ job \in Articles /\ slot \in 1..Len(Chain) /\ s \in Surfaces
      /\ UNCHANGED <<publishedAt, abandoned, job, slot, now, clock>>
      /\ deadline' = clock + Budget(slot)
  BY AtSurface DEF Call, Starting
<1>2. Writes(job, s, "probing") \/ Writes(job, s, "sent")
  BY DEF Call, Send, Writes, Becomes
<1>3. /\ row' \in [Articles -> [Columns -> {"none", "pending"} \cup Outcomes]]
      /\ CallsAre'
  BY <1>1, <1>2, WritesTypes DEF Base
<1>4. /\ deadline' \in 0..(MaxClock + Ceiling) /\ clock <= deadline'
      /\ deadline' # Never
  <2>1. clock \in 0..MaxClock /\ Budget(slot) \in 0..Ceiling
    BY <1>1, Budgets DEF Base, TypeOK, Time
  <2>. QED  BY <1>1, <2>1, Parameters DEF Never
<1>. QED
  BY <1>1, <1>3, <1>4 DEF Base, TypeOK, Position, CallsAre

\* A call comes back and moves the chain on, or not.
LEMMA ResolveKeeps ==
    ASSUME Base, NEW a \in Articles, NEW s \in Surfaces, Resolve(a, s),
           UNCHANGED <<publishedAt, abandoned, job, now, clock>>,
           row' \in [Articles -> [Columns -> {"none", "pending"} \cup Outcomes]],
           CallsAre'
    PROVE  Base'
<1>1. CASE Awaited(a, s)
  <2>1. job # NoArticle /\ slot <= Len(Chain) /\ NextSlot
    BY <1>1, ChannelsAssumption
       DEF ChannelsAssumption, Awaited, Resolve, Base, Position
  <2>. QED  BY <2>1, NextSlotKeeps DEF Base, TypeOK, CallsAre
<1>2. CASE ~Awaited(a, s)
  BY <1>2 DEF Resolve, Base, TypeOK, Position, CallsAre
<1>. QED  BY <1>1, <1>2

LEMMA ProbedBase ==
    ASSUME Base, NEW a \in Articles, NEW s \in Surfaces, Probed(a, s)
    PROVE  Base'
<1>1. CASE Send(a, s) /\ UNCHANGED <<slot, deadline>>
  <2>1. Writes(a, s, "sent")
    BY <1>1 DEF Send, Writes, Becomes
  <2>2. /\ row' \in [Articles -> [Columns -> {"none", "pending"} \cup Outcomes]]
        /\ CallsAre'
    BY <2>1, WritesTypes DEF Base
  <2>. QED  BY <1>1, <2>2 DEF Probed, Base, TypeOK, Position, CallsAre
<1>2. CASE Resolve(a, s) /\ Writes(a, s, "skipped")
  <2>1. /\ row' \in [Articles -> [Columns -> {"none", "pending"} \cup Outcomes]]
        /\ CallsAre'
    BY <1>2, WritesTypes DEF Base, Outcomes
  <2>. QED  BY <1>2, <2>1, ResolveKeeps DEF Probed
<1>. QED  BY <1>1, <1>2 DEF Probed, Writes, Outcomes, Becomes

LEMMA AnswerBase ==
    ASSUME Base, NEW a \in Articles, NEW s \in Surfaces, Answer(a, s)
    PROVE  Base'
<1>1. PICK outcome \in {"posted", "failed"} :
         /\ call' = [call EXCEPT ![a][s] = outcome]
         /\ MarkItself(a, s, outcome)
  BY DEF Answer
<1>2. Writes(a, s, outcome) /\ outcome \in Outcomes
  BY <1>1 DEF MarkItself, Writes, Outcomes, Becomes
<1>3. /\ row' \in [Articles -> [Columns -> {"none", "pending"} \cup Outcomes]]
      /\ CallsAre'
  BY <1>2, WritesTypes DEF Base
<1>. QED  BY <1>3, ResolveKeeps DEF Answer

LEMMA TimeOutBase == Base /\ TimeOut => Base'
<1>. SUFFICES ASSUME Base, TimeOut PROVE Base'
  OBVIOUS
<1>1. /\ job # NoArticle /\ slot <= Len(Chain) /\ NextSlot
      /\ Mark(job, Chain[slot], "failed")
      /\ abandoned' = abandoned \cup {<<job, Chain[slot]>>}
      /\ UNCHANGED <<publishedAt, call, job, now, clock>>
  BY DEF TimeOut, Base, Position
<1>2. row' \in [Articles -> [Columns -> {"none", "pending"} \cup Outcomes]]
  BY <1>1, AtSurface, MarkTypes DEF Base, Outcomes
<1>3. abandoned' \subseteq Articles \X Surfaces
  BY <1>1, AtSurface DEF Base, TypeOK
<1>. QED  BY <1>1, <1>2, <1>3, NextSlotKeeps DEF Base, TypeOK

\* Every publish lies in the past.
LEMMA AllPublished ==
    ASSUME Base
    PROVE  /\ now \in Nat /\ clock \in 0..MaxClock /\ now <= clock
           /\ \A a \in Articles :
                 /\ publishedAt[a] \in Int /\ publishedAt[a] <= clock
                 /\ a # job => publishedAt[a] <= now
<1>1. now \in Nat /\ clock \in 0..MaxClock /\ now <= clock
  BY Parameters DEF Base, TypeOK, Position, Time
<1>2. ASSUME NEW a \in Articles
      PROVE  /\ publishedAt[a] \in Int /\ publishedAt[a] <= clock
             /\ a # job => publishedAt[a] <= now
  <2>1. publishedAt[a] \in Int
    BY Parameters DEF Base, TypeOK, Time, Never
  <2>2. a # job => publishedAt[a] <= now
    BY DEF Base, Position
  <2>3. a = job => publishedAt[a] <= clock
    BY ChannelsAssumption DEF ChannelsAssumption, Base, Position
  <2>. QED  BY <1>1, <2>1, <2>2, <2>3
<1>. QED  BY <1>1, <1>2

\* Between two chains.
LEMMA Between ==
    ASSUME Base, job' = NoArticle, slot' = 0, deadline' = Never, now' = clock,
           UNCHANGED <<publishedAt, clock>>
    PROVE  Position' /\ slot' \in 0..(Len(Chain) + 1) /\ now' \in Time
           /\ job' \in Articles \cup {NoArticle}
<1>1. \A a \in Articles : publishedAt'[a] <= now'
  BY AllPublished
<1>. QED  BY <1>1, AllPublished, Parameters DEF Position, Time

LEMMA OtherBase ==
    ASSUME Base,
           (\E a \in Articles : Publish(a)) \/ Leave \/ Die \/ Tick \/ UNCHANGED vars
    PROVE  Base'
<1>1. ASSUME NEW a \in Articles, Publish(a) PROVE Base'
  <2>1. PICK t \in RenderTimes : clock - t >= now /\ now' = clock - t
    BY <1>1 DEF Publish
  <2>2. now' \in Time /\ now' <= clock /\ now <= now' /\ clock \in Time
    BY <2>1, Parameters DEF Base, TypeOK, Time
  <2>3. job = NoArticle /\ a # NoArticle /\ deadline = Never
    BY <1>1, ChannelsAssumption DEF ChannelsAssumption, Publish, Base, Position
  <2>4. \A b \in Articles : b # a => publishedAt'[b] <= now'
    <3>1. \A b \in Articles : b # a => publishedAt'[b] = publishedAt[b]
      BY <1>1 DEF Publish, Base, TypeOK
    <3>2. \A b \in Articles : publishedAt[b] \in Int /\ publishedAt[b] <= now
      BY <2>3, AllPublished, ChannelsAssumption DEF ChannelsAssumption
    <3>. QED  BY <2>2, <3>1, <3>2, AllPublished, Parameters DEF Time
  <2>5. /\ publishedAt' \in [Articles -> Time \cup {Never}]
        /\ publishedAt'[a] = clock /\ job' = a /\ slot' = 1 /\ deadline' = Never
        /\ UNCHANGED <<row, call, abandoned, clock>>
    BY <1>1, <2>2, <2>3 DEF Publish, Base, TypeOK
  <2>6. Position'
    BY <2>2, <2>3, <2>4, <2>5, Parameters DEF Position, Time, Never
  <2>. QED
    BY <2>2, <2>5, <2>6, Parameters DEF Base, TypeOK
<1>2. CASE Leave
  <2>1. deadline = Never
    <3>1. ~(slot \in 1..Len(Chain))
      BY <1>2, Parameters DEF Leave
    <3>. QED  BY <3>1 DEF Base, Position
  <2>2. /\ job' = NoArticle /\ slot' = 0 /\ deadline' = Never /\ now' = clock
        /\ UNCHANGED <<row, publishedAt, call, abandoned, clock>>
    BY <1>2, <2>1 DEF Leave
  <2>. QED  BY <2>2, Between DEF Base, TypeOK
<1>3. CASE Die
  <2>1. CallsAre'
    BY <1>3 DEF Die, Base, TypeOK, CallsAre
  <2>2. /\ job' = NoArticle /\ slot' = 0 /\ deadline' = Never /\ now' = clock
        /\ UNCHANGED <<row, publishedAt, abandoned, clock>>
    BY <1>3 DEF Die
  <2>. QED  BY <2>1, <2>2, Between DEF Base, TypeOK, CallsAre
<1>4. CASE Tick
  <2>1. /\ clock' = clock + 1 /\ clock < MaxClock
        /\ deadline # Never => clock < deadline
        /\ UNCHANGED <<row, publishedAt, call, abandoned, job, slot, deadline, now>>
    BY <1>4, Parameters DEF Tick, Base, TypeOK, Position
  <2>2. clock \in Nat /\ MaxClock \in Nat /\ now \in Nat /\ deadline \in Int
        /\ \A a \in Articles : publishedAt[a] \in Int
    BY Parameters DEF Base, TypeOK, Time, Never
  <2>3. clock' \in Time /\ clock <= clock'
    BY <2>1, <2>2 DEF Time
  <2>4. deadline # Never => clock' <= deadline
    BY <2>1, <2>2
  <2>5. now' <= clock'
    BY <2>1, <2>2 DEF Base, Position
  <2>6. job # NoArticle => publishedAt'[job] <= clock'
    <3>1. job # NoArticle => publishedAt[job] <= clock /\ job \in Articles
      BY DEF Base, TypeOK, Position
    <3>. QED  BY <2>1, <2>2, <3>1
  <2>7. Position'
    BY <2>1, <2>4, <2>5, <2>6 DEF Base, Position
  <2>. QED  BY <2>1, <2>3, <2>7 DEF Base, TypeOK
<1>5. CASE UNCHANGED vars
  BY <1>5 DEF vars, Base, TypeOK, Position, Time
<1>. QED  BY <1>1, <1>2, <1>3, <1>4, <1>5

LEMMA NextBase == Base /\ [Next]_vars => Base'
BY DeclineBase, CallBase, ProbedBase, AnswerBase, TimeOutBase, OtherBase DEF Next

THEOREM BaseInvariance == Spec => []Base
BY InitBase, NextBase, PTL DEF Spec

\* The variables keep their types.
THEOREM TypeCorrect == Spec => []TypeOK
<1>1. Base => TypeOK
  BY DEF Base
<1>. QED  BY <1>1, BaseInvariance, PTL

-----------------------------------------------------------------------------
(* What that says of the calls.                                            *)

OnTheAir(a, s) == call[a][s] \in {"probing", "sent"}

\* Of the running chain, the surfaces before the position had their turn and
\* those behind it did not; the one at it is on the air while its timer runs.
Turns ==
    job # NoArticle =>
        /\ \A k \in 1..Len(Chain) :
              /\ k < slot => call[job][Chain[k]] # "none"
              /\ k > slot => call[job][Chain[k]] = "none"
        /\ slot \in 1..Len(Chain) =>
              IF deadline = Never THEN call[job][Chain[slot]] = "none"
              ELSE OnTheAir(job, Chain[slot])

Unpublished ==
    \A a \in Articles, s \in Surfaces :
        publishedAt[a] = Never => call[a][s] = "none"

\* Whatever is on the air is awaited or was given up.
NobodyForgotten ==
    \A a \in Articles, s \in Surfaces :
        OnTheAir(a, s) => <<a, s>> \in abandoned \/ Awaited(a, s)

Calls == Base /\ Turns /\ Unpublished /\ NobodyForgotten

LEMMA InitCalls == Init => Calls
BY InitBase
   DEF Init, Calls, Turns, Unpublished, NobodyForgotten, OnTheAir

\* The running chain's video is out.
LEMMA JobIsOut ==
    ASSUME Base, job # NoArticle
    PROVE  job \in Articles /\ publishedAt[job] # Never /\ publishedAt[job] \in Nat
BY AllPublished DEF Base, TypeOK, Position, Never

\* A surface that had its turn before the position moves.
LEMMA DeclineCalls == Calls /\ Decline => Calls'
<1>. SUFFICES ASSUME Calls, Decline PROVE Calls'
  OBVIOUS
<1>. DEFINE s == Chain[slot]
<1>1. /\ job # NoArticle /\ slot <= Len(Chain) /\ deadline = Never
      /\ slot' = slot + 1 /\ deadline' = Never
      /\ UNCHANGED <<publishedAt, abandoned, job, now, clock>>
  BY DEF Decline, Starting, NextSlot
<1>2. Base /\ job \in Articles /\ slot \in 1..Len(Chain) /\ s \in Surfaces
      /\ publishedAt[job] # Never
  BY <1>1, AtSurface, JobIsOut DEF Calls
<1>3. PICK c \in {"off", "skipped"} : Becomes(job, s, c)
  BY DEF Decline, Becomes
<1>4. /\ call'[job][s] \in {"off", "skipped"}
      /\ \A b \in Articles, z \in Surfaces :
            b # job \/ z # s => call'[b][z] = call[b][z]
  BY <1>2, <1>3, CallTypes DEF Base, Outcomes
<1>5. \A k \in 1..Len(Chain) : k # slot => call'[job][Chain[k]] = call[job][Chain[k]]
  BY <1>2, <1>4, Parameters
<1>6. Turns'
  BY <1>1, <1>2, <1>4, <1>5 DEF Calls, Turns
<1>7. Unpublished'
  BY <1>1, <1>2, <1>4 DEF Calls, Unpublished
<1>8. NobodyForgotten'
  BY <1>1, <1>2, <1>4 DEF Calls, NobodyForgotten, OnTheAir, Awaited
<1>. QED  BY <1>6, <1>7, <1>8, NextBase DEF Calls, Next

LEMMA CallCalls == Calls /\ Call => Calls'
<1>. SUFFICES ASSUME Calls, Call PROVE Calls'
  OBVIOUS
<1>. DEFINE s == Chain[slot]
<1>1. /\ job # NoArticle /\ slot <= Len(Chain) /\ deadline = Never
      /\ UNCHANGED <<publishedAt, abandoned, job, slot, now, clock>>
  BY DEF Call, Starting
<1>2. Base /\ job \in Articles /\ slot \in 1..Len(Chain) /\ s \in Surfaces
      /\ publishedAt[job] # Never
  BY <1>1, AtSurface, JobIsOut DEF Calls
<1>3. deadline' # Never
  <2>1. deadline' = clock + Budget(slot) /\ clock \in 0..MaxClock
        /\ Budget(slot) \in 0..Ceiling
    BY <1>2, Budgets, AllPublished DEF Call
  <2>. QED  BY <2>1, Parameters DEF Never
<1>4. PICK c \in {"probing", "sent"} : Becomes(job, s, c)
  BY DEF Call, Send, Becomes
<1>5. /\ call'[job][s] \in {"probing", "sent"}
      /\ \A b \in Articles, z \in Surfaces :
            b # job \/ z # s => call'[b][z] = call[b][z]
  <2>1. TypeOK /\ c \in {"off", "probing", "sent"} \cup Outcomes
    BY <1>2 DEF Base
  <2>2. /\ call'[job][s] = c
        /\ \A b \in Articles, z \in Surfaces :
              b # job \/ z # s => call'[b][z] = call[b][z]
    BY <1>2, <1>4, <2>1, CallTypes
  <2>. QED  BY <2>2
<1>6. \A k \in 1..Len(Chain) : k # slot => call'[job][Chain[k]] = call[job][Chain[k]]
  BY <1>2, <1>5, Parameters
<1>7. Turns'
  BY <1>1, <1>2, <1>3, <1>5, <1>6 DEF Calls, Turns, OnTheAir
<1>8. Unpublished'
  BY <1>1, <1>2, <1>5 DEF Calls, Unpublished
<1>9. NobodyForgotten'
  BY <1>1, <1>2, <1>3, <1>5 DEF Calls, NobodyForgotten, OnTheAir, Awaited
<1>. QED  BY <1>7, <1>8, <1>9, NextBase DEF Calls, Next

\* A call comes back, awaited or not.
LEMMA ComesBack ==
    ASSUME Calls, NEW a \in Articles, NEW s \in Surfaces, OnTheAir(a, s),
           NEW c \in {"sent"} \cup Outcomes, Becomes(a, s, c),
           IF c = "sent" THEN UNCHANGED <<slot, deadline>> ELSE Resolve(a, s),
           UNCHANGED <<publishedAt, abandoned, job, now, clock>>
    PROVE  Turns' /\ Unpublished' /\ NobodyForgotten'
<1>1. /\ call'[a][s] = c /\ c # "none"
      /\ \A b \in Articles, z \in Surfaces :
            b # a \/ z # s => call'[b][z] = call[b][z]
  <2>1. TypeOK /\ c \in {"off", "probing", "sent"} \cup Outcomes /\ c # "none"
    BY DEF Calls, Base, Outcomes
  <2>. QED  BY <2>1, CallTypes
<1>2. Unpublished'
  BY <1>1 DEF Calls, Unpublished, OnTheAir
<1>3. CASE Awaited(a, s) /\ c # "sent"
  <2>1. /\ job = a /\ deadline # Never /\ Chain[slot] = s
        /\ slot' = slot + 1 /\ deadline' = Never
    BY <1>3 DEF Awaited, Resolve, NextSlot
  <2>2. job \in Articles /\ slot \in 1..Len(Chain) /\ job # NoArticle
    BY <2>1, ChannelsAssumption DEF ChannelsAssumption, Calls, Base, Position
  <2>3. \A k \in 1..Len(Chain) : k # slot => call'[job][Chain[k]] = call[job][Chain[k]]
    BY <1>1, <2>1, <2>2, Parameters
  <2>4. Turns'
    BY <1>1, <2>1, <2>2, <2>3 DEF Calls, Turns
  <2>5. NobodyForgotten'
    BY <1>1, <1>3, <2>1 DEF Calls, NobodyForgotten, OnTheAir, Awaited, Outcomes
  <2>. QED  BY <1>2, <2>4, <2>5
<1>4. CASE ~Awaited(a, s) \/ c = "sent"
  <2>1. UNCHANGED <<slot, deadline>>
    BY <1>4 DEF Resolve
  <2>2. NobodyForgotten'
    BY <1>1, <2>1 DEF Calls, NobodyForgotten, OnTheAir, Awaited
  <2>3. ASSUME job # NoArticle
        PROVE  /\ \A k \in 1..Len(Chain) :
                     /\ k < slot => call'[job][Chain[k]] # "none"
                     /\ k > slot => call'[job][Chain[k]] = "none"
               /\ slot \in 1..Len(Chain) =>
                     IF deadline = Never THEN call'[job][Chain[slot]] = "none"
                     ELSE call'[job][Chain[slot]] \in {"probing", "sent"}
    <3>1. job \in Articles
      BY <2>3 DEF Calls, Base, TypeOK
    <3>2. CASE a # job
      BY <1>1, <2>3, <3>1, <3>2, Parameters DEF Calls, Turns, OnTheAir
    <3>3. CASE a = job
      <4>1. PICK j \in 1..Len(Chain) : Chain[j] = s
        BY Parameters
      <4>2. \A k \in 1..Len(Chain) :
               k # j => call'[job][Chain[k]] = call[job][Chain[k]]
        BY <1>1, <3>1, <4>1, Parameters
      <4>3. call[job][Chain[j]] # "none" /\ call'[job][Chain[j]] = c
        BY <1>1, <3>3, <4>1 DEF OnTheAir
      <4>4. j <= slot /\ slot \in Int
        BY <2>3, <4>1, <4>3, Parameters DEF Calls, Turns, Base, TypeOK
      <4>5. j = slot => deadline # Never /\ c = "sent"
        BY <1>4, <2>3, <3>3, <4>1, <4>3 DEF Calls, Turns, Awaited
      <4>. QED
        BY <1>1, <2>3, <4>1, <4>2, <4>3, <4>4, <4>5 DEF Calls, Turns, OnTheAir
    <3>. QED  BY <3>2, <3>3
  <2>4. Turns'
    BY <2>1, <2>3 DEF Turns, OnTheAir
  <2>. QED  BY <1>2, <2>2, <2>4
<1>. QED  BY <1>3, <1>4

LEMMA TimeOutCalls == Calls /\ TimeOut => Calls'
<1>. SUFFICES ASSUME Calls, TimeOut PROVE Calls'
  OBVIOUS
<1>1. /\ job # NoArticle /\ deadline # Never
      /\ abandoned' = abandoned \cup {<<job, Chain[slot]>>}
      /\ slot' = slot + 1 /\ deadline' = Never
      /\ UNCHANGED <<publishedAt, call, job, now, clock>>
  BY DEF TimeOut, NextSlot
<1>2. slot \in 1..Len(Chain)
  BY <1>1 DEF Calls, Base, Position
<1>3. Turns'
  BY <1>1, <1>2, Parameters DEF Calls, Turns, OnTheAir
<1>4. Unpublished'
  BY <1>1 DEF Calls, Unpublished
<1>5. NobodyForgotten'
  BY <1>1 DEF Calls, NobodyForgotten, OnTheAir, Awaited
<1>. QED  BY <1>3, <1>4, <1>5, NextBase DEF Calls, Next

LEMMA OtherCalls ==
    ASSUME Calls,
           (\E a \in Articles : Publish(a)) \/ Leave \/ Die \/ Tick \/ UNCHANGED vars
    PROVE  Turns' /\ Unpublished' /\ NobodyForgotten'
<1>1. ASSUME NEW a \in Articles, Publish(a)
      PROVE  Turns' /\ Unpublished' /\ NobodyForgotten'
  <2>1. /\ job = NoArticle /\ publishedAt[a] = Never
        /\ publishedAt' = [publishedAt EXCEPT ![a] = clock]
        /\ job' = a /\ slot' = 1 /\ UNCHANGED <<call, abandoned, deadline>>
    BY <1>1 DEF Publish
  <2>2. deadline = Never
    BY <2>1 DEF Calls, Base, Position
  <2>3. \A s \in Surfaces : call[a][s] = "none"
    BY <2>1 DEF Calls, Unpublished
  <2>4. Turns'
    BY <2>1, <2>2, <2>3, Parameters DEF Turns
  <2>5. Unpublished'
    BY <2>1, <2>3 DEF Calls, Base, TypeOK, Unpublished
  <2>6. NobodyForgotten'
    BY <2>1, <2>2 DEF Calls, NobodyForgotten, OnTheAir, Awaited
  <2>. QED  BY <2>4, <2>5, <2>6
<1>2. CASE Leave
  <2>1. /\ slot = Len(Chain) + 1 /\ job' = NoArticle
        /\ UNCHANGED <<publishedAt, call, abandoned, deadline>>
    BY <1>2 DEF Leave
  <2>2. deadline = Never
    <3>1. ~(slot \in 1..Len(Chain))
      BY <2>1, Parameters
    <3>. QED  BY <3>1 DEF Calls, Base, Position
  <2>. QED
    BY <2>1, <2>2
       DEF Calls, Turns, Unpublished, NobodyForgotten, OnTheAir, Awaited
<1>3. CASE Die
  <2>1. /\ job' = NoArticle /\ UNCHANGED <<publishedAt, abandoned>>
        /\ \A a \in Articles, s \in Surfaces :
              call'[a][s] = IF OnTheAir(a, s) THEN "lost" ELSE call[a][s]
    BY <1>3 DEF Die, OnTheAir
  <2>. QED
    BY <2>1 DEF Calls, Turns, Unpublished, NobodyForgotten, OnTheAir
<1>4. CASE Tick \/ UNCHANGED vars
  <2>1. UNCHANGED <<publishedAt, call, abandoned, job, slot, deadline>>
    BY <1>4 DEF Tick, vars
  <2>. QED
    BY <2>1 DEF Calls, Turns, Unpublished, NobodyForgotten, OnTheAir, Awaited
<1>. QED  BY <1>1, <1>2, <1>3, <1>4

\* Probed and Answer are returns of a call that is on the air.
LEMMA Returns ==
    ASSUME NEW a \in Articles, NEW s \in Surfaces, Probed(a, s) \/ Answer(a, s)
    PROVE  /\ OnTheAir(a, s) /\ UNCHANGED <<publishedAt, abandoned, job, now, clock>>
           /\ \E c \in {"sent"} \cup Outcomes :
                 /\ Becomes(a, s, c)
                 /\ IF c = "sent" THEN UNCHANGED <<slot, deadline>>
                    ELSE Resolve(a, s)
<1>1. CASE Probed(a, s)
  BY <1>1 DEF Probed, Send, OnTheAir, Outcomes, Becomes
<1>2. CASE Answer(a, s)
  BY <1>2 DEF Answer, OnTheAir, Outcomes, Becomes
<1>. QED  BY <1>1, <1>2

LEMMA NextCalls == Calls /\ [Next]_vars => Calls'
<1>. SUFFICES ASSUME Calls, [Next]_vars PROVE Calls'
  OBVIOUS
<1>1. Base'
  BY NextBase DEF Calls
<1>2. ASSUME NEW a \in Articles, NEW s \in Surfaces, Probed(a, s) \/ Answer(a, s)
      PROVE  Turns' /\ Unpublished' /\ NobodyForgotten'
  BY <1>2, Returns, ComesBack
<1>. QED
  BY <1>1, <1>2, DeclineCalls, CallCalls, TimeOutCalls, OtherCalls DEF Calls, Next

THEOREM CallsInvariance == Spec => []Calls
BY InitCalls, NextCalls, PTL DEF Spec

\* However the channels before it stalled, and whatever late calls did, a cycle
\* leaves its chain alive only after every surface had its turn.
THEOREM NoneIsSkipped == Spec => EveryChannelIsReached
<1>1. ASSUME Calls, [Next]_vars, slot = Len(Chain) + 1, slot' = 0
      PROVE  \A s \in Surfaces : call[job][s] # "none"
  <2>1. job # NoArticle
    BY <1>1, Parameters DEF Calls, Base, Position
  <2>. QED  BY <1>1, <2>1, Parameters DEF Calls, Turns
<1>. QED  BY <1>1, CallsInvariance, PTL DEF Spec, EveryChannelIsReached

-----------------------------------------------------------------------------
(* What the columns say.                                                   *)

Says(a, s) ==
    /\ call[a][s] \in Outcomes =>
          \/ row[a][ColumnOf[s]] = call[a][s]
          \/ \E z \in Silent : ColumnOf[z] = ColumnOf[s] /\ <<a, z>> \in abandoned
    /\ row[a][ColumnOf[s]] = "pending" => call[a][s] \in {"sent", "lost"}

LEMMA TheRowSays ==
    TheRowSaysWhatHappened <=> \A a \in Articles, s \in Surfaces \ Silent : Says(a, s)
BY DEF TheRowSaysWhatHappened, Says

\* What a surface may write of itself: a silent one nothing; another its outcome
\* with its call's, or that it is pending with the request; before it was called
\* and when it sends, nothing at all is true too.
OwnWord(a, s, c) ==
    \/ s \in Silent /\ UNCHANGED row
    \/ s \notin Silent /\ c \in Outcomes /\ Mark(a, s, c)
    \/ s \notin Silent /\ c = "sent" /\ Mark(a, s, "pending")
    \/ c \notin Outcomes /\ (call[a][s] = "none" \/ c = "sent") /\ UNCHANGED row

LEMMA OwnWordKeeps ==
    ASSUME Calls, TheRowSaysWhatHappened,
           NEW b \in Articles, NEW z \in Surfaces,
           NEW c \in {"off", "probing", "sent"} \cup Outcomes,
           Becomes(b, z, c), OwnWord(b, z, c), UNCHANGED abandoned
    PROVE  TheRowSaysWhatHappened'
<1>. SUFFICES ASSUME NEW a \in Articles, NEW s \in Surfaces \ Silent PROVE Says(a, s)'
  BY DEF TheRowSaysWhatHappened, Says
<1>1. Says(a, s) /\ TypeOK
  BY TheRowSays DEF Calls, Base
<1>2. /\ call'[b][z] = c
      /\ a # b \/ s # z => call'[a][s] = call[a][s]
  <2>1. /\ call'[b][z] = c
        /\ \A d \in Articles, e \in Surfaces :
              d # b \/ e # z => call'[d][e] = call[d][e]
    BY <1>1, CallTypes
  <2>. QED  BY <2>1
<1>3. CASE a # b \/ s # z
  <2>1. row'[a][ColumnOf[s]] = row[a][ColumnOf[s]]
    <3>1. CASE UNCHANGED row
      BY <3>1
    <3>2. ASSUME z \notin Silent, NEW status \in {"pending"} \cup Outcomes,
                 Mark(b, z, status)
          PROVE  row'[a][ColumnOf[s]] = row[a][ColumnOf[s]]
      <4>1. ColumnOf[s] \in Columns /\ (s # z => ColumnOf[s] # ColumnOf[z])
        BY <3>2, Parameters, ChannelsAssumption DEF ChannelsAssumption
      <4>. QED  BY <1>1, <1>3, <3>2, <4>1, MarkTypes
    <3>. QED  BY <3>1, <3>2 DEF OwnWord
  <2>. QED  BY <1>1, <1>2, <1>3, <2>1 DEF Says
<1>4. CASE a = b /\ s = z
  <2>1. CASE c \in Outcomes /\ Mark(a, s, c)
    <3>1. row'[a][ColumnOf[s]] = c
      BY <1>1, <2>1, MarkTypes
    <3>. QED  BY <1>2, <1>4, <2>1, <3>1 DEF Says, Outcomes
  <2>2. CASE c = "sent"
    BY <1>2, <1>4, <2>2 DEF Says, Outcomes
  <2>3. CASE c \notin Outcomes /\ call[a][s] = "none" /\ UNCHANGED row
    BY <1>1, <1>2, <1>4, <2>3 DEF Says
  <2>. QED  BY <1>4, <2>1, <2>2, <2>3 DEF OwnWord
<1>. QED  BY <1>3, <1>4

\* The timer's catch writes over the column, its own or the feed's.
LEMMA TimeOutSays == Calls /\ TheRowSaysWhatHappened /\ TimeOut => TheRowSaysWhatHappened'
<1>. SUFFICES ASSUME Calls, TheRowSaysWhatHappened, TimeOut,
                     NEW a \in Articles, NEW s \in Surfaces \ Silent
              PROVE  Says(a, s)'
  BY DEF TheRowSaysWhatHappened, Says
<1>. DEFINE z == Chain[slot]
<1>1. /\ job # NoArticle /\ deadline # Never
      /\ Mark(job, z, "failed") /\ UNCHANGED call
      /\ abandoned' = abandoned \cup {<<job, z>>}
  BY DEF TimeOut
<1>2. /\ slot \in 1..Len(Chain) /\ z \in Surfaces /\ job \in Articles
      /\ OnTheAir(job, z) /\ TypeOK
  BY <1>1, Parameters DEF Calls, Base, TypeOK, Position, Turns
<1>3. /\ row'[job][ColumnOf[z]] = "failed"
      /\ \A b \in Articles, c \in Columns :
            b # job \/ c # ColumnOf[z] => row'[b][c] = row[b][c]
  BY <1>1, <1>2, MarkTypes DEF Outcomes
<1>4. Says(a, s) /\ ColumnOf[s] \in Columns
  BY TheRowSays, Parameters
<1>5. CASE a # job \/ ColumnOf[s] # ColumnOf[z]
  BY <1>1, <1>3, <1>4, <1>5 DEF Says
<1>6. CASE a = job /\ s = z
  BY <1>1, <1>2, <1>3, <1>6 DEF Says, OnTheAir, Outcomes
<1>7. CASE a = job /\ s # z /\ ColumnOf[s] = ColumnOf[z]
  <2>1. z \in Silent
    BY <1>2, <1>7, ChannelsAssumption DEF ChannelsAssumption
  <2>. QED  BY <1>1, <1>3, <1>7, <2>1 DEF Says
<1>. QED  BY <1>5, <1>6, <1>7

\* A measurement is awaited of those alone that measure.
OnlyTheseMeasure ==
    \A a \in Articles, s \in Surfaces : call[a][s] = "probing" => s \in Probing

LEMMA NextMeasure == Calls /\ OnlyTheseMeasure /\ [Next]_vars => OnlyTheseMeasure'
<1>. SUFFICES ASSUME Calls, OnlyTheseMeasure, [Next]_vars PROVE OnlyTheseMeasure'
  OBVIOUS
<1>1. ASSUME NEW b \in Articles, NEW z \in Surfaces,
             NEW c \in {"off", "probing", "sent"} \cup Outcomes, Becomes(b, z, c),
             c = "probing" => z \in Probing
      PROVE  OnlyTheseMeasure'
  <2>1. /\ call'[b][z] = c
        /\ \A d \in Articles, e \in Surfaces :
              d # b \/ e # z => call'[d][e] = call[d][e]
    BY <1>1, CallTypes DEF Calls, Base
  <2>. QED  BY <1>1, <2>1 DEF OnlyTheseMeasure
<1>2. ASSUME Decline \/ Call PROVE OnlyTheseMeasure'
  <2>1. job \in Articles /\ Chain[slot] \in Surfaces
    BY <1>2, AtSurface DEF Decline, Call, Starting, Calls
  <2>2. \E c \in {"off", "probing", "sent"} \cup Outcomes :
           Becomes(job, Chain[slot], c) /\ (c = "probing" => Chain[slot] \in Probing)
    BY <1>2 DEF Decline, Call, Send, Becomes, Outcomes
  <2>. QED  BY <1>1, <2>1, <2>2
<1>3. ASSUME NEW a \in Articles, NEW s \in Surfaces, Probed(a, s) \/ Answer(a, s)
      PROVE  OnlyTheseMeasure'
  BY <1>1, <1>3, Returns DEF Outcomes
<1>4. CASE Die
  BY <1>4 DEF Die, OnlyTheseMeasure
<1>5. CASE (\E a \in Articles : Publish(a)) \/ TimeOut \/ Leave \/ Tick \/ UNCHANGED vars
  BY <1>5 DEF Publish, TimeOut, Leave, Tick, vars, OnlyTheseMeasure
<1>. QED  BY <1>2, <1>3, <1>4, <1>5 DEF Next

LEMMA NextSays ==
    Calls /\ OnlyTheseMeasure /\ TheRowSaysWhatHappened /\ [Next]_vars
        => TheRowSaysWhatHappened'
<1>. SUFFICES ASSUME Calls, OnlyTheseMeasure, TheRowSaysWhatHappened, [Next]_vars
              PROVE  TheRowSaysWhatHappened'
  OBVIOUS
<1>1. ASSUME Decline \/ Call PROVE TheRowSaysWhatHappened'
  <2>. DEFINE s == Chain[slot]
  <2>1. /\ job \in Articles /\ s \in Surfaces /\ call[job][s] = "none"
        /\ UNCHANGED abandoned
    BY <1>1, AtSurface DEF Decline, Call, Starting, Calls, Turns
  <2>2. \E c \in {"off", "skipped", "probing", "sent"} :
           Becomes(job, s, c) /\ OwnWord(job, s, c)
    <3>1. ByUrl \cap Silent = {}
      BY ChannelsAssumption DEF ChannelsAssumption
    <3>2. CASE Decline
      BY <2>1, <3>2 DEF Decline, Becomes, OwnWord, Outcomes
    <3>3. CASE Call
      BY <2>1, <3>1, <3>3 DEF Call, Send, Becomes, OwnWord, Outcomes
    <3>. QED  BY <1>1, <3>2, <3>3
  <2>. QED  BY <2>1, <2>2, OwnWordKeeps DEF Outcomes
<1>2. ASSUME NEW a \in Articles, NEW s \in Surfaces, Probed(a, s) \/ Answer(a, s)
      PROVE  TheRowSaysWhatHappened'
  <2>1. \E c \in {"sent"} \cup Outcomes : Becomes(a, s, c) /\ OwnWord(a, s, c)
    <3>1. ByUrl \cap Silent = {} /\ Probing \cap Silent = {}
      BY ChannelsAssumption DEF ChannelsAssumption
    <3>2. CASE Probed(a, s)
      <4>1. CASE Send(a, s)
        BY <3>1, <4>1 DEF Send, Becomes, OwnWord, Outcomes
      <4>2. CASE call' = [call EXCEPT ![a][s] = "skipped"] /\ Mark(a, s, "skipped")
        <5>1. s \notin Silent
          BY <3>1, <3>2 DEF Probed, OnlyTheseMeasure
        <5>. QED  BY <4>2, <5>1 DEF Becomes, OwnWord, Outcomes
      <4>. QED  BY <3>2, <4>1, <4>2 DEF Probed
    <3>3. CASE Answer(a, s)
      BY <3>3 DEF Answer, MarkItself, Becomes, OwnWord, Outcomes
    <3>. QED  BY <1>2, <3>2, <3>3
  <2>2. UNCHANGED abandoned
    BY <1>2, Returns
  <2>. QED  BY <2>1, <2>2, OwnWordKeeps
<1>3. CASE Die
  <2>1. /\ UNCHANGED <<row, abandoned>>
        /\ \A a \in Articles, s \in Surfaces :
              call'[a][s] = IF OnTheAir(a, s) THEN "lost" ELSE call[a][s]
    BY <1>3 DEF Die, OnTheAir
  <2>. QED
    BY <2>1 DEF TheRowSaysWhatHappened, OnTheAir, Outcomes
<1>4. CASE (\E a \in Articles : Publish(a)) \/ Leave \/ Tick \/ UNCHANGED vars
  <2>1. UNCHANGED <<row, call, abandoned>>
    BY <1>4 DEF Publish, Leave, Tick, vars
  <2>. QED  BY <2>1 DEF TheRowSaysWhatHappened
<1>. QED  BY <1>1, <1>2, <1>3, <1>4, TimeOutSays DEF Next

\* Whatever is abandoned and comes back late, the row of a surface that records
\* itself ends up saying what its call came to.
THEOREM TheRowIsTrue == Spec => []TheRowSaysWhatHappened
<1>1. Init => OnlyTheseMeasure /\ TheRowSaysWhatHappened
  BY Parameters
     DEF Init, OnlyTheseMeasure, TheRowSaysWhatHappened, Outcomes
<1>. QED  BY <1>1, NextMeasure, NextSays, CallsInvariance, PTL DEF Spec

-----------------------------------------------------------------------------
(* The caps.                                                               *)

Lone(s) == \A z \in Surfaces \ {s} : ColumnOf[z] # ColumnOf[s]

OnTime(s) == {a \in Articles : call[a][s] = "posted" /\ <<a, s>> \notin abandoned}

InTime(s, t) == {a \in OnTime(s) : publishedAt[a] > t}

InWindow(s, t) == {a \in OnTime(s) : publishedAt[a] \in t..(t + Day - 1)}

\* While a call is awaited, its day has room for it: the gate saw rows, and what
\* was posted in time has one; what is posted meanwhile was given up before.
DayHasRoom ==
    \A s \in Surfaces : Lone(s) /\ deadline # Never /\ Chain[slot] = s =>
        Cardinality(InTime(s, now - Day)) < MaxPerDay

Truths == Calls /\ OnlyTheseMeasure /\ TheRowSaysWhatHappened

LEMMA FiniteDays ==
    ASSUME NEW s, NEW t, NEW c
    PROVE  /\ IsFiniteSet(InTime(s, t)) /\ IsFiniteSet(InWindow(s, t))
           /\ IsFiniteSet(PostedSince(c, t))
<1>1. /\ InTime(s, t) \in SUBSET Articles /\ InWindow(s, t) \in SUBSET Articles
      /\ PostedSince(c, t) \in SUBSET Articles
  BY DEF InTime, InWindow, OnTime, PostedSince
<1>. QED  BY <1>1, ChannelsAssumption, FS_Subset DEF ChannelsAssumption

\* What a step adds to the posts that were in time: the call that was awaited.
Grows(s) ==
    /\ \A a \in OnTime(s)' : publishedAt'[a] = publishedAt[a]
    /\ \/ OnTime(s)' \subseteq OnTime(s)
       \/ \E a \in Articles : /\ Awaited(a, s) /\ deadline' = Never
                              /\ OnTime(s)' \subseteq OnTime(s) \cup {a}

LEMMA InTimeGrows ==
    ASSUME Calls, [Next]_vars, NEW s \in Surfaces
    PROVE  Grows(s)
<1>1. ASSUME NEW b \in Articles, NEW z \in Surfaces,
             NEW c \in {"off", "probing", "sent"} \cup Outcomes, Becomes(b, z, c),
             UNCHANGED <<publishedAt, abandoned>>,
             c = "posted" => \/ <<b, z>> \in abandoned
                             \/ Awaited(b, z) /\ deadline' = Never
      PROVE  Grows(s)
  <2>1. /\ call'[b][z] = c
        /\ \A d \in Articles, e \in Surfaces :
              d # b \/ e # z => call'[d][e] = call[d][e]
    BY <1>1, CallTypes DEF Calls, Base
  <2>2. CASE z = s /\ c = "posted" /\ <<b, z>> \notin abandoned
    <3>1. OnTime(s)' \subseteq OnTime(s) \cup {b}
      BY <1>1, <2>1 DEF OnTime
    <3>. QED  BY <1>1, <2>2, <3>1 DEF Grows
  <2>3. CASE ~(z = s /\ c = "posted" /\ <<b, z>> \notin abandoned)
    <3>1. OnTime(s)' \subseteq OnTime(s)
      BY <1>1, <2>1, <2>3 DEF OnTime
    <3>. QED  BY <1>1, <3>1 DEF Grows
  <2>. QED  BY <2>2, <2>3
<1>2. ASSUME Decline \/ Call
      PROVE  Grows(s)
  <2>1. job \in Articles /\ Chain[slot] \in Surfaces
        /\ UNCHANGED <<publishedAt, abandoned>>
    BY <1>2, AtSurface DEF Decline, Call, Starting, Calls
  <2>2. PICK c \in {"off", "probing", "sent", "skipped"} : Becomes(job, Chain[slot], c)
    BY <1>2 DEF Decline, Call, Send, Becomes
  <2>3. c \in {"off", "probing", "sent"} \cup Outcomes /\ c # "posted"
    BY DEF Outcomes
  <2>4. /\ call'[job][Chain[slot]] = c
        /\ \A d \in Articles, e \in Surfaces :
              d # job \/ e # Chain[slot] => call'[d][e] = call[d][e]
    BY <2>1, <2>2, <2>3, CallTypes DEF Calls, Base
  <2>. QED  BY <2>1, <2>3, <2>4 DEF OnTime, Grows
<1>3. ASSUME NEW a \in Articles, NEW z \in Surfaces, Probed(a, z) \/ Answer(a, z)
      PROVE  Grows(s)
  <2>1. PICK c \in {"sent"} \cup Outcomes :
           /\ Becomes(a, z, c)
           /\ IF c = "sent" THEN UNCHANGED <<slot, deadline>> ELSE Resolve(a, z)
    BY <1>3, Returns
  <2>2. OnTheAir(a, z) /\ UNCHANGED <<publishedAt, abandoned>>
    BY <1>3, Returns
  <2>3. <<a, z>> \in abandoned \/ Awaited(a, z)
    BY <2>2 DEF Calls, NobodyForgotten
  <2>4. c = "posted" => \/ <<a, z>> \in abandoned
                        \/ Awaited(a, z) /\ deadline' = Never
    <3>1. CASE c = "posted" /\ Awaited(a, z)
      <4>1. Resolve(a, z)
        BY <2>1, <3>1
      <4>. QED  BY <3>1, <4>1 DEF Resolve, NextSlot
    <3>. QED  BY <2>3, <3>1
  <2>5. c \in {"off", "probing", "sent"} \cup Outcomes /\ Becomes(a, z, c)
    BY <2>1
  <2>. QED  BY <1>1, <2>2, <2>4, <2>5
<1>4. CASE Die \/ TimeOut \/ Leave \/ Tick \/ UNCHANGED vars
  <2>1. /\ publishedAt' = publishedAt /\ abandoned \subseteq abandoned'
        /\ \A a \in Articles : call'[a][s] = "posted" => call[a][s] = "posted"
    BY <1>4 DEF Die, TimeOut, Leave, Tick, vars
  <2>. QED  BY <2>1 DEF OnTime, Grows
<1>5. ASSUME NEW b \in Articles, Publish(b)
      PROVE  Grows(s)
  <2>1. /\ publishedAt[b] = Never /\ UNCHANGED <<call, abandoned>>
        /\ \A a \in Articles : a # b => publishedAt'[a] = publishedAt[a]
    BY <1>5 DEF Publish, Calls, Base, TypeOK
  <2>2. call[b][s] = "none"
    BY <2>1 DEF Calls, Unpublished
  <2>. QED  BY <2>1, <2>2 DEF OnTime, Grows
<1>. QED  BY <1>2, <1>3, <1>4, <1>5 DEF Next

\* A surface with a column of its own: what it posted in time has a row.
LEMMA PostsHaveRows ==
    ASSUME Truths, NEW s \in Surfaces, Lone(s), NEW t
    PROVE  InTime(s, t) \subseteq PostedSince(ColumnOf[s], t)
<1>1. s \notin Silent /\ \A z \in Silent : ColumnOf[z] # ColumnOf[s]
  BY ChannelsAssumption DEF ChannelsAssumption, Lone
<1>. QED
  BY <1>1
     DEF Truths, TheRowSaysWhatHappened, InTime, OnTime, PostedSince, Outcomes

LEMMA NextDayHasRoom == Truths /\ DayHasRoom /\ [Next]_vars => DayHasRoom'
<1>. SUFFICES ASSUME Truths, DayHasRoom, [Next]_vars, NEW s \in Surfaces,
                     Lone(s), deadline' # Never, Chain[slot'] = s
              PROVE  Cardinality(InTime(s, now - Day)') < MaxPerDay
  BY DEF DayHasRoom, Lone
<1>0. Calls /\ Base
  BY DEF Truths, Calls
<1>1. CASE Call
  <2>1. Chain[slot] = s /\ CapAllows(ColumnOf[s]) /\ now' = now /\ deadline = Never
    BY <1>1 DEF Call, Starting
  <2>2. InTime(s, now - Day)' \subseteq InTime(s, now - Day)
    BY <1>0, <2>1, InTimeGrows DEF Grows, InTime, Awaited
  <2>3. InTime(s, now - Day)' \subseteq PostedSince(ColumnOf[s], now - Day)
    BY <2>2, PostsHaveRows
  <2>. QED
    BY <2>1, <2>3, FiniteDays, FS_Subset, FS_CardinalityType, Parameters
       DEF CapAllows
<1>2. CASE ~Call
  <2>1. deadline # Never /\ UNCHANGED <<deadline, slot, now>>
    <3>1. ASSUME NEW a \in Articles, Publish(a) PROVE FALSE
      BY <1>0, <3>1 DEF Publish, Base, Position
    <3>2. ASSUME NEW a \in Articles, NEW z \in Surfaces, Probed(a, z) \/ Answer(a, z)
          PROVE  UNCHANGED <<deadline, slot, now>>
      BY <3>2 DEF Probed, Answer, Resolve, NextSlot
    <3>3. ~Decline /\ ~TimeOut /\ ~Die
      BY DEF Decline, TimeOut, Die, NextSlot
    <3>4. ~Leave
      <4>1. Leave => slot = Len(Chain) + 1 /\ deadline' = deadline
        BY DEF Leave
      <4>2. deadline # Never => slot # Len(Chain) + 1
        BY <1>0, Parameters DEF Base, Position
      <4>. QED  BY <4>1, <4>2
    <3>5. Tick \/ UNCHANGED vars => UNCHANGED <<deadline, slot, now>>
      BY DEF Tick, vars
    <3>. QED  BY <1>2, <3>1, <3>2, <3>3, <3>4, <3>5 DEF Next
  <2>2. InTime(s, now - Day)' \subseteq InTime(s, now - Day)
    BY <1>0, <2>1, InTimeGrows DEF Grows, InTime
  <2>3. Cardinality(InTime(s, now - Day)) < MaxPerDay
    BY <2>1 DEF DayHasRoom
  <2>. QED
    BY <2>2, <2>3, FiniteDays, FS_Subset, FS_CardinalityType, Parameters
<1>. QED  BY <1>1, <1>2

CapsAre ==
    \A s \in Surfaces : Lone(s) =>
        \A t \in Time : Cardinality(InWindow(s, t)) <= MaxPerDay

LEMMA NextCaps == Truths /\ DayHasRoom /\ CapsAre /\ [Next]_vars => CapsAre'
<1>. SUFFICES ASSUME Truths, DayHasRoom, CapsAre, [Next]_vars,
                     NEW s \in Surfaces, Lone(s), NEW t \in Time
              PROVE  Cardinality(InWindow(s, t)') <= MaxPerDay
  BY DEF CapsAre, Lone, Time
<1>0. /\ Calls /\ Base /\ Cardinality(InWindow(s, t)) <= MaxPerDay
      /\ IsFiniteSet(InWindow(s, t)) /\ Cardinality(InWindow(s, t)) \in Nat
  BY FiniteDays, FS_CardinalityType DEF Truths, Calls, CapsAre
<1>1. CASE InWindow(s, t)' \subseteq InWindow(s, t)
  BY <1>0, <1>1, FS_Subset, FS_CardinalityType, Parameters
<1>2. ASSUME NEW a \in Articles, Awaited(a, s),
             OnTime(s)' \subseteq OnTime(s) \cup {a},
             ~(InWindow(s, t)' \subseteq InWindow(s, t))
      PROVE  Cardinality(InWindow(s, t)') <= MaxPerDay
  <2>1. /\ InWindow(s, t)' \subseteq InWindow(s, t) \cup {a}
        /\ publishedAt[a] \in t..(t + Day - 1)
    BY <1>0, <1>2, InTimeGrows DEF Grows, InWindow
  <2>2. now <= publishedAt[a] /\ now \in Nat /\ t \in Nat /\ Day \in Nat
        /\ publishedAt[a] \in Int
    <3>1. job = a /\ job # NoArticle
      BY <1>2, ChannelsAssumption DEF ChannelsAssumption, Awaited
    <3>2. now <= publishedAt[a] /\ t \in Nat
      BY <1>0, <3>1, Parameters DEF Base, Position, Time
    <3>. QED  BY <1>0, <3>2, AllPublished, Parameters
  <2>3. InWindow(s, t) \subseteq InTime(s, now - Day)
    <3>. SUFFICES ASSUME NEW b \in InWindow(s, t) PROVE b \in InTime(s, now - Day)
      OBVIOUS
    <3>1. b \in OnTime(s) /\ publishedAt[b] \in Int /\ publishedAt[b] >= t
      BY <2>2 DEF InWindow
    <3>. QED  BY <2>1, <2>2, <3>1 DEF InTime
  <2>4. Cardinality(InTime(s, now - Day)) < MaxPerDay
    BY <1>2 DEF DayHasRoom, Awaited
  <2>5. Cardinality(InWindow(s, t)) < MaxPerDay
    <3>1. IsFiniteSet(InTime(s, now - Day))
      BY FiniteDays
    <3>2. /\ Cardinality(InWindow(s, t)) <= Cardinality(InTime(s, now - Day))
          /\ Cardinality(InTime(s, now - Day)) \in Nat
      BY <2>3, <3>1, FS_Subset, FS_CardinalityType
    <3>. QED  BY <1>0, <2>4, <3>2, Parameters
  <2>6. /\ IsFiniteSet(InWindow(s, t) \cup {a})
        /\ Cardinality(InWindow(s, t) \cup {a}) <= Cardinality(InWindow(s, t)) + 1
        /\ Cardinality(InWindow(s, t) \cup {a}) \in Nat
    <3>1. /\ IsFiniteSet(InWindow(s, t) \cup {a})
          /\ \/ Cardinality(InWindow(s, t) \cup {a}) = Cardinality(InWindow(s, t))
             \/ Cardinality(InWindow(s, t) \cup {a}) = Cardinality(InWindow(s, t)) + 1
      BY <1>0, FS_AddElement
    <3>. QED  BY <1>0, <3>1
  <2>7. /\ Cardinality(InWindow(s, t)') <= Cardinality(InWindow(s, t) \cup {a})
        /\ Cardinality(InWindow(s, t)') \in Nat
    BY <2>1, <2>6, FS_Subset, FS_CardinalityType
  <2>. QED  BY <1>0, <2>5, <2>6, <2>7, Parameters
<1>3. CASE OnTime(s)' \subseteq OnTime(s)
  <2>1. InWindow(s, t)' \subseteq InWindow(s, t)
    BY <1>0, <1>3, InTimeGrows DEF Grows, InWindow
  <2>. QED  BY <1>1, <2>1
<1>. QED  BY <1>0, <1>1, <1>2, <1>3, InTimeGrows DEF Grows

\* A channel's rolling cap holds for what it answered in time, wherever the late
\* answers of calls it gave up fall.
THEOREM TheCapsAreHeld == Spec => []CapHeldInTime
<1>1. Init => Truths /\ DayHasRoom /\ CapsAre
  <2>. SUFFICES ASSUME Init PROVE Truths /\ DayHasRoom /\ CapsAre
    OBVIOUS
  <2>1. Truths
    BY InitCalls, Parameters
       DEF Init, Truths, OnlyTheseMeasure, TheRowSaysWhatHappened, Outcomes
  <2>2. ASSUME NEW s \in Surfaces, NEW t PROVE InWindow(s, t) = {}
    BY DEF Init, InWindow, OnTime
  <2>3. DayHasRoom /\ CapsAre
    <3>1. CapsAre
      <4>1. ASSUME NEW s \in Surfaces, NEW t \in Time
            PROVE  Cardinality(InWindow(s, t)) = 0
        BY <2>2, FS_EmptySet
      <4>. QED  BY <4>1, Parameters DEF CapsAre
    <3>2. DayHasRoom
      BY DEF Init, DayHasRoom
    <3>. QED  BY <3>1, <3>2
  <2>. QED  BY <2>1, <2>3
<1>2. Truths /\ [Next]_vars => Truths'
  BY NextCalls, NextMeasure, NextSays DEF Truths
<1>3. CapsAre => CapHeldInTime
  <2>. SUFFICES ASSUME CapsAre, NEW s \in Surfaces, NEW t \in Time, Lone(s)
                PROVE  Cardinality({a \in Articles :
                           /\ call[a][s] = "posted" /\ <<a, s>> \notin abandoned
                           /\ publishedAt[a] \in t..(t + Day - 1)}) <= MaxPerDay
    BY DEF CapHeldInTime, Lone
  <2>1. InWindow(s, t) = {a \in Articles :
            /\ call[a][s] = "posted" /\ <<a, s>> \notin abandoned
            /\ publishedAt[a] \in t..(t + Day - 1)}
    BY DEF InWindow, OnTime
  <2>. QED  BY <2>1 DEF CapsAre
<1>. QED
  BY <1>1, <1>2, <1>3, NextDayHasRoom, NextCaps, PTL DEF Spec

-----------------------------------------------------------------------------
(* The lock.                                                               *)

\* The timer is set inside the lock, so the clock does not leave it either.
TimersFitTheLock ==
    /\ ChainFitsTheLock
    /\ deadline # Never => deadline <= AtLeast(publishedAt[job], LockEnds)

LEMMA NextFits == Base /\ TimersFitTheLock /\ [Next]_vars => TimersFitTheLock'
<1>. SUFFICES ASSUME Base, TimersFitTheLock, [Next]_vars PROVE TimersFitTheLock'
  OBVIOUS
<1>0. /\ now \in Nat /\ clock \in Nat /\ LockEnds \in Int
      /\ deadline \in Int /\ (job # NoArticle => publishedAt[job] \in Nat)
  BY AllPublished, JobIsOut, Parameters DEF LockEnds, Base, TypeOK, Never
<1>1. CASE Call
  <2>1. /\ job # NoArticle /\ slot \in 1..Len(Chain)
        /\ UNCHANGED <<publishedAt, job, now, clock>>
        /\ deadline' = clock + Budget(slot)
    BY <1>1, AtSurface DEF Call, Starting
  <2>2. clock + Budget(slot) <= AtLeast(clock, LockEnds) /\ Budget(slot) \in Int
    BY <2>1, Budgets
  <2>3. clock <= AtLeast(publishedAt[job], LockEnds) /\ publishedAt[job] \in Nat
    BY <1>0, <2>1 DEF TimersFitTheLock, ChainFitsTheLock
  <2>4. LockEnds' = LockEnds
    BY <2>1 DEF LockEnds
  <2>. QED
    BY <1>0, <2>1, <2>2, <2>3, <2>4 DEF TimersFitTheLock, ChainFitsTheLock, AtLeast
<1>2. ASSUME NEW a \in Articles, Publish(a) PROVE TimersFitTheLock'
  <2>1. /\ job' = a /\ publishedAt'[a] = clock /\ clock' = clock
        /\ deadline' = Never
    BY <1>2 DEF Publish, Base, TypeOK, Position
  <2>2. LockEnds' \in Int
    <3>1. Base'
      BY NextBase
    <3>. QED  BY <3>1, Parameters DEF Base, TypeOK, Time, LockEnds
  <2>. QED
    BY <1>0, <2>1, <2>2 DEF TimersFitTheLock, ChainFitsTheLock, AtLeast
<1>3. CASE Tick
  <2>1. /\ clock' = clock + 1 /\ LockEnds' = LockEnds
        /\ UNCHANGED <<publishedAt, job, deadline>>
        /\ job # NoArticle => deadline # Never /\ clock < deadline
    BY <1>3 DEF Tick, LockEnds
  <2>2. job # NoArticle => /\ clock < deadline
                          /\ deadline <= AtLeast(publishedAt[job], LockEnds)
    BY <2>1 DEF TimersFitTheLock
  <2>. QED
    BY <1>0, <2>1, <2>2 DEF TimersFitTheLock, ChainFitsTheLock, AtLeast
<1>4. CASE Leave \/ Die
  <2>1. job' = NoArticle /\ deadline' = Never
    <3>1. slot = Len(Chain) + 1 => deadline = Never
      BY Parameters DEF Base, Position
    <3>. QED  BY <1>4, <3>1 DEF Leave, Die
  <2>. QED  BY <2>1 DEF TimersFitTheLock, ChainFitsTheLock
<1>5. ASSUME UNCHANGED <<publishedAt, job, now, clock>>,
             deadline' = Never \/ deadline' = deadline
      PROVE  TimersFitTheLock'
  BY <1>5 DEF TimersFitTheLock, ChainFitsTheLock, LockEnds
<1>6. Decline \/ TimeOut \/ UNCHANGED vars => TimersFitTheLock'
  BY <1>5 DEF Decline, TimeOut, NextSlot, vars
<1>7. ASSUME NEW a \in Articles, NEW s \in Surfaces, Probed(a, s) \/ Answer(a, s)
      PROVE  TimersFitTheLock'
  BY <1>5, <1>7 DEF Probed, Answer, Resolve, NextSlot
<1>. QED  BY <1>1, <1>2, <1>3, <1>4, <1>6, <1>7 DEF Next

\* However the channels stall, the chain stays inside the job's lock, or leaves it
\* where the render did.
THEOREM TheChainFitsTheLock == Spec => []ChainFitsTheLock
<1>1. Init => TimersFitTheLock
  BY DEF Init, TimersFitTheLock, ChainFitsTheLock
<1>2. TimersFitTheLock => ChainFitsTheLock
  BY DEF TimersFitTheLock
<1>. QED  BY <1>1, <1>2, NextFits, BaseInvariance, PTL DEF Spec

-----------------------------------------------------------------------------
(* The shares.                                                             *)

\* m of n have x to divide, at least what was theirs of y: each gets at least
\* what each of the n would have had of y.
LEMMA SharesDoNotShrink ==
    ASSUME NEW n \in Nat \ {0}, NEW m \in Nat \ {0}, NEW x \in Int, NEW y \in Int,
           n * x >= m * y
    PROVE  x \div m >= y \div n
<1>. DEFINE r == x \div m
            q == y \div n
<1>1. r \in Int /\ x < m * r + m /\ q \in Int /\ n * q <= y
  BY Division
<1>. HIDE DEF r, q
<1>2. m * (n * q) <= m * y
  BY <1>1
<1>3. n * (m * q) <= n * x
  BY <1>1, <1>2
<1>4. m * q <= x
  BY <1>1, <1>3
<1>5. m * q < m * (r + 1)
  BY <1>1, <1>4
<1>6. q < r + 1
  BY <1>1, <1>5
<1>. QED  BY <1>1, <1>6 DEF r, q

\* One of them takes at most an equal share: the others keep theirs.
LEMMA OthersKeepTheirs ==
    ASSUME NEW n \in Nat \ {0}, NEW m \in Nat \ {0}, NEW x \in Int, NEW y \in Int,
           NEW b \in Int, n * x >= m * y, m * b <= x
    PROVE  n * (x - b) >= (m - 1) * y
<1>1. n * (m * b) <= n * x
  OBVIOUS
<1>2. m * (n * (x - b)) >= (m - 1) * (n * x)
  <2>1. m * (n * (x - b)) = m * (n * x) - n * (m * b)
    OBVIOUS
  <2>2. (m - 1) * (n * x) = m * (n * x) - n * x
    OBVIOUS
  <2>. QED  BY <1>1, <2>1, <2>2
<1>3. (m - 1) * (n * x) >= (m - 1) * (m * y)
  OBVIOUS
<1>4. m * (n * (x - b)) >= m * ((m - 1) * y)
  <2>1. (m - 1) * (m * y) = m * ((m - 1) * y)
    OBVIOUS
  <2>. QED  BY <1>2, <1>3, <2>1
<1>. DEFINE u == n * (x - b)
            v == (m - 1) * y
<1>5. u \in Int /\ v \in Int /\ m * u >= m * v
  BY <1>4
<1>. HIDE DEF u, v
<1>6. u >= v
  BY <1>5
<1>. QED  BY <1>6 DEF u, v

\* Those behind the position have their part of what was left when the chain
\* began: now, or at the latest when the timer fires.
SharesAreKept ==
    job # NoArticle /\ LockEnds >= publishedAt[job] =>
        /\ deadline = Never =>
              Len(Chain) * (LockEnds - clock)
                  >= Behind(slot) * (LockEnds - publishedAt[job])
        /\ deadline # Never =>
              Len(Chain) * (LockEnds - deadline)
                  >= (Behind(slot) - 1) * (LockEnds - publishedAt[job])

\* What a call that starts is given.
LEMMA AFairBudget ==
    ASSUME Base, SharesAreKept, Call
    PROVE  /\ Budget(slot) \in Nat
           /\ Budget(slot)
                >= AtMost(Ceiling, (LockEnds - publishedAt[job]) \div Len(Chain))
           /\ LockEnds >= publishedAt[job] =>
                 Len(Chain) * (LockEnds - (clock + Budget(slot)))
                     >= (Behind(slot) - 1) * (LockEnds - publishedAt[job])
<1>. DEFINE n == Len(Chain)
            m == Behind(slot)
            x == LockEnds - clock
            y == LockEnds - publishedAt[job]
            b == Budget(slot)
<1>1. /\ job # NoArticle /\ slot \in 1..Len(Chain) /\ deadline = Never
      /\ publishedAt[job] \in Nat /\ LockEnds \in Int /\ clock \in Int
  <2>1. /\ job # NoArticle /\ slot \in 1..Len(Chain) /\ deadline = Never
        /\ publishedAt[job] \in Nat
    BY AtSurface, JobIsOut DEF Call, Starting
  <2>. QED  BY <2>1, AllPublished, Parameters DEF LockEnds
<1>2. /\ n \in Nat \ {0} /\ m \in Nat \ {0} /\ x \in Int /\ y \in Int
      /\ b \in Nat /\ Ceiling \in Nat
  <2>1. n \in Nat \ {0} /\ m \in Nat \ {0} /\ Ceiling \in Nat
    BY <1>1, Parameters DEF Behind
  <2>2. b \in 0..Ceiling
    BY <1>1, Budgets
  <2>. QED  BY <1>1, <2>1, <2>2
<1>3. CASE LockEnds >= publishedAt[job]
  <2>1. y >= 0 /\ n * x >= m * y
    BY <1>1, <1>3 DEF SharesAreKept
  <2>. HIDE DEF n, m, x, y, b
  <2>2. x >= 0
    <3>1. m * y >= 0
      BY <1>2, <2>1
    <3>2. n * x >= 0
      BY <1>2, <2>1, <3>1
    <3>3. x < 0 => n * x < 0
      BY <1>2
    <3>. QED  BY <1>2, <3>2, <3>3
  <2>3. b = AtMost(Ceiling, x \div m)
    <3>1. LockEnds >= clock
      BY <1>1, <2>2 DEF x
    <3>. QED  BY <1>1, <3>1, Budgets DEF b, x, m
  <2>4. x \div m >= y \div n
    BY <1>2, <2>1, SharesDoNotShrink
  <2>5. x \div m \in Int /\ y \div n \in Int /\ m * (x \div m) <= x
    BY <1>2, Division
  <2>6. b >= AtMost(Ceiling, y \div n) /\ b <= x \div m
    BY <1>2, <2>3, <2>4, <2>5 DEF AtMost
  <2>7. m * b <= x
    <3>1. \A q \in Int : b <= q => m * b <= m * q
      BY <1>2
    <3>2. m * b <= m * (x \div m)
      BY <2>5, <2>6, <3>1
    <3>. QED  BY <1>2, <2>5, <3>2
  <2>8. n * (x - b) >= (m - 1) * y
    BY <1>2, <2>1, <2>7, OthersKeepTheirs
  <2>9. x - b = LockEnds - (clock + b)
    BY <1>1, <1>2 DEF x
  <2>. QED  BY <1>2, <2>6, <2>8, <2>9 DEF n, m, x, y, b
<1>4. CASE LockEnds < publishedAt[job]
  <2>1. y < 0
    BY <1>1, <1>4
  <2>2. y \div n \in Int /\ y \div n < 0
    BY <1>2, <2>1, Division
  <2>3. AtMost(Ceiling, y \div n) = y \div n
    BY <1>2, <2>2 DEF AtMost
  <2>4. b >= AtMost(Ceiling, y \div n)
    BY <1>2, <2>2, <2>3
  <2>5. ~(LockEnds >= publishedAt[job])
    BY <1>1, <1>4
  <2>. QED  BY <1>2, <2>4, <2>5
<1>. QED  BY <1>1, <1>3, <1>4

LEMMA NextShares == Base /\ SharesAreKept /\ [Next]_vars => SharesAreKept'
<1>. SUFFICES ASSUME Base, SharesAreKept, [Next]_vars PROVE SharesAreKept'
  OBVIOUS
<1>0. /\ clock \in Nat /\ LockEnds \in Int /\ slot \in 0..(Len(Chain) + 1)
      /\ deadline \in Int /\ (job # NoArticle => publishedAt[job] \in Nat)
      /\ Len(Chain) \in Nat
  BY AllPublished, JobIsOut, Parameters DEF LockEnds, Base, TypeOK, Never
<1>1. CASE Call
  <2>1. /\ job # NoArticle /\ slot \in 1..Len(Chain)
        /\ UNCHANGED <<publishedAt, job, slot, now, clock>>
        /\ deadline' = clock + Budget(slot)
    BY <1>1, AtSurface DEF Call, Starting
  <2>2. deadline' # Never /\ LockEnds' = LockEnds /\ Behind(slot)' = Behind(slot)
    BY <1>0, <1>1, <2>1, AFairBudget DEF Never, LockEnds, Behind
  <2>. QED  BY <1>1, <2>1, <2>2, AFairBudget DEF SharesAreKept
<1>2. ASSUME NEW a \in Articles, Publish(a) PROVE SharesAreKept'
  <2>1. /\ job' = a /\ publishedAt'[a] = clock /\ clock' = clock /\ slot' = 1
        /\ deadline' = Never
    BY <1>2 DEF Publish, Base, TypeOK, Position
  <2>2. Behind(slot)' = Len(Chain)
    BY <1>0, <2>1 DEF Behind
  <2>3. LockEnds' \in Int
    <3>1. Base'
      BY NextBase
    <3>. QED  BY <3>1, Parameters DEF Base, TypeOK, Time, LockEnds
  <2>. QED  BY <1>0, <2>1, <2>2, <2>3 DEF SharesAreKept
\* The position moves on, by itself or when a timer or an answer is through.
<1>3. ASSUME job # NoArticle, slot \in 1..Len(Chain), slot' = slot + 1,
             deadline' = Never, UNCHANGED <<publishedAt, job, now, clock>>
      PROVE  SharesAreKept'
  <2>. DEFINE y == LockEnds - publishedAt[job]
  <2>1. LockEnds' = LockEnds /\ Behind(slot)' = Behind(slot) - 1
        /\ Behind(slot) \in Nat \ {0} /\ y \in Int
    BY <1>0, <1>3 DEF LockEnds, Behind
  <2>2. ASSUME y >= 0
        PROVE  Len(Chain) * (LockEnds - clock) >= (Behind(slot) - 1) * y
    <3>0. LockEnds >= publishedAt[job]
      BY <1>0, <1>3, <2>2
    <3>1. CASE deadline = Never
      <4>1. Len(Chain) * (LockEnds - clock) >= Behind(slot) * y
        BY <1>3, <3>0, <3>1 DEF SharesAreKept
      <4>2. Behind(slot) * y >= (Behind(slot) - 1) * y
        BY <2>1, <2>2
      <4>. HIDE DEF y
      <4>. QED  BY <1>0, <2>1, <4>1, <4>2
    <3>2. CASE deadline # Never
      <4>1. Len(Chain) * (LockEnds - deadline) >= (Behind(slot) - 1) * y
        BY <1>3, <3>0, <3>2 DEF SharesAreKept
      <4>2. LockEnds - clock >= LockEnds - deadline
        BY <1>0, <3>2 DEF Base, Position
      <4>. HIDE DEF y
      <4>3. Len(Chain) * (LockEnds - clock) >= Len(Chain) * (LockEnds - deadline)
        BY <1>0, <4>2
      <4>. QED  BY <1>0, <2>1, <4>1, <4>3
    <3>. QED  BY <3>1, <3>2
  <2>3. LockEnds >= publishedAt[job] => y >= 0
    BY <1>0, <1>3
  <2>. QED  BY <1>3, <2>1, <2>2, <2>3 DEF SharesAreKept
<1>4. CASE Decline \/ TimeOut
  <2>1. /\ job # NoArticle /\ slot' = slot + 1 /\ deadline' = Never
        /\ UNCHANGED <<publishedAt, job, now, clock>>
        /\ slot <= Len(Chain)
    BY <1>4 DEF Decline, Starting, TimeOut, NextSlot, Base, Position
  <2>. QED  BY <1>3, <2>1, AtSurface
<1>5. ASSUME NEW a \in Articles, NEW s \in Surfaces, Probed(a, s) \/ Answer(a, s)
      PROVE  SharesAreKept'
  <2>1. UNCHANGED <<publishedAt, job, now, clock>>
    BY <1>5 DEF Probed, Answer
  <2>2. CASE UNCHANGED <<slot, deadline>>
    BY <2>1, <2>2 DEF SharesAreKept, LockEnds, Behind
  <2>3. CASE Awaited(a, s) /\ NextSlot
    <3>1. /\ job # NoArticle /\ slot \in 1..Len(Chain)
          /\ slot' = slot + 1 /\ deadline' = Never
      BY <2>3, ChannelsAssumption
         DEF ChannelsAssumption, Awaited, NextSlot, Base, Position
    <3>. QED  BY <1>3, <2>1, <3>1
  <2>. QED  BY <1>5, <2>2, <2>3 DEF Probed, Answer, Resolve
<1>6. CASE Tick
  <2>1. job # NoArticle => deadline # Never
    BY <1>6 DEF Tick
  <2>2. UNCHANGED <<publishedAt, job, slot, deadline, now>>
    BY <1>6 DEF Tick
  <2>. QED  BY <2>1, <2>2 DEF SharesAreKept, LockEnds, Behind
<1>7. CASE Leave \/ Die
  <2>1. job' = NoArticle
    BY <1>7 DEF Leave, Die
  <2>. QED  BY <2>1 DEF SharesAreKept
<1>8. CASE UNCHANGED vars
  BY <1>8 DEF vars, SharesAreKept, LockEnds, Behind
<1>. QED  BY <1>1, <1>2, <1>4, <1>5, <1>6, <1>7, <1>8 DEF Next

\* Whatever the channels before it did, each starts with an equal share of what
\* was left of the lock when the chain began, or with its ceiling.
THEOREM TheSharesAreFair == Spec => EveryChannelGetsItsShare
<1>1. Init => SharesAreKept
  BY DEF Init, SharesAreKept
<1>2. ASSUME Base, SharesAreKept, [Next]_vars, deadline = Never, deadline' # Never
      PROVE  deadline' - clock
                 >= AtMost(Ceiling, (LockEnds - publishedAt[job]) \div Len(Chain))
  <2>1. Call
    BY <1>2
       DEF Next, Publish, Decline, TimeOut, Leave, Probed, Answer, Resolve, NextSlot,
           Die, Tick, vars
  <2>2. deadline' - clock = Budget(slot)
    <3>1. deadline' = clock + Budget(slot) /\ Budget(slot) \in Nat /\ clock \in Int
      BY <1>2, <2>1, AFairBudget, AllPublished DEF Call
    <3>. QED  BY <3>1
  <2>. QED  BY <1>2, <2>1, <2>2, AFairBudget
<1>. QED
  BY <1>1, <1>2, NextShares, BaseInvariance, PTL DEF Spec, EveryChannelGetsItsShare
=============================================================================
