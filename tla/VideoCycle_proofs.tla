------------------------- MODULE VideoCycle_proofs -------------------------
(***************************************************************************)
(* The video autopost loop for any number of articles and of cycles that   *)
(* overlap because a hung one was run over.                                *)
(*                                                                         *)
(* Every gate is read long before what it admits.  The argument counts, of *)
(* each window that is still open, what it holds and the cycles that       *)
(* passed the gate and may still publish into it: a cycle that passes      *)
(* finds room, and one that publishes is under way no longer.  For the     *)
(* cooldowns it follows what each cycle has seen of the publishes.         *)
(***************************************************************************)
EXTENDS VideoCycle, FiniteSetTheorems, TLAPS

-----------------------------------------------------------------------------
(* Counting for gates that are read long before what they admit.  P is     *)
(* what a window holds, F the cycles that passed its gate and may still    *)
(* add to it, Q and G the same a step later.                               *)

\* Less in the window and fewer cycles that may add to it.
LEMMA LessAndFewer ==
    ASSUME NEW P, NEW F, NEW Q, NEW G, IsFiniteSet(P), IsFiniteSet(F),
           Q \subseteq P, G \subseteq F
    PROVE  /\ {Cardinality(P), Cardinality(F), Cardinality(Q), Cardinality(G)}
                 \subseteq Nat
           /\ Cardinality(Q) <= Cardinality(P)
           /\ Cardinality(Q) + Cardinality(G) <= Cardinality(P) + Cardinality(F)
<1>1. IsFiniteSet(Q) /\ Cardinality(Q) <= Cardinality(P)
  BY FS_Subset
<1>2. IsFiniteSet(G) /\ Cardinality(G) <= Cardinality(F)
  BY FS_Subset
<1>3. Cardinality(P) \in Nat /\ Cardinality(F) \in Nat
  BY FS_CardinalityType
<1>4. Cardinality(Q) \in Nat /\ Cardinality(G) \in Nat
  BY <1>1, <1>2, FS_CardinalityType
<1>. QED  BY <1>1, <1>2, <1>3, <1>4

\* A cycle adds the one thing it was admitted for.
LEMMA OneSpendsItsTurn ==
    ASSUME NEW P, NEW F, NEW Q, NEW G, NEW x, NEW r,
           IsFiniteSet(P), IsFiniteSet(F), r \in F,
           Q \subseteq P \cup {x}, G \subseteq F \ {r}
    PROVE  Cardinality(Q) + Cardinality(G) <= Cardinality(P) + Cardinality(F)
<1>1. /\ IsFiniteSet(P \cup {x})
      /\ Cardinality(P \cup {x}) = Cardinality(P)
            \/ Cardinality(P \cup {x}) = Cardinality(P) + 1
  BY FS_AddElement
<1>2. IsFiniteSet(F \ {r}) /\ Cardinality(F \ {r}) = Cardinality(F) - 1
  BY FS_RemoveElement
<1>3. /\ {Cardinality(P \cup {x}), Cardinality(F \ {r}), Cardinality(Q),
          Cardinality(G)} \subseteq Nat
      /\ Cardinality(Q) + Cardinality(G)
            <= Cardinality(P \cup {x}) + Cardinality(F \ {r})
  BY <1>1, <1>2, LessAndFewer
<1>4. Cardinality(P) \in Nat /\ Cardinality(F) \in Nat
  BY FS_CardinalityType
<1>. QED  BY <1>1, <1>2, <1>3, <1>4

\* When the gate is read with room in the window, everyone may still be under
\* way.
LEMMA RoomForEveryone ==
    ASSUME NEW P, NEW Q, NEW G, NEW R, NEW cap \in Nat,
           IsFiniteSet(P), IsFiniteSet(R), Cardinality(P) < cap,
           Q \subseteq P, G \subseteq R
    PROVE  Cardinality(Q) + Cardinality(G) <= cap + (Cardinality(R) - 1)
<1>1. /\ {Cardinality(P), Cardinality(R), Cardinality(Q), Cardinality(G)}
            \subseteq Nat
      /\ Cardinality(Q) + Cardinality(G) <= Cardinality(P) + Cardinality(R)
  BY LessAndFewer
<1>. QED  BY <1>1

-----------------------------------------------------------------------------
(* The invariant.                                                          *)

\* A cycle works on an article, which left its pool, and began in the past;
\* without a row nothing was attempted.
Shape ==
    /\ \A r \in Runs : /\ started[r] <= clock
                       /\ pc[r] # "idle" => topic[r] \in Articles
                       /\ topic[r] \notin pool[r]
                       /\ pc[r] = "idle" => pool[r] = {}
    /\ \A a \in Articles : /\ row[a] = "none" => attempts[a] = 0
                           /\ publishedAt[a] <= clock

Base == TypeOK /\ Shape

LEMMA InitBase == Init => Base
<1>. SUFFICES ASSUME Init PROVE Base
  OBVIOUS
<1>1. TypeOK
  BY VideoAssumption DEF Init, TypeOK, Stages, Time, Never, VideoAssumption
<1>2. Shape
  BY DEF Init, Shape, Never
<1>. QED  BY <1>1, <1>2 DEF Base

\* The end of a cycle.
LEMMA FinishKeeps ==
    ASSUME Base, NEW r \in Runs, Finish(r), clock' = clock,
           row' \in [Articles -> {"none", "pending", "failed", "published"}],
           attempts' = attempts, updatedAt' \in [Articles -> Time],
           publishedAt' = publishedAt, uploads' = uploads,
           \A a \in Articles : row'[a] = "none" => row[a] = "none"
    PROVE  Base'
<1>1. 0 \in Time /\ clock \in Nat
  BY VideoAssumption DEF VideoAssumption, Time, Base, TypeOK
<1>2. TypeOK'
  BY <1>1 DEF Base, TypeOK, Finish, Stages
<1>3. Shape'
  BY <1>1, VideoAssumption DEF Base, TypeOK, Shape, Finish, VideoAssumption
<1>. QED  BY <1>2, <1>3 DEF Base

\* The next candidate.
LEMMA TakeKeeps ==
    ASSUME Base, NEW r \in Runs, NEW left \in SUBSET Articles,
           NEW seen \in SUBSET Articles, NEW now \in Time,
           now <= clock, Take(r, left, seen, now), clock' = clock,
           flight' \in Time \cup {Never},
           row' \in [Articles -> {"none", "pending", "failed", "published"}],
           attempts' = attempts, updatedAt' \in [Articles -> Time],
           publishedAt' = publishedAt, uploads' = uploads,
           \A a \in Articles : row'[a] = "none" => row[a] = "none"
    PROVE  Base'
<1>1. PICK a \in left : /\ pc' = [pc EXCEPT ![r] = "making"]
                        /\ topic' = [topic EXCEPT ![r] = a]
                        /\ pool' = [pool EXCEPT ![r] = left \ {a}]
                        /\ corpus' = [corpus EXCEPT ![r] = seen]
                        /\ started' = [started EXCEPT ![r] = now]
  BY DEF Take
<1>2. TypeOK'
  BY <1>1 DEF Base, TypeOK, Stages
<1>3. Shape'
  BY <1>1 DEF Base, TypeOK, Shape
<1>. QED  BY <1>2, <1>3 DEF Base

LEMMA GoOnKeeps ==
    ASSUME Base, NEW r \in Runs, GoOn(r), clock' = clock,
           row' \in [Articles -> {"none", "pending", "failed", "published"}],
           attempts' = attempts, updatedAt' \in [Articles -> Time],
           publishedAt' = publishedAt, uploads' = uploads,
           \A a \in Articles : row'[a] = "none" => row[a] = "none"
    PROVE  Base'
<1>1. /\ pool[r] \in SUBSET Articles /\ corpus[r] \in SUBSET Articles
      /\ started[r] \in Time
      /\ started[r] <= clock /\ flight \in Time \cup {Never}
  BY DEF Base, TypeOK, Shape
<1>2. CASE Finish(r)
  BY <1>2, FinishKeeps
<1>3. CASE Take(r, pool[r], corpus[r], started[r]) /\ UNCHANGED flight
  <2>1. flight' \in Time \cup {Never}
    BY <1>1, <1>3
  <2>. QED  BY <1>1, <1>3, <2>1, TakeKeeps
<1>. QED  BY <1>2, <1>3 DEF GoOn

LEMMA NextBase == Base /\ [Next]_vars => Base'
<1>. SUFFICES ASSUME Base, [Next]_vars PROVE Base'
  OBVIOUS
<1>. USE VideoAssumption DEF VideoAssumption
<1>0. /\ 0 \in Time /\ clock \in Time /\ clock <= clock
      /\ Fresh(clock) \subseteq Articles
  BY DEF Base, TypeOK, Time, Fresh
<1>1. ASSUME NEW r \in Runs, Begin(r) PROVE Base'
  <2>1. /\ Take(r, {a \in Fresh(clock) : PublisherRested(a, clock)},
                PublishedSince(clock - StoryCooldown), clock)
        /\ UNCHANGED <<row, attempts, updatedAt, publishedAt, uploads, clock>>
        /\ flight' \in Time \cup {Never}
    BY <1>0, <1>1 DEF Begin, rows
  <2>2. /\ {a \in Fresh(clock) : PublisherRested(a, clock)} \in SUBSET Articles
        /\ PublishedSince(clock - StoryCooldown) \in SUBSET Articles
    BY <1>0 DEF PublishedSince
  <2>3. /\ row' \in [Articles -> {"none", "pending", "failed", "published"}]
        /\ updatedAt' \in [Articles -> Time]
    BY <2>1 DEF Base, TypeOK
  <2>. QED  BY <1>0, <2>1, <2>2, <2>3, TakeKeeps
<1>2. ASSUME NEW r \in Runs, BeginRefused(r) PROVE Base'
  BY <1>2 DEF BeginRefused, rows, Base, TypeOK, Shape
<1>3. ASSUME NEW r \in Runs, MakeFails(r) \/ CycleThrows(r) \/ FanOut(r)
      PROVE  Base'
  <2>1. GoOn(r)
    BY <1>3 DEF MakeFails, CycleThrows, FanOut, GoOn
  <2>2. UNCHANGED <<row, attempts, updatedAt, publishedAt, uploads, clock>>
    BY <1>3 DEF MakeFails, CycleThrows, FanOut, rows
  <2>. QED  BY <2>1, <2>2, GoOnKeeps DEF Base, TypeOK
<1>4. ASSUME NEW r \in Runs, Claim(r) PROVE Base'
  <2>1. topic[r] \in Articles
    BY <1>4 DEF Claim, Base, Shape
  <2>2. TypeOK'
    BY <1>0, <1>4, <2>1 DEF Claim, Base, TypeOK, Stages
  <2>3. Shape'
    BY <1>4, <2>1 DEF Claim, Base, TypeOK, Shape
  <2>. QED  BY <2>2, <2>3 DEF Base
<1>5. ASSUME NEW r \in Runs, Land(r) PROVE Base'
  <2>1. topic[r] \in Articles
    BY <1>5 DEF Land, Base, Shape
  <2>2. TypeOK'
    BY <1>5, <2>1 DEF Land, rows, Base, TypeOK, Stages
  <2>3. Shape'
    BY <1>5, <2>1 DEF Land, rows, Base, TypeOK, Shape
  <2>. QED  BY <2>2, <2>3 DEF Base
<1>6. ASSUME NEW r \in Runs, UploadThrows(r) PROVE Base'
  <2>1. GoOn(r) /\ UNCHANGED <<attempts, publishedAt, uploads, clock>>
    BY <1>6 DEF UploadThrows, MarkVideoFailed
  <2>2. /\ row' = [row EXCEPT ![topic[r]] = "failed"]
        /\ updatedAt' = [updatedAt EXCEPT ![topic[r]] = 0]
    BY <1>6 DEF UploadThrows, MarkVideoFailed
  <2>3. /\ row' \in [Articles -> {"none", "pending", "failed", "published"}]
        /\ updatedAt' \in [Articles -> Time]
        /\ \A a \in Articles : row'[a] = "none" => row[a] = "none"
    BY <1>0, <2>2 DEF Base, TypeOK
  <2>. QED  BY <2>1, <2>3, GoOnKeeps
<1>7. ASSUME NEW r \in Runs, Record(r) PROVE Base'
  <2>1. topic[r] \in Articles
    BY <1>7 DEF Record, Base, Shape
  <2>2. TypeOK'
    BY <1>0, <1>7, <2>1 DEF Record, Base, TypeOK, Stages
  <2>3. clock \in Int /\ clock <= clock
    BY <1>0, VideoAssumption DEF Time
  <2>4. \A a \in Articles : publishedAt'[a] <= clock
    BY <1>7, <2>1, <2>3 DEF Record, Base, TypeOK, Shape
  <2>5. Shape'
    BY <1>7, <2>1, <2>4 DEF Record, Base, TypeOK, Shape
  <2>. QED  BY <2>2, <2>5 DEF Base
<1>8. CASE Die
  BY <1>0, <1>8 DEF Die, rows, Base, TypeOK, Shape, Stages, Time
<1>9. CASE Tick
  <2>1. TypeOK'
    BY <1>9 DEF Tick, rows, Base, TypeOK, Time
  <2>2. /\ \A r \in Runs : started[r] \in Int /\ started[r] <= clock
        /\ \A a \in Articles : publishedAt[a] \in Int /\ publishedAt[a] <= clock
        /\ clock \in Int
    BY DEF Base, TypeOK, Shape, Time, Never
  <2>3. Shape'
    BY <1>9, <2>2 DEF Tick, rows, Base, Shape
  <2>. QED  BY <2>1, <2>3 DEF Base
<1>10. CASE UNCHANGED vars
  BY <1>10 DEF vars, Base, TypeOK, Shape
<1>. QED  BY <1>1, <1>2, <1>3, <1>4, <1>5, <1>6, <1>7, <1>8, <1>9, <1>10
          DEF Next

THEOREM BaseInvariance == Spec => []Base
BY InitBase, NextBase, PTL DEF Spec

\* Type correctness, for any articles and overlapping cycles.
THEOREM TypeCorrect == Spec => []TypeOK
BY BaseInvariance, PTL DEF Base

-----------------------------------------------------------------------------
(* Windows.                                                                *)

\* What a window holds of S, and the cycles that may still publish of it.
Held(S, t, w) ==
    {a \in S : row[a] = "published" /\ publishedAt[a] \in t..(t + w - 1)}
Flying(S) ==
    {r \in Runs : pc[r] \in {"making", "uploading", "landed"} /\ topic[r] \in S}

\* A window that has closed holds the cap and what overlap costs, and in one
\* that has not there is still room for everybody under way.
Windows(S, w, cap) ==
    \A t \in Time :
        /\ Cardinality(Held(S, t, w)) <= cap + Overlap
        /\ clock < t + w =>
              Cardinality(Held(S, t, w)) + Cardinality(Flying(S))
                  <= cap + Overlap

\* A cycle that comes to work on S finds room in every open window.
FindsRoom(S, w, cap) ==
    \A r \in Runs : r \in Flying(S)' /\ r \notin Flying(S) =>
        \A t \in Time : clock < t + w => Cardinality(Held(S, t, w)) < cap

LEMMA Finite ==
    ASSUME NEW S \in SUBSET Articles, NEW t, NEW w
    PROVE  /\ IsFiniteSet(Held(S, t, w)) /\ IsFiniteSet(Flying(S))
           /\ IsFiniteSet(Runs) /\ Cardinality(Runs) \in Nat \ {0}
           /\ Overlap \in Nat /\ Overlap = Cardinality(Runs) - 1
           /\ Cardinality(Held(S, t, w)) \in Nat
           /\ Cardinality(Flying(S)) \in Nat
<1>. USE VideoAssumption DEF VideoAssumption
<1>1. Held(S, t, w) \in SUBSET Articles /\ Flying(S) \in SUBSET Runs
  BY DEF Held, Flying
<1>2. IsFiniteSet(Held(S, t, w)) /\ IsFiniteSet(Flying(S)) /\ IsFiniteSet(Runs)
  BY <1>1, FS_Subset
<1>3. Cardinality(Runs) \in Nat
  BY <1>2, FS_CardinalityType
<1>4. Cardinality(Runs) # 0
  BY <1>2, FS_EmptySet
<1>5. Cardinality(Held(S, t, w)) \in Nat /\ Cardinality(Flying(S)) \in Nat
  BY <1>2, FS_CardinalityType
<1>. QED  BY <1>2, <1>3, <1>4, <1>5 DEF Overlap

\* Nothing is published but by Record.
NothingPublished ==
    \A a \in Articles : row'[a] = "published" =>
        row[a] = "published" /\ publishedAt'[a] = publishedAt[a]

\* What a step does to the published rows and the cycles under way: one cycle
\* publishes its article, one takes an article on, or neither.
LEMMA Effects ==
    ASSUME Base, [Next]_vars
    PROVE  \/ \E r \in Runs : Record(r)
           \/ /\ NothingPublished /\ clock' = clock
              /\ \E r \in Runs :
                    /\ \A s \in Runs \ {r} : pc'[s] = pc[s] /\ topic'[s] = topic[s]
                    /\ \/ Begin(r)
                       \/ /\ pc[r] \in {"making", "uploading", "landed"}
                          /\ Take(r, pool[r], corpus[r], started[r])
           \/ /\ NothingPublished /\ clock' >= clock
              /\ \A r \in Runs :
                    pc'[r] \in {"making", "uploading", "landed"} =>
                        /\ pc[r] \in {"making", "uploading", "landed"}
                        /\ topic'[r] = topic[r]
<1>. DEFINE Working(r) == pc[r] \in {"making", "uploading", "landed"}
            Quiet == /\ NothingPublished /\ clock' >= clock
                     /\ \A r \in Runs : Working(r)' =>
                           Working(r) /\ topic'[r] = topic[r]
<1>0. clock \in Nat /\ clock >= clock
  BY VideoAssumption DEF VideoAssumption, Base, TypeOK, Time
<1>1. ASSUME NEW r \in Runs, Finish(r), NothingPublished, clock' = clock
      PROVE  Quiet
  BY <1>0, <1>1 DEF Finish, Base, TypeOK
<1>2. ASSUME NEW r \in Runs, Begin(r)
      PROVE  /\ NothingPublished /\ clock' = clock
             /\ \A s \in Runs \ {r} : pc'[s] = pc[s] /\ topic'[s] = topic[s]
  BY <1>2 DEF Begin, Take, rows, NothingPublished, Base, TypeOK
<1>3. ASSUME NEW r \in Runs, Take(r, pool[r], corpus[r], started[r])
      PROVE  \A s \in Runs \ {r} : pc'[s] = pc[s] /\ topic'[s] = topic[s]
  BY <1>3 DEF Take, Base, TypeOK
<1>4. ASSUME NEW r \in Runs, MakeFails(r) \/ UploadThrows(r)
      PROVE  /\ NothingPublished /\ clock' = clock /\ GoOn(r)
             /\ Working(r)
  BY <1>4 DEF MakeFails, UploadThrows, MarkVideoFailed, rows, NothingPublished,
              Base, TypeOK, Shape
<1>5. ASSUME NEW r \in Runs, CycleThrows(r) \/ FanOut(r)
      PROVE  NothingPublished /\ clock' = clock /\ Finish(r)
  BY <1>5 DEF CycleThrows, FanOut, rows, NothingPublished
<1>6. ASSUME NEW r \in Runs, BeginRefused(r) \/ Claim(r) \/ Land(r)
      PROVE  Quiet
  <2>1. NothingPublished /\ clock' = clock
    BY <1>6 DEF BeginRefused, Claim, Land, rows, NothingPublished, Base, TypeOK,
                Shape
  <2>2. \A s \in Runs : Working(s)' => Working(s) /\ topic'[s] = topic[s]
    BY <1>6 DEF BeginRefused, Claim, Land, rows, Base, TypeOK
  <2>. QED  BY <1>0, <2>1, <2>2
<1>7. CASE Die \/ Tick \/ UNCHANGED vars
  BY <1>0, <1>7 DEF Die, Tick, vars, rows, NothingPublished
<1>. QED  BY <1>1, <1>2, <1>3, <1>4, <1>5, <1>6, <1>7 DEF Next, GoOn

\* A step that publishes nothing.
LEMMA NothingAdded ==
    ASSUME NothingPublished, NEW S \in SUBSET Articles, NEW t, NEW w
    PROVE  Held(S, t, w)' \subseteq Held(S, t, w)
BY DEF NothingPublished, Held

LEMMA WindowsKeep ==
    ASSUME Base, [Next]_vars, NEW S \in SUBSET Articles, NEW w \in Int,
           NEW cap \in Nat, Windows(S, w, cap), FindsRoom(S, w, cap)
    PROVE  Windows(S, w, cap)'
<1>. SUFFICES ASSUME NEW t \in Time
              PROVE  /\ Cardinality(Held(S, t, w)') <= cap + Overlap
                     /\ clock' < t + w =>
                           Cardinality(Held(S, t, w)') + Cardinality(Flying(S)')
                               <= cap + Overlap
  BY DEF Windows, Overlap
<1>0. /\ clock \in Int /\ t \in Int /\ clock' \in Int
      /\ Overlap \in Nat /\ Overlap = Cardinality(Runs) - 1
      /\ IsFiniteSet(Held(S, t, w)) /\ IsFiniteSet(Flying(S))
      /\ IsFiniteSet(Runs)
      /\ Cardinality(Held(S, t, w)) \in Nat /\ Cardinality(Flying(S)) \in Nat
  <2>1. Base'
    BY NextBase
  <2>2. clock \in Int /\ t \in Int /\ clock' \in Int
    BY <2>1, VideoAssumption DEF VideoAssumption, Base, TypeOK, Time
  <2>. QED  BY <2>2, Finite
<1>1. /\ Cardinality(Held(S, t, w)) <= cap + Overlap
      /\ clock < t + w => Cardinality(Held(S, t, w)) + Cardinality(Flying(S))
                              <= cap + Overlap
  BY DEF Windows
<1>2. ASSUME Held(S, t, w)' \subseteq Held(S, t, w),
             Flying(S)' \subseteq Flying(S), clock' >= clock
      PROVE  /\ Cardinality(Held(S, t, w)') <= cap + Overlap
             /\ clock' < t + w =>
                   Cardinality(Held(S, t, w)') + Cardinality(Flying(S)')
                       <= cap + Overlap
  <2>1. /\ {Cardinality(Held(S, t, w)'), Cardinality(Flying(S)')} \subseteq Nat
        /\ Cardinality(Held(S, t, w)') <= Cardinality(Held(S, t, w))
        /\ Cardinality(Held(S, t, w)') + Cardinality(Flying(S)')
              <= Cardinality(Held(S, t, w)) + Cardinality(Flying(S))
    BY <1>0, <1>2, LessAndFewer
  <2>. QED  BY <1>0, <1>1, <1>2, <2>1
<1>3. ASSUME NEW r \in Runs, Record(r)
      PROVE  /\ Cardinality(Held(S, t, w)') <= cap + Overlap
             /\ clock' < t + w =>
                   Cardinality(Held(S, t, w)') + Cardinality(Flying(S)')
                       <= cap + Overlap
  <2>1. /\ clock' = clock /\ topic[r] \in Articles /\ pc[r] = "landed"
        /\ row' = [row EXCEPT ![topic[r]] = "published"]
        /\ publishedAt' = [publishedAt EXCEPT ![topic[r]] = clock]
        /\ pc' = [pc EXCEPT ![r] = "fanout"] /\ topic' = topic
    BY <1>3 DEF Record, Base, Shape
  <2>2. /\ \A a \in Articles \ {topic[r]} :
              row'[a] = row[a] /\ publishedAt'[a] = publishedAt[a]
        /\ publishedAt'[topic[r]] = clock
    BY <2>1 DEF Base, TypeOK
  <2>3. Flying(S)' \subseteq Flying(S) \ {r}
    BY <2>1 DEF Flying, Base, TypeOK
  <2>4. CASE topic[r] \notin S \/ ~(clock < t + w)
    <3>1. Held(S, t, w)' \subseteq Held(S, t, w)
      BY <1>0, <2>2, <2>4 DEF Held
    <3>. QED  BY <1>0, <1>2, <2>1, <2>3, <3>1
  <2>5. CASE topic[r] \in S /\ clock < t + w
    <3>1. r \in Flying(S)
      BY <2>1, <2>5 DEF Flying
    <3>2. Held(S, t, w)' \subseteq Held(S, t, w) \cup {topic[r]}
      BY <2>2 DEF Held
    <3>3. Cardinality(Held(S, t, w)') + Cardinality(Flying(S)')
              <= Cardinality(Held(S, t, w)) + Cardinality(Flying(S))
      BY <1>0, <2>3, <3>1, <3>2, OneSpendsItsTurn
    <3>4. Cardinality(Held(S, t, w)') \in Nat /\ Cardinality(Flying(S)') \in Nat
      <4>1. Held(S, t, w)' \in SUBSET Articles /\ Flying(S)' \in SUBSET Runs
        BY DEF Held, Flying
      <4>2. IsFiniteSet(Held(S, t, w)') /\ IsFiniteSet(Flying(S)')
        BY <4>1, VideoAssumption, FS_Subset DEF VideoAssumption
      <4>. QED  BY <4>2, FS_CardinalityType
    <3>. QED  BY <1>0, <1>1, <2>5, <3>3, <3>4
  <2>. QED  BY <2>4, <2>5
<1>4. ASSUME NEW r \in Runs, NothingPublished, clock' = clock,
             \A s \in Runs \ {r} : pc'[s] = pc[s] /\ topic'[s] = topic[s]
      PROVE  /\ Cardinality(Held(S, t, w)') <= cap + Overlap
             /\ clock' < t + w =>
                   Cardinality(Held(S, t, w)') + Cardinality(Flying(S)')
                       <= cap + Overlap
  <2>1. Held(S, t, w)' \subseteq Held(S, t, w)
    BY <1>4, NothingAdded
  <2>2. CASE Flying(S)' \subseteq Flying(S)
    BY <1>0, <1>2, <1>4, <2>1, <2>2
  <2>3. CASE ~(Flying(S)' \subseteq Flying(S))
    <3>1. r \in Flying(S)' /\ r \notin Flying(S)
      BY <1>4, <2>3 DEF Flying
    <3>2. clock < t + w => Cardinality(Held(S, t, w)) < cap
      BY <3>1 DEF FindsRoom
    <3>3. Flying(S)' \subseteq Runs
      BY DEF Flying
    <3>4. Cardinality(Held(S, t, w)') <= Cardinality(Held(S, t, w))
      BY <1>0, <2>1, FS_Subset
    <3>5. Cardinality(Held(S, t, w)') \in Nat
      BY <1>0, <2>1, FS_Subset, FS_CardinalityType
    <3>6. clock < t + w =>
             Cardinality(Held(S, t, w)') + Cardinality(Flying(S)')
                 <= cap + (Cardinality(Runs) - 1)
      BY <1>0, <2>1, <3>2, <3>3, RoomForEveryone
    <3>. QED  BY <1>0, <1>1, <1>4, <3>4, <3>5, <3>6
  <2>. QED  BY <2>2, <2>3
<1>5. ASSUME NothingPublished, clock' >= clock,
             \A r \in Runs :
                 pc'[r] \in {"making", "uploading", "landed"} =>
                     /\ pc[r] \in {"making", "uploading", "landed"}
                     /\ topic'[r] = topic[r]
      PROVE  /\ Cardinality(Held(S, t, w)') <= cap + Overlap
             /\ clock' < t + w =>
                   Cardinality(Held(S, t, w)') + Cardinality(Flying(S)')
                       <= cap + Overlap
  <2>1. Flying(S)' \subseteq Flying(S)
    BY <1>5 DEF Flying
  <2>. QED  BY <1>2, <1>5, <2>1, NothingAdded
<1>. QED  BY <1>3, <1>4, <1>5, Effects

-----------------------------------------------------------------------------
(* The gates.                                                              *)

LEMMA Widths ==
    /\ Day \in Nat \ {0} /\ StoryCooldown \in Nat \ {0}
    /\ MaxPerDay \in Nat \ {0} /\ MinInterval \in Int
<1>1. /\ Day \in Nat \ {0} /\ StoryCooldown \in Nat \ {0}
      /\ MaxPerDay \in Nat \ {0}
  BY VideoAssumption DEF VideoAssumption
<1>2. 8 * Day + 5 * MaxPerDay \in Int /\ 10 * MaxPerDay \in Nat \ {0}
  BY <1>1
<1>. QED  BY <1>1, <1>2 DEF MinInterval

\* Who comes to work on S passed the gates of a cycle that begins, or went on to
\* its next candidate.
LEMMA WhoComes ==
    ASSUME Base, [Next]_vars, NEW S \in SUBSET Articles, NEW r \in Runs,
           r \in Flying(S)', r \notin Flying(S)
    PROVE  /\ topic'[r] \in S
           /\ \/ Begin(r)
              \/ topic[r] \in Articles \ S /\ Take(r, pool[r], corpus[r], started[r])
<1>1. /\ topic'[r] \in S /\ pc'[r] \in {"making", "uploading", "landed"}
      /\ ~(pc[r] \in {"making", "uploading", "landed"} /\ topic[r] \in S)
  BY DEF Flying
<1>2. ASSUME NEW s \in Runs, Record(s) PROVE FALSE
  BY <1>1, <1>2 DEF Record, Base, TypeOK
<1>3. ASSUME NEW s \in Runs,
             \A q \in Runs \ {s} : pc'[q] = pc[q] /\ topic'[q] = topic[q]
      PROVE  s = r
  BY <1>1, <1>3
<1>. QED  BY <1>1, <1>2, <1>3, Effects DEF Base, Shape

\* Beginning reads the rate gate, and no window that is still open reaches back
\* behind what the gate looked at.
LEMMA RateFindsRoom ==
    ASSUME Base, [Next]_vars
    PROVE  FindsRoom(Articles, Day, MaxPerDay) /\ FindsRoom(Articles, MinInterval, 1)
<1>. SUFFICES ASSUME NEW r \in Runs, r \in Flying(Articles)',
                     r \notin Flying(Articles), NEW t \in Time
              PROVE  /\ clock < t + Day =>
                           Cardinality(Held(Articles, t, Day)) < MaxPerDay
                     /\ clock < t + MinInterval =>
                           Cardinality(Held(Articles, t, MinInterval)) < 1
  BY DEF FindsRoom
<1>1. RateGate(clock)
  BY WhoComes DEF Begin
<1>2. /\ clock \in Int /\ t \in Nat
      /\ \A a \in Articles : publishedAt[a] \in Int
  BY VideoAssumption DEF VideoAssumption, Base, TypeOK, Time, Never
<1>3. ASSUME clock < t + Day
      PROVE  Cardinality(Held(Articles, t, Day)) < MaxPerDay
  <2>1. Held(Articles, t, Day) \subseteq PublishedSince(clock - Day)
    BY <1>2, <1>3, Widths DEF Held, PublishedSince
  <2>2. IsFiniteSet(PublishedSince(clock - Day))
    <3>1. PublishedSince(clock - Day) \in SUBSET Articles
      BY DEF PublishedSince
    <3>. QED  BY <3>1, VideoAssumption, FS_Subset DEF VideoAssumption
  <2>3. /\ Cardinality(Held(Articles, t, Day))
              <= Cardinality(PublishedSince(clock - Day))
        /\ Cardinality(PublishedSince(clock - Day)) \in Nat
    BY <2>1, <2>2, FS_Subset, FS_CardinalityType
  <2>4. Cardinality(Held(Articles, t, Day)) \in Nat
    BY Finite
  <2>5. Cardinality(PublishedSince(clock - Day)) < MaxPerDay
    BY <1>1 DEF RateGate
  <2>. QED  BY <2>3, <2>4, <2>5, Widths
<1>4. ASSUME clock < t + MinInterval
      PROVE  Cardinality(Held(Articles, t, MinInterval)) < 1
  <2>1. \A a \in PublishedSince(Never) : clock - publishedAt[a] >= MinInterval
    BY <1>1 DEF RateGate
  <2>2. ASSUME NEW a \in Held(Articles, t, MinInterval) PROVE FALSE
    <3>1. /\ a \in Articles /\ row[a] = "published" /\ publishedAt[a] \in Int
          /\ publishedAt[a] >= t
      BY <1>2, <2>2, Widths DEF Held
    <3>2. a \in PublishedSince(Never)
      BY <1>2, <3>1 DEF PublishedSince, Never
    <3>3. clock - publishedAt[a] >= MinInterval
      BY <2>1, <3>2
    <3>. QED  BY <1>2, <1>4, <3>1, <3>3, Widths
  <2>3. Held(Articles, t, MinInterval) = {}
    BY <2>2
  <2>. QED  BY <2>3, FS_EmptySet
<1>. QED  BY <1>3, <1>4

Rates == Windows(Articles, Day, MaxPerDay) /\ Windows(Articles, MinInterval, 1)

LEMMA InitWindows ==
    ASSUME Init, NEW S \in SUBSET Articles, NEW w \in Int, NEW cap \in Nat
    PROVE  Windows(S, w, cap)
<1>1. Flying(S) = {} /\ \A t : Held(S, t, w) = {}
  BY DEF Init, Flying, Held
<1>2. Cardinality({}) = 0 /\ Overlap \in Nat
  BY Finite, FS_EmptySet
<1>. QED  BY <1>1, <1>2 DEF Windows

LEMMA NextRates == Base /\ Rates /\ [Next]_vars => Rates'
<1>. SUFFICES ASSUME Base, Rates, [Next]_vars PROVE Rates'
  OBVIOUS
<1>1. Windows(Articles, Day, MaxPerDay)'
  BY RateFindsRoom, Widths, WindowsKeep DEF Rates
<1>2. Windows(Articles, MinInterval, 1)'
  BY RateFindsRoom, Widths, WindowsKeep DEF Rates
<1>. QED  BY <1>1, <1>2 DEF Rates

\* However many cycles overlap, no window of a day holds more publishes than the
\* cap and one for each further cycle, and none of the spacing more than one
\* each.
THEOREM TheRateIsHeld == Spec => []RateHeld
<1>1. Init => Rates
  BY InitWindows, Widths DEF Rates
<1>2. Rates => RateHeld
  <2>1. \A t, w : PublishedIn(t..(t + w - 1)) = Held(Articles, t, w)
    BY DEF PublishedIn, Held
  <2>. QED  BY <2>1 DEF Rates, Windows, RateHeld
<1>. QED  BY <1>1, <1>2, InitBase, NextBase, NextRates, PTL DEF Spec

-----------------------------------------------------------------------------
(* What a cycle knows of the publishes.                                    *)

Working(r) == pc[r] \in {"making", "uploading", "landed"}

\* What a cycle did not see, or what should have kept it from its topic, or from
\* taking an article up at all.
Concerns(r, b) ==
    \/ publishedAt[b] > started[r] - StoryCooldown /\ b \notin corpus[r]
    \/ publishedAt[b] > started[r] - Day /\ b \in OfThePublisher(topic[r])
    \/ publishedAt[b] > started[r] - StoryCooldown /\ b \in OfTheStory(topic[r])
    \/ b = topic[r]
    \/ b \in pool[r]

\* It was recorded since by a cycle that overlaps.
Known ==
    \A r \in Runs, b \in Articles :
        Working(r) /\ row[b] = "published" /\ Concerns(r, b)
            => RecordedBeside(r, b)

LEMMA TwoOverlap ==
    ASSUME NEW r \in Runs, NEW s \in Runs, r # s
    PROVE  Overlap > 0
<1>1. /\ IsFiniteSet(Runs) /\ Overlap = Cardinality(Runs) - 1
      /\ Cardinality(Runs) \in Nat
  BY Finite
<1>2. IsFiniteSet(Runs \ {r}) /\ Cardinality(Runs \ {r}) = Cardinality(Runs) - 1
  BY <1>1, FS_RemoveElement
<1>3. Cardinality(Runs \ {r}) # 0 /\ Cardinality(Runs \ {r}) \in Nat
  BY <1>2, FS_EmptySet, FS_CardinalityType
<1>. QED  BY <1>1, <1>2, <1>3

\* A cycle that works on an article has just begun, goes on to its next
\* candidate, or keeps what it has.
LEMMA WhatACycleKeeps ==
    ASSUME Base, [Next]_vars, NEW r \in Runs, Working(r)'
    PROVE  \/ Begin(r)
           \/ Working(r) /\ Take(r, pool[r], corpus[r], started[r])
           \/ /\ Working(r)
              /\ topic'[r] = topic[r] /\ pool'[r] = pool[r]
              /\ corpus'[r] = corpus[r] /\ started'[r] = started[r]
<1>. DEFINE Keeps == /\ Working(r)
                     /\ topic'[r] = topic[r] /\ pool'[r] = pool[r]
                     /\ corpus'[r] = corpus[r] /\ started'[r] = started[r]
<1>1. ASSUME NEW s \in Runs \ {r}, NEW left, NEW seen, NEW now,
             Finish(s) \/ Take(s, left, seen, now)
      PROVE  Keeps
  BY <1>1 DEF Finish, Take, Working, Base, TypeOK
<1>2. ASSUME Finish(r) PROVE FALSE
  BY <1>2 DEF Finish, Working, Base, TypeOK
<1>3. ASSUME NEW s \in Runs, Begin(s) PROVE Begin(r) \/ Keeps
  BY <1>1, <1>3 DEF Begin
<1>4. ASSUME NEW s \in Runs,
             MakeFails(s) \/ UploadThrows(s) \/ CycleThrows(s) \/ FanOut(s)
      PROVE  \/ Working(r) /\ Take(r, pool[r], corpus[r], started[r])
             \/ Keeps
  <2>1. Finish(s) \/ Take(s, pool[s], corpus[s], started[s])
    BY <1>4 DEF MakeFails, UploadThrows, CycleThrows, FanOut, GoOn
  <2>2. s = r => Working(r)
    BY <1>2, <1>4 DEF MakeFails, UploadThrows, CycleThrows, FanOut, Working
  <2>. QED  BY <1>1, <1>2, <2>1, <2>2
<1>5. ASSUME NEW s \in Runs, BeginRefused(s) \/ Claim(s) \/ Land(s) \/ Record(s)
      PROVE  Keeps
  BY <1>5 DEF BeginRefused, Claim, Land, Record, Working, Base, TypeOK
<1>6. CASE Die
  BY <1>6 DEF Die, Working
<1>7. CASE Tick \/ UNCHANGED vars
  BY <1>7 DEF Tick, vars, Working
<1>. QED  BY <1>3, <1>4, <1>5, <1>6, <1>7 DEF Next

\* A published row was published before the step, or is recorded by it.
LEMMA WhoPublished ==
    ASSUME Base, [Next]_vars, NEW b \in Articles, row'[b] = "published"
    PROVE  \/ row[b] = "published" /\ publishedAt'[b] = publishedAt[b]
           \/ \E s \in Runs : Record(s) /\ topic[s] = b
<1>1. ASSUME NEW s \in Runs, Record(s), topic[s] # b
      PROVE  row[b] = "published" /\ publishedAt'[b] = publishedAt[b]
  BY <1>1 DEF Record, Base, TypeOK
<1>. QED  BY <1>1, Effects DEF NothingPublished

LEMMA NextKnown == Base /\ Known /\ [Next]_vars => Known'
<1>. SUFFICES ASSUME Base, Known, [Next]_vars, NEW r \in Runs, NEW b \in Articles,
                     Working(r)', row'[b] = "published", Concerns(r, b)'
              PROVE  RecordedBeside(r, b)'
  BY DEF Known
<1>0. /\ clock \in Int /\ started[r] \in Int /\ started[r] <= clock
      /\ publishedAt[b] \in Int
  BY VideoAssumption DEF VideoAssumption, Base, TypeOK, Shape, Time, Never
<1>1. ASSUME NEW s \in Runs, Record(s), topic[s] = b PROVE RecordedBeside(r, b)'
  <2>1. s # r
    BY <1>1 DEF Record, Working, Base, TypeOK
  <2>2. publishedAt'[b] = clock /\ started' = started
    BY <1>1 DEF Record, Base, TypeOK
  <2>. QED  BY <1>0, <2>1, <2>2, TwoOverlap DEF RecordedBeside, Overlap
<1>2. ASSUME row[b] = "published", publishedAt'[b] = publishedAt[b]
      PROVE  RecordedBeside(r, b)'
  <2>1. ASSUME Working(r), Concerns(r, b), started'[r] = started[r]
        PROVE  RecordedBeside(r, b)'
    BY <1>2, <2>1 DEF Known, RecordedBeside, Overlap
  <2>2. ASSUME NEW left, NEW seen, NEW now, Take(r, left, seen, now)
        PROVE  /\ topic'[r] \in left /\ pool'[r] \subseteq left
               /\ corpus'[r] = seen /\ started'[r] = now
               /\ PassesCooldown(topic'[r], now, seen)
    BY <2>2 DEF Take, Base, TypeOK
  <2>3. ASSUME NEW seen, NEW now, PassesCooldown(topic'[r], now, seen),
               started'[r] = now, corpus'[r] = seen
        PROVE  \/ publishedAt[b] > now - StoryCooldown /\ b \notin seen
               \/ b = topic'[r] \/ b \in pool'[r]
    <3>1. ASSUME publishedAt[b] > now - Day, b \in OfThePublisher(topic'[r])
          PROVE  FALSE
      BY <1>2, <2>3, <3>1 DEF PassesCooldown, PublisherRested, PublishedSince,
                              OfThePublisher
    <3>2. ASSUME publishedAt[b] > now - StoryCooldown, b \in OfTheStory(topic'[r])
          PROVE  b \notin seen
      <4>1. b \in PublishedSince(now - StoryCooldown)
        BY <1>2, <3>2 DEF PublishedSince
      <4>2. CASE EventOf[topic'[r]] # NoEvent
        BY <2>3, <3>2, <4>1, <4>2 DEF PassesCooldown, OfTheStory
      <4>3. CASE EventOf[topic'[r]] = NoEvent
        BY <2>3, <3>2, <4>3 DEF PassesCooldown, OfTheStory
      <4>. QED  BY <4>2, <4>3
    <3>. QED  BY <1>2, <2>3, <3>1, <3>2 DEF Concerns, OfThePublisher, OfTheStory
  <2>4. CASE Begin(r)
    <3>1. Take(r, {a \in Fresh(clock) : PublisherRested(a, clock)},
               PublishedSince(clock - StoryCooldown), clock)
      BY <2>4 DEF Begin
    <3>2. b \notin Fresh(clock)
      BY <1>2 DEF Fresh
    <3>3. /\ topic'[r] # b /\ b \notin pool'[r] /\ started'[r] = clock
          /\ corpus'[r] = PublishedSince(clock - StoryCooldown)
          /\ PassesCooldown(topic'[r], clock,
                            PublishedSince(clock - StoryCooldown))
      BY <2>2, <3>1, <3>2
    <3>4. publishedAt[b] > clock - StoryCooldown
             => b \in PublishedSince(clock - StoryCooldown)
      BY <1>2 DEF PublishedSince
    <3>. QED  BY <2>3, <3>3, <3>4
  <2>5. CASE Working(r) /\ Take(r, pool[r], corpus[r], started[r])
    <3>1. /\ topic'[r] \in pool[r] /\ pool'[r] \subseteq pool[r]
          /\ corpus'[r] = corpus[r] /\ started'[r] = started[r]
          /\ PassesCooldown(topic'[r], started[r], corpus[r])
      BY <2>2, <2>5
    <3>2. Concerns(r, b)
      BY <2>3, <3>1 DEF Concerns
    <3>. QED  BY <2>1, <2>5, <3>1, <3>2
  <2>6. CASE /\ Working(r) /\ topic'[r] = topic[r] /\ pool'[r] = pool[r]
             /\ corpus'[r] = corpus[r] /\ started'[r] = started[r]
    <3>1. Concerns(r, b)
      BY <1>2, <2>6 DEF Concerns, OfThePublisher, OfTheStory
    <3>. QED  BY <2>1, <2>6, <3>1
  <2>. QED  BY <2>4, <2>5, <2>6, WhatACycleKeeps
<1>. QED  BY <1>1, <1>2, WhoPublished

LEMMA InitKnown == Init => Known
BY DEF Init, Known, Working

\* No video is uploaded next to a recorded publish that its cooldowns forbid,
\* but for one of an overlapping cycle since this one began; so none at all while
\* cycles do not overlap.
THEOREM TheCooldownsAreHeld == Spec => []CooldownsHeld
<1>1. Base /\ Known => CooldownsHeld
  <2>. SUFFICES ASSUME Base, Known, NEW r \in Runs, NEW b \in Articles,
                  pc[r] \in {"uploading", "landed"},
                  \/ b \in PublishedSince(clock - Day) \cap OfThePublisher(topic[r])
                  \/ b \in PublishedSince(clock - StoryCooldown)
                              \cap OfTheStory(topic[r])
                PROVE  RecordedBeside(r, b)
    BY DEF CooldownsHeld
  <2>1. /\ clock \in Int /\ started[r] \in Int /\ started[r] <= clock
        /\ publishedAt[b] \in Int /\ Day \in Int /\ StoryCooldown \in Int
    BY VideoAssumption, Widths DEF VideoAssumption, Base, TypeOK, Shape, Time,
                                   Never
  <2>2. row[b] = "published" /\ Working(r)
    BY DEF PublishedSince, Working
  <2>3. Concerns(r, b)
    BY <2>1 DEF Concerns, PublishedSince
  <2>. QED  BY <2>2, <2>3 DEF Known
<1>. QED  BY <1>1, InitBase, NextBase, InitKnown, NextKnown, PTL DEF Spec

\* What happens to a published row in a step.
LEMMA Standing ==
    ASSUME Base, Known, [Next]_vars, NEW a \in Articles, row[a] = "published"
    PROVE  /\ publishedAt'[a] >= publishedAt[a]
           /\ \/ row'[a] = "published"
              \/ \E r \in Runs :
                    /\ pc[r] \in {"making", "uploading", "landed"}
                    /\ topic[r] = a
                    /\ RecordedBeside(r, a)
<1>. DEFINE Stands == row'[a] = "published" /\ publishedAt'[a] >= publishedAt[a]
<1>0. publishedAt[a] \in Int /\ clock \in Int /\ publishedAt[a] <= clock
  BY VideoAssumption DEF VideoAssumption, Base, TypeOK, Shape, Time, Never
<1>1. ASSUME NEW r \in Runs, Claim(r) \/ UploadThrows(r)
      PROVE  /\ publishedAt'[a] >= publishedAt[a]
             /\ row'[a] = "published" \/ (Working(r) /\ topic[r] = a)
  BY <1>0, <1>1 DEF Claim, UploadThrows, MarkVideoFailed, Working, Base, TypeOK
<1>2. ASSUME NEW r \in Runs, Working(r), topic[r] = a PROVE RecordedBeside(r, a)
  BY <1>2 DEF Known, Concerns
<1>3. ASSUME NEW r \in Runs, Record(r) PROVE Stands
  BY <1>0, <1>3 DEF Record, Base, TypeOK
<1>4. ASSUME row' = row, publishedAt' = publishedAt PROVE Stands
  BY <1>0, <1>4
<1>5. ASSUME NEW r \in Runs,
             \/ Begin(r) \/ BeginRefused(r) \/ MakeFails(r) \/ CycleThrows(r)
             \/ Land(r) \/ FanOut(r)
      PROVE  row' = row /\ publishedAt' = publishedAt
  BY <1>5 DEF Begin, BeginRefused, MakeFails, CycleThrows, Land, FanOut, rows
<1>6. Die \/ Tick \/ UNCHANGED vars => row' = row /\ publishedAt' = publishedAt
  BY DEF Die, Tick, vars, rows
<1>. QED  BY <1>1, <1>2, <1>3, <1>4, <1>5, <1>6 DEF Next, Working

\* For any cycles that overlap, a publish leaves its row only by the hand of a
\* cycle that was under way when another recorded it, and never its stamp.
THEOREM PublishesStand == Spec => PublishedStands
<1>1. Base /\ Known /\ [Next]_vars =>
         [\A a \in Articles : row[a] = "published" =>
              /\ publishedAt'[a] >= publishedAt[a]
              /\ \/ row'[a] = "published"
                 \/ \E r \in Runs :
                       /\ pc[r] \in {"making", "uploading", "landed"}
                       /\ topic[r] = a
                       /\ RecordedBeside(r, a)]_vars
  BY Standing
<1>. QED  BY <1>1, InitBase, NextBase, InitKnown, NextKnown, PTL
          DEF Spec, PublishedStands

-----------------------------------------------------------------------------
(* Uploads.                                                                *)

\* The cycles that may still claim an article, and those uploading it.
Wanting(a) == {r \in Runs : a \in pool[r] \/ (pc[r] = "making" /\ topic[r] = a)}
Sending(a) == {r \in Runs : pc[r] = "uploading" /\ topic[r] = a}

\* Attempts stay within the retire rule, counting those to come; every upload
\* was an attempt.
Tries == \A a \in Articles : attempts[a] + Cardinality(Wanting(a)) <= 2 + Overlap
Sent == \A a \in Articles : uploads[a] + Cardinality(Sending(a)) <= attempts[a]

LEMMA FiniteRuns ==
    ASSUME NEW F \in SUBSET Runs
    PROVE  /\ IsFiniteSet(F) /\ Cardinality(F) \in Nat
           /\ Cardinality(F) <= 1 + Overlap /\ Overlap \in Nat
<1>1. IsFiniteSet(Runs) /\ Cardinality(Runs) \in Nat /\ Overlap \in Nat
      /\ Overlap = Cardinality(Runs) - 1
  BY Finite
<1>2. IsFiniteSet(F) /\ Cardinality(F) <= Cardinality(Runs)
  BY <1>1, FS_Subset
<1>. QED  BY <1>1, <1>2, FS_CardinalityType

\* Fewer of a finite set of cycles.
LEMMA Fewer ==
    ASSUME NEW F \in SUBSET Runs, NEW G, G \subseteq F
    PROVE  /\ Cardinality(G) \in Nat /\ Cardinality(F) \in Nat
           /\ Cardinality(G) <= Cardinality(F)
           /\ \A r \in F \ G : Cardinality(G) + 1 <= Cardinality(F)
<1>1. IsFiniteSet(F) /\ Cardinality(F) \in Nat
  BY FiniteRuns
<1>2. IsFiniteSet(G) /\ Cardinality(G) <= Cardinality(F)
      /\ (Cardinality(F) = Cardinality(G) => F = G)
  BY <1>1, FS_Subset
<1>3. Cardinality(G) \in Nat
  BY <1>2, FS_CardinalityType
<1>. QED  BY <1>1, <1>2, <1>3

\* What a step does to an article's attempts: a cycle claims it, one that begins
\* takes it into its pool while it is fresh, or nobody new wants it.
LEMMA WhoWants ==
    ASSUME Base, [Next]_vars, NEW a \in Articles
    PROVE  \/ \E r \in Runs : Claim(r) /\ topic[r] = a
           \/ /\ attempts'[a] = attempts[a]
              /\ attempts[a] <= 1 \/ Wanting(a)' \subseteq Wanting(a)
<1>. DEFINE Quiet == /\ attempts'[a] = attempts[a]
                     /\ Wanting(a)' \subseteq Wanting(a)
<1>1. ASSUME NEW r \in Runs, Begin(r)
      PROVE  /\ attempts'[a] = attempts[a]
             /\ attempts[a] <= 1 \/ Wanting(a)' \subseteq Wanting(a)
  <2>1. attempts'[a] = attempts[a]
    BY <1>1 DEF Begin, rows
  <2>2. CASE a \in Fresh(clock)
    BY <2>1, <2>2 DEF Fresh, Base, TypeOK, Shape
  <2>3. CASE a \notin Fresh(clock)
    <3>1. PICK b \in Fresh(clock) :
             /\ pc' = [pc EXCEPT ![r] = "making"]
             /\ topic' = [topic EXCEPT ![r] = b]
             /\ pool' = [pool EXCEPT ![r] =
                   {c \in Fresh(clock) : PublisherRested(c, clock)} \ {b}]
      BY <1>1 DEF Begin, Take
    <3>2. r \notin Wanting(a)'
      BY <2>3, <3>1 DEF Wanting, Base, TypeOK
    <3>3. \A s \in Runs \ {r} : s \in Wanting(a)' => s \in Wanting(a)
      BY <3>1 DEF Wanting, Base, TypeOK
    <3>4. Wanting(a)' \subseteq Wanting(a)
      BY <3>2, <3>3 DEF Wanting
    <3>. QED  BY <2>1, <3>4
  <2>. QED  BY <2>2, <2>3, <2>1
<1>2. ASSUME NEW r \in Runs, Finish(r) PROVE Wanting(a)' \subseteq Wanting(a)
  BY <1>2 DEF Finish, Wanting, Base, TypeOK
<1>3. ASSUME NEW r \in Runs, Take(r, pool[r], corpus[r], started[r])
      PROVE  Wanting(a)' \subseteq Wanting(a)
  BY <1>3 DEF Take, Wanting, Base, TypeOK
<1>4. ASSUME NEW r \in Runs, MakeFails(r) \/ UploadThrows(r) PROVE Quiet
  <2>1. attempts' = attempts /\ GoOn(r)
    BY <1>4 DEF MakeFails, UploadThrows, MarkVideoFailed, rows
  <2>. QED  BY <1>2, <1>3, <2>1 DEF GoOn
<1>5. ASSUME NEW r \in Runs, CycleThrows(r) \/ FanOut(r) PROVE Quiet
  <2>1. attempts' = attempts /\ Finish(r)
    BY <1>5 DEF CycleThrows, FanOut, rows
  <2>. QED  BY <1>2, <2>1
<1>6. ASSUME NEW r \in Runs, Claim(r), topic[r] # a PROVE Quiet
  BY <1>6 DEF Claim, Wanting, Base, TypeOK
<1>7. ASSUME NEW r \in Runs, BeginRefused(r) \/ Land(r) \/ Record(r) PROVE Quiet
  BY <1>7 DEF BeginRefused, Land, Record, rows, Wanting, Base, TypeOK
<1>8. CASE Die
  <2>1. attempts' = attempts
    BY <1>8 DEF Die, rows
  <2>2. Wanting(a)' \subseteq Wanting(a)
    BY <1>8 DEF Die, Wanting
  <2>. QED  BY <2>1, <2>2
<1>9. CASE Tick \/ UNCHANGED vars
  BY <1>9 DEF Tick, vars, rows, Wanting
<1>. QED  BY <1>1, <1>4, <1>5, <1>6, <1>7, <1>8, <1>9 DEF Next

LEMMA NextTries == Base /\ Tries /\ [Next]_vars => Tries'
<1>. SUFFICES ASSUME Base, Tries, [Next]_vars, NEW a \in Articles
              PROVE  attempts'[a] + Cardinality(Wanting(a)') <= 2 + Overlap
  BY DEF Tries, Overlap
<1>1. /\ attempts[a] + Cardinality(Wanting(a)) <= 2 + Overlap
      /\ attempts[a] \in Nat /\ Overlap \in Nat
      /\ Wanting(a) \in SUBSET Runs /\ Wanting(a)' \in SUBSET Runs
  BY Finite DEF Tries, Base, TypeOK, Wanting
<1>2. Cardinality(Wanting(a)) \in Nat
  BY <1>1, FiniteRuns
<1>3. Cardinality(Wanting(a)') \in Nat /\ Cardinality(Wanting(a)') <= 1 + Overlap
  BY <1>1, FiniteRuns
<1>4. ASSUME NEW r \in Runs, Claim(r), topic[r] = a
      PROVE  attempts'[a] + Cardinality(Wanting(a)') <= 2 + Overlap
  <2>1. attempts'[a] = attempts[a] + 1
    BY <1>4 DEF Claim, Base, TypeOK
  <2>2. r \in Wanting(a) \ Wanting(a)' /\ Wanting(a)' \subseteq Wanting(a)
    BY <1>4 DEF Claim, Wanting, Base, TypeOK, Shape
  <2>3. Cardinality(Wanting(a)') + 1 <= Cardinality(Wanting(a))
    BY <1>1, <2>2, Fewer
  <2>. QED  BY <1>1, <1>2, <1>3, <2>1, <2>3
<1>5. ASSUME attempts'[a] = attempts[a], Wanting(a)' \subseteq Wanting(a)
      PROVE  attempts'[a] + Cardinality(Wanting(a)') <= 2 + Overlap
  <2>1. Cardinality(Wanting(a)') <= Cardinality(Wanting(a))
    BY <1>1, <1>5, Fewer
  <2>. QED  BY <1>1, <1>2, <1>3, <1>5, <2>1
<1>6. ASSUME attempts'[a] = attempts[a], attempts[a] <= 1
      PROVE  attempts'[a] + Cardinality(Wanting(a)') <= 2 + Overlap
  BY <1>1, <1>3, <1>6
<1>. QED  BY <1>4, <1>5, <1>6, WhoWants

\* What a step does to an article's uploads.
LEMMA WhoSends ==
    ASSUME Base, [Next]_vars, NEW a \in Articles
    PROVE  \/ \E r \in Runs : (Claim(r) \/ Land(r)) /\ topic[r] = a
           \/ /\ attempts'[a] = attempts[a] /\ uploads'[a] = uploads[a]
              /\ Sending(a)' \subseteq Sending(a)
<1>. DEFINE Quiet == /\ attempts'[a] = attempts[a] /\ uploads'[a] = uploads[a]
                     /\ Sending(a)' \subseteq Sending(a)
<1>1. ASSUME NEW r \in Runs, NEW left, NEW seen, NEW now,
             Finish(r) \/ Take(r, left, seen, now)
      PROVE  Sending(a)' \subseteq Sending(a)
  BY <1>1 DEF Finish, Take, Sending, Base, TypeOK
<1>2. ASSUME NEW r \in Runs, Begin(r) PROVE Quiet
  <2>1. /\ Take(r, {b \in Fresh(clock) : PublisherRested(b, clock)},
                PublishedSince(clock - StoryCooldown), clock)
        /\ attempts' = attempts /\ uploads' = uploads
    BY <1>2 DEF Begin, rows
  <2>2. Sending(a)' \subseteq Sending(a)
    BY <2>1 DEF Take, Sending, Base, TypeOK
  <2>. QED  BY <2>1, <2>2
<1>3. ASSUME NEW r \in Runs, MakeFails(r) \/ UploadThrows(r) PROVE Quiet
  <2>1. attempts' = attempts /\ uploads' = uploads /\ GoOn(r)
    BY <1>3 DEF MakeFails, UploadThrows, MarkVideoFailed, rows
  <2>2. Sending(a)' \subseteq Sending(a)
    BY <2>1 DEF GoOn, Finish, Take, Sending, Base, TypeOK
  <2>. QED  BY <2>1, <2>2
<1>4. ASSUME NEW r \in Runs, CycleThrows(r) \/ FanOut(r) PROVE Quiet
  <2>1. attempts' = attempts /\ uploads' = uploads /\ Finish(r)
    BY <1>4 DEF CycleThrows, FanOut, rows
  <2>. QED  BY <1>1, <2>1
<1>5. ASSUME NEW r \in Runs, Claim(r), topic[r] # a PROVE Quiet
  BY <1>5 DEF Claim, Sending, Base, TypeOK
<1>6. ASSUME NEW r \in Runs, Land(r), topic[r] # a PROVE Quiet
  BY <1>6 DEF Land, rows, Sending, Base, TypeOK
<1>7. ASSUME NEW r \in Runs, BeginRefused(r) \/ Record(r) PROVE Quiet
  BY <1>7 DEF BeginRefused, Record, rows, Sending, Base, TypeOK
<1>8. CASE Die
  BY <1>8 DEF Die, rows, Sending
<1>9. CASE Tick \/ UNCHANGED vars
  BY <1>9 DEF Tick, vars, rows, Sending
<1>. QED  BY <1>2, <1>3, <1>4, <1>5, <1>6, <1>7, <1>8, <1>9 DEF Next

LEMMA NextSent == Base /\ Sent /\ [Next]_vars => Sent'
<1>. SUFFICES ASSUME Base, Sent, [Next]_vars, NEW a \in Articles
              PROVE  uploads'[a] + Cardinality(Sending(a)') <= attempts'[a]
  BY DEF Sent
<1>1. /\ uploads[a] + Cardinality(Sending(a)) <= attempts[a]
      /\ attempts[a] \in Nat /\ uploads[a] \in Nat
      /\ Sending(a) \in SUBSET Runs /\ Sending(a)' \in SUBSET Runs
  BY DEF Sent, Base, TypeOK, Sending
<1>2. IsFiniteSet(Sending(a)) /\ Cardinality(Sending(a)) \in Nat
  BY <1>1, FiniteRuns
<1>3. Cardinality(Sending(a)') \in Nat
  BY <1>1, FiniteRuns
<1>4. ASSUME NEW r \in Runs, Claim(r), topic[r] = a
      PROVE  uploads'[a] + Cardinality(Sending(a)') <= attempts'[a]
  <2>1. attempts'[a] = attempts[a] + 1 /\ uploads'[a] = uploads[a]
    BY <1>4 DEF Claim, Base, TypeOK
  <2>2. Sending(a)' \subseteq Sending(a) \cup {r}
    BY <1>4 DEF Claim, Sending, Base, TypeOK
  <2>3. /\ Sending(a) \cup {r} \in SUBSET Runs
        /\ \/ Cardinality(Sending(a) \cup {r}) = Cardinality(Sending(a))
           \/ Cardinality(Sending(a) \cup {r}) = Cardinality(Sending(a)) + 1
    BY <1>1, <1>2, FS_AddElement
  <2>4. Cardinality(Sending(a)') <= Cardinality(Sending(a) \cup {r})
    BY <2>2, <2>3, Fewer
  <2>5. Cardinality(Sending(a)') <= Cardinality(Sending(a)) + 1
    BY <1>2, <1>3, <2>3, <2>4
  <2>. QED  BY <1>1, <1>2, <1>3, <2>1, <2>5
<1>5. ASSUME NEW r \in Runs, Land(r), topic[r] = a
      PROVE  uploads'[a] + Cardinality(Sending(a)') <= attempts'[a]
  <2>1. attempts'[a] = attempts[a] /\ uploads'[a] = uploads[a] + 1
    BY <1>5 DEF Land, rows, Base, TypeOK
  <2>2. r \in Sending(a) \ Sending(a)' /\ Sending(a)' \subseteq Sending(a)
    BY <1>5 DEF Land, Sending, Base, TypeOK
  <2>3. Cardinality(Sending(a)') + 1 <= Cardinality(Sending(a))
    BY <1>1, <2>2, Fewer
  <2>. QED  BY <1>1, <1>2, <1>3, <2>1, <2>3
<1>6. ASSUME attempts'[a] = attempts[a], uploads'[a] = uploads[a],
             Sending(a)' \subseteq Sending(a)
      PROVE  uploads'[a] + Cardinality(Sending(a)') <= attempts'[a]
  <2>1. Cardinality(Sending(a)') <= Cardinality(Sending(a))
    BY <1>1, <1>6, Fewer
  <2>. QED  BY <1>1, <1>2, <1>3, <1>6, <2>1
<1>. QED  BY <1>4, <1>5, <1>6, WhoSends

\* What landed is on the channel.
Landed == \A r \in Runs : pc[r] = "landed" => uploads[topic[r]] > 0

LEMMA NextLanded == Base /\ Landed /\ [Next]_vars => Landed'
<1>. SUFFICES ASSUME Base, Landed, [Next]_vars, NEW r \in Runs, pc'[r] = "landed"
              PROVE  uploads'[topic'[r]] > 0
  BY DEF Landed
<1>1. ASSUME pc[r] = "landed", topic'[r] = topic[r], uploads' = uploads
      PROVE  uploads'[topic'[r]] > 0
  BY <1>1 DEF Landed
<1>2. ASSUME NEW s \in Runs, Land(s) PROVE uploads'[topic'[r]] > 0
  <2>1. /\ topic' = topic /\ topic[s] \in Articles
        /\ uploads' = [uploads EXCEPT ![topic[s]] = uploads[topic[s]] + 1]
        /\ s # r => pc[r] = "landed"
        /\ \A a \in Articles : uploads[a] \in Nat
    BY <1>2 DEF Land, Base, TypeOK, Shape
  <2>2. uploads \in [Articles -> Nat] /\ topic[r] \in Articles
    BY <2>1 DEF Base, TypeOK, Shape
  <2>3. CASE topic[r] = topic[s]
    <3>1. uploads'[topic'[r]] = uploads[topic[s]] + 1 /\ uploads[topic[s]] \in Nat
      BY <2>1, <2>2, <2>3
    <3>. QED  BY <3>1
  <2>4. CASE topic[r] # topic[s]
    <3>1. uploads'[topic'[r]] = uploads[topic[r]] /\ pc[r] = "landed"
      BY <2>1, <2>2, <2>4
    <3>. QED  BY <3>1 DEF Landed
  <2>. QED  BY <2>3, <2>4
<1>3. ASSUME NEW s \in Runs, NEW left, NEW seen, NEW now,
             Finish(s) \/ Take(s, left, seen, now), uploads' = uploads
      PROVE  uploads'[topic'[r]] > 0
  <2>1. s # r
    BY <1>3 DEF Finish, Take, Base, TypeOK
  <2>2. pc[r] = "landed" /\ topic'[r] = topic[r]
    BY <1>3, <2>1 DEF Finish, Take, Base, TypeOK
  <2>. QED  BY <1>1, <1>3, <2>2
<1>4. ASSUME NEW s \in Runs, Begin(s) PROVE uploads'[topic'[r]] > 0
  BY <1>3, <1>4 DEF Begin
<1>5. ASSUME NEW s \in Runs, MakeFails(s) \/ UploadThrows(s)
      PROVE  uploads'[topic'[r]] > 0
  <2>1. uploads' = uploads /\ (Finish(s) \/ Take(s, pool[s], corpus[s], started[s]))
    BY <1>5 DEF MakeFails, UploadThrows, GoOn
  <2>. QED  BY <1>3, <2>1
<1>6. ASSUME NEW s \in Runs, CycleThrows(s) \/ FanOut(s) PROVE uploads'[topic'[r]] > 0
  <2>1. uploads' = uploads /\ Finish(s)
    BY <1>6 DEF CycleThrows, FanOut
  <2>. QED  BY <1>3, <2>1
<1>7. ASSUME NEW s \in Runs, Claim(s) \/ Record(s) \/ BeginRefused(s)
      PROVE  uploads'[topic'[r]] > 0
  <2>1. uploads' = uploads /\ topic' = topic /\ pc[r] = "landed"
    BY <1>7 DEF Claim, Record, BeginRefused, Base, TypeOK
  <2>. QED  BY <1>1, <2>1
<1>8. CASE Die
  BY <1>8 DEF Die
<1>9. CASE Tick \/ UNCHANGED vars
  <2>1. uploads' = uploads /\ topic' = topic /\ pc[r] = "landed"
    BY <1>9 DEF Tick, vars
  <2>. QED  BY <1>1, <2>1
<1>. QED  BY <1>2, <1>4, <1>5, <1>6, <1>7, <1>8, <1>9 DEF Next

Counted == Base /\ Tries /\ Sent /\ Landed

\* Claims, uploads and the cycles that may still add to either.
THEOREM CountedInvariance == Spec => []Counted
<1>1. Init => Tries /\ Sent /\ Landed
  <2>. SUFFICES ASSUME Init, NEW a \in Articles
                PROVE  /\ attempts[a] + Cardinality(Wanting(a)) <= 2 + Overlap
                       /\ uploads[a] + Cardinality(Sending(a)) <= attempts[a]
    BY DEF Tries, Sent, Init, Landed
  <2>1. /\ attempts[a] = 0 /\ uploads[a] = 0 /\ Sending(a) = {}
        /\ Wanting(a) = {}
    BY DEF Init, Sending, Wanting
  <2>2. Cardinality(Sending(a)) = 0 /\ Cardinality(Wanting(a)) = 0
    BY <2>1, FS_EmptySet
  <2>3. Overlap \in Nat
    BY Finite
  <2>. QED  BY <2>1, <2>2, <2>3
<1>2. Counted /\ [Next]_vars => Counted'
  BY NextBase, NextTries, NextSent, NextLanded DEF Counted
<1>. QED  BY <1>1, <1>2, InitBase, PTL DEF Spec, Counted

\* What is left to claim and to send of an article.
LEMMA Counts ==
    ASSUME Counted, NEW a \in Articles
    PROVE  /\ attempts[a] + Cardinality(Wanting(a)) <= 2 + Overlap
           /\ uploads[a] + Cardinality(Sending(a)) <= attempts[a]
           /\ attempts[a] \in Nat /\ uploads[a] \in Nat /\ Overlap \in Nat
           /\ Cardinality(Wanting(a)) \in Nat /\ Cardinality(Sending(a)) \in Nat
           /\ \A r \in Wanting(a) : Cardinality(Wanting(a)) >= 1
           /\ \A r \in Sending(a) : Cardinality(Sending(a)) >= 1
<1>1. /\ attempts[a] + Cardinality(Wanting(a)) <= 2 + Overlap
      /\ uploads[a] + Cardinality(Sending(a)) <= attempts[a]
      /\ attempts[a] \in Nat /\ uploads[a] \in Nat
      /\ Wanting(a) \in SUBSET Runs /\ Sending(a) \in SUBSET Runs
  BY DEF Counted, Tries, Sent, Base, TypeOK, Wanting, Sending
<1>2. /\ Cardinality(Wanting(a)) \in Nat /\ Cardinality(Sending(a)) \in Nat
      /\ Overlap \in Nat
  BY <1>1, FiniteRuns
<1>3. ASSUME NEW F \in SUBSET Runs, NEW r \in F PROVE Cardinality(F) >= 1
  <2>1. Cardinality({}) = 0 /\ Cardinality({}) + 1 <= Cardinality(F)
    BY <1>3, Fewer, FS_EmptySet
  <2>. QED  BY <2>1
<1>. QED  BY <1>1, <1>2, <1>3

\* The retire rule holds YouTube to two copies of an article, and one more for
\* every cycle that overlaps.
THEOREM UploadsAreBounded == Spec => []AtMostTwoUploads
<1>1. Counted => AtMostTwoUploads
  <2>. SUFFICES ASSUME Counted, NEW a \in Articles PROVE uploads[a] <= 2 + Overlap
    BY DEF AtMostTwoUploads
  <2>. QED  BY Counts
<1>. QED  BY <1>1, CountedInvariance, PTL

-----------------------------------------------------------------------------
(* The loop implements ClaimedPublishing.                                  *)

Recorded == {a \in Articles : publishedAt[a] # Never}

LEMMA InitPublishing == Init => Publishing!Init
BY DEF Init, Publishing!Init

\* Every step of the loop claims, sends or records one video, or is none of the
\* channel's business.
LEMMA StepPublishes == Counted /\ [Next]_vars => [Publishing!Next]_(Publishing!vars)
<1>. SUFFICES ASSUME Counted, [Next]_vars
              PROVE  [Publishing!Next]_(Publishing!vars)
  OBVIOUS
<1>1. ASSUME UNCHANGED <<attempts, uploads, publishedAt>>
      PROVE  [Publishing!Next]_(Publishing!vars)
  BY <1>1 DEF Publishing!vars
<1>2. ASSUME NEW r \in Runs, NEW a \in Articles, a = topic[r], Claim(r)
      PROVE  Publishing!Claim(a)
  <2>1. r \in Wanting(a)
    BY <1>2 DEF Claim, Wanting
  <2>2. attempts[a] < 2 + Overlap
    BY <2>1, Counts
  <2>. QED  BY <1>2, <2>2 DEF Claim, Publishing!Claim
<1>3. ASSUME NEW r \in Runs, NEW a \in Articles, a = topic[r], Land(r)
      PROVE  Publishing!Send(a)
  <2>1. r \in Sending(a)
    BY <1>3 DEF Land, Sending
  <2>2. uploads[a] < attempts[a]
    BY <2>1, Counts
  <2>. QED  BY <1>3, <2>2 DEF Land, rows, Publishing!Send
<1>4. ASSUME NEW r \in Runs, NEW a \in Articles, a = topic[r], Record(r)
      PROVE  Publishing!Record(a)
  <2>1. uploads[a] > 0
    BY <1>4 DEF Record, Counted, Landed
  <2>2. /\ publishedAt' = [publishedAt EXCEPT ![a] = clock] /\ clock # Never
        /\ UNCHANGED <<attempts, uploads>>
    BY <1>4, VideoAssumption
       DEF Record, Counted, Base, TypeOK, Time, Never, VideoAssumption
  <2>3. Recorded' = Recorded \cup {a}
    BY <2>2 DEF Recorded, Counted, Base, TypeOK
  <2>. QED  BY <2>1, <2>2, <2>3 DEF Publishing!Record, Recorded
<1>5. ASSUME NEW r \in Runs, Claim(r) \/ Land(r) \/ Record(r) PROVE Publishing!Next
  <2>1. topic[r] \in Articles
    BY <1>5 DEF Claim, Land, Record, Counted, Base, Shape
  <2>2. PICK a \in Articles : a = topic[r]
    BY <2>1
  <2>3. Publishing!Claim(a) \/ Publishing!Send(a) \/ Publishing!Record(a)
    BY <1>2, <1>3, <1>4, <1>5, <2>2
  <2>. QED  BY <2>3 DEF Publishing!Next
<1>6. ASSUME NEW r \in Runs,
             \/ Begin(r) \/ BeginRefused(r) \/ MakeFails(r) \/ CycleThrows(r)
             \/ UploadThrows(r) \/ FanOut(r)
      PROVE  UNCHANGED <<attempts, uploads, publishedAt>>
  BY <1>6 DEF Begin, BeginRefused, MakeFails, CycleThrows, UploadThrows, FanOut,
              MarkVideoFailed, rows
<1>7. Die \/ Tick \/ UNCHANGED vars => UNCHANGED <<attempts, uploads, publishedAt>>
  BY DEF Die, Tick, vars, rows
<1>. QED  BY <1>1, <1>5, <1>6, <1>7 DEF Next

\* The video loop publishes under claims, of which an article has two and one for
\* every cycle that overlaps, however many crash or lose an answer.
THEOREM VideosAreClaimed == Spec => PublishesUnderClaims
BY InitPublishing, StepPublishes, CountedInvariance, PTL
   DEF Spec, PublishesUnderClaims, Publishing!Spec

=============================================================================
