---------------------------- MODULE XQueue_proofs ----------------------------
(***************************************************************************)
(* The posting queue of X, for any articles, threads, plans, caps, windows *)
(* and number of digest requests.                                          *)
(*                                                                         *)
(* Three arguments over one base, TypeOK and the shape of a cycle:         *)
(*  - of an article the cycle has still to post no row is marked, and what *)
(*    is on X beyond its recorded chains is what this chain has sent;      *)
(*  - all marks are stamped no later than the cycle in flight, so the rows *)
(*    in its own window and what it has spent bound every other window;    *)
(*  - a row that is still pending was mailed once per mail that holds it   *)
(*    or went unmarked, and a row that is not will be mailed by no more    *)
(*    requests than hold it.                                               *)
(***************************************************************************)
EXTENDS XQueue, FiniteSetTheorems, TLAPS

\* A cycle has taken its article off the list, and between cycles none is listed.
CycleShape ==
    /\ article \notin listed
    /\ stage = "idle" => listed = {}

Base == TypeOK /\ CycleShape

\* How many of the first n posts of an article's chain carry a row's text.
Count(r, n) == Cardinality({i \in 1..n : Plan[r[1]][i] = r[2]})

-----------------------------------------------------------------------------
(* The data.                                                               *)

LEMMA RowFacts ==
    /\ \A r \in Rows : r[1] \in Articles /\ r[2] \in 1..Parts[r[1]]
                       /\ r = <<r[1], r[2]>> /\ r \in RowsOf(r[1])
    /\ \A a \in Articles : RowsOf(a) \subseteq Rows /\ RowsOf(a) # {}
    /\ \A a \in Articles : \A r \in RowsOf(a) : r[1] = a
<1>1. \A a \in Articles : Parts[a] \in Nat \ {0}
  BY XQueueAssumption DEF XQueueAssumption
<1>2. \A a \in Articles : <<a, 1>> \in RowsOf(a)
  BY <1>1 DEF RowsOf
<1>3. \A r \in Rows : \E a \in Articles : r \in {a} \X (1..Parts[a])
  BY DEF Rows
<1>4. \A a \in Articles : \A r \in {a} \X (1..Parts[a]) :
         r[1] = a /\ r[2] \in 1..Parts[a] /\ r = <<r[1], r[2]>>
  OBVIOUS
<1>5. \A a \in Articles : RowsOf(a) \subseteq Rows
  BY DEF Rows, RowsOf
<1>6. \A r \in Rows : r[1] \in Articles /\ r[2] \in 1..Parts[r[1]]
                       /\ r = <<r[1], r[2]>> /\ r \in RowsOf(r[1])
  BY <1>3, <1>4 DEF RowsOf
<1>7. \A a \in Articles : \A r \in RowsOf(a) : r[1] = a
  BY <1>4 DEF RowsOf
<1>8. \A a \in Articles : RowsOf(a) # {}
  BY <1>2
<1>. QED  BY <1>5, <1>6, <1>7, <1>8

LEMMA PlanFacts ==
    ASSUME NEW a \in Articles
    PROVE  /\ Len(Plan[a]) \in Nat
           /\ Plan[a] # <<>> => 1 \in 1..Len(Plan[a])
           /\ \A i \in 1..Len(Plan[a]) : <<a, Plan[a][i]>> \in RowsOf(a)
<1>1. Plan[a] \in Seq(Nat) /\ \A i \in 1..Len(Plan[a]) : Plan[a][i] \in 1..Parts[a]
  BY XQueueAssumption DEF XQueueAssumption
<1>2. Plan[a] # <<>> => Len(Plan[a]) > 0
  BY <1>1
<1>. QED  BY <1>1, <1>2 DEF RowsOf

LEMMA RowsAreFinite == IsFiniteSet(Rows)
<1>. DEFINE threads == {{a} \X (1..Parts[a]) : a \in Articles}
<1>1. IsFiniteSet(threads)
  <2>. DEFINE f == [a \in Articles |-> {a} \X (1..Parts[a])]
  <2>1. f \in Surjection(Articles, threads)
    BY DEF Surjection
  <2>. HIDE DEF f, threads
  <2>. QED  BY <2>1, FS_Surjection, XQueueAssumption DEF XQueueAssumption
<1>2. \A t \in threads : IsFiniteSet(t)
  <2>. SUFFICES ASSUME NEW a \in Articles PROVE IsFiniteSet({a} \X (1..Parts[a]))
    OBVIOUS
  <2>1. Parts[a] \in Int
    BY XQueueAssumption DEF XQueueAssumption
  <2>2. IsFiniteSet({a})
    BY FS_Singleton
  <2>3. IsFiniteSet(1..Parts[a])
    BY <2>1, FS_Interval
  <2>. QED  BY <2>2, <2>3, FS_Product
<1>. HIDE DEF threads
<1>3. IsFiniteSet(UNION threads)
  BY <1>1, <1>2, FS_UNION
<1>. QED  BY <1>3 DEF Rows, threads

LEMMA CountFacts ==
    ASSUME NEW r \in Rows
    PROVE  /\ Count(r, 0) = 0
           /\ \A n \in Nat : Count(r, n) \in Nat
           /\ \A n \in Nat : Count(r, n + 1) =
                 Count(r, n) + (IF Plan[r[1]][n + 1] = r[2] THEN 1 ELSE 0)
           /\ \A n, k \in Nat : n <= k => Count(r, n) <= Count(r, k)
           /\ Posts(r) = Count(r, Len(Plan[r[1]])) /\ Posts(r) \in Nat
<1>. DEFINE at(n) == {i \in 1..n : Plan[r[1]][i] = r[2]}
<1>1. ASSUME NEW n \in Nat PROVE IsFiniteSet(at(n)) /\ Cardinality(at(n)) \in Nat
  <2>1. IsFiniteSet(1..n)
    BY FS_Interval
  <2>2. at(n) \in SUBSET (1..n)
    OBVIOUS
  <2>. QED  BY <2>1, <2>2, FS_Subset, FS_CardinalityType
<1>2. Count(r, 0) = 0
  <2>1. at(0) = {}
    OBVIOUS
  <2>. QED  BY <2>1, FS_EmptySet DEF Count
<1>3. ASSUME NEW n \in Nat
      PROVE  Count(r, n + 1) =
                Count(r, n) + (IF Plan[r[1]][n + 1] = r[2] THEN 1 ELSE 0)
  <2>1. (n + 1) \notin at(n)
    OBVIOUS
  <2>2. at(n + 1) = IF Plan[r[1]][n + 1] = r[2] THEN at(n) \cup {n + 1} ELSE at(n)
    OBVIOUS
  <2>. HIDE DEF at
  <2>3. Cardinality(at(n + 1)) =
           Cardinality(at(n)) + (IF Plan[r[1]][n + 1] = r[2] THEN 1 ELSE 0)
    BY <1>1, <2>1, <2>2, FS_AddElement
  <2>. QED  BY <2>3 DEF Count, at
<1>4. ASSUME NEW n \in Nat, NEW k \in Nat, n <= k PROVE Count(r, n) <= Count(r, k)
  <2>1. at(n) \in SUBSET at(k)
    BY <1>4
  <2>2. IsFiniteSet(at(k))
    BY <1>1
  <2>3. Cardinality(at(n)) <= Cardinality(at(k))
    BY <2>1, <2>2, FS_Subset
  <2>. QED  BY <2>3 DEF Count
<1>5. Len(Plan[r[1]]) \in Nat
  BY RowFacts, PlanFacts
<1>. QED  BY <1>1, <1>2, <1>3, <1>4, <1>5 DEF Count, Posts

-----------------------------------------------------------------------------
(* What the steps do.                                                      *)

\* A cycle that goes on: it ends, or takes one of the articles that are left.
LEMMA NextChainDoes ==
    ASSUME NEW now \in Nat, NEW spent \in Nat, NEW left \in SUBSET Articles,
           NextChain(now, spent, left)
    PROVE  /\ listed' \subseteq left /\ article' \notin listed'
           /\ \/ /\ listed' = {} /\ article' = NoArticle /\ stage' = "idle"
                 /\ step' = 0 /\ began' = 0 /\ used' = 0
              \/ /\ article' \in left /\ stage' = "card" /\ step' = 1
                 /\ began' = now /\ used' = spent /\ Fits(article', spent)
<1>. DEFINE able == {a \in left : Fits(a, spent)}
<1>1. CASE able = {}
  <2>1. listed' = {} /\ article' = NoArticle /\ stage' = "idle"
        /\ step' = 0 /\ began' = 0 /\ used' = 0
    BY <1>1 DEF NextChain
  <2>. QED  BY <2>1
<1>2. CASE able # {}
  <2>1. PICK a \in able :
           /\ listed' = left \ {a} /\ article' = a /\ stage' = "card"
           /\ step' = 1 /\ began' = now /\ used' = spent
    BY <1>2 DEF NextChain
  <2>. QED  BY <2>1
<1>. QED  BY <1>1, <1>2

\* The base after a cycle goes on.
LEMMA NextChainShape ==
    ASSUME NEW now \in Nat, NEW spent \in Nat, NEW left \in SUBSET Articles,
           NextChain(now, spent, left)
    PROVE  /\ listed' \subseteq Articles
           /\ article' \in Articles \cup {NoArticle}
           /\ stage' \in {"idle", "card", "asked", "landed"}
           /\ stage' = "idle" <=> article' = NoArticle
           /\ article' # NoArticle => step' \in 1..Len(Plan[article'])
           /\ began' \in Nat /\ used' \in Nat
           /\ CycleShape'
<1>1. NoArticle \notin Articles
  BY XQueueAssumption DEF XQueueAssumption
<1>2. \A a \in Articles : Fits(a, spent) => 1 \in 1..Len(Plan[a])
  BY PlanFacts DEF Fits
<1>. QED  BY <1>1, <1>2, NextChainDoes DEF CycleShape

\* Rows leave the queue in one way: a pending one gets a final status, and a mark
\* is stamped with the cycle.
Retire(rows, state, stamp) ==
    /\ status' = [r \in Rows |-> IF r \in rows /\ Pending(r) THEN state ELSE status[r]]
    /\ markedAt' = [r \in Rows |-> IF r \in rows /\ Pending(r) /\ state = "marked_posted"
                                   THEN stamp ELSE markedAt[r]]

\* The poster's mark and what it may fail to write.
LEMMA MarkDoes ==
    ASSUME Base, article \in Articles, NEW rows \in SUBSET Rows,
           MarkXPostsPosted(rows)
    PROVE  \/ Retire(rows, "marked_posted", began) /\ unrecorded' = unrecorded
           \/ /\ Retire({}, "marked_posted", began)
              /\ unrecorded' = [unrecorded EXCEPT ![article] = @ + 1]
<1>1. /\ status = [r \in Rows |-> status[r]]
      /\ markedAt = [r \in Rows |-> markedAt[r]]
  BY DEF Base, TypeOK
<1>. QED  BY <1>1 DEF MarkXPostsPosted, MarkPosted, Retire

\* The end of a chain that marks the rows of its first n posts, or loses the mark,
\* and goes on with a given spending.
EndsAt(n, spent) ==
    /\ n \in 0..Len(Plan[article])
    /\ Done(n) \subseteq RowsOf(article)
    /\ n <= (IF stage = "landed" THEN step ELSE step - 1)
    /\ \/ spent = used /\ n = step - 1
       \/ spent = used + 1 /\ n = step /\ step = Len(Plan[article])
    /\ \/ /\ Retire(Done(n), "marked_posted", began) /\ unrecorded' = unrecorded
          /\ n = 0 => step = 1 /\ stage = "asked"
       \/ /\ Retire({}, "marked_posted", began)
          /\ unrecorded' = [unrecorded EXCEPT ![article] = @ + 1]
    /\ NextChain(began, spent, listed)

\* Every end of a chain but a death is of that form.
LEMMA ChainEnds ==
    ASSUME Base, ChainPosted \/ ChainFails
    PROVE  /\ article \in Articles
           /\ \E n, spent \in Nat : EndsAt(n, spent)
           /\ UNCHANGED <<clock, generated, digest, onX, mailed, unmarked>>
<1>1. /\ article \in Articles /\ step \in 1..Len(Plan[article])
      /\ Len(Plan[article]) \in Nat /\ step \in Nat
  <2>1. stage # "idle"
    BY DEF ChainPosted, ChainFails
  <2>2. article \in Articles /\ step \in 1..Len(Plan[article])
    BY <2>1 DEF Base, TypeOK
  <2>. QED  BY <2>2, PlanFacts
<1>2. \A n \in 0..Len(Plan[article]) : Done(n) \subseteq RowsOf(article)
  BY <1>1, PlanFacts DEF Done
<1>3. RowsOf(article) \subseteq Rows
  BY <1>1, RowFacts
<1>4. CASE ChainPosted
  <2>1. /\ stage = "landed" /\ step = Len(Plan[article])
        /\ MarkXPostsPosted(Done(step))
        /\ NextChain(began, used + 1, listed)
        /\ UNCHANGED <<clock, generated, digest, onX, mailed, unmarked>>
    BY <1>4 DEF ChainPosted
  <2>2. \/ Retire(Done(step), "marked_posted", began) /\ unrecorded' = unrecorded
        \/ /\ Retire({}, "marked_posted", began)
           /\ unrecorded' = [unrecorded EXCEPT ![article] = @ + 1]
    BY <1>1, <1>2, <1>3, <2>1, MarkDoes
  <2>3. used + 1 \in Nat /\ step \in 0..Len(Plan[article]) /\ step # 0
        /\ step <= step
    BY <1>1 DEF Base, TypeOK
  <2>4. EndsAt(step, used + 1)
    BY <1>1, <1>2, <2>1, <2>2, <2>3 DEF EndsAt
  <2>. QED  BY <1>1, <2>1, <2>3, <2>4
<1>5. CASE ChainFails
  <2>0. /\ used \in Nat /\ step - 1 \in Nat /\ step - 1 \in 0..Len(Plan[article])
        /\ step - 1 <= (IF stage = "landed" THEN step ELSE step - 1)
    BY <1>1 DEF Base, TypeOK
  <2>1. /\ stage \in {"asked", "landed"}
        /\ NextChain(began, used, listed)
        /\ UNCHANGED <<clock, generated, digest, onX, mailed, unmarked>>
    BY <1>5 DEF ChainFails
  <2>2. CASE step = 1 /\ stage = "landed"
    <3>1. unrecorded' = [unrecorded EXCEPT ![article] = @ + 1]
          /\ UNCHANGED <<status, markedAt>>
      BY <1>5, <2>2 DEF ChainFails
    <3>2. Retire({}, "marked_posted", began)
      BY <3>1 DEF Retire, Base, TypeOK
    <3>3. EndsAt(step - 1, used)
      BY <1>2, <2>0, <2>1, <3>1, <3>2 DEF EndsAt
    <3>. QED  BY <1>1, <2>0, <2>1, <3>3
  <2>3. CASE ~(step = 1 /\ stage = "landed")
    <3>1. MarkXPostsPosted(Done(step - 1))
      BY <1>5, <2>3 DEF ChainFails
    <3>2. \/ Retire(Done(step - 1), "marked_posted", began) /\ unrecorded' = unrecorded
          \/ /\ Retire({}, "marked_posted", began)
             /\ unrecorded' = [unrecorded EXCEPT ![article] = @ + 1]
      BY <1>1, <1>2, <1>3, <2>0, <3>1, MarkDoes
    <3>3. step - 1 = 0 => step = 1 /\ stage = "asked"
      BY <1>1, <2>1, <2>3
    <3>4. EndsAt(step - 1, used)
      BY <1>2, <2>0, <2>1, <3>2, <3>3 DEF EndsAt
    <3>. QED  BY <1>1, <2>0, <2>1, <3>4
  <2>. QED  BY <2>2, <2>3
<1>. QED  BY <1>4, <1>5
\* A post on X is one of the row the chain is at, and of no other.
LEMMA LandDoes ==
    ASSUME Base, Land
    PROVE  /\ article \in Articles
           /\ <<article, Plan[article][step]>> \in Rows
           /\ \A r \in Rows : onX'[r] =
                 IF r = <<article, Plan[article][step]>> THEN onX[r] + 1 ELSE onX[r]
           /\ onX' \in [Rows -> Nat]
<1>. DEFINE it == <<article, Plan[article][step]>>
<1>1. article \in Articles /\ step \in 1..Len(Plan[article])
  BY DEF Land, Base, TypeOK
<1>2. it \in Rows
  BY <1>1, PlanFacts, RowFacts
<1>3. onX' = [onX EXCEPT ![it] = @ + 1] /\ onX \in [Rows -> Nat]
  BY DEF Land, Base, TypeOK
<1>. HIDE DEF it
<1>4. onX' \in [Rows -> Nat]
      /\ \A r \in Rows : onX'[r] = IF r = it THEN onX[r] + 1 ELSE onX[r]
  BY <1>2, <1>3
<1>. QED  BY <1>1, <1>2, <1>4 DEF it

\* The digest and the housekeeping retire rows under other states.
LEMMA OthersRetire ==
    ASSUME Base, Sweep \/ ClearBacklog \/ \E m \in Mailers : MarkDigestSent(m)
    PROVE  /\ \E rows, state : /\ state \in {"sent_in_digest", "rejected"}
                               /\ Retire(rows, state, 0)
           /\ UNCHANGED <<clock, generated, poster, world>>
<1>1. markedAt = [r \in Rows |-> markedAt[r]]
  BY DEF Base, TypeOK
<1>2. ASSUME NEW cutoff, RejectBefore(cutoff)
      PROVE  /\ Retire({r \in Rows : generated[r[1]] < cutoff}, "rejected", 0)
             /\ UNCHANGED <<clock, generated, poster, world>>
  BY <1>1, <1>2 DEF RejectBefore, Retire
<1>3. ASSUME NEW m \in Mailers, MarkDigestSent(m)
      PROVE  /\ Retire(batch[m], "sent_in_digest", 0)
             /\ UNCHANGED <<clock, generated, poster, world>>
  BY <1>1, <1>3 DEF MarkDigestSent, Retire
<1>. QED  BY <1>2, <1>3 DEF Sweep, ClearBacklog

\* A row that was retired keeps its type.
LEMMA RetireTypes ==
    ASSUME Base, NEW rows, NEW state \in Statuses, NEW stamp \in Nat,
           Retire(rows, state, stamp)
    PROVE  /\ status' \in [Rows -> Statuses] /\ markedAt' \in [Rows -> Nat]
           /\ \A r \in Rows :
                 /\ status'[r] = IF r \in rows /\ Pending(r) THEN state ELSE status[r]
                 /\ ~(r \in rows /\ Pending(r) /\ state = "marked_posted")
                       => markedAt'[r] = markedAt[r]
                 /\ r \in rows /\ Pending(r) /\ state = "marked_posted"
                       => markedAt'[r] = stamp
BY DEF Retire, Base, TypeOK

LEMMA EndsTypes ==
    ASSUME Base, ChainPosted \/ ChainFails
    PROVE  /\ status' \in [Rows -> Statuses] /\ markedAt' \in [Rows -> Nat]
           /\ unrecorded' \in [Articles -> Nat]
<1>1. PICK n \in Nat, spent \in Nat : EndsAt(n, spent)
  BY ChainEnds
<1>2. "marked_posted" \in Statuses /\ began \in Nat
  BY DEF Statuses, Base, TypeOK
<1>3. \E rows : Retire(rows, "marked_posted", began)
  BY <1>1 DEF EndsAt
<1>4. unrecorded' \in [Articles -> Nat]
  BY <1>1, ChainEnds DEF EndsAt, Base, TypeOK
<1>. QED  BY <1>2, <1>3, <1>4, RetireTypes

-----------------------------------------------------------------------------
(* The base.                                                               *)

LEMMA InitBase == Init => Base
<1>1. NoArticle \notin Articles
  BY XQueueAssumption DEF XQueueAssumption
<1>. QED  BY <1>1 DEF Init, Base, TypeOK, CycleShape, Statuses

\* The steps of the poster.
LEMMA PosterBase ==
    ASSUME Base,
           \/ Begin \/ CardReady \/ Land \/ Answered
           \/ ChainPosted \/ ChainFails \/ Die
    PROVE  Base'
<1>0. stage # "idle" => article \in Articles /\ article # NoArticle
  BY DEF Base, TypeOK
<1>1. CASE Begin
  <2>1. PICK top \in Newest({r[1] : r \in FreshRows}, ArticlesPerCycle) :
           NextChain(clock, Cardinality(RowsPostedSince(clock - Day)),
                     {a \in top : Whole(a)})
    BY <1>1 DEF Begin
  <2>2. {a \in top : Whole(a)} \in SUBSET Articles
    BY RowFacts DEF Newest, FreshRows
  <2>3. Cardinality(RowsPostedSince(clock - Day)) \in Nat
    <3>1. RowsPostedSince(clock - Day) \in SUBSET Rows
      BY DEF RowsPostedSince
    <3>. QED  BY <3>1, RowsAreFinite, FS_Subset, FS_CardinalityType
  <2>4. clock \in Nat
    BY DEF Base, TypeOK
  <2>5. UNCHANGED <<clock, queue, digest, world>>
    BY <1>1 DEF Begin
  <2>. QED  BY <2>1, <2>2, <2>3, <2>4, <2>5, NextChainShape
            DEF Base, TypeOK, queue, digest, world
<1>2. CASE CardReady
  BY <1>0, <1>2 DEF CardReady, Base, TypeOK, CycleShape, queue, digest, world
<1>3. CASE Land
  <2>1. onX' \in [Rows -> Nat]
    BY <1>3, LandDoes DEF Base, TypeOK
  <2>. QED  BY <1>0, <1>3, <2>1 DEF Land, Base, TypeOK, CycleShape, queue, digest
<1>4. CASE Answered
  <2>1. step + 1 \in 1..Len(Plan[article])
    BY <1>0, <1>4, PlanFacts DEF Answered, Base, TypeOK
  <2>. QED  BY <1>0, <1>4, <2>1
            DEF Answered, Base, TypeOK, CycleShape, queue, digest, world
<1>5. CASE ChainPosted \/ ChainFails
  <2>1. PICK n \in Nat, spent \in Nat : EndsAt(n, spent)
    BY <1>5, ChainEnds
  <2>2. began \in Nat /\ listed \in SUBSET Articles /\ NextChain(began, spent, listed)
    BY <2>1 DEF EndsAt, Base, TypeOK
  <2>3. UNCHANGED <<clock, generated, digest, onX, mailed, unmarked>>
    BY <1>5, ChainEnds
  <2>. QED  BY <1>5, <2>2, <2>3, EndsTypes, NextChainShape DEF Base, TypeOK, digest
<1>6. CASE Die
  <2>1. unrecorded' \in [Articles -> Nat]
    BY <1>0, <1>6 DEF Die, Base, TypeOK
  <2>2. NoArticle \notin Articles
    BY XQueueAssumption DEF XQueueAssumption
  <2>. QED  BY <1>6, <2>1, <2>2 DEF Die, Base, TypeOK, CycleShape, queue, digest
<1>. QED  BY <1>1, <1>2, <1>3, <1>4, <1>5, <1>6

\* Every step keeps the base.
LEMMA NextBase == Base /\ [Next]_vars => Base'
<1>. SUFFICES ASSUME Base, [Next]_vars PROVE Base'
  OBVIOUS
<1>1. ASSUME NEW a \in Articles, Enqueue(a) PROVE Base'
  BY <1>1 DEF Enqueue, Base, TypeOK, CycleShape, Statuses, poster, digest, world
<1>2. ASSUME NEW m \in Mailers, StartDigest(m) PROVE Base'
  <2>1. batch' \in [Mailers -> SUBSET Rows]
    BY <1>2 DEF StartDigest, Digestible, Base, TypeOK
  <2>. QED  BY <1>2, <2>1 DEF StartDigest, Base, TypeOK, CycleShape, queue, poster, world
<1>3. ASSUME NEW m \in Mailers, Deliver(m) PROVE Base'
  <2>1. mailed' \in [Rows -> Nat] /\ delivered' \in [Mailers -> BOOLEAN]
    BY <1>3 DEF Deliver, Base, TypeOK
  <2>. QED  BY <1>3, <2>1 DEF Deliver, Base, TypeOK, CycleShape, queue, poster
<1>4. ASSUME NEW m \in Mailers, DigestFails(m) PROVE Base'
  BY <1>4 DEF DigestFails, EndDigest, Base, TypeOK, CycleShape, queue, poster
<1>5. ASSUME Sweep \/ ClearBacklog \/ \E m \in Mailers : MarkDigestSent(m)
      PROVE  Base'
  <2>1. status' \in [Rows -> Statuses] /\ markedAt' \in [Rows -> Nat]
    BY <1>5, OthersRetire, RetireTypes DEF Statuses
  <2>2. UNCHANGED <<clock, generated, poster, world>>
    BY <1>5, OthersRetire
  <2>3. batch' \in [Mailers -> SUBSET Rows] /\ delivered' \in [Mailers -> BOOLEAN]
    BY <1>5 DEF Sweep, ClearBacklog, RejectBefore, MarkDigestSent, EndDigest,
                digest, Base, TypeOK
  <2>. QED  BY <2>1, <2>2, <2>3 DEF Base, TypeOK, CycleShape, poster, world
<1>6. CASE Tick
  BY <1>6 DEF Tick, Base, TypeOK, CycleShape, queue, poster, digest, world
<1>7. CASE UNCHANGED vars
  BY <1>7 DEF vars, Base, TypeOK, CycleShape
<1>. QED  BY <1>1, <1>2, <1>3, <1>4, <1>5, <1>6, <1>7, PosterBase DEF Next

THEOREM BaseInvariance == Spec => []Base
BY InitBase, NextBase, PTL DEF Spec

\* Type correctness, for any threads and plans.
THEOREM TypeCorrect == Spec => []TypeOK
<1>1. Base => TypeOK
  BY DEF Base
<1>. QED  BY <1>1, BaseInvariance, PTL
-----------------------------------------------------------------------------
(* What the cycle has still to post, and what it has posted.               *)

\* The articles a cycle may still post, or is posting.
Ahead == {a \in Articles : a \in listed \/ a = article}

\* None of their rows is marked, or was never written.
Considered ==
    \A a \in Ahead : \A r \in RowsOf(a) : status[r] \notin {"none", "marked_posted"}

\* How many posts of its chain the cycle has sent.
Went == IF stage = "landed" THEN step ELSE step - 1

\* What a row may have on X besides its share in every chain that went
\* unrecorded: what this chain has sent, nothing while its article is untouched,
\* one whole chain once a row of the article was retired.
Untouched(a) == \A r \in RowsOf(a) : Pending(r) \/ status[r] = "none"
Recorded(r) ==
    IF r[1] = article THEN Count(r, Went)
    ELSE IF r[1] \in listed \/ Untouched(r[1]) THEN 0 ELSE Posts(r)
Repeats ==
    \A r \in Rows : onX[r] <= Posts(r) * unrecorded[r[1]] + Recorded(r)

\* Whatever is marked, and whatever this chain has sent, is on X.
SentIsOut ==
    /\ MarkedWentOut
    /\ article # NoArticle =>
          \A i \in 1..Went : onX[<<article, Plan[article][i]>>] > 0

Posting == Considered /\ Repeats /\ SentIsOut

LEMMA WentFacts ==
    ASSUME Base, article # NoArticle
    PROVE  /\ article \in Articles /\ Went \in Nat /\ Went <= Len(Plan[article])
           /\ step \in 1..Len(Plan[article]) /\ Len(Plan[article]) \in Nat
<1>1. article \in Articles /\ step \in 1..Len(Plan[article])
  BY DEF Base, TypeOK
<1>. QED  BY <1>1, PlanFacts DEF Went

\* What is allowed besides the unrecorded chains is never more than one chain.
LEMMA RecordedBound ==
    ASSUME Base, NEW r \in Rows
    PROVE  Recorded(r) \in Nat /\ Recorded(r) <= Posts(r) /\ Posts(r) \in Nat
<1>1. NoArticle \notin Articles /\ r[1] \in Articles
  BY XQueueAssumption, RowFacts DEF XQueueAssumption
<1>2. CASE r[1] = article
  <2>1. Went \in Nat /\ Went <= Len(Plan[r[1]]) /\ Len(Plan[r[1]]) \in Nat
    BY <1>1, <1>2, WentFacts
  <2>2. Count(r, Went) \in Nat /\ Count(r, Went) <= Count(r, Len(Plan[r[1]]))
    BY <2>1, CountFacts
  <2>. QED  BY <1>2, <2>2, CountFacts DEF Recorded
<1>3. CASE r[1] # article
  BY <1>3, CountFacts DEF Recorded
<1>. QED  BY <1>2, <1>3

\* One more chain gone unrecorded makes room for a whole chain.
LEMMA OneMoreChain ==
    ASSUME NEW p \in Nat, NEW u \in Nat
    PROVE  p * (u + 1) = p * u + p /\ p * u \in Nat
OBVIOUS

LEMMA InitPosting == Init => Posting
<1>. SUFFICES ASSUME Init PROVE Posting
  OBVIOUS
<1>1. Base /\ Ahead = {} /\ article = NoArticle
  BY InitBase, XQueueAssumption DEF Init, Ahead, XQueueAssumption
<1>2. ASSUME NEW r \in Rows
      PROVE  onX[r] <= Posts(r) * unrecorded[r[1]] + Recorded(r)
  <2>1. onX[r] = 0 /\ unrecorded[r[1]] = 0
    BY RowFacts DEF Init
  <2>. QED  BY <1>1, <2>1, RecordedBound
<1>3. MarkedWentOut
  BY DEF Init, MarkedWentOut
<1>. QED  BY <1>1, <1>2, <1>3 DEF Posting, Considered, Repeats, SentIsOut

\* A row retired beside the cycle, under another state than marked.
LEMMA RetireKeeps ==
    ASSUME Base, Posting, NEW rows, NEW state \in {"sent_in_digest", "rejected"},
           Retire(rows, state, 0),
           UNCHANGED <<clock, generated, poster, world>>
    PROVE  Posting'
<1>0. /\ UNCHANGED <<listed, article, stage, step, onX, unrecorded>>
      /\ Ahead' = Ahead /\ Went' = Went
  BY DEF poster, world, Ahead, Went
<1>1. \A r \in Rows : \/ status'[r] = status[r]
                      \/ Pending(r) /\ status'[r] = state
  BY DEF Retire
<1>2. Considered'
  BY <1>0, <1>1, RowFacts DEF Posting, Considered, Ahead
<1>3. ASSUME NEW r \in Rows
      PROVE  onX'[r] <= Posts(r) * unrecorded'[r[1]] + Recorded(r)'
  <2>1. Untouched(r[1])' => Untouched(r[1])
    BY <1>1, RowFacts DEF Untouched, Pending
  <2>2. Recorded(r) <= Recorded(r)'
    BY <1>0, <2>1, RecordedBound DEF Recorded
  <2>3. onX[r] <= Posts(r) * unrecorded[r[1]] + Recorded(r)
    BY DEF Posting, Repeats
  <2>4. /\ onX[r] \in Nat /\ unrecorded[r[1]] \in Nat
        /\ Posts(r) \in Nat /\ Recorded(r) \in Nat
        /\ Recorded(r)' \in {Recorded(r), Posts(r)}
    BY <1>0, <2>1, RowFacts, RecordedBound DEF Base, TypeOK, Recorded
  <2>5. Posts(r) * unrecorded[r[1]] \in Nat
    BY <2>4, OneMoreChain
  <2>. QED  BY <1>0, <2>2, <2>3, <2>4, <2>5
<1>4. SentIsOut'
  BY <1>0, <1>1 DEF Posting, SentIsOut, MarkedWentOut
<1>. QED  BY <1>2, <1>3, <1>4 DEF Posting, Repeats
\* The cycle leaves its article, with the rows of its first n posts marked or with
\* one more chain unrecorded, and goes on with the others or with none.
LEMMA ArticleLeft ==
    ASSUME Base, Posting, article \in Articles, NEW n \in 0..Went,
           \/ /\ Retire(Done(n), "marked_posted", began) /\ unrecorded' = unrecorded
              /\ n = 0 => Went = 0
           \/ /\ Retire({}, "marked_posted", began)
              /\ unrecorded' = [unrecorded EXCEPT ![article] = @ + 1],
           listed' \subseteq listed, article' \in listed \cup {NoArticle},
           article' # NoArticle => Went' = 0,
           onX' = onX
    PROVE  Posting'
<1>0. /\ NoArticle \notin Articles /\ article # NoArticle /\ article \notin listed
      /\ listed \subseteq Articles
  BY XQueueAssumption DEF XQueueAssumption, Base, TypeOK, CycleShape
<1>1. /\ NoArticle \notin Articles /\ article # NoArticle /\ article \notin listed
      /\ listed \subseteq Articles
      /\ Went \in Nat /\ Went <= Len(Plan[article]) /\ Len(Plan[article]) \in Nat
      /\ n \in Nat /\ n <= Went
  BY <1>0, WentFacts
<1>2. Done(n) \subseteq RowsOf(article)
      /\ \A i \in 1..n : <<article, Plan[article][i]>> \in Rows
                         /\ <<article, Plan[article][i]>> \in RowsOf(article)
  BY <1>1, PlanFacts, RowFacts DEF Done
<1>3. \A r \in Rows : \/ status'[r] = status[r]
                      \/ /\ r \in Done(n) /\ Pending(r)
                         /\ status'[r] = "marked_posted"
  BY DEF Retire
<1>4. \A r \in Rows : r[1] # article => status'[r] = status[r]
  BY <1>2, <1>3, RowFacts
<1>5. Considered'
  <2>1. Ahead' \subseteq listed
    BY <1>1 DEF Ahead
  <2>2. \A a \in Ahead' : a \in Ahead /\ a # article
    BY <1>1, <2>1 DEF Ahead
  <2>3. \A a \in Ahead' : \A r \in RowsOf(a) : status'[r] = status[r]
    BY <1>4, <2>2, RowFacts DEF Ahead
  <2>. QED  BY <2>2, <2>3 DEF Posting, Considered
<1>6. ASSUME NEW r \in Rows
      PROVE  onX'[r] <= Posts(r) * unrecorded'[r[1]] + Recorded(r)'
  <2>0. /\ r[1] \in Articles /\ onX[r] \in Nat /\ unrecorded[r[1]] \in Nat
        /\ onX[r] <= Posts(r) * unrecorded[r[1]] + Recorded(r)
        /\ Recorded(r) \in Nat /\ Recorded(r) <= Posts(r) /\ Posts(r) \in Nat
    BY RowFacts, RecordedBound DEF Posting, Repeats, Base, TypeOK
  <2>1. Posts(r) * unrecorded[r[1]] \in Nat
        /\ Posts(r) * (unrecorded[r[1]] + 1)
              = Posts(r) * unrecorded[r[1]] + Posts(r)
    BY <2>0, OneMoreChain
  <2>2. Recorded(r)' \in Nat
    <3>1. Count(r, 0) = 0
      BY CountFacts
    <3>2. r[1] = article' => Recorded(r)' = 0
      BY <1>1, <2>0, <3>1 DEF Recorded
    <3>3. r[1] # article' => Recorded(r)' \in {0, Posts(r)}
      BY DEF Recorded
    <3>. QED  BY <2>0, <3>2, <3>3
  <2>3. CASE r[1] = article
    <3>1. Recorded(r) = Count(r, Went)
      BY <2>3 DEF Recorded
    <3>2. CASE unrecorded' = [unrecorded EXCEPT ![article] = @ + 1]
      <4>1. unrecorded'[r[1]] = unrecorded[r[1]] + 1
        BY <2>0, <2>3, <3>2 DEF Base, TypeOK
      <4>. QED  BY <2>0, <2>1, <2>2, <4>1
    <3>3. CASE unrecorded' = unrecorded /\ n = 0 /\ Went = 0
      <4>1. Recorded(r) = 0
        BY <3>1, <3>3, CountFacts
      <4>. QED  BY <2>0, <2>1, <2>2, <3>3, <4>1
    <3>4. CASE unrecorded' = unrecorded /\ n # 0
                /\ Retire(Done(n), "marked_posted", began)
      <4>. DEFINE q == <<article, Plan[article][1]>>
      <4>1. q \in Rows /\ q \in RowsOf(article) /\ q \in Done(n)
        BY <1>1, <1>2, <3>4 DEF Done
      <4>2. status[q] \notin {"none", "marked_posted"}
        BY <1>1, <4>1 DEF Posting, Considered, Ahead
      <4>3. status'[q] \notin {"none", "pending"}
        BY <3>4, <4>1, <4>2 DEF Retire, Pending
      <4>4. ~Untouched(r[1])'
        BY <2>3, <4>1, <4>3 DEF Untouched, Pending
      <4>5. r[1] # article' /\ r[1] \notin listed'
        BY <1>1, <2>3
      <4>6. Recorded(r)' = Posts(r)
        BY <4>4, <4>5 DEF Recorded
      <4>. QED  BY <2>0, <2>1, <3>4, <4>6
    <3>. QED  BY <3>2, <3>3, <3>4
  <2>4. CASE r[1] # article
    <3>1. unrecorded'[r[1]] = unrecorded[r[1]]
      BY <2>0, <2>4 DEF Base, TypeOK
    <3>2. CASE r[1] \in listed
      <4>1. Recorded(r) = 0
        BY <2>4, <3>2 DEF Recorded
      <4>. QED  BY <2>0, <2>1, <2>2, <3>1, <4>1
    <3>3. CASE r[1] \notin listed
      <4>1. r[1] # article' /\ r[1] \notin listed'
        BY <1>1, <2>0, <3>3
      <4>2. Untouched(r[1])' = Untouched(r[1])
        BY <1>4, <2>0, <2>4, RowFacts DEF Untouched, Pending
      <4>3. Recorded(r)' = Recorded(r)
        BY <2>4, <3>3, <4>1, <4>2 DEF Recorded
      <4>. QED  BY <2>0, <3>1, <4>3
    <3>. QED  BY <3>2, <3>3
  <2>. QED  BY <2>3, <2>4
<1>7. SentIsOut'
  <2>1. \A r \in Done(n) : onX[r] > 0
    BY <1>1 DEF Posting, SentIsOut, Done
  <2>2. MarkedWentOut'
    BY <1>3, <2>1 DEF Posting, SentIsOut, MarkedWentOut
  <2>3. article' # NoArticle => 1..Went' = {}
    BY <1>1
  <2>. QED  BY <2>2, <2>3 DEF SentIsOut
<1>. QED  BY <1>5, <1>6, <1>7 DEF Posting, Repeats
\* A cycle begins, with whole articles only: all their rows are pending.
LEMMA BeginKeeps == Base /\ Posting /\ Begin => Posting'
<1>. SUFFICES ASSUME Base, Posting, Begin PROVE Posting'
  OBVIOUS
<1>. DEFINE spent == Cardinality(RowsPostedSince(clock - Day))
<1>1. PICK top \in Newest({r[1] : r \in FreshRows}, ArticlesPerCycle) :
         NextChain(clock, spent, {a \in top : Whole(a)})
  BY DEF Begin
<1>. DEFINE left == {a \in top : Whole(a)}
<1>2. /\ left \in SUBSET Articles
      /\ \A a \in left : \A r \in RowsOf(a) : Pending(r)
  BY RowFacts DEF Newest, FreshRows, Whole
<1>3. spent \in Nat /\ clock \in Nat
  <2>1. RowsPostedSince(clock - Day) \in SUBSET Rows
    BY DEF RowsPostedSince
  <2>2. clock \in Nat
    BY DEF Base, TypeOK
  <2>. QED  BY <2>1, <2>2, RowsAreFinite, FS_Subset, FS_CardinalityType
<1>. HIDE DEF spent, left
<1>4. /\ listed' \subseteq left
      /\ \/ article' = NoArticle
         \/ article' \in left /\ stage' = "card" /\ step' = 1
  <2>1. NextChain(clock, spent, left)
    BY <1>1 DEF left
  <2>. QED  BY <1>2, <1>3, <2>1, NextChainDoes
<1>5. /\ UNCHANGED <<status, onX, unrecorded>>
      /\ article = NoArticle /\ listed = {} /\ NoArticle \notin Articles
  BY XQueueAssumption
     DEF Begin, queue, world, Base, TypeOK, CycleShape, XQueueAssumption
<1>6. Considered'
  <2>1. Ahead' \subseteq left
    BY <1>2, <1>4, <1>5 DEF Ahead
  <2>. QED  BY <1>2, <1>5, <2>1 DEF Considered, Pending
<1>7. article' # NoArticle => Went' = 0
  BY <1>4 DEF Went
<1>8. ASSUME NEW r \in Rows PROVE Recorded(r)' = Recorded(r)
  <2>0. r[1] \in Articles /\ Count(r, 0) = 0
    BY RowFacts, CountFacts
  <2>1. Untouched(r[1])' = Untouched(r[1])
    BY <1>5 DEF Untouched, Pending
  <2>2. Recorded(r) = IF Untouched(r[1]) THEN 0 ELSE Posts(r)
    BY <1>5, <2>0 DEF Recorded
  <2>3. CASE r[1] \in left
    <3>1. Untouched(r[1])
      BY <1>2, <2>3 DEF Untouched
    <3>2. r[1] = article' => Recorded(r)' = 0
      BY <1>5, <1>7, <2>0 DEF Recorded
    <3>3. r[1] # article' => Recorded(r)' = 0
      BY <2>1, <3>1 DEF Recorded
    <3>. QED  BY <2>2, <3>1, <3>2, <3>3
  <2>4. CASE r[1] \notin left
    <3>1. r[1] # article' /\ r[1] \notin listed'
      BY <1>4, <1>5, <2>0, <2>4
    <3>. QED  BY <2>1, <2>2, <3>1 DEF Recorded
  <2>. QED  BY <2>3, <2>4
<1>9. Repeats'
  BY <1>5, <1>8 DEF Posting, Repeats
<1>10. SentIsOut'
  <2>1. article' # NoArticle => 1..Went' = {}
    BY <1>7
  <2>. QED  BY <1>5, <2>1 DEF Posting, SentIsOut, MarkedWentOut
<1>. QED  BY <1>6, <1>9, <1>10 DEF Posting

\* The cycle moves along its chain and nothing goes out.
LEMMA WaitKeeps == Base /\ Posting /\ (CardReady \/ Answered) => Posting'
<1>. SUFFICES ASSUME Base, Posting, CardReady \/ Answered PROVE Posting'
  OBVIOUS
<1>1. UNCHANGED <<status, listed, article, onX, unrecorded>>
  BY DEF CardReady, Answered, queue, world
<1>2. article \in Articles /\ step \in Nat
  <2>1. stage # "idle"
    BY DEF CardReady, Answered
  <2>2. article # NoArticle
    BY <2>1 DEF Base, TypeOK
  <2>. QED  BY <2>2, WentFacts
<1>3. Went' = Went
  BY <1>2 DEF CardReady, Answered, Went
<1>4. Considered' /\ SentIsOut'
  BY <1>1, <1>3 DEF Posting, Considered, Ahead, SentIsOut, MarkedWentOut
<1>5. \A r \in Rows : Recorded(r)' = Recorded(r)
  BY <1>1, <1>3 DEF Recorded, Untouched, Pending
<1>. QED  BY <1>1, <1>4, <1>5 DEF Posting, Repeats

\* A post lands: one more post of its row, and one more sent.
LEMMA LandKeeps == Base /\ Posting /\ Land => Posting'
<1>. SUFFICES ASSUME Base, Posting, Land PROVE Posting'
  OBVIOUS
<1>. DEFINE it == <<article, Plan[article][step]>>
<1>1. /\ UNCHANGED <<status, listed, article, step, unrecorded>>
      /\ stage = "asked" /\ stage' = "landed"
  BY DEF Land, queue
<1>2. /\ article \in Articles /\ article # NoArticle /\ step \in Nat
      /\ step \in 1..Len(Plan[article]) /\ step - 1 \in Nat
      /\ Went = step - 1 /\ Went' = step
  <2>1. article # NoArticle
    BY <1>1 DEF Base, TypeOK
  <2>. QED  BY <1>1, <2>1, WentFacts DEF Went
<1>3. it \in Rows
      /\ \A r \in Rows : onX'[r] = IF r = it THEN onX[r] + 1 ELSE onX[r]
  BY LandDoes
<1>4. Considered'
  BY <1>1 DEF Posting, Considered, Ahead
<1>5. ASSUME NEW r \in Rows
      PROVE  onX'[r] <= Posts(r) * unrecorded'[r[1]] + Recorded(r)'
  <2>0. /\ r[1] \in Articles /\ r = <<r[1], r[2]>>
        /\ onX[r] \in Nat /\ unrecorded[r[1]] \in Nat
        /\ onX[r] <= Posts(r) * unrecorded[r[1]] + Recorded(r)
        /\ Recorded(r) \in Nat /\ Posts(r) \in Nat
    BY RowFacts, RecordedBound DEF Posting, Repeats, Base, TypeOK
  <2>1. Posts(r) * unrecorded[r[1]] \in Nat
    BY <2>0, OneMoreChain
  <2>2. CASE r[1] = article
    <3>1. Recorded(r) = Count(r, step - 1) /\ Recorded(r)' = Count(r, step)
      BY <1>1, <1>2, <2>2 DEF Recorded
    <3>2. Count(r, (step - 1) + 1) = Count(r, step - 1) +
             (IF Plan[r[1]][(step - 1) + 1] = r[2] THEN 1 ELSE 0)
      BY <1>2, CountFacts
    <3>3. (step - 1) + 1 = step
      BY <1>2
    <3>4. r = it <=> Plan[r[1]][step] = r[2]
      BY <2>0, <2>2
    <3>5. Recorded(r)' = Recorded(r) + (IF r = it THEN 1 ELSE 0)
      BY <3>1, <3>2, <3>3, <3>4
    <3>6. onX'[r] = onX[r] + (IF r = it THEN 1 ELSE 0)
      BY <1>3, <2>0
    <3>. HIDE DEF it
    <3>. QED  BY <1>1, <2>0, <2>1, <3>5, <3>6
  <2>3. CASE r[1] # article
    <3>1. r # it
      BY <2>3
    <3>2. Recorded(r)' = Recorded(r)
      BY <1>1, <2>3 DEF Recorded, Untouched, Pending
    <3>. QED  BY <1>1, <1>3, <2>0, <3>1, <3>2
  <2>. QED  BY <2>2, <2>3
<1>6. SentIsOut'
  <2>1. \A r \in Rows : onX[r] \in Nat
    BY DEF Base, TypeOK
  <2>2. \A r \in Rows : onX[r] > 0 => onX'[r] > 0
    BY <1>3, <2>1
  <2>3. MarkedWentOut'
    BY <1>1, <2>2 DEF Posting, SentIsOut, MarkedWentOut
  <2>4. ASSUME NEW i \in 1..step
        PROVE  onX'[<<article, Plan[article][i]>>] > 0
    <3>1. <<article, Plan[article][i]>> \in Rows
      BY <1>2, PlanFacts, RowFacts
    <3>2. CASE i = step
      BY <1>3, <2>1, <3>2
    <3>3. CASE i # step
      <4>1. i \in 1..Went
        BY <1>2, <3>3
      <4>2. onX[<<article, Plan[article][i]>>] > 0
        BY <1>2, <4>1 DEF Posting, SentIsOut
      <4>. QED  BY <2>2, <3>1, <4>2
    <3>. QED  BY <3>2, <3>3
  <2>. QED  BY <1>1, <1>2, <2>3, <2>4 DEF SentIsOut
<1>. QED  BY <1>4, <1>5, <1>6 DEF Posting, Repeats
\* A chain ends, or the worker dies on it.
LEMMA EndKeeps == Base /\ Posting /\ (ChainPosted \/ ChainFails \/ Die) => Posting'
<1>. SUFFICES ASSUME Base, Posting, ChainPosted \/ ChainFails \/ Die PROVE Posting'
  OBVIOUS
<1>1. CASE ChainPosted \/ ChainFails
  <2>1. /\ article \in Articles /\ onX' = onX
        /\ began \in Nat /\ listed \in SUBSET Articles
    BY <1>1, ChainEnds DEF Base, TypeOK
  <2>2. PICK n \in Nat, spent \in Nat : EndsAt(n, spent)
    BY <1>1, ChainEnds
  <2>3. n \in 0..Went /\ (n = 0 /\ step = 1 /\ stage = "asked" => Went = 0)
    BY <2>2 DEF EndsAt, Went
  <2>4. \/ /\ Retire(Done(n), "marked_posted", began) /\ unrecorded' = unrecorded
           /\ n = 0 => Went = 0
        \/ /\ Retire({}, "marked_posted", began)
           /\ unrecorded' = [unrecorded EXCEPT ![article] = @ + 1]
    BY <2>2, <2>3 DEF EndsAt
  <2>5. NextChain(began, spent, listed)
    BY <2>2 DEF EndsAt
  <2>6. /\ listed' \subseteq listed /\ article' \in listed \cup {NoArticle}
        /\ article' # NoArticle => stage' = "card" /\ step' = 1
    BY <2>1, <2>5, NextChainDoes
  <2>7. article' # NoArticle => Went' = 0
    BY <2>6 DEF Went
  <2>. QED  BY <2>1, <2>3, <2>4, <2>6, <2>7, ArticleLeft
<1>2. CASE Die
  <2>1. /\ article' = NoArticle /\ listed' = {} /\ onX' = onX
        /\ UNCHANGED <<status, markedAt>>
    BY <1>2 DEF Die, queue
  <2>2. article \in Articles /\ Went \in Nat /\ step \in 1..Len(Plan[article])
        /\ Len(Plan[article]) \in Nat
    <3>1. article # NoArticle
      BY <1>2 DEF Die, Base, TypeOK
    <3>. QED  BY <3>1, WentFacts
  <2>3. Done(0) = {} /\ 0 \in 0..Went
    BY <2>2 DEF Done
  <2>4. Retire({}, "marked_posted", began)
    BY <2>1 DEF Retire, Base, TypeOK
  <2>5. \/ unrecorded' = unrecorded /\ Went = 0
        \/ unrecorded' = [unrecorded EXCEPT ![article] = @ + 1]
    BY <1>2, <2>2 DEF Die, Went
  <2>. QED  BY <2>1, <2>2, <2>3, <2>4, <2>5, ArticleLeft
<1>. QED  BY <1>1, <1>2

\* An article is queued once, before any of its rows is anything.
LEMMA EnqueueKeeps ==
    ASSUME Base, Posting, NEW a \in Articles, Enqueue(a)
    PROVE  Posting'
<1>1. /\ UNCHANGED <<listed, article, stage, step, onX, unrecorded>>
      /\ Ahead' = Ahead /\ Went' = Went
  BY DEF Enqueue, poster, world, Ahead, Went
<1>2. \A r \in Rows : \/ status'[r] = status[r]
                      \/ status[r] = "none" /\ status'[r] = "pending"
  BY DEF Enqueue
<1>3. Considered'
  BY <1>1, <1>2, RowFacts DEF Posting, Considered, Ahead
<1>4. \A b \in Articles : Untouched(b)' = Untouched(b)
  <2>1. \A r \in Rows : status'[r] \in {"none", "pending"}
                           <=> status[r] \in {"none", "pending"}
    BY <1>2
  <2>. QED  BY <2>1, RowFacts DEF Untouched, Pending
<1>5. \A r \in Rows : Recorded(r)' = Recorded(r)
  BY <1>1, <1>4, RowFacts DEF Recorded
<1>6. SentIsOut'
  BY <1>1, <1>2 DEF Posting, SentIsOut, MarkedWentOut
<1>. QED  BY <1>1, <1>3, <1>5, <1>6 DEF Posting, Repeats

LEMMA NextPosting == Base /\ Posting /\ [Next]_vars => Posting'
<1>. SUFFICES ASSUME Base, Posting, [Next]_vars PROVE Posting'
  OBVIOUS
<1>1. ASSUME NEW a \in Articles, Enqueue(a) PROVE Posting'
  BY <1>1, EnqueueKeeps
<1>2. ASSUME Sweep \/ ClearBacklog \/ \E m \in Mailers : MarkDigestSent(m)
      PROVE  Posting'
  BY <1>2, OthersRetire, RetireKeeps
<1>3. ASSUME UNCHANGED <<status, listed, article, stage, step, onX, unrecorded>>
      PROVE  Posting'
  BY <1>3 DEF Posting, Considered, Ahead, Repeats, Recorded, Went, Untouched,
              Pending, SentIsOut, MarkedWentOut
<1>4. ASSUME NEW m \in Mailers, StartDigest(m) \/ Deliver(m) \/ DigestFails(m)
      PROVE  Posting'
  <2>1. UNCHANGED <<status, listed, article, stage, step, onX, unrecorded>>
    BY <1>4 DEF StartDigest, Deliver, DigestFails, queue, poster, world
  <2>. QED  BY <1>3, <2>1
<1>5. CASE Tick \/ UNCHANGED vars
  <2>1. UNCHANGED <<status, listed, article, stage, step, onX, unrecorded>>
    BY <1>5 DEF Tick, vars, queue, poster, world
  <2>. QED  BY <1>3, <2>1
<1>. QED  BY <1>1, <1>2, <1>4, <1>5, BeginKeeps, WaitKeeps, LandKeeps, EndKeeps
          DEF Next

THEOREM PostingInvariance == Spec => [](Base /\ Posting)
BY InitBase, NextBase, InitPosting, NextPosting, PTL DEF Spec

\* The text of a row goes out again only after a chain that ended with something
\* on X and nothing marked.
THEOREM RepeatsAreLosses == Spec => []EveryRepeatIsALoss
<1>1. Base /\ Posting => EveryRepeatIsALoss
  <2>. SUFFICES ASSUME Base, Posting, NEW r \in Rows
               PROVE  onX[r] <= Posts(r) * (1 + unrecorded[r[1]])
    BY DEF EveryRepeatIsALoss
  <2>1. /\ onX[r] \in Nat /\ unrecorded[r[1]] \in Nat
        /\ onX[r] <= Posts(r) * unrecorded[r[1]] + Recorded(r)
        /\ Recorded(r) \in Nat /\ Recorded(r) <= Posts(r) /\ Posts(r) \in Nat
    BY RowFacts, RecordedBound DEF Posting, Repeats, Base, TypeOK
  <2>2. /\ Posts(r) * (unrecorded[r[1]] + 1)
              = Posts(r) * unrecorded[r[1]] + Posts(r)
        /\ Posts(r) * unrecorded[r[1]] \in Nat
        /\ 1 + unrecorded[r[1]] = unrecorded[r[1]] + 1
    BY <2>1, OneMoreChain
  <2>. QED  BY <2>1, <2>2
<1>. QED  BY <1>1, PostingInvariance, PTL

\* A row that reads marked_posted is on X.
THEOREM MarkedRowsAreOut == Spec => []MarkedWentOut
<1>1. Posting => MarkedWentOut
  BY DEF Posting, SentIsOut
<1>. QED  BY <1>1, PostingInvariance, PTL

\* Once a part of a thread reads marked_posted, nothing of the thread goes out.
THEOREM AMarkClosesTheThread == Spec => NothingAfterTheMark
<1>. DEFINE Quiet ==
        \A r \in Rows : onX'[r] > onX[r] =>
            \A q \in RowsOf(r[1]) : status[q] # "marked_posted"
<1>1. Base /\ Posting /\ [Next]_vars => [Quiet]_vars
  <2>. SUFFICES ASSUME Base, Posting, Next,
                      NEW r \in Rows, onX'[r] > onX[r],
                      NEW q \in RowsOf(r[1])
               PROVE  status[q] # "marked_posted"
    OBVIOUS
  <2>0. onX[r] \in Nat
    BY DEF Base, TypeOK
  <2>1. onX' # onX
    BY <2>0
  <2>2. Land
    <3>1. ASSUME NEW a \in Articles, Enqueue(a) PROVE FALSE
      BY <2>1, <3>1 DEF Enqueue, world
    <3>2. ASSUME NEW m \in Mailers, StartDigest(m) \/ Deliver(m) \/ DigestFails(m)
          PROVE  FALSE
      BY <2>1, <3>2 DEF StartDigest, Deliver, DigestFails, world
    <3>3. ASSUME Sweep \/ ClearBacklog \/ \E m \in Mailers : MarkDigestSent(m)
          PROVE  FALSE
      BY <2>1, <3>3, OthersRetire DEF world
    <3>4. ASSUME Begin \/ CardReady \/ Answered \/ Die \/ Tick PROVE FALSE
      BY <2>1, <3>4 DEF Begin, CardReady, Answered, Die, Tick, world
    <3>5. ASSUME ChainPosted \/ ChainFails PROVE FALSE
      BY <2>1, <3>5, ChainEnds
    <3>. QED  BY <3>1, <3>2, <3>3, <3>4, <3>5 DEF Next
  <2>3. r = <<article, Plan[article][step]>> /\ article \in Articles
    BY <2>0, <2>2, LandDoes
  <2>4. r[1] \in Ahead
    BY <2>3 DEF Ahead
  <2>. QED  BY <2>4 DEF Posting, Considered
<1>. QED  BY <1>1, PostingInvariance, PTL DEF Spec, NothingAfterTheMark
-----------------------------------------------------------------------------
(* The cap.                                                                *)

\* The rows marked in the window that ends at t.
MarkedIn(t) == {r \in RowsPostedSince(t - Day) : markedAt[r] <= t}

\* No mark is stamped later than the cycle in flight.
Stamps ==
    /\ began <= clock
    /\ \A r \in Rows : status[r] = "marked_posted" =>
          markedAt[r] <= (IF stage = "idle" THEN clock ELSE began)

\* What a cycle has spent covers the rows of its own window and the posts of the
\* chain it is on, and the rest of the chain fits.
Budget ==
    stage # "idle" =>
        /\ Cardinality(MarkedIn(began)) + (step - 1) <= used
        /\ used - (step - 1) + Len(Plan[article]) <= MaxPerDay

Caps == \A t \in Nat : Cardinality(MarkedIn(t)) <= MaxPerDay

Spending == Stamps /\ Budget /\ Caps

LEMMA MarkedFacts ==
    ASSUME NEW t
    PROVE  /\ IsFiniteSet(MarkedIn(t)) /\ Cardinality(MarkedIn(t)) \in Nat
           /\ MarkedIn(t) \subseteq Rows
<1>1. MarkedIn(t) \in SUBSET Rows
  BY DEF MarkedIn, RowsPostedSince
<1>. QED  BY <1>1, RowsAreFinite, FS_Subset, FS_CardinalityType

LEMMA Limits == MaxPerDay \in Nat /\ Day \in Nat
BY XQueueAssumption DEF XQueueAssumption

\* The first n posts of a chain are of n rows at the most.
LEMMA DoneIsSmall ==
    ASSUME NEW n \in Nat
    PROVE  IsFiniteSet(Done(n)) /\ Cardinality(Done(n)) <= n
           /\ Cardinality(Done(n)) \in Nat
<1>. DEFINE f == [i \in 1..n |-> <<article, Plan[article][i]>>]
<1>1. f \in Surjection(1..n, Done(n))
  BY DEF Surjection, Done
<1>2. IsFiniteSet(1..n) /\ Cardinality(1..n) = n
  BY FS_Interval
<1>. HIDE DEF f
<1>. QED  BY <1>1, <1>2, FS_Surjection, FS_CardinalityType

\* A mark of at most n rows: a window is as it was, or holds n rows more than the
\* cycle's own window did at the most.
LEMMA MarkAdds ==
    ASSUME Base, Stamps, stage # "idle", NEW n \in Nat,
           Retire(Done(n), "marked_posted", began), NEW t \in Nat
    PROVE  \/ Cardinality(MarkedIn(t)') <= Cardinality(MarkedIn(t))
           \/ Cardinality(MarkedIn(t)') <= Cardinality(MarkedIn(began)) + n
<1>1. \A r \in Rows :
         status'[r] = "marked_posted" =>
            \/ status[r] = "marked_posted" /\ markedAt'[r] = markedAt[r]
               /\ markedAt[r] <= began
            \/ r \in Done(n) /\ markedAt'[r] = began
  BY DEF Retire, Stamps, Pending
<1>2. began \in Nat /\ Day \in Nat /\ \A r \in Rows : markedAt[r] \in Nat
  BY Limits DEF Base, TypeOK
<1>3. CASE began <= t /\ began > t - Day
  <2>1. MarkedIn(t)' \subseteq MarkedIn(began) \cup Done(n)
    <3>. SUFFICES ASSUME NEW r \in MarkedIn(t)', r \notin Done(n)
                 PROVE  r \in MarkedIn(began)
      OBVIOUS
    <3>1. r \in Rows /\ status'[r] = "marked_posted" /\ markedAt'[r] > t - Day
      BY DEF MarkedIn, RowsPostedSince
    <3>2. status[r] = "marked_posted" /\ markedAt[r] <= began
          /\ markedAt[r] > t - Day
      BY <1>1, <3>1
    <3>3. markedAt[r] > began - Day
      BY <1>2, <1>3, <3>1, <3>2
    <3>. QED  BY <3>1, <3>2, <3>3 DEF MarkedIn, RowsPostedSince
  <2>2. /\ IsFiniteSet(MarkedIn(began) \cup Done(n))
        /\ Cardinality(MarkedIn(began) \cup Done(n)) =
              Cardinality(MarkedIn(began)) + Cardinality(Done(n))
                 - Cardinality(MarkedIn(began) \cap Done(n))
    BY MarkedFacts, DoneIsSmall, FS_Union
  <2>3. Cardinality(MarkedIn(began) \cap Done(n)) \in Nat
    <3>1. MarkedIn(began) \cap Done(n) \in SUBSET Done(n)
      OBVIOUS
    <3>2. IsFiniteSet(MarkedIn(began) \cap Done(n))
      BY <3>1, DoneIsSmall, FS_Subset
    <3>. QED  BY <3>2, FS_CardinalityType
  <2>4. Cardinality(MarkedIn(t)') <= Cardinality(MarkedIn(began) \cup Done(n))
    BY <2>1, <2>2, FS_Subset
  <2>5. Cardinality(MarkedIn(t)') \in Nat
    <3>1. IsFiniteSet(MarkedIn(t)')
      BY <2>1, <2>2, FS_Subset
    <3>. QED  BY <3>1, FS_CardinalityType
  <2>6. Cardinality(MarkedIn(began)) \in Nat /\ Cardinality(Done(n)) \in Nat
        /\ Cardinality(Done(n)) <= n
    BY MarkedFacts, DoneIsSmall
  <2>. QED  BY <2>2, <2>3, <2>4, <2>5, <2>6
<1>4. CASE ~(began <= t /\ began > t - Day)
  <2>1. MarkedIn(t)' \subseteq MarkedIn(t)
    <3>. SUFFICES ASSUME NEW r \in MarkedIn(t)' PROVE r \in MarkedIn(t)
      OBVIOUS
    <3>1. /\ r \in Rows /\ status'[r] = "marked_posted"
          /\ markedAt'[r] > t - Day /\ markedAt'[r] <= t
      BY DEF MarkedIn, RowsPostedSince
    <3>2. status[r] = "marked_posted" /\ markedAt'[r] = markedAt[r]
      BY <1>1, <1>4, <3>1
    <3>. QED  BY <3>1, <3>2 DEF MarkedIn, RowsPostedSince
  <2>. QED  BY <2>1, MarkedFacts, FS_Subset
<1>. QED  BY <1>3, <1>4

\* Steps that mark nothing leave every window as it was.
LEMMA SameWindows ==
    ASSUME Base,
           \A r \in Rows : /\ status'[r] = "marked_posted" <=>
                                 status[r] = "marked_posted"
                           /\ status[r] = "marked_posted" =>
                                 markedAt'[r] = markedAt[r]
    PROVE  \A t \in Nat : MarkedIn(t)' = MarkedIn(t)
BY DEF MarkedIn, RowsPostedSince
\* The sums of a cycle: what is held in its window, and a chain of len posts of
\* which n were answered.
LEMMA Sums ==
    ASSUME NEW held \in Nat, NEW spent \in Nat, NEW len \in Nat, NEW cap \in Nat,
           NEW at \in 1..len,
           held + (at - 1) <= spent, spent - (at - 1) + len <= cap
    PROVE  /\ held + ((at + 1) - 1) <= spent + 1
           /\ (spent + 1) - ((at + 1) - 1) + len <= cap
           /\ held + (at - 1) <= spent /\ spent <= cap
           /\ at = len => held + at <= spent + 1 /\ spent + 1 <= cap
OBVIOUS

LEMMA Below ==
    ASSUME NEW c \in Nat, NEW d \in Nat, NEW n \in Nat, NEW spent \in Nat,
           NEW cap \in Nat, d + n <= spent, spent <= cap
    PROVE  /\ c <= d + n => c <= cap /\ c <= spent
           /\ c <= d => c <= cap /\ c <= d + n
OBVIOUS

LEMMA InitSpending == Init => Spending
<1>. SUFFICES ASSUME Init PROVE Spending
  OBVIOUS
<1>1. \A t \in Nat : MarkedIn(t) = {}
  BY DEF Init, MarkedIn, RowsPostedSince
<1>2. Caps
  BY <1>1, Limits, FS_EmptySet DEF Caps
<1>. QED  BY <1>2 DEF Init, Spending, Stamps, Budget

\* Beside the poster nothing is marked, and the clock only goes on.
LEMMA BesideKeeps ==
    ASSUME Base, Spending, clock' \in Nat, clock' >= clock,
           UNCHANGED <<article, stage, step, began, used>>,
           \A r \in Rows : /\ status'[r] = "marked_posted" <=>
                                 status[r] = "marked_posted"
                           /\ status[r] = "marked_posted" =>
                                 markedAt'[r] = markedAt[r]
    PROVE  Spending'
<1>1. \A t \in Nat : MarkedIn(t)' = MarkedIn(t)
  BY SameWindows
<1>2. began \in Nat /\ clock \in Nat /\ \A r \in Rows : markedAt[r] \in Nat
  BY DEF Base, TypeOK
<1>3. Stamps'
  BY <1>2 DEF Spending, Stamps
<1>4. Caps'
  BY <1>1 DEF Spending, Caps
<1>5. MarkedIn(began)' = MarkedIn(began)
  BY <1>1, <1>2 DEF MarkedIn, RowsPostedSince
<1>6. Budget'
  BY <1>5 DEF Spending, Budget
<1>. QED  BY <1>3, <1>4, <1>6 DEF Spending

\* A chain that fits what is left of the cap.
LEMMA FitsDef ==
    ASSUME NEW a \in Articles, NEW spent \in Nat, Fits(a, spent)
    PROVE  spent + Len(Plan[a]) <= MaxPerDay
BY DEF Fits

\* A cycle begins with the rows of its own window as spent.
LEMMA BeginSpends == Base /\ Spending /\ Begin => Spending'
<1>. SUFFICES ASSUME Base, Spending, Begin PROVE Spending'
  OBVIOUS
<1>. DEFINE spent == Cardinality(RowsPostedSince(clock - Day))
<1>1. PICK top \in Newest({r[1] : r \in FreshRows}, ArticlesPerCycle) :
         NextChain(clock, spent, {a \in top : Whole(a)})
  BY DEF Begin
<1>. DEFINE left == {a \in top : Whole(a)}
<1>2. left \in SUBSET Articles
  BY RowFacts DEF Newest, FreshRows
<1>3. /\ UNCHANGED <<clock, status, markedAt>> /\ stage = "idle"
      /\ clock \in Nat /\ \A r \in Rows : markedAt[r] \in Nat
  BY DEF Begin, queue, Base, TypeOK
<1>4. MarkedIn(clock) = RowsPostedSince(clock - Day)
  BY <1>3 DEF MarkedIn, RowsPostedSince, Spending, Stamps
<1>5. spent \in Nat /\ spent = Cardinality(MarkedIn(clock))
  BY <1>4, MarkedFacts
<1>. HIDE DEF spent, left
<1>6. NextChain(clock, spent, left)
  BY <1>1 DEF left
<1>7. \/ stage' = "idle" /\ began' = 0
      \/ /\ article' \in Articles /\ stage' = "card" /\ step' = 1
         /\ began' = clock /\ used' = spent
         /\ spent + Len(Plan[article']) <= MaxPerDay
  BY <1>2, <1>3, <1>5, <1>6, NextChainDoes, FitsDef
<1>8. \A t \in Nat : MarkedIn(t)' = MarkedIn(t)
  BY <1>3 DEF MarkedIn, RowsPostedSince
<1>9. Caps'
  BY <1>8 DEF Spending, Caps
<1>10. Stamps'
  BY <1>3, <1>7 DEF Spending, Stamps
<1>11. Budget'
  <2>1. CASE stage' = "idle"
    BY <2>1 DEF Budget
  <2>2. CASE /\ article' \in Articles /\ stage' = "card" /\ step' = 1
             /\ began' = clock /\ used' = spent
             /\ spent + Len(Plan[article']) <= MaxPerDay
    <3>1. MarkedIn(began)' = MarkedIn(clock)
      BY <1>3, <2>2 DEF MarkedIn, RowsPostedSince
    <3>2. Len(Plan[article']) \in Nat
      BY <2>2, PlanFacts
    <3>. QED  BY <1>5, <2>2, <3>1, <3>2, Limits DEF Budget
  <2>. QED  BY <1>7, <2>1, <2>2
<1>. QED  BY <1>9, <1>10, <1>11 DEF Spending

\* An answer is one more post spent and one more post of the chain sent.
LEMMA AnsweredSpends == Base /\ Spending /\ Answered => Spending'
<1>. SUFFICES ASSUME Base, Spending, Answered PROVE Spending'
  OBVIOUS
<1>1. /\ UNCHANGED <<clock, status, markedAt, article, began>>
      /\ stage = "landed" /\ stage' = "asked"
      /\ step' = step + 1 /\ used' = used + 1
  BY DEF Answered, queue
<1>2. /\ began \in Nat /\ used \in Nat /\ step \in 1..Len(Plan[article])
      /\ Len(Plan[article]) \in Nat /\ article \in Articles
  <2>1. article # NoArticle
    BY <1>1 DEF Base, TypeOK
  <2>. QED  BY <2>1, WentFacts DEF Base, TypeOK
<1>3. \A t \in Nat : MarkedIn(t)' = MarkedIn(t)
  BY <1>1 DEF MarkedIn, RowsPostedSince
<1>4. MarkedIn(began)' = MarkedIn(began)
  BY <1>1 DEF MarkedIn, RowsPostedSince
<1>5. Caps' /\ Stamps'
  BY <1>1, <1>3 DEF Spending, Caps, Stamps
<1>6. /\ Cardinality(MarkedIn(began)) + (step - 1) <= used
      /\ used - (step - 1) + Len(Plan[article]) <= MaxPerDay
      /\ Cardinality(MarkedIn(began)) \in Nat
  BY <1>1, MarkedFacts DEF Spending, Budget
<1>7. /\ Cardinality(MarkedIn(began)) + ((step + 1) - 1) <= used + 1
      /\ (used + 1) - ((step + 1) - 1) + Len(Plan[article]) <= MaxPerDay
  BY <1>2, <1>6, Limits, Sums
<1>8. Budget'
  BY <1>1, <1>4, <1>7 DEF Budget
<1>. QED  BY <1>5, <1>8 DEF Spending

\* A chain ends: what it marks it has spent.
LEMMA EndSpends == Base /\ Spending /\ (ChainPosted \/ ChainFails) => Spending'
<1>. SUFFICES ASSUME Base, Spending, ChainPosted \/ ChainFails PROVE Spending'
  OBVIOUS
<1>1. PICK n \in Nat, spent \in Nat : EndsAt(n, spent)
  BY ChainEnds
<1>2. /\ stage # "idle" /\ clock' = clock
      /\ clock \in Nat /\ began \in Nat /\ used \in Nat /\ step \in Nat
      /\ step \in 1..Len(Plan[article]) /\ Len(Plan[article]) \in Nat
      /\ \A r \in Rows : markedAt[r] \in Nat
      /\ listed \in SUBSET Articles
  <2>1. stage # "idle" /\ clock' = clock
    BY ChainEnds DEF ChainPosted, ChainFails
  <2>2. article # NoArticle
    BY <2>1 DEF Base, TypeOK
  <2>. QED  BY <2>1, <2>2, WentFacts DEF Base, TypeOK
<1>3. /\ Cardinality(MarkedIn(began)) + (step - 1) <= used
      /\ used - (step - 1) + Len(Plan[article]) <= MaxPerDay
      /\ Cardinality(MarkedIn(began)) \in Nat
  BY <1>2, MarkedFacts DEF Spending, Budget
<1>4. \/ spent = used /\ n = step - 1
      \/ spent = used + 1 /\ n = step /\ step = Len(Plan[article])
  BY <1>1 DEF EndsAt
<1>5. Cardinality(MarkedIn(began)) + n <= spent /\ spent <= MaxPerDay
  <2>1. /\ used <= MaxPerDay
        /\ step = Len(Plan[article]) =>
              /\ Cardinality(MarkedIn(began)) + step <= used + 1
              /\ used + 1 <= MaxPerDay
    BY <1>2, <1>3, Limits, Sums
  <2>. QED  BY <1>3, <1>4, <2>1
<1>6. ASSUME NEW t \in Nat
      PROVE  \/ Cardinality(MarkedIn(t)') <= Cardinality(MarkedIn(t))
             \/ Cardinality(MarkedIn(t)') <= Cardinality(MarkedIn(began)) + n
  <2>1. CASE Retire(Done(n), "marked_posted", began)
    BY <1>2, <2>1, MarkAdds DEF Spending
  <2>2. CASE Retire({}, "marked_posted", began)
    <3>1. MarkedIn(t)' = MarkedIn(t)
      BY <2>2 DEF Retire, MarkedIn, RowsPostedSince
    <3>. QED  BY <3>1, MarkedFacts
  <2>. QED  BY <1>1, <2>1, <2>2 DEF EndsAt
<1>7. \A t \in Nat : Cardinality(MarkedIn(t)') \in Nat
  <2>. SUFFICES ASSUME NEW t \in Nat PROVE Cardinality(MarkedIn(t)') \in Nat
    OBVIOUS
  <2>1. MarkedIn(t)' \in SUBSET Rows
    BY DEF MarkedIn, RowsPostedSince
  <2>. QED  BY <2>1, RowsAreFinite, FS_Subset, FS_CardinalityType
<1>8. Caps'
  <2>1. \A t \in Nat : Cardinality(MarkedIn(t)) \in Nat
                       /\ Cardinality(MarkedIn(t)) <= MaxPerDay
    BY MarkedFacts DEF Spending, Caps
  <2>2. ASSUME NEW t \in Nat PROVE Cardinality(MarkedIn(t)') <= MaxPerDay
    <3>1. CASE Cardinality(MarkedIn(t)') <= Cardinality(MarkedIn(t))
      BY <1>7, <2>1, <3>1, Limits
    <3>2. CASE Cardinality(MarkedIn(t)') <= Cardinality(MarkedIn(began)) + n
      BY <1>3, <1>5, <1>7, <3>2, Limits, Below
    <3>. QED  BY <1>6, <3>1, <3>2
  <2>. QED  BY <2>2 DEF Caps
<1>9. \/ stage' = "idle" /\ began' = 0
      \/ /\ article' \in Articles /\ stage' = "card" /\ step' = 1
         /\ began' = began /\ used' = spent
         /\ spent + Len(Plan[article']) <= MaxPerDay
  <2>1. NextChain(began, spent, listed)
    BY <1>1 DEF EndsAt
  <2>. QED  BY <1>2, <2>1, NextChainDoes, FitsDef
<1>10. \A r \in Rows : status'[r] = "marked_posted" => markedAt'[r] <= began
  <2>1. began <= began
    BY <1>2
  <2>2. \E rows : Retire(rows, "marked_posted", began)
    BY <1>1 DEF EndsAt
  <2>. QED  BY <1>2, <2>1, <2>2 DEF Retire, Spending, Stamps
<1>11. Stamps'
  <2>1. began <= clock
    BY DEF Spending, Stamps
  <2>2. \A r \in Rows : markedAt'[r] \in Nat
    BY EndsTypes
  <2>. QED  BY <1>2, <1>9, <1>10, <2>1, <2>2 DEF Stamps
<1>12. Budget'
  <2>1. CASE stage' = "idle"
    BY <2>1 DEF Budget
  <2>2. CASE /\ article' \in Articles /\ stage' = "card" /\ step' = 1
             /\ began' = began /\ used' = spent
             /\ spent + Len(Plan[article']) <= MaxPerDay
    <3>2. Cardinality(MarkedIn(began)') <= spent
      <4>1. PICK t \in Nat : t = began
        BY <1>2
      <4>2. MarkedIn(began)' = MarkedIn(t)'
        BY <2>2, <4>1 DEF MarkedIn, RowsPostedSince
      <4>3. Cardinality(MarkedIn(t)') <= Cardinality(MarkedIn(t)) + n
        BY <1>3, <1>1, <1>6, <1>7, <4>1
      <4>. QED  BY <1>3, <1>5, <1>7, <4>1, <4>2, <4>3, Limits, Below
    <3>3. Len(Plan[article']) \in Nat /\ Cardinality(MarkedIn(began)') \in Nat
      <4>1. PICK t \in Nat : t = began
        BY <1>2
      <4>2. MarkedIn(began)' = MarkedIn(t)'
        BY <2>2, <4>1 DEF MarkedIn, RowsPostedSince
      <4>. QED  BY <1>7, <2>2, <4>2, PlanFacts
    <3>4. /\ Cardinality(MarkedIn(began)') + (1 - 1) <= spent
          /\ spent - (1 - 1) + Len(Plan[article']) <= MaxPerDay
      BY <2>2, <3>2, <3>3, Limits
    <3>. QED  BY <2>2, <3>4 DEF Budget
  <2>. QED  BY <1>9, <2>1, <2>2
<1>. QED  BY <1>8, <1>11, <1>12 DEF Spending
\* The worker dies: the clock bounds the stamps again.
LEMMA DieSpends == Base /\ Spending /\ Die => Spending'
<1>. SUFFICES ASSUME Base, Spending, Die PROVE Spending'
  OBVIOUS
<1>1. /\ UNCHANGED <<clock, status, markedAt>>
      /\ stage # "idle" /\ stage' = "idle" /\ began' = 0
  BY DEF Die, queue
<1>2. /\ clock \in Nat /\ began \in Nat /\ \A r \in Rows : markedAt[r] \in Nat
  BY DEF Base, TypeOK
<1>3. \A t \in Nat : MarkedIn(t)' = MarkedIn(t)
  BY <1>1 DEF MarkedIn, RowsPostedSince
<1>4. Caps'
  BY <1>3 DEF Spending, Caps
<1>5. Stamps' /\ Budget'
  BY <1>1, <1>2 DEF Spending, Stamps, Budget
<1>. QED  BY <1>4, <1>5 DEF Spending

LEMMA NextSpending == Base /\ Spending /\ [Next]_vars => Spending'
<1>. SUFFICES ASSUME Base, Spending, [Next]_vars PROVE Spending'
  OBVIOUS
<1>0. clock \in Nat /\ clock >= clock
  BY DEF Base, TypeOK
<1>1. ASSUME NEW a \in Articles, Enqueue(a) PROVE Spending'
  <2>1. \A r \in Rows : \/ status'[r] = status[r]
                        \/ status[r] = "none" /\ status'[r] = "pending"
    BY <1>1 DEF Enqueue
  <2>2. UNCHANGED <<clock, markedAt, article, stage, step, began, used>>
    BY <1>1 DEF Enqueue, poster
  <2>. QED  BY <1>0, <2>1, <2>2, BesideKeeps
<1>2. ASSUME Sweep \/ ClearBacklog \/ \E m \in Mailers : MarkDigestSent(m)
      PROVE  Spending'
  <2>1. PICK rows, state : /\ state \in {"sent_in_digest", "rejected"}
                           /\ Retire(rows, state, 0)
    BY <1>2, OthersRetire
  <2>2. \A r \in Rows : /\ status'[r] = "marked_posted" <=>
                              status[r] = "marked_posted"
                        /\ status[r] = "marked_posted" =>
                              markedAt'[r] = markedAt[r]
    BY <2>1 DEF Retire, Pending
  <2>3. UNCHANGED <<clock, article, stage, step, began, used>>
    BY <1>2, OthersRetire DEF poster
  <2>. QED  BY <1>0, <2>2, <2>3, BesideKeeps
<1>3. ASSUME UNCHANGED <<clock, status, markedAt, article, step, began, used>>,
             stage' = stage \/ (stage # "idle" /\ stage' # "idle")
      PROVE  Spending'
  <2>1. \A t \in Nat : MarkedIn(t)' = MarkedIn(t)
    BY <1>3 DEF MarkedIn, RowsPostedSince
  <2>2. MarkedIn(began)' = MarkedIn(began)
    BY <1>3 DEF MarkedIn, RowsPostedSince
  <2>3. Stamps' /\ Caps'
    BY <1>3, <2>1 DEF Spending, Stamps, Caps
  <2>4. Budget'
    BY <1>3, <2>2 DEF Spending, Budget
  <2>. QED  BY <2>3, <2>4 DEF Spending
<1>4. ASSUME NEW m \in Mailers, StartDigest(m) \/ Deliver(m) \/ DigestFails(m)
      PROVE  Spending'
  <2>1. UNCHANGED <<clock, status, markedAt, article, stage, step, began, used>>
    BY <1>4 DEF StartDigest, Deliver, DigestFails, queue, poster
  <2>. QED  BY <1>3, <2>1
<1>5. CASE CardReady \/ Land
  <2>1. /\ UNCHANGED <<clock, status, markedAt, article, step, began, used>>
        /\ stage # "idle" /\ stage' # "idle"
    BY <1>5 DEF CardReady, Land, queue
  <2>. QED  BY <1>3, <2>1
<1>6. CASE Tick
  <2>1. clock' \in Nat /\ clock' >= clock
    BY <1>0, <1>6 DEF Tick
  <2>2. UNCHANGED <<status, markedAt, article, stage, step, began, used>>
    BY <1>6 DEF Tick, queue, poster
  <2>. QED  BY <2>1, <2>2, BesideKeeps
<1>7. CASE UNCHANGED vars
  <2>1. UNCHANGED <<clock, status, markedAt, article, stage, step, began, used>>
    BY <1>7 DEF vars
  <2>. QED  BY <1>3, <2>1
<1>. QED  BY <1>1, <1>2, <1>4, <1>5, <1>6, <1>7, BeginSpends, AnsweredSpends,
             EndSpends, DieSpends DEF Next

\* No window of a day holds more marked rows than the cap.
THEOREM TheRowCapHolds == Spec => []RowCapHeld
<1>1. Base /\ Spending => RowCapHeld
  <2>. SUFFICES ASSUME Base, Spending, NEW t \in 0..clock
               PROVE  Cardinality({r \in RowsPostedSince(t - Day) :
                                      markedAt[r] <= t}) <= MaxPerDay
    BY DEF RowCapHeld
  <2>1. t \in Nat
    BY DEF Base, TypeOK
  <2>. QED  BY <2>1 DEF Spending, Caps, MarkedIn
<1>. QED  BY <1>1, InitBase, NextBase, InitSpending, NextSpending, PTL DEF Spec

-----------------------------------------------------------------------------
(* The mails.                                                              *)

\* The requests whose mail holds a row, delivered or not.
Holding(r, out) == {m \in Mailers : r \in batch[m] /\ delivered[m] = out}

\* A delivered mail holds something, and what a mail holds was queued.
Batches ==
    /\ \A m \in Mailers : delivered[m] => batch[m] # {}
    /\ \A m \in Mailers : \A r \in batch[m] : status[r] # "none"

\* A row still in the queue was mailed once per mail that holds it and once per
\* mail that went unmarked; one that is not will be mailed by the holders only.
Mailed ==
    \A r \in Rows :
        IF Pending(r) \/ status[r] = "none"
        THEN mailed[r] <= unmarked + Cardinality(Holding(r, TRUE))
        ELSE mailed[r] + Cardinality(Holding(r, FALSE))
                 <= unmarked + Cardinality(Mailers)

Mailing == Batches /\ Mailed

LEMMA HoldingFacts ==
    ASSUME NEW r
    PROVE  /\ Cardinality(Mailers) \in Nat
           /\ \A out \in BOOLEAN : /\ IsFiniteSet(Holding(r, out))
                                   /\ Cardinality(Holding(r, out)) \in Nat
           /\ Cardinality(Holding(r, TRUE)) + Cardinality(Holding(r, FALSE))
                 <= Cardinality(Mailers)
<1>1. IsFiniteSet(Mailers) /\ Cardinality(Mailers) \in Nat
  BY XQueueAssumption, FS_CardinalityType DEF XQueueAssumption
<1>2. ASSUME NEW out \in BOOLEAN
      PROVE  IsFiniteSet(Holding(r, out)) /\ Cardinality(Holding(r, out)) \in Nat
  <2>1. Holding(r, out) \in SUBSET Mailers
    BY DEF Holding
  <2>. QED  BY <1>1, <2>1, FS_Subset, FS_CardinalityType
<1>. DEFINE in == Holding(r, TRUE)
            out == Holding(r, FALSE)
<1>3. in \cap out = {} /\ in \cup out \in SUBSET Mailers
  BY DEF Holding
<1>4. IsFiniteSet(in) /\ IsFiniteSet(out)
      /\ Cardinality(in) \in Nat /\ Cardinality(out) \in Nat
  BY <1>2
<1>. HIDE DEF in, out
<1>5. Cardinality(in \cup out) = Cardinality(in) + Cardinality(out)
  <2>1. Cardinality(in \cap out) = 0
    BY <1>3, FS_EmptySet
  <2>2. Cardinality(in \cup out) =
           Cardinality(in) + Cardinality(out) - Cardinality(in \cap out)
    BY <1>4, FS_Union
  <2>. QED  BY <1>4, <2>1, <2>2
<1>6. Cardinality(in \cup out) <= Cardinality(Mailers)
  BY <1>1, <1>3, FS_Subset
<1>7. Cardinality(in) + Cardinality(out) <= Cardinality(Mailers)
  BY <1>4, <1>5, <1>6
<1>. QED  BY <1>1, <1>2, <1>7 DEF in, out
\* The sums of a row: its mails, the mails unmarked, and those who hold it.
LEMMA MailSums ==
    ASSUME NEW x \in Nat, NEW u \in Nat, NEW in \in Nat, NEW out \in Nat,
           NEW all \in Nat, in + out <= all
    PROVE  /\ x = 0 => x <= u + in
           /\ x <= u + in => /\ x + out <= u + all
                             /\ x + (out - 1) <= u + all
                             /\ x + 1 <= u + (in + 1)
                             /\ x <= (u + 1) + in /\ x <= (u + 1) + (in - 1)
           /\ x + out <= u + all => /\ (x + 1) + (out - 1) <= u + all
                                    /\ x + (out - 1) <= u + all
                                    /\ x + out <= (u + 1) + all
                                    /\ x + (out - 1) <= (u + 1) + all
                                    /\ x <= all + u
OBVIOUS

LEMMA InitMailing == Init => Mailing
<1>. SUFFICES ASSUME Init PROVE Mailing
  OBVIOUS
<1>1. Batches
  BY DEF Init, Batches
<1>2. ASSUME NEW r \in Rows
      PROVE  status[r] = "none" /\ mailed[r] <= unmarked + Cardinality(Holding(r, TRUE))
  <2>1. mailed[r] = 0 /\ mailed[r] \in Nat /\ unmarked \in Nat /\ status[r] = "none"
    BY DEF Init
  <2>2. /\ Cardinality(Mailers) \in Nat /\ Cardinality(Holding(r, TRUE)) \in Nat
        /\ Cardinality(Holding(r, FALSE)) \in Nat
        /\ Cardinality(Holding(r, TRUE)) + Cardinality(Holding(r, FALSE))
              <= Cardinality(Mailers)
    BY HoldingFacts
  <2>. QED  BY <2>1, <2>2, MailSums
<1>. QED  BY <1>1, <1>2 DEF Mailing, Mailed

\* A row that leaves the queue while the mails stay as they are.
LEMMA LeavingKeeps ==
    ASSUME Base, Mailing, UNCHANGED <<batch, delivered, mailed, unmarked>>,
           \A r \in Rows :
              \/ status'[r] = status[r]
              \/ Pending(r) /\ status'[r] # "none"
              \/ status[r] = "none" /\ status'[r] = "pending"
    PROVE  Mailing'
<1>1. \A r \in Rows : \A out \in BOOLEAN : Holding(r, out)' = Holding(r, out)
  BY DEF Holding
<1>2. Batches'
  <2>1. \A m \in Mailers : batch[m] \subseteq Rows
    BY DEF Base, TypeOK
  <2>. QED  BY <2>1 DEF Mailing, Batches, Pending
<1>3. ASSUME NEW r \in Rows
      PROVE  IF Pending(r)' \/ status'[r] = "none"
             THEN mailed'[r] <= unmarked' + Cardinality(Holding(r, TRUE))
             ELSE mailed'[r] + Cardinality(Holding(r, FALSE))
                      <= unmarked' + Cardinality(Mailers)
  <2>1. /\ mailed[r] \in Nat /\ unmarked \in Nat /\ Cardinality(Mailers) \in Nat
        /\ Cardinality(Holding(r, TRUE)) \in Nat
        /\ Cardinality(Holding(r, FALSE)) \in Nat
        /\ Cardinality(Holding(r, TRUE)) + Cardinality(Holding(r, FALSE))
              <= Cardinality(Mailers)
    BY HoldingFacts DEF Base, TypeOK
  <2>2. CASE Pending(r) \/ status[r] = "none"
    <3>1. mailed[r] <= unmarked + Cardinality(Holding(r, TRUE))
      BY <2>2 DEF Mailing, Mailed
    <3>2. mailed[r] + Cardinality(Holding(r, FALSE)) <= unmarked + Cardinality(Mailers)
      BY <2>1, <3>1, MailSums
    <3>. QED  BY <3>1, <3>2
  <2>3. CASE ~(Pending(r) \/ status[r] = "none")
    <3>1. mailed[r] + Cardinality(Holding(r, FALSE)) <= unmarked + Cardinality(Mailers)
      BY <2>3 DEF Mailing, Mailed
    <3>2. status'[r] = status[r]
      BY <2>3
    <3>. QED  BY <2>3, <3>1, <3>2 DEF Pending
  <2>. QED  BY <2>2, <2>3
<1>4. Mailed'
  BY <1>1, <1>3 DEF Mailed
<1>. QED  BY <1>2, <1>4 DEF Mailing

\* A request lists: it holds pending rows only, none of them delivered.
LEMMA StartKeeps ==
    ASSUME Base, Mailing, NEW m \in Mailers, StartDigest(m)
    PROVE  Mailing'
<1>1. /\ batch[m] = {} /\ ~delivered[m]
      /\ UNCHANGED <<status, delivered, mailed, unmarked>>
  BY DEF StartDigest, queue, world, Mailing, Batches
<1>2. /\ \A k \in Mailers \ {m} : batch'[k] = batch[k]
      /\ \A r \in batch'[m] : Pending(r)
  BY DEF StartDigest, Digestible, Base, TypeOK
<1>3. Batches'
  BY <1>1, <1>2 DEF Mailing, Batches, Pending
<1>4. ASSUME NEW r \in Rows
      PROVE  /\ Holding(r, TRUE)' = Holding(r, TRUE)
             /\ ~Pending(r) => Holding(r, FALSE)' = Holding(r, FALSE)
  BY <1>1, <1>2 DEF Holding
<1>5. Mailed'
  BY <1>1, <1>4 DEF Mailing, Mailed, Pending
<1>. QED  BY <1>3, <1>5 DEF Mailing

\* A mail goes out: one more of each of its rows, and one more delivered holder.
LEMMA DeliverKeeps ==
    ASSUME Base, Mailing, NEW m \in Mailers, Deliver(m)
    PROVE  Mailing'
<1>1. /\ batch[m] # {} /\ ~delivered[m] /\ UNCHANGED <<status, batch, unmarked>>
      /\ delivered'[m] /\ \A k \in Mailers \ {m} : delivered'[k] = delivered[k]
      /\ \A r \in Rows : mailed'[r] = mailed[r] + (IF r \in batch[m] THEN 1 ELSE 0)
      /\ delivered \in [Mailers -> BOOLEAN]
  BY DEF Deliver, queue, Base, TypeOK
<1>2. Batches'
  BY <1>1 DEF Mailing, Batches
<1>3. ASSUME NEW r \in Rows
      PROVE  IF Pending(r)' \/ status'[r] = "none"
             THEN mailed'[r] <= unmarked' + Cardinality(Holding(r, TRUE)')
             ELSE mailed'[r] + Cardinality(Holding(r, FALSE)')
                      <= unmarked' + Cardinality(Mailers)
  <2>0. /\ mailed[r] \in Nat /\ unmarked \in Nat /\ Cardinality(Mailers) \in Nat
        /\ Cardinality(Holding(r, TRUE)) \in Nat
        /\ Cardinality(Holding(r, FALSE)) \in Nat
        /\ Cardinality(Holding(r, TRUE)) + Cardinality(Holding(r, FALSE))
              <= Cardinality(Mailers)
    BY HoldingFacts DEF Base, TypeOK
  <2>. DEFINE queued == Pending(r) \/ status[r] = "none"
  <2>a. queued' = queued
    BY <1>1 DEF Pending
  <2>b. IF queued THEN mailed[r] <= unmarked + Cardinality(Holding(r, TRUE))
        ELSE mailed[r] + Cardinality(Holding(r, FALSE))
                 <= unmarked + Cardinality(Mailers)
    BY DEF Mailing, Mailed
  <2>1. CASE r \in batch[m]
    <3>1. /\ Holding(r, TRUE)' = Holding(r, TRUE) \cup {m}
          /\ m \notin Holding(r, TRUE)
          /\ Holding(r, FALSE)' = Holding(r, FALSE) \ {m}
          /\ m \in Holding(r, FALSE)
      BY <1>1, <2>1 DEF Holding
    <3>a. IsFiniteSet(Holding(r, TRUE)) /\ IsFiniteSet(Holding(r, FALSE))
      BY HoldingFacts
    <3>b. Cardinality(Holding(r, TRUE)') = Cardinality(Holding(r, TRUE)) + 1
      BY <3>a, <3>1, FS_AddElement
    <3>c. Cardinality(Holding(r, FALSE)') = Cardinality(Holding(r, FALSE)) - 1
      BY <3>a, <3>1, FS_RemoveElement
    <3>2. /\ Cardinality(Holding(r, TRUE)') = Cardinality(Holding(r, TRUE)) + 1
          /\ Cardinality(Holding(r, FALSE)') = Cardinality(Holding(r, FALSE)) - 1
      BY <3>b, <3>c
    <3>3. mailed'[r] = mailed[r] + 1 /\ unmarked' = unmarked
      BY <1>1, <2>1
    <3>4. IF queued THEN mailed[r] + 1 <= unmarked + (Cardinality(Holding(r, TRUE)) + 1)
          ELSE (mailed[r] + 1) + (Cardinality(Holding(r, FALSE)) - 1)
                   <= unmarked + Cardinality(Mailers)
      BY <2>0, <2>b, MailSums
    <3>. HIDE DEF queued
    <3>5. IF queued' THEN mailed'[r] <= unmarked' + Cardinality(Holding(r, TRUE)')
          ELSE mailed'[r] + Cardinality(Holding(r, FALSE)')
                   <= unmarked' + Cardinality(Mailers)
      BY <2>a, <3>2, <3>3, <3>4
    <3>. QED  BY <3>5 DEF queued
  <2>2. CASE r \notin batch[m]
    <3>1. /\ Holding(r, TRUE)' = Holding(r, TRUE)
          /\ Holding(r, FALSE)' = Holding(r, FALSE)
      BY <1>1, <2>2 DEF Holding
    <3>2. mailed'[r] = mailed[r] /\ unmarked' = unmarked
      BY <1>1, <2>0, <2>2
    <3>. HIDE DEF queued
    <3>3. IF queued' THEN mailed'[r] <= unmarked' + Cardinality(Holding(r, TRUE)')
          ELSE mailed'[r] + Cardinality(Holding(r, FALSE)')
                   <= unmarked' + Cardinality(Mailers)
      BY <2>a, <2>b, <3>1, <3>2
    <3>. QED  BY <3>3 DEF queued
  <2>. QED  BY <2>1, <2>2
<1>. QED  BY <1>2, <1>3 DEF Mailing, Mailed

\* A request ends, with its rows marked or with one more mail unmarked.
LEMMA EndDigestKeeps ==
    ASSUME Base, Mailing, NEW m \in Mailers, EndDigest(m), mailed' = mailed,
           \/ /\ unmarked' = unmarked + 1 /\ status' = status
           \/ /\ unmarked' = unmarked /\ status' = status /\ ~delivered[m]
           \/ /\ unmarked' = unmarked /\ delivered[m]
              /\ \A r \in Rows :
                    IF r \in batch[m] /\ Pending(r)
                    THEN status'[r] = "sent_in_digest" ELSE status'[r] = status[r]
    PROVE  Mailing'
<1>1. /\ batch'[m] = {} /\ ~delivered'[m]
      /\ \A k \in Mailers \ {m} : batch'[k] = batch[k] /\ delivered'[k] = delivered[k]
      /\ \A k \in Mailers : batch[k] \subseteq Rows
  BY DEF EndDigest, Base, TypeOK
<1>2. Batches'
  BY <1>1 DEF Mailing, Batches
<1>3. ASSUME NEW r \in Rows
      PROVE  IF Pending(r)' \/ status'[r] = "none"
             THEN mailed'[r] <= unmarked' + Cardinality(Holding(r, TRUE)')
             ELSE mailed'[r] + Cardinality(Holding(r, FALSE)')
                      <= unmarked' + Cardinality(Mailers)
  <2>0. /\ mailed[r] \in Nat /\ unmarked \in Nat /\ Cardinality(Mailers) \in Nat
        /\ Cardinality(Holding(r, TRUE)) \in Nat
        /\ Cardinality(Holding(r, FALSE)) \in Nat
        /\ Cardinality(Holding(r, TRUE)) + Cardinality(Holding(r, FALSE))
              <= Cardinality(Mailers)
    BY HoldingFacts DEF Base, TypeOK
  <2>1. /\ Holding(r, TRUE)' = Holding(r, TRUE) \ {m}
        /\ Holding(r, FALSE)' = Holding(r, FALSE) \ {m}
        /\ ~delivered[m] => m \notin Holding(r, TRUE)
        /\ r \notin batch[m] => m \notin Holding(r, TRUE)
    BY <1>1 DEF Holding
  <2>2. /\ Cardinality(Holding(r, TRUE)') =
              IF m \in Holding(r, TRUE) THEN Cardinality(Holding(r, TRUE)) - 1
              ELSE Cardinality(Holding(r, TRUE))
        /\ Cardinality(Holding(r, FALSE)') =
              IF m \in Holding(r, FALSE) THEN Cardinality(Holding(r, FALSE)) - 1
              ELSE Cardinality(Holding(r, FALSE))
    BY <2>1, HoldingFacts, FS_RemoveElement
  <2>3. CASE Pending(r) \/ status[r] = "none"
    <3>1. mailed[r] <= unmarked + Cardinality(Holding(r, TRUE))
      BY <2>3 DEF Mailing, Mailed
    <3>2. CASE Pending(r)' \/ status'[r] = "none"
      <4>1. unmarked' = unmarked + 1 \/ m \notin Holding(r, TRUE)
        <5>1. r \in batch[m] => status[r] # "none"
          BY DEF Mailing, Batches
        <5>. QED  BY <2>1, <2>3, <3>2, <5>1 DEF Pending
      <4>2. CASE unmarked' = unmarked + 1
        <5>1. /\ mailed[r] <= (unmarked + 1) + Cardinality(Holding(r, TRUE))
              /\ mailed[r] <= (unmarked + 1) + (Cardinality(Holding(r, TRUE)) - 1)
          BY <2>0, <3>1, MailSums
        <5>2. mailed'[r] <= unmarked' + Cardinality(Holding(r, TRUE)')
          BY <2>2, <4>2, <5>1
        <5>. QED  BY <3>2, <5>2
      <4>3. CASE unmarked' = unmarked
        <5>0. unmarked' # unmarked + 1
          BY <2>0, <4>3
        <5>1. Cardinality(Holding(r, TRUE)') = Cardinality(Holding(r, TRUE))
          BY <2>2, <4>1, <5>0
        <5>. QED  BY <3>1, <3>2, <4>3, <5>1
      <4>. QED  BY <4>2, <4>3
    <3>3. CASE ~(Pending(r)' \/ status'[r] = "none")
      <4>1. unmarked' = unmarked
        BY <2>3, <3>3 DEF Pending
      <4>2. /\ mailed[r] + Cardinality(Holding(r, FALSE))
                  <= unmarked + Cardinality(Mailers)
            /\ mailed[r] + (Cardinality(Holding(r, FALSE)) - 1)
                  <= unmarked + Cardinality(Mailers)
        BY <2>0, <3>1, MailSums
      <4>3. mailed'[r] + Cardinality(Holding(r, FALSE)')
               <= unmarked' + Cardinality(Mailers)
        BY <2>2, <4>1, <4>2
      <4>. QED  BY <3>3, <4>3
    <3>. QED  BY <3>2, <3>3
  <2>4. CASE ~(Pending(r) \/ status[r] = "none")
    <3>1. mailed[r] + Cardinality(Holding(r, FALSE)) <= unmarked + Cardinality(Mailers)
      BY <2>4 DEF Mailing, Mailed
    <3>2. status'[r] = status[r] /\ ~(Pending(r)' \/ status'[r] = "none")
      BY <2>4 DEF Pending
    <3>3. unmarked' = unmarked \/ unmarked' = unmarked + 1
      OBVIOUS
    <3>4. /\ mailed[r] + (Cardinality(Holding(r, FALSE)) - 1)
                <= unmarked + Cardinality(Mailers)
          /\ mailed[r] + Cardinality(Holding(r, FALSE))
                <= (unmarked + 1) + Cardinality(Mailers)
          /\ mailed[r] + (Cardinality(Holding(r, FALSE)) - 1)
                <= (unmarked + 1) + Cardinality(Mailers)
      BY <2>0, <3>1, MailSums
    <3>5. mailed'[r] + Cardinality(Holding(r, FALSE)')
             <= unmarked' + Cardinality(Mailers)
      BY <2>2, <3>1, <3>3, <3>4
    <3>. QED  BY <3>2, <3>5
  <2>. QED  BY <2>3, <2>4
<1>. QED  BY <1>2, <1>3 DEF Mailing, Mailed
LEMMA NextMailing == Base /\ Mailing /\ [Next]_vars => Mailing'
<1>. SUFFICES ASSUME Base, Mailing, [Next]_vars PROVE Mailing'
  OBVIOUS
<1>1. ASSUME NEW a \in Articles, Enqueue(a) PROVE Mailing'
  <2>1. \A r \in Rows : \/ status'[r] = status[r]
                        \/ status[r] = "none" /\ status'[r] = "pending"
    BY <1>1 DEF Enqueue
  <2>2. UNCHANGED <<batch, delivered, mailed, unmarked>>
    BY <1>1 DEF Enqueue, digest, world
  <2>. QED  BY <2>1, <2>2, LeavingKeeps
<1>2. CASE Sweep \/ ClearBacklog
  <2>1. \E rows, state : /\ state \in {"sent_in_digest", "rejected"}
                         /\ Retire(rows, state, 0)
    BY <1>2, OthersRetire
  <2>2. UNCHANGED <<batch, delivered, mailed, unmarked>>
    BY <1>2 DEF Sweep, ClearBacklog, RejectBefore, digest, world
  <2>3. \A r \in Rows : status'[r] = status[r] \/ (Pending(r) /\ status'[r] # "none")
    BY <2>1 DEF Retire
  <2>. QED  BY <2>2, <2>3, LeavingKeeps
<1>3. CASE ChainPosted \/ ChainFails
  <2>1. \E rows : Retire(rows, "marked_posted", began)
    BY <1>3, ChainEnds DEF EndsAt
  <2>2. UNCHANGED <<batch, delivered, mailed, unmarked>>
    BY <1>3, ChainEnds DEF digest
  <2>3. \A r \in Rows : status'[r] = status[r] \/ (Pending(r) /\ status'[r] # "none")
    BY <2>1 DEF Retire
  <2>. QED  BY <2>2, <2>3, LeavingKeeps
<1>4. ASSUME UNCHANGED <<status, batch, delivered, mailed, unmarked>>
      PROVE  Mailing'
  BY <1>4, LeavingKeeps
<1>5. CASE \/ Begin \/ CardReady \/ Land \/ Answered \/ Die \/ Tick
           \/ UNCHANGED vars
  <2>1. UNCHANGED <<status, batch, delivered, mailed, unmarked>>
    BY <1>5 DEF Begin, CardReady, Land, Answered, Die, Tick, vars, queue, digest,
                world
  <2>. QED  BY <1>4, <2>1
<1>6. ASSUME NEW m \in Mailers, MarkDigestSent(m) PROVE Mailing'
  <2>1. /\ delivered[m] /\ EndDigest(m)
        /\ mailed' = mailed /\ unmarked' = unmarked
        /\ \A r \in Rows : IF r \in batch[m] /\ Pending(r)
                           THEN status'[r] = "sent_in_digest"
                           ELSE status'[r] = status[r]
    BY <1>6 DEF MarkDigestSent, world
  <2>. QED  BY <2>1, EndDigestKeeps
<1>7. ASSUME NEW m \in Mailers, DigestFails(m) PROVE Mailing'
  <2>1. /\ EndDigest(m) /\ mailed' = mailed /\ status' = status
        /\ \/ unmarked' = unmarked + 1
           \/ unmarked' = unmarked /\ ~delivered[m]
    BY <1>7 DEF DigestFails, queue
  <2>. QED  BY <2>1, EndDigestKeeps
<1>8. ASSUME NEW m \in Mailers, StartDigest(m) \/ Deliver(m) PROVE Mailing'
  BY <1>8, StartKeeps, DeliverKeeps
<1>. QED  BY <1>1, <1>2, <1>3, <1>5, <1>6, <1>7, <1>8 DEF Next

\* A row is mailed again only by overlapping requests and unmarked mails.
THEOREM EveryMailIsAccountedFor == Spec => []MailsAccountedFor
<1>1. Base /\ Mailing => MailsAccountedFor
  <2>. SUFFICES ASSUME Base, Mailing, NEW r \in Rows
               PROVE  mailed[r] <= Cardinality(Mailers) + unmarked
    BY DEF MailsAccountedFor
  <2>1. /\ mailed[r] \in Nat /\ unmarked \in Nat /\ Cardinality(Mailers) \in Nat
        /\ Cardinality(Holding(r, TRUE)) \in Nat
        /\ Cardinality(Holding(r, FALSE)) \in Nat
        /\ Cardinality(Holding(r, TRUE)) + Cardinality(Holding(r, FALSE))
              <= Cardinality(Mailers)
    BY HoldingFacts DEF Base, TypeOK
  <2>2. mailed[r] + Cardinality(Holding(r, FALSE)) <= unmarked + Cardinality(Mailers)
    <3>1. CASE mailed[r] <= unmarked + Cardinality(Holding(r, TRUE))
      BY <2>1, <3>1, MailSums
    <3>. QED  BY <3>1 DEF Mailing, Mailed
  <2>. QED  BY <2>1, <2>2, MailSums
<1>. QED  BY <1>1, InitBase, NextBase, InitMailing, NextMailing, PTL DEF Spec
=============================================================================
