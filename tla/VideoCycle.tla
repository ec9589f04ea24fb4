----------------------------- MODULE VideoCycle -----------------------------
(***************************************************************************)
(* The video autopost loop (services/videoAutopost.js with the video_posts *)
(* table of models/database.js): a cycle passes the process-local guard    *)
(* and the rate gate, reads a pool of candidates, and works through it     *)
(* until one article has a rendered video.  It claims the article's row,   *)
(* uploads, records the publish, and hands the file to the channels.       *)
(*                                                                         *)
(* Whatever a cycle read at its start may be stale when it claims: writing *)
(* the spec and rendering take minutes, and a cycle that is older than     *)
(* CYCLE_HANG_MS is run over by the next one without being stopped.        *)
(*                                                                         *)
(* Length order, spec budget and editorial gates only decide which         *)
(* candidate is next, so any candidate may be next and the cycle may stop  *)
(* at any candidate.  Channel columns are disjoint from the ones here.     *)
(***************************************************************************)
EXTENDS Integers, FiniteSets

CONSTANTS
    Articles,       \* fresh, credible articles
    Runs,           \* cycles that may be in flight in one worker process
    NoArticle,      \* what a cycle without an article works on
    PublisherOf,    \* source_name of each article
    EventOf,        \* event the graph links it to, or NoEvent
    NoEvent,        \* for an article that is linked to none
    SimilarTo,      \* articles whose headline is too similar to its own
    Day,            \* 24 hours in ticks: rate window and publisher cooldown
    StoryCooldown,  \* EVENT_COOLDOWN_MS
    MaxPerDay,      \* VIDEO_MAX_PER_DAY
    PendingHang,    \* VIDEO_PENDING_HANG_MS
    CycleHang,      \* CYCLE_HANG_MS
    MaxClock,       \* bound on the clock
    WorkerDies,     \* whether the process may die
    AnswersAreLost  \* whether YouTube may keep a video whose upload threw

ASSUME VideoAssumption ==
    /\ IsFiniteSet(Articles) /\ NoArticle \notin Articles
    /\ IsFiniteSet(Runs) /\ Runs # {}
    /\ SimilarTo \in [Articles -> SUBSET Articles]
    /\ {Day, StoryCooldown, MaxPerDay} \subseteq Nat \ {0}
    /\ {PendingHang, CycleHang, MaxClock} \subseteq Nat
    /\ {WorkerDies, AnswersAreLost} \subseteq BOOLEAN

VARIABLES
    row,            \* video_posts.status, "none" without a row
    attempts,       \* video_posts.attempts
    updatedAt,      \* video_posts.updated_at while pending: nothing else reads it
    publishedAt,    \* video_posts.published_at
    uploads,        \* how many videos of the article YouTube holds
    flight,         \* cycleInFlight.startedAt, Never for null
    pc,             \* where every cycle is
    topic,          \* the article it works on
    pool,           \* the candidates it has not reached
    corpus,         \* its titleCorpus: the rows whose titles that holds
    started,        \* its "now"
    clock

rows == <<row, attempts, updatedAt, publishedAt>>
vars == <<row, attempts, updatedAt, publishedAt, uploads, flight, pc, topic,
          pool, corpus, started, clock>>

Never == -1
Time == 0..MaxClock
Stages == {"idle", "making", "uploading", "landed", "fanout"}

TypeOK ==
    /\ row \in [Articles -> {"none", "pending", "failed", "published"}]
    /\ attempts \in [Articles -> Nat]
    /\ updatedAt \in [Articles -> Time]
    /\ publishedAt \in [Articles -> Time \cup {Never}]
    /\ uploads \in [Articles -> Nat]
    /\ flight \in Time \cup {Never}
    /\ pc \in [Runs -> Stages]
    /\ topic \in [Runs -> Articles \cup {NoArticle}]
    /\ pool \in [Runs -> SUBSET Articles]
    /\ corpus \in [Runs -> SUBSET Articles]
    /\ started \in [Runs -> Time]
    /\ clock \in Time

Init ==
    /\ row = [a \in Articles |-> "none"]
    /\ attempts = [a \in Articles |-> 0]
    /\ updatedAt = [a \in Articles |-> 0]
    /\ publishedAt = [a \in Articles |-> Never]
    /\ uploads = [a \in Articles |-> 0]
    /\ flight = Never
    /\ pc = [r \in Runs |-> "idle"]
    /\ topic = [r \in Runs |-> NoArticle]
    /\ pool = [r \in Runs |-> {}]
    /\ corpus = [r \in Runs |-> {}]
    /\ started = [r \in Runs |-> 0]
    /\ clock = 0

-----------------------------------------------------------------------------
(* Gates.                                                                  *)

\* videoMinIntervalMs: Math.round(24h / max * 0.8).
MinInterval == (8 * Day + 5 * MaxPerDay) \div (10 * MaxPerDay)

PublishedSince(t) == {a \in Articles : row[a] = "published"
                                       /\ publishedAt[a] > t}

RateGateByDay(now) ==  \* mutant: the cap resets at midnight
    /\ Cardinality({a \in PublishedSince(Never) :
                       publishedAt[a] \div Day = now \div Day}) < MaxPerDay
    /\ \A a \in PublishedSince(Never) : now - publishedAt[a] >= MinInterval

\* rateGate: a rolling cap, and a distance to the newest publish.
RateGate(now) ==
    /\ Cardinality(PublishedSince(now - Day)) < MaxPerDay
    /\ \A a \in PublishedSince(Never) : now - publishedAt[a] >= MinInterval

PublisherRested(a, now) ==
    \A b \in PublishedSince(now - Day) : PublisherOf[b] # PublisherOf[a]

PassesCooldownOfADay(a, now, seen) ==  \* mutant: both share one window
    /\ PublisherRested(a, now)
    /\ IF EventOf[a] # NoEvent
       THEN \A b \in PublishedSince(now - Day) : EventOf[b] # EventOf[a]
       ELSE SimilarTo[a] \cap seen = {}

\* cooldownGate: the publisher, then the event as the rows have it now, or, for
\* an article the graph linked to none, the titles the cycle read at its start.
PassesCooldown(a, now, seen) ==
    /\ PublisherRested(a, now)
    /\ IF EventOf[a] # NoEvent
       THEN \A b \in PublishedSince(now - StoryCooldown) : EventOf[b] # EventOf[a]
       ELSE SimilarTo[a] \cap seen = {}

FreshUntilThree(now) ==  \* mutant: attempts <= 2
    {a \in Articles :
        \/ row[a] = "none"
        \/ /\ row[a] # "published"
           /\ attempts[a] <= 2
           /\ ~(row[a] = "pending" /\ updatedAt[a] > now - PendingHang)}

\* findFreshUnvideoedArticles.
Fresh(now) ==
    {a \in Articles :
        \/ row[a] = "none"
        \/ /\ row[a] # "published"
           /\ attempts[a] < 2
           /\ ~(row[a] = "pending" /\ updatedAt[a] > now - PendingHang)}

\* The stale-override guard.
GuardOpen(now) == flight = Never \/ now - flight >= CycleHang

-----------------------------------------------------------------------------
(* The pieces of a cycle that end in an await or in its last line.         *)

\* finish() and the finally block, which clears the flag whoever set it.
Finish(r) ==
    /\ flight' = Never
    /\ pc' = [pc EXCEPT ![r] = "idle"]
    /\ topic' = [topic EXCEPT ![r] = NoArticle]
    /\ pool' = [pool EXCEPT ![r] = {}]
    /\ corpus' = [corpus EXCEPT ![r] = {}]
    /\ started' = [started EXCEPT ![r] = 0]

\* The loop goes on to a candidate of left that selectionGate lets through and
\* asks for its spec.
Take(r, left, seen, now) ==
    /\ started' = [started EXCEPT ![r] = now]
    /\ corpus' = [corpus EXCEPT ![r] = seen]
    /\ \E a \in left :
          /\ PassesCooldown(a, now, seen)
          /\ pc' = [pc EXCEPT ![r] = "making"]
          /\ topic' = [topic EXCEPT ![r] = a]
          /\ pool' = [pool EXCEPT ![r] = left \ {a}]

\* The next candidate, or the end of the pool, of the spec budget or of the
\* scan bound.
GoOn(r) ==
    \/ Take(r, pool[r], corpus[r], started[r]) /\ UNCHANGED flight
    \/ Finish(r)

MarkVideoFailed(a) ==
    /\ row' = [row EXCEPT ![a] = "failed"]
    /\ updatedAt' = [updatedAt EXCEPT ![a] = 0]
    /\ UNCHANGED <<attempts, publishedAt>>

-----------------------------------------------------------------------------
(* runVideoRenderCycle.                                                    *)

\* Guard, gates, pool, titles and the first candidate, without an await in
\* between.
Begin(r) ==
    /\ pc[r] = "idle"
    /\ GuardOpen(clock)
    /\ RateGate(clock)
    /\ Take(r, {a \in Fresh(clock) : PublisherRested(a, clock)},
            PublishedSince(clock - StoryCooldown), clock)
    /\ flight' = clock
    /\ UNCHANGED <<rows, uploads, clock>>

\* The rate gate refuses, a flag or key is missing, or nothing is eligible: the
\* cycle ends where it began, and takes the flag of a hung one with it.
BeginRefused(r) ==
    /\ pc[r] = "idle"
    /\ GuardOpen(clock)
    /\ flight' = Never
    /\ UNCHANGED <<rows, uploads, pc, topic, pool, corpus, started, clock>>

\* No spec, a degraded one, or a render that throws.
MakeFails(r) ==
    /\ pc[r] = "making"
    /\ GoOn(r)
    /\ UNCHANGED <<rows, uploads, clock>>

\* Rule 0 at publish time or the packaging throws: the outer catch.
CycleThrows(r) ==
    /\ pc[r] = "making"
    /\ Finish(r)
    /\ UNCHANGED <<rows, uploads, clock>>

ClaimUncounted(r) ==  \* mutant: only the first claim counts
    /\ pc[r] = "making"
    /\ row' = [row EXCEPT ![topic[r]] = "pending"]
    /\ attempts' = [attempts EXCEPT ![topic[r]] = 1]
    /\ updatedAt' = [updatedAt EXCEPT ![topic[r]] = clock]
    /\ pc' = [pc EXCEPT ![r] = "uploading"]
    /\ UNCHANGED <<publishedAt, uploads, flight, topic, pool, corpus, started,
                   clock>>

\* claimVideoPost, then the upload is under way.
Claim(r) ==
    /\ pc[r] = "making"
    /\ row' = [row EXCEPT ![topic[r]] = "pending"]
    /\ attempts' = [attempts EXCEPT ![topic[r]] = @ + 1]
    /\ updatedAt' = [updatedAt EXCEPT ![topic[r]] = clock]
    /\ pc' = [pc EXCEPT ![r] = "uploading"]
    /\ UNCHANGED <<publishedAt, uploads, flight, topic, pool, corpus, started,
                   clock>>

\* YouTube has the video.
Land(r) ==
    /\ pc[r] = "uploading"
    /\ uploads' = [uploads EXCEPT ![topic[r]] = @ + 1]
    /\ pc' = [pc EXCEPT ![r] = "landed"]
    /\ UNCHANGED <<rows, flight, topic, pool, corpus, started, clock>>

\* The upload throws.  A quota error ends the cycle, any other goes on.
UploadThrows(r) ==
    /\ pc[r] = "uploading" \/ (pc[r] = "landed" /\ AnswersAreLost)
    /\ MarkVideoFailed(topic[r])
    /\ GoOn(r)
    /\ UNCHANGED <<uploads, clock>>

\* markVideoPublished.
Record(r) ==
    /\ pc[r] = "landed"
    /\ row' = [row EXCEPT ![topic[r]] = "published"]
    /\ publishedAt' = [publishedAt EXCEPT ![topic[r]] = clock]
    /\ updatedAt' = [updatedAt EXCEPT ![topic[r]] = 0]
    /\ pc' = [pc EXCEPT ![r] = "fanout"]
    /\ UNCHANGED <<attempts, uploads, flight, topic, pool, corpus, started, clock>>

FanOutUnguarded(r) ==  \* mutant: a channel's throw reaches the upload's catch
    /\ pc[r] = "fanout"
    /\ \/ UNCHANGED rows /\ Finish(r)
       \/ MarkVideoFailed(topic[r]) /\ GoOn(r)
    /\ UNCHANGED <<uploads, clock>>

\* The channels, each behind its own catch and all behind a second one, then
\* break.
FanOut(r) ==
    /\ pc[r] = "fanout"
    /\ Finish(r)
    /\ UNCHANGED <<rows, uploads, clock>>

\* The worker process dies: its cycles and its flag are gone.
Die ==
    /\ WorkerDies
    /\ \E r \in Runs : pc[r] # "idle"
    /\ flight' = Never
    /\ pc' = [r \in Runs |-> "idle"]
    /\ topic' = [r \in Runs |-> NoArticle]
    /\ pool' = [r \in Runs |-> {}]
    /\ corpus' = [r \in Runs |-> {}]
    /\ started' = [r \in Runs |-> 0]
    /\ UNCHANGED <<rows, uploads, clock>>

Tick ==
    /\ clock < MaxClock
    /\ clock' = clock + 1
    /\ UNCHANGED <<rows, uploads, flight, pc, topic, pool, corpus, started>>

Next ==
    \/ \E r \in Runs :
          \/ Begin(r) \/ BeginRefused(r)
          \/ MakeFails(r) \/ CycleThrows(r) \/ Claim(r)
          \/ Land(r) \/ UploadThrows(r) \/ Record(r) \/ FanOut(r)
    \/ Die
    \/ Tick

Spec == Init /\ [][Next]_vars

-----------------------------------------------------------------------------
(* Properties.                                                             *)

PublishedIn(window) ==
    {a \in Articles : row[a] = "published" /\ publishedAt[a] \in window}

\* What a gate that is read before the publish cannot see: the other cycles in
\* flight.  It is 0 in normal operation (queue concurrency 1).
Overlap == Cardinality(Runs) - 1

\* The rolling cap and the spacing hold between recorded publishes at every
\* position of the window, across failures, crashes and lost answers, although
\* rateGate is read minutes before the publish it admits.
RateHeld ==
    \A t \in Time :
        /\ Cardinality(PublishedIn(t..(t + Day - 1))) <= MaxPerDay + Overlap
        /\ Cardinality(PublishedIn(t..(t + MinInterval - 1))) <= 1 + Overlap

\* Only a cycle that overlaps r records an article while r is under way.
RecordedBeside(r, b) == Overlap > 0 /\ publishedAt[b] >= started[r]

\* What cooldownGate keeps a from going out next to.
OfThePublisher(a) == {b \in Articles : PublisherOf[b] = PublisherOf[a]}
OfTheStory(a) == IF EventOf[a] # NoEvent
                 THEN {b \in Articles : EventOf[b] = EventOf[a]}
                 ELSE SimilarTo[a]

\* No video is uploaded while its publisher has a recorded publish of the last
\* day or its story one of the last StoryCooldown (cooldownGate, read a render
\* before), but for one that an overlapping cycle recorded in the meantime.  A
\* story is the event of a linked article and the similar headlines of another;
\* an upload that no row records holds nobody back.
CooldownsHeld ==
    \A r \in Runs, b \in Articles :
        /\ pc[r] \in {"uploading", "landed"}
        /\ \/ b \in PublishedSince(clock - Day) \cap OfThePublisher(topic[r])
           \/ b \in PublishedSince(clock - StoryCooldown) \cap OfTheStory(topic[r])
        => RecordedBeside(r, b)

\* A recorded publish stands: no channel's failure, retry or later cycle takes
\* the row out of 'published', which is what would upload it again.  Only a
\* cycle that an override left behind does, whose claim (claimVideoPost's
\* upsert) or failure does not ask what its article has become since it began;
\* published_at is kept even then.
PublishedStands ==
    [][\A a \in Articles : row[a] = "published" =>
           /\ publishedAt'[a] >= publishedAt[a]
           /\ \/ row'[a] = "published"
              \/ \E r \in Runs :
                    /\ pc[r] \in {"making", "uploading", "landed"}
                    /\ topic[r] = a
                    /\ RecordedBeside(r, a)]_vars

\* The retire rule bounds the damage of crashes and lost answers: YouTube never
\* gets a third copy of an article (findFreshUnvideoedArticles, attempts < 2)
\* from cycles that do not overlap.
AtMostTwoUploads == \A a \in Articles : uploads[a] <= 2 + Overlap

\* Every claim counts in attempts; a row that is claimed again keeps the time of
\* the publish it had.
Publishing == INSTANCE ClaimedPublishing WITH
    Items <- Articles,
    MaxClaims <- 2 + Overlap,
    claims <- attempts,
    copies <- uploads,
    recorded <- {a \in Articles : publishedAt[a] # Never}

\* No copy goes out that no claim of its own was counted for, lost answers and
\* crashes between the two included, and a publish on record is on the channel.
PublishesUnderClaims == Publishing!Spec
=============================================================================
