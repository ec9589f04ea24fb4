----------------------------- MODULE SocialCycle ----------------------------
(***************************************************************************)
(* The social posting cycle (services/socialPublisher.js with the          *)
(* social_posts and system_heartbeats tables): one invocation passes the   *)
(* single-flight guard, stamps the heartbeat, and gives every platform its *)
(* turn in series.  A turn picks an article, or an event and its lead      *)
(* article, composes, posts, and records the outcome.                      *)
(*                                                                         *)
(* runSocialCycleWithTimeout abandons a slow cycle without stopping it, so *)
(* the next scheduler tick can find it still running: an invocation older  *)
(* than CYCLE_HANG_MS is run over and may still come back.                 *)
(*                                                                         *)
(* Credibility, recency and the editorial filter only order and thin the   *)
(* candidates, so a turn takes any of them, or declines.                   *)
(***************************************************************************)
EXTENDS Integers, Sequences, FiniteSets

CONSTANTS
    Articles,       \* fresh, credible articles
    Events,         \* events listQualifyingEvents returns
    NoEvent, NoArticle,
    EventOf,        \* resolveEventForArticle
    Order,          \* the enabled platforms, in the order of ADAPTERS
    EventPlatform,  \* the platform with IG_CAROUSEL_MODE=event, or none
    Sends,          \* requests to publish that one turn may make of a platform
    MinInterval,    \* minIntervalMs of the platforms
    Invocations,    \* invocations that may be in flight in the worker
    Hang,           \* CYCLE_HANG_MS
    MaxClock,       \* bound on the clock
    MaxPosts,       \* bound on how often one article is posted to a platform
    WorkerDies,     \* whether the process may die
    AnswersAreLost  \* whether a platform may keep a post whose call threw

Platforms == {Order[i] : i \in DOMAIN Order}

ASSUME SocialAssumption ==
    /\ IsFiniteSet(Articles) /\ NoArticle \notin Articles
    /\ IsFiniteSet(Invocations) /\ Invocations # {}
    /\ NoEvent \notin Events
    /\ EventOf \in [Articles -> Events \cup {NoEvent}]
    /\ Order \in Seq(Platforms) /\ Order # <<>>
    /\ Sends \in [Platforms -> Nat \ {0}]
    /\ {MinInterval, Hang, MaxClock, MaxPosts} \subseteq Nat
    /\ {WorkerDies, AnswersAreLost} \subseteq BOOLEAN

VARIABLES
    status,         \* social_posts.status per platform and article
    postedAt,       \* social_posts.posted_at of the posted ones
    eventId,        \* social_posts.event_id
    posts,          \* how many posts of the article the platform holds
    lost,           \* how many of them have no row to come, since a dead worker
                    \* left them or its turn sent another (history)
    flight,         \* cycleInFlight.startedAt, Never for null
    heartbeat,      \* the system_heartbeats row of the cycle
    pc,             \* where every invocation is
    turn,           \* index of the platform whose turn it is
    topic,          \* the article of the turn
    preEvent,       \* the event it was picked for
    subject,        \* the event whose carousel went out
    sends,          \* the requests of the turn that left a post
    started,        \* startedAt
    clock

rows == <<status, postedAt, eventId>>
locals == <<pc, turn, topic, preEvent, subject, sends, started>>
vars == <<status, postedAt, eventId, posts, lost, flight, heartbeat, pc, turn,
          topic, preEvent, subject, sends, started, clock>>

Never == -1
Time == 0..MaxClock

TypeOK ==
    /\ status \in [Platforms -> [Articles -> {"none", "posted", "failed"}]]
    /\ postedAt \in [Platforms -> [Articles -> Time \cup {Never}]]
    /\ eventId \in [Platforms -> [Articles -> Events \cup {NoEvent}]]
    /\ posts \in [Platforms -> [Articles -> 0..MaxPosts]]
    /\ lost \in [Platforms -> [Articles -> Nat]]
    /\ flight \in Time \cup {Never}
    /\ heartbeat \in [phase : {"none", "start", "complete", "error"},
                      started : Time \cup {Never}]
    /\ pc \in [Invocations -> {"idle", "turn", "composing", "landed"}]
    /\ turn \in [Invocations -> 1..Len(Order) + 1]
    /\ topic \in [Invocations -> Articles \cup {NoArticle}]
    /\ preEvent \in [Invocations -> Events \cup {NoEvent}]
    /\ subject \in [Invocations -> Events \cup {NoEvent}]
    /\ sends \in [Invocations -> Nat]
    /\ started \in [Invocations -> Time]
    /\ clock \in Time

Init ==
    /\ status = [p \in Platforms |-> [a \in Articles |-> "none"]]
    /\ postedAt = [p \in Platforms |-> [a \in Articles |-> Never]]
    /\ eventId = [p \in Platforms |-> [a \in Articles |-> NoEvent]]
    /\ posts = [p \in Platforms |-> [a \in Articles |-> 0]]
    /\ lost = [p \in Platforms |-> [a \in Articles |-> 0]]
    /\ flight = Never
    /\ heartbeat = [phase |-> "none", started |-> Never]
    /\ pc = [i \in Invocations |-> "idle"]
    /\ turn = [i \in Invocations |-> 1]
    /\ topic = [i \in Invocations |-> NoArticle]
    /\ preEvent = [i \in Invocations |-> NoEvent]
    /\ subject = [i \in Invocations |-> NoEvent]
    /\ sends = [i \in Invocations |-> 0]
    /\ started = [i \in Invocations |-> 0]
    /\ clock = 0

-----------------------------------------------------------------------------
(* Queries.                                                                *)

Posted(p) == {a \in Articles : status[p][a] = "posted"}

CadenceByTheDay(p) ==  \* mutant: the interval is counted in calendar slots
    \A a \in Posted(p) : clock \div MinInterval # postedAt[p][a] \div MinInterval

\* lastPostAt and the cadence guard.
CadenceAllows(p) == \A a \in Posted(p) : clock - postedAt[p][a] >= MinInterval

UnpostedIfNeverPosted(p) ==  \* mutant: failed rows are offered again
    {a \in Articles : status[p][a] # "posted"}

\* findFreshUnpostedArticles; leadArticleForEvent asks for no row at all, which
\* is the same set.
Unposted(p) == {a \in Articles : status[p][a] = "none"}

\* isEventRetiredForPlatform.
Retired(e, p) ==
    \/ \E a \in Posted(p) : eventId[p][a] = e
    \/ Cardinality({a \in Articles : status[p][a] = "failed"
                                     /\ eventId[p][a] = e}) >= 2

\* pickEventFirstForInstagram, and articles when it finds nothing.
Picks(p) ==
    LET byEvent == IF p = EventPlatform
                   THEN {<<a, EventOf[a]>> : a \in {a \in Unposted(p) :
                            EventOf[a] # NoEvent /\ ~Retired(EventOf[a], p)}}
                   ELSE {}
    IN  IF byEvent # {} THEN byEvent ELSE {<<a, NoEvent>> : a \in Unposted(p)}

\* The event tryBuildEventCarousel builds for: the picked one, or whatever
\* event the article belongs to.
ParentEvent(i) ==
    IF Order[turn[i]] # EventPlatform THEN NoEvent
    ELSE IF preEvent[i] # NoEvent THEN preEvent[i] ELSE EventOf[topic[i]]

\* recordSocialPost: an upsert on (article, platform).
RecordRow(p, a, s, t, e) ==
    /\ status' = [status EXCEPT ![p][a] = s]
    /\ postedAt' = [postedAt EXCEPT ![p][a] = t]
    /\ eventId' = [eventId EXCEPT ![p][a] = e]

\* The turn is over.
NextTurn(i) ==
    /\ pc' = [pc EXCEPT ![i] = "turn"]
    /\ turn' = [turn EXCEPT ![i] = @ + 1]
    /\ topic' = [topic EXCEPT ![i] = NoArticle]
    /\ preEvent' = [preEvent EXCEPT ![i] = NoEvent]
    /\ subject' = [subject EXCEPT ![i] = NoEvent]
    /\ sends' = [sends EXCEPT ![i] = 0]
    /\ UNCHANGED started

-----------------------------------------------------------------------------
(* runPlatformCycle.                                                       *)

\* Cadence guard, no candidate, everything filtered.
Decline(i) ==
    /\ pc[i] = "turn" /\ turn[i] <= Len(Order)
    /\ NextTurn(i)
    /\ UNCHANGED <<rows, posts, lost, flight, heartbeat, clock>>

Pick(i) ==
    /\ pc[i] = "turn" /\ turn[i] <= Len(Order)
    /\ CadenceAllows(Order[turn[i]])
    /\ \E pick \in Picks(Order[turn[i]]) :
          /\ topic' = [topic EXCEPT ![i] = pick[1]]
          /\ preEvent' = [preEvent EXCEPT ![i] = pick[2]]
    /\ pc' = [pc EXCEPT ![i] = "composing"]
    /\ UNCHANGED <<rows, posts, lost, flight, heartbeat, turn, subject,
                   sends, started, clock>>

\* compose_failed: nothing is recorded.
ComposeFails(i) ==
    /\ pc[i] = "composing"
    /\ NextTurn(i)
    /\ UNCHANGED <<rows, posts, lost, flight, heartbeat, clock>>

\* The platform has the post: the event's carousel, or, without an event, copy
\* or cards, the article's own.
Land(i) ==
    LET p == Order[turn[i]]
        a == topic[i]
    IN  /\ pc[i] = "composing"
        /\ posts[p][a] < MaxPosts
        /\ posts' = [posts EXCEPT ![p][a] = @ + 1]
        /\ \E e \in {ParentEvent(i), NoEvent} :
              subject' = [subject EXCEPT ![i] = e]
        /\ sends' = [sends EXCEPT ![i] = 1]
        /\ pc' = [pc EXCEPT ![i] = "landed"]
        /\ UNCHANGED <<rows, lost, flight, heartbeat, turn, topic,
                       preEvent, started, clock>>

\* No answer came back, and the turn sends what the platform has already: the
\* client repeats its request (withNetworkRetry), or Instagram's auto style posts
\* the single image after a carousel whose call threw.
Resend(i) ==
    LET p == Order[turn[i]]
        a == topic[i]
    IN  /\ pc[i] = "landed" /\ AnswersAreLost
        /\ sends[i] < Sends[p]
        /\ posts[p][a] < MaxPosts
        /\ posts' = [posts EXCEPT ![p][a] = @ + 1]
        /\ lost' = [lost EXCEPT ![p][a] = @ + 1]
        /\ sends' = [sends EXCEPT ![i] = @ + 1]
        /\ UNCHANGED <<rows, flight, heartbeat, pc, turn, topic, preEvent,
                       subject, started, clock>>

FailUnrecorded(i) ==  \* mutant: the catch logs and returns
    /\ NextTurn(i)
    /\ UNCHANGED <<rows, posts, lost, flight, heartbeat, clock>>

\* The catch: a failed row, without the event.
RecordFailed(i) ==
    /\ RecordRow(Order[turn[i]], topic[i], "failed", Never, NoEvent)
    /\ NextTurn(i)
    /\ UNCHANGED <<posts, lost, flight, heartbeat, clock>>

\* The adapter throws.
PostThrows(i) ==
    /\ pc[i] = "composing" \/ (pc[i] = "landed" /\ AnswersAreLost)
    /\ RecordFailed(i)

\* recordSocialPost, which the index on (event_id, platform) refuses if another
\* row of the event is posted; the refusal lands in the same catch.
Record(i) ==
    LET p == Order[turn[i]]
        taken == /\ subject[i] # NoEvent
                 /\ \E a \in Posted(p) \ {topic[i]} : eventId[p][a] = subject[i]
    IN  /\ pc[i] = "landed"
        /\ \/ /\ taken
              /\ RecordFailed(i)
           \/ /\ ~taken
              /\ RecordRow(p, topic[i], "posted", clock, subject[i])
              /\ NextTurn(i)
              /\ UNCHANGED <<posts, lost, flight, heartbeat, clock>>

-----------------------------------------------------------------------------
(* runAllPlatformsCycle.                                                   *)

\* The guard is open, or held by an invocation past the hang threshold.
Start(i) ==
    /\ pc[i] = "idle"
    /\ flight = Never \/ clock - flight > Hang
    /\ flight' = clock
    /\ heartbeat' = [phase |-> "start", started |-> clock]
    /\ pc' = [pc EXCEPT ![i] = "turn"]
    /\ started' = [started EXCEPT ![i] = clock]
    /\ UNCHANGED <<rows, posts, lost, turn, topic, preEvent, subject,
                   sends, clock>>

StampUnguarded(i, phase) ==  \* mutant: recordHeartbeat without the owner check
    heartbeat' = [phase |-> phase, started |-> started[i]]

\* recordCycleCompletionGuarded.
Stamp(i, phase) ==
    heartbeat' = IF heartbeat.started > started[i] THEN heartbeat
                 ELSE [phase |-> phase, started |-> started[i]]

ReleaseAnyway(i) == flight' = Never  \* mutant: finally { cycleInFlight = null }

\* The finally block: only the owner clears the flag.
Release(i) == flight' = IF flight = started[i] THEN Never ELSE flight

Leave(i, phase) ==
    /\ Stamp(i, phase)
    /\ Release(i)
    /\ pc' = [pc EXCEPT ![i] = "idle"]
    /\ turn' = [turn EXCEPT ![i] = 1]
    /\ topic' = [topic EXCEPT ![i] = NoArticle]
    /\ preEvent' = [preEvent EXCEPT ![i] = NoEvent]
    /\ subject' = [subject EXCEPT ![i] = NoEvent]
    /\ sends' = [sends EXCEPT ![i] = 0]
    /\ started' = [started EXCEPT ![i] = 0]
    /\ UNCHANGED <<rows, posts, lost, clock>>

Complete(i) ==
    /\ pc[i] = "turn" /\ turn[i] > Len(Order)
    /\ Leave(i, "complete")

\* A query throws and the cycle with it.
Throw(i) ==
    /\ pc[i] = "turn" /\ turn[i] <= Len(Order)
    /\ Leave(i, "error")

\* The cycles whose post is out and not on record.
Sent(p, a) ==
    {i \in Invocations : pc[i] = "landed" /\ topic[i] = a /\ Order[turn[i]] = p}

Die ==
    /\ WorkerDies
    /\ \E i \in Invocations : pc[i] # "idle"
    /\ flight' = Never
    /\ pc' = [i \in Invocations |-> "idle"]
    /\ turn' = [i \in Invocations |-> 1]
    /\ topic' = [i \in Invocations |-> NoArticle]
    /\ preEvent' = [i \in Invocations |-> NoEvent]
    /\ subject' = [i \in Invocations |-> NoEvent]
    /\ sends' = [i \in Invocations |-> 0]
    /\ started' = [i \in Invocations |-> 0]
    /\ lost' = [p \in Platforms |->
                  [a \in Articles |-> lost[p][a] + Cardinality(Sent(p, a))]]
    /\ UNCHANGED <<rows, posts, heartbeat, clock>>

Tick ==
    /\ clock < MaxClock
    /\ clock' = clock + 1
    /\ UNCHANGED <<rows, posts, lost, flight, heartbeat, locals>>

Next ==
    \/ \E i \in Invocations :
          \/ Start(i) \/ Complete(i) \/ Throw(i)
          \/ Decline(i) \/ Pick(i) \/ ComposeFails(i)
          \/ Land(i) \/ Resend(i) \/ PostThrows(i) \/ Record(i)
    \/ Die
    \/ Tick

Spec == Init /\ [][Next]_vars

-----------------------------------------------------------------------------
(* Properties.                                                             *)

\* A cycle that comes back late never overwrites the heartbeat of a newer one
\* (recordCycleCompletionGuarded): the row only moves to later cycles.
HeartbeatNeverGoesBack == [][heartbeat'.started >= heartbeat.started]_vars

\* The cycle that holds the in-memory guard is the one the heartbeat row shows
\* as started, so its hang cannot hide behind an older cycle's completion
\* (getSocialCycleHealth).
HolderIsVisible ==
    \A i \in Invocations :
        pc[i] # "idle" /\ flight = started[i]
        => heartbeat = [phase |-> "start", started |-> started[i]]

\* A cycle starts only when every other one in flight is past the hang
\* threshold, whatever older ones do when they come back.
YoungCyclesRunAlone ==
    [][\A i, j \in Invocations :
           /\ i # j
           /\ pc[i] = "idle" /\ pc'[i] # "idle"
           /\ pc[j] # "idle"
           => clock - started[j] > Hang]_vars

\* Recorded posts of a platform keep its minimum interval across crashes,
\* failures and lost answers; every cycle that overlaps can cost one post.
CadenceHeld ==
    \A p \in Platforms : \A t \in Time :
        Cardinality({a \in Posted(p) :
                        postedAt[p][a] \in t..(t + MinInterval - 1)})
            <= Cardinality(Invocations)

Working(p, a) ==
    {i \in Invocations : pc[i] \in {"composing", "landed"}
                         /\ topic[i] = a /\ Order[turn[i]] = p}

\* An article is on a platform once, once more for every cycle that overlaps, for
\* every death between a post and its row (the upsert that runPlatformCycle makes
\* after the await), and for every request that its own turn repeats because the
\* answer was lost.  No later turn adds to that: not after a failed row whose post
\* went out, nor by way of the fallback from events to articles.
RepeatsAreLosses ==
    \A p \in Platforms : \A a \in Articles :
        posts[p][a] <= lost[p][a] + Cardinality(Invocations)

\* Once an article has an outcome on a platform and the cycles that picked it
\* before are through with it, it is left alone there: no fallback, lead article
\* of an event or failed row whose post did go out brings it back.
SettledIsFinal ==
    [][\A p \in Platforms : \A a \in Articles :
           status[p][a] # "none" /\ Working(p, a) = {} =>
               /\ Working(p, a)' = {}
               /\ status'[p][a] = status[p][a]]_vars
=============================================================================
