--------------------------- MODULE LongformCycle ---------------------------
(***************************************************************************)
(* The long-form film loop (services/longform): one cycle passes the cheap *)
(* refusals, selects an event, claims it by inserting its longform_posts   *)
(* row, produces a film (about an hour), and uploads it through the QC     *)
(* gate.  What a cycle read before an await may be stale after it, several *)
(* cycles overlap when the queue re-runs a stalled job, and the worker may *)
(* die between any two steps.                                              *)
(*                                                                         *)
(* The content of a film, its stages and the wording of reasons are left   *)
(* out: a production passes or fails.                                      *)
(***************************************************************************)
EXTENDS Integers, FiniteSets

CONSTANTS
    Events,         \* the events listQualifyingEvents offers
    Runs,           \* the cycles that may be in flight at once
    NoEvent,        \* the topic of a cycle that has none
    Week,           \* WEEK_MS, in ticks
    MaxPerWeek,     \* LONGFORM_MAX_PER_WEEK
    MaxClock,       \* bound on the clock
    WorkerDies      \* whether the worker process may die

ASSUME LongformAssumption ==
    /\ IsFiniteSet(Events) /\ NoEvent \notin Events
    /\ IsFiniteSet(Runs) /\ Runs # {}
    /\ Week \in Nat \ {0}
    /\ MaxPerWeek \in Nat
    /\ MaxClock \in Nat
    /\ WorkerDies \in BOOLEAN

VARIABLES
    row,            \* longform_posts.status, "none" without a row
    attempts,       \* longform_posts.attempts
    publishedAt,    \* longform_posts.published_at
    films,          \* how many films of the event are on the channel
    filmedAt,       \* the "now" of the cycle that uploaded it (history)
    pc,             \* where every cycle is
    topic,          \* the event it works on
    started,        \* the "now" it was called with
    excluded,       \* the filmedEventIds it read before selecting
    clock

vars == <<row, attempts, publishedAt, films, filmedAt, pc, topic, started,
          excluded, clock>>

Rows == {"none", "pending", "retry", "failed", "published"}
Stages == {"idle", "selecting", "producing", "publishing", "recording"}
RetireAt == 2
Never == -1
Time == 0..MaxClock

TypeOK ==
    /\ row \in [Events -> Rows]
    /\ attempts \in [Events -> Nat]
    /\ publishedAt \in [Events -> Time \cup {Never}]
    /\ films \in [Events -> Nat]
    /\ filmedAt \in [Events -> Time \cup {Never}]
    /\ pc \in [Runs -> Stages]
    /\ topic \in [Runs -> Events \cup {NoEvent}]
    /\ started \in [Runs -> Time]
    /\ excluded \in [Runs -> SUBSET Events]
    /\ clock \in Time

Init ==
    /\ row = [e \in Events |-> "none"]
    /\ attempts = [e \in Events |-> 0]
    /\ publishedAt = [e \in Events |-> Never]
    /\ films = [e \in Events |-> 0]
    /\ filmedAt = [e \in Events |-> Never]
    /\ pc = [r \in Runs |-> "idle"]
    /\ topic = [r \in Runs |-> NoEvent]
    /\ started = [r \in Runs |-> 0]
    /\ excluded = [r \in Runs |-> {}]
    /\ clock = 0

-----------------------------------------------------------------------------

\* minIntervalMs: WEEK / max * 0.8, floored, and Infinity when paused.
MinInterval == IF MaxPerWeek > 0 THEN (Week * 4) \div (MaxPerWeek * 5)
               ELSE MaxClock + 1

\* recentPublishTimes and the filter of rateGate.
Recent(now) == {e \in Events : publishedAt[e] # Never
                               /\ now - publishedAt[e] < Week}

CalendarRateGate(now) ==  \* mutant: films are counted by calendar week
    /\ MaxPerWeek > 0
    /\ Cardinality({e \in Events : publishedAt[e] # Never
                       /\ publishedAt[e] \div Week = now \div Week}) < MaxPerWeek
    /\ \A e \in Recent(now) : now - publishedAt[e] >= MinInterval

\* rateGate: paused at zero, a rolling cap, and a distance to the newest film.
RateGate(now) ==
    /\ MaxPerWeek > 0
    /\ Cardinality(Recent(now)) < MaxPerWeek
    /\ \A e \in Recent(now) : now - publishedAt[e] >= MinInterval

\* filmedEventIds: in flight or on the channel.
FilmedEventIds == {e \in Events : row[e] \in {"pending", "published"}}

\* claimEvent: INSERT under UNIQUE(event_id) succeeds only without a row.
ClaimReplaces(e) == row[e] # "published"  \* mutant: INSERT OR REPLACE

Claimable(e) == row[e] = "none"

Leave(r) ==
    /\ pc' = [pc EXCEPT ![r] = "idle"]
    /\ topic' = [topic EXCEPT ![r] = NoEvent]
    /\ excluded' = [excluded EXCEPT ![r] = {}]

\* recordFailure: one failure leaves "retry", two retire the event.
RecordFailure(e) ==
    /\ attempts' = [attempts EXCEPT ![e] = @ + 1]
    /\ row' = [row EXCEPT ![e] =
                  IF attempts[e] + 1 >= RetireAt THEN "failed" ELSE "retry"]

-----------------------------------------------------------------------------

\* preflight passes.  A disabled loop, a shorts cycle in progress, an unmeasured
\* or exhausted quota and the rate gate refuse, which changes nothing.
BeginCycle(r) ==
    /\ pc[r] = "idle"
    /\ RateGate(clock)
    /\ pc' = [pc EXCEPT ![r] = "selecting"]
    /\ started' = [started EXCEPT ![r] = clock]
    /\ excluded' = [excluded EXCEPT ![r] = FilmedEventIds]
    /\ UNCHANGED <<row, attempts, publishedAt, films, filmedAt, topic, clock>>

\* selectTopics fails, or no event passes the depth, demand and source gates.
SelectNothing(r) ==
    /\ pc[r] = "selecting"
    /\ Leave(r)
    /\ UNCHANGED <<row, attempts, publishedAt, films, filmedAt, started, clock>>

\* The best event that was not excluded when the selection began passes every
\* gate and is claimed before any work.  The scores are abstracted: any event
\* may be the best.
SelectAndClaim(r, e) ==
    /\ pc[r] = "selecting"
    /\ e \notin excluded[r]
    /\ Claimable(e)
    /\ row' = [row EXCEPT ![e] = "pending"]
    /\ attempts' = [attempts EXCEPT ![e] = 0]
    /\ pc' = [pc EXCEPT ![r] = "producing"]
    /\ topic' = [topic EXCEPT ![r] = e]
    /\ UNCHANGED <<publishedAt, films, filmedAt, started, excluded, clock>>

\* The insert violates UNIQUE(event_id): the cycle ends.
LoseClaim(r, e) ==
    /\ pc[r] = "selecting"
    /\ e \notin excluded[r]
    /\ ~Claimable(e)
    /\ Leave(r)
    /\ UNCHANGED <<row, attempts, publishedAt, films, filmedAt, started, clock>>

\* produce throws, returns no verdict, or the verdict does not pass.
FailProduction(r) ==
    /\ pc[r] = "producing"
    /\ RecordFailure(topic[r])
    /\ Leave(r)
    /\ UNCHANGED <<publishedAt, films, filmedAt, started, clock>>

\* publishIfPassed on a passing verdict calls the publisher.
PassGate(r) ==
    /\ pc[r] = "producing"
    /\ pc' = [pc EXCEPT ![r] = "publishing"]
    /\ UNCHANGED <<row, attempts, publishedAt, films, filmedAt, topic, started,
                   excluded, clock>>

Upload(r) ==
    /\ pc[r] = "publishing"
    /\ films' = [films EXCEPT ![topic[r]] = @ + 1]
    /\ filmedAt' = [filmedAt EXCEPT ![topic[r]] = started[r]]
    /\ pc' = [pc EXCEPT ![r] = "recording"]
    /\ UNCHANGED <<row, attempts, publishedAt, topic, started, excluded, clock>>

PublisherFailsRecorded(r) ==  \* mutant: the throw is caught and recorded
    /\ pc[r] \in {"publishing", "recording"}
    /\ RecordFailure(topic[r])
    /\ Leave(r)
    /\ UNCHANGED <<publishedAt, films, filmedAt, started, clock>>

\* The publisher throws, before the film is up or after (the bundle's Shorts
\* and captions follow it).  Nothing around publishIfPassed catches it:
\* longformCycleJob swallows it and the row stays as it is.
PublisherFails(r) ==
    /\ pc[r] \in {"publishing", "recording"}
    /\ Leave(r)
    /\ UNCHANGED <<row, attempts, publishedAt, films, filmedAt, started, clock>>

\* recordPublished, with the "now" the cycle was called with.
RecordPublished(r) ==
    /\ pc[r] = "recording"
    /\ row' = [row EXCEPT ![topic[r]] = "published"]
    /\ publishedAt' = [publishedAt EXCEPT ![topic[r]] = started[r]]
    /\ Leave(r)
    /\ UNCHANGED <<attempts, films, filmedAt, started, clock>>

\* The worker dies; the job never throws, so only a stall re-runs it.
Die(r) ==
    /\ WorkerDies
    /\ pc[r] # "idle"
    /\ Leave(r)
    /\ UNCHANGED <<row, attempts, publishedAt, films, filmedAt, started, clock>>

Tick ==
    /\ clock < MaxClock
    /\ clock' = clock + 1
    /\ UNCHANGED <<row, attempts, publishedAt, films, filmedAt, pc, topic,
                   started, excluded>>

CycleStep(r) ==
    \/ BeginCycle(r)
    \/ SelectNothing(r)
    \/ \E e \in Events : SelectAndClaim(r, e) \/ LoseClaim(r, e)
    \/ FailProduction(r)
    \/ PassGate(r)
    \/ Upload(r)
    \/ PublisherFails(r)
    \/ RecordPublished(r)
    \/ Die(r)

Next == Tick \/ \E r \in Runs : CycleStep(r)

Spec == Init /\ [][Next]_vars

\* The scheduler dispatches a cycle every six hours and a step that is awaited
\* settles, so a cycle that may run does and one in flight ends; events that
\* keep qualifying are selected again and again.
Fairness ==
    /\ WF_clock(Tick)
    /\ \A r \in Runs :
          /\ WF_vars(CycleStep(r))
          /\ \A e \in Events :
                SF_vars(SelectAndClaim(r, e) \/ LoseClaim(r, e))

FairSpec == Spec /\ Fairness

-----------------------------------------------------------------------------
(***************************************************************************)
(* Properties                                                              *)
(***************************************************************************)

Working == {"producing", "publishing", "recording"}

\* "A second copy is a subscriber notification that cannot be recalled"
\* (longformCycle.js:163): over any crash, stall, throw or overlap of cycles,
\* at most one film of an event reaches the channel, and an event with a film
\* stays excluded from selection and from the claim.
OneFilmPerEvent ==
    \A e \in Events :
        /\ films[e] <= 1
        /\ films[e] = 1 => e \in FilmedEventIds

\* A claim has one owner: no two cycles produce the same event, and the row
\* of an event in production is still the claim (longformCycle.js:166).
ClaimHasOneOwner ==
    \A r \in Runs :
        pc[r] \in Working =>
            /\ row[topic[r]] = "pending"
            /\ \A s \in Runs \ {r} : topic[s] # topic[r]

\* Every cycle in flight beyond one; the films that cycles begun in a stretch of
\* time uploaded, and those of them whose record was lost: a death or a throw
\* came between the upload and recordPublished.
Overlap == Cardinality(Runs) - 1
FilmedIn(window) == {e \in Events : filmedAt[e] \in window}
UnrecordedIn(window) ==
    {e \in FilmedIn(window) :
        /\ publishedAt[e] = Never
        /\ \A r \in Runs : ~(pc[r] = "recording" /\ topic[r] = e)}

\* The rolling cap and the spacing (longformCycle.js:69) bound the films that go
\* up, at every position of the window and by the clock their cycles began at,
\* which is what published_at holds.  Two things come on top and nothing else:
\* one film for every further cycle in flight, since the gate is read an hour
\* before the film it admits, and the films that no row records, which the gate
\* cannot see.
RateHeld ==
    \A t \in Time :
        LET week == t..(t + Week - 1)
            slot == t..(t + MinInterval - 1)
        IN  /\ Cardinality(FilmedIn(week))
                  <= MaxPerWeek + Overlap + Cardinality(UnrecordedIn(week))
            /\ Cardinality(FilmedIn(slot))
                  <= 1 + Overlap + Cardinality(UnrecordedIn(slot))

\* The UNIQUE row of an event is its one claim.
Publishing == INSTANCE ClaimedPublishing WITH
    Items <- Events,
    MaxClaims <- 1,
    claims <- [e \in Events |-> IF row[e] = "none" THEN 0 ELSE 1],
    copies <- films,
    recorded <- {e \in Events : publishedAt[e] # Never}

\* No film goes up that was not claimed before, none twice, and only a film that
\* is up is recorded (claimEvent before produce, recordPublished after the upload).
PublishesUnderClaims == Publishing!Spec

-----------------------------------------------------------------------------
(***************************************************************************)
(* What comments of the code say and the code does not do.                 *)
(***************************************************************************)

\* "ONE failure leaves the topic selectable, TWO retire it"
\* (longformCycle.js:206): an event that failed once is tried again.
RetryIsTried ==
    \A e \in Events : row[e] = "retry" ~> row[e] \in {"pending", "failed"}
=============================================================================
