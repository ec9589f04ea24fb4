---------------------------- MODULE VideoChannels ----------------------------
(***************************************************************************)
(* The channels of a published video (services/videoAutopost.js from       *)
(* runChannel down, and the channel columns of video_posts): one after the *)
(* other they get the rendered file, each with a share of what is left of  *)
(* the job's lock.  VideoCycle's Record is Publish here and its FanOut is  *)
(* everything from there to Leave.                                         *)
(*                                                                         *)
(* A channel that exceeds its budget is abandoned, not stopped: its call   *)
(* goes on beside the channels behind it, and beside the next video's, and *)
(* writes its own outcome when it comes back.                              *)
(*                                                                         *)
(* Rule 0 is left out of the channels: the cycle asserts it on the same    *)
(* article and slides before the upload.                                   *)
(***************************************************************************)
EXTENDS Integers, FiniteSets, Sequences

CONSTANTS
    Articles,
    NoArticle,
    Chain,          \* the surfaces in the order of runVideoRenderCycle
    ColumnOf,       \* the video_posts column of a surface: the two of Facebook
                    \* share one
    ByUrl,          \* surfaces that fetch the file and mark 'pending' first
    Probing,        \* surfaces that await a measurement before they send
    Silent,         \* surfaces that record nothing themselves: the Facebook reel
    MaxPerDay,      \* VIDEO_<channel>_MAX_PER_DAY
    Day,
    Ceiling,        \* VIDEO_CHANNEL_BUDGET_MS
    Lock,           \* QUEUE_LOCK_MS_VIDEO_RENDER
    Safety,         \* LOCK_SAFETY_MS
    RenderTimes,    \* how long before its publish the cycle began
    MaxClock,       \* bound on the clock
    WorkerDies

Surfaces == {Chain[k] : k \in DOMAIN Chain}
Columns == {ColumnOf[s] : s \in Surfaces}

\* Of the surfaces that share a column, one keeps it: the feed for Facebook.
ASSUME ChannelsAssumption ==
    /\ IsFiniteSet(Articles) /\ NoArticle \notin Articles
    /\ Chain \in Seq(Surfaces)
    /\ \A j, k \in DOMAIN Chain : j # k => Chain[j] # Chain[k]
    /\ ByUrl \cup Probing \cup Silent \subseteq Surfaces
    /\ Silent \cap (ByUrl \cup Probing) = {}
    /\ \A s, z \in Surfaces \ Silent : s # z => ColumnOf[s] # ColumnOf[z]
    /\ \A z \in Silent : \E s \in Surfaces \ Silent : ColumnOf[s] = ColumnOf[z]
    /\ {MaxPerDay, Day, Ceiling, Lock, Safety, MaxClock} \subseteq Nat
    /\ RenderTimes \subseteq Nat
    /\ WorkerDies \in BOOLEAN

VARIABLES
    row,            \* video_posts.<column>_status, "none" for NULL
    publishedAt,    \* video_posts.published_at
    call,           \* what became of the call of each surface
    abandoned,      \* the calls that exceeded their budget (history)
    job,            \* the article whose chain runs
    slot,           \* the position in the chain
    deadline,       \* when the budget of that position ends, Never before it starts
    now,            \* the cycle's "now", also jobStartedAt; between two cycles,
                    \* when the last one ended
    clock

vars == <<row, publishedAt, call, abandoned, job, slot, deadline, now, clock>>

Never == -1
Time == 0..MaxClock
Outcomes == {"posted", "failed", "skipped"}

TypeOK ==
    /\ row \in [Articles -> [Columns -> {"none", "pending"} \cup Outcomes]]
    /\ publishedAt \in [Articles -> Time \cup {Never}]
    /\ call \in [Articles -> [Surfaces ->
                    {"none", "off", "probing", "sent", "lost"} \cup Outcomes]]
    /\ abandoned \subseteq Articles \X Surfaces
    /\ job \in Articles \cup {NoArticle}
    /\ slot \in 0..(Len(Chain) + 1)
    /\ deadline \in (0..(MaxClock + Ceiling)) \cup {Never}
    /\ now \in Time
    /\ clock \in Time

Init ==
    /\ row = [a \in Articles |-> [c \in Columns |-> "none"]]
    /\ publishedAt = [a \in Articles |-> Never]
    /\ call = [a \in Articles |-> [s \in Surfaces |-> "none"]]
    /\ abandoned = {}
    /\ job = NoArticle
    /\ slot = 0
    /\ deadline = Never
    /\ now = 0
    /\ clock = 0

-----------------------------------------------------------------------------
(* Caps, budgets and the columns.                                          *)

\* count<Channel>PostsSince.
PostedSince(c, t) ==
    {a \in Articles : row[a][c] = "posted" /\ publishedAt[a] > t}

CapAllowsOneMore(c) ==  \* mutant: > max instead of >= max
    Cardinality(PostedSince(c, now - Day)) <= MaxPerDay

\* A rolling day that ends where the cycle began.
CapAllows(c) == Cardinality(PostedSince(c, now - Day)) < MaxPerDay

AtLeast(a, b) == IF a < b THEN b ELSE a
AtMost(a, b) == IF a < b THEN a ELSE b

LockEnds == now + Lock - Safety

BudgetOfItsOwn(k) ==  \* mutant: every channel has the ceiling to itself
    Ceiling

BudgetOfTheRest(k) ==  \* mutant: what is left, undivided
    AtLeast(0, AtMost(Ceiling, LockEnds - clock))

\* channelBudget with channelsRemaining counted from the position.
Budget(k) ==
    AtLeast(0, AtMost(Ceiling,
                      (LockEnds - clock) \div (Len(Chain) - k + 1)))

MarkOnce(a, s, status) ==  \* mutant: WHERE the column is still NULL or pending
    row' = [row EXCEPT ![a][ColumnOf[s]] =
                IF @ \in {"none", "pending"} THEN status ELSE @]

\* markVideo<Channel>.
Mark(a, s, status) == row' = [row EXCEPT ![a][ColumnOf[s]] = status]

\* What a surface writes about itself.
MarkItself(a, s, status) ==
    IF s \in Silent THEN UNCHANGED row ELSE Mark(a, s, status)

Awaited(a, s) == job = a /\ deadline # Never /\ Chain[slot] = s

NextSlot ==
    /\ slot' = slot + 1
    /\ deadline' = Never

ResolveAnyway(a, s) ==  \* mutant: a late answer resolves whatever is awaited
    NextSlot

\* The race of withDeadline: only the call it still awaits moves the chain on.
Resolve(a, s) ==
    IF Awaited(a, s) THEN NextSlot ELSE UNCHANGED <<slot, deadline>>

\* The request goes out; a surface that fetches by URL is marked first.
Send(a, s) ==
    /\ call' = [call EXCEPT ![a][s] = "sent"]
    /\ IF s \in ByUrl THEN Mark(a, s, "pending") ELSE UNCHANGED row

-----------------------------------------------------------------------------
(* The chain.                                                              *)

\* A cycle that began at now has published a.
Publish(a) ==
    /\ job = NoArticle
    /\ publishedAt[a] = Never
    /\ \E t \in RenderTimes : clock - t >= now /\ now' = clock - t
    /\ publishedAt' = [publishedAt EXCEPT ![a] = clock]
    /\ job' = a
    /\ slot' = 1
    /\ UNCHANGED <<row, call, abandoned, deadline, clock>>

Starting == job # NoArticle /\ slot <= Len(Chain) /\ deadline = Never

\* The surface is switched off, or is not configured or at its cap and records
\* that, unless it records nothing.
Decline ==
    /\ Starting
    /\ LET s == Chain[slot] IN
       \/ /\ call' = [call EXCEPT ![job][s] = "off"]
          /\ UNCHANGED row
       \/ /\ s \notin Silent
          /\ call' = [call EXCEPT ![job][s] = "skipped"]
          /\ Mark(job, s, "skipped")
    /\ NextSlot
    /\ UNCHANGED <<publishedAt, abandoned, job, now, clock>>

\* The surface is called with its budget, however small: the call begins before
\* the deadline is set up.
Call ==
    /\ Starting
    /\ LET s == Chain[slot] IN
       /\ CapAllows(ColumnOf[s])
       /\ IF s \in Probing
            THEN call' = [call EXCEPT ![job][s] = "probing"] /\ UNCHANGED row
            ELSE Send(job, s)
    /\ deadline' = clock + Budget(slot)
    /\ UNCHANGED <<publishedAt, abandoned, job, slot, now, clock>>

\* The file was measured: it is sent, or it is too long or unmeasurable.
Probed(a, s) ==
    /\ call[a][s] = "probing"
    /\ \/ Send(a, s) /\ UNCHANGED <<slot, deadline>>
       \/ /\ call' = [call EXCEPT ![a][s] = "skipped"]
          /\ Mark(a, s, "skipped")
          /\ Resolve(a, s)
    /\ UNCHANGED <<publishedAt, abandoned, job, now, clock>>

\* The platform's answer, in time or not.
Answer(a, s) ==
    /\ call[a][s] = "sent"
    /\ \E outcome \in {"posted", "failed"} :
          /\ call' = [call EXCEPT ![a][s] = outcome]
          /\ MarkItself(a, s, outcome)
    /\ Resolve(a, s)
    /\ UNCHANGED <<publishedAt, abandoned, job, now, clock>>

TimeOutEndsTheChain ==  \* mutant: one catch around all the channels
    /\ job # NoArticle /\ deadline # Never
    /\ clock >= deadline
    /\ Mark(job, Chain[slot], "failed")
    /\ abandoned' = abandoned \cup {<<job, Chain[slot]>>}
    /\ slot' = Len(Chain) + 1
    /\ deadline' = Never
    /\ UNCHANGED <<publishedAt, call, job, now, clock>>

\* runChannel's catch: the column says failed, of the reel's column too, and the
\* chain goes on without the call.
TimeOut ==
    /\ job # NoArticle /\ deadline # Never
    /\ clock >= deadline
    /\ Mark(job, Chain[slot], "failed")
    /\ abandoned' = abandoned \cup {<<job, Chain[slot]>>}
    /\ NextSlot
    /\ UNCHANGED <<publishedAt, call, job, now, clock>>

\* The last channel is through and the cycle ends.
Leave ==
    /\ slot = Len(Chain) + 1
    /\ job' = NoArticle
    /\ slot' = 0
    /\ now' = clock
    /\ UNCHANGED <<row, publishedAt, call, abandoned, deadline, clock>>

\* The worker dies with every call it has in flight.
Die ==
    /\ WorkerDies
    /\ \/ job # NoArticle
       \/ \E a \in Articles, s \in Surfaces : call[a][s] \in {"probing", "sent"}
    /\ call' = [a \in Articles |-> [s \in Surfaces |->
                  IF call[a][s] \in {"probing", "sent"} THEN "lost"
                  ELSE call[a][s]]]
    /\ job' = NoArticle
    /\ slot' = 0
    /\ deadline' = Never
    /\ now' = clock
    /\ UNCHANGED <<row, publishedAt, abandoned, clock>>

\* A timer that is due fires in its tick: LOCK_SAFETY_MS absorbs the lateness of
\* a real one.
Tick ==
    /\ clock < MaxClock
    /\ job = NoArticle \/ (deadline # Never /\ clock < deadline)
    /\ clock' = clock + 1
    /\ UNCHANGED <<row, publishedAt, call, abandoned, job, slot, deadline, now>>

Next ==
    \/ \E a \in Articles : Publish(a)
    \/ Decline \/ Call \/ TimeOut \/ Leave
    \/ \E a \in Articles, s \in Surfaces : Probed(a, s) \/ Answer(a, s)
    \/ Die
    \/ Tick

Spec == Init /\ [][Next]_vars

-----------------------------------------------------------------------------
(* Properties.                                                             *)

\* The chain is through before the job's lock runs out (channelBudget): however
\* the channels stall, the cycle does not stay in it past LOCK_SAFETY_MS before
\* the lock's end, unless the render alone took it there.
ChainFitsTheLock ==
    job # NoArticle => clock <= AtLeast(publishedAt[job], LockEnds)

\* No channel spends the time of those behind it: whatever the ones before it
\* did, each starts with at least an equal share of what was left when the
\* chain began.
EveryChannelGetsItsShare ==
    [][deadline = Never /\ deadline' # Never =>
         deadline' - clock >=
           AtMost(Ceiling, (LockEnds - publishedAt[job]) \div Len(Chain))]_vars

\* One channel's timeout is not every channel's timeout (runChannel): when a
\* cycle leaves the chain alive, every surface had its turn.
EveryChannelIsReached ==
    [][slot = Len(Chain) + 1 /\ slot' = 0 =>
         \A s \in Surfaces : call[job][s] # "none"]_vars

\* The rolling cap of a channel holds for what was answered in time, although it
\* counts rows by the publish time on YouTube and abandoned calls of earlier
\* videos are still writing; what abandoned calls post comes on top.  Facebook's
\* feed is not covered: see TheRowSaysWhatHappened.
CapHeldInTime ==
    \A s \in Surfaces, t \in Time :
       (\A z \in Surfaces \ {s} : ColumnOf[z] # ColumnOf[s]) =>
          Cardinality({a \in Articles :
              /\ call[a][s] = "posted" /\ <<a, s>> \notin abandoned
              /\ publishedAt[a] \in t..(t + Day - 1)}) <= MaxPerDay

\* The row ends up saying what the call came to, also when it came back after it
\* was abandoned, and says pending only of a call that is out or died with its
\* process.  The exception is Facebook: the reel's timeout is written over the
\* feed's outcome.
TheRowSaysWhatHappened ==
    \A a \in Articles, s \in Surfaces \ Silent :
       /\ call[a][s] \in Outcomes =>
             \/ row[a][ColumnOf[s]] = call[a][s]
             \/ \E z \in Silent : /\ ColumnOf[z] = ColumnOf[s]
                                  /\ <<a, z>> \in abandoned
       /\ row[a][ColumnOf[s]] = "pending" => call[a][s] \in {"sent", "lost"}
=============================================================================
