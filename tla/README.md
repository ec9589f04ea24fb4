# Scoopfeeds: the verification project

Scoopfeeds turns news into articles, events, social posts, shorts and films
without a person in the loop, except where somebody else's footage is used.
Its code runs in three roles, each a Node process on one event loop: `web`
(Express), `scheduler` (cron) and `worker` (BullMQ consumers). They share one
SQLite database and one Redis. `better-sqlite3` is synchronous, so a statement,
a transaction, or any stretch of code without an `await` is one atomic step of
the models; everything that interleaves does so at an `await`, between
processes, or around the death of a process.

What can be lost here is not a packet but something public: a video that cannot
be recalled, footage nobody licensed, a cycle that silently stops. The
properties are about those.

All paths below are relative to `src/backend/src/`.

## Inventory

| Component | State | Operations | Talks to | What is hard | Correct when | Module |
|---|---|---|---|---|---|---|
| Incident media ledger (`services/incident/`) | a `media_candidates` row and its append-only audit trail per candidate | intake, verification run, human ruling, clearance, render tap, selection, construction, revocation, takedown | operators (`routes/incident-ops.js`), reverse image search, the render | a run awaits a search between reading and deciding; rulings arrive meanwhile | nothing is published without a person's ruling, a basis and a credit; takedowns are not forgotten; the trail explains the row | `IncidentLedger` |
| Long-form loop (`services/longform/`) | `longform_posts` rows | preflight, select and claim, produce, gate, upload, record | worker queue, YouTube | an hour between the gate and the upload; crashes; stalled re-runs | one film per event, one owner per claim, rolling rate cap | `LongformCycle` |
| Video autopost loop (`services/videoAutopost.js`) | `video_posts` rows, in-memory `cycleInFlight` | gates, pool, spec and render, claim, upload, record, fan-out | worker queue, YouTube, channels | lost answers, crashes between upload and record, hung cycles run over | rate cap and cooldowns, bounded re-uploads, a publish stands unless an overridden cycle comes back | `VideoCycle` |
| Social posting cycle (`services/socialPublisher.js`) | `social_posts` rows, `system_heartbeats` row, in-memory guard | guard, turns of the platforms, pick, compose, post, record, heartbeat, timeout | six platforms, health page | abandoned cycles that keep running, event-first picks, crashes, clients that send again | cadence, one outcome per article, a heartbeat that cannot lie | `SocialCycle` |
| Singleton job queue (`jobs/queues.js`, `services/scheduler.js`) | one Redis job per cycle, commands in flight | dispatch, getJob, getState, remove, add, deadlines, take, stall | scheduler, worker, Redis | commands given up but not cancelled, orphaned keys, dead workers | no dispatch hangs, the cycle keeps running | `SingletonQueue` |
| Video channels (`services/videoAutopost.js`, from `runChannel`) | per-channel columns of `video_posts` | cap, budget, measure, send, record | platform APIs | late results of abandoned calls, a lock shared by seven channels | a channel never hurts the others, the chain ends inside the lock | `VideoChannels` |
| X posting queue (`services/xTextPoster.js`, `services/xPostDigest.js`) | `x_post_queue` rows, a cycle's plan | enqueue, post a chain, mark, digest by cron and by hand, sweep, clear | X, mail, ingestion, two processes | rows listed once and posted over minutes, chains that break in the middle, digests that overlap | repeats only after a loss, marks tell the truth, a day's cap of rows | `XQueue` |
| Social queue consumers (`jobs/workerProcess.js`) | the jobs of one BullMQ queue | dispatch, take, complete | the social cycle, the X poster | two Workers on one queue | each job runs its own cycle | `SocialWorkers` |
| Synthetic markets (`realityIndex/syntheticMarkets/`) | markets with two pools, trades, reputations, events an extractor still asks about | create, extract, trade, expire, resolve | personas, the LLM, editors, two processes | an LLM's await between reading and writing, pool and shares rounded apart | what is sold stays backed, a market settles once, one market per extraction | `SyntheticMarkets` |
| LLM queue (`realityIndex/llmQueue.js`) | per-process pump, provider stamps, daily counts | enqueue, pump, retry | LLM providers | one pump per process, retries inside a call | caps hold, no task is starved | not modelled |
| Incident files, event graph, reality index, ingestion, rendering, mailers, migrations, caches, routes, frontend | | | | | | not modelled, see the end |

The scheduler dispatches a cycle (`SingletonQueue`), a worker takes the job and
runs one of the three publishing cycles. The queue decides whether two runs of
a cycle can overlap: concurrency is 1, but a job whose lock lapses is re-run
while the first run may still be alive (`jobs/jobOptions.js:69`), and a social
cycle is abandoned after ten minutes and goes on by itself. So each cycle model
has several cycles in flight where the code has to withstand it.

## Plan

1. `IncidentStatus`, `IncidentLedger`, `IncidentRights` (abstract), proofs. *Done.*
2. `LongformCycle`, its exclusivity and its rate. *Done, proved.*
3. `VideoCycle`, `SocialCycle`. *Done, proved: types, rates, cooldowns, uploads,
   guard, heartbeat, settled articles.* `SingletonQueue`. *Done, safety proved.*
4. `VideoChannels`. *Done, proved.*
5. `XQueue` and `SocialWorkers`. *Done; the queue proved, the consumers a finding.*
6. `SyntheticMarkets`. *Done, proved.*
7. `ClaimedPublishing` (abstract), implemented by `LongformCycle` and `VideoCycle`.
   *Done, proved.*
8. Left: the LLM queue (priorities, a rolling minute per provider, a daily cap that
   retries inside a call escape); the reality index.

## Modules

A definition marked "mutant" is a plausible bug of the definition that follows
it; no specification uses it. `PROJECT.json` maps every definition to its lines.

**`IncidentStatus`** is `incidentStatus.js`: states, edges, the payloads an edge
needs, and of `incidentClearance.js` which bases belong to whom and owe a credit.

**`IncidentLedger`** is the machine and its handlers. `status, basis, credit,
approved, takedown` are columns of the row; `trail, ruling, passed, tapped` are
what the audit rows say; `treated` is whether a treated file is on disk; `run` is
the candidate each verification request works
on, `drawn` the candidates a render has selected. `Intake`, `RecordHumanVerdict`, `BeginClearing`, `ApplyClearance`,
`MarkUncleared`, `ApproveForRender`, `WithdrawRenderApproval`,
`SelectForRender`, `RevokeClearance` and `RecordTakedownActioned` are the
handlers of the same names. A verification is `BeginRun` (up to the await) and
one of `RunDecides`, `RunLeavesWaiting`, `RunLost`; the checks' results are
chosen when it decides. That is the wired runner: `incidentAutoMode.js`, which
would decide without the person, is called by its test alone and is not modelled.
`TreatFootage` and `SweepFootage` are what `incidentFiles.js` does to the file at its
own pace, and `SelectForRender` refuses a row whose file is missing or untreated, as
`toRenderable` does. `Construct` and `Retire` are edges the machine has and
no code in the repository calls: `transition(id, "constructed")` and the render
path behind `VIDEO_INCIDENT_MEDIA_ENABLED` belong to a caller that is not there.

**`IncidentRights`** says what is promised to the owner of the footage, without
tables: a person vouches before a licence is recorded; nothing is published
without a licence or after it was withdrawn; what was published and withdrawn is
pulled at most once.

**`LongformCycle`** is the cycle of `runLongformCycle.js`, from `BeginCycle`
(preflight and rate gate) over `SelectAndClaim` or `LoseClaim` to
`FailProduction`, `Upload`, `PublisherFails` and `RecordPublished`. `films`
counts what is on the channel; `filmedAt`, a history, says when the cycle that put it
there began, recorded or not. Claims are the insert under `UNIQUE(event_id)`.

**`VideoCycle`** is `runVideoRenderCycle`. `Begin` is everything up to the first
await (guard, gates, pool, first candidate), `MakeFails` and `UploadThrows` go
on to the next candidate, `Claim`, `Land`, `Record` and `FanOut` are the path of
a publish, and `Finish` is the `finally` block. `flight` is the in-memory flag;
`Die` loses it with the process. `selectionGate` asks three things of a candidate,
each of its own kind: no publish of its publisher (`PublisherOf`) in a day and, for an
article the event graph links (`EventOf`), none of its event, both as the rows stand
then; for one it does not link, no similar headline among the titles the cycle read
when it began (`corpus`, `SimilarTo`: a relation, neither transitive nor tied to the
events). The links are constants: relinking while a cycle runs and a lookup that
throws are not modelled. Whatever only orders candidates (length,
editorial score, spec budget) is "any candidate may be next".

**`VideoChannels`** goes on where `VideoCycle` stops: its `Publish` is `VideoCycle`'s
`Record`, and everything up to `Leave` (or `Die`) is one `FanOut`. `slot` is the
position in the chain, `deadline` the timer of `withDeadline`, `call` what each
channel function is waiting for, and `abandoned` a history of the timers that
fired. `Decline` is a channel that returns before its first await, `Call` one
that starts, `Probed` and `Answer` its awaits coming back, in time or late. The
seven channel functions differ in whether they measure the file, mark `pending`
and record their outcome; `Probing`, `ByUrl` and `Silent` say which does what,
so one action stands for all of them.

**`ClaimedPublishing`** says what both publishing loops promise of a channel that
takes nothing back, without cycles, crashes or statuses: an item is claimed a
bounded number of times, every copy on the channel was paid for by a claim
written before it, and an item with a publish time is on the channel. For
`LongformCycle` a claim is the row under `UNIQUE(event_id)` and the bound is one;
for `VideoCycle` claims are `attempts` and the bound is two and one for every
overlapping cycle (the pool asks for `attempts < 2` and the claim increments later).
Failures and ends of cycles are stutters there, and a topic claimed anew pays for one
more copy, never two. The social cycle and the X queue do not implement it: they write
their rows after the post, and what they promise instead is `RepeatsAreLosses` and
`EveryRepeatIsALoss`.

**`SocialCycle`** is `runAllPlatformsCycle` and `runPlatformCycle`. An
invocation that the ten-minute wrapper abandons simply stays in flight:
`runSocialCycleWithTimeout` stops waiting for it and changes nothing. `posts`
counts what the platform holds. `Land` is the request a platform keeps, `Resend` one
that the same turn makes after an answer was lost: `withNetworkRetry` sends a publish
up to three times, and Instagram's auto style posts the single image after a carousel
that threw. `Sends` is how many requests a turn may make of a platform, with the
fallback included; an event's carousel, which has no fallback, is given as many.
`lost`, a history, counts what a death left without a row and what a turn repeated,
which is what `RepeatsAreLosses` charges repeats to.

**`SingletonQueue`** is `enqueueWithQueue` over one producer connection.
`commands` are in flight in order; a command that lost its deadline stays there
as `Abandoned` and still takes effect. `job` is the singleton's state in Redis,
`dead` one whose worker lost its lock and which `getState` still calls active.
BullMQ is modelled from what `queues.js` and `jobOptions.js` say of it.

**`SocialWorkers`** is what `SingletonQueue` leaves out: who takes the job. Two
`Worker`s are registered on the social queue, `Take` gives a waiting job to
either, and the processor that takes it decides which cycle runs.

**`XQueue`** is `x_post_queue` and everyone who writes it. `Enqueue` is the
ingestion's transaction. `Begin` lists and budgets (`Fits`, `Whole`, `Newest`),
`CardReady`, `Land`, `Answered`, `ChainPosted` and `ChainFails` are the awaits of
one chain, and `Die` ends the worker at any of them. `StartDigest`, `Deliver`,
`MarkDigestSent` and `DigestFails` are `sendXPostDigest`, run by the cron job and
by `/send-now`; `Sweep` and `ClearBacklog` reject. `onX` and `mailed` count what is
out; `unrecorded` and `unmarked` count the chains and mails that ended without
their mark, which is what the properties charge repeats to. What planning makes
of a row's text is the constant `Plan`.

**`SyntheticMarkets`** has money, shares and pools in whole numbers of the grid
that `toFixed(6)` rounds to; `Nearest` is what such a rounding may make of a
quotient, tie or not. `ExecuteTrade` and `Resolve` are one SQLite transaction each.
The question extractor is `StartExtraction`, which reads which events have no
market, and one `Draft` per event, which writes after the LLM's answer without
looking again; cron and the ops route run it in different processes.

## Runs

Each run's `about` in `PROJECT.json` says what it shows. The MC modules hold the
instances' functions and symmetry sets.

| Run | Instance and why it is enough |
|---|---|
| `incident_ledger` | One candidate, two verification requests, all four checks ruleable. No rule relates two candidates, and two requests are the least that can interleave. |
| `incident_human_kill` | The same; finds a violation. |
| `longform_cycle` | Four events, two overlapping cycles, cap 2 in a window of 5 ticks, clock to 5. A spacing of 2 lets three films into a window one after the other, and the mutant that counts by calendar week reaches the four that break the bound. |
| `longform_retry` | Two events, one cycle, fairness; finds a violation. |
| `video_alone` | Three unrelated articles, one cycle, lost answers and deaths, day of 5 ticks, cap 2, clock to 6: three publishes fit into a window exactly when the gate is wrong, and an article can be tried a third time. |
| `video_overlap` | Three articles: two share a publisher, two an event, and the unlinked one has the headline of a third. Two cycles, of which one may run over the other (`CycleHang` 1); the story cooldown (3) is longer than the day (2), as in the code, and the clock passes the day. No deaths and no lost answers, which end a cycle or fail a row as `CycleThrows` and `UploadThrows` do; the theorems have them. |
| `video_channels` | Two videos over three surfaces, one of each kind, cap 1 in a day of 2 ticks, a lock of 5 ticks of which 1 is held back, channel ceiling 2, renders of 1 and 3 ticks: the first leaves three ticks for three channels, the second a share of zero. The clock passes the lock and the day. |
| `social_cycle` | Three articles, two of one event, one platform, two invocations, hang threshold 1, clock to 4: long enough to run a hung cycle over and to see three posts where two are allowed; a turn may send three times, and an article may be out three times: one for each invocation and one that was lost. The articles of the event and the invocations are symmetric. |
| `singleton_queue` | Two dispatches (a cron tick and the boot pulse) and at most five commands in flight: a full backlog, a late command of each kind and one of another dispatch behind it. |
| `synthetic_markets` | One market with up to three trades by a person and a persona over pools of 3 that no division comes out even in, two more markets an event may get, two interchangeable extractions. Two trades on different sides are the least that moves both pools; three let the rounding add up. |
| `x_queue` | A thread of two posts and a single that is split in two, a cap of 2 rows in a day of 1 tick, a freshness of 1 tick, clock to 2, two interchangeable digest requests and one loss. The three rows exceed the cap, and rows leave the day while they are still fresh; the sweep's age is reached. |
| `social_workers` | Two Workers and the two jobs of the queue; finds a violation. |

Every bound is a CONSTANT or named in a guard: `MaxClock` stops `Tick`,
`MaxPosts` bounds `Land` in the social model, `MaxCommands` bounds `Dispatch`,
`MaxLost` the losses of the X queue.
Deadlock is checked except for the long-form runs, where the clock's bound stops
the only cycle once the rate gate is closed, for `video_channels`, where every
video may be through when it stops, and for `synthetic_markets` and `x_queue`,
where everything may be settled, mailed or rejected by then. In `video_channels` `Tick` waits for a due timer and for the
synchronous code between two channels: `LOCK_SAFETY_MS` is what the code has for a
timer that fires late.

### Overlap and the rate gates

`rateGate` is read long before the publish it admits, so overlapping cycles can
exceed a cap. `RateHeld` and `CadenceHeld` say by how much: every window holds the cap
plus the other cycles in flight, and exactly the cap when cycles do not overlap. The
argument: while a window is open, what it holds and who may still add to it never
exceed the cap plus the overlap, because whoever comes in found room, and whoever
publishes is through. It is proved for the videos, the films (whose stamps are the
beginning of their cycle, so the cycles to count are those that began in the window)
and the social posts.

What a window counts differs, because of what the gates can see. For the videos and the
social posts it is recorded posts: one that a death or a lost answer left without a
record is out and escapes its cap, and the properties say "recorded". For the films it
is what went up: of the films uploaded in a window, those beyond the cap and the
overlap are films whose record was lost (`UnrecordedIn`), which `recordPublished` never
stamped and no later gate counts.

`CooldownsHeld` is about uploads, from the moment one is under way: no recorded publish
of the same publisher or story is inside the cooldown, but for one that an overlapping
cycle recorded since this one began. That exception is all a cycle can miss between a
gate it passed and its upload, although its titles are older than its gate.

`RateHeld` of the films is checked with two overlapping cycles, that of the videos
without overlap (`queueConcurrency` is 1 for `video_render`), the cooldowns with two
cycles; the theorems are for any number.

### Fairness

Safety runs assume none. `longform_retry` assumes that the scheduler's tick
comes, that a cycle that can go on does, and, to be generous, that selection is
strongly fair to every event: even so, an event that failed once is never tried
again. `singleton_queue` has one assumption in its specification: a deadline's
timer fires (`setTimeout` in a live scheduler), from which alone every dispatch
ends. `CycleKeepsRunning` is conditional on `RedisRecovers`: from some point on
Redis answers in time, a command is not refused for ever, a worker polls (strong
fairness, since ticks may clear and re-add a waiting job any number of times)
and looks for stalled jobs.

## What the runs show beyond passing

These are disagreements between the code and its own comments, each with its run:

- A KILL a person records after verification is stored and never applied
  (`incident_human_kill`).
- A film topic that failed once stays `retry`, is selected again, and loses the
  claim to its own row on every later cycle (`longform_retry`).
- Two Workers consume the social queue and neither looks at the job's name, so an
  `x.text.post` job may run the social cycle and the other way round
  (`social_workers`).

Read in the code or seen in traces, without a run of their own:

- The repository contradicts `VerifiedRestsOnAPerson`. `incidentVerifyRunner.js:24` calls
  a person's ruling the only route to `verified`, and the wired runner keeps to it; the
  ruling of 2026-08-30 at `incidentAutoMode.js:4` removes that person. `decideAuto`
  (:104) turns NEEDS_HUMAN into `verified`, `incidentAutoMode.test.js:36` expects it, and
  `incidentDigest.js:4` describes the review before publishing as gone. No code but the
  test calls `decideAuto`. The property and its theorem are of the code that runs;
  wiring the module in would make both false.
- An approved, cleared row may lie between the queue and the renderer: `bucketFor`
  returns null for it, so no bucket shows it, and `toRenderable` refuses it when no file
  is named, on disk or treated (`incidentCutaways.js:131`, :139, :146), with a log line
  for the only sign. `approveForRender` asks nothing about the file, the sweep takes the
  files of undecided rows, and no code writes the column that names a treated one.

- A hung video cycle that comes back clears its successor's in-flight flag
  (`videoAutopost.js:2184`, against the comment at :335), so a third may start. The
  social cycle releases only its own.
- An event posted by carousel goes out again when the fallback picks one of its
  articles (`socialPublisher.js:127`), and failed attempts at an event are not
  counted because their rows carry no event (`socialPublisher.js:580`, against
  `database.js:1478`).
- The X cap counts rows, while the comment at `xTextPoster.js:135` has every post
  count: a row that is split costs several posts and counts once from the next
  cycle on. A part whose first post went out is marked although its second never
  did.
- A chain that breaks leaves the rest of its thread pending until it is swept or
  mailed, and threads that never fit go on taking the slots of
  `X_TEXT_ARTICLES_PER_CYCLE`.
- A row can be mailed and posted: the guard on the mark (`database.js:2392`) does
  not keep the poster from posting what a digest is mailing, and a sweep or a
  digest between post and mark leaves a posted row unmarked and uncounted. A
  manual digest beside the daily one mails the same rows twice.
- A cancelled trade "doesn't score" (`resolver.js:45`) but is counted into the
  number that the Brier average is divided by (`resolver.js:138`).
- `resolver.js:16` says that agents' trades skip the reputation updates; the code
  makes them, in a table of their own (:101).
- `outcomeResolver.js:150` rewrites a question's `meta` from a row it read before
  its await.
- The machine's KILL against a standing human PASS makes `applyHumanVerdicts`
  throw (`incidentVerifyRunner.js:85`): the verdict is lost, the candidate stays
  in `verifying` and a later run can verify it.
- A reel that times out writes `failed` over the feed's outcome
  (`videoAutopost.js:2063`), and the posted feed drops out of the Facebook cap.
  A reel records nothing itself, so reels never count toward the cap they share.
- A channel budget of zero does not keep a channel from starting, as
  `channelBudget`'s comment has it: `runChannel` calls the channel first and
  abandons it afterwards.
- A timeout moves Instagram and Threads off `pending` while the platform may still
  be fetching the file, so the sweep's guard no longer holds it.
- A film publisher that throws leaves its row `pending` with no failure
  recorded; the event is not filmed again and not retired. A crash between
  upload and `recordPublished` leaves a film the rate gate does not count; such films
  are the ones `RateHeld` lets past the cap.
- `workerProcess.js:172` passes only `job.data` to `longformCycleJob`, so the
  repository's wiring ends in "misconfigured"; the model is of the cycle with its
  dependencies given.
- A video uploaded just before the worker dies is uploaded a second time after
  `VIDEO_PENDING_HANG_MS`; `AtMostTwoUploads` shows it stays at two.
- An overridden video cycle that comes back claims the article it picked whatever has
  become of it: the upsert (`database.js:2441`) sets a row its successor published back
  to `pending`, its `published_at` kept, and the article is out of the rate gate's count
  until it is published again. `PublishedStands` names this as the only way out of
  `published`.
- A social post whose worker dies before its row is written goes out again
  (`RepeatsAreLosses`: once for each such death). It may also be out twice without any:
  a publish whose answer was lost is sent again within the turn (`httpRetry.js:84`), and
  Instagram's auto style posts the image beside a carousel that threw after Meta kept it
  (`socialPublisher.js:391`; an event's carousel is exempt, :325). `RepeatsAreLosses`
  counts each such request; nothing in the code bounds them but the number of attempts.
  `compose_failed` records nothing, so the same article is tried every cycle.
  `routes/social.js` can run a cycle in another process, past the guard.
- The deadline's message "Nothing was enqueued" is wrong when the abandoned add
  lands later; the cycle then runs. The freshness check after the add rests on
  `add()` handing back the stored job's timestamp.
- A render approval withdrawn between selection and construction is lost: the
  construction goes through (which is why `NothingDrawnUnearned` speaks of a
  recorded tap, not of a standing one). A clearance revoked there makes the
  recording of the construction throw.

## Proofs

TLAPS proves, for any number of candidates, requests, events, articles and cycles:

- **`IncidentLedger_proofs`**: type correctness, `VerifiedRestsOnAPerson`,
  `TrailIsThePath`, `NothingDrawnUnearned`, `TakedownIsNeverForgotten`,
  `DecisionsStand`, and that
  `IncidentLedger` implements `IncidentRights`. The properties relate one pair of
  variables each and are not inductive: that a constructed candidate was vouched
  for depends on the path behind it. `IInv` adds what the trail shows: edges only
  climb (`Rank`, so none is crossed twice), a status past clearance implies the
  edge into it, a basis implies that edge, an approval implies the tap. The
  central lemma is `TransitionKeeps`; every handler is then a transition plus the
  columns it sets, or a step that leaves the row's status alone.
- **`LongformCycle_proofs`**: type correctness, `ClaimHasOneOwner` and
  `OneFilmPerEvent`. `IInv` adds that a working cycle is on a topic and that a
  film on the channel belongs to a row that is a claim or published, recorded by
  the cycle that is past the upload; the claim's uniqueness does the rest.
  `RateHeld`: for every window, the films recorded inside it and the cycles that
  began inside it are at most the cap and the overlap (`Room`). What went up inside it
  is one of the recorded, in the hands of such a cycle, or unrecorded
  (`FilmsAreAccountedFor`), because a record carries the stamp of its upload
  (`Stamped`). The module
  implements `ClaimedPublishing` with one claim (`FilmsAreClaimed`): `IInv` gives that
  a cycle about to upload owns a claim nobody has a film for, and one about to record
  has its film on the channel.
- **`SocialCycle_proofs`**, arguments that do not meet. `HolderIsVisible`,
  `HeartbeatNeverGoesBack` and `YoungCyclesRunAlone`, for any number of abandoned
  invocations: `IInv` leaves the posts out and says who started when: starts in flight are distinct (a
  takeover is strictly later than the flag it takes), everyone but the holder is
  past the hang threshold, and the heartbeat row is that of the newest start.
  Distinct starts are what lets the `finally` block compare timestamps to know
  its own flag. Type correctness, `CadenceHeld` and `SettledIsFinal`: the guard
  plays no part, a pick found its platform rested and its article without a row,
  and adds one recorded post at most. `RepeatsAreLosses` counts that once more (`Paid`): while an
  article has no row, whatever is out is lost or in the hands of a cycle that will
  record it, so there is one copy for each cycle when the row comes; from then on
  nobody picks it, a death only moves what was sent to what is lost, and a request that
  is sent again adds one to both sides (`ResendPays`).
- **`VideoCycle_proofs`**: type correctness, `RateHeld`, `CooldownsHeld`,
  `AtMostTwoUploads` and `PublishedStands`, for any number of overlapping cycles.
  `Windows` is the argument above over the rate gate's two windows. The other two rest
  on what a cycle knows (`Known`): a publish that should have kept it from its topic,
  that is on its topic or in its pool, or that its titles lack, was recorded beside
  it since it began. A gate that is read later only sees more; and as time passes,
  what was inside a cooldown when the cycle began is what may still be inside.
  For the uploads, `Tries` bounds attempts and the cycles that may still
  claim, `Sent` the uploads by the attempts. With `Landed` (the topic of a cycle
  past its upload is on the channel) these are `Counted`, from which every step is
  a step of `ClaimedPublishing` or a stutter (`VideosAreClaimed`). (The three lemmas that count a window
  and the cycles that may still add to it open this module, `LongformCycle_proofs`
  and, the two it needs, `SocialCycle_proofs`.)
- **`VideoChannels_proofs`**: type correctness and all five properties of the run, for
  any chain of surfaces, any videos, caps and durations. `Position` says where the
  chain stands, and `Turns`, `Unpublished` and `NobodyForgotten` what that means for
  the calls: those before the slot were made or declined, those behind it were not,
  and whatever is on the air is awaited or was given up (`EveryChannelIsReached`).
  `TheRowSaysWhatHappened` is then inductive with `OnlyTheseMeasure`. The cap is read
  before the call and met by its outcome, so `DayHasRoom` carries what `Decline` found
  through the call and through what abandoned calls of earlier videos write meanwhile;
  `CapsAre` is over every window. For the lock, `TimersFitTheLock` bounds the timer
  as well as the clock. `SharesAreKept` is the arithmetic: what is left, times the
  length of the chain, is never less than the channels still to come times what there
  was, and a budget is the floor of what is left by how many come.
- **`SingletonQueue_proofs`**: type correctness for any number of dispatches, of which
  the number of commands in flight takes the argument: a removal that times out leaves
  one command and sends another, so the connection outgrows the bound under which a
  dispatch starts. `Spare` counts the dispatches that have not done so yet, or no longer
  can; each grows it once. That a command at the head is the one its sender waits for
  (`Heeds`) is needed to know who is spare.
- **`XQueue_proofs`**: type correctness and every property of the run, for any
  articles, plans and mailers, by three arguments over the shape of a cycle: of an
  article it has still to post nothing is marked, and what is on X beyond its
  recorded chains is what this chain has sent; all marks are stamped no later than
  the cycle in flight, so its own window bounds every other; and a pending row was
  mailed once per mail that holds it or went unmarked.
- **`SyntheticMarkets_proofs`**: type correctness and the three safety properties of
  the run, for any pools, traders and extractions. The pool a trade leaves and the
  shares it sells are roundings of one quotient, hence at most one unit apart;
  `OneMarketPerExtraction` counts markets and the extractions that still ask.

They assume the named ASSUMEs of the modules, which every run evaluates, and nothing
else. Type correctness of `IncidentLedger`,
`LongformCycle`, `SocialCycle`, `SyntheticMarkets`, `VideoCycle` and `XQueue` is only
proved, without a run. What the prover did not accept of `SingletonQueue` showed that two
`CASE`s in it had overlapping arms, where TLA+ leaves the choice open; `GetJob` and
`GetState` are disjunctions for that reason. Liveness
(`RetryIsTried`, `NoDispatchHangs`, `CycleKeepsRunning`) needs `ENABLED`, which the
installed provers do not reason about, and is model-checked only; so is that
`IncidentLedger`, `LongformCycle` and `SocialWorkers` break the properties their
runs expect them to.

## Not modelled

The content of anything (articles, films, captions, scores), the render, platform
clients, hashing and search are data or network I/O. Of the modelled loops:
dry runs of the videos, the channels' own refusal under Rule 0 (the cycle asserts
it on the same input before the upload), the external heartbeat ping, the
web process's own social runs, scheduler telemetry and queue diagnostics. Of the markets: the
Brier averages, leaderboards and the outcome verifier's evidence; of the X queue:
the text and the cards. The reality index is floating-point computation; the LLM
queue's effect on its callers is their models' choice of an answer or none, and its
own rate and daily count are left; the incident files are file I/O (whether one
is treated and swept is in `IncidentLedger`); the event graph's promotion and breaking are long synchronous
batches; ingestion, mailers, migrations, disk sweeps, caches, routes and the
frontend have no interleaving of their own that the models above do not already
show. Most of the repository's lines are of these kinds.
