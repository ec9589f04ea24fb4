--------------------------- MODULE SingletonQueue ---------------------------
(***************************************************************************)
(* How a cycle gets from the scheduler to a worker (jobs/queues.js): every *)
(* cron tick dispatches enqueueSingletonJob, which looks the cycle's one   *)
(* job id up, clears what is left of an earlier job, and adds a new one.   *)
(* Each of its Redis commands is raced against a deadline; a command that  *)
(* loses the race is left running.  The freshness check after the add only *)
(* decides what is reported: it undoes nothing, and is left out.           *)
(*                                                                         *)
(* Redis and BullMQ are modelled from what queues.js and jobOptions.js say *)
(* of them: one connection whose commands take effect in order; a job id   *)
(* that exists is not added again; a job that is being worked on cannot be *)
(* removed; a job whose worker died stays active until it is found         *)
(* stalled, is re-run once, and then fails.                                *)
(***************************************************************************)
EXTENDS Integers, Sequences, FiniteSets

CONSTANTS
    Dispatches,     \* dispatches that may be in progress at once
    Abandoned,      \* the sender of a command nobody waits for any more
    MaxCommands     \* bound: a dispatch starts with fewer commands in flight

ASSUME QueueAssumption ==
    /\ IsFiniteSet(Dispatches)
    /\ Abandoned \notin Dispatches
    /\ MaxCommands \in Nat

VARIABLES
    job,            \* the state of the singleton, "none" if its key is gone
    stalled,        \* whether it has been found stalled before
    commands,       \* the commands under way on the producer connection
    step            \* which command every dispatch waits for

vars == <<job, stalled, commands, step>>

States == {"none", "waiting", "active", "dead", "completed", "failed", "unknown"}
Steps == {"getJob", "getState", "remove", "add"}

TypeOK ==
    /\ job \in States
    /\ stalled \in BOOLEAN
    /\ commands \in Seq([by : Dispatches \cup {Abandoned}, cmd : Steps])
    /\ Len(commands) <= MaxCommands + Cardinality(Dispatches)
    /\ step \in [Dispatches -> Steps \cup {"idle"}]

Init ==
    /\ job \in {"none", "completed", "failed", "unknown"}
    /\ stalled = FALSE
    /\ commands = <<>>
    /\ step = [d \in Dispatches |-> "idle"]

-----------------------------------------------------------------------------
(* The dispatch: enqueueWithQueue.                                         *)

\* job.getState(): a job whose worker died is still in the active list.
ReportedState ==
    CASE job = "dead" -> "active"
      [] job = "none" -> "unknown"
      [] OTHER -> job

\* Mutant: only completed and failed are cleared (the rule that was replaced).
HoldsWhatItCannotName(state) == state \notin {"completed", "failed"}

\* DEDUP_HOLDING_STATES.
Holds(state) == state \in {"active"}

Wait(d, cmd) == step' = [step EXCEPT ![d] = cmd]

\* A cron tick starts a dispatch.
Dispatch(d) ==
    /\ step[d] = "idle"
    /\ Len(commands) < MaxCommands
    /\ commands' = Append(commands, [by |-> d, cmd |-> "getJob"])
    /\ Wait(d, "getJob")
    /\ UNCHANGED <<job, stalled>>

\* The command at the head of the connection takes effect.  Nobody hears the
\* answer to an abandoned one; a sender that waits sends its next command, behind
\* the ones under way, or is done.
Executes(cmd) == commands # <<>> /\ Head(commands).cmd = cmd

Sender == Head(commands).by

Ignored == commands' = Tail(commands) /\ UNCHANGED step

Then(cmd) ==
    /\ commands' = Append(Tail(commands), [by |-> Sender, cmd |-> cmd])
    /\ Wait(Sender, cmd)

Done == commands' = Tail(commands) /\ Wait(Sender, "idle")

GetJob ==
    /\ Executes("getJob")
    /\ \/ Sender = Abandoned /\ Ignored
       \/ Sender # Abandoned /\ job = "none" /\ Then("add")
       \/ Sender # Abandoned /\ job # "none" /\ Then("getState")
    /\ UNCHANGED <<job, stalled>>

GetState ==
    /\ Executes("getState")
    /\ \/ Sender = Abandoned /\ Ignored
       \/ Sender # Abandoned /\ Holds(ReportedState) /\ Done
       \/ Sender # Abandoned /\ ~Holds(ReportedState) /\ Then("remove")
    /\ UNCHANGED <<job, stalled>>

\* remove() is refused only for a job a worker holds; either way the add follows.
Remove ==
    /\ Executes("remove")
    /\ IF job = "active"
       THEN UNCHANGED <<job, stalled>>
       ELSE job' = "none" /\ stalled' = FALSE
    /\ IF Sender = Abandoned THEN Ignored ELSE Then("add")

\* add() creates the job, or hands back the one that has the id.
Add ==
    /\ Executes("add")
    /\ IF job = "none"
       THEN job' = "waiting" /\ stalled' = FALSE
       ELSE UNCHANGED <<job, stalled>>
    /\ IF Sender = Abandoned THEN Ignored ELSE Done

\* Mutant: whoever is thrown at clears the job away once more, without waiting.
ThrownWithCleanup(d, left) ==
    LET cleanup == [by |-> Abandoned, cmd |-> "remove"]
    IN  IF step[d] = "remove"
        THEN /\ commands' = left \o <<cleanup, [by |-> d, cmd |-> "add"]>>
             /\ Wait(d, "add")
        ELSE commands' = Append(left, cleanup) /\ Wait(d, "idle")

\* A command that throws ends the dispatch, except remove(), whose error is caught.
Thrown(d, left) ==
    IF step[d] = "remove"
    THEN commands' = Append(left, [by |-> d, cmd |-> "add"]) /\ Wait(d, "add")
    ELSE commands' = left /\ Wait(d, "idle")

\* The command is refused and has no effect (a producer connection that is down
\* does not buffer: enableOfflineQueue false).
Reject ==
    /\ commands # <<>> /\ Sender # Abandoned
    /\ Thrown(Sender, Tail(commands))
    /\ UNCHANGED <<job, stalled>>

\* The deadline passes; the command it was for is left running.
Abandon(d) ==
    [i \in DOMAIN commands |->
        IF commands[i].by = d THEN [commands[i] EXCEPT !.by = Abandoned]
        ELSE commands[i]]

\* Mutant: the two lookups are awaited without a deadline.
TimeOutButLookups(d) ==
    /\ step[d] \in {"remove", "add"}
    /\ Thrown(d, Abandon(d))
    /\ UNCHANGED <<job, stalled>>

TimeOut(d) ==
    /\ step[d] # "idle"
    /\ Thrown(d, Abandon(d))
    /\ UNCHANGED <<job, stalled>>

-----------------------------------------------------------------------------
(* The worker and what Redis may do to the job.                            *)

Take == job = "waiting" /\ job' = "active" /\ UNCHANGED <<stalled, commands, step>>

Finish ==
    /\ job = "active"
    /\ job' \in {"completed", "failed"}
    /\ UNCHANGED <<stalled, commands, step>>

\* The worker dies, or the event loop starves the lock's renewal.
LoseLock == job = "active" /\ job' = "dead" /\ UNCHANGED <<stalled, commands, step>>

\* maxStalledCount 1: one more run, then failed.
FindStalled ==
    /\ job = "dead"
    /\ job' = IF stalled THEN "failed" ELSE "waiting"
    /\ stalled' = TRUE
    /\ UNCHANGED <<commands, step>>

\* The job's key outlives its place in the state sets.
Orphan ==
    /\ job \in {"waiting", "completed", "failed"}
    /\ job' = "unknown"
    /\ UNCHANGED <<stalled, commands, step>>

Execute == GetJob \/ GetState \/ Remove \/ Add \/ Reject

SomeDeadlinePasses == \E d \in Dispatches : TimeOut(d)

Next ==
    \/ \E d \in Dispatches : Dispatch(d)
    \/ SomeDeadlinePasses
    \/ Execute
    \/ Take \/ Finish \/ LoseLock \/ FindStalled \/ Orphan

Spec == Init /\ [][Next]_vars

\* Deadlines pass, whatever Redis does: setTimeout fires in a live scheduler.
FairSpec == Spec /\ \A d \in Dispatches : WF_vars(TimeOut(d))

\* Cron ticks keep coming; Redis comes to answer before the deadlines, goes on
\* executing and does not refuse the same command for ever; a worker polls far
\* more often than cron ticks, and looks for stalled jobs.  Nothing is assumed of
\* dead workers and orphans.
RedisRecovers ==
    /\ \A d \in Dispatches : WF_vars(Dispatch(d))
    /\ <>[][~SomeDeadlinePasses]_vars
    /\ WF_vars(Execute)
    /\ SF_vars(GetJob) /\ SF_vars(GetState) /\ SF_vars(Remove) /\ SF_vars(Add)
    /\ SF_vars(Take) /\ WF_vars(Finish) /\ WF_vars(FindStalled)

-----------------------------------------------------------------------------
(* Properties.                                                             *)

\* Once Redis answers in time, no leftover of an earlier job, orphaned key, dead
\* worker, refused removal or abandoned command can end the cycle: a worker takes
\* it again and again (the outage DEDUP_HOLDING_STATES was rewritten for).
CycleKeepsRunning == RedisRecovers => []<><<Take>>_vars

\* Every dispatch settles even if Redis never answers (withStepDeadline): the
\* four awaits of enqueueWithQueue are all bounded.
NoDispatchHangs == \A d \in Dispatches : step[d] # "idle" ~> step[d] = "idle"
=============================================================================
