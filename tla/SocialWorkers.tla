--------------------------- MODULE SocialWorkers ---------------------------
(***************************************************************************)
(* The consumers of the social queue.  workerProcess registers a BullMQ    *)
(* Worker for the posting cycle and one for the X text poster, both on the *)
(* queue "social"; the scheduler enqueues a job of either name.  A Worker  *)
(* takes whatever job its queue has and hands it to its one processor, and *)
(* neither processor looks at job.name (that of reality-index switches on  *)
(* it, because several jobs share that queue).                             *)
(*                                                                         *)
(* BullMQ is modelled from how jobs/ uses it: a singleton job id is        *)
(* refused while its job waits or is active, a Worker of concurrency 1     *)
(* takes a job when it has none, and a job ends when its processor does.   *)
(***************************************************************************)
EXTENDS Naturals

CONSTANTS
    Cycles,     \* the job names of the queue, each with the cycle it is for
    None        \* a Worker without a job; no cycle

VARIABLES
    waiting,    \* jobs on the queue
    job         \* the job the Worker of each cycle is at, None when it has none

vars == <<waiting, job>>

Init ==
    /\ waiting = {}
    /\ job = [w \in Cycles |-> None]

\* A cron tick, through enqueueWithQueue.
Dispatch(c) ==
    /\ c \notin waiting /\ \A w \in Cycles : job[w] # c
    /\ waiting' = waiting \cup {c}
    /\ UNCHANGED job

\* The Worker of cycle w takes a job and starts the cycle it was registered with.
Take(w, c) ==
    /\ job[w] = None /\ c \in waiting
    /\ waiting' = waiting \ {c}
    /\ job' = [job EXCEPT ![w] = c]

\* The cycle returns, throws or times out.
Complete(w) ==
    /\ job[w] # None
    /\ job' = [job EXCEPT ![w] = None]
    /\ UNCHANGED waiting

Next ==
    \E w \in Cycles : \/ Dispatch(w) \/ Complete(w)
                      \/ \E c \in Cycles : Take(w, c)

Spec == Init /\ [][Next]_vars

\* A job runs the cycle it was enqueued for: the X text poster, "a SEPARATE JOB,
\* not folded into runSocialCycleWithTimeout", has its own turns, and a stalled
\* posting cycle does not take them.
EveryJobRunsItsCycle == \A w \in Cycles : job[w] \in {None, w}
=============================================================================
