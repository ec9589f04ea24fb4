------------------------------- MODULE XQueue -------------------------------
(***************************************************************************)
(* The queue of posts for X, x_post_queue: ingestion writes an article's   *)
(* post or thread into it, one row per part; a digest mails the pending    *)
(* rows to an editor, who pastes them by hand; and xTextPoster posts the   *)
(* fresh ones itself.  All three mark rows under WHERE status = 'pending'. *)
(*                                                                         *)
(* The poster is one job at a time: its consumer has concurrency 1 and the *)
(* queue belongs to one container.  It lists the rows, then awaits a card  *)
(* and every post; the digest lists, awaits the mail, then marks.  The     *)
(* daily digest runs in the scheduler, /send-now in the web process.       *)
(*                                                                         *)
(* The text of a row decides into how many posts it is split, none if the  *)
(* composer kept no whole sentence of it: Plan is what planning the whole  *)
(* chain makes of an article, a sequence of the parts its posts belong to. *)
(* Articles and their rows are pruned after a week, past every window      *)
(* here, and the prune is left out.                                        *)
(***************************************************************************)
EXTENDS Integers, Sequences, FiniteSets, FiniteSetsExt

CONSTANTS
    Articles, NoArticle,
    Parts,              \* rows of each article, thread_total
    Plan,               \* the part each post of its chain belongs to
    Mailers,            \* digest requests that may be in flight
    MaxPerDay,          \* X_TEXT_MAX_PER_DAY
    ArticlesPerCycle,   \* X_TEXT_ARTICLES_PER_CYCLE
    DigestArticles,     \* articleLimit of the digest
    Day,                \* the window of the cap, and the stale sweep's age
    MaxAge,             \* X_TEXT_MAX_AGE_HOURS
    MaxClock,           \* bound on Tick
    MaxLost             \* bound on the chains and mails that go unrecorded

ASSUME XQueueAssumption ==
    /\ NoArticle \notin Articles /\ IsFiniteSet(Articles) /\ IsFiniteSet(Mailers)
    /\ Parts \in [Articles -> Nat \ {0}]
    /\ Plan \in [Articles -> Seq(Nat)]
    /\ \A a \in Articles : \A i \in 1..Len(Plan[a]) :
          /\ Plan[a][i] \in 1..Parts[a]
          /\ i = 1 => Plan[a][i] = 1
          /\ i > 1 => Plan[a][i] >= Plan[a][i - 1]
    /\ {MaxPerDay, ArticlesPerCycle, DigestArticles, Day, MaxAge, MaxClock,
        MaxLost} \subseteq Nat

Rows == UNION {{a} \X (1..Parts[a]) : a \in Articles}

VARIABLES
    clock,
    status,         \* of each row, "none" before it is written
    generated,      \* generated_at of an article's rows
    markedAt,       \* marked_posted_at
    listed,         \* whole articles the poster's cycle has still to consider
    article,        \* the one whose chain it is on, NoArticle between cycles
    stage,          \* what it awaits: nothing, the card, X, or X's answer
    step,           \* the post of the chain it is at
    began,          \* now, when the cycle began
    used,           \* already + posted
    batch,          \* rows in the mail of each digest request
    delivered,      \* whether that mail has gone out
    onX,            \* posts on X, by row
    mailed,         \* mails that carried the row
    unrecorded,     \* chains with a post on X that ended without a mark
    unmarked        \* mails that went out without their mark

queue == <<status, generated, markedAt>>
poster == <<listed, article, stage, step, began, used>>
digest == <<batch, delivered>>
world == <<onX, mailed, unrecorded, unmarked>>
vars == <<clock, status, generated, markedAt, listed, article, stage, step,
          began, used, batch, delivered, onX, mailed, unrecorded, unmarked>>

Statuses == {"none", "pending", "sent_in_digest", "marked_posted", "rejected"}

TypeOK ==
    /\ clock \in Nat
    /\ status \in [Rows -> Statuses]
    /\ generated \in [Articles -> Nat] /\ markedAt \in [Rows -> Nat]
    /\ listed \subseteq Articles
    /\ article \in Articles \cup {NoArticle}
    /\ stage \in {"idle", "card", "asked", "landed"}
    /\ stage = "idle" <=> article = NoArticle
    /\ article # NoArticle => step \in 1..Len(Plan[article])
    /\ began \in Nat /\ used \in Nat
    /\ batch \in [Mailers -> SUBSET Rows] /\ delivered \in [Mailers -> BOOLEAN]
    /\ onX \in [Rows -> Nat] /\ mailed \in [Rows -> Nat]
    /\ unrecorded \in [Articles -> Nat] /\ unmarked \in Nat

Init ==
    /\ clock = 0
    /\ status = [r \in Rows |-> "none"]
    /\ generated = [a \in Articles |-> 0]
    /\ markedAt = [r \in Rows |-> 0]
    /\ listed = {} /\ article = NoArticle /\ stage = "idle"
    /\ step = 0 /\ began = 0 /\ used = 0
    /\ batch = [m \in Mailers |-> {}] /\ delivered = [m \in Mailers |-> FALSE]
    /\ onX = [r \in Rows |-> 0] /\ mailed = [r \in Rows |-> 0]
    /\ unrecorded = [a \in Articles |-> 0] /\ unmarked = 0

RowsOf(a) == {a} \X (1..Parts[a])
Pending(r) == status[r] = "pending"
Losses == unmarked + MapThenSumSet(LAMBDA a : unrecorded[a], Articles)

\* What ORDER BY latest DESC LIMIT n leaves of some articles.
Newest(found, n) ==
    {top \in SUBSET found :
        /\ IF Cardinality(found) <= n THEN top = found ELSE Cardinality(top) = n
        /\ \A a \in top, b \in found \ top : generated[a] >= generated[b]}

-----------------------------------------------------------------------------
(* Ingestion.                                                              *)

\* enqueueXPosts, one transaction, for an article that was never queued.
Enqueue(a) ==
    /\ \A r \in RowsOf(a) : status[r] = "none"
    /\ status' = [r \in Rows |-> IF r \in RowsOf(a) THEN "pending" ELSE status[r]]
    /\ generated' = [generated EXCEPT ![a] = clock]
    /\ UNCHANGED <<clock, markedAt, poster, digest, world>>

-----------------------------------------------------------------------------
(* runXTextCycle.                                                          *)

RowsPostedSince(since) ==
    {r \in Rows : status[r] = "marked_posted" /\ markedAt[r] > since}

FreshRowsInAnyStatus ==  \* mutant: no status in the WHERE
    {r \in Rows : status[r] # "none" /\ generated[r[1]] >= clock - MaxAge}

\* The WHERE of listFreshPendingXPosts.
FreshRows == {r \in Rows : Pending(r) /\ generated[r[1]] >= clock - MaxAge}

\* isComplete: all parts of the article were listed.
Whole(a) == RowsOf(a) \subseteq FreshRows

FitsAtAll(a, spent) ==  \* mutant: the budget is asked before the chain only
    Plan[a] # <<>> /\ spent < MaxPerDay

\* The rows and then the planned posts have to fit what is left of the cap.
Fits(a, spent) ==
    /\ Plan[a] # <<>>
    /\ spent + Parts[a] <= MaxPerDay
    /\ spent + Len(Plan[a]) <= MaxPerDay

\* The loop over the groups up to the next card.  An article that is passed over
\* would be passed over again: the budget only shrinks.
NextChain(now, spent, left) ==
    LET able == {a \in left : Fits(a, spent)}
    IN  \/ /\ able = {}
           /\ listed' = {} /\ article' = NoArticle /\ stage' = "idle"
           /\ step' = 0 /\ began' = 0 /\ used' = 0
        \/ \E a \in able :
              /\ \A b \in able : generated[a] >= generated[b]
              /\ listed' = left \ {a} /\ article' = a /\ stage' = "card"
              /\ step' = 1 /\ began' = now /\ used' = spent

Begin ==
    LET already == Cardinality(RowsPostedSince(clock - Day))
    IN  /\ stage = "idle"
        /\ already < MaxPerDay
        /\ \E top \in Newest({r[1] : r \in FreshRows}, ArticlesPerCycle) :
              NextChain(clock, already, {a \in top : Whole(a)})
        /\ UNCHANGED <<clock, queue, digest, world>>

\* The card is there, or none can be made: the opener goes out.
CardReady ==
    /\ stage = "card"
    /\ stage' = "asked"
    /\ UNCHANGED <<clock, queue, listed, article, step, began, used, digest, world>>

\* X has the post.
Land ==
    /\ stage = "asked"
    /\ stage' = "landed"
    /\ onX' = [onX EXCEPT ![<<article, Plan[article][step]>>] = @ + 1]
    /\ UNCHANGED <<clock, queue, listed, article, step, began, used, digest,
                   mailed, unrecorded, unmarked>>

\* doneIds after n posts of the chain were answered.
Done(n) == {<<article, Plan[article][i]>> : i \in 1..n}

MarkPosted(rows, state) ==
    /\ status' = [r \in Rows |->
                     IF r \in rows /\ Pending(r) THEN state ELSE status[r]]
    /\ markedAt' = [r \in Rows |->
                     IF r \in rows /\ Pending(r) THEN began ELSE markedAt[r]]

\* markXPostsPosted, stamped with the beginning of the cycle.  It may throw
\* twice, in the chain and in the catch.
MarkXPostsPosted(rows) ==
    \/ /\ MarkPosted(rows, "marked_posted")
       /\ UNCHANGED unrecorded
    \/ /\ rows # {}
       /\ Losses < MaxLost
       /\ unrecorded' = [unrecorded EXCEPT ![article] = @ + 1]
       /\ UNCHANGED <<status, markedAt>>

\* The answer of a post that is not the last.
Answered ==
    /\ stage = "landed" /\ step < Len(Plan[article])
    /\ stage' = "asked" /\ step' = step + 1 /\ used' = used + 1
    /\ UNCHANGED <<clock, queue, listed, article, began, digest, world>>

\* The last answer, the mark, and on to the next chain.
ChainPosted ==
    /\ stage = "landed" /\ step = Len(Plan[article])
    /\ MarkXPostsPosted(Done(step))
    /\ NextChain(began, used + 1, listed)
    /\ UNCHANGED <<clock, generated, digest, onX, mailed, unmarked>>

ChainFailsUnmarked ==  \* mutant: the catch does not mark
    /\ stage \in {"asked", "landed"}
    /\ NextChain(began, used, listed)
    /\ UNCHANGED <<clock, queue, digest, world>>

ChainFailsMarkingAll ==  \* mutant: the catch marks the chain, not what went out
    /\ stage \in {"asked", "landed"}
    /\ MarkXPostsPosted(Done(Len(Plan[article])))
    /\ NextChain(began, used, listed)
    /\ UNCHANGED <<clock, generated, digest, onX, mailed, unmarked>>

\* The post throws, although X may have it: the catch marks what was answered,
\* and the cycle goes on.
ChainFails ==
    /\ stage \in {"asked", "landed"}
    /\ IF step = 1 /\ stage = "landed"
       THEN /\ Losses < MaxLost
            /\ unrecorded' = [unrecorded EXCEPT ![article] = @ + 1]
            /\ UNCHANGED <<status, markedAt>>
       ELSE MarkXPostsPosted(Done(step - 1))
    /\ NextChain(began, used, listed)
    /\ UNCHANGED <<clock, generated, digest, onX, mailed, unmarked>>

\* The worker dies at an await.
Die ==
    /\ stage # "idle"
    /\ listed' = {} /\ article' = NoArticle /\ stage' = "idle"
    /\ step' = 0 /\ began' = 0 /\ used' = 0
    /\ IF step > 1 \/ stage = "landed"
       THEN /\ Losses < MaxLost
            /\ unrecorded' = [unrecorded EXCEPT ![article] = @ + 1]
       ELSE UNCHANGED unrecorded
    /\ UNCHANGED <<clock, queue, digest, onX, mailed, unmarked>>

-----------------------------------------------------------------------------
(* sendXPostDigest.                                                        *)

DigestibleAnyStatus ==  \* mutant: no status in the WHERE
    {r \in Rows : status[r] # "none"}

\* The WHERE of listPostsForDigest.
Digestible == {r \in Rows : Pending(r)}

StartDigest(m) ==
    /\ batch[m] = {}
    /\ \E top \in Newest({r[1] : r \in Digestible}, DigestArticles) :
           batch' = [batch EXCEPT ![m] = {r \in Digestible : r[1] \in top}]
    /\ batch'[m] # {}
    /\ UNCHANGED <<clock, queue, poster, delivered, world>>

\* The mail goes out.
Deliver(m) ==
    /\ batch[m] # {} /\ ~delivered[m]
    /\ delivered' = [delivered EXCEPT ![m] = TRUE]
    /\ mailed' = [r \in Rows |-> mailed[r] + (IF r \in batch[m] THEN 1 ELSE 0)]
    /\ UNCHANGED <<clock, queue, poster, batch, onX, unrecorded, unmarked>>

EndDigest(m) ==
    /\ batch' = [batch EXCEPT ![m] = {}]
    /\ delivered' = [delivered EXCEPT ![m] = FALSE]

\* markDigestSent.
MarkDigestSent(m) ==
    /\ delivered[m]
    /\ EndDigest(m)
    /\ status' = [r \in Rows |->
                     IF r \in batch[m] /\ Pending(r) THEN "sent_in_digest"
                     ELSE status[r]]
    /\ UNCHANGED <<clock, generated, markedAt, poster, world>>

\* sendMail throws, with the mail on its way or not, or the process dies.
DigestFails(m) ==
    /\ batch[m] # {}
    /\ EndDigest(m)
    /\ IF delivered[m] THEN Losses < MaxLost /\ unmarked' = unmarked + 1
       ELSE UNCHANGED unmarked
    /\ UNCHANGED <<clock, queue, poster, onX, mailed, unrecorded>>

-----------------------------------------------------------------------------
(* Housekeeping.                                                           *)

RejectBefore(cutoff) ==
    /\ \E r \in Rows : Pending(r) /\ generated[r[1]] < cutoff
    /\ status' = [r \in Rows |->
                     IF Pending(r) /\ generated[r[1]] < cutoff THEN "rejected"
                     ELSE status[r]]
    /\ UNCHANGED <<clock, generated, markedAt, poster, digest, world>>

\* rejectStalePending, daily.
Sweep == RejectBefore(clock - Day)

\* POST /clear-backlog, of any age or all: whatever is no newer than some article.
ClearBacklog == \E a \in Articles : RejectBefore(generated[a] + 1)

Tick ==
    /\ clock < MaxClock
    /\ clock' = clock + 1
    /\ UNCHANGED <<queue, poster, digest, world>>

Next ==
    \/ \E a \in Articles : Enqueue(a)
    \/ Begin \/ CardReady \/ Land \/ Answered \/ ChainPosted \/ ChainFails \/ Die
    \/ \E m \in Mailers :
          StartDigest(m) \/ Deliver(m) \/ MarkDigestSent(m) \/ DigestFails(m)
    \/ Sweep \/ ClearBacklog \/ Tick

Spec == Init /\ [][Next]_vars

-----------------------------------------------------------------------------
(* Properties.                                                             *)

\* How many posts of an article's chain carry the text of a row.
Posts(r) == Cardinality({i \in 1..Len(Plan[r[1]]) : Plan[r[1]][i] = r[2]})

\* "What was published must never be re-published": the text of a row goes out
\* twice only when an earlier chain broke with something on X and nothing
\* marked (a death, a lost answer to the opener, a mark that threw twice).  A
\* broken chain, the digest and the housekeeping beside it never repeat one.
EveryRepeatIsALoss ==
    \A r \in Rows : onX[r] <= Posts(r) * (1 + unrecorded[r[1]])

\* "Whatever went out stays marked, so a retry cannot repeat it.  The rest of the
\* thread is left pending rather than forced": once a part reads marked_posted
\* nothing of its thread goes out any more, neither again nor, from what a broken
\* chain left pending, as a thread of its own.
NothingAfterTheMark ==
    [][\A r \in Rows : onX'[r] > onX[r] =>
           \A q \in RowsOf(r[1]) : status[q] # "marked_posted"]_vars

\* A row that reads marked_posted is on X: what the catch marks went out, also
\* when the post it failed at, or the part it belongs to, did not.
MarkedWentOut ==
    \A r \in Rows : status[r] = "marked_posted" => onX[r] > 0

\* No day holds more rows marked posted than the cap, whatever a cycle finds
\* when it begins and however long it posts.  (The cap is of rows: a row that
\* is split costs several posts and counts once from the next cycle on.)
RowCapHeld ==
    \A t \in 0..clock :
        Cardinality({r \in RowsPostedSince(t - Day) : markedAt[r] <= t})
            <= MaxPerDay

\* A row is mailed again only by a request that overlaps another, or after a
\* mail that went out without its mark.
MailsAccountedFor ==
    \A r \in Rows : mailed[r] <= Cardinality(Mailers) + unmarked
=============================================================================
