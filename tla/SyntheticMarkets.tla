-------------------------- MODULE SyntheticMarkets --------------------------
(***************************************************************************)
(* The play-money markets (realityIndex/syntheticMarkets and its DAO): an  *)
(* editor or an LLM opens a market on an event, people and AI personas     *)
(* trade against its constant-product pool, and an editor settles it.  (An *)
(* LLM only proposes outcomes, in a column nothing here reads.)            *)
(*                                                                         *)
(* A trade and a settlement are one SQLite transaction each.  The question *)
(* extractor reads the tables, awaits an LLM, and writes without looking   *)
(* again; cron runs it in one process behind a flag of that process, the   *)
(* ops route runs it in the web process.                                   *)
(*                                                                         *)
(* Money, shares and pools are whole numbers of 10^-6, the grid toFixed(6) *)
(* rounds to.  The questions, the personas' reasons and the Brier average  *)
(* are left out: they only choose a side, or a number nothing depends on.  *)
(***************************************************************************)
EXTENDS Integers, FiniteSets

CONSTANTS
    Markets,        \* ids of markets that may be created
    Events, NoEvent,
    Users,          \* people who may trade
    Agents,         \* the personas of aiAgents.js
    Extractors,     \* runs of the question extractor that may be in flight
    Liquidities,    \* initial_liquidity an editor may set
    LlmLiquidity,   \* the one the extractor sets
    Amounts,        \* amounts a trade may have
    MaxTrades       \* bound on the trades of each market

Traders == Users \cup Agents

ASSUME MarketAssumption ==
    /\ NoEvent \notin Events
    /\ IsFiniteSet(Markets) /\ IsFiniteSet(Extractors)
    /\ Liquidities \cup {LlmLiquidity} \cup Amounts \subseteq Nat \ {0}
    /\ MaxTrades \in [Markets -> Nat]

VARIABLES
    author,         \* generated_by, "none" while the market does not exist
    event,          \* event_id
    expired,        \* whether its end_date, if it has one, has passed
    liquidity,      \* what the pools were opened with
    pool,           \* yes_pool and no_pool
    volume,         \* total_volume
    sold,           \* shares in synthetic_market_trades, by side
    rows,           \* how many rows of synthetic_market_trades it has
    trades,         \* how many of them are a trader's
    rested,         \* whether a persona's cooldown on the market is over
    outcome,        \* outcome, "open" until resolved
    paid,           \* what the settlement paid out
    credited,       \* what it added to the traders' trades_resolved
    drafting        \* the events an extractor has not asked about yet

market == <<author, event, expired, liquidity>>
book == <<pool, volume, sold, rows, trades, rested>>
settlement == <<outcome, paid, credited>>
vars == <<author, event, expired, liquidity, pool, volume, sold, rows, trades,
          rested, outcome, paid, credited, drafting>>

Sides == {"yes", "no"}
Outcomes == Sides \cup {"cancel"}
Opposite(side) == IF side = "yes" THEN "no" ELSE "yes"

TypeOK ==
    /\ author \in [Markets -> {"none", "editor", "llm"}]
    /\ event \in [Markets -> Events \cup {NoEvent}]
    /\ expired \in [Markets -> BOOLEAN]
    /\ liquidity \in [Markets -> Nat]
    /\ pool \in [Markets -> [Sides -> Nat]]
    /\ volume \in [Markets -> Nat]
    /\ sold \in [Markets -> [Sides -> Nat]]
    /\ rows \in [Markets -> Nat]
    /\ trades \in [Markets -> [Traders -> Nat]]
    /\ rested \in [Markets -> [Agents -> BOOLEAN]]
    /\ outcome \in [Markets -> Outcomes \cup {"open"}]
    /\ paid \in [Markets -> Nat]
    /\ credited \in [Markets -> [Traders -> Nat]]
    /\ drafting \in [Extractors -> SUBSET Events]

Init ==
    /\ author = [m \in Markets |-> "none"]
    /\ event = [m \in Markets |-> NoEvent]
    /\ expired = [m \in Markets |-> FALSE]
    /\ liquidity = [m \in Markets |-> 0]
    /\ pool = [m \in Markets |-> [s \in Sides |-> 0]]
    /\ volume = [m \in Markets |-> 0]
    /\ sold = [m \in Markets |-> [s \in Sides |-> 0]]
    /\ rows = [m \in Markets |-> 0]
    /\ trades = [m \in Markets |-> [t \in Traders |-> 0]]
    /\ rested = [m \in Markets |-> [a \in Agents |-> TRUE]]
    /\ outcome = [m \in Markets |-> "open"]
    /\ paid = [m \in Markets |-> 0]
    /\ credited = [m \in Markets |-> [t \in Traders |-> 0]]
    /\ drafting = [x \in Extractors |-> {}]

Open(m) == author[m] # "none" /\ outcome[m] = "open"

-----------------------------------------------------------------------------
(* createMarket and its two callers.                                       *)

CreateMarket(m, by, e, l) ==
    /\ author[m] = "none"
    /\ author' = [author EXCEPT ![m] = by]
    /\ event' = [event EXCEPT ![m] = e]
    /\ liquidity' = [liquidity EXCEPT ![m] = l]
    /\ pool' = [pool EXCEPT ![m] = [s \in Sides |-> l]]
    /\ UNCHANGED <<expired, volume, sold, rows, trades, rested, settlement>>

\* POST /synthetic/create, on any event or none.
EditorCreates(m) ==
    /\ \E e \in Events \cup {NoEvent}, l \in Liquidities :
           CreateMarket(m, "editor", e, l)
    /\ UNCHANGED drafting

EventsWithoutOpenMarket ==  \* mutant: a settled market no longer counts
    {e \in Events : \A m \in Markets : Open(m) => event[m] # e}

\* pickCandidates: no market of the event, whoever opened it.
EventsWithoutMarket ==
    {e \in Events : \A m \in Markets : author[m] # "none" => event[m] # e}

\* runQuestionExtractor picks its events, and asks about the first.
StartExtraction(x) ==
    /\ drafting[x] = {}
    /\ \E picked \in SUBSET EventsWithoutMarket \ {{}} :
           drafting' = [drafting EXCEPT ![x] = picked]
    /\ UNCHANGED <<market, book, settlement>>

\* The LLM answers: a market on the event, or nothing usable.
Draft(x) ==
    \E e \in drafting[x] :
        /\ drafting' = [drafting EXCEPT ![x] = @ \ {e}]
        /\ \/ \E m \in Markets :
                  CreateMarket(m, "llm", e, LlmLiquidity)
           \/ UNCHANGED <<market, book, settlement>>

\* The process of the run dies.
ExtractorDies(x) ==
    /\ drafting[x] # {}
    /\ drafting' = [drafting EXCEPT ![x] = {}]
    /\ UNCHANGED <<market, book, settlement>>

-----------------------------------------------------------------------------
(* ammEngine.js and executeTrade.                                          *)

\* What toFixed(6) may make of num / den: at a tie the two conversions of one
\* quotient, each of its own floating-point value, may go different ways.
Nearest(num, den) ==
    {q \in 0..num : 2 * num - den <= 2 * q * den /\ 2 * q * den <= 2 * num + den}

\* quote: the bought side's pool once the deposit's other half is sold into the
\* pool, k / new_no_pool for side yes.
NewPool(p, side, amount) ==
    Nearest(p["yes"] * p["no"], p[Opposite(side)] + amount)

\* amount + swap_shares.
Shares(p, side, amount) ==
    {amount + p[side] - q : q \in NewPool(p, side, amount)}

\* The two refusals of quote: an empty pool, and MAX_SLIPPAGE: avg_price, which is
\* other / (pools + amount) away from fair, is at most half above it.
Quotable(p, side, amount) ==
    LET other == p[Opposite(side)]
        pools == p["yes"] + p["no"]
    IN  /\ p["yes"] > 0 /\ p["no"] > 0
        /\ 2 * pools * (other + amount) <= 3 * other * (pools + amount)

BookOneSided(m, side, amount, kept, shares) ==  \* mutant: the swap's shares stay in the pool
    /\ pool' = [pool EXCEPT ![m] =
                   [s \in Sides |-> IF s = side THEN @[s] ELSE @[s] + amount]]
    /\ sold' = [sold EXCEPT ![m][side] = @ + shares]

\* The rows of the trade: both pools, and the shares.
Book(m, side, amount, kept, shares) ==
    /\ pool' = [pool EXCEPT ![m] =
                   [s \in Sides |-> IF s = side THEN kept ELSE @[s] + amount]]
    /\ sold' = [sold EXCEPT ![m][side] = @ + shares]

\* executeTrade's own guards.
Tradable(m) == Open(m) /\ ~expired[m]

ExecuteTrade(m, t, side, amount) ==
    /\ Tradable(m)
    /\ rows[m] < MaxTrades[m]
    /\ Quotable(pool[m], side, amount)
    /\ \E kept \in NewPool(pool[m], side, amount),
          shares \in Shares(pool[m], side, amount) :
              Book(m, side, amount, kept, shares)
    /\ volume' = [volume EXCEPT ![m] = @ + amount]
    /\ rows' = [rows EXCEPT ![m] = @ + 1]
    /\ trades' = [trades EXCEPT ![m][t] = @ + 1]
    /\ UNCHANGED <<market, settlement, drafting>>

\* POST /:id/trade.
UserTrades(m, u) ==
    /\ \E side \in Sides, amount \in Amounts : ExecuteTrade(m, u, side, amount)
    /\ UNCHANGED rested

\* A persona looks at the market and its own last trade, then trades: no await
\* in between, and only one process runs the personas.
AgentTrades(m, a) ==
    /\ rested[m][a]
    /\ \E side \in Sides, amount \in Amounts : ExecuteTrade(m, a, side, amount)
    /\ rested' = [rested EXCEPT ![m][a] = FALSE]

\* AGENTS_COOLDOWN_MS passes.
Rest(m, a) ==
    /\ ~rested[m][a]
    /\ rested' = [rested EXCEPT ![m][a] = TRUE]
    /\ UNCHANGED <<market, pool, volume, sold, rows, trades, settlement,
                   drafting>>

-----------------------------------------------------------------------------
(* The outcome.                                                            *)

\* end_date passes.
Expire(m) ==
    /\ author[m] # "none" /\ ~expired[m]
    /\ expired' = [expired EXCEPT ![m] = TRUE]
    /\ UNCHANGED <<author, event, liquidity, book, settlement, drafting>>

ResolveAgain(m) ==  \* mutant: no alreadyResolved
    /\ author[m] # "none"
    /\ \E o \in Outcomes :
          /\ outcome' = [outcome EXCEPT ![m] = o]
          /\ paid' = [paid EXCEPT ![m] =
                         IF o = "cancel" THEN volume[m] ELSE sold[m][o]]
    /\ credited' = [credited EXCEPT ![m] = [t \in Traders |-> @[t] + trades[m][t]]]
    /\ UNCHANGED <<market, book, drafting>>

\* resolveMarket: every share of the winning side pays one, or every amount is
\* refunded; every trade counts in its trader's trades_resolved.
Resolve(m) ==
    /\ Open(m)
    /\ \E o \in Outcomes :
          /\ outcome' = [outcome EXCEPT ![m] = o]
          /\ paid' = [paid EXCEPT ![m] =
                         IF o = "cancel" THEN volume[m] ELSE sold[m][o]]
    /\ credited' = [credited EXCEPT ![m] = [t \in Traders |-> @[t] + trades[m][t]]]
    /\ UNCHANGED <<market, book, drafting>>

Next ==
    \/ \E m \in Markets :
          \/ EditorCreates(m) \/ Expire(m) \/ Resolve(m)
          \/ \E u \in Users : UserTrades(m, u)
          \/ \E a \in Agents : AgentTrades(m, a) \/ Rest(m, a)
    \/ \E x \in Extractors : StartExtraction(x) \/ Draft(x) \/ ExtractorDies(x)

Spec == Init /\ [][Next]_vars

-----------------------------------------------------------------------------
(* Properties.                                                             *)

PutIn(m) == liquidity[m] + volume[m]
CanPay(m) ==
    /\ \A s \in Sides :
          pool[m][s] + sold[m][s] \in PutIn(m) - rows[m] .. PutIn(m) + rows[m]
    /\ paid[m] <= PutIn(m) + rows[m]

\* A market can always pay what it sold out of what was put in, whichever way it
\* is settled: of either side, the shares sold and those in the pool are the
\* liquidity it was opened with plus the deposits, up to one unit of 10^-6 per
\* trade, because shares and pool are rounded apart.  This is the complete-set
\* argument of ammEngine's header, over any order of trades on both sides by
\* people and personas.
Backed == \A m \in Markets : CanPay(m)

\* Every trade of a settled market counts once in its trader's trades_resolved,
\* and no trade of an open one does: neither a second resolve request nor a
\* trade that races the first distorts a reputation.
SettledOnce ==
    \A m \in Markets, t \in Traders :
        credited[m][t] = IF outcome[m] = "open" THEN 0 ELSE trades[m][t]

\* Extractions that overlap can each open a market on an event they both found
\* without one ("Skip events that already have ... any synthetic market"), and
\* no more than that: one per run in flight, over any number of later runs.
OneMarketPerExtraction ==
    \A e \in Events :
        Cardinality({m \in Markets : author[m] = "llm" /\ event[m] = e})
            <= Cardinality(Extractors)
=============================================================================
