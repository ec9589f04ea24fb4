----------------------- MODULE SyntheticMarkets_proofs -----------------------
(***************************************************************************)
(* The markets, for any number of them, of traders, personas, extractions, *)
(* amounts and liquidities.                                                *)
(*                                                                         *)
(* The complete-set argument is of one trade: the pool it leaves and the   *)
(* shares it sells are roundings of one quotient, and two whole numbers    *)
(* nearest to one quotient are at most 1 apart.  The rest is that a market *)
(* nobody made is empty and that nothing trades or settles one twice.      *)
(***************************************************************************)
EXTENDS SyntheticMarkets, FiniteSetTheorems, TLAPS

\* A market that was not made yet is empty.
Unmade ==
    \A m \in Markets : author[m] = "none" =>
        /\ outcome[m] = "open" /\ liquidity[m] = 0 /\ volume[m] = 0 /\ rows[m] = 0
        /\ \A s \in Sides : pool[m][s] = 0 /\ sold[m][s] = 0

\* Nothing is paid out of a market that is open.
Unpaid == \A m \in Markets : outcome[m] = "open" => paid[m] = 0

IInv == TypeOK /\ Unmade /\ Unpaid /\ Backed /\ SettledOnce

-----------------------------------------------------------------------------
(* Rounding.                                                               *)

\* Twice the products a rounding compares, spelled out for the provers.
LEMMA Products ==
    ASSUME NEW q \in Nat, NEW d \in Nat
    PROVE  /\ q * d \in Nat /\ 2 * q * d = 2 * (q * d)
           /\ (q + 1) * d = q * d + d /\ (q + 2) * d = q * d + 2 * d
OBVIOUS

\* A product grows with its factor.
LEMMA Monotone ==
    ASSUME NEW p \in Nat, NEW q \in Nat, NEW d \in Nat, p <= q
    PROVE  p * d <= q * d
<1>1. q - p \in Nat /\ q = p + (q - p)
  OBVIOUS
<1>2. (q - p) * d \in Nat /\ (p + (q - p)) * d = p * d + (q - p) * d
  BY <1>1
<1>3. p * d \in Nat /\ q * d = p * d + (q - p) * d
  BY <1>1, <1>2
<1>. QED  BY <1>2, <1>3

\* Two whole numbers nearest to one quotient are at most one apart.
LEMMA NearestApart ==
    ASSUME NEW num \in Nat, NEW den \in Nat \ {0},
           NEW p \in Nearest(num, den), NEW q \in Nearest(num, den)
    PROVE  p <= q + 1
<1>1. /\ p \in Nat /\ q \in Nat /\ den > 0
      /\ 2 * (p * den) <= 2 * num + den /\ 2 * num - den <= 2 * (q * den)
      /\ p * den \in Nat /\ q * den \in Nat
  BY Products DEF Nearest
<1>2. SUFFICES ASSUME q + 2 <= p PROVE FALSE
  BY <1>1
<1>3. (q + 2) * den <= p * den /\ (q + 2) * den = q * den + 2 * den
  BY <1>1, <1>2, Monotone, Products
<1>4. 2 * (q * den) + 4 * den <= 2 * (p * den)
  BY <1>1, <1>3
<1>. QED  BY <1>1, <1>4

\* A deposit on one side takes nothing into the pool of the other.
LEMMA NearestShrinks ==
    ASSUME NEW y \in Nat, NEW n \in Nat, NEW amount \in Nat \ {0},
           NEW q \in Nearest(y * n, n + amount)
    PROVE  q <= y
<1>. DEFINE den == n + amount
<1>1. /\ q \in Nat /\ den \in Nat /\ den > 0
      /\ y * n \in Nat /\ y * den \in Nat /\ q * den \in Nat
      /\ 2 * (q * den) <= 2 * (y * n) + den
  <2>1. y * n \in Nat /\ den \in Nat /\ den > 0
    OBVIOUS
  <2>2. q \in Nat /\ 2 * q * den <= 2 * (y * n) + den
    BY <2>1 DEF Nearest
  <2>. HIDE DEF den
  <2>. QED  BY <2>1, <2>2, Products
<1>2. y * n <= y * den
  <2>1. n * y <= den * y
    BY <1>1, Monotone
  <2>. QED  BY <2>1
<1>. HIDE DEF den
<1>3. SUFFICES ASSUME y + 1 <= q PROVE FALSE
  BY <1>1
<1>4. (y + 1) * den <= q * den /\ (y + 1) * den = y * den + den
  BY <1>1, <1>3, Monotone, Products
<1>. QED  BY <1>1, <1>2, <1>4

\* What a quote may make of a pool: whole numbers, and the pool that is kept plus
\* the shares that are sold are the pool plus the deposit, up to one.
LEMMA QuoteFacts ==
    ASSUME NEW p \in [Sides -> Nat], NEW side \in Sides,
           NEW amount \in Nat \ {0},
           NEW kept \in NewPool(p, side, amount),
           NEW shares \in Shares(p, side, amount)
    PROVE  /\ kept \in Nat /\ shares \in Nat
           /\ kept + shares <= p[side] + amount + 1
           /\ p[side] + amount - 1 <= kept + shares
<1>1. Opposite(side) \in Sides
      /\ p["yes"] * p["no"] = p[side] * p[Opposite(side)]
  BY DEF Sides, Opposite
<1>. DEFINE y == p[side]
            n == p[Opposite(side)]
<1>2. y \in Nat /\ n \in Nat
  BY <1>1
<1>3. y * n \in Nat /\ n + amount \in Nat \ {0}
  BY <1>2
<1>4. kept \in Nearest(y * n, n + amount)
  BY <1>1 DEF NewPool
<1>5. PICK q \in Nearest(y * n, n + amount) : shares = amount + y - q
  BY <1>1 DEF Shares, NewPool
<1>. HIDE DEF y, n
<1>6. kept <= q + 1 /\ q <= kept + 1
  BY <1>3, <1>4, <1>5, NearestApart
<1>7. q <= y
  BY <1>2, <1>5, NearestShrinks
<1>8. kept \in Nat /\ q \in Nat
  BY <1>3, <1>4, <1>5 DEF Nearest
<1>9. /\ kept \in Nat /\ shares \in Nat
      /\ kept + shares <= y + amount + 1 /\ y + amount - 1 <= kept + shares
  BY <1>2, <1>5, <1>6, <1>7, <1>8
<1>. QED  BY <1>9 DEF y
-----------------------------------------------------------------------------
(* The steps.                                                              *)

LEMMA ConstantFacts ==
    /\ Liquidities \subseteq Nat /\ LlmLiquidity \in Nat
    /\ Amounts \subseteq Nat \ {0} /\ NoEvent \notin Events
BY MarketAssumption DEF MarketAssumption

LEMMA InitIInv == Init => IInv
<1>. SUFFICES ASSUME Init PROVE IInv
  OBVIOUS
<1>1. TypeOK
  BY DEF Init, TypeOK, Outcomes, Sides
<1>2. Unmade /\ Unpaid /\ SettledOnce
  BY DEF Init, Unmade, Unpaid, SettledOnce
<1>3. Backed
  BY DEF Init, Backed, CanPay, PutIn
<1>. QED  BY <1>1, <1>2, <1>3 DEF IInv

\* A market is made, of a row that was none.
LEMMA CreateKeeps ==
    ASSUME IInv, NEW m \in Markets, NEW by \in {"editor", "llm"},
           NEW e \in Events \cup {NoEvent}, NEW l \in Nat,
           CreateMarket(m, by, e, l), drafting' \in [Extractors -> SUBSET Events]
    PROVE  IInv'
<1>1. /\ author[m] = "none" /\ outcome[m] = "open" /\ volume[m] = 0 /\ rows[m] = 0
      /\ paid[m] = 0 /\ \A s \in Sides : sold[m][s] = 0
  BY DEF CreateMarket, IInv, Unmade, Unpaid
<1>2. /\ UNCHANGED <<expired, volume, sold, rows, trades, rested, outcome, paid, credited>>
      /\ author' = [author EXCEPT ![m] = by] /\ event' = [event EXCEPT ![m] = e]
      /\ liquidity' = [liquidity EXCEPT ![m] = l]
      /\ pool' = [pool EXCEPT ![m] = [s \in Sides |-> l]]
  BY DEF CreateMarket, settlement
<1>3. TypeOK'
  BY <1>2 DEF IInv, TypeOK
<1>4. /\ author'[m] = by /\ liquidity'[m] = l /\ \A s \in Sides : pool'[m][s] = l
      /\ \A k \in Markets \ {m} : /\ author'[k] = author[k]
                                  /\ liquidity'[k] = liquidity[k]
                                  /\ pool'[k] = pool[k]
  BY <1>2 DEF IInv, TypeOK
<1>5. Unmade' /\ Unpaid' /\ SettledOnce'
  BY <1>2, <1>4 DEF IInv, Unmade, Unpaid, SettledOnce
<1>6. ASSUME NEW k \in Markets PROVE CanPay(k)'
  <2>1. CASE k = m
    BY <1>1, <1>2, <1>4, <2>1 DEF CanPay, PutIn
  <2>2. CASE k # m
    BY <1>2, <1>4, <2>2 DEF IInv, Backed, CanPay, PutIn
  <2>. QED  BY <2>1, <2>2
<1>7. Backed'
  BY <1>6 DEF Backed
<1>. QED  BY <1>3, <1>5, <1>7 DEF IInv

\* A trade, whoever's.
LEMMA TradeKeeps ==
    ASSUME IInv, NEW m \in Markets, NEW t \in Traders, NEW side \in Sides,
           NEW amount \in Amounts, ExecuteTrade(m, t, side, amount),
           rested' \in [Markets -> [Agents -> BOOLEAN]]
    PROVE  IInv'
<1>0. amount \in Nat \ {0}
  BY ConstantFacts
<1>1. /\ author[m] # "none" /\ outcome[m] = "open" /\ paid[m] = 0
      /\ UNCHANGED <<author, event, expired, liquidity, outcome, paid, credited, drafting>>
      /\ volume' = [volume EXCEPT ![m] = @ + amount]
      /\ rows' = [rows EXCEPT ![m] = @ + 1]
      /\ trades' = [trades EXCEPT ![m][t] = @ + 1]
  BY DEF ExecuteTrade, Tradable, Open, market, settlement, IInv, Unpaid
<1>2. PICK kept \in NewPool(pool[m], side, amount),
           shares \in Shares(pool[m], side, amount) : Book(m, side, amount, kept, shares)
  BY DEF ExecuteTrade
<1>3. /\ pool \in [Markets -> [Sides -> Nat]] /\ pool[m] \in [Sides -> Nat]
      /\ sold \in [Markets -> [Sides -> Nat]] /\ sold[m] \in [Sides -> Nat]
      /\ volume[m] \in Nat /\ rows[m] \in Nat /\ liquidity[m] \in Nat
  BY DEF IInv, TypeOK
<1>4. /\ kept \in Nat /\ shares \in Nat
      /\ kept + shares <= pool[m][side] + amount + 1
      /\ pool[m][side] + amount - 1 <= kept + shares
  BY <1>0, <1>3, QuoteFacts
<1>5. /\ pool'[m] = [s \in Sides |-> IF s = side THEN kept ELSE pool[m][s] + amount]
      /\ pool' \in [Markets -> [Sides -> Nat]]
      /\ \A k \in Markets \ {m} : pool'[k] = pool[k]
  BY <1>0, <1>2, <1>3, <1>4 DEF Book
<1>6. /\ \A s \in Sides : sold'[m][s] = IF s = side THEN sold[m][s] + shares
                                         ELSE sold[m][s]
      /\ sold' \in [Markets -> [Sides -> Nat]]
      /\ \A k \in Markets \ {m} : sold'[k] = sold[k]
  BY <1>2, <1>3, <1>4 DEF Book
<1>7. /\ volume'[m] = volume[m] + amount /\ rows'[m] = rows[m] + 1
      /\ volume' \in [Markets -> Nat] /\ rows' \in [Markets -> Nat]
      /\ \A k \in Markets \ {m} : volume'[k] = volume[k] /\ rows'[k] = rows[k]
  BY <1>0, <1>1 DEF IInv, TypeOK
<1>8. /\ trades' \in [Markets -> [Traders -> Nat]]
      /\ \A k \in Markets \ {m} : trades'[k] = trades[k]
  BY <1>1 DEF IInv, TypeOK
<1>9. TypeOK'
  BY <1>1, <1>5, <1>6, <1>7, <1>8 DEF IInv, TypeOK
<1>10. Unmade' /\ Unpaid' /\ SettledOnce'
  <2>1. Unmade'
    BY <1>1, <1>5, <1>6, <1>7 DEF IInv, Unmade
  <2>2. Unpaid'
    BY <1>1 DEF IInv, Unpaid
  <2>3. SettledOnce'
    BY <1>1, <1>8 DEF IInv, SettledOnce
  <2>. QED  BY <2>1, <2>2, <2>3
<1>11. ASSUME NEW k \in Markets PROVE CanPay(k)'
  <2>1. CASE k # m
    BY <1>1, <1>5, <1>6, <1>7, <2>1 DEF IInv, Backed, CanPay, PutIn
  <2>2. CASE k = m
    <3>0. PutIn(m)' = PutIn(m) + amount /\ PutIn(m) \in Nat
      BY <1>0, <1>1, <1>3, <1>7 DEF PutIn
    <3>1. ASSUME NEW s \in Sides
          PROVE  pool'[m][s] + sold'[m][s]
                    \in PutIn(m)' - rows'[m] .. PutIn(m)' + rows'[m]
      <4>0. /\ pool[m][s] \in Nat /\ sold[m][s] \in Nat
            /\ pool[m][s] + sold[m][s] >= PutIn(m) - rows[m]
            /\ pool[m][s] + sold[m][s] <= PutIn(m) + rows[m]
        BY <1>3, <3>0 DEF IInv, Backed, CanPay
      <4>1. CASE s = side
        <5>1. pool'[m][s] = kept /\ sold'[m][s] = sold[m][s] + shares
          BY <1>5, <1>6, <4>1
        <5>. QED  BY <1>0, <1>3, <1>4, <1>7, <3>0, <4>0, <4>1, <5>1
      <4>2. CASE s # side
        <5>1. pool'[m][s] = pool[m][s] + amount /\ sold'[m][s] = sold[m][s]
          BY <1>5, <1>6, <4>2
        <5>. QED  BY <1>0, <1>3, <1>7, <3>0, <4>0, <5>1
      <4>. QED  BY <4>1, <4>2
    <3>2. paid'[m] <= PutIn(m)' + rows'[m]
      BY <1>0, <1>1, <1>3, <1>7, <3>0
    <3>5. CanPay(m)'
      BY <3>1, <3>2 DEF CanPay
    <3>. QED  BY <2>2, <3>5
  <2>. QED  BY <2>1, <2>2
<1>12. Backed'
  BY <1>11 DEF Backed
<1>. QED  BY <1>9, <1>10, <1>12 DEF IInv

\* A market is settled: what it pays is what one side was sold, or the deposits.
LEMMA ResolveKeeps ==
    ASSUME IInv, NEW m \in Markets, Resolve(m)
    PROVE  IInv'
<1>1. /\ author[m] # "none" /\ outcome[m] = "open"
      /\ UNCHANGED <<author, event, expired, liquidity, pool, volume, sold, rows,
                     trades, rested, drafting>>
      /\ credited' = [credited EXCEPT ![m] = [t \in Traders |-> @[t] + trades[m][t]]]
  BY DEF Resolve, Open, market, book
<1>2. PICK o \in Outcomes :
         /\ outcome' = [outcome EXCEPT ![m] = o]
         /\ paid' = [paid EXCEPT ![m] = IF o = "cancel" THEN volume[m] ELSE sold[m][o]]
  BY DEF Resolve
<1>3. /\ volume[m] \in Nat /\ rows[m] \in Nat /\ liquidity[m] \in Nat
      /\ \A s \in Sides : sold[m][s] \in Nat /\ pool[m][s] \in Nat
  BY DEF IInv, TypeOK
<1>4. o \in Sides \/ o = "cancel"
  BY DEF Outcomes
<1>5. /\ outcome'[m] = o /\ o # "open"
      /\ paid'[m] = IF o = "cancel" THEN volume[m] ELSE sold[m][o]
      /\ paid'[m] \in Nat
      /\ \A k \in Markets \ {m} : outcome'[k] = outcome[k] /\ paid'[k] = paid[k]
  BY <1>2, <1>3, <1>4 DEF IInv, TypeOK, Outcomes, Sides
<1>6. /\ \A t \in Traders : credited'[m][t] = trades[m][t]
      /\ credited' \in [Markets -> [Traders -> Nat]]
      /\ \A k \in Markets \ {m} : credited'[k] = credited[k]
  <2>1. \A t \in Traders : credited[m][t] = 0 /\ trades[m][t] \in Nat
    BY <1>1 DEF IInv, SettledOnce, TypeOK
  <2>2. \A t \in Traders : credited[m][t] + trades[m][t] = trades[m][t]
    BY <2>1
  <2>3. credited'[m] = [t \in Traders |-> credited[m][t] + trades[m][t]]
    BY <1>1 DEF IInv, TypeOK
  <2>4. [t \in Traders |-> credited[m][t] + trades[m][t]] \in [Traders -> Nat]
    BY <2>1, <2>2
  <2>. QED  BY <1>1, <2>2, <2>3, <2>4 DEF IInv, TypeOK
<1>7. TypeOK'
  <2>1. outcome' \in [Markets -> Outcomes \cup {"open"}] /\ paid' \in [Markets -> Nat]
    BY <1>2, <1>5 DEF IInv, TypeOK
  <2>. QED  BY <1>1, <1>6, <2>1 DEF IInv, TypeOK
<1>8. Unmade' /\ Unpaid' /\ SettledOnce'
  <2>1. Unmade'
    BY <1>1, <1>5 DEF IInv, Unmade
  <2>2. Unpaid'
    BY <1>5 DEF IInv, Unpaid
  <2>3. SettledOnce'
    BY <1>1, <1>5, <1>6 DEF IInv, SettledOnce
  <2>. QED  BY <2>1, <2>2, <2>3
<1>9. paid'[m] <= liquidity[m] + volume[m] + rows[m]
  <2>1. CASE o = "cancel"
    BY <1>3, <1>5, <2>1
  <2>2. CASE o # "cancel"
    <3>1. o \in Sides /\ paid'[m] = sold[m][o]
      BY <1>4, <1>5, <2>2
    <3>2. pool[m][o] + sold[m][o] <= liquidity[m] + volume[m] + rows[m]
      BY <1>3, <3>1 DEF IInv, Backed, CanPay, PutIn
    <3>. QED  BY <1>3, <3>1, <3>2
  <2>. QED  BY <2>1, <2>2
<1>10. ASSUME NEW k \in Markets PROVE CanPay(k)'
  <2>1. CanPay(k)
    BY DEF IInv, Backed
  <2>2. CASE k = m
    BY <1>1, <1>9, <2>1, <2>2 DEF CanPay, PutIn
  <2>3. CASE k # m
    BY <1>1, <1>5, <2>1, <2>3 DEF CanPay, PutIn
  <2>. QED  BY <2>2, <2>3
<1>11. Backed'
  BY <1>10 DEF Backed
<1>. QED  BY <1>7, <1>8, <1>11 DEF IInv

\* What touches no market's money.
LEMMA IdleKeeps ==
    ASSUME IInv,
           UNCHANGED <<author, event, liquidity, pool, volume, sold, rows, trades,
                       outcome, paid, credited>>,
           expired' \in [Markets -> BOOLEAN],
           rested' \in [Markets -> [Agents -> BOOLEAN]],
           drafting' \in [Extractors -> SUBSET Events]
    PROVE  IInv'
<1>1. TypeOK'
  BY DEF IInv, TypeOK
<1>2. Unmade' /\ Unpaid'
  BY DEF IInv, Unmade, Unpaid
<1>3. SettledOnce'
  BY DEF IInv, SettledOnce
<1>4. \A m \in Markets : CanPay(m)'
  BY DEF IInv, Backed, CanPay, PutIn
<1>5. Backed'
  BY <1>4 DEF Backed
<1>. QED  BY <1>1, <1>2, <1>3, <1>5 DEF IInv
LEMMA NextIInv == IInv /\ [Next]_vars => IInv'
<1>. SUFFICES ASSUME IInv, [Next]_vars PROVE IInv'
  OBVIOUS
<1>1. /\ drafting \in [Extractors -> SUBSET Events]
      /\ rested \in [Markets -> [Agents -> BOOLEAN]]
      /\ expired \in [Markets -> BOOLEAN]
  BY DEF IInv, TypeOK
<1>2. ASSUME NEW m \in Markets, EditorCreates(m) PROVE IInv'
  BY <1>1, <1>2, CreateKeeps, ConstantFacts DEF EditorCreates
<1>3. ASSUME NEW m \in Markets, Expire(m) PROVE IInv'
  BY <1>1, <1>3, IdleKeeps DEF Expire, book, settlement
<1>4. ASSUME NEW m \in Markets, NEW u \in Users, UserTrades(m, u) PROVE IInv'
  BY <1>1, <1>4, TradeKeeps DEF UserTrades, Traders
<1>5. ASSUME NEW m \in Markets, NEW a \in Agents, AgentTrades(m, a) PROVE IInv'
  <2>1. rested' \in [Markets -> [Agents -> BOOLEAN]]
    BY <1>1, <1>5 DEF AgentTrades
  <2>. QED  BY <1>5, <2>1, TradeKeeps DEF AgentTrades, Traders
<1>6. ASSUME NEW m \in Markets, NEW a \in Agents, Rest(m, a) PROVE IInv'
  <2>1. rested' \in [Markets -> [Agents -> BOOLEAN]]
    BY <1>1, <1>6 DEF Rest
  <2>. QED  BY <1>1, <1>6, <2>1, IdleKeeps DEF Rest, market, settlement
<1>7. ASSUME NEW x \in Extractors,
             StartExtraction(x) \/ Draft(x) \/ ExtractorDies(x)
      PROVE  IInv'
  <2>1. drafting' \in [Extractors -> SUBSET Events]
    BY <1>1, <1>7 DEF StartExtraction, EventsWithoutMarket, Draft, ExtractorDies
  <2>2. CASE StartExtraction(x) \/ ExtractorDies(x)
    BY <1>1, <2>1, <2>2, IdleKeeps
       DEF StartExtraction, ExtractorDies, market, book, settlement
  <2>3. CASE Draft(x)
    <3>1. PICK e \in drafting[x] :
             \/ \E m \in Markets : CreateMarket(m, "llm", e, LlmLiquidity)
             \/ UNCHANGED <<market, book, settlement>>
      BY <2>3 DEF Draft
    <3>2. e \in Events
      BY <1>1, <1>7
    <3>3. CASE UNCHANGED <<market, book, settlement>>
      BY <1>1, <2>1, <3>3, IdleKeeps DEF market, book, settlement
    <3>. QED  BY <2>1, <3>1, <3>2, <3>3, CreateKeeps, ConstantFacts
  <2>. QED  BY <1>7, <2>2, <2>3
<1>8. ASSUME NEW m \in Markets, Resolve(m) PROVE IInv'
  BY <1>8, ResolveKeeps
<1>9. CASE UNCHANGED vars
  BY <1>1, <1>9, IdleKeeps DEF vars
<1>. QED  BY <1>2, <1>3, <1>4, <1>5, <1>6, <1>7, <1>8, <1>9 DEF Next

THEOREM Invariance == Spec => []IInv
BY InitIInv, NextIInv, PTL DEF Spec

\* Type correctness: no rounding takes a pool or a sale below zero.
THEOREM TypeCorrect == Spec => []TypeOK
<1>1. IInv => TypeOK
  BY DEF IInv
<1>. QED  BY <1>1, Invariance, PTL

\* A market can pay what it sold out of what was put in, one unit of 10^-6 per
\* trade aside, whichever way it is settled.
THEOREM MarketsAreBacked == Spec => []Backed
<1>1. IInv => Backed
  BY DEF IInv
<1>. QED  BY <1>1, Invariance, PTL

\* Every trade counts once in its trader's record, when its market is settled.
THEOREM TradesCountOnce == Spec => []SettledOnce
<1>1. IInv => SettledOnce
  BY DEF IInv
<1>. QED  BY <1>1, Invariance, PTL

-----------------------------------------------------------------------------
(* One market per extraction.                                              *)

LlmMarkets(e) == {m \in Markets : author[m] = "llm" /\ event[m] = e}
Asking(e) == {x \in Extractors : e \in drafting[x]}

\* Of an event, the markets the extractor opened and the runs that still will.
Asked ==
    \A e \in Events :
        Cardinality(LlmMarkets(e)) + Cardinality(Asking(e))
            <= Cardinality(Extractors)

LEMMA AskedFacts ==
    ASSUME NEW e
    PROVE  /\ IsFiniteSet(LlmMarkets(e)) /\ Cardinality(LlmMarkets(e)) \in Nat
           /\ IsFiniteSet(Asking(e)) /\ Cardinality(Asking(e)) \in Nat
           /\ Cardinality(Asking(e)) <= Cardinality(Extractors)
           /\ Cardinality(Extractors) \in Nat
<1>1. IsFiniteSet(Markets) /\ IsFiniteSet(Extractors)
  BY MarketAssumption DEF MarketAssumption
<1>2. LlmMarkets(e) \in SUBSET Markets /\ Asking(e) \in SUBSET Extractors
  BY DEF LlmMarkets, Asking
<1>. QED  BY <1>1, <1>2, FS_Subset, FS_CardinalityType

\* A run that lets go of an event makes room for one market.
LEMMA Room ==
    ASSUME NEW made \in Nat, NEW asking \in Nat, NEW all \in Nat,
           NEW made2 \in Nat, NEW asking2 \in Nat, made + asking <= all,
           \/ made2 <= made /\ asking2 <= asking
           \/ made2 <= made + 1 /\ asking2 = asking - 1
    PROVE  made2 + asking2 <= all
OBVIOUS
\* Every step keeps the markets of an event within the runs: a run comes to ask
\* about an event only while it has no market.
LEMMA NextAsked == IInv /\ Asked /\ [Next]_vars => Asked'
<1>. SUFFICES ASSUME IInv, Asked, [Next]_vars, NEW e \in Events
             PROVE  (Cardinality(LlmMarkets(e)) + Cardinality(Asking(e))
                        <= Cardinality(Extractors))'
  BY DEF Asked
<1>0. /\ Cardinality(LlmMarkets(e)) \in Nat /\ Cardinality(Asking(e)) \in Nat
      /\ Cardinality(Extractors) \in Nat
      /\ Cardinality(LlmMarkets(e)) + Cardinality(Asking(e))
            <= Cardinality(Extractors)
      /\ drafting \in [Extractors -> SUBSET Events]
      /\ author \in [Markets -> {"none", "editor", "llm"}]
      /\ event \in [Markets -> Events \cup {NoEvent}]
  BY AskedFacts DEF Asked, IInv, TypeOK
<1>a. IsFiniteSet(Asking(e)) /\ IsFiniteSet(LlmMarkets(e))
  BY AskedFacts
<1>1. /\ IsFiniteSet(LlmMarkets(e)') /\ IsFiniteSet(Asking(e)')
      /\ Cardinality(LlmMarkets(e)') \in Nat /\ Cardinality(Asking(e)') \in Nat
      /\ Cardinality(Asking(e)') <= Cardinality(Extractors)
  <2>1. IsFiniteSet(Markets) /\ IsFiniteSet(Extractors)
    BY MarketAssumption DEF MarketAssumption
  <2>2. LlmMarkets(e)' \in SUBSET Markets /\ Asking(e)' \in SUBSET Extractors
    BY DEF LlmMarkets, Asking
  <2>. QED  BY <2>1, <2>2, FS_Subset, FS_CardinalityType
<1>2. ASSUME LlmMarkets(e)' = LlmMarkets(e), Asking(e)' \subseteq Asking(e)
      PROVE  Cardinality(LlmMarkets(e)') + Cardinality(Asking(e)')
                <= Cardinality(Extractors)
  <2>1. Cardinality(Asking(e)') <= Cardinality(Asking(e))
    BY <1>2, <1>a, FS_Subset
  <2>2. Cardinality(LlmMarkets(e)') = Cardinality(LlmMarkets(e))
    BY <1>2
  <2>3. Cardinality(LlmMarkets(e)') <= Cardinality(LlmMarkets(e))
    BY <1>0, <2>2
  <2>. QED  BY <1>0, <1>1, <2>1, <2>3, Room
<1>3. CASE UNCHANGED <<author, event, drafting>>
  BY <1>2, <1>3 DEF LlmMarkets, Asking
<1>4. ASSUME NEW m \in Markets, EditorCreates(m)
      PROVE  Cardinality(LlmMarkets(e)') + Cardinality(Asking(e)')
                <= Cardinality(Extractors)
  <2>1. PICK f \in Events \cup {NoEvent} :
           /\ author[m] = "none" /\ drafting' = drafting
           /\ author' = [author EXCEPT ![m] = "editor"]
           /\ event' = [event EXCEPT ![m] = f]
    BY <1>4 DEF EditorCreates, CreateMarket
  <2>2. LlmMarkets(e)' = LlmMarkets(e)
    BY <1>0, <2>1 DEF LlmMarkets
  <2>. QED  BY <1>2, <2>1, <2>2 DEF Asking
<1>5. ASSUME NEW x \in Extractors, StartExtraction(x)
      PROVE  Cardinality(LlmMarkets(e)') + Cardinality(Asking(e)')
                <= Cardinality(Extractors)
  <2>1. PICK picked \in SUBSET EventsWithoutMarket :
           /\ drafting' = [drafting EXCEPT ![x] = picked]
           /\ UNCHANGED <<author, event>>
    BY <1>5 DEF StartExtraction, market
  <2>2. LlmMarkets(e)' = LlmMarkets(e)
    BY <2>1 DEF LlmMarkets
  <2>3. CASE e \in EventsWithoutMarket
    <3>1. LlmMarkets(e)' = {}
      BY <2>2, <2>3 DEF EventsWithoutMarket, LlmMarkets
    <3>2. Cardinality(LlmMarkets(e)') = 0
      BY <3>1, FS_EmptySet
    <3>. QED  BY <1>0, <1>1, <3>2
  <2>4. CASE e \notin EventsWithoutMarket
    <3>1. Asking(e)' \subseteq Asking(e)
      BY <1>0, <2>1, <2>4 DEF Asking
    <3>. QED  BY <1>2, <2>2, <3>1
  <2>. QED  BY <2>3, <2>4
<1>6. ASSUME NEW x \in Extractors, ExtractorDies(x)
      PROVE  Cardinality(LlmMarkets(e)') + Cardinality(Asking(e)')
                <= Cardinality(Extractors)
  <2>1. LlmMarkets(e)' = LlmMarkets(e) /\ Asking(e)' \subseteq Asking(e)
    BY <1>0, <1>6 DEF ExtractorDies, market, LlmMarkets, Asking
  <2>. QED  BY <1>2, <2>1
<1>7. ASSUME NEW x \in Extractors, Draft(x)
      PROVE  Cardinality(LlmMarkets(e)') + Cardinality(Asking(e)')
                <= Cardinality(Extractors)
  <2>1. PICK f \in drafting[x] :
           /\ drafting' = [drafting EXCEPT ![x] = @ \ {f}]
           /\ \/ \E m \in Markets : CreateMarket(m, "llm", f, LlmLiquidity)
              \/ UNCHANGED <<market, book, settlement>>
    BY <1>7 DEF Draft
  <2>2. Asking(e)' = IF f = e THEN Asking(e) \ {x} ELSE Asking(e)
    BY <1>0, <2>1 DEF Asking
  <2>3. CASE UNCHANGED <<market, book, settlement>>
    BY <1>2, <2>2, <2>3 DEF market, LlmMarkets
  <2>4. ASSUME NEW m \in Markets, CreateMarket(m, "llm", f, LlmLiquidity)
        PROVE  Cardinality(LlmMarkets(e)') + Cardinality(Asking(e)')
                  <= Cardinality(Extractors)
    <3>1. /\ author[m] = "none"
          /\ author' = [author EXCEPT ![m] = "llm"]
          /\ event' = [event EXCEPT ![m] = f]
      BY <2>4 DEF CreateMarket
    <3>2. CASE f # e
      <4>1. LlmMarkets(e)' = LlmMarkets(e)
        BY <1>0, <3>1, <3>2 DEF LlmMarkets
      <4>. QED  BY <1>2, <2>2, <3>2, <4>1
    <3>3. CASE f = e
      <4>1. LlmMarkets(e)' \subseteq LlmMarkets(e) \cup {m}
        BY <1>0, <3>1, <3>3 DEF LlmMarkets
      <4>2. /\ IsFiniteSet(LlmMarkets(e) \cup {m})
            /\ Cardinality(LlmMarkets(e) \cup {m}) <= Cardinality(LlmMarkets(e)) + 1
        <5>1. /\ IsFiniteSet(LlmMarkets(e) \cup {m})
              /\ Cardinality(LlmMarkets(e) \cup {m})
                    \in {Cardinality(LlmMarkets(e)), Cardinality(LlmMarkets(e)) + 1}
          BY <1>a, FS_AddElement
        <5>. QED  BY <1>0, <5>1
      <4>3. Cardinality(LlmMarkets(e)') <= Cardinality(LlmMarkets(e) \cup {m})
        BY <4>1, <4>2, FS_Subset
      <4>4. Cardinality(LlmMarkets(e) \cup {m}) \in Nat
        BY <4>2, FS_CardinalityType
      <4>5. Cardinality(LlmMarkets(e)') <= Cardinality(LlmMarkets(e)) + 1
        BY <1>0, <1>1, <4>2, <4>3, <4>4
      <4>6. x \in Asking(e)
        BY <2>1, <3>3 DEF Asking
      <4>7. Cardinality(Asking(e)') = Cardinality(Asking(e)) - 1
        BY <1>a, <2>2, <3>3, <4>6, FS_RemoveElement
      <4>. QED  BY <1>0, <1>1, <4>5, <4>7, Room
    <3>. QED  BY <3>2, <3>3
  <2>. QED  BY <2>1, <2>3, <2>4
<1>8. ASSUME NEW m \in Markets,
             \/ Expire(m) \/ Resolve(m)
             \/ \E u \in Users : UserTrades(m, u)
             \/ \E a \in Agents : AgentTrades(m, a) \/ Rest(m, a)
      PROVE  UNCHANGED <<author, event, drafting>>
  BY <1>8 DEF Expire, Resolve, UserTrades, AgentTrades, Rest, ExecuteTrade, market
<1>9. CASE UNCHANGED vars
  BY <1>3, <1>9 DEF vars
<1>. QED  BY <1>3, <1>4, <1>5, <1>6, <1>7, <1>8, <1>9 DEF Next

\* An event gets no more markets from the extractor than runs may be in flight.
THEOREM ExtractionsAreBounded == Spec => []OneMarketPerExtraction
<1>1. Init => Asked
  <2>. SUFFICES ASSUME Init, NEW e \in Events
               PROVE  Cardinality(LlmMarkets(e)) + Cardinality(Asking(e))
                         <= Cardinality(Extractors)
    BY DEF Asked
  <2>1. LlmMarkets(e) = {} /\ Asking(e) = {}
    BY DEF Init, LlmMarkets, Asking
  <2>. QED  BY <2>1, FS_EmptySet, AskedFacts
<1>2. Asked => OneMarketPerExtraction
  <2>. SUFFICES ASSUME Asked, NEW e \in Events
               PROVE  Cardinality(LlmMarkets(e)) <= Cardinality(Extractors)
    BY DEF OneMarketPerExtraction, LlmMarkets
  <2>1. /\ Cardinality(LlmMarkets(e)) \in Nat /\ Cardinality(Asking(e)) \in Nat
        /\ Cardinality(Extractors) \in Nat
        /\ Cardinality(LlmMarkets(e)) + Cardinality(Asking(e))
              <= Cardinality(Extractors)
    BY AskedFacts DEF Asked
  <2>. QED  BY <2>1
<1>. QED  BY <1>1, <1>2, InitIInv, NextIInv, NextAsked, PTL DEF Spec
=============================================================================
