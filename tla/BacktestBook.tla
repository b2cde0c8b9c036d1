---------------------------- MODULE BacktestBook ----------------------------
(***************************************************************************)
(* The books one backtest run keeps, whichever engine drives it: the       *)
(* ledger of confirmed closes (BacktestSnapshotAdapter, IndicatorLedger),  *)
(* the open positions with what ExtremeTracker and the trailing rule       *)
(* remember of them, the orders that wait for their fill                   *)
(* (PendingOrderManager), the trades, and the equity that compounds.       *)
(*                                                                         *)
(* Time is counted in slots: bucket b (a candle of the driving time frame) *)
(* covers the slots Slots * b .. Slots * b + Slots - 1.  Prices are whole  *)
(* pips and amounts are in units of one pip times one unit of currency.    *)
(* A Map with at most one entry of interest is a set of records.           *)
(***************************************************************************)
EXTENDS StrategyRules, LotSizing, FiniteSets, BacktestMetrics

CONSTANTS
  Slots,     \* instants in one bucket at which a tick can arrive
  Initial    \* initialCapital

ASSUME BookAssumption == Slots \in Nat \ {0} /\ Initial \in Nat

Bucket(t) == t \div Slots
CloseTime(b) == Slots * (b + 1)

NewBook ==
  [ledger |-> <<>>,           \* confirmed closes: [bucket, close]
   forming |-> {},            \* the candle CandleAccumulator is building
   last |-> {},               \* the last tick
   rate |-> 0,                \* marketState.currentRate
   open |-> {},               \* positions
   pendingEntry |-> {}, pendingExit |-> {},
   trades |-> <<>>, opened |-> 0, equity |-> Initial]

-----------------------------------------------------------------------------
(* The ledger.  It is read through windows of at most n closes and one     *)
(* more, so older closes are left out (Keep).                              *)

Keep(ledger, n) ==
  IF Len(ledger) > n + 1 THEN SubSeq(ledger, Len(ledger) - n, Len(ledger)) ELSE ledger

AddCandle(b, p, candle) ==
  [b EXCEPT !.ledger = Keep(Append(@, candle), WarmupCount(p))]

\* addCandleAndBuild: what the rules are shown.
Snapshot(b, bid, ask, at) ==
  [closes |-> [i \in DOMAIN b.ledger |-> b.ledger[i].close],
   bid |-> bid, ask |-> ask, at |-> at]

-----------------------------------------------------------------------------
(* Positions.  `seen` holds what ExtremeTracker remembers of one: nothing,  *)
(* or one [high, low]; `peak` is what the trailing rule remembers.         *)

Stretched(seen, high, low) ==
  IF seen = {} THEN {[high |-> high, low |-> low]}
  ELSE {[high |-> IF high > e.high THEN high ELSE e.high,
         low |-> IF e.low > low THEN low ELSE e.low] : e \in seen}

\* Position.open with the capital at entry.
Opened(b, order, price, at) ==
  [b EXCEPT
     !.open = @ \cup {[id |-> b.opened + 1, side |-> order.side, lot |-> order.lot,
                       entry |-> price, at |-> at, capital |-> b.equity,
                       peak |-> 0, seen |-> {}]},
     !.opened = @ + 1]

\* applyExtremes: 0 when no price was seen.
BestPips(pos) ==
  IF pos.seen = {} THEN 0
  ELSE LET e == CHOOSE e \in pos.seen : TRUE
       IN  Favourable(pos, IF pos.side = "BUY" THEN e.high ELSE e.low)

WorstPips(pos) ==
  IF pos.seen = {} THEN 0
  ELSE LET e == CHOOSE e \in pos.seen : TRUE
       IN  -Favourable(pos, IF pos.side = "BUY" THEN e.low ELSE e.high)

\* buildTradeRecord.
TradeRecord(pos, price, at, type, equityAfter) ==
  [id |-> pos.id, side |-> pos.side, lot |-> pos.lot, entryAt |-> pos.at, exitAt |-> at,
   pnl |-> Favourable(pos, price), capital |-> pos.capital, equityAfter |-> equityAfter,
   mfe |-> BestPips(pos), mae |-> WorstPips(pos), exitType |-> type]

Amount(pos, price) == Favourable(pos, price) * pos.lot

(* A plausible slip: the trade is recorded and the equity left as it was. *)
ClosedForTheRecord(b, pos, price, at, type) ==
  [b EXCEPT
     !.open = @ \ {pos},
     !.trades = Append(@, TradeRecord(pos, price, at, type, b.equity))]

\* position.close, the equity, the trade record and the three deletes.
Closed(b, pos, price, at, type) ==
  LET after == b.equity + Amount(pos, price) IN
  [b EXCEPT
     !.equity = after,
     !.open = @ \ {pos},
     !.trades = Append(@, TradeRecord(pos, price, at, type, after))]

-----------------------------------------------------------------------------
(* The lot of an entry, from the equity and the current rate.              *)

\* Runner.decideLot throws: Balance.of refuses a negative amount.
LotRefused(b, p, s) == AsksForLot(p, s) /\ b.equity < 0

Lot(b) == DecideLot(b.equity, b.rate)
=============================================================================
