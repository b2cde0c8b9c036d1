---------------------------- MODULE StrategyRules ----------------------------
(***************************************************************************)
(* The entry and exit rules of domain/rule as the strategy SMA_CROSS puts  *)
(* them together (RuleFactory.createRules).  A rule is a function of what  *)
(* it is shown, so it is an operator here:                                 *)
(*   p  the parameter set, one of SmaCrossParameters;                      *)
(*   s  the snapshot: closes (the confirmed closes of the ledger, oldest   *)
(*      first), bid, ask, at (the time of its tick);                       *)
(*   pos  the open position: side, entry, at (when it was opened).         *)
(* Prices are whole pips.  The only rule with a memory is the trailing     *)
(* take profit: it is given the peak it remembers and returns the next.    *)
(***************************************************************************)
EXTENDS Integers, Sequences

\* A rule that null, undefined, or for the filters 0, switches off.
Off == -1

\* What depends on the clock is a set of clock readings.
SmaCrossParameters ==
  [short : Nat \ {0}, long : Nat \ {0},
   stopLoss : Nat, takeProfit : Nat \cup {Off},
   activate : Nat \cup {Off}, width : Nat \cup {Off}, maxHold : Nat,
   minStrength : Nat \cup {Off}, maxDivergence : Nat \cup {Off},
   minSell : Nat \cup {Off}, maxBuy : Nat \cup {Off},
   hours : SUBSET Nat, windows : SUBSET (SUBSET Nat)]

Abs(n) == IF n < 0 THEN -n ELSE n

-----------------------------------------------------------------------------
(* Moving averages (IndicatorLedger, the library trading-signals).         *)

\* The sum of the n closes that end `back` bars before the last one.
WindowSum(closes, n, back) ==
    LET sum[i \in 0 .. n] == IF i = 0 THEN 0 ELSE sum[i - 1] + closes[Len(closes) - back - n + i]
    IN  sum[n]

\* The ledger has no earlier average until one more bar than n is confirmed,
\* and then shows the current one in its place.
PreviousSum(closes, n) ==
    WindowSum(closes, n, IF Len(closes) > n THEN 1 ELSE 0)

\* (short average - long average) * short * long: an integer.
Spread(p, closes) ==
    WindowSum(closes, p.short, 0) * p.long - WindowSum(closes, p.long, 0) * p.short

PreviousSpread(p, closes) ==
    PreviousSum(closes, p.short) * p.long - PreviousSum(closes, p.long) * p.short

-----------------------------------------------------------------------------
(* Entry: the cross, and the filters wrapped around it.                    *)

\* "GOLDEN_CROSS" is answered with a BUY, "DEAD_CROSS" with a SELL.
CrossSide(p, s) ==
    LET now == Spread(p, s.closes)  before == PreviousSpread(p, s.closes) IN
    IF before <= 0 /\ now > 0 THEN "BUY"
    ELSE IF before >= 0 /\ now < 0 THEN "SELL"
    ELSE "none"

StrongEnough(p, s) ==
    \/ p.minStrength = Off
    \/ Abs(Spread(p, s.closes) - PreviousSpread(p, s.closes))
         >= p.minStrength * p.short * p.long

\* No entry in the excluded hours, nor in an excluded window (midday of a day
\* in the middle of the month without a meeting of the central bank).
InExcludedHour(p, s) == s.at \in p.hours

InExcludedWindow(p, s) == \E w \in p.windows : s.at \in w

\* Divergence from the short average in percent, in the direction of the trade.
Overextended(p, s, side) ==
    LET sma == WindowSum(s.closes, p.short, 0)
        ahead == IF side = "BUY" THEN s.bid * p.short - sma
                                 ELSE sma - s.bid * p.short
    IN  p.maxDivergence # Off /\ ahead * 100 > p.maxDivergence * sma

InPriceBand(p, s, side) ==
    LET twiceMid == s.bid + s.ask IN
    /\ side = "SELL" /\ p.minSell # Off => twiceMid >= 2 * p.minSell
    /\ side = "BUY"  /\ p.maxBuy  # Off => twiceMid <= 2 * p.maxBuy

\* The inner rule runs, and so asks for a lot, before the divergence and the
\* price band are looked at.
AsksForLot(p, s) ==
    /\ ~InExcludedHour(p, s) /\ ~InExcludedWindow(p, s)
    /\ StrongEnough(p, s) /\ CrossSide(p, s) # "none"

EntrySide(p, s) ==
    LET side == CrossSide(p, s) IN
    IF AsksForLot(p, s) /\ ~Overextended(p, s, side) /\ InPriceBand(p, s, side)
    THEN side ELSE "none"

-----------------------------------------------------------------------------
(* Exit: the first rule of the list that answers with a command.           *)

Opposite(side) == IF side = "BUY" THEN "SELL" ELSE "BUY"

\* What the position would close at: bid for a BUY, ask for a SELL.
ExitQuote(s, side) == IF side = "BUY" THEN s.bid ELSE s.ask

Favourable(pos, price) ==
    IF pos.side = "BUY" THEN price - pos.entry ELSE pos.entry - price

Gain(pos, s) == Favourable(pos, ExitQuote(s, pos.side))

StopsLoss(p, pos, s) == -Gain(pos, s) >= p.stopLoss

Trails(p) == p.activate # Off /\ p.width # Off

NewPeak(pos, s, peak) == IF Gain(pos, s) > peak THEN Gain(pos, s) ELSE peak

TrailsOut(p, pos, s, peak) ==
    LET top == NewPeak(pos, s, peak) IN
    Trails(p) /\ top >= p.activate /\ Gain(pos, s) <= top - p.width

TakesProfit(p, pos, s) ==
    ~Trails(p) /\ p.takeProfit # Off /\ Gain(pos, s) >= p.takeProfit

HeldTooLong(p, pos, s) == p.maxHold > 0 /\ s.at - pos.at >= p.maxHold

CrossedBack(p, pos, s) == CrossSide(p, s) = Opposite(pos.side)

\* A cross exit is a profit or a loss by the middle price.
CrossExitType(pos, s) ==
    IF pos.side = "BUY" THEN (IF s.bid + s.ask > 2 * pos.entry THEN "TAKE_PROFIT" ELSE "STOP_LOSS")
                        ELSE (IF 2 * pos.entry > s.bid + s.ask THEN "TAKE_PROFIT" ELSE "STOP_LOSS")

ExitType(p, pos, s, peak) ==
    IF StopsLoss(p, pos, s) THEN "STOP_LOSS"
    ELSE IF TrailsOut(p, pos, s, peak) \/ TakesProfit(p, pos, s) THEN "TAKE_PROFIT"
    ELSE IF HeldTooLong(p, pos, s) THEN "FORCE_CLOSE"
    ELSE IF CrossedBack(p, pos, s) THEN CrossExitType(pos, s)
    ELSE "none"

\* The trailing rule is asked only when the stop loss did not answer; it forgets
\* the peak when it answers itself.
PeakAfter(p, pos, s, peak) ==
    IF StopsLoss(p, pos, s) \/ ~Trails(p) THEN peak
    ELSE IF TrailsOut(p, pos, s, peak) THEN 0
    ELSE NewPeak(pos, s, peak)

\* RuleFactory.calcWarmupCount.
WarmupCount(p) == IF p.short > p.long THEN p.short ELSE p.long
=============================================================================
