--------------------------- MODULE BacktestMetrics ---------------------------
(***************************************************************************)
(* The figures ResultCalculator draws from the trades of one run.  Each    *)
(* pass over the trades is a fold with the variables of the code's loop.   *)
(* Ratios are left as the sums and counts they divide (safeDivide only     *)
(* guards the division by zero); pnl is in pips, times are numbers.        *)
(***************************************************************************)
EXTENDS Integers, Sequences, SequencesExt, FiniteSetsExt

Larger(a, b) == IF a > b THEN a ELSE b

-----------------------------------------------------------------------------
(* calcBasicStats: a trade with pnl 0 counts as a loss.                    *)

Basic(trades) ==
  FoldLeft(
    LAMBDA a, t :
      [total |-> a.total + t.pnl,
       profit |-> a.profit + Larger(t.pnl, 0),
       loss |-> a.loss + Larger(-t.pnl, 0),
       wins |-> a.wins + (IF t.pnl > 0 THEN 1 ELSE 0),
       losses |-> a.losses + (IF t.pnl > 0 THEN 0 ELSE 1),
       longs |-> a.longs + (IF t.side = "BUY" THEN 1 ELSE 0),
       longWins |-> a.longWins + (IF t.side = "BUY" /\ t.pnl > 0 THEN 1 ELSE 0),
       largestWin |-> Larger(a.largestWin, t.pnl),
       largestLoss |-> Larger(a.largestLoss, -t.pnl),
       held |-> a.held + t.exitAt - t.entryAt],
    [total |-> 0, profit |-> 0, loss |-> 0, wins |-> 0, losses |-> 0, longs |-> 0,
     longWins |-> 0, largestWin |-> 0, largestLoss |-> 0, held |-> 0],
    trades)

\* The k-th smallest pnl.
Ranked(trades, k) ==
  CHOOSE v \in {trades[i].pnl : i \in DOMAIN trades} :
    /\ Cardinality({i \in DOMAIN trades : trades[i].pnl < v}) < k
    /\ Cardinality({i \in DOMAIN trades : trades[i].pnl <= v}) >= k

TwiceMedian(trades) ==
  LET n == Len(trades) IN
  IF n % 2 = 1 THEN 2 * Ranked(trades, n \div 2 + 1)
               ELSE Ranked(trades, n \div 2) + Ranked(trades, n \div 2 + 1)

-----------------------------------------------------------------------------
(* calcRiskMetrics: one pass over the curve of the summed pnl, from 0.     *)

RiskStart(trades) ==
  [equity |-> 0, peak |-> 0, maxDD |-> 0, ddCount |-> 0, ddSum |-> 0,
   maxDuration |-> 0, lastPeak |-> trades[1].exitAt, start |-> trades[1].exitAt,
   under |-> FALSE]

(* A plausible slip: reaching the old high again counts as a recovery. *)
AtPeakReached(a, t) ==
  IF a.equity >= a.peak
  THEN [a EXCEPT !.maxDuration = IF a.under THEN Larger(@, t.exitAt - a.start) ELSE @,
                 !.under = FALSE, !.peak = a.equity, !.lastPeak = t.exitAt]
  ELSE a

\* A new high, strictly above the last, ends a drawdown.
AtPeak(a, t) ==
  IF a.equity > a.peak
  THEN [a EXCEPT !.maxDuration = IF a.under THEN Larger(@, t.exitAt - a.start) ELSE @,
                 !.under = FALSE, !.peak = a.equity, !.lastPeak = t.exitAt]
  ELSE a

Below(a) ==
  IF a.peak > a.equity
  THEN [a EXCEPT !.start = IF a.under THEN @ ELSE a.lastPeak, !.under = TRUE,
                 !.maxDD = Larger(@, a.peak - a.equity),
                 !.ddCount = @ + 1, !.ddSum = @ + a.peak - a.equity]
  ELSE a

Risk(trades) ==
  LET end == FoldLeft(LAMBDA a, t : Below(AtPeak([a EXCEPT !.equity = @ + t.pnl], t)),
                      RiskStart(trades), trades)
      last == trades[Len(trades)].exitAt
  IN  [end EXCEPT !.maxDuration =
         IF end.under THEN Larger(@, last - end.start) ELSE @]

-----------------------------------------------------------------------------
(* calcStability: how the pnl spreads, and the runs of wins and losses.    *)

Streaks(trades) ==
  FoldLeft(
    LAMBDA a, t :
      LET wins == IF t.pnl > 0 THEN a.wins + 1 ELSE 0
          losses == IF t.pnl > 0 THEN 0 ELSE a.losses + 1
      IN  [wins |-> wins, losses |-> losses,
           maxWins |-> Larger(a.maxWins, wins),
           maxLosses |-> Larger(a.maxLosses, losses)],
    [wins |-> 0, losses |-> 0, maxWins |-> 0, maxLosses |-> 0], trades)

\* The sums of squares under the deviations, from the mean (n times it, so that it
\* is an integer) and from 0, that the Sharpe and Sortino ratios divide by.
Spreads(trades, total) ==
  LET n == Len(trades) IN
  FoldLeft(
    LAMBDA a, t :
      LET diff == n * t.pnl - total IN
      [around |-> a.around + diff * diff,
       below |-> a.below + (IF diff < 0 THEN diff * diff ELSE 0),
       belowZero |-> a.belowZero + (IF t.pnl < 0 THEN t.pnl * t.pnl ELSE 0)],
    [around |-> 0, below |-> 0, belowZero |-> 0], trades)

\* calcMfeStats.
MfeStats(trades) ==
  FoldLeft(LAMBDA a, t : [mfe |-> a.mfe + t.mfe, mae |-> a.mae + t.mae],
           [mfe |-> 0, mae |-> 0], trades)

-----------------------------------------------------------------------------
(* calculate, assemble, assembleZero.                                      *)

ZeroResult ==
  [tradeCount |-> 0, total |-> 0, twiceMedian |-> 0, wins |-> 0, losses |-> 0,
   maxDD |-> 0, maxDuration |-> 0, ddCount |-> 0, ddSum |-> 0,
   maxWins |-> 0, maxLosses |-> 0, around |-> 0, below |-> 0, belowZero |-> 0,
   downside |-> FALSE, mfe |-> 0, mae |-> 0,
   trades |-> <<>>]

FullResult(trades) ==
  LET basic == Basic(trades)  risk == Risk(trades)
      runs == Streaks(trades)  mfe == MfeStats(trades)
      spreads == Spreads(trades, basic.total)
  IN  [tradeCount |-> Len(trades), total |-> basic.total,
       twiceMedian |-> TwiceMedian(trades),
       wins |-> basic.wins, losses |-> basic.losses,
       maxDD |-> risk.maxDD, maxDuration |-> risk.maxDuration,
       ddCount |-> risk.ddCount, ddSum |-> risk.ddSum,
       maxWins |-> runs.maxWins, maxLosses |-> runs.maxLosses,
       around |-> spreads.around, below |-> spreads.below, belowZero |-> spreads.belowZero,
       downside |-> spreads.belowZero > 0,
       mfe |-> mfe.mfe, mae |-> mfe.mae, trades |-> trades]

Calculate(trades) == IF trades = <<>> THEN ZeroResult ELSE FullResult(trades)

-----------------------------------------------------------------------------
(* Reference definitions, by quantification over the trades.               *)

\* The curve after k trades.
Curve(trades, k) == FoldLeft(LAMBDA a, t : a + t.pnl, 0, SubSeq(trades, 1, k))

HighUpTo(trades, k) == Max({Curve(trades, j) : j \in 0 .. k})

UnderWater(trades) == {k \in DOMAIN trades : Curve(trades, k) < HighUpTo(trades, k)}

DeepestFall(trades) ==
  Max({0} \cup {HighUpTo(trades, k) - Curve(trades, k) : k \in UnderWater(trades)})

\* From the trade that set the high (the first trade, when none did) to the
\* first one above it (the last, when none is).
TimeUnderWater(trades, k) ==
  LET high == HighUpTo(trades, k)
      from == {j \in 1 .. k : Curve(trades, j) = high}
      above == {j \in k .. Len(trades) : Curve(trades, j) > high}
      start == IF high = 0 \/ from = {} THEN 1 ELSE Min(from)
      end == IF above = {} THEN Len(trades) ELSE Min(above)
  IN  trades[end].exitAt - trades[start].exitAt

LongestFall(trades) ==
  Max({0} \cup {TimeUnderWater(trades, k) : k \in UnderWater(trades)})

\* n squared times the variance, by the distances between the trades alone.
SquaredDistances(trades) ==
  LET distance(c) == trades[c[1]].pnl - trades[c[2]].pnl IN
  Len(trades) * MapThenSumSet(LAMBDA c : distance(c) * distance(c),
                              {c \in (DOMAIN trades) \X (DOMAIN trades) : c[1] < c[2]})

LongestRun(trades, Won(_)) ==
  Max({0} \cup {n \in 1 .. Len(trades) :
        \E a \in DOMAIN trades :
          a + n - 1 <= Len(trades) /\ \A i \in a .. a + n - 1 : Won(trades[i])})
=============================================================================
