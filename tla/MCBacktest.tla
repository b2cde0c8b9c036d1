----------------------------- MODULE MCBacktest -----------------------------
(***************************************************************************)
(* Values of the constants of BacktestRunner for model checking.           *)
(***************************************************************************)
EXTENDS BacktestRunner

\* All filters off: a stop of two pips, and the cross.
Plain ==
  [short |-> 1, long |-> 2, stopLoss |-> 2, takeProfit |-> Off, activate |-> Off, width |-> Off,
   maxHold |-> 0, minStrength |-> Off, maxDivergence |-> Off, minSell |-> Off, maxBuy |-> Off,
   hours |-> {}, windows |-> {}]

\* A longer average, the trailing take profit, and a holding time of two candles.
Trailing ==
  [Plain EXCEPT !.long = 3, !.stopLoss = 4, !.activate = 1, !.width = 1, !.maxHold = 2 * Slots]

\* Every filter on, and the fixed take profit.
Filtered ==
  [Plain EXCEPT !.takeProfit = 1, !.minStrength = 1, !.maxDivergence = 40, !.minSell = 3,
                !.maxBuy = 5, !.hours = {CloseTime(From + 2)}, !.windows = {{CloseTime(From)}}]

MCBatches == {<<Plain, Trailing>>, <<Trailing, Plain>>, <<Filtered>>}

\* Every bucket; one missing before the period, in it; none in it; too few.
MCHistories ==
  {1 .. To, (1 .. To) \ {From - 1}, (1 .. To) \ {From + 1}, 1 .. From - 1, {1, From}}
=============================================================================
