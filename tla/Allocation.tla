----------------------------- MODULE Allocation -----------------------------
(***************************************************************************)
(* How the lot of one cycle is divided among the strategies that fired     *)
(* (EqualWeightAllocationPolicy, Ratio, LotAllocation, StrategyLots).  A   *)
(* ratio is an integer number of parts of Scale, and every share is cut to *)
(* a whole number of LotStep units.  Nothing here has state.               *)
(***************************************************************************)
EXTENDS LotSizing, Functions

CONSTANT Scale   \* Ratio.SCALE: 10^10 parts make one

ASSUME ScaleAssumption == Scale \in Nat \ {0}

\* The parts round down; Ratio.divideOne.
DivideOne(n) == Scale \div n

\* Ratio.complementOf: the last strategy gets what rounding has left.
ComplementOf(n) == Scale - (n - 1) * DivideOne(n)

\* computeEqualWeights: the parts of n strategies are one together.
EqualWeights(n) == [i \in 1 .. n |-> IF i = n THEN ComplementOf(n) ELSE DivideOne(n)]

\* Ratio.EPSILON, 10^-9 of one.
Epsilon == Scale \div 1000000000

\* What LotAllocation.of asks of the ratios of one cycle.
SumsToOne(ratios) == SumFunction(ratios) - Scale \in -Epsilon .. Epsilon

(* A plausible slip: a share is rounded to the nearest step. *)
ApplyToNearest(lot, ratio) ==
  ((lot * ratio + (Scale * LotStep) \div 2) \div (Scale * LotStep)) * LotStep

ApplyTo(lot, ratio) == ((lot * ratio) \div (Scale * LotStep)) * LotStep

\* The lots of n strategies, the last of which gets the larger part.
StrategyLots(lot, n) == [i \in 1 .. n |-> ApplyTo(lot, EqualWeights(n)[i])]

TotalUnits(lots) == SumFunction(lots)

\* Lot.of throws for a share below the smallest lot: no strategy enters.
ShareRefused(lots) == \E s \in DOMAIN lots : lots[s] < MinLot

ExceedsSingleLot(lots) == TotalUnits(lots) > MaxLot
=============================================================================
