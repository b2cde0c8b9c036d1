------------------------------ MODULE LotSizing ------------------------------
(***************************************************************************)
(* How many units one entry is for (MaintenanceRatioBasedLotPolicy, Lot):  *)
(* as many as keep the ratio of capital to required margin at its target,  *)
(* in steps of 100 units and between the limits of a single order.  The    *)
(* policy has no state; the live program and the backtest both use it.     *)
(***************************************************************************)
EXTENDS Integers

CONSTANTS
  LotStep,    \* 100 units
  MinLot,     \* Lot.SINGLE_LOT_MIN_UNITS
  MaxLot,     \* Lot.SINGLE_LOT_MAX_UNITS
  MarginNum,  \* target ratio * margin rate = MarginNum / MarginDen
  MarginDen

\* MIN and MAX of Lot are multiples of 100, and MaintenanceRatio and MarginRate
\* are positive.
ASSUME LotAssumption ==
  /\ LotStep \in Nat \ {0} /\ MinLot \in Nat \ {0} /\ MaxLot \in Nat
  /\ MinLot <= MaxLot
  /\ MinLot % LotStep = 0 /\ MaxLot % LotStep = 0
  /\ MarginNum \in Nat \ {0} /\ MarginDen \in Nat \ {0}

Clamped(n) == IF n < MinLot THEN MinLot ELSE IF n > MaxLot THEN MaxLot ELSE n

\* floor(capital / (target * rate * marginRate) / 100) * 100, then the limits.
DecideLot(capital, rate) ==
  Clamped(((capital * MarginDen) \div (MarginNum * rate * LotStep)) * LotStep)
=============================================================================
