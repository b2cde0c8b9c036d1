------------------------- MODULE ExitFailureBreaker -------------------------
(***************************************************************************)
(* domain/guard/ExitFailureCircuitBreaker: consecutive exit failures per   *)
(* position, the cooldown after each, and the kill verdict.                *)
(*                                                                         *)
(* The code keeps an absolute cooldownUntilTick and a growing tick; both   *)
(* only meet in "tick >= cooldownUntilTick", so the model keeps what is    *)
(* left of the cooldown, max(0, cooldownUntilTick - tick), and needs no    *)
(* bound on the number of ticks.  No record is fails = 0.                  *)
(***************************************************************************)
EXTENDS PositionStores

CONSTANTS FailureThreshold, CooldownTicks

\* ExitFailureThreshold.of rejects anything below 1, the constructor of the
\* breaker a negative cooldown.
ASSUME BreakerAssumption ==
  /\ FailureThreshold \in Nat \ {0}
  /\ CooldownTicks \in Nat

VARIABLES
  fails,     \* records: position -> consecutiveFailures
  wait       \* position -> ticks left before admitAttempt allows a retry

breakerVars == <<fails, wait>>

BreakerTypeOK ==
  /\ fails \in [Positions -> Nat]
  /\ wait \in [Positions -> Nat]

BreakerInit ==
  /\ fails = [p \in Positions |-> 0]
  /\ wait = [p \in Positions |-> 0]

\* beginTick: the tick advances and records of positions that left the OPEN
\* set are purged.
BeginTick(active) ==
  /\ fails' = [p \in Positions |-> IF p \in active THEN fails[p] ELSE 0]
  /\ wait' = [p \in Positions |->
                IF p \in active /\ wait[p] > 0 THEN wait[p] - 1 ELSE 0]

AdmitAttempt(p) == wait[p] = 0

RecordFailure(p) ==
  /\ fails' = [fails EXCEPT ![p] = @ + 1]
  /\ wait' = [wait EXCEPT ![p] = CooldownTicks]

RecordSuccess(p) ==
  /\ fails' = [fails EXCEPT ![p] = 0]
  /\ wait' = [wait EXCEPT ![p] = 0]

\* A plausible slip: the verdict asks for more failures than the threshold.
KillDetailLate == \E p \in Positions : fails[p] > FailureThreshold

\* killDetail() is not null.
KillDetail == \E p \in Positions : fails[p] >= FailureThreshold
=============================================================================
