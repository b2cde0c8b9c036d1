------------------------------ MODULE Startup -------------------------------
(***************************************************************************)
(* main() until the market data connection is made: the database is pinged *)
(* until it answers (DatabaseHealthCheck), the strategies of open positions*)
(* must have exit rules, the HTTP server listens, GMO must accept the keys,*)
(* positions are synchronised, and candles are fetched for the averages.   *)
(* Every failure ends the process.  The lengths of the waits are left out. *)
(***************************************************************************)
EXTENDS Integers

CONSTANT MaxRetries   \* BackoffConfig.maxRetries

ASSUME RetryAssumption == MaxRetries \in Nat

VARIABLES
  boot,     \* where main() waits
  attempt   \* DatabaseHealthCheck.ensureHealthy: retries so far

bootVars == <<boot, attempt>>

\* In the order of main(), after the pings and the waits between them.
Awaits == <<"registry", "listening", "verifying", "syncing", "warming", "ready">>
Boots == {"pinging", "waiting", "failed"} \cup {Awaits[i] : i \in 1 .. 6}

BootTypeOK == boot \in Boots /\ attempt \in 0 .. MaxRetries

BootInit == boot = "pinging" /\ attempt = 0

PingAnswers == boot = "pinging" /\ boot' = "registry" /\ UNCHANGED attempt

(* A plausible slip: the loop does not come to its end. *)
PingFailsForEver == boot = "pinging" /\ boot' = "waiting" /\ UNCHANGED attempt

\* The query is rejected, or its time is over although nothing has come back.
PingFails ==
  /\ boot = "pinging"
  /\ boot' = IF attempt < MaxRetries THEN "waiting" ELSE "failed"
  /\ UNCHANGED attempt

\* The counter goes on after the wait.
PingsAgain ==
  /\ boot = "waiting" /\ boot' = "pinging"
  /\ attempt' = IF attempt < MaxRetries THEN attempt + 1 ELSE attempt

StartupProceeds ==
  /\ \E i \in 1 .. 5 : boot = Awaits[i] /\ boot' = Awaits[i + 1]
  /\ UNCHANGED attempt

\* A query or request fails, a strategy has no rule, or the port is taken.
StartupFails ==
  /\ \E i \in 1 .. 5 : boot = Awaits[i]
  /\ boot' = "failed"
  /\ UNCHANGED attempt
=============================================================================
