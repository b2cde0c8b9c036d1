------------------------- MODULE EmergencyCloseAll --------------------------
(***************************************************************************)
(* application/EmergencyCloseAllUseCase: the operator's "close everything  *)
(* now".  All close orders are sent in parallel, each position then runs   *)
(* on its own; inFlight (emPc # "idle") refuses a second request until     *)
(* every order is settled, also after the thirty-second timeout answered   *)
(* the caller.  A failure after the broker has closed is only reported:    *)
(* it does not reach the compensation queue.                               *)
(***************************************************************************)
EXTENDS PositionStores

VARIABLES
  emPc,      \* "idle", "listing", "closing", or "answered" after the timeout
  emTask     \* position -> progress of its closeOne

emVars == <<emPc, emTask>>

EmTask == {"none", "sent", "filled", "saving", "closed", "failed"}
EmUnsettled == {"sent", "filled", "saving"}

EmTypeOK ==
  /\ emPc \in {"idle", "listing", "closing", "answered"}
  /\ emTask \in [Positions -> EmTask]

EmInit ==
  /\ emPc = "idle"
  /\ emTask = [p \in Positions |-> "none"]

EmGoesTo(p, task) ==
  /\ emTask' = [emTask EXCEPT ![p] = task]
  /\ UNCHANGED emPc

\* POST /api/emergency-close-all; a request while inFlight is refused (409)
\* and changes nothing.
EmRequested ==
  /\ emPc = "idle"
  /\ emPc' = "listing"
  /\ UNCHANGED <<emTask, storeVars>>

\* openPositions is answered: nothing to do, or one order per position.
EmLists ==
  /\ emPc = "listing"
  /\ emPc' = IF OpenRows = {} THEN "idle" ELSE "closing"
  /\ emTask' = [p \in Positions |-> IF p \in OpenRows THEN "sent" ELSE "none"]
  /\ UNCHANGED storeVars

EmListingFails ==
  /\ emPc = "listing"
  /\ emPc' = "idle"
  /\ UNCHANGED <<emTask, storeVars>>

EmOrderExecutes(p) ==
  /\ emTask[p] = "sent"
  /\ CloseAtBroker(p)
  /\ EmGoesTo(p, "filled")
  /\ UNCHANGED row

\* placeExit throws: rejected by the broker, or accepted and given up.
EmOrderFails(p) ==
  /\ emTask[p] = "sent"
  /\ UNCHANGED <<broker, stray>> \/ AbandonOrder(p)
  /\ EmGoesTo(p, "failed")
  /\ UNCHANGED row

\* The order was executed, but the answer does not get through.
EmAnswerLost(p) ==
  /\ emTask[p] = "filled"
  /\ EmGoesTo(p, "failed")
  /\ UNCHANGED storeVars

\* placeExit returns the execution; position.close cannot fail, for the
\* aggregate was read as OPEN.
EmAnswered(p) ==
  /\ emTask[p] = "filled"
  /\ EmGoesTo(p, "saving")
  /\ UNCHANGED storeVars

\* A plausible slip: the position is reported closed before update resolves.
EmReportsBeforeSaving(p) ==
  /\ emTask[p] = "saving"
  /\ UpdateRow(p) \/ UNCHANGED row
  /\ EmGoesTo(p, "closed")
  /\ UNCHANGED <<broker, stray>>

EmSaves(p) ==
  /\ emTask[p] = "saving"
  /\ UpdateRow(p)
  /\ EmGoesTo(p, "closed")
  /\ UNCHANGED <<broker, stray>>

\* update throws, applied or not: only an entry in errors.
EmSavingFails(p) ==
  /\ emTask[p] = "saving"
  /\ UpdateRow(p) \/ UNCHANGED row
  /\ EmGoesTo(p, "failed")
  /\ UNCHANGED <<broker, stray>>

\* The caller is answered, inFlight stays.
EmTimesOut ==
  /\ emPc = "closing"
  /\ \E p \in Positions : emTask[p] \in EmUnsettled
  /\ emPc' = "answered"
  /\ UNCHANGED <<emTask, storeVars>>

\* A plausible slip: inFlight is released by the caller that has gone.
EmSettledInTime ==
  /\ emPc = "closing"
  /\ \A p \in Positions : emTask[p] \notin EmUnsettled
  /\ emPc' = "idle"
  /\ emTask' = [p \in Positions |-> "none"]
  /\ UNCHANGED storeVars

\* Promise.allSettled: inFlight is released.
EmSettled ==
  /\ emPc \in {"closing", "answered"}
  /\ \A p \in Positions : emTask[p] \notin EmUnsettled
  /\ emPc' = "idle"
  /\ emTask' = [p \in Positions |-> "none"]
  /\ UNCHANGED storeVars

EmTaskStep(p) ==
  \/ EmOrderExecutes(p) \/ EmOrderFails(p)
  \/ EmAnswerLost(p) \/ EmAnswered(p)
  \/ EmSaves(p) \/ EmSavingFails(p)
=============================================================================
