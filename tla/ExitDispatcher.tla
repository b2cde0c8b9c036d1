--------------------------- MODULE ExitDispatcher ---------------------------
(***************************************************************************)
(* One market tick as TradingSession.process handles it: extremes, then    *)
(* ExitDispatcher.dispatch over the OPEN positions oldest first, each exit *)
(* through ExitExecution.closePosition, then the kill-switch.  The session *)
(* processes one tick at a time (processing / pendingSnapshot), so there   *)
(* is one dispatch at most.  Every await is a step boundary.               *)
(***************************************************************************)
EXTENDS ExitFailureBreaker, ExitCompensationQueue

VARIABLES
  dPc,       \* where the running dispatch waits; "idle" between ticks
  dTodo,     \* positions of the dispatch's list still to handle
  dEntity,   \* the status findById read: "OPEN" or "CLOSED"
  tracked,   \* positions with extremes (PositionExtremesUpdater)
  halted,    \* the kill-switch has stopped the session
  confirmed  \* history: exits ExitExecution has seen confirmed by the broker

dispatchVars == <<dPc, dTodo, dEntity, tracked, halted, confirmed>>

DispatchPc ==
  {"idle", "listing", "scan", "finding", "sent", "filled", "saving", "notifying"}

DispatchTypeOK ==
  /\ dPc \in DispatchPc
  /\ dTodo \subseteq Positions
  /\ dEntity \in {"OPEN", "CLOSED"}
  /\ tracked \subseteq Positions
  /\ halted \in BOOLEAN
  /\ confirmed \subseteq Positions

DispatchInit ==
  /\ dPc = "idle"
  /\ dTodo = {}
  /\ dEntity = "OPEN"
  /\ tracked = {}
  /\ halted = FALSE
  /\ confirmed = {}

\* The position the loop is at: sortedByOpenedAtAsc.
Current(p) == p \in dTodo /\ \A q \in dTodo : p <= q

\* extremesUpdater.update: extremes for every OPEN row.  If its query throws,
\* the tick ends there and nothing has changed.
TickArrives ==
  /\ dPc = "idle" /\ ~halted
  /\ dPc' = "listing"
  /\ tracked' = tracked \cup OpenRows
  /\ UNCHANGED <<dTodo, dEntity, halted, confirmed>>
  /\ UNCHANGED <<storeVars, breakerVars, queueVars>>

\* dispatch reads the OPEN rows and begins a tick of the breaker.
DispatchLists ==
  /\ dPc = "listing"
  /\ dPc' = "scan"
  /\ dTodo' = OpenRows
  /\ BeginTick(OpenRows)
  /\ UNCHANGED <<dEntity, tracked, halted, confirmed, storeVars, queueVars>>

DispatchListFails ==
  /\ dPc = "listing"
  /\ dPc' = "idle"
  /\ UNCHANGED <<dTodo, dEntity, tracked, halted, confirmed>>
  /\ UNCHANGED <<storeVars, breakerVars, queueVars>>

\* The loop goes on to the next position.
Leave(p) ==
  /\ dPc' = "scan"
  /\ dTodo' = dTodo \ {p}

\* Shielded, cooling down, no rule, no ExitCommand, or no extremes: skipped.
Skips(p) ==
  /\ dPc = "scan" /\ Current(p)
  /\ Leave(p)
  /\ UNCHANGED <<dEntity, tracked, halted, confirmed>>
  /\ UNCHANGED <<storeVars, breakerVars, queueVars>>

\* A plausible slip: a failed position is tried again at once.
RetriesAt(p) ==
  /\ dPc' = "scan"
  /\ UNCHANGED <<dTodo, breakerVars>>
  /\ UNCHANGED <<dEntity, tracked, halted, confirmed, queueVars>>

\* The catch of the loop: the failure is recorded.
FailsAt(p) ==
  /\ Leave(p)
  /\ RecordFailure(p)
  /\ UNCHANGED <<dEntity, tracked, halted, confirmed, queueVars>>

\* shouldExit throws, or returns a command for another position.
RuleThrows(p) ==
  /\ dPc = "scan" /\ Current(p)
  /\ ~Has(p) /\ AdmitAttempt(p)
  /\ FailsAt(p)
  /\ UNCHANGED storeVars

\* A plausible slip: the shield is not asked.
FiresUnshielded(p) ==
  /\ dPc = "scan" /\ Current(p)
  /\ AdmitAttempt(p)
  /\ p \in tracked
  /\ dPc' = "finding"
  /\ UNCHANGED <<dTodo, dEntity, tracked, halted, confirmed>>
  /\ UNCHANGED <<storeVars, breakerVars, queueVars>>

\* The rule returns an ExitCommand and the extremes are known.
Fires(p) ==
  /\ dPc = "scan" /\ Current(p)
  /\ ~Has(p) /\ AdmitAttempt(p)
  /\ p \in tracked
  /\ dPc' = "finding"
  /\ UNCHANGED <<dTodo, dEntity, tracked, halted, confirmed>>
  /\ UNCHANGED <<storeVars, breakerVars, queueVars>>

\* findById answers with the row as it is now, and the order goes out; the
\* status is not looked at.
Sends(p) ==
  /\ dPc = "finding" /\ Current(p)
  /\ dPc' = "sent"
  /\ dEntity' = IF row[p] = "open" THEN "OPEN" ELSE "CLOSED"
  /\ UNCHANGED <<dTodo, tracked, halted, confirmed>>
  /\ UNCHANGED <<storeVars, breakerVars, queueVars>>

FindingFails(p) ==
  /\ dPc = "finding" /\ Current(p)
  /\ FailsAt(p)
  /\ UNCHANGED storeVars

OrderExecutes(p) ==
  /\ dPc = "sent" /\ Current(p)
  /\ CloseAtBroker(p)
  /\ dPc' = "filled"
  /\ UNCHANGED <<dTodo, dEntity, tracked, halted, confirmed>>
  /\ UNCHANGED <<row, breakerVars, queueVars>>

\* placeExit throws: rejected by the broker, or accepted and given up.
OrderFails(p) ==
  /\ dPc = "sent" /\ Current(p)
  /\ UNCHANGED <<broker, stray>> \/ AbandonOrder(p)
  /\ FailsAt(p)
  /\ UNCHANGED row

\* The order was executed, but the answer does not get through.
AnswerLost(p) ==
  /\ dPc = "filled" /\ Current(p)
  /\ FailsAt(p)
  /\ UNCHANGED storeVars

\* placeExit returns: from here on nothing is thrown.  position.close refuses
\* an aggregate that was already CLOSED.
Answered(p) ==
  /\ dPc = "filled" /\ Current(p)
  /\ confirmed' = confirmed \cup {p}
  /\ IF dEntity = "OPEN"
     THEN dPc' = "saving" /\ UNCHANGED owed
     ELSE dPc' = "notifying" /\ EnqueueMarkClosed(p)
  /\ UNCHANGED <<dTodo, dEntity, tracked, halted, drain>>
  /\ UNCHANGED <<storeVars, breakerVars>>

Saves(p) ==
  /\ dPc = "saving" /\ Current(p)
  /\ UpdateRow(p)
  /\ dPc' = "notifying"
  /\ UNCHANGED <<dTodo, dEntity, tracked, halted, confirmed>>
  /\ UNCHANGED <<broker, stray, breakerVars, queueVars>>

\* update throws, applied or not: the exit is handed to the queue.
SavingFails(p) ==
  /\ dPc = "saving" /\ Current(p)
  /\ UpdateRow(p) \/ UNCHANGED row
  /\ EnqueueUpdate(p)
  /\ dPc' = "notifying"
  /\ UNCHANGED <<dTodo, dEntity, tracked, halted, confirmed>>
  /\ UNCHANGED <<broker, stray, breakerVars, drain>>

\* closeAndNotify is done, whether the UI was reached or not.
Notified(p) ==
  /\ dPc = "notifying" /\ Current(p)
  /\ Leave(p)
  /\ RecordSuccess(p)
  /\ tracked' = tracked \ {p}
  /\ UNCHANGED <<dEntity, halted, confirmed, storeVars, queueVars>>

\* The list is exhausted: TradingSession asks the breaker.
DispatchEnds ==
  /\ dPc = "scan" /\ dTodo = {}
  /\ dPc' = "idle"
  /\ halted' = (halted \/ KillDetail)
  /\ UNCHANGED <<dTodo, dEntity, tracked, confirmed>>
  /\ UNCHANGED <<storeVars, breakerVars, queueVars>>

DispatchStep(p) ==
  \/ Skips(p) \/ RuleThrows(p) \/ Fires(p)
  \/ Sends(p) \/ FindingFails(p)
  \/ OrderExecutes(p) \/ OrderFails(p) \/ AnswerLost(p) \/ Answered(p)
  \/ Saves(p) \/ SavingFails(p) \/ Notified(p)
=============================================================================
