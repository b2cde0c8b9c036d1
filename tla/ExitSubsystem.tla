--------------------------- MODULE ExitSubsystem ----------------------------
(***************************************************************************)
(* Everything that closes positions or writes their rows, in one process   *)
(* that may end at any await and be started again (main.ts): the           *)
(* dispatcher, the compensation queue, the synchronisation runs and the    *)
(* emergency close, over the same table and the same broker account.       *)
(*                                                                         *)
(* Entries appear here only as what they leave behind: a position at the   *)
(* broker, and its row once EntryExecution has registered it.              *)
(***************************************************************************)
EXTENDS ExitDispatcher, SyncPositions, EmergencyCloseAll

CONSTANTS
  StartupSync,   \* the run main() awaits before monitoring; later the interval's
  MaxEnds,       \* bound: how often the process may end while in service
  EmergencyUsed  \* bound: whether the operator ever presses the emergency button

ASSUME SubsystemAssumption ==
  /\ StartupSync \in SyncRuns
  /\ MaxEnds \in Nat
  /\ EmergencyUsed \in BOOLEAN

VARIABLES
  phase,     \* "down", "starting" (HTTP is served), "syncing" (main() awaits the
             \* startup synchronisation, then session.start), or "running"
  entering,  \* positions filled whose register has not returned
  ends       \* how often the process has ended, for the bound

lifeVars == <<phase, entering, ends>>

vars == <<storeVars, breakerVars, queueVars, dispatchVars, syncVars, emVars,
          lifeVars>>

Phase == {"down", "starting", "syncing", "running"}

TypeOK ==
  /\ StoresTypeOK /\ BreakerTypeOK /\ QueueTypeOK /\ DispatchTypeOK
  /\ SyncTypeOK /\ EmTypeOK
  /\ phase \in Phase
  /\ entering \subseteq Positions
  /\ ends \in 0 .. MaxEnds

Init ==
  /\ StoresInit /\ BreakerInit /\ QueueInit /\ DispatchInit /\ SyncInit /\ EmInit
  /\ phase = "running"
  /\ entering = {}
  /\ ends = 0

-----------------------------------------------------------------------------
(* The world outside. *)

Outside ==
  /\ \E p \in Positions : StrayOrderExecutes(p) \/ ClosedOutside(p)
  /\ UNCHANGED <<breakerVars, queueVars, dispatchVars, syncVars, emVars, lifeVars>>

(* EntryExecution.openPosition: placeEntry, then register. *)

EntryFills(p) ==
  /\ phase = "running"
  /\ EntryExecutes(p)
  /\ entering' = entering \cup {p}
  /\ UNCHANGED <<breakerVars, queueVars, dispatchVars, syncVars, emVars, phase, ends>>

EntryRegisters(p) ==
  /\ p \in entering
  /\ InsertRow(p) \/ UNCHANGED row
  /\ entering' = entering \ {p}
  /\ UNCHANGED <<broker, stray, phase, ends>>
  /\ UNCHANGED <<breakerVars, queueVars, dispatchVars, syncVars, emVars>>

-----------------------------------------------------------------------------
(* The components, each while the process runs them. *)

Dispatching ==
  /\ phase = "running"
  /\ \/ TickArrives \/ DispatchLists \/ DispatchListFails \/ DispatchEnds
     \/ \E p \in Positions : DispatchStep(p)
  /\ UNCHANGED <<syncVars, emVars, lifeVars>>

CompensationBegins ==
  /\ phase = "running"
  /\ DrainStarts
  /\ UNCHANGED <<breakerVars, dispatchVars, syncVars, emVars, lifeVars>>

CompensationSucceeds(p) ==
  /\ RetrySucceeds(p)
  /\ UNCHANGED <<breakerVars, dispatchVars, syncVars, emVars, lifeVars>>

CompensationFails(p) ==
  /\ RetryFails(p)
  /\ UNCHANGED <<breakerVars, dispatchVars, syncVars, emVars, lifeVars>>

\* The startup synchronisation is begun by main(), and when it fails the
\* process ends; every other run is begun by a request or by the interval.
OwnRun(r) == phase = "running" \/ (phase # "down" /\ r # StartupSync)

SyncReads(r) ==
  /\ OwnRun(r)
  /\ SyncReadsRows(r)
  /\ UNCHANGED <<breakerVars, queueVars, dispatchVars, emVars, lifeVars>>

SyncAsks(r) ==
  /\ phase # "down"
  /\ SyncAsksBroker(r)
  /\ UNCHANGED <<breakerVars, queueVars, dispatchVars, emVars, lifeVars>>

SyncMarksRow(r) ==
  /\ phase # "down"
  /\ \E p \in Positions : SyncMarks(r, p)
  /\ UNCHANGED <<breakerVars, queueVars, dispatchVars, emVars, lifeVars>>

SyncBreaksOff(r) ==
  /\ OwnRun(r)
  /\ SyncFails(r)
  /\ UNCHANGED <<breakerVars, queueVars, dispatchVars, emVars, lifeVars>>

EmergencyBegins ==
  /\ phase # "down" /\ EmergencyUsed
  /\ EmRequested
  /\ UNCHANGED <<breakerVars, queueVars, dispatchVars, syncVars, lifeVars>>

EmergencyProceeds ==
  /\ EmLists \/ EmListingFails \/ EmTimesOut \/ EmSettled
  /\ UNCHANGED <<breakerVars, queueVars, dispatchVars, syncVars, lifeVars>>

EmergencyCloses(p) ==
  /\ EmTaskStep(p)
  /\ UNCHANGED <<breakerVars, queueVars, dispatchVars, syncVars, lifeVars>>

-----------------------------------------------------------------------------
(* The process. *)

\* Close orders on their way when the process ends reach GMO all the same.
OrdersInFlight ==
  {p \in Positions : (dPc = "sent" /\ Current(p)) \/ emTask[p] = "sent"}

\* Everything in memory is gone, the compensation queue with it.
MemoryLost ==
  /\ stray' = stray \cup (OrdersInFlight \cap HeldAtBroker)
  /\ fails' = [p \in Positions |-> 0]
  /\ wait' = [p \in Positions |-> 0]
  /\ owed' = [p \in Positions |-> "none"]
  /\ drain' = {}
  /\ dPc' = "idle" /\ dTodo' = {} /\ dEntity' = "OPEN"
  /\ tracked' = {} /\ halted' = FALSE /\ confirmed' = {}
  /\ syncPc' = [r \in SyncRuns |-> "idle"]
  /\ syncSet' = [r \in SyncRuns |-> {}]
  /\ emPc' = "idle"
  /\ emTask' = [p \in Positions |-> "none"]
  /\ entering' = {}
  /\ phase' = "down"
  /\ UNCHANGED <<broker, row>>

\* A crash, or shutdown() on SIGINT / SIGTERM: both keep only the stores.
ProcessEnds ==
  /\ phase = "running" /\ ends < MaxEnds
  /\ ends' = ends + 1
  /\ MemoryLost

\* main(): the HTTP server is up, the connectivity check is sent.
ProcessStarts ==
  /\ phase = "down"
  /\ phase' = "starting"
  /\ UNCHANGED <<entering, ends, storeVars, breakerVars, queueVars>>
  /\ UNCHANGED <<dispatchVars, syncVars, emVars>>

\* The check succeeded: main() runs and awaits the synchronisation.
StartupSyncs ==
  /\ phase = "starting"
  /\ phase' = "syncing"
  /\ SyncReadsRows(StartupSync)
  /\ UNCHANGED <<breakerVars, queueVars, dispatchVars, emVars, entering, ends>>

\* The check, the synchronisation or session.start throws: process.exit(1).
StartupFails ==
  /\ phase \in {"starting", "syncing"}
  /\ MemoryLost
  /\ UNCHANGED ends

\* The synchronisation is done, then session.start: ticks, queue and interval.
SessionStarts ==
  /\ phase = "syncing" /\ syncPc[StartupSync] = "idle"
  /\ phase' = "running"
  /\ UNCHANGED <<entering, ends, storeVars, breakerVars, queueVars>>
  /\ UNCHANGED <<dispatchVars, syncVars, emVars>>

Next ==
  \/ Outside
  \/ \E p \in Positions : EntryFills(p) \/ EntryRegisters(p)
  \/ Dispatching
  \/ CompensationBegins
  \/ \E p \in Positions : CompensationSucceeds(p) \/ CompensationFails(p)
  \/ \E r \in SyncRuns :
       SyncReads(r) \/ SyncAsks(r) \/ SyncMarksRow(r) \/ SyncBreaksOff(r)
  \/ EmergencyBegins \/ EmergencyProceeds
  \/ \E p \in Positions : EmergencyCloses(p)
  \/ ProcessEnds \/ ProcessStarts \/ StartupSyncs \/ StartupFails \/ SessionStarts

SafeSpec == Init /\ [][Next]_vars

-----------------------------------------------------------------------------
(* Fairness.  Every await comes back, with some outcome: the HTTP client    *)
(* and the database driver answer or throw (weak fairness on the steps of   *)
(* whoever waits).  The timers of main.ts and of the queue keep firing.     *)
(* The database and the broker are not down for ever: what is tried again   *)
(* and again succeeds at last (strong fairness on the successes), and so    *)
(* does the start of the process, which an operator repeats.                *)

Fairness ==
  /\ WF_vars(Dispatching /\ dPc # "idle")
  /\ WF_vars(EmergencyProceeds)
  /\ WF_vars(\E p \in Positions : EmergencyCloses(p))
  /\ WF_vars(CompensationBegins)
  /\ SF_vars(\E p \in Positions : CompensationSucceeds(p))
  /\ WF_vars(SyncReads(StartupSync))
  /\ SF_vars(SyncAsks(StartupSync))
  /\ SF_vars(SyncMarksRow(StartupSync))
  /\ WF_vars(ProcessStarts)
  /\ SF_vars(StartupSyncs \/ SessionStarts)

Spec == SafeSpec /\ Fairness

-----------------------------------------------------------------------------
(* Safety. *)

\* A row is CLOSED only for a position the broker has closed: neither the
\* synchronisation (DB first, broker second), nor any exit path, takes a live
\* position out of monitoring.
NoPhantomClose ==
  \A p \in Positions : row[p] \in ClosedRow => broker[p] = "closed"

\* The exit price of an exit that ExitExecution has seen confirmed is never
\* lost while the process lives: it is in the row, or the queue still owes
\* the row exactly that write, or the first attempt to write it is running.
ConfirmedExitKept ==
  \A p \in confirmed :
    \/ row[p] = "settled"
    \/ owed[p] = "update"
    \/ dPc = "saving" /\ Current(p)

\* The path of ExitExecution that gives up the exit price (enqueueMarkClosed)
\* is never taken: the broker refuses every order for a row found CLOSED.
NoDegradedEntry == \A p \in Positions : owed[p] # "markClosed"

\* A position waiting in the compensation queue adds nothing to the kill
\* count: the shield keeps confirmed exits from stopping the session.
ShieldedNeverCounts ==
  \A p \in Positions :
    Has(p) => fails[p] = 0 \/ (dPc = "notifying" /\ Current(p))

\* The kill-switch is exact: outside a dispatch the session is halted if and
\* only if some position reached the threshold, and none went beyond it.
KillSwitchExact ==
  /\ dPc = "idle" =>
       (halted <=> \E p \in Positions : fails[p] >= FailureThreshold)
  /\ \A p \in Positions : fails[p] <= FailureThreshold
  /\ halted => dPc = "idle"

\* What the emergency close reports as closed is closed at the broker and
\* recorded with its price, whatever ran at the same time.
EmergencyReportTrue ==
  \A p \in Positions :
    emTask[p] = "closed" => broker[p] = "closed" /\ row[p] = "settled"

\* A row once CLOSED stays CLOSED, and one that has an exit price keeps it:
\* late writers (a second sync, a retried update, markClosed after update)
\* never undo an earlier one.
ClosedRowsFinal ==
  [][\A p \in Positions :
       /\ row[p] \in ClosedRow => row'[p] \in ClosedRow
       /\ row[p] = "settled" => row'[p] = "settled"]_vars

\* As stated for the shield and for ExitExecution: once the broker has
\* confirmed an exit, no further close order is sent for that position.
ConfirmedNeverResent ==
  \A p \in Positions : dPc = "sent" /\ Current(p) => p \notin confirmed

-----------------------------------------------------------------------------
(* Refinement and liveness. *)

lifeOf ==
  [p \in Positions |->
     IF row[p] = "absent"
     THEN IF broker[p] = "none" THEN "unfilled" ELSE "unregistered"
     ELSE IF row[p] = "open"
     THEN IF broker[p] = "open" THEN "held" ELSE "ghost"
     ELSE "recorded"]

Abstract == INSTANCE PositionLife WITH life <- lifeOf

\* The exit side keeps the promise of PositionLife, its liveness included:
\* every ghost (broker closed, row OPEN) is recorded at last.
KeepsPromise == Abstract!Life

\* No entry stays in the compensation queue for ever: the write is retried
\* until it succeeds, and then the shield is lifted.
QueueDrains == \A p \in Positions : Has(p) ~> ~Has(p)

\* The guard inFlight is always released again: an emergency close never
\* leaves the program refusing the next one for ever.
EmergencyGuardReleased == (emPc # "idle") ~> (emPc = "idle")

\* A dispatch that has begun ends, so that the session takes later ticks.
DispatchTerminates == (dPc # "idle") ~> (dPc = "idle")
=============================================================================
