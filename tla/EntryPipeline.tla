--------------------------- MODULE EntryPipeline ----------------------------
(***************************************************************************)
(* How a market tick becomes an entry order, and how the process stops     *)
(* meanwhile: PositionManager.handleSignals as TradingSession.process      *)
(* calls it, the queue it feeds, the kill-switch, and main.ts' shutdown    *)
(* handler, which every SIGINT and SIGTERM runs once more.                 *)
(***************************************************************************)
EXTENDS EntryQueue

CONSTANTS
  Strategies,  \* the strategies of the entry rules
  Signals      \* bound: the SIGINT and SIGTERM the process gets

VARIABLES
  strategy,  \* which strategy a command is for
  pmPc,      \* where process waits: "idle", "exits", "context", "sizing",
             \* "scan", "checked", or "killing"
  pmTodo,    \* strategies with an allocation still to enqueue
  pmNow,     \* the strategy whose pre-check has found no row
  stopped,   \* TradingSession.stopped
  shut,      \* where each run of shutdown waits: "none", "stopping", "closing"
  alive      \* FALSE after process.exit

pmVars == <<strategy, pmPc, pmTodo, pmNow>>
shutVars == <<stopped, shut, alive>>
vars == <<entryQueueVars, pmVars, shutVars>>

PmPc == {"idle", "exits", "context", "sizing", "scan", "checked", "killing"}

TypeOK ==
  /\ EntryQueueTypeOK
  /\ strategy \in [Commands -> Strategies \cup {"none"}]
  /\ pmPc \in PmPc
  /\ pmTodo \subseteq Strategies
  /\ pmNow \in Strategies \cup {"none"}
  /\ pmPc = "checked" => pmNow \in Strategies
  /\ \A c \in Commands : cmd[c] # "none" => strategy[c] \in Strategies
  /\ stopped \in BOOLEAN /\ alive \in BOOLEAN
  /\ shut \in [Signals -> {"none", "stopping", "closing"}]

Init ==
  /\ EntryQueueInit
  /\ strategy = [c \in Commands |-> "none"]
  /\ pmPc = "idle" /\ pmTodo = {} /\ pmNow = "none"
  /\ stopped = FALSE /\ alive = TRUE
  /\ shut = [k \in Signals |-> "none"]

\* findOpenByPairAndStrategy and OpenPositions.holdsStrategyOnPair.
OpenRowOf(s) == \E c \in Commands : strategy[c] = s /\ row[c] = "OPEN"

-----------------------------------------------------------------------------
(* One tick: exits first, then handleSignals. *)

TickBegins ==
  /\ pmPc = "idle" /\ ~stopped
  /\ pmPc' = "exits"
  /\ UNCHANGED <<strategy, pmTodo, pmNow, entryQueueVars, shutVars>>

\* The tick ends without an entry: an error of the exit part, a blocked
\* admission, no signal, a failed query, no allocation, or lots over the limit.
TickEnds ==
  /\ pmPc \in {"exits", "context", "sizing"}
  /\ pmPc' = "idle" /\ pmTodo' = {}
  /\ UNCHANGED <<strategy, pmNow, entryQueueVars, shutVars>>

\* The breaker has a kill: process stops the session itself and awaits it.
\* Were it stopped already, stop returns at once.
KillSwitch ==
  /\ pmPc = "exits"
  /\ stopped' = TRUE
  /\ IF stopped THEN /\ pmPc' = "idle"
                     /\ UNCHANGED entryQueueVars
                ELSE /\ pmPc' = "killing"
                     /\ StopBegins
  /\ UNCHANGED <<strategy, pmTodo, pmNow, shut, alive>>

KillSwitchDone ==
  /\ pmPc = "killing" /\ stopPc = "done"
  /\ pmPc' = "idle"
  /\ UNCHANGED <<strategy, pmTodo, pmNow, entryQueueVars, shutVars>>

\* The rules have fired for some strategies: handleSignals asks for the balance.
Detects ==
  /\ pmPc = "exits"
  /\ \E found \in SUBSET Strategies \ {{}} : pmTodo' = found
  /\ pmPc' = "context"
  /\ UNCHANGED <<strategy, pmNow, entryQueueVars, shutVars>>

\* EqualWeightAllocationPolicy: held strategies get nothing.
Allocated(found) == {s \in found : ~OpenRowOf(s)}

\* The balance and openPositions have been read.
ReadsContext ==
  /\ pmPc = "context"
  /\ pmTodo' = Allocated(pmTodo)
  /\ pmPc' = IF pmTodo' = {} THEN "idle" ELSE "sizing"
  /\ UNCHANGED <<strategy, pmNow, entryQueueVars, shutVars>>

Sizes ==
  /\ pmPc = "sizing"
  /\ pmPc' = "scan"
  /\ UNCHANGED <<strategy, pmTodo, pmNow, entryQueueVars, shutVars>>

\* The pre-check of one strategy is answered: a row, or an error, skips it.
PreCheckClear(s) ==
  /\ pmPc = "scan" /\ s \in pmTodo
  /\ ~OpenRowOf(s)
  /\ pmTodo' = pmTodo \ {s}
  /\ pmNow' = s
  /\ pmPc' = "checked"
  /\ UNCHANGED <<strategy, entryQueueVars, shutVars>>

PreCheckSkips(s) ==
  /\ pmPc = "scan" /\ s \in pmTodo
  /\ pmTodo' = pmTodo \ {s}
  /\ UNCHANGED <<strategy, pmPc, pmNow, entryQueueVars, shutVars>>

\* The rest of enqueueFor runs without an await.
EnqueuesCommand ==
  /\ pmPc = "checked"
  /\ \/ /\ EnqueueIgnored
        /\ UNCHANGED strategy
     \/ \E c \in Commands :
          /\ Enqueue(c)
          /\ strategy' = [strategy EXCEPT ![c] = pmNow]
  /\ pmNow' = "none"
  /\ pmPc' = "scan"
  /\ UNCHANGED <<pmTodo, shutVars>>

LoopEnds ==
  /\ pmPc = "scan" /\ pmTodo = {}
  /\ pmPc' = "idle"
  /\ UNCHANGED <<strategy, pmTodo, pmNow, entryQueueVars, shutVars>>

-----------------------------------------------------------------------------
(* shutdown(signal). *)

\* TradingSession.stop: the first call stops the queue, every later one
\* returns at once.
ShutdownBegins(k) ==
  /\ shut[k] = "none"
  /\ stopped' = TRUE
  /\ IF stopped THEN /\ shut' = [shut EXCEPT ![k] = "closing"]
                     /\ UNCHANGED entryQueueVars
                ELSE /\ shut' = [shut EXCEPT ![k] = "stopping"]
                     /\ StopBegins
  /\ UNCHANGED <<alive, pmVars>>

SessionStopped(k) ==
  /\ shut[k] = "stopping" /\ stopPc = "done"
  /\ shut' = [shut EXCEPT ![k] = "closing"]
  /\ UNCHANGED <<stopped, alive, entryQueueVars, pmVars>>

\* The compensation queue, the server and the pool have been stopped, or one of
\* them has thrown: process.exit(0).
ProcessExits(k) ==
  /\ shut[k] = "closing"
  /\ alive' = FALSE
  /\ UNCHANGED <<stopped, shut, entryQueueVars, pmVars>>

-----------------------------------------------------------------------------
PositionManagerStep ==
  \/ TickBegins \/ TickEnds \/ KillSwitch \/ KillSwitchDone
  \/ Detects \/ ReadsContext \/ Sizes \/ EnqueuesCommand \/ LoopEnds
  \/ \E s \in Strategies : PreCheckClear(s) \/ PreCheckSkips(s)

\* The drain timer of the running process.
DrainTimer ==
  /\ alive
  /\ \E c \in Commands : DrainExpires(c) \/ DrainSends(c)
  /\ UNCHANGED <<pmVars, shutVars>>

\* The awaits of openPosition and of the notice end: polling is limited.
DrainProceeds ==
  /\ alive
  /\ \E c \in Commands :
       OrderGivenUp(c) \/ OrderAnswered(c) \/ InsertsPosition(c) \/ InsertsSnapshot(c)
         \/ RegisterFails(c) \/ Dropped(c)
  /\ UNCHANGED <<pmVars, shutVars>>

StopProceeds ==
  /\ alive
  /\ StopDrainDone \/ StopReturns \/ \E c \in Commands : DropsAtShutdown(c)
  /\ UNCHANGED <<pmVars, shutVars>>

ShutdownStep ==
  \E k \in Signals : ShutdownBegins(k) \/ SessionStopped(k) \/ ProcessExits(k)

\* Time, GMO's answers and executions, and the exit side.
Outside ==
  /\ \/ alive /\ TimePasses
     \/ \E c \in Commands :
          \/ GmoExecutes(c)
          \/ alive /\ (OrderRefused(c) \/ PositionExits(c))
  /\ UNCHANGED <<pmVars, shutVars>>

Next ==
  \/ alive /\ (PositionManagerStep \/ ShutdownStep)
  \/ DrainTimer \/ DrainProceeds \/ StopProceeds
  \/ Outside

Spec == Init /\ [][Next]_vars

\* The timer fires, every await of the drain ends (at most twenty polls, a
\* database time limit), and stop goes on once what it awaits is done.
FairSpec ==
  Spec /\ WF_vars(DrainTimer) /\ WF_vars(DrainProceeds) /\ WF_vars(StopProceeds)

-----------------------------------------------------------------------------
(* Properties. *)

\* Once EntryQueue.stop has returned, no command is queued or on its way, and
\* none is accepted any more: the order drainOne awaited when stop was called
\* has been waited for, and a handleSignals still running cannot refill the queue.
StopIsFinal ==
  stopPc = "done" =>
    \A c \in Commands : cmd[c] \in {"none", "placed", "expired"}

\* A position opened at GMO that is missing in the table is one openPosition has
\* still to insert, or was reported as a failed entry: no failure between the POST
\* and the end of register passes for a success.  (A row that is there stays with
\* its position, whichever of the two INSERTs failed after it.)
HeldIsKnown ==
  \A c \in Commands :
    order[c] = "held" /\ row[c] # "OPEN" =>
      cmd[c] \in {"sending", "filled", "dropping", "expired"}

\* Every accepted command ends as an entry or as a drop with its notice, unless
\* the process exits first: failures of orders, rows and notices never leave
\* draining set, and stop drops what it finds.
CommandsSettle ==
  \A c \in Commands :
    cmd[c] = "queued" ~> (cmd[c] \in {"placed", "expired"} \/ ~alive)

\* A stop that has begun returns: the kill-switch, awaited inside process, and
\* shutdown never wait for a drain that cannot end.
StopEnds == stopPc # "none" ~> (stopPc = "done" \/ ~alive)

\* What Position, DuplicatePositionError and the repository call the invariant:
\* one OPEN position per pair and strategy.  Neither check of handleSignals sees
\* a command that is queued or on its way.
OneOpenPerStrategy ==
  \A c, d \in Commands :
    c # d /\ row[c] = "OPEN" /\ row[d] = "OPEN" => strategy[c] # strategy[d]

\* stop waits for the order on its way so that it is not lost.  shutdown ends the
\* process after TradingSession.stop, whose second call does not wait.
NoEntryLostAtExit ==
  ~alive => \A c \in Commands : cmd[c] \notin {"sending", "filled"}
=============================================================================
