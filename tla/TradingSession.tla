--------------------------- MODULE TradingSession ---------------------------
(***************************************************************************)
(* One session from the start of the process: main() up to the connection  *)
(* (Startup), the connection (MarketStream), the ticks that come through   *)
(* it, and how TradingSession takes them, one at a time, down to the lots  *)
(* PositionManager enqueues, sized on a rate and a balance that age        *)
(* meanwhile (SizingInputs, Allocation).                                   *)
(*                                                                         *)
(* A snapshot is only what it is relative to the newest one delivered.     *)
(* EntryPipeline has the queue behind enqueue, ExitSubsystem the exits     *)
(* inside process; here both are awaits with an outcome.                   *)
(***************************************************************************)
EXTENDS MarketStream, Startup, SizingInputs, Allocation

CONSTANTS
  Strategies,  \* number of strategies with an entry rule
  Balances,    \* balances GMO may tell
  Rates        \* bid prices

ASSUME SessionAssumption ==
  Strategies \in Nat /\ Balances \subseteq Nat /\ Rates \subseteq Nat \ {0}

VARIABLES
  stopped,      \* TradingSession.stopped
  pc,           \* where process waits, "idle" if processing is false
  pending,      \* pendingSnapshot: "none", "newest", or one that is "older"
  newestBegun,  \* history: processing of the newest snapshot has begun
  work,         \* how many strategies have fired, and then how many are free
  lots,         \* StrategyLots while they are enqueued
  basis         \* history: the balance and rate they were sized on

loopVars == <<stopped, pc, pending, newestBegun>>
cycleVars == <<work, lots, basis>>
sessionVars == <<vars, bootVars, inputVars, loopVars, cycleVars>>

\* "exits" is the update of extremes and the dispatch, "context", "rows" and
\* "sizing" are the awaits of handleSignals, "scan" is its enqueueing, and
\* "halting" the stop by the kill-switch.
Waits == {"idle", "exits", "halting", "context", "rows", "sizing", "scan"}

NoLots == [i \in 1 .. 0 |-> 0]
NoBasis == [balance |-> 0, rate |-> 0]

LoopTypeOK ==
  /\ stopped \in BOOLEAN /\ newestBegun \in BOOLEAN
  /\ pc \in Waits
  /\ pending \in {"none", "newest", "older"}
  /\ work \in 0 .. Strategies

SessionInit ==
  /\ Init /\ BootInit /\ InputsInit
  /\ stopped = FALSE /\ pc = "idle" /\ pending = "none" /\ newestBegun = TRUE
  /\ work = 0 /\ lots = NoLots /\ basis = NoBasis

\* A failed startup has ended the process.
Alive == boot # "failed" /\ Running

-----------------------------------------------------------------------------
(* Ticks. *)

\* MarketDataStream's listener: the tick has come through the connection, to
\* the rate first and then as a snapshot.
TickComes ==
  /\ Alive /\ session = "live"
  /\ \E s \in Sockets : sock[s] = "open" /\ s \notin dead
  /\ \E age \in 0 .. MaxDelay : KeepsRate(age)
  /\ UNCHANGED <<vars, bootVars, balanceVars, stopped, cycleVars>>

TickIgnored == TickComes /\ stopped /\ UNCHANGED <<pc, pending, newestBegun>>

TickBegins ==
  /\ TickComes /\ ~stopped /\ pc = "idle"
  /\ pc' = "exits" /\ newestBegun' = TRUE
  /\ UNCHANGED pending

(* A plausible slip: the first snapshot that has to wait is kept. *)
CoalescesFirst == pending' = IF pending = "none" THEN "newest" ELSE "older"

Coalesces == pending' = "newest"

TickWaits ==
  /\ TickComes /\ ~stopped /\ pc # "idle"
  /\ Coalesces /\ newestBegun' = FALSE
  /\ UNCHANGED pc

(* A plausible slip: what came meanwhile is left for the next tick. *)
ProcessEndsForNow ==
  /\ pc' = "idle" /\ pending' = "none" /\ UNCHANGED newestBegun
  /\ work' = 0 /\ lots' = NoLots /\ basis' = NoBasis

\* process returns or throws: the loop of onMarketData takes the snapshot that
\* waits, unless the session has been stopped.
ProcessEnds ==
  /\ IF pending # "none" /\ ~stopped
       THEN pc' = "exits" /\ newestBegun' = (pending = "newest")
       ELSE pc' = "idle" /\ UNCHANGED newestBegun
  /\ pending' = "none"
  /\ work' = 0 /\ lots' = NoLots /\ basis' = NoBasis

-----------------------------------------------------------------------------
(* process. *)

\* The breaker has a kill: stop, unless it has been called before.
KillSwitch ==
  /\ pc = "exits" /\ ~stopped
  /\ stopped' = TRUE /\ Disconnects
  /\ pc' = "halting"
  /\ UNCHANGED <<bootVars, inputVars, pending, newestBegun, cycleVars>>

Halted ==
  /\ pc = "halting"
  /\ ProcessEnds
  /\ UNCHANGED <<vars, bootVars, inputVars, stopped>>

\* An error, no signal, entries blocked; then no free strategy.
NothingToEnter ==
  /\ pc \in {"exits", "rows"}
  /\ ProcessEnds
  /\ UNCHANGED <<vars, bootVars, inputVars, stopped>>

\* Rules have fired; buildContext asks for the balance, which need not go out.
Detects ==
  /\ pc = "exits"
  /\ work' \in 1 .. Strategies
  /\ \/ BalanceFresh /\ pc' = "rows" /\ UNCHANGED balanceVars
     \/ ~BalanceFresh /\ pc' = "context" /\ AsksBalance
  /\ UNCHANGED <<vars, bootVars, captured, quoted, stopped, pending, newestBegun, lots, basis>>

ContextRead ==
  /\ pc = "context" /\ pc' = "rows"
  /\ BalanceArrives
  /\ UNCHANGED <<vars, bootVars, captured, quoted, stopped, pending, newestBegun, cycleVars>>

NoBalance ==
  /\ pc \in {"context", "sizing"}
  /\ BalanceFails
  /\ ProcessEnds
  /\ UNCHANGED <<vars, bootVars, captured, quoted, stopped>>

\* executeWithFresh after its await, the allocation, and the limit of one lot:
\* none of them awaits.
Sizes(eligible) ==
  \E balance \in Balances, rate \in Rates :
    LET shares == StrategyLots(DecideLot(balance, rate), eligible)
        refused == \/ ~SumsToOne(EqualWeights(eligible))
                   \/ ShareRefused(shares) \/ ExceedsSingleLot(shares)
    IN
      IF ~RateFresh \/ refused
        THEN ProcessEnds
        ELSE /\ pc' = "scan"
             /\ lots' = shares
             /\ basis' = [balance |-> balance, rate |-> rate]
             /\ work' = 0
             /\ UNCHANGED <<pending, newestBegun>>

\* openPositions tells which strategies are free.
SizesAtOnce ==
  /\ pc = "rows" /\ BalanceFresh
  /\ \E free \in 1 .. work : Sizes(free)
  /\ UNCHANGED <<vars, bootVars, inputVars, stopped>>

AsksAgain ==
  /\ pc = "rows" /\ ~BalanceFresh
  /\ work' \in 1 .. work
  /\ pc' = "sizing" /\ AsksBalance
  /\ UNCHANGED <<vars, bootVars, captured, quoted, stopped, pending, newestBegun, lots, basis>>

SizesOnAnswer ==
  /\ pc = "sizing"
  /\ BalanceArrives
  /\ Sizes(work)
  /\ UNCHANGED <<vars, bootVars, captured, quoted, stopped>>

\* Every strategy has been enqueued or skipped (EntryPipeline).
Enqueued ==
  /\ pc = "scan"
  /\ ProcessEnds
  /\ UNCHANGED <<vars, bootVars, inputVars, stopped>>

ProcessStep ==
  \/ Halted \/ NothingToEnter \/ Detects \/ ContextRead \/ NoBalance
  \/ SizesAtOnce \/ AsksAgain \/ SizesOnAnswer \/ Enqueued

-----------------------------------------------------------------------------
\* The first call of stop, by the shutdown handler, whatever start is doing.
StopBySignal ==
  /\ Alive /\ ~stopped
  /\ stopped' = TRUE /\ Disconnects
  /\ UNCHANGED <<bootVars, inputVars, pc, pending, newestBegun, cycleVars>>

BootStep ==
  /\ PingAnswers \/ PingFails \/ PingsAgain \/ StartupProceeds \/ StartupFails
  /\ UNCHANGED <<vars, inputVars, loopVars, cycleVars>>

StreamStep ==
  /\ boot = "ready" /\ Events
  /\ UNCHANGED <<bootVars, inputVars, loopVars, cycleVars>>

Outside ==
  /\ Alive
  /\ TimePasses \/ GmoAnswers
  /\ UNCHANGED <<vars, bootVars, loopVars, cycleVars>>

SessionNext ==
  \/ TickIgnored \/ TickBegins \/ TickWaits
  \/ Alive /\ (ProcessStep \/ KillSwitch)
  \/ StopBySignal \/ BootStep \/ StreamStep \/ Outside

SafeSession == SessionInit /\ [][SessionNext]_sessionVars

\* Every await of process and of main() ends, by an answer or a time limit (the
\* database need not answer a ping), and the connection is as fair as in Spec.
SessionSpec ==
  /\ SafeSession
  /\ WF_sessionVars(ProcessStep)
  /\ WF_sessionVars(BootStep /\ boot' # "registry")
  /\ WF_sessionVars(StreamStep /\ session = "off")
  /\ WF_sessionVars(StreamStep /\ (WatchChecks \/ WatchTerminates))
  /\ \A s \in Sockets :
       /\ WF_sessionVars(StreamStep /\ Closes(s) /\ sock[s] = "closing")
       /\ WF_sessionVars(StreamStep /\ (Opens(s) \/ HandshakeFails(s)))
  /\ WF_sessionVars(StreamStep /\ timer # NoTimer /\ timer' = NoTimer)
  /\ SF_sessionVars(StreamStep /\ \E s \in Sockets : Reconnects(s))
  /\ SF_sessionVars(StreamStep /\ \E s \in Sockets : Opens(s))

-----------------------------------------------------------------------------
(* Properties. *)

\* "The newest tick is always evaluated": a snapshot that waits is the newest
\* delivered and has not been begun, and if the newest has not been begun, it
\* waits; until the session is stopped.
PendingIsNews ==
  ~stopped => pending # "older" /\ (pending = "newest" <=> ~newestBegun)

\* It is also begun at last, however many ticks come between.
NewestProcessed == ~newestBegun ~> newestBegun \/ stopped

\* What lots are computed on is not older than its limits say, whatever was
\* awaited since it was read and however late ticks arrive: the price has been
\* GMO's within MaxAge, the balance within the cache's time and one request.
SizedOnFreshData ==
  [][pc # "scan" /\ pc' = "scan" =>
       /\ quoted \in 0 .. MaxAge
       /\ answered' \in 0 .. BalanceTtl + RequestTimeout]_sessionVars

\* The entries of one cycle together leave the target ratio of capital to
\* margin, unless the smallest lot already goes beyond it.
MarginKept ==
  pc = "scan" =>
    \/ TotalUnits(lots) * basis.rate * MarginNum <= basis.balance * MarginDen
    \/ TotalUnits(lots) <= MinLot

\* main() comes to an end, whatever the database does: the process trades, has
\* been stopped, or has ended; only a handshake that is never answered hangs.
StartupEnds == <>(boot = "failed" \/ session \notin {"off", "starting"})
=============================================================================
