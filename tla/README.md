# A verification of luchida

luchida is an FX trading program for one currency pair on GMO Coin: a Node.js
process (`packages/backend`) that receives ticks over a WebSocket, keeps candles
and moving averages, opens positions on a cross, watches the open ones and
closes them by rules, and records them in PostgreSQL.  A browser front end
displays what it does; `packages/backtest` runs the same rules offline.

This directory holds TLA+ models of the backend and of the backtest, the TLC
configurations that check them, and proofs for TLAPS.  All paths below are relative to
`src/packages/backend/src/` unless they start with `src/`.

Contents: 1 inventory, 2 how the code is modelled, 3 the exit side, 4 the entry
side, 5 access to the broker, 6 market data: connection and candles, 7 the
session: startup, ticks, sizing, 8 the backtest, 9 runs, 10 fairness, 11 proofs,
12 disagreements and observations, 13 what is not modelled, 14 order and outlook.

## 1. Inventory

Everything runs in one Node.js process: a single thread, so code between two
`await`s is atomic and every `await` lets all other activities run.  Activities
are started by ticks, by timers (entry drain, compensation drain, one-minute
synchronisation, candle boundaries, reconnect, ping watch), by HTTP requests
(emergency close, synchronisation) and by signals.  State is shared through
two stores, the account at the broker and the table `positions`, and
through objects in memory that a crash loses.

| Component (source) | State it keeps | Operations | Talks to |
|---|---|---|---|
| Exit dispatcher and execution (`application/ExitDispatcher.ts`, `action/ExitExecution.ts`, `PositionExtremesUpdater.ts`) | extremes per position | `dispatch`, `closePosition` | broker, table, breaker, compensation queue |
| Exit failure breaker (`domain/guard/ExitFailureCircuitBreaker.ts`) | failures and cooldown per position, tick counter | `beginTick`, `admitAttempt`, `recordFailure`, `recordSuccess`, `killDetail` | dispatcher, session |
| Compensation queue (`action/ExitCompensationQueue.ts`) | writes still owed | `enqueueUpdate`, `enqueueMarkClosed`, `has`, drain by timer, `stop` | table |
| Synchronisation (`application/SyncPositionsUseCase.ts`) | none between runs | `execute` | table, then broker, then table |
| Emergency close (`application/EmergencyCloseAllUseCase.ts`) | `inFlight` | `execute` | table, broker |
| Broker adapter (`adapter/gmo/GmoBrokerAdapter.ts`) | none | `placeEntry`, `placeExit`, `fetchOpenPositionIds` | REST client |
| Positions table (`infrastructure/database/PostgresPositionRepository.ts`) | rows | `register`, `update`, `markClosed`, queries | everyone |
| Entry queue and execution (`action/EntryQueue.ts`, `EntryExecution.ts`) | queue, `draining`, `stopped` | `enqueue`, drain by timer, `stop`, `openPosition` | broker, table |
| Position manager (`application/PositionManager.ts`) | none | `handleSignals` | rules, balance, table, entry queue |
| Trading session (`application/TradingSession.ts`) | `processing`, `pendingSnapshot`, `stopped` | `start`, `onMarketData`, `stop` | all of the above |
| Process (`main.ts`) | timers | startup, shutdown | all of the above |
| Candles and indicators (`domain/market/*`, `BarReconciler.ts`, `BoundaryScheduler.ts`) | forming and last confirmed candle, averages | `onTick`, `reconcile`, `warmUp` | candle history |
| Market data (`GmoWebSocketClient.ts`, `MarketDataStream.ts`) | socket, reconnect and ping timers | `connect`, `disconnect` | session |
| REST client (`GmoRestClient.ts`, `GmoApiError.ts`) | throttle timestamps | `get`, `post`, `publicGet` | broker adapter |
| Balance (`GmoBalanceAdapter.ts`) | cached balance, fetch in flight | `current`, `freshNow` | REST client, position manager |
| Authentication breaker (`domain/guard/AuthFailureCircuitBreaker.ts`) | consecutive failures | `report`, `admitEntry` | synchronisation, position manager |
| Rate for sizing (`infrastructure/MarketDataRateAdapter.ts`) | the latest tick | `start`, `currentFresh` | position manager |
| Rules (`domain/rule/*`) | trailing peaks | `shouldExit`, `detect` | dispatcher, position manager, backtest |
| Sizing and allocation (`PositionSizingService.ts`, `MaintenanceRatioBasedLotPolicy.ts`, `domain/allocation/*`, `domain/Ratio.ts`) | none | `decideLot`, `allocate` | position manager, backtest |
| Database health (`infrastructure/database/DatabaseHealthCheck.ts`) | retries | `ensureHealthy` | `main` |
| Backtest engines (`src/packages/backtest/src/engine/*`, `simulator/*`, `snapshot-adapter/*`) | ledger, open positions, waiting orders, trades, equity | `run` | rules, sizing |
| Backtest batch (`src/packages/backtest/src/runner/*`, `data-provider/*`, `result/*`) | candle cache, rows of batch, runs and trades | `run`, `fetchCandles`, `save` | engines, database |
| HTTP and socket server, logging, value objects, front end | - | I/O | - |

What makes it hard, and the property that decides whether it is right:

- *Two records of one fact.*  The account is the truth, the row is what the
  program believes.  Exits write broker first and row second; between the two
  lie awaits, failures and crashes.  A row must never say CLOSED of a
  live position (it would go unmonitored), and a position closed at the broker
  must not stay OPEN in the table for ever.
- *Five writers without a lock* (dispatcher, compensation queue, overlapping
  synchronisations, emergency close, registration), each acting on what it read
  an await earlier.
- *Unknown outcomes.*  A close order may be executed although its answer was
  lost or polling gave up.
- *A kill-switch* that has to count failures exactly, although cooldown, shield
  and the purge of the counters all work on different snapshots.
- *Requests that are repeated.*  A rate limit is retried, a lost answer must not
  be; polling ends after twenty attempts; an account is listed in several
  requests while it changes.  An order must never be placed twice, and a list
  must not omit what was open all the time, or synchronisation closes its row.
- *Stopping.*  `stop` must wait for the order on its way, must not wait for
  ever, and nothing may enter the queue behind it; it is called by the
  kill-switch and by signals, once or several times.
- *Crashes and restarts* with a compensation queue that lives in memory.
- *A connection that comes back by itself.*  Errors, close events, rejected
  promises and a watch for silence all lead to the same reconnect chain.  There
  must always be a way back and never two chains, since with two every
  tick would be traded twice.
- *Two sources of candles.*  The program builds candles from ticks and replaces
  them by the broker's, which were read awaits earlier, may lag behind, have
  holes, and carry another `openTime` than its own.  Candle, averages and the
  averages that include the forming candle must stay together through it.
- *Ticks faster than their processing.*  Those that come meanwhile overwrite each
  other; the newest must be processed however many come, and none after `stop`.
- *Figures with an age.*  An entry is sized on a rate and a balance read awaits
  earlier, one stamped by the broker and one on arrival, and the shares of several
  strategies are rounded; together they must keep the margin ratio.
- *A simulation that must not know the future.*  The backtest feeds averages from
  a shared cache, decides on one tick and fills on a later one, compounds equity
  from trade to trade, and leaves rows of a batch that any query may fail.

`PROJECT.json` lists every hazard at its line, with the property that covers it
or the reason why none does.

## 2. How the code is modelled

A step boundary is an `await`: each action stands for the code of one activity
between two awaits, guards and early returns included, and each await that can
throw has an action for the failure.  A database write that throws may have been
applied (the connection can break before its answer comes), so its failure action
allows both: the writes of the exit side (`SavingFails`, `RetryFails`, `SyncFails`,
`EmSavingFails`), either INSERT of `register` (`LeftByFailure`), and of the backtest
the batch row and the COMMIT (`SaveFails`; what precedes it is rolled back).

On the exit and the entry side prices, profit and loss, lots and wording are
dropped; what is kept of a price is whether a closed row has one
(`settled`) or not (`marked`).  Sizing and the backtest do compute: prices are
whole pips, lots whole units, and ratios integer parts of `Scale`, rounded as the
code rounds.

Identifiers: positions are natural numbers in the order of `openedAt`, because
`sortedByOpenedAtAsc` is the only order the code uses.  Entry commands
are numbered in the order `enqueue` accepts them, so the head of the queue is
the least queued number.

Definitions whose comment starts with "A plausible slip" are not part of the
specification.  They are wrong variants of the operator they precede, kept to
show that a property can fail: with the slip in place of the operator, TLC finds
the property violated.

## 3. The exit side

    PositionStores          account at GMO, table rows, abandoned close orders
      |-- ExitFailureBreaker      counts and cooldowns
      |-- ExitCompensationQueue   writes still owed, and the shield
      |     `-- ExitDispatcher    one tick: list, rules, orders, saving (extends both)
      |-- SyncPositions           any number of overlapping runs
      `-- EmergencyCloseAll       one request at a time, parallel tasks
    ExitSubsystem           all of them in a process that ends and restarts
    PositionLife            what it all promises, one position seen from outside

- **PositionStores**: `broker[p]` is what GMO holds, `row[p]` the row, `stray`
  the close orders GMO has accepted and whose sender no longer waits.  The
  operators are the repository's statements: `update` writes whatever
  the status is, `markClosed` only `WHERE status = 'OPEN'`.
- **ExitFailureBreaker**: the code compares an absolute `cooldownUntilTick` with
  a growing tick; the model keeps the difference, so that no bound on ticks is
  needed.
- **ExitCompensationQueue**: `owed` is the map of entries, `drain` what the
  running `drainAll` has still to retry.
- **ExitDispatcher**: `dPc` names the await the dispatch is at, `dTodo` is
  the rest of the list it read (deliberately stale), `dEntity` the status
  `findById` returned.  `confirmed` is a history variable: the exits
  `ExitExecution` has seen confirmed.
- **SyncPositions**: `execute` by runs; nothing in the code keeps runs from
  overlapping.
- **EmergencyCloseAll**: `emPc # "idle"` is `inFlight`; `answered` is the time
  after the thirty-second limit, when the caller has gone and the orders run on.
- **ExitSubsystem**: composes them and adds the process: `down`, `starting`
  (the HTTP server is up, so requests are served), `syncing` (`main` awaits the
  startup synchronisation and then `session.start`), `running`.  A crash and a
  shutdown both leave only the stores; orders on their way become stray.
- **PositionLife**: the abstract specification: `unfilled -> unregistered ->
  held -> ghost -> recorded`, nothing ever goes back, and a ghost (closed at
  the broker, OPEN in the table) is recorded at last.

## 4. The entry side

- **EntryQueue**: the queue, the drain timer and `openPosition`, in the states
  of `cmd`: queued, sending (`placeEntry` awaited), filled and inserted (the two
  INSERTs of `register` awaited, of the position and of its snapshot; there is no
  transaction around them), dropping (the notice awaited), placed, expired.  Either
  INSERT can throw, the first also after it was applied, so a command can be dropped
  and reported while its row is OPEN.  GMO executes a working
  order at any time, also after the program has given it up.  Waiting time is
  counted in steps up to `Ttl + 1`, the first value at which a command expires.
- **EntryPipeline**: `PositionManager.handleSignals` await by await, the
  kill-switch inside `process`, and `main.ts`' `shutdown`, once per signal:
  nothing in the handler keeps a second signal from running it again.  Whether
  rules fire, what is allocated and whether a size is possible is
  a nondeterministic outcome.

The two sides are separate compositions.  They meet in the position a filled
entry leaves: `ExitSubsystem` has entries as `EntryFills` / `EntryRegisters`,
`EntryPipeline` has exits as `PositionExits`.

## 5. Access to the broker

    RestClient        one request, and its repetition after a rate limit
      `-- BrokerAccess    orders and listings, with GMO and the authentication breaker
    OrderPromise      what placeEntry and placeExit promise

Sections 3 and 4 have an order as one await with an outcome.  These modules open
that await.

- **RestClient**: `attempt[c]` is the loop variable of `withRateLimitRetry`.
  Throttle, backoff and fetch are one wait of any length; answers fall into the
  kinds the callers tell apart: `ok`, a rate limit (status 4 or HTTP 429),
  rejected keys (ERR-5012), any other error, and a fetch that throws.
- **BrokerAccess**: `placeEntry` and `placeExit` by `place` (order, polling,
  and for an entry the search for its position) and `polls`;
  `fetchOpenPositionIds` by `got`, `cursor` (`prevId`) and `page`, one step per
  request.  GMO is `account`, `working`, `executed`: it takes an order it
  answers with `ok`, takes none it answers with a rate limit or for the keys, may have
  taken one whose answer is broken or lost, executes at any time, and lets
  positions be opened and closed by others.  It gives numbers in rising order, answers
  pages from the newest down and honours the cursor.  A position that is being closed
  is locked: of two close orders for one position, which the dispatcher and the
  emergency close can have under way at the same time, GMO refuses the second.
  `failures` is the count of `AuthFailureCircuitBreaker`, reported as
  `SyncPositionsUseCase` does.  `held` (what was open since the listing began)
  and `rejections` are history variables.
- **OrderPromise**: the abstract specification, one order seen from its caller
  and from GMO: at most one order reaches GMO and only while its caller waits, a
  confirmed order is executed, and a caller is always answered.  An error says
  nothing; the order may be executed later, which is `stray` in
  `PositionStores` and a working order of a given-up command in `EntryQueue`.

## 6. Market data: connection and candles

**MarketStream** is `GmoWebSocketClient` with `MarketDataStream.start` and
`stop` above it.  `sock` is the `readyState` of every socket object, `ws` the one
the client refers to, `intentional`, `timer`, `attempts` and `watch` are
`intentionalClose`, `reconnectTimer`, `reconnectAttempts` and
`serverPingWatchTimer`.  The handlers of a socket act on the client and not on
their own socket, so an event of an old socket would act on its successor; the model
keeps them by socket to see whether that can occur.  A wait is the level of its
timer, 2^level seconds, and silence is counted in checks of the watch.  A
step is one turn of the event loop with its microtasks: the error event, the close
event and the rejected promise of one failed handshake are one action
(`HandshakeFails`), in which `scheduleReconnect` may be called once or, were it
not guarded, twice.  `session` is what the caller of `start` has seen; it is
`unanswered` when the promise of `connect` is never settled, because the error is
reported after `readyState` has left CONNECTING.  `ended` is a history
variable: connections and attempts that have ended since the last one opened.

**CandleBook** is one time frame of `TimeFrameBook` with everything that acts on
it: ticks (`CandleAccumulator`), averages (`IndicatorLedger`), the warm-up in
`TradingSession.start`, and the reconciliation with the broker's candles
(`BoundaryScheduler`, `BarReconciler`, `GmoCandleHistoryAdapter`).  Time frames
share nothing but the loop of `onTick`.

A candle is its `openTime`.  For the broker's candles that is the start of the
period; for the program's own it is the time of the first tick
(`FormingCandle.open`), and the two kinds meet in the same series.  An average is
the sequence of candles its calculator has been fed, so that order, doubling and
loss are visible and prices are not needed.  `tentative` is the flag
`_hasFormingValue` that decides whether the second calculator replaces or adds.

The clock is a variable.  A tick carries a time up to `Delay` old; ticks arrive
in the order of their times, as one socket delivers them.  A reconciliation has
three steps: the timer fires and the requests go out, the broker reads (its
newest candle may be missing, the requests of any days may be lost), and the
answer is applied or refused in one step, as `BarReconciler` has no await there.
Ticks, the clock and `stop` come in between.

## 7. The session: startup, ticks, sizing

    Startup          main() up to the connection     MarketStream    the connection
    SizingInputs     rate and balance, with ages     LotSizing, Allocation    lots
      `-- TradingSession    extends all of them: a process from its start on

- **Startup**: `boot` is the await `main` stands at, `attempt` the retries of
  `DatabaseHealthCheck.ensureHealthy`.  Every failure ends the process.
- **SizingInputs**: the latest tick of `MarketDataRateAdapter` by the time GMO
  gave it (`captured`) and the balance `GmoBalanceAdapter` caches, stamped when
  the answer arrives (`cached`), with the request on its way (`fetch`).  `quoted`
  and `answered` are history variables: the true ages.
- **LotSizing**, **Allocation**: `MaintenanceRatioBasedLotPolicy.decideLot` and
  the division among strategies (`Ratio.divideOne`, `Ratio.complementOf`,
  `LotAllocation`) as operators.  They have no state.
- **TradingSession**: `onMarketData` with `processing` (`pc # "idle"`),
  `pendingSnapshot` (`pending`) and `stopped`; `process` by its awaits, down to the
  lots that are enqueued.  A snapshot is only what it is relative to the newest
  one delivered, so the number of ticks needs no bound.  What is behind an await
  (exits, the queue of entries) is an outcome here and has its own module.

## 8. The backtest

    StrategyRules     the rules of SMA_CROSS            LotSizing
    BacktestMetrics   the figures of a result, and their definitions
      `-- BacktestBook    ledger, positions, orders, trades, equity
            |-- TickEngine    one tick, and the end of the stream
            |-- OhlcEngine    one candle
            `-- BacktestRunner    a batch over either engine, its cache and its rows

- **StrategyRules**: entry and exit rules with their filters as operators of the
  parameters, the snapshot and the position; the trailing take profit is given the
  peak it remembers and returns the next.
- **BacktestMetrics**: `Calculate` goes through the trades as
  `ResultCalculator.ts` does, in one pass with flags and running values;
  `DeepestFall`, `LongestFall`, `LongestRun` are the definitions it should meet.
- **BacktestBook**: what a run remembers.  A `Map` of which the code only asks
  whether it has an entry and which, is a set of records.
- **TickEngine**, **OhlcEngine**: the stages of the loops in their order.
  With a delay an order is decided on one tick and filled on a later one.
- **BacktestRunner**: `BacktestRunner.run` over a batch, `fetchCandles` with its
  cache, the loops of the engines tick by tick or candle by candle, `save` as one
  transaction of several inserts, the batch row, a query that fails and the
  script ending between any two steps.  The market is chosen as it is read: which
  buckets hold ticks is fixed, the prices of a reading are any.

## 9. Runs

| Run | Instance | Distinct states | What it shows |
|---|---|---|---|
| `exit_safety` | 2 positions, 1 sync run, emergency close, no restart, threshold 2, cooldown 2 | 1,867,964 | six invariants and `ClosedRowsFinal` in every interleaving |
| `exit_recovery` | 2 positions and 1 sync run in one process; or 1 position, 2 overlapping sync runs, emergency close, and a process that may end once | 85,843 | `KeepsPromise` (the refinement of `PositionLife`, with its liveness), `DispatchTerminates`, `QueueDrains`, `EmergencyGuardReleased` |
| `exit_resend` | as `exit_safety` | counterexample | finding 1 |
| `entry_stop` | 2 commands, 2 strategies, TTL 1, two signals | 208,130 | `StopIsFinal`, `HeldIsKnown`, `CommandsSettle`, `StopEnds` |
| `entry_duplicates` | 2 commands, 1 strategy | counterexample | finding 2 |
| `entry_lost_at_exit` | 1 command, 1 signal | counterexample | finding 3 |
| `broker_orders` | one entry, one exit, one listing at a time; 1 retry, 2 polls, pages of 2, limit of 1 page, 4 positions ever | 327,696 | `KeepsOrderPromise` (the refinement of `OrderPromise`, with its liveness), `ListsAllHeld`, `ListingsEnd` |
| `broker_keys` | listings only, with the real limits | counterexample | finding 5 |
| `trading_session` | 2 sockets, silence limit of 1 check, backoff to level 1, 2 retries of the ping, 2 strategies, all ages limited to one unit, ticks up to 2 late | 66,790 | `OneChain`, `StaysDown`, `PendingIsNews`, `MarginKept`, `SizedOnFreshData`, `NewestProcessed`, `StartupEnds`, `DeadLinkNoticed`, `Recovers` |
| `candle_reconcile` | periods of 2, offset 1, 3 candles asked for, 2 needed, 2 periods a day, ticks up to 1 old, start at 5, clock to 11 | 31,535 | order of the averages, candle and averages in agreement, the forming averages, the boundary timer, `StaysStable` |
| `candle_boundary` | the same, ticks without delay | counterexample | finding 4 |
| `backtest` | both engines, with and without delay and slippage; 3 parameter sets in batches of 1 and 2; 4 buckets of 2 instants, with and without gaps; 2 prices | 1,116,793 | `TradesNeverOverlap`, `EquityChain`, `EachEntrySettledOnce`, `ResultMeasured`, `CacheTransparent`, `LedgerInOrder`, `BatchTellsTruth`, `BatchEnds` |

Why these bounds are enough for the cases that matter.  Two positions give a
dispatch a list with an element handled and one still waiting, which is where the
list goes stale; the broker, the table and the emergency tasks treat positions
independently otherwise, and the safety properties are proved for any number
(section 11).  Threshold 2 distinguishes the first failure from the
killing one, and cooldown 2 a tick refused from a tick admitted.  Two
synchronisation runs overlap in every way two can; a third only repeats the
conditional, idempotent `markClosed`.  One end of the process puts the restart
after every reachable state of the first life; memory is empty after it, so a
second one starts from stores the first could leave.  Two commands give
a queue with a head and a tail and a command on its way while another is
accepted; two signals give the second call of `stop`.  `exit_recovery` joins two
instances, because liveness checking pays for every state: two positions without
restart or emergency close, and restarts with one position.  Which one is told by
the first state (the process has used up its `MaxEnds` or not), and the action
constraint `WithinScene` keeps a behaviour inside it; what it forbids (a further end,
request or entry) is never a step that fairness asks for.  A restart with two positions is checked for no liveness.

Two sockets are what an old and a new connection living together take, and
`OneChain` shows that they never do.  In `trading_session` silence and backoff are
as short as they can be, since both only count and the proofs of `MarketStream`
hold for any limit.  An age is counted in units of five seconds, the limits of rate
and balance.  A request's limit of ten seconds is given one unit as well: an
answer can be as old as its request allowed and the balance still be within the
cache's time, which is the case that matters, and `SizingIsFresh` is proved for
any limits.  Two strategies have a first share that rounds down and a last that
gets the rest; the balances are one too small for two shares and one large
enough.

In `backtest` four buckets and averages over at most three closes give a cross, a
position held over several candles, and one open at the end; the histories have no
gap, a gap before and inside the period, no tick in it, and too few.  A batch of
two runs its sets in both orders of warm-up length, so that the cache is too short
for the second, or has to be cut.  An equity of 3
at a price of 4 is too little for a lot, so the smallest lot binds.

One retry and two polls have a first and a last attempt.  With pages of
two and a limit of one page, four positions give a listing that ends on its first
page, one whose first page is full and whose second shows the end, and one that is
given up; positions come and go between the two requests, and the exit's own
position is among them.

A period of two instants is the shortest in which a first tick can fall on the
boundary or beside it, the distinction finding 4 turns on.  The clock runs through
three periods after the start and spans three days, so a reconciliation meets
candles of the warm-up and of ticks, an answer with the newest candle
missing, one with a day missing in the middle, at the end, or too short, and a
stop while it waits.  Two candles needed and three asked for distinguish short,
sufficient and cut answers.

Deadlock is checked on the exit side and in the broker runs.  The entry runs switch it off: a
process that has exited, with nothing open at GMO, really stops.  So do the
candle runs: their clock ends at `MaxTime`, and a start may fail;
`trading_session`, where a process that has failed to start or has been stopped
stops; and `backtest`, a script that ends.

## 10. Fairness

Safety is stated over `SafeSpec` and `Spec` without fairness.  Liveness needs:

- *weak fairness of every await's outcome* (`Dispatching`, `EmergencyProceeds`,
  `EmergencyCloses`, `DrainProceeds`, `StopProceeds`): polling is limited to
  twenty attempts, the HTTP client and the database have time limits, so
  each await returns or throws.  Which of the two is never assumed here.
- *weak fairness of timers* (`CompensationBegins`, `DrainTimer`,
  `SyncReads(StartupSync)`): `setInterval` fires again and again.
- *strong fairness of success after repetition* (`CompensationSucceeds`,
  `SyncAsks`, `SyncMarksRow`, `StartupSyncs \/ SessionStarts`): what is tried for
  ever succeeds at some time, i.e. neither GMO nor the database is down for
  ever.  Without it no program could record a position.
- *weak fairness of `ProcessStarts`*: a process that is down is started again,
  by its operator.

- *of the stream*: weak fairness of the checks of the watch, of the close event
  of a socket that is being closed, of the reconnect timer, and of a handshake
  succeeding or failing.  The last is an assumption on the network: the code sets no
  time limit on a handshake.  Strong fairness of reconnecting and of opening: the
  server is not down for ever.  None of pings or of a link dying.

- *of the session* (`SessionSpec`): as of the stream, with weak fairness of the
  awaits of `process` (each has a time limit or is one of the modules above) and
  of `main`'s startup.  `BootStep /\ boot' # "registry"` excludes the ping that
  succeeds: a database that never answers is allowed, and then the process ends.
- *of the backtest*: weak fairness of the script's next step.

- *of the broker access*: weak fairness of the steps of a placing and of a
  listing (`OrderStep`, `ListingStep`): throttle, backoff and poll interval are
  timers, and `fetch` has a time limit of ten seconds.  No outcome is assumed.

No fairness is assumed of ticks, signals, requests, of GMO executing an order,
or of crashes.

## 11. Proofs

Proved by TLAPS for any set of positions and of synchronisation runs, any
threshold, cooldown, number of process ends, commands, TTL, strategies and
signals, any number of callers, retries, polls and pages and any size of page,
any length of period, offset, window and clock, any limits of silence, backoff and
age, any scale of ratios, step and limits of lots, and, in the backtest, any market,
batch, parameters, prices, slippage and delay, from the named assumptions in the
modules (positions are naturals, threshold at least 1, the startup run is one of the
runs, bounds are naturals, a tick is less than a period old when it arrives, prices are
positive, the limits of a lot are multiples of its step).

**ExitSubsystemProofs**

- `TypeCorrect`, one lemma per component's part of `TypeOK`.
- `ClosedRowsStayClosed` (`ClosedRowsFinal`).
- `StoresConsistent`: the inductive invariant `StoreInv`.  `NoPhantomClose` alone
  is not inductive: a synchronisation that has its answer, an emergency task
  past its order and a dispatch past its order all write CLOSED rows on
  the strength of something they saw awaits ago.  So `StoreInv` states what each
  of them may rely on: `SyncSetSound` (after the broker's answer the run holds
  only positions closed for good; this is where *table first, broker second* is
  used), `EmTasksSound`, `DispatchSound`, `QueueSound` (the queue only owes
  writes for closed positions, and only with a price), and `RowsHavePositions`.
- `RowsNeverCloseEarly` (`NoPhantomClose`), `DegradedPathUnused`
  (`NoDegradedEntry`), `EmergencyReportCorrect` (`EmergencyReportTrue`) follow.

- `ConfirmedExitsKept`: a confirmed exit's price is in the row, owed, or being
  written.
- `ShieldKeepsCount`: strengthened by "the position an exit is under way for is
  not in the queue", without which a failure could be counted for a shielded one.
- `KillSwitchStopsExactly`: strengthened by "positions the dispatch has still to
  handle are below the threshold", which carries exactness across one dispatch.
- `ExitSideImplementsLife`: `SafeSpec => Abstract!SafeLife`, the safety part of
  the refinement: one step moves at most one position, along the chain.

**EntryPipelineProofs**

- `PipelineTypeCorrect`.
- `StopFinal`, `HeldPositionsKnown` from `EntryInv`: `NoDrainBehindStop` (from
  the moment `stop` finds no drain running none runs again) and
  `OrdersMatchCommands` (a command that is queued has no order; a working order
  belongs to a command that is sending, dropping or given up).

**BrokerAccessProofs**

- `AccessTypeCorrect`.
- `ListsComplete` (`ListsAllHeld`) and `OverrunOnlyWhenFull` (`OverrunJustified`)
  from `ListInv`: between two requests every position held all the time and not
  below the cursor is in the list, nothing in the list is below the cursor, and
  each page so far has added `PageSize` new positions (`PagingSound`).  The second
  part is what makes a full page disjoint from those before it, and so
  makes the limit of pages a statement about the size of the account.
- `OrdersKeepPromise`: `SafeSpec => Abstract!SafePromise`, the safety part of
  the refinement, from `OrderInv` (nothing is at GMO before the order is answered;
  at most one order is; a call that has seen its execution is right).

**CandleBookProofs**

- `CandleTypeCorrect`.
- `AveragesAscending`, `AveragesFollowCandle`, `WatchdogNeverDies` from one
  inductive invariant, `CandleInv`.  `SmaAscending` alone is not inductive: the
  next candle comes from the forming one, so the invariant says that the
  confirmed candle is older than the forming one, that this is no younger than
  the latest tick, and that before the first tick the confirmed candle has
  closed (`CandleInOrder`; this is where *a tick is less than a period old* is
  used).
- `FormingAveragesInStep`: strengthened by "a tentative value belongs to a
  forming candle".
- `AveragesStayStable` (`StaysStable`, an action property).

**TradingSessionProofs** (first the connection, then the session)

- `StreamTypeCorrect`.
- `ChainIsSingle` (`OneChain`), `AlwaysAWayBack` (`WayBack`), `StoppedStaysDown`
  (`StaysDown`) and `WatchIsOfSocket` (`WatchFollowsSocket`) from `ChainInv`.
  None of them is inductive alone.  What holds them together is the meaning of the
  flags: `intentionalClose` is set exactly while the session is stopped, a
  socket that is not idle is the client's own or is being closed after `stop`, and
  only the first attempt can be on its way while `start` waits.
- `BackoffCountsFailures` (`BackoffCounts`): each wait is one level longer than
  the one before, up to the longest, from `ChainInv` and the meaning of `ended`.
  `WayBack`, `WatchFollowsSocket`, `BackoffCounts` and `OverrunJustified` (above)
  are proved and in no run.
- `SessionRefinesStream`: `SafeSession => SafeSpec` of `MarketStream`, whatever
  `main`, `process` and the shutdown handler do; so `SessionHasOneChain`
  (`OneChain`, `StaysDown`) is inherited.
- `SessionTypeCorrect`.
- `NewestWaits` (`PendingIsNews`): strengthened by "nothing waits when nothing is
  being processed", without which a snapshot could wait for a loop that has ended.
- `SizingIsFresh` (`SizedOnFreshData`, an action property) from `AgesTrue`: a tick is
  as old as it says, and the true age of a balance exceeds the one it is stamped with
  by one request at most.
- `WeightsMakeOne`: the equal weights of `EqualWeightAllocationPolicy`, each 1/n cut
  to ten digits and the last their complement, add up to exactly one, so the check
  in `LotAllocation.of` never refuses them.
- `EntriesKeepMargin` (`MarginKept`): strengthened by "whatever awaits is about some
  strategy" (`WorkAwaits`).  `LotWithinMargin` takes the roundings of
  `decideLot` apart (down to the step, then up to the smallest lot, where the
  property makes its exception), `ShareWithinRatio` the one of a share, and
  `SharesWithinLot` adds the shares of any number of strategies up.

**BacktestProofs**

- `InvariantHolds`: the inductive invariant `IInv`.  Its core is `Sound(book)`: the
  types, one position at most, each waiting order for a position that is there
  (`Orders`), and the chains of equity, of times and of identities through the
  trades.  `TickBook` adds that nothing lies after the last tick and that an order
  with a delay is due after it, `CandleBook` that no order ever waits in the OHLC
  engine.  Each stage of a tick and of a candle has a lemma.
- `NeverTwoPositions` (`TradesNeverOverlap`), `EquityCompounds` (`EquityChain`) and
  `NothingLeftOut` (`EachEntrySettledOnce`) follow.
- `BatchRowsTrue` (`BatchTellsTruth`): strengthened by "the runs are those of the
  sets before the one at hand, and its own too when the answer to its COMMIT was
  lost" (`RowsInv`), by what the batch row can say at each stage, and by the state
  of the open transaction (`TxInv`).
- `SharedDataIsOwnData` (`CacheTransparent`) from `CacheInv`: what is cached is what
  its own query found, from an instant of its own on.
- `NothingFromTheFuture` (`LedgerInOrder`) from `CacheInv` and `LedgerInv`, which says
  for each place in the loops how far the ledger is: in the OHLC engine every candle
  in it is before the one about to be taken, or not after the one being judged; in
  the tick engine every candle is before the forming one.  That the warm-up candles
  come before the first of the period is where `WarmupGap = {}` is used: with a
  candle missing the statement is false (section 12).

**BacktestFigureProofs**

`ResultCalculator.ts` computes its figures in one pass over the trades; the model has
them as folds.  A fold of the community modules is a function chosen over all subsets of
the trades' indices, so it is first unfolded: there is a sequence of states `r[0] .. r[n]`,
from the start to the result, each made by one trade from the one before.  Each
figure is then followed along that sequence:

- `StreaksMeasured`: the count so far is the length of the run that ends here, the
  highest count the longest run among the trades so far.
- `DownsideMeasured`: what is added is never negative, and positive for a loss.
- `SpreadMeasured`: n squared times the variance the code takes from the mean is the
  sum of the squared distances of all pairs (`PairsSum`, pair by pair).
- `FallMeasured`: the running peak is the highest point of the curve so far, the
  running drawdown the deepest fall below it.
- `FallTimeMeasured`: the hardest of them.  `FallsKnown` says what the pass knows
  after k trades: the flag is set just when the curve has been below its present
  high, the two times are those of the trade that made that high *first* (of the first
  trade, as long as the curve never was above zero), and the longest time is that of
  the falls that have recovered.  The fall still open at the end is added after.
- `FiguresTellTruth` (`ResultMeasured`): all figures of all results of a batch, from
  `IInv`, which makes the trades of a run a sequence of trades.

**FoldTheorems** (lemmas about operators of the community modules, used by the two
above)

The library's induction theorems need an operator as parameter, which the provers
cannot instantiate.  What induction is needed for here, they get from the *smallest
counterexample* (`MinimalSet`, `LeastNatural`, from the first-order facts about
well-founded relations): the set of the lengths for which a statement holds is a set
like any other, and if it is not all, there is a least length it lacks.

- `RecursionDefined`, `LeftFoldDefined`: a recursive function over the subsets of a
  finite set exists, so the one `CHOOSE` takes satisfies its equation.
- `PrefixesUnfold`: a left fold over a sequence as its states, trade by trade.
- `SumTakesAny`: a sum is the same whichever element is taken first; from it
  `SumDefined`, `PartialSums` and `SumOfAlmostConstant` (n - 1 equal terms and a
  last one).
- `IsMax`, `IsMin`, `Counting`, `LastOfPrefix`: what the chosen maximum, minimum,
  counting of a set and last element are.

Every invariant and every action property that the runs check is thus also proved.
The refinements are proved in their safety part.  Only model-checked is what needs
fairness, liveness being beyond TLAPS here:
`DeadLinkNoticed`, `Recovers`, `NewestProcessed`, `StartupEnds`, `BatchEnds`,
`KeepsPromise`'s promise that ghosts are recorded, `QueueDrains`,
`EmergencyGuardReleased`, `DispatchTerminates`, `CommandsSettle`, `StopEnds`,
`ListingsEnd`, and `KeepsOrderPromise`'s promise of an answer.

## 12. Disagreements and observations

1. `exit_resend`: a dispatch asks the shield per position while it walks a
   list read before earlier exits were awaited, and `findById`'s status is not
   looked at.  When the queue's retry succeeds in between, a position whose
   exit is confirmed gets a second close order, which
   `action/ExitCompensationQueue.ts:35-36` says the shield prevents.
2. `entry_duplicates`: neither duplicate check sees a command that is queued or
   on its way, so two ticks can open two positions of one strategy, which
   `infrastructure/database/PostgresPositionRepository.ts:148` calls a violation
   of an invariant.
3. `entry_lost_at_exit`: a second call of `TradingSession.stop` returns at once
   while the first still waits for the order on its way; `shutdown` then ends
   the process.  `action/EntryQueue.ts:50-51` says `stop` prevents that loss.
4. `candle_boundary`: `CandleAccumulator.reconcileLastConfirmed` compares the
   start of the official candle's period with the time of the forming candle's
   first tick.  When a period has ended and no tick has followed within fifteen
   seconds, the official candle of the forming candle's own period is accepted;
   the next tick confirms that period a second time and the averages count it
   twice.  `CandleAccumulator.ts:91` and `:103-104` say the forming candle itself
   cannot be accepted, and `CandleAccumulator.test.ts:371` tests it with a first
   tick exactly on the boundary.
5. `broker_keys`: `fetchOpenPositionIds` reports every API error as
   `UNEXPECTED`, rejected keys included (`GmoBrokerAdapter.ts:242-244`), so
   synchronisation never reports a failure and `AuthFailureCircuitBreaker` never
   opens.  `AuthFailureCircuitBreaker.ts:15-16` says it counts the failures of the
   periodic synchronisation and refuses new entries at the threshold.

Seen while modelling, each certain from the code and therefore no run of its own:

- *Look-ahead in the tick backtest.*  `TickEngine.ts:41-51` takes the first
  `warmupCount` candles found since `warmupCount` periods before the test.  When
  some of these are missing (a weekend), candles inside the period fill the place:
  the averages know their closes in advance, and are fed them again when they are
  confirmed, although `src/packages/backtest/README.md:102-104` excludes look-ahead,
  averages included.  `LedgerInOrder` therefore asks for a complete window in TICK
  mode; without that condition TLC finds it violated at the first tick.
  `OhlcEngine` is safe, as it starts after the warm-up it has taken.
- *A failed `register` is not compensated.*  When it throws before its first INSERT
  is applied, the drain logs it and sends `notifyEntryExpired`
  (`EntryQueue.ts:189-204`); the position stays at GMO without a row, outside every
  exit rule.  The design of the flow
  (`src/docs/design/sequence/core/multi-strategy-entry.md:202-214`, `:233`, `:247`,
  taken up by `position-manager/policies.md:891`) closes it at once and says that a
  log line is not enough.
- `register` failing at its second INSERT, or after an applied first one, leaves an
  OPEN row of an entry that `EntryQueue` reports as expired.  The position is safe
  (`HeldIsKnown`: a row that is there stays with it), the notice is wrong, and the
  snapshot that `src/docs/design/er/positions.drawio` has as 1:1, inserted at the
  same time (同時INSERT), is missing.
- With `executionDelayMs` above 0 the exit rules are asked again while an exit
  waits (`TickEngine.ts:83-90`); a second one makes `acceptExitOrder` throw
  (`PendingOrderManager.ts:53-60`) and the whole batch is FAILED.  So does a
  negative equity.
- `OhlcEngine` can open on the candle that closed a position; `TickEngine` cannot.
- `BacktestSnapshotAdapter` discards an upper candle whose boundary candle of the
  driving time frame is missing; `Runner.collectIndicatorSpecs` only ever
  names the driving one.  `WarmupRequirement.ts` is not used.
- `TimescaleDataProvider.ts:108-111`: `findIndex` of -1 is not looked at, and a
  cached array that ends before the period is returned whole.  `CacheTransparent`
  excepts it (the query itself would have found nothing).
- `maxDrawdownPct` is 0 for a curve that never rises above 0, and the greatest favourable
  excursion can be below what was realised, as the fill itself is not tracked.
- A script that is killed leaves its batch RUNNING; so does a failing
  `complete(FAILED)`, and a `create` whose answer is lost.  When the answer to
  `complete(COMPLETED)` is lost and `complete(FAILED)` fails, the script ends in an
  error with its batch COMPLETED, which is then true.
- A `stop` during warm-up is undone by `start`, which connects and starts its timers
  afterwards; harmless, since `stopped` ignores ticks and the process exits.
- With several strategies, a share below 100 units makes `Lot.of` throw and
  `handleSignals` fail; `main.ts` wires one strategy.  The limit of a single lot and
  `LotAllocation`'s sum can never fail with equal weights.
- The balance an entry is sized on may be from before an exit of the same tick: the
  cache's time is five seconds by design.
- `TrailingTakeProfitExitRule.ts:58-60` deletes the peak before the exit has
  succeeded; after a failed exit trailing starts over.

## 13. What is not modelled

- Values on the exit and entry side: prices, profit and loss, and the conditions of
  the rules, each an outcome that may or may not occur (`StrategyRules` has
  the conditions, for the backtest).
- `GmoBrokerAdapter.findOpenPosition`'s choice when the account also holds
  positions the program did not open; `verifyConnectivity` but for its outcome.
- A callback that never returns.  `WatchdogAlive` says that each *outcome* of the
  boundary timer's callback sets it again; with a callback that hangs no timer would
  be set, and the property is content with "running".  The requests inside have time
  limits.  `StartupEnds` likewise counts a connection handshake that is never
  answered (`unanswered`) as the end of the chain: the model reaches that state, and
  what the code does in it is nothing.
- Notices to the browser, except that `notifyEntryExpired` is awaited.
- Of candles: in `CandleBook` prices and the value of an average, ADX, ticks out of
  order, the loop over time frames (one that throws hides the tick from the next), and
  the several requests of one `fetchRecent` as separate steps.
- Of the connection: decoding of messages, and the ticker subscription, which is
  sent on every open and whose refusal is only logged.
- Of the broker access: the lengths of throttle and backoff (and so whether the
  limits on requests are kept), signatures and the parsing of bodies; an `ok`
  answer without a list counts as an empty list.  GMO is taken to honour the
  cursor, so the guard against a cursor that does not advance never fires.
- Of the balance: sharing a fetch in flight, which takes two callers at a time.
- `EntryQueue.drainAndWait` and `reservedMargin`, which the program does not call.
- Of the backtest: `JsonResultStore`, batches one after the other over
  one provider (walk-forward, sweeps), parameter grids and reports, the
  random seed of slippage (any of `Slips`), a period that begins inside a bucket
  (`From` is the number of one, and `CacheTransparent` is checked and proved for
  that), calendars (time filters are sets of
  clock readings), and that two sets of a batch see the same prices.
- A crash on the entry side: between a fill and its row nothing in the code
  recovers, so there is nothing to promise.
- The GET routes, the sockets to the browser, logging, configuration,
  migrations, front end and command line: I/O, formatting or construction.

## 14. Order and outlook

The modules were written where positions and money are at stake first (exit side,
entry side, broker access), then what decides on them (candles, connection, session,
sizing), then the backtest, which shares rules and sizing with them.

What would be worth adding: `findOpenPosition`'s choice on an account with positions
of others, composed with `EntryQueue`; the throttle with a clock; and the exit rules
with their memory inside `ExitDispatcher`, where an exit can fail.
