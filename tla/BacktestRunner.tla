--------------------------- MODULE BacktestRunner ---------------------------
(***************************************************************************)
(* One backtest script: BacktestRunner.run over a batch of parameter sets, *)
(* the engine it drives for each of them, the candle cache the sets share  *)
(* (TimescaleDataProvider), and the rows it leaves in the database         *)
(* (PostgresBatchStore, PostgresResultStore).  The program is sequential;  *)
(* what interferes is the data it is given, a query that fails, and the    *)
(* process ending between two steps.                                       *)
(*                                                                         *)
(* The market is chosen as it is read: `have` says which buckets hold      *)
(* ticks, and every reading of a bucket may find any prices.  Two sets     *)
(* therefore need not see the same prices in one bucket; the properties    *)
(* are about each set, and about what the sets share.                      *)
(***************************************************************************)
EXTENDS TickEngine, OhlcEngine

CONSTANTS
  Batches,    \* the batches tried: sequences of parameter sets
  Histories,  \* the sets of buckets that may hold ticks
  From, To,   \* first and last bucket of the period tested
  Prices,     \* bids
  Wicks,      \* how far a candle reaches beyond its open and close
  Gaps,       \* ask - bid of a tick
  Slips,      \* slippage of one fill
  Delays,     \* executionDelayMs
  Modes,      \* the engine modes tried, of "OHLC" and "TICK"
  ChunkRows   \* trades in one INSERT

\* Prices are positive, whatever is added to them is not negative, and a batch
\* is a list of at least one parameter set.
ASSUME RunnerAssumption ==
  /\ Prices \subseteq Nat \ {0}
  /\ ChunkRows \in Nat \ {0}
  /\ Gaps \subseteq Nat /\ Slips \subseteq Nat /\ Wicks \subseteq Nat /\ Delays \subseteq Nat
  /\ From \in Nat /\ To \in Nat /\ Modes \subseteq {"OHLC", "TICK"}
  /\ \A h \in Histories : h \subseteq Int /\ IsFiniteSet(h)
  /\ \A s \in Batches :
       /\ Len(s) \in Nat \ {0} /\ DOMAIN s = 1 .. Len(s)
       /\ \A i \in DOMAIN s : s[i] \in SmaCrossParameters

VARIABLES
  mode, delay, have, batch,  \* what the script was started with
  pc,         \* where the script stands
  at,         \* the parameter set being run
  fetched,    \* the buckets the last fetchCandles returned
  book,       \* the engine's books
  candle, next,  \* OHLC: the candle looked at and the one after it
  todo,       \* OHLC: the positions whose exit rules are still to be asked
  result,     \* the trades the engine returned: their figures are Calculate(Trades)
  cache,      \* TimescaleDataProvider.cache: {} or one [from, buckets]
  tx,         \* the transaction of save: total_trades of the run row, trades written
  runRows, tradeRows,   \* bt_runs, and of each its total_trades and its bt_trades
  batchRow    \* bt_batches: status and completed_runs

config == <<mode, delay, have, batch>>
engine == <<fetched, book, candle, next, todo>>
rows == <<runRows, tradeRows, batchRow>>
vars == <<mode, delay, have, batch, pc, at, fetched, book, candle, next, todo,
          result, cache, tx, runRows, tradeRows, batchRow>>

Sets == 1 .. Len(batch)
P == batch[at]
Warm == WarmupCount(P)

NoTx == [total |-> 0, trades |-> 0]

Init ==
  /\ mode \in Modes /\ delay \in Delays /\ have \in Histories /\ batch \in Batches
  /\ pc = "create" /\ at = 1
  /\ fetched = {} /\ book = NewBook /\ candle = {} /\ next = {} /\ todo = {}
  /\ result = {} /\ cache = {} /\ tx = NoTx
  /\ runRows = {} /\ tradeRows = [i \in Sets |-> NoTx]
  /\ batchRow = [status |-> "none", completed |-> 0]

-----------------------------------------------------------------------------
(* The batch row.                                                          *)

\* A failure here is outside the try: the script ends with no batch, or with one
\* that stays RUNNING when only the answer was lost.
CreateBatch ==
  LET Running == [status |-> "RUNNING", completed |-> 0] IN
  /\ pc = "create"
  /\ \/ pc' = "fetch" /\ batchRow' = Running
     \/ pc' = "failed" /\ batchRow' \in {Running, batchRow}
  /\ UNCHANGED <<config, engine, at, result, cache, tx, runRows, tradeRows>>

Completed(status) == [status |-> status, completed |-> Cardinality(runRows)]

\* complete(COMPLETED) stands inside the try: when it fails, or its answer is
\* lost, the catch makes the batch FAILED.
CompleteBatch ==
  /\ pc = "complete"
  /\ \/ pc' = "close" /\ batchRow' = Completed("COMPLETED")
     \/ pc' = "throw" /\ batchRow' \in {Completed("COMPLETED"), batchRow}
  /\ UNCHANGED <<config, engine, at, result, cache, tx, runRows, tradeRows>>

\* The catch: the batch is FAILED and the error goes on, or the update fails and
\* its error goes on in its place.
FailBatch ==
  /\ pc = "throw"
  /\ pc' = "failed"
  /\ batchRow' \in {Completed("FAILED"), batchRow}
  /\ UNCHANGED <<config, engine, at, result, cache, tx, runRows, tradeRows>>

-----------------------------------------------------------------------------
(* runOne: the rules and the engine are new, the data provider is not.     *)

\* What the query finds from `warm` buckets before the period.
InDatabase(warm) == {b \in have : From - warm <= b /\ b <= To}

\* A cached answer that reaches far enough back is cut at the first bucket
\* wanted; when it holds none (findIndex is -1) it is returned as it is.
FromCache(c, warm) ==
  LET later == {b \in c.buckets : From - warm <= b}
  IN  IF later = {} THEN c.buckets ELSE later

(* A plausible slip: whatever is cached for the period is taken. *)
CacheFilled(warm) == cache # {}

CacheReaches(warm) == \E c \in cache : c.from <= From - warm

Fetched(warm) ==
  IF CacheReaches(warm) THEN FromCache(CHOOSE c \in cache : TRUE, warm)
  ELSE InDatabase(warm)

Earliest(S) == {b \in S : \A c \in S : b <= c}

(* A plausible slip: the warm-up is taken from the end of the array. *)
LastOf(S, n) == {b \in S : Cardinality({c \in S : b < c}) < n}

\* The first n of a set of buckets.
FirstOf(S, n) == {b \in S : Cardinality({c \in S : c < b}) < n}

\* The warm-up closes in the order of the array fetchCandles returned.
LedgersOf(S) ==
  {l \in [1 .. Cardinality(S) -> [bucket : S, close : Prices]] :
     \A i, j \in DOMAIN l : i < j => l[i].bucket < l[j].bucket}

Candles(b) ==
  {c \in [bucket : {b}, open : Prices, close : Prices,
          high : {x + w : x \in Prices, w \in Wicks}, low : {x - w : x \in Prices, w \in Wicks}] :
     \E w \in Wicks :
       /\ c.high = w + (IF c.open > c.close THEN c.open ELSE c.close)
       /\ c.low = (IF c.open > c.close THEN c.close ELSE c.open) - w}

TooFew(S) == IF mode = "OHLC" THEN Cardinality(S) <= Warm ELSE Cardinality(S) < Warm

Fetch ==
  LET got == Fetched(Warm) IN
  /\ pc = "fetch" /\ at \in Sets
  /\ fetched' = got
  /\ cache' = IF CacheReaches(Warm) THEN cache
              ELSE {[from |-> From - Warm, buckets |-> got]}
  /\ todo' = {} /\ next' = {}
  /\ \/ TooFew(got) /\ pc' = "throw" /\ book' = NewBook /\ candle' = {}
     \/ /\ ~TooFew(got)
        /\ \E ledger \in LedgersOf(FirstOf(got, Warm)) :
             book' = [NewBook EXCEPT !.ledger = ledger]
        /\ IF mode = "OHLC"
           THEN \E b \in Earliest(got \ FirstOf(got, Warm)) :
                  \E c \in Candles(b) : candle' = {c}
           ELSE candle' = {}
        /\ pc' = IF mode = "OHLC" THEN "candle" ELSE "tick"
  /\ UNCHANGED <<config, at, result, tx, rows>>

\* The query for the candles fails, or the stream of ticks breaks off.
ReadFails ==
  /\ pc \in {"fetch", "tick"}
  /\ pc' = "throw" /\ book' = NewBook
  /\ UNCHANGED <<config, at, fetched, candle, next, todo, result, cache, tx, rows>>

-----------------------------------------------------------------------------
(* TICK: the loop over the stream.                                         *)

LastBucket == IF book.last = {} THEN From - 1
              ELSE Bucket((CHOOSE t \in book.last : TRUE).at)

BucketsAhead == {b \in have : b > LastBucket /\ From <= b /\ b <= To}

\* A later instant of the same bucket, or any instant of the next that has ticks.
NextTickTimes ==
  {t \in Slots * From .. Slots * To + Slots - 1 :
     /\ \A l \in book.last : t > l.at
     /\ \/ book.last # {} /\ Bucket(t) = LastBucket
        \/ Bucket(t) \in Earliest(BucketsAhead)}

\* The stages of one tick, in the order of the loop.
OnTick ==
  /\ pc = "tick"
  /\ \E t \in NextTickTimes, bid \in Prices, gap \in Gaps :
       LET tick == [bid |-> bid, ask |-> bid + gap, at |-> t] IN
       \E shown \in {Shown(book, P, tick)}, asks \in {Confirmed(book, tick) # {}} :
         \/ /\ asks /\ RulesThrow(shown, P, tick, tick.at + delay)
            /\ pc' = "throw" /\ book' = NewBook
         \/ /\ ~(asks /\ RulesThrow(shown, P, tick, tick.at + delay))
            /\ \E judged \in {IF asks THEN Judged(shown, P, tick, tick.at + delay) ELSE shown},
                  exitSlip, entrySlip \in Slips :
                 \E settled \in {FillExit(judged, tick, exitSlip)} :
                   book' = TrackTick(FillEntry(settled, tick, entrySlip), tick)
            /\ pc' = pc
  /\ UNCHANGED <<config, at, fetched, candle, next, todo, result, cache, tx, rows>>

StreamEnds ==
  /\ pc = "tick" /\ BucketsAhead = {}
  /\ IF book.last = {} THEN book' = book
     ELSE \E slip \in Slips : book' = Settled(book, slip)
  /\ pc' = "closing"
  /\ UNCHANGED <<config, at, fetched, candle, next, todo, result, cache, tx, rows>>

-----------------------------------------------------------------------------
(* OHLC: the loop over the candles.                                        *)

Current == CHOOSE c \in candle : TRUE
Following == CHOOSE c \in next : TRUE

CandlesAhead == {b \in fetched : b > Current.bucket}

TakeNextCandle ==
  /\ pc = "candle"
  /\ \E b \in Earliest(CandlesAhead) : \E c \in Candles(b) : next' = {c}
  /\ book' = TakeCandle(book, P, Current)
  /\ todo' = {pos.id : pos \in book.open}
  /\ pc' = "judge"
  /\ UNCHANGED <<config, at, fetched, candle, result, cache, tx, rows>>

AskExit ==
  /\ pc = "judge"
  /\ \E pos \in book.open :
       /\ pos.id \in todo
       /\ book' = JudgeAtNextOpen(book, P, pos, Current, Following)
       /\ todo' = todo \ {pos.id}
  /\ UNCHANGED <<config, pc, at, fetched, candle, next, result, cache, tx, rows>>

AskEntry ==
  /\ pc = "judge" /\ todo = {}
  /\ \/ /\ CandleThrows(book, P, Current)
        /\ pc' = "throw" /\ book' = NewBook /\ candle' = {} /\ next' = {}
     \/ /\ ~CandleThrows(book, P, Current)
        /\ book' = EnterAtNextOpen(book, P, Current, Following)
        /\ candle' = next /\ next' = {}
        /\ pc' = "candle"
  /\ UNCHANGED <<config, at, fetched, todo, result, cache, tx, rows>>

CandlesEnd ==
  /\ pc = "candle" /\ CandlesAhead = {}
  /\ pc' = "closing"
  /\ UNCHANGED <<config, at, engine, result, cache, tx, rows>>

-----------------------------------------------------------------------------
(* Both: what is open is closed, and the trades are measured.              *)

ForceClose ==
  /\ pc = "closing"
  /\ \E pos \in book.open :
       IF mode = "OHLC" THEN book' = ForceClosedAtClose(book, pos, Current)
       ELSE \E slip \in Slips : book' = ForceClosedAtTick(book, pos, slip)
  /\ UNCHANGED <<config, pc, at, fetched, candle, next, todo, result, cache, tx, rows>>

(* A plausible slip: what is still open is left out of the result. *)
ReturnAtOnce ==
  /\ pc = "closing"
  /\ result' = {book.trades}
  /\ pc' = "begin"
  /\ UNCHANGED <<config, engine, at, cache, tx, rows>>

Return ==
  /\ pc = "closing" /\ book.open = {}
  /\ result' = {book.trades}
  /\ pc' = "begin"
  /\ UNCHANGED <<config, engine, at, cache, tx, rows>>

-----------------------------------------------------------------------------
(* save: one transaction.  A failing query rolls it back and is thrown; when *)
(* it is the COMMIT, its rows may be there all the same.                   *)

Trades == CHOOSE r \in result : TRUE

Rest == Len(Trades) - tx.trades

\* BEGIN and INSERT INTO bt_runs.
InsertRun ==
  /\ pc = "begin"
  /\ tx' = [NoTx EXCEPT !.total = Len(Trades)]
  /\ pc' = "insert"
  /\ UNCHANGED <<config, engine, at, result, cache, rows>>

\* One INSERT of at most ChunkRows trades.
InsertTrades ==
  /\ pc = "insert" /\ Rest > 0
  /\ tx' = [tx EXCEPT !.trades = @ + (IF Rest < ChunkRows THEN Rest ELSE ChunkRows)]
  /\ UNCHANGED <<config, engine, pc, at, result, cache, rows>>

\* What the transaction wrote is there for all to see.
Committed ==
  /\ runRows' = runRows \cup {at}
  /\ tradeRows' = [tradeRows EXCEPT ![at] = tx]

(* A plausible slip: the set that was saved is run once more. *)
CommitRunAgain ==
  /\ pc = "insert" /\ Rest = 0
  /\ Committed
  /\ tx' = NoTx /\ result' = {}
  /\ pc' = "fetch"
  /\ book' = NewBook /\ candle' = {} /\ next' = {} /\ todo' = {} /\ fetched' = {}
  /\ UNCHANGED <<config, at, cache, batchRow>>

\* COMMIT, and the loop goes on to the next set.
CommitRun ==
  /\ pc = "insert" /\ Rest = 0
  /\ Committed
  /\ tx' = NoTx /\ result' = {}
  /\ at' = at + 1
  /\ pc' = IF at < Len(batch) THEN "fetch" ELSE "complete"
  /\ book' = NewBook /\ candle' = {} /\ next' = {} /\ todo' = {} /\ fetched' = {}
  /\ UNCHANGED <<config, cache, batchRow>>

(* A plausible slip: a set that could not be saved is skipped. *)
SaveFailsQuietly ==
  /\ pc \in {"begin", "insert"}
  /\ tx' = NoTx /\ result' = {} /\ at' = at + 1
  /\ pc' = IF at < Len(batch) THEN "fetch" ELSE "complete"
  /\ UNCHANGED <<config, engine, cache, rows>>

SaveFails ==
  /\ pc \in {"begin", "insert"}
  /\ \/ UNCHANGED <<runRows, tradeRows>>
     \/ pc = "insert" /\ Rest = 0 /\ Committed
  /\ tx' = NoTx /\ pc' = "throw" /\ result' = {}
  /\ UNCHANGED <<config, engine, at, cache, batchRow>>

-----------------------------------------------------------------------------
(* The script ends, or is ended.                                           *)

\* closeBacktestResources in the finally: what fails there is only logged.
CloseResources ==
  /\ pc = "close"
  /\ pc' = "done"
  /\ UNCHANGED <<config, engine, at, result, cache, tx, rows>>

\* The database drops the open transaction; nobody touches the batch any more.
Crash ==
  /\ pc \notin {"done", "failed", "gone"}
  /\ pc' = "gone"
  /\ tx' = NoTx /\ result' = {} /\ cache' = {}
  /\ book' = NewBook /\ candle' = {} /\ next' = {} /\ todo' = {} /\ fetched' = {}
  /\ UNCHANGED <<config, at, rows>>

Engine ==
  \/ OnTick \/ StreamEnds
  \/ TakeNextCandle \/ AskExit \/ AskEntry \/ CandlesEnd
  \/ ForceClose \/ Return

Program ==
  \/ CreateBatch \/ Fetch \/ ReadFails \/ Engine
  \/ InsertRun \/ InsertTrades \/ CommitRun \/ SaveFails
  \/ CompleteBatch \/ FailBatch \/ CloseResources

Next == Program \/ Crash

\* The script runs until it ends: every await is answered in the end.
Spec == Init /\ [][Next]_vars /\ WF_vars(Program)

-----------------------------------------------------------------------------
(* Properties.                                                             *)

InEngine == pc \in {"tick", "candle", "judge", "closing"}

\* The buckets of the warm-up window that hold no tick.
WarmupGap == {b \in From - Warm .. From - 1 : b \notin have}

\* The instant the program has reached in the data.
Reached ==
  IF mode = "OHLC" THEN CloseTime(Current.bucket)
  ELSE IF book.last = {} THEN Slots * From ELSE (CHOOSE t \in book.last : TRUE).at

\* The averages are taken over closes in the order of time, none of them of a
\* candle that is still open at the instant looked at: the results would be
\* drawn from the future.  (TickEngine.run, with a complete warm-up window.)
LedgerInOrder ==
  InEngine /\ (mode = "OHLC" \/ WarmupGap = {}) =>
    /\ \A i, j \in DOMAIN book.ledger : i < j => book.ledger[i].bucket < book.ledger[j].bucket
    /\ \A i \in DOMAIN book.ledger : CloseTime(book.ledger[i].bucket) <= Reached

\* One position at a time: a trade begins when the one before it has ended, and
\* no two positions are open together.
TradesNeverOverlap ==
  /\ \A i, j \in DOMAIN book.trades : i < j => book.trades[i].exitAt <= book.trades[j].entryAt
  /\ \A i \in DOMAIN book.trades, pos \in book.open : book.trades[i].exitAt <= pos.at
  /\ \A x, y \in book.open : x = y

\* The equity compounds from trade to trade: each is sized on what the one
\* before it left, and nothing else moves the equity.
EquityChain ==
  LET before(i) == IF i = 1 THEN Initial ELSE book.trades[i - 1].equityAfter IN
  /\ \A i \in DOMAIN book.trades :
       LET t == book.trades[i] IN t.capital = before(i) /\ t.equityAfter = t.capital + t.pnl * t.lot
  /\ book.equity = before(Len(book.trades) + 1)
  /\ \A pos \in book.open : pos.capital = book.equity

\* Every position that was opened is in the result once, in the order of opening.
EachEntrySettledOnce ==
  pc = "begin" =>
    /\ book.open = {} /\ Len(Trades) = book.opened
    /\ \A i \in DOMAIN Trades : Trades[i].id = i

\* The figures of the result are those of its trades, by their definitions.
ResultMeasured ==
  pc = "begin" =>
    LET figures == Calculate(Trades) IN
    /\ figures.maxDD = DeepestFall(Trades)
    /\ figures.maxDuration = LongestFall(Trades)
    /\ figures.maxWins = LongestRun(Trades, LAMBDA t : t.pnl > 0)
    /\ figures.maxLosses = LongestRun(Trades, LAMBDA t : t.pnl <= 0)
    /\ figures.around = SquaredDistances(Trades)
    /\ figures.downside <=> \E i \in DOMAIN Trades : Trades[i].pnl < 0

\* Sharing the data between the sets changes nothing: a set is given what the
\* query of its own would have found, unless that is nothing at all.
CacheTransparent ==
  pc \in {"tick", "candle"} /\ InDatabase(Warm) # {} => fetched = InDatabase(Warm)

\* What the rows say is so: COMPLETED when each set has its run, completed_runs
\* counts the runs there are, and a run has as many trades as its own row says.
BatchTellsTruth ==
  /\ batchRow.status = "COMPLETED" => runRows = Sets /\ batchRow.completed = Len(batch)
  /\ batchRow.status \in {"COMPLETED", "FAILED"} => batchRow.completed = Cardinality(runRows)
  /\ batchRow.status = "none" => runRows = {}
  /\ \A i \in Sets : tradeRows[i].trades = tradeRows[i].total

\* The script ends by itself, and then says how the batch went unless the
\* database refused that very update.
BatchEnds == <>(pc \in {"done", "failed", "gone"})
=============================================================================
