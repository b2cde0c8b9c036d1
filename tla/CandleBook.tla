----------------------------- MODULE CandleBook -----------------------------
(***************************************************************************)
(* One time frame of TimeFrameBook: its candles (CandleAccumulator), its   *)
(* averages (IndicatorLedger), and what BoundaryScheduler and              *)
(* BarReconciler do to both with the candles GMO publishes, which          *)
(* GmoCandleHistoryAdapter reads some awaits earlier.                      *)
(*                                                                         *)
(* A candle is its openTime: the first millisecond of its period if GMO    *)
(* published it, the time of its first tick if the program built it.       *)
(* Prices are left out.  An average is the sequence of the candles added   *)
(* to its calculator; short and long one are fed alike and told apart by   *)
(* their window only, so there is one sequence for both.                   *)
(***************************************************************************)
EXTENDS Integers, Sequences, FiniteSets

CONSTANTS
  Duration,      \* durationMs of the time frame
  Offset,        \* RECONCILE_OFFSET_MS
  Bars,          \* RECONCILE_BARS, the number start asks for as well
  Required,      \* requiredBarsForStable: the longer window
  PeriodsPerDay, \* periods one klines request returns
  Delay,         \* bound: how old a tick is when it arrives
  StartTime,     \* bound: when the program is started
  MaxTime        \* bound: when the clock stops

ASSUME CandleAssumption ==
  /\ Duration \in Nat \ {0} /\ Offset \in Nat
  /\ Bars \in Nat /\ Required \in Nat \ {0} /\ PeriodsPerDay \in Nat \ {0}
  /\ Delay \in Nat /\ Delay < Duration
  /\ StartTime \in Nat /\ MaxTime \in Nat

VARIABLES
  now,        \* the wall clock
  lastTick,   \* the timestamp of the latest tick
  phase,      \* TradingSession: a member of Phases
  forming,    \* CandleAccumulator._forming, or NoCandle
  confirmed,  \* CandleAccumulator._lastConfirmed, or NoCandle
  sma,        \* what the calculators _confirmed have been fed
  formingSma, \* what the calculators _forming have been fed
  tentative,  \* SmaTracker._hasFormingValue
  timer,      \* BoundaryScheduler: "off", "set", or "firing" while it awaits
  fireAt,     \* when the timer is due
  fetch,      \* fetchRecent: "none", "asked", or "read" at GMO
  klines      \* the openTimes GMO has read for it

clockVars == <<now, lastTick, phase>>
bookVars == <<forming, confirmed, sma, formingSma, tentative>>
timerVars == <<timer, fireAt>>
fetchVars == <<fetch, klines>>
vars == <<clockVars, bookVars, timerVars, fetchVars>>

NoCandle == -1
Phases == {"warming", "connecting", "live", "failed", "stopped"}

TypeOK ==
  /\ now \in Nat /\ lastTick \in Nat /\ lastTick <= now
  /\ phase \in Phases
  /\ forming \in Nat \cup {NoCandle}
  /\ confirmed \in Nat \cup {NoCandle}
  /\ phase \in {"connecting", "live", "stopped"} => confirmed # NoCandle
  /\ sma \in Seq(Nat) /\ formingSma \in Seq(Nat)
  /\ tentative \in BOOLEAN
  /\ timer \in {"off", "set", "firing"}
  /\ fireAt \in Nat
  /\ fetch \in {"none", "asked", "read"}
  /\ klines \subseteq Nat /\ IsFiniteSet(klines)

Init ==
  /\ now = StartTime /\ lastTick = 0
  /\ phase = "warming"
  /\ forming = NoCandle /\ confirmed = NoCandle
  /\ sma = <<>> /\ formingSma = <<>> /\ tentative = FALSE
  /\ timer = "off" /\ fireAt = 0
  /\ fetch = "asked" /\ klines = {}

Period(t) == t \div Duration
PeriodStart(t) == Period(t) * Duration
Day(t) == Period(t) \div PeriodsPerDay
Last(s) == s[Len(s)]

Ascending(s) == \A i, j \in 1 .. Len(s) : i < j => s[i] < s[j]

-----------------------------------------------------------------------------
(* IndicatorLedger. *)

\* onCandleUpdated: the forming candle is the last, replaceable value.
UpdateForming(feed, replace, candle) ==
  /\ tentative' = TRUE
  /\ formingSma' =
       IF replace THEN [feed EXCEPT ![Len(feed)] = candle] ELSE Append(feed, candle)

\* resetForming: the confirmed candle takes the place of the tentative value.
ResetForming(candle) ==
  IF tentative THEN [formingSma EXCEPT ![Len(formingSma)] = candle]
               ELSE Append(formingSma, candle)

(* A plausible slip: the new calculators are taken to hold a tentative value. *)
ReseedKeepsFlag(candles) ==
  /\ sma' = candles /\ formingSma' = candles
  /\ UNCHANGED tentative

\* reseed, and warmUp, which finds empty calculators.
Reseed(candles) ==
  /\ sma' = candles /\ formingSma' = candles
  /\ tentative' = FALSE

-----------------------------------------------------------------------------
(* CandleAccumulator and TimeFrameBook.onTick. *)

FirstTick(t) ==
  /\ forming = NoCandle
  /\ forming' = t
  /\ UpdateForming(formingSma, tentative, t)
  /\ UNCHANGED <<confirmed, sma>>

TickInPeriod(t) ==
  /\ forming # NoCandle /\ Period(t) = Period(forming)
  /\ UpdateForming(formingSma, tentative, forming)
  /\ UNCHANGED <<forming, confirmed, sma>>

\* A tick of another period confirms the forming candle and opens the next.
TickConfirms(t) ==
  /\ forming # NoCandle /\ Period(t) # Period(forming)
  /\ confirmed' = forming
  /\ forming' = t
  /\ sma' = Append(sma, forming)
  /\ UpdateForming(ResetForming(forming), FALSE, t)

\* CandleAccumulator.accumulate, and the ledger told of its event.
Accumulates(t) == FirstTick(t) \/ TickInPeriod(t) \/ TickConfirms(t)

\* The socket delivers ticks in the order of their timestamps.  Whether the
\* averages are stable decides only whether the listener gets a snapshot.
TickArrives(t) ==
  /\ phase = "live"
  /\ t \in Nat /\ t <= now /\ t >= now - Delay /\ t >= lastTick
  /\ lastTick' = t
  /\ Accumulates(t)
  /\ UNCHANGED <<now, phase, timerVars, fetchVars>>

-----------------------------------------------------------------------------
(* GMO and GmoCandleHistoryAdapter.fetchRecent. *)

\* GMO returns the candle in progress as well, and the latest may not be there
\* yet.  The requests of some days fail and are only logged.
GmoReads ==
  /\ fetch = "asked"
  /\ \E newest \in {Period(now), Period(now) - 1} :
       \E lost \in SUBSET {Day(k) : k \in 0 .. now} :
         klines' = {k \in 0 .. now : /\ k = PeriodStart(k) /\ Period(k) <= newest
                                     /\ Day(k) \notin lost}
  /\ fetch' = "read"
  /\ UNCHANGED <<clockVars, bookVars, timerVars>>

\* toConfirmedCandle: the last millisecond of the period.
CloseTime(k) == k + Duration - 1

\* What has closed by the time the last answer is in.
Closed == {k \in klines : CloseTime(k) < now}

\* sort, slice, reverse: the newest Bars, oldest first.
Newest(set) == {k \in set : Cardinality({m \in set : m > k}) < Bars}

OldestFirst(set) == {s \in [1 .. Cardinality(set) -> set] : Ascending(s)}

\* fetchRecent returns candles, and throws if there are none.
Fetched(candles) ==
  /\ fetch = "read"
  /\ candles \in OldestFirst(Newest(Closed))
  /\ candles # <<>>

-----------------------------------------------------------------------------
(* BoundaryScheduler. *)

\* scheduleNext: the next end of a period, and the offset.
ScheduleNext ==
  /\ timer' = "set"
  /\ fireAt' = PeriodStart(now) + Duration + Offset

(* A plausible slip: an error of the callback is rethrown before the timer is set. *)
FireFailsForGood == timer' = "off" /\ UNCHANGED fireAt

\* The finally of fire; nothing is scheduled after stop.
FireDone ==
  IF phase = "stopped" THEN timer' = "off" /\ UNCHANGED fireAt ELSE ScheduleNext

TimerFires ==
  /\ timer = "set" /\ now >= fireAt
  /\ timer' = "firing" /\ UNCHANGED fireAt
  /\ fetch' = "asked" /\ klines' = {}
  /\ UNCHANGED <<clockVars, bookVars>>

-----------------------------------------------------------------------------
(* BarReconciler.reconcile and TimeFrameBook.reconcile. *)

ReconcileReturns ==
  /\ timer = "firing"
  /\ fetch' = "none" /\ klines' = {}
  /\ FireDone
  /\ UNCHANGED clockVars

\* The candles could not be fetched: a warning, and the book stays as it is.
FetchFails ==
  /\ fetch # "none"
  /\ ReconcileReturns
  /\ UNCHANGED bookVars

(* A plausible slip: a candle that is still forming is accepted. *)
AcceptsAny(candles) == Len(candles) >= Required

(* A plausible slip: the number of candles is not looked at. *)
AcceptsFew(candles) == forming # NoCandle => Last(candles) < forming

\* Enough candles, and the last one begins before the forming one does.
Accepts(candles) ==
  /\ Len(candles) >= Required
  /\ forming # NoCandle => Last(candles) < forming

(* A plausible slip: the candle is replaced before anything is looked at. *)
ReconcilesCandleFirst ==
  /\ ReconcileReturns
  /\ \E candles \in OldestFirst(Newest(Closed)) :
       /\ Fetched(candles)
       /\ confirmed' = Last(candles)
       /\ IF Accepts(candles) THEN Reseed(candles) ELSE UNCHANGED <<sma, formingSma, tentative>>
  /\ UNCHANGED forming

Reconciles ==
  /\ ReconcileReturns
  /\ \E candles \in OldestFirst(Newest(Closed)) :
       /\ Fetched(candles) /\ Accepts(candles)
       /\ confirmed' = Last(candles)
       /\ Reseed(candles)
  /\ UNCHANGED forming

\* Too few candles, or the guard of reconcileLastConfirmed throws.
ReconcileRefuses ==
  /\ ReconcileReturns
  /\ \E candles \in OldestFirst(Newest(Closed)) : Fetched(candles) /\ ~Accepts(candles)
  /\ UNCHANGED bookVars

-----------------------------------------------------------------------------
(* TradingSession.start and stop. *)

\* The newest candle is taken for the last confirmed one.
SeedHistory(candles) == confirmed' = Last(candles)

\* However few candles there are, the session starts with them.
WarmsUp ==
  /\ phase = "warming"
  /\ \E candles \in OldestFirst(Newest(Closed)) :
       /\ Fetched(candles)
       /\ SeedHistory(candles)
       /\ Reseed(candles)
  /\ phase' = "connecting"
  /\ fetch' = "none" /\ klines' = {}
  /\ UNCHANGED <<now, lastTick, forming, timerVars>>

\* The stream is connected; the watchdog is started last.
Connects ==
  /\ phase = "connecting"
  /\ phase' = "live"
  /\ ScheduleNext
  /\ UNCHANGED <<now, lastTick, bookVars, fetchVars>>

StartFails ==
  /\ phase \in {"warming", "connecting"}
  /\ phase' = "failed"
  /\ fetch' = "none" /\ klines' = {}
  /\ UNCHANGED <<now, lastTick, bookVars, timerVars>>

\* A timer that is set is cleared; a reconciliation under way goes on.
Stops ==
  /\ phase = "live"
  /\ phase' = "stopped"
  /\ timer' = IF timer = "set" THEN "off" ELSE timer
  /\ UNCHANGED <<now, lastTick, fireAt, bookVars, fetchVars>>

TimePasses ==
  /\ now < MaxTime
  /\ now' = now + 1
  /\ UNCHANGED <<lastTick, phase, bookVars, timerVars, fetchVars>>

Next ==
  \/ TimePasses
  \/ \E t \in 0 .. MaxTime : TickArrives(t)
  \/ GmoReads \/ WarmsUp \/ Connects \/ StartFails
  \/ TimerFires \/ FetchFails \/ Reconciles \/ ReconcileRefuses
  \/ Stops

Spec == Init /\ [][Next]_vars

-----------------------------------------------------------------------------
(* Properties. *)

\* What TimeFrameBook calls an invariant of the domain: the averages stand on
\* candles in the order of time, although official ones, whose openTime is the
\* start of the period, replace candles opened by a tick, and ticks go on
\* arriving between the request and the answer.
SmaAscending == Ascending(sma)

\* "The candle is the truth, the averages depend on it": the newest candle in
\* the averages is the one shown as the last confirmed, whatever was refused.
SmaFollowsCandle == sma # <<>> => Last(sma) = confirmed

\* The two calculators never drift apart: the one for the forming candle holds
\* the confirmed candles and at most one tentative value, that of this candle.
FormingSmaInStep ==
  formingSma = IF tentative THEN Append(sma, forming) ELSE sma

\* The watchdog outlives every error: while the session is live, the timer is
\* set or its callback is running.
WatchdogAlive == phase = "live" => timer # "off"

\* Averages that are stable stay so: a short answer of GMO is never applied.
StaysStable == [][Len(sma) >= Required => Len(sma') >= Required]_vars

\* What reconcileLastConfirmed says of its guard: the confirmed candle is of an
\* earlier period than the forming one.
ConfirmedBeforeForming ==
  forming # NoCandle => Period(confirmed) < Period(forming)
=============================================================================
