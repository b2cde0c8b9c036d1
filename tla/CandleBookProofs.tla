-------------------------- MODULE CandleBookProofs --------------------------
(***************************************************************************)
(* What CandleBook guarantees for any length of period, any offset and     *)
(* window, and any clock: its types, and the inductive invariant that      *)
(* keeps candle, averages and forming averages together.                   *)
(***************************************************************************)
EXTENDS CandleBook, FiniteSetTheorems, SequenceTheorems, TLAPS

-----------------------------------------------------------------------------
(* What fetchRecent returns. *)

\* The candles fetchRecent returns are a sequence of published ones that have
\* closed, in the order of time.
LEMMA FetchedCandles ==
  ASSUME TypeOK, NEW candles, Fetched(candles)
  PROVE  /\ candles \in Seq(Nat) /\ Len(candles) \in Nat \ {0}
         /\ Ascending(candles)
         /\ Last(candles) \in Nat /\ Last(candles) + Duration <= now
<1> DEFINE S == Newest(Closed)
<1>1. S \subseteq klines /\ \A k \in S : CloseTime(k) < now
  BY DEF Newest, Closed
<1>2. IsFiniteSet(S)
  BY <1>1, FS_Subset DEF TypeOK
<1>3. Cardinality(S) \in Nat
  BY <1>2, FS_CardinalityType
<1>4. candles \in [1 .. Cardinality(S) -> S] /\ Ascending(candles) /\ candles # <<>>
  BY DEF Fetched, OldestFirst
<1> HIDE DEF S
<1>5. S \subseteq Nat /\ \A k \in S : k + Duration <= now
  <2>1. S \subseteq Nat
    BY <1>1 DEF TypeOK
  <2>2. now \in Nat /\ Duration \in Nat
    BY CandleAssumption DEF TypeOK
  <2>3. ASSUME NEW k \in S PROVE k + Duration <= now
    BY <1>1, <2>1, <2>2 DEF CloseTime
  <2> QED
    BY <2>1, <2>3
<1>a. candles \in [1 .. Cardinality(S) -> Nat]
  BY <1>4, <1>5
<1>b. candles \in Seq(Nat)
  BY <1>a, <1>3, SeqDef
<1>c. DOMAIN candles = 1 .. Cardinality(S) /\ DOMAIN candles = 1 .. Len(candles)
      /\ Len(candles) \in Nat
  BY <1>a, <1>b, LenProperties
<1>6. candles \in Seq(Nat) /\ Len(candles) = Cardinality(S)
  BY <1>3, <1>b, <1>c
<1>7. Len(candles) # 0
  BY <1>4, <1>6, EmptySeq
<1>8. Last(candles) \in S
  BY <1>3, <1>4, <1>6, <1>7 DEF Last
<1>9. Last(candles) \in Nat /\ Last(candles) + Duration <= now
  BY <1>1, <1>5, <1>8 DEF S
<1>10. Len(candles) \in Nat \ {0}
  BY <1>3, <1>6, <1>7
<1> QED
  BY <1>4, <1>6, <1>9, <1>10

\* scheduleNext sets a time.
LEMMA NextFireNat ==
  ASSUME NEW t \in Nat
  PROVE  PeriodStart(t) + Duration + Offset \in Nat
<1>1. t \div Duration \in Nat
  BY CandleAssumption
<1>2. \A q \in Nat : q * Duration \in Nat
  BY CandleAssumption
<1>3. PeriodStart(t) \in Nat
  BY <1>1, <1>2 DEF PeriodStart, Period
<1> QED
  BY <1>3, CandleAssumption

-----------------------------------------------------------------------------
(* Types. *)

\* Replacing the last value of a sequence, were it empty even, gives a sequence.
LEMMA ReplaceLastTyped ==
  ASSUME NEW s \in Seq(Nat), NEW candle \in Nat
  PROVE  [s EXCEPT ![Len(s)] = candle] \in Seq(Nat)
<1>1. s \in [1 .. Len(s) -> Nat] /\ Len(s) \in Nat
  BY LenProperties
<1>2. [s EXCEPT ![Len(s)] = candle] \in [1 .. Len(s) -> Nat]
  BY <1>1
<1> QED
  BY <1>1, <1>2, SeqDef

LEMMA UpdateFormingTyped ==
  ASSUME NEW feed \in Seq(Nat), NEW replace, NEW candle \in Nat,
         UpdateForming(feed, replace, candle)
  PROVE  formingSma' \in Seq(Nat) /\ tentative' = TRUE
<1>1. [feed EXCEPT ![Len(feed)] = candle] \in Seq(Nat)
  BY ReplaceLastTyped
<1>2. Append(feed, candle) \in Seq(Nat)
  BY AppendProperties
<1> QED
  BY <1>1, <1>2 DEF UpdateForming

LEMMA CandleTyped ==
  ASSUME TypeOK, [Next]_vars
  PROVE  TypeOK'
<1> USE DEF TypeOK, Phases
<1> USE CandleAssumption
<1>1. CASE UNCHANGED vars
  BY <1>1 DEF vars, clockVars, bookVars, timerVars, fetchVars
<1>2. CASE TimePasses
  BY <1>2 DEF TimePasses, bookVars, timerVars, fetchVars
<1>3. ASSUME NEW t \in 0 .. MaxTime, TickArrives(t)
      PROVE  TypeOK'
  <2>1. t \in Nat /\ lastTick' = t /\ t <= now /\ UNCHANGED <<now, phase, timerVars, fetchVars>>
    BY <1>3 DEF TickArrives
  <2>2. CASE FirstTick(t)
    BY <2>1, <2>2, UpdateFormingTyped DEF FirstTick, timerVars, fetchVars, NoCandle
  <2>3. CASE TickInPeriod(t)
    BY <2>1, <2>3, UpdateFormingTyped DEF TickInPeriod, timerVars, fetchVars, NoCandle
  <2>4. CASE TickConfirms(t)
    <3>1. forming \in Nat
      BY <2>4 DEF TickConfirms
    <3>2. ResetForming(forming) \in Seq(Nat)
      BY <3>1, ReplaceLastTyped, AppendProperties DEF ResetForming
    <3>3. formingSma' \in Seq(Nat) /\ tentative' = TRUE
      BY <2>1, <2>4, <3>2, UpdateFormingTyped DEF TickConfirms
    <3>4. sma' \in Seq(Nat)
      BY <2>4, <3>1, AppendProperties DEF TickConfirms
    <3> QED
      BY <2>1, <2>4, <3>1, <3>3, <3>4 DEF TickConfirms, timerVars, fetchVars, NoCandle
  <2> QED
    BY <1>3, <2>2, <2>3, <2>4 DEF TickArrives, Accumulates
<1>4. CASE GmoReads
  <2>1. klines' \subseteq 0 .. now
    BY <1>4 DEF GmoReads
  <2>2. IsFiniteSet(0 .. now)
    BY FS_Interval
  <2>3. IsFiniteSet(klines')
    BY <2>1, <2>2, FS_Subset
  <2> QED
    BY <1>4, <2>1, <2>3 DEF GmoReads, clockVars, bookVars, timerVars
<1>5. IsFiniteSet({})
  BY FS_EmptySet
<1>6. CASE WarmsUp
  <2>1. PICK candles : Fetched(candles) /\ confirmed' = Last(candles) /\ Reseed(candles)
    BY <1>6 DEF WarmsUp, SeedHistory
  <2>2. candles \in Seq(Nat) /\ Last(candles) \in Nat
    BY <2>1, FetchedCandles
  <2>3. tentative' \in BOOLEAN
    BY <2>1, Zenon DEF Reseed
  <2> QED
    BY <1>5, <1>6, <2>1, <2>2, <2>3 DEF WarmsUp, SeedHistory, Reseed, NoCandle, timerVars
<1>7. CASE StartFails
  BY <1>5, <1>7 DEF StartFails, bookVars, timerVars
<1>8. CASE Stops
  BY <1>8 DEF Stops, bookVars, fetchVars
<1>9. CASE TimerFires
  BY <1>5, <1>9 DEF TimerFires, clockVars, bookVars
<1>10. CASE ReconcileReturns /\ UNCHANGED bookVars
  BY <1>5, <1>10, NextFireNat
  DEF ReconcileReturns, FireDone, ScheduleNext, clockVars, bookVars
<1>11. CASE Reconciles
  <2>1. PICK candles : Fetched(candles) /\ confirmed' = Last(candles) /\ Reseed(candles)
    BY <1>11 DEF Reconciles
  <2>2. candles \in Seq(Nat) /\ Last(candles) \in Nat
    BY <2>1, FetchedCandles
  <2>3. fireAt' \in Nat /\ timer' \in {"off", "set"}
    BY <1>11, NextFireNat DEF Reconciles, ReconcileReturns, FireDone, ScheduleNext
  <2>4. tentative' \in BOOLEAN
    BY <2>1, Zenon DEF Reseed
  <2> QED
    BY <1>5, <1>11, <2>1, <2>2, <2>3, <2>4
    DEF Reconciles, ReconcileReturns, clockVars, Reseed, NoCandle
<1>12. CASE Connects
  BY <1>12, NextFireNat DEF Connects, ScheduleNext, bookVars, fetchVars
<1> QED
  BY <1>1, <1>2, <1>3, <1>4, <1>6, <1>7, <1>8, <1>9, <1>10, <1>11, <1>12
  DEF Next, FetchFails, ReconcileRefuses

\* TypeOK for every length of period, window and clock; in particular a live
\* session always has a confirmed candle to show.
THEOREM CandleTypeCorrect == Spec => []TypeOK
<1>1. Init => TypeOK
  <2>1. IsFiniteSet({})
    BY FS_EmptySet
  <2>2. Init => tentative \in BOOLEAN
    BY Zenon DEF Init
  <2>3. <<>> \in Seq(Nat)
    BY EmptySeq
  <2> QED
    BY <2>1, <2>2, <2>3, CandleAssumption DEF Init, TypeOK, Phases
<1> QED
  BY <1>1, CandleTyped, PTL DEF Spec

-----------------------------------------------------------------------------
(* Candle and averages. *)

\* What a tick and a reconciliation may rely on.  Before the first tick the
\* confirmed candle has closed, so that no tick that is not too old can be
\* earlier; afterwards it is older than the forming one.
CandleInOrder ==
  /\ forming # NoCandle => confirmed < forming /\ forming <= lastTick
  /\ forming = NoCandle /\ phase \in {"connecting", "live", "stopped"} => confirmed + Duration <= now

\* Nothing is fed to the averages before the warm-up, and no tick before the
\* stream is connected.
SmaSeeded ==
  /\ phase \in {"warming", "connecting", "failed"} => forming = NoCandle
  /\ phase = "warming" => sma = <<>>

\* The timer belongs to a live session or to a reconciliation under way.
TimerInPhase == phase \in {"warming", "connecting", "failed"} => timer = "off"

CandleInv ==
  /\ CandleInOrder /\ SmaSeeded /\ TimerInPhase
  /\ SmaAscending /\ SmaFollowsCandle /\ WatchdogAlive

\* A later candle at the end keeps a sequence in the order of time.
LEMMA AppendAscending ==
  ASSUME NEW s \in Seq(Nat), NEW k \in Nat, Ascending(s), s # <<>> => Last(s) < k
  PROVE  Ascending(Append(s, k)) /\ Last(Append(s, k)) = k /\ Append(s, k) # <<>>
<1> DEFINE t == Append(s, k)
<1>1. /\ Len(s) \in Nat /\ Len(t) = Len(s) + 1 /\ t # <<>>
      /\ \A i \in 1 .. Len(s) : t[i] = s[i]
      /\ t[Len(s) + 1] = k
  BY AppendProperties, LenProperties
<1>2. \A i \in 1 .. Len(s) : s[i] \in Nat
  BY ElementOfSeq
<1>3. \A i \in 1 .. Len(s) : s[i] < k
  <2> SUFFICES ASSUME NEW i \in 1 .. Len(s)
               PROVE  s[i] < k
    OBVIOUS
  <2>1. s # <<>>
    BY EmptySeq
  <2>2. s[Len(s)] < k
    BY <2>1 DEF Last
  <2>3. Len(s) \in Nat /\ Len(s) \in 1 .. Len(s)
    BY <1>1, <2>1
  <2>4. CASE i = Len(s)
    BY <2>2, <2>4
  <2>5. CASE i < Len(s)
    <3>1. s[i] < s[Len(s)]
      BY <2>3, <2>5 DEF Ascending
    <3> QED
      BY <1>2, <2>2, <2>3, <3>1
  <2> QED
    BY <2>3, <2>4, <2>5
<1> HIDE DEF t
<1>4. Ascending(t)
  BY <1>1, <1>3 DEF Ascending
<1>5. Last(t) = k
  BY <1>1 DEF Last
<1> QED
  BY <1>1, <1>4, <1>5 DEF t

LEMMA CandleInvStep ==
  ASSUME TypeOK, CandleInv, [Next]_vars
  PROVE  CandleInv'
<1> USE DEF CandleInv, CandleInOrder, SmaSeeded, TimerInPhase, SmaAscending,
            SmaFollowsCandle, WatchdogAlive
<1> USE CandleAssumption
<1>0. NoCandle \notin Nat
  BY DEF NoCandle
<1>1. CASE UNCHANGED vars
  BY <1>1 DEF vars, clockVars, bookVars, timerVars, fetchVars
<1>2. CASE TimePasses
  BY <1>2 DEF TimePasses, bookVars, timerVars, TypeOK
<1>3. ASSUME NEW t \in 0 .. MaxTime, TickArrives(t)
      PROVE  CandleInv'
  <2>1. /\ t \in Nat /\ t <= now /\ t >= now - Delay /\ t >= lastTick /\ lastTick' = t
        /\ phase = "live" /\ UNCHANGED <<now, phase, timer>>
    BY <1>3 DEF TickArrives, timerVars
  <2>2. CASE FirstTick(t)
    BY <1>0, <2>1, <2>2 DEF FirstTick, TypeOK
  <2>3. CASE TickInPeriod(t)
    BY <1>0, <2>1, <2>3 DEF TickInPeriod, TypeOK
  <2>4. CASE TickConfirms(t)
    <3>1. forming \in Nat /\ confirmed < forming /\ t # forming
      BY <2>4 DEF TickConfirms, TypeOK
    <3>a. lastTick \in Nat /\ forming <= lastTick
      BY <2>4 DEF TickConfirms, TypeOK
    <3>2. forming < t
      BY <2>1, <3>1, <3>a
    <3>3. Ascending(sma') /\ Last(sma') = forming /\ sma' # <<>>
      BY <2>4, <3>1, AppendAscending DEF TickConfirms, TypeOK
    <3> QED
      BY <1>0, <2>1, <2>4, <3>1, <3>2, <3>3 DEF TickConfirms
  <2> QED
    BY <1>3, <2>2, <2>3, <2>4 DEF TickArrives, Accumulates
<1>4. CASE GmoReads
  BY <1>4 DEF GmoReads, clockVars, bookVars, timerVars
<1>5. CASE WarmsUp
  <2>1. PICK candles : Fetched(candles) /\ confirmed' = Last(candles) /\ Reseed(candles)
    BY <1>5 DEF WarmsUp, SeedHistory
  <2>2. /\ candles \in Seq(Nat) /\ Len(candles) # 0 /\ Ascending(candles)
        /\ Last(candles) + Duration <= now
    BY <2>1, FetchedCandles
  <2>3. candles # <<>>
    BY <2>2, EmptySeq
  <2> QED
    BY <1>5, <2>1, <2>2, <2>3 DEF WarmsUp, SeedHistory, Reseed, timerVars
<1>6. CASE StartFails
  BY <1>6 DEF StartFails, bookVars, timerVars
<1>7. CASE Stops
  BY <1>7 DEF Stops, bookVars
<1>8. CASE TimerFires
  BY <1>8 DEF TimerFires, clockVars, bookVars
<1>9. CASE ReconcileReturns /\ UNCHANGED bookVars
  BY <1>9 DEF ReconcileReturns, FireDone, ScheduleNext, clockVars, bookVars
<1>10. CASE Reconciles
  <2>1. PICK candles : /\ Fetched(candles) /\ Accepts(candles)
                       /\ confirmed' = Last(candles) /\ Reseed(candles)
    BY <1>10 DEF Reconciles
  <2>2. /\ candles \in Seq(Nat) /\ Len(candles) # 0 /\ Ascending(candles)
        /\ Last(candles) + Duration <= now
    BY <2>1, FetchedCandles
  <2>3. candles # <<>>
    BY <2>2, EmptySeq
  <2>4. forming # NoCandle => Last(candles) < forming
    BY <2>1 DEF Accepts
  <2>5. timer = "firing" /\ UNCHANGED <<clockVars, forming>>
        /\ (phase = "live" => timer' = "set")
    BY <1>10 DEF Reconciles, ReconcileReturns, FireDone, ScheduleNext, clockVars
  <2> QED
    <3>1. UNCHANGED <<now, lastTick, phase, forming>> /\ phase \in {"live", "stopped"}
      BY <2>5 DEF clockVars, TypeOK, Phases
    <3>2. sma' = candles
      BY <2>1 DEF Reseed
    <3> QED
      BY <2>1, <2>2, <2>3, <2>4, <2>5, <3>1, <3>2
<1>11. CASE Connects
  BY <1>11 DEF Connects, ScheduleNext, bookVars
<1> QED
  BY <1>1, <1>2, <1>3, <1>4, <1>5, <1>6, <1>7, <1>8, <1>9, <1>10, <1>11
  DEF Next, FetchFails, ReconcileRefuses

LEMMA CandleInvHolds == Spec => []CandleInv
<1>1. Init => CandleInv
  <2>1. \A i, j \in 1 .. Len(<<>>) : i < j => <<>>[i] < <<>>[j]
    BY EmptySeq
  <2> QED
    BY <2>1 DEF Init, CandleInv, CandleInOrder, SmaSeeded, TimerInPhase, SmaAscending,
                SmaFollowsCandle, WatchdogAlive, Ascending
<1> QED
  BY <1>1, CandleInvStep, CandleTypeCorrect, PTL DEF Spec

\* The averages stand on candles in the order of time, for any lag of GMO, any
\* lost requests and any ticks between a request and its answer.
THEOREM AveragesAscending == Spec => []SmaAscending
BY CandleInvHolds, PTL DEF CandleInv

\* Refused or applied, a reconciliation leaves candle and averages in agreement.
THEOREM AveragesFollowCandle == Spec => []SmaFollowsCandle
BY CandleInvHolds, PTL DEF CandleInv

\* No error of the callback ends the chain of boundary timers.
THEOREM WatchdogNeverDies == Spec => []WatchdogAlive
BY CandleInvHolds, PTL DEF CandleInv

-----------------------------------------------------------------------------
(* The two calculators, and stability. *)

\* The calculator of the forming candle holds a tentative value only for one.
FormingSmaInv == FormingSmaInStep /\ (tentative => forming # NoCandle)

\* Replacing the last value by itself changes nothing.
LEMMA ReplaceLastSame ==
  ASSUME NEW s \in Seq(Nat), NEW k \in Nat
  PROVE  [Append(s, k) EXCEPT ![Len(Append(s, k))] = k] = Append(s, k)
<1> DEFINE t == Append(s, k)
<1>1. t \in Seq(Nat) /\ Len(t) = Len(s) + 1 /\ t[Len(s) + 1] = k
  BY AppendProperties
<1>2. DOMAIN t = 1 .. Len(t) /\ t \in [1 .. Len(t) -> Nat]
  BY <1>1, LenProperties
<1> QED
  BY <1>1, <1>2

LEMMA FormingSmaInvStep ==
  ASSUME TypeOK, FormingSmaInv, [Next]_vars
  PROVE  FormingSmaInv'
<1> USE DEF FormingSmaInv, FormingSmaInStep
<1>1. CASE UNCHANGED bookVars
  BY <1>1 DEF bookVars
<1>2. ASSUME NEW t \in 0 .. MaxTime, TickArrives(t)
      PROVE  FormingSmaInv'
  <2>1. t \in Nat /\ t # NoCandle
    BY <1>2 DEF TickArrives, NoCandle
  <2>2. CASE FirstTick(t)
    <3>1. formingSma' = Append(sma, t) /\ tentative' = TRUE
      BY <2>2 DEF FirstTick, UpdateForming
    <3> QED
      BY <2>1, <2>2, <3>1 DEF FirstTick
  <2>3. CASE TickInPeriod(t)
    <3>1. forming \in Nat /\ forming # NoCandle /\ UNCHANGED <<forming, sma>>
          /\ UpdateForming(formingSma, tentative, forming)
      BY <2>3 DEF TickInPeriod, TypeOK
    <3>2. CASE tentative
      <4>1. formingSma = Append(sma, forming)
        BY <3>2
      <4>2. formingSma' = formingSma /\ tentative' = TRUE
        BY <3>1, <3>2, <4>1, ReplaceLastSame DEF UpdateForming, TypeOK
      <4> QED
        BY <3>1, <4>1, <4>2
    <3>3. CASE ~tentative
      BY <3>1, <3>3 DEF UpdateForming
    <3> QED
      BY <3>2, <3>3
  <2>4. CASE TickConfirms(t)
    <3>1. forming \in Nat /\ forming' = t /\ sma' = Append(sma, forming)
      BY <2>4 DEF TickConfirms, TypeOK
    <3>2. ResetForming(forming) = sma'
      <4>1. CASE tentative
        <5>1. sma \in Seq(Nat) /\ formingSma = Append(sma, forming)
          BY <3>1, <4>1 DEF TypeOK
        <5>2. [Append(sma, forming) EXCEPT ![Len(Append(sma, forming))] = forming]
                = Append(sma, forming)
          BY <3>1, <5>1, ReplaceLastSame, Zenon
        <5> QED
          BY <3>1, <4>1, <5>1, <5>2 DEF ResetForming
      <4>2. CASE ~tentative
        BY <3>1, <4>2 DEF ResetForming
      <4> QED
        BY <4>1, <4>2
    <3>3. formingSma' = Append(sma', t) /\ tentative' = TRUE
      BY <2>4, <3>2 DEF TickConfirms, UpdateForming
    <3> QED
      BY <2>1, <3>1, <3>3
  <2> QED
    BY <1>2, <2>2, <2>3, <2>4 DEF TickArrives, Accumulates
<1>3. ASSUME NEW candles, Reseed(candles)
      PROVE  FormingSmaInv'
  BY <1>3 DEF Reseed
<1> QED
  BY <1>1, <1>2, <1>3
  DEF Next, TimePasses, GmoReads, WarmsUp, Connects, StartFails, TimerFires, FetchFails,
      Reconciles, ReconcileRefuses, Stops, vars

\* Whatever sequence of ticks, confirmations and reconciliations, the average
\* shown for the forming candle is that of the confirmed ones and this candle.
THEOREM FormingAveragesInStep == Spec => []FormingSmaInStep
<1>1. Init => FormingSmaInv
  BY DEF Init, FormingSmaInv, FormingSmaInStep
<1>2. FormingSmaInv => FormingSmaInStep
  BY DEF FormingSmaInv
<1> QED
  BY <1>1, <1>2, FormingSmaInvStep, CandleTypeCorrect, PTL DEF Spec

LEMMA StaysStableStep ==
  ASSUME TypeOK, CandleInv, [Next]_vars, Len(sma) >= Required
  PROVE  Len(sma') >= Required
<1>1. Len(sma) \in Nat /\ Len(sma) # 0
  BY LenProperties, CandleAssumption DEF TypeOK
<1>2. sma # <<>>
  BY <1>1, EmptySeq
<1>3. phase # "warming"
  BY <1>2 DEF CandleInv, SmaSeeded
<1>4. CASE UNCHANGED sma
  BY <1>4
<1>5. ASSUME NEW t, TickConfirms(t)
      PROVE  Len(sma') >= Required
  <2>1. forming \in Nat /\ sma' = Append(sma, forming)
    BY <1>5 DEF TickConfirms, TypeOK
  <2>2. Len(sma') = Len(sma) + 1
    BY <2>1, AppendProperties DEF TypeOK
  <2> QED
    BY <1>1, <2>2, CandleAssumption
<1>6. CASE Reconciles
  BY <1>6 DEF Reconciles, Accepts, Reseed
<1> QED
  BY <1>3, <1>4, <1>5, <1>6
  DEF Next, TimePasses, TickArrives, Accumulates, FirstTick, TickInPeriod, GmoReads, WarmsUp,
      Connects, StartFails, TimerFires, FetchFails, ReconcileRefuses, Stops, bookVars, vars

\* A short answer of GMO is never applied: averages once stable stay stable.
THEOREM AveragesStayStable == Spec => StaysStable
<1>1. TypeOK /\ CandleInv /\ [Next]_vars => [Len(sma) >= Required => Len(sma') >= Required]_vars
  BY StaysStableStep
<1> QED
  BY <1>1, CandleTypeCorrect, CandleInvHolds, PTL DEF Spec, StaysStable
=============================================================================
