------------------------ MODULE BacktestFigureProofs ------------------------
(***************************************************************************)
(* The figures of a result are those of its trades.  Each pass over the    *)
(* trades is a fold: what its variables hold after each trade is found     *)
(* first, then what that says of the trades so far, by counting up; the    *)
(* reference definitions of BacktestMetrics follow at the last trade.      *)
(***************************************************************************)
EXTENDS BacktestProofs, FoldTheorems

-----------------------------------------------------------------------------
(* The figures: each pass over the trades, step by step.                   *)

\* calcStability: the runs of wins and of losses.
StreakStep(a, t) ==
  LET wins == IF t.pnl > 0 THEN a.wins + 1 ELSE 0
      losses == IF t.pnl > 0 THEN 0 ELSE a.losses + 1
  IN  [wins |-> wins, losses |-> losses,
       maxWins |-> Larger(a.maxWins, wins), maxLosses |-> Larger(a.maxLosses, losses)]

StreakStart == [wins |-> 0, losses |-> 0, maxWins |-> 0, maxLosses |-> 0]

Streak == [wins : Int, losses : Int, maxWins : Int, maxLosses : Int]

StreakFold(h, trades) ==
  h = [s \in SUBSET DOMAIN trades |->
         IF s = {} THEN StreakStart ELSE StreakStep(h[s \ {Max(s)}], trades[Max(s)])]

\* The values the runs take from trade to trade.
LEMMA StreaksUnfold ==
  ASSUME NEW trades \in Seq(Trade)
  PROVE  \E r : /\ r[0] = StreakStart
                /\ \A k \in 1 .. Len(trades) : r[k] = StreakStep(r[k - 1], trades[k])
                /\ \A k \in 0 .. Len(trades) : r[k] \in Streak
                /\ Streaks(trades) = r[Len(trades)]
<1> DEFINE n == Len(trades)
           A == Streak
           base == StreakStart
           st == [p \in Trade \X Streak |-> StreakStep(p[2], p[1])]
           h == CHOOSE g : StreakFold(g, trades)
<1>1. n \in Nat /\ DOMAIN trades = 1 .. n /\ \A i \in 1 .. n : trades[i] \in Trade
  BY LenProperties
<1>2. base \in A /\ \A a \in A, t \in Trade : StreakStep(a, t) \in A
  <2>1. base \in A
    BY DEF StreakStart, Streak
  <2>2. ASSUME NEW a \in A, NEW t \in Trade PROVE StreakStep(a, t) \in A
    <3>1. a.wins \in Int /\ a.losses \in Int /\ a.maxWins \in Int /\ a.maxLosses \in Int
      BY DEF Streak
    <3> QED
      BY <3>1 DEF StreakStep, Streak, Larger
  <2> QED
    BY <2>1, <2>2
<1>3. st \in [Trade \X A -> A]
  BY <1>2
<1>4. \A a \in A, t \in Trade : st[<<t, a>>] = StreakStep(a, t)
  OBVIOUS
<1> HIDE DEF st, h, A, base
<1>5. PICK g : Folds(g, trades, st, base) /\ Within(g, SUBSET DOMAIN trades, A)
  BY <1>2, <1>3, LeftFoldDefined
<1>6. \A s \in SUBSET DOMAIN trades : s # {} =>
        st[<<trades[Max(s)], g[s \ {Max(s)}]>>] = StreakStep(g[s \ {Max(s)}], trades[Max(s)])
  <2> TAKE s \in SUBSET DOMAIN trades
  <2>1. SUFFICES ASSUME s # {}
        PROVE st[<<trades[Max(s)], g[s \ {Max(s)}]>>] = StreakStep(g[s \ {Max(s)}], trades[Max(s)])
    OBVIOUS
  <2>2. Max(s) \in s
    BY <1>1, <2>1, MaxOfSome
  <2>3. trades[Max(s)] \in Trade /\ g[s \ {Max(s)}] \in A
    BY <1>1, <1>5, <2>2 DEF Within
  <2> QED
    BY <1>4, <2>3
<1>7. StreakFold(h, trades)
  <2>1. StreakFold(g, trades)
    BY <1>5, <1>6, Zenon DEF StreakFold, Folds, base
  <2> QED
    BY <2>1 DEF h
<1>8. Streaks(trades) = h[DOMAIN trades]
  BY DEF Streaks, StreakStep, StreakStart, FoldLeft, MapThenFoldSet, StreakFold, h
<1>9. h[{}] = base
  BY <1>7 DEF StreakFold, base
<1>10. \A k \in 1 .. n : h[1 .. k - 1] \in A => h[1 .. k] = st[<<trades[k], h[1 .. k - 1]>>]
  <2> TAKE k \in 1 .. n
  <2>1. Max(1 .. k) = k /\ (1 .. k) \ {k} = 1 .. k - 1 /\ 1 .. k # {}
    BY LastOfPrefix
  <2>2. h[1 .. k] = StreakStep(h[(1 .. k) \ {k}], trades[k])
    <3> DEFINE s == 1 .. k
    <3>1. Max(s) = k /\ s # {} /\ s \in SUBSET DOMAIN trades
      BY <1>1, <2>1
    <3> HIDE DEF s
    <3>2. h[s] = StreakStep(h[s \ {k}], trades[k])
      BY <1>7, <3>1 DEF StreakFold
    <3> QED
      BY <3>2 DEF s
  <2> QED
    BY <1>1, <1>4, <2>1, <2>2
<1>11. Steps(h, trades, st, base, A)
  BY <1>9, <1>10 DEF Steps
<1>12. PICK r : Passes(r, h, trades, st, base, A)
  BY <1>2, <1>3, <1>11, PrefixesUnfold
<1>13. \A k \in 1 .. n : r[k] = StreakStep(r[k - 1], trades[k])
  <2> TAKE k \in 1 .. n
  <2>1. k - 1 \in 0 .. n /\ trades[k] \in Trade
    BY <1>1
  <2> QED
    BY <1>4, <1>12, <2>1 DEF Passes
<1> QED
  BY <1>8, <1>12, <1>13 DEF base, A, Passes

\* The curve of the summed pnl.
SumStep(a, t) == a + t.pnl

Summed(trades) == FoldLeft(LAMBDA a, t : a + t.pnl, 0, trades)

SumFold(h, trades) ==
  h = [s \in SUBSET DOMAIN trades |->
         IF s = {} THEN 0 ELSE SumStep(h[s \ {Max(s)}], trades[Max(s)])]

\* The values the curve take from trade to trade.
LEMMA SumUnfold ==
  ASSUME NEW trades \in Seq(Trade)
  PROVE  \E r : /\ r[0] = 0
                /\ \A k \in 1 .. Len(trades) : r[k] = SumStep(r[k - 1], trades[k])
                /\ \A k \in 0 .. Len(trades) : r[k] \in Int
                /\ Summed(trades) = r[Len(trades)]
<1> DEFINE n == Len(trades)
           A == Int
           base == 0
           st == [p \in Trade \X Int |-> SumStep(p[2], p[1])]
           h == CHOOSE g : SumFold(g, trades)
<1>1. n \in Nat /\ DOMAIN trades = 1 .. n /\ \A i \in 1 .. n : trades[i] \in Trade
  BY LenProperties
<1>2. base \in A /\ \A a \in A, t \in Trade : SumStep(a, t) \in A
  BY DEF SumStep, Trade
<1>3. st \in [Trade \X A -> A]
  BY <1>2
<1>4. \A a \in A, t \in Trade : st[<<t, a>>] = SumStep(a, t)
  OBVIOUS
<1> HIDE DEF st, h, A, base
<1>5. PICK g : Folds(g, trades, st, base) /\ Within(g, SUBSET DOMAIN trades, A)
  BY <1>2, <1>3, LeftFoldDefined
<1>6. \A s \in SUBSET DOMAIN trades : s # {} =>
        st[<<trades[Max(s)], g[s \ {Max(s)}]>>] = SumStep(g[s \ {Max(s)}], trades[Max(s)])
  <2> TAKE s \in SUBSET DOMAIN trades
  <2>1. SUFFICES ASSUME s # {}
        PROVE st[<<trades[Max(s)], g[s \ {Max(s)}]>>] = SumStep(g[s \ {Max(s)}], trades[Max(s)])
    OBVIOUS
  <2>2. Max(s) \in s
    BY <1>1, <2>1, MaxOfSome
  <2>3. trades[Max(s)] \in Trade /\ g[s \ {Max(s)}] \in A
    BY <1>1, <1>5, <2>2 DEF Within
  <2> QED
    BY <1>4, <2>3
<1>7. SumFold(h, trades)
  <2>1. SumFold(g, trades)
    BY <1>5, <1>6, Zenon DEF SumFold, Folds, base
  <2> QED
    BY <2>1 DEF h
<1>8. Summed(trades) = h[DOMAIN trades]
  BY DEF Summed, SumStep, FoldLeft, MapThenFoldSet, SumFold, h
<1>9. h[{}] = base
  BY <1>7 DEF SumFold, base
<1>10. \A k \in 1 .. n : h[1 .. k - 1] \in A => h[1 .. k] = st[<<trades[k], h[1 .. k - 1]>>]
  <2> TAKE k \in 1 .. n
  <2>1. Max(1 .. k) = k /\ (1 .. k) \ {k} = 1 .. k - 1 /\ 1 .. k # {}
    BY LastOfPrefix
  <2>2. h[1 .. k] = SumStep(h[(1 .. k) \ {k}], trades[k])
    <3> DEFINE s == 1 .. k
    <3>1. Max(s) = k /\ s # {} /\ s \in SUBSET DOMAIN trades
      BY <1>1, <2>1
    <3> HIDE DEF s
    <3>2. h[s] = SumStep(h[s \ {k}], trades[k])
      BY <1>7, <3>1 DEF SumFold
    <3> QED
      BY <3>2 DEF s
  <2> QED
    BY <1>1, <1>4, <2>1, <2>2
<1>11. Steps(h, trades, st, base, A)
  BY <1>9, <1>10 DEF Steps
<1>12. PICK r : Passes(r, h, trades, st, base, A)
  BY <1>2, <1>3, <1>11, PrefixesUnfold
<1>13. \A k \in 1 .. n : r[k] = SumStep(r[k - 1], trades[k])
  <2> TAKE k \in 1 .. n
  <2>1. k - 1 \in 0 .. n /\ trades[k] \in Trade
    BY <1>1
  <2> QED
    BY <1>4, <1>12, <2>1 DEF Passes
<1> QED
  BY <1>8, <1>12, <1>13 DEF base, A, Passes

\* calcRiskMetrics: the falls of the curve.
RiskStep(a, t) == Below(AtPeak([a EXCEPT !.equity = @ + t.pnl], t))

RiskEnd(trades) ==
  FoldLeft(LAMBDA a, t : Below(AtPeak([a EXCEPT !.equity = @ + t.pnl], t)), RiskStart(trades), trades)

RiskState == [equity : Int, peak : Int, maxDD : Int, ddCount : Int, ddSum : Int,
              maxDuration : Int, lastPeak : Int, start : Int, under : BOOLEAN]

\* What a record of calcRiskMetrics is made of.
LEMMA RiskFields ==
  ASSUME NEW a \in RiskState
  PROVE  /\ a.equity \in Int /\ a.peak \in Int /\ a.maxDD \in Int /\ a.ddCount \in Int
         /\ a.ddSum \in Int /\ a.maxDuration \in Int /\ a.lastPeak \in Int /\ a.start \in Int
         /\ a.under \in BOOLEAN
         /\ a = [equity |-> a.equity, peak |-> a.peak, maxDD |-> a.maxDD, ddCount |-> a.ddCount,
                 ddSum |-> a.ddSum, maxDuration |-> a.maxDuration, lastPeak |-> a.lastPeak,
                 start |-> a.start, under |-> a.under]
<1>1. a.equity \in Int /\ a.peak \in Int /\ a.maxDD \in Int /\ a.ddCount \in Int
  BY DEF RiskState
<1>2. a.ddSum \in Int /\ a.maxDuration \in Int /\ a.lastPeak \in Int /\ a.start \in Int
  BY DEF RiskState
<1>3. a.under \in BOOLEAN
  BY DEF RiskState
<1>4. a = [equity |-> a.equity, peak |-> a.peak, maxDD |-> a.maxDD, ddCount |-> a.ddCount,
           ddSum |-> a.ddSum, maxDuration |-> a.maxDuration, lastPeak |-> a.lastPeak,
           start |-> a.start, under |-> a.under]
  BY DEF RiskState
<1> QED
  BY <1>1, <1>2, <1>3, <1>4

\* What one trade does to the figures of the curve: a new high ends the fall.
LEMMA RiskStepGives ==
  ASSUME NEW a \in RiskState, NEW t \in Trade
  PROVE  LET equity == a.equity + t.pnl
             high == equity > a.peak
             low == a.peak > equity
         IN  RiskStep(a, t) =
               [equity |-> equity,
                peak |-> IF high THEN equity ELSE a.peak,
                maxDD |-> IF low THEN Larger(a.maxDD, a.peak - equity) ELSE a.maxDD,
                ddCount |-> IF low THEN a.ddCount + 1 ELSE a.ddCount,
                ddSum |-> IF low THEN a.ddSum + a.peak - equity ELSE a.ddSum,
                maxDuration |-> IF high /\ a.under THEN Larger(a.maxDuration, t.exitAt - a.start)
                                                  ELSE a.maxDuration,
                lastPeak |-> IF high THEN t.exitAt ELSE a.lastPeak,
                start |-> IF low /\ ~a.under THEN a.lastPeak ELSE a.start,
                under |-> (a.under /\ ~high) \/ low]
<1> DEFINE equity == a.equity + t.pnl
           b == [a EXCEPT !.equity = @ + t.pnl]
<1>1. t.pnl \in Int /\ t.exitAt \in Int /\ equity \in Int /\ a.peak \in Int
  BY RiskFields DEF Trade
<1>2. a = [equity |-> a.equity, peak |-> a.peak, maxDD |-> a.maxDD, ddCount |-> a.ddCount,
           ddSum |-> a.ddSum, maxDuration |-> a.maxDuration, lastPeak |-> a.lastPeak,
           start |-> a.start, under |-> a.under] /\ a.under \in BOOLEAN
  BY RiskFields
<1>3. b = [equity |-> equity, peak |-> a.peak, maxDD |-> a.maxDD, ddCount |-> a.ddCount,
           ddSum |-> a.ddSum, maxDuration |-> a.maxDuration, lastPeak |-> a.lastPeak,
           start |-> a.start, under |-> a.under]
  BY <1>2
<1>4. RiskStep(a, t) = Below(AtPeak(b, t))
  BY DEF RiskStep
<1> HIDE DEF b, equity
<1>5. CASE equity > a.peak
  <2>1. AtPeak(b, t) = [equity |-> equity, peak |-> equity, maxDD |-> a.maxDD, ddCount |-> a.ddCount,
           ddSum |-> a.ddSum,
           maxDuration |-> IF a.under THEN Larger(a.maxDuration, t.exitAt - a.start) ELSE a.maxDuration,
           lastPeak |-> t.exitAt, start |-> a.start, under |-> FALSE]
    BY <1>3, <1>5 DEF AtPeak
  <2>2. ~(equity > equity) /\ ~(a.peak > equity)
    BY <1>1, <1>5
  <2>3. Below(AtPeak(b, t)) = AtPeak(b, t)
    BY <2>1, <2>2 DEF Below
  <2> QED
    BY <1>2, <1>4, <1>5, <2>1, <2>2, <2>3 DEF equity
<1>6. CASE ~(equity > a.peak) /\ a.peak > equity
  <2>1. AtPeak(b, t) = b
    BY <1>3, <1>6 DEF AtPeak
  <2>2. Below(b) = [equity |-> equity, peak |-> a.peak, maxDD |-> Larger(a.maxDD, a.peak - equity),
           ddCount |-> a.ddCount + 1, ddSum |-> a.ddSum + a.peak - equity,
           maxDuration |-> a.maxDuration, lastPeak |-> a.lastPeak,
           start |-> IF a.under THEN a.start ELSE a.lastPeak, under |-> TRUE]
    BY <1>3, <1>6 DEF Below
  <2> QED
    BY <1>2, <1>4, <1>6, <2>1, <2>2 DEF equity
<1>7. CASE ~(equity > a.peak) /\ ~(a.peak > equity)
  <2>1. AtPeak(b, t) = b
    BY <1>3, <1>7 DEF AtPeak
  <2>2. Below(b) = b
    BY <1>3, <1>7 DEF Below
  <2> QED
    BY <1>2, <1>3, <1>4, <1>7, <2>1, <2>2 DEF equity
<1> QED
  BY <1>5, <1>6, <1>7

\* One trade leaves the figures of the curve numbers.
LEMMA RiskStepTyped ==
  ASSUME NEW a \in RiskState, NEW t \in Trade
  PROVE  RiskStep(a, t) \in RiskState
<1> DEFINE equity == a.equity + t.pnl
           high == equity > a.peak
           low == a.peak > equity
           peak == IF high THEN equity ELSE a.peak
           maxDD == IF low THEN Larger(a.maxDD, a.peak - equity) ELSE a.maxDD
           ddCount == IF low THEN a.ddCount + 1 ELSE a.ddCount
           ddSum == IF low THEN a.ddSum + a.peak - equity ELSE a.ddSum
           maxDuration == IF high /\ a.under THEN Larger(a.maxDuration, t.exitAt - a.start)
                                             ELSE a.maxDuration
           lastPeak == IF high THEN t.exitAt ELSE a.lastPeak
           start == IF low /\ ~a.under THEN a.lastPeak ELSE a.start
           under == (a.under /\ ~high) \/ low
<1>1. t.pnl \in Int /\ t.exitAt \in Int
  BY DEF Trade
<1>2. equity \in Int /\ peak \in Int /\ maxDD \in Int /\ ddCount \in Int /\ ddSum \in Int
  BY <1>1, RiskFields DEF Larger
<1>3. maxDuration \in Int /\ lastPeak \in Int /\ start \in Int /\ under \in BOOLEAN
  BY <1>1, RiskFields DEF Larger
<1>4. RiskStep(a, t) =
        [equity |-> equity, peak |-> peak, maxDD |-> maxDD, ddCount |-> ddCount, ddSum |-> ddSum,
         maxDuration |-> maxDuration, lastPeak |-> lastPeak, start |-> start, under |-> under]
  BY RiskStepGives
<1> HIDE DEF equity, peak, maxDD, ddCount, ddSum, maxDuration, lastPeak, start, under
<1> QED
  BY <1>2, <1>3, <1>4 DEF RiskState

RiskFold(h, trades) ==
  h = [s \in SUBSET DOMAIN trades |->
         IF s = {} THEN RiskStart(trades) ELSE RiskStep(h[s \ {Max(s)}], trades[Max(s)])]

\* The values the falls take from trade to trade.
LEMMA RiskUnfold ==
  ASSUME NEW trades \in Seq(Trade), trades # << >>
  PROVE  \E r : /\ r[0] = RiskStart(trades)
                /\ \A k \in 1 .. Len(trades) : r[k] = RiskStep(r[k - 1], trades[k])
                /\ \A k \in 0 .. Len(trades) : r[k] \in RiskState
                /\ RiskEnd(trades) = r[Len(trades)]
<1> DEFINE n == Len(trades)
           A == RiskState
           base == RiskStart(trades)
           st == [p \in Trade \X RiskState |-> RiskStep(p[2], p[1])]
           h == CHOOSE g : RiskFold(g, trades)
<1>1. n \in Nat /\ DOMAIN trades = 1 .. n /\ \A i \in 1 .. n : trades[i] \in Trade
  BY LenProperties
<1>2. base \in A /\ \A a \in A, t \in Trade : RiskStep(a, t) \in A
  <2>1. base \in A
    BY <1>1 DEF RiskStart, RiskState, Trade
  <2>2. \A a \in A, t \in Trade : RiskStep(a, t) \in A
    BY RiskStepTyped
  <2> QED
    BY <2>1, <2>2
<1>3. st \in [Trade \X A -> A]
  BY <1>2
<1>4. \A a \in A, t \in Trade : st[<<t, a>>] = RiskStep(a, t)
  OBVIOUS
<1> HIDE DEF st, h, A, base
<1>5. PICK g : Folds(g, trades, st, base) /\ Within(g, SUBSET DOMAIN trades, A)
  BY <1>2, <1>3, LeftFoldDefined
<1>6. \A s \in SUBSET DOMAIN trades : s # {} =>
        st[<<trades[Max(s)], g[s \ {Max(s)}]>>] = RiskStep(g[s \ {Max(s)}], trades[Max(s)])
  <2> TAKE s \in SUBSET DOMAIN trades
  <2>1. SUFFICES ASSUME s # {}
        PROVE st[<<trades[Max(s)], g[s \ {Max(s)}]>>] = RiskStep(g[s \ {Max(s)}], trades[Max(s)])
    OBVIOUS
  <2>2. Max(s) \in s
    BY <1>1, <2>1, MaxOfSome
  <2>3. trades[Max(s)] \in Trade /\ g[s \ {Max(s)}] \in A
    BY <1>1, <1>5, <2>2 DEF Within
  <2> QED
    BY <1>4, <2>3
<1>7. RiskFold(h, trades)
  <2>1. RiskFold(g, trades)
    BY <1>5, <1>6, Zenon DEF RiskFold, Folds, base
  <2> QED
    BY <2>1 DEF h
<1>8. RiskEnd(trades) = h[DOMAIN trades]
  BY DEF RiskEnd, RiskStep, FoldLeft, MapThenFoldSet, RiskFold, h
<1>9. h[{}] = base
  BY <1>7 DEF RiskFold, base
<1>10. \A k \in 1 .. n : h[1 .. k - 1] \in A => h[1 .. k] = st[<<trades[k], h[1 .. k - 1]>>]
  <2> TAKE k \in 1 .. n
  <2>1. Max(1 .. k) = k /\ (1 .. k) \ {k} = 1 .. k - 1 /\ 1 .. k # {}
    BY LastOfPrefix
  <2>2. h[1 .. k] = RiskStep(h[(1 .. k) \ {k}], trades[k])
    <3> DEFINE s == 1 .. k
    <3>1. Max(s) = k /\ s # {} /\ s \in SUBSET DOMAIN trades
      BY <1>1, <2>1
    <3> HIDE DEF s
    <3>2. h[s] = RiskStep(h[s \ {k}], trades[k])
      BY <1>7, <3>1 DEF RiskFold
    <3> QED
      BY <3>2 DEF s
  <2> QED
    BY <1>1, <1>4, <2>1, <2>2
<1>11. Steps(h, trades, st, base, A)
  BY <1>9, <1>10 DEF Steps
<1>12. PICK r : Passes(r, h, trades, st, base, A)
  BY <1>2, <1>3, <1>11, PrefixesUnfold
<1>13. \A k \in 1 .. n : r[k] = RiskStep(r[k - 1], trades[k])
  <2> TAKE k \in 1 .. n
  <2>1. k - 1 \in 0 .. n /\ trades[k] \in Trade
    BY <1>1
  <2> QED
    BY <1>4, <1>12, <2>1 DEF Passes
<1> QED
  BY <1>8, <1>12, <1>13 DEF base, A, Passes

\* calcStability: the squares of the deviations.
SpreadStep(a, t, n, total) ==
  LET diff == n * t.pnl - total IN
  [around |-> a.around + diff * diff,
   below |-> a.below + (IF diff < 0 THEN diff * diff ELSE 0),
   belowZero |-> a.belowZero + (IF t.pnl < 0 THEN t.pnl * t.pnl ELSE 0)]

SpreadStart == [around |-> 0, below |-> 0, belowZero |-> 0]

SpreadSums == [around : Int, below : Int, belowZero : Int]

SpreadFold(h, trades, n, total) ==
  h = [s \in SUBSET DOMAIN trades |->
         IF s = {} THEN SpreadStart ELSE SpreadStep(h[s \ {Max(s)}], trades[Max(s)], n, total)]

\* The values the deviations take from trade to trade.
LEMMA SpreadsUnfold ==
  ASSUME NEW trades \in Seq(Trade), NEW total \in Int
  PROVE  \E r : /\ r[0] = SpreadStart
                /\ \A k \in 1 .. Len(trades) : r[k] = SpreadStep(r[k - 1], trades[k], Len(trades), total)
                /\ \A k \in 0 .. Len(trades) : r[k] \in SpreadSums
                /\ Spreads(trades, total) = r[Len(trades)]
<1> DEFINE n == Len(trades)
           A == SpreadSums
           base == SpreadStart
           st == [p \in Trade \X SpreadSums |-> SpreadStep(p[2], p[1], Len(trades), total)]
           h == CHOOSE g : SpreadFold(g, trades, Len(trades), total)
<1>1. n \in Nat /\ DOMAIN trades = 1 .. n /\ \A i \in 1 .. n : trades[i] \in Trade
  BY LenProperties
<1>2. base \in A /\ \A a \in A, t \in Trade : SpreadStep(a, t, Len(trades), total) \in A
  <2>1. base \in A
    BY DEF SpreadStart, SpreadSums
  <2>2. ASSUME NEW a \in A, NEW t \in Trade PROVE SpreadStep(a, t, Len(trades), total) \in A
    <3> DEFINE diff == n * t.pnl - total
               sq == diff * diff
               low == t.pnl * t.pnl
    <3>1. t.pnl \in Int /\ diff \in Int /\ a.around \in Int /\ a.below \in Int /\ a.belowZero \in Int
      BY <1>1 DEF Trade, SpreadSums
    <3>2. sq \in Int /\ low \in Int
      <4> HIDE DEF diff
      <4> QED
        BY <3>1
    <3>3. SpreadStep(a, t, Len(trades), total) =
            [around |-> a.around + sq, below |-> a.below + (IF diff < 0 THEN sq ELSE 0),
             belowZero |-> a.belowZero + (IF t.pnl < 0 THEN low ELSE 0)]
      BY DEF SpreadStep
    <3> HIDE DEF sq, low, diff
    <3> QED
      BY <3>1, <3>2, <3>3 DEF SpreadSums
  <2> QED
    BY <2>1, <2>2
<1>3. st \in [Trade \X A -> A]
  BY <1>2
<1>4. \A a \in A, t \in Trade : st[<<t, a>>] = SpreadStep(a, t, Len(trades), total)
  OBVIOUS
<1> HIDE DEF st, h, A, base
<1>5. PICK g : Folds(g, trades, st, base) /\ Within(g, SUBSET DOMAIN trades, A)
  BY <1>2, <1>3, LeftFoldDefined
<1>6. \A s \in SUBSET DOMAIN trades : s # {} =>
        st[<<trades[Max(s)], g[s \ {Max(s)}]>>] = SpreadStep(g[s \ {Max(s)}], trades[Max(s)], Len(trades), total)
  <2> TAKE s \in SUBSET DOMAIN trades
  <2>1. SUFFICES ASSUME s # {}
        PROVE st[<<trades[Max(s)], g[s \ {Max(s)}]>>] = SpreadStep(g[s \ {Max(s)}], trades[Max(s)], Len(trades), total)
    OBVIOUS
  <2>2. Max(s) \in s
    BY <1>1, <2>1, MaxOfSome
  <2>3. trades[Max(s)] \in Trade /\ g[s \ {Max(s)}] \in A
    BY <1>1, <1>5, <2>2 DEF Within
  <2> QED
    BY <1>4, <2>3
<1>7. SpreadFold(h, trades, Len(trades), total)
  <2>1. SpreadFold(g, trades, Len(trades), total)
    BY <1>5, <1>6, Zenon DEF SpreadFold, Folds, base
  <2> QED
    BY <2>1 DEF h
<1>8. Spreads(trades, total) = h[DOMAIN trades]
  BY DEF Spreads, SpreadStep, SpreadStart, FoldLeft, MapThenFoldSet, SpreadFold, h
<1>9. h[{}] = base
  BY <1>7 DEF SpreadFold, base
<1>10. \A k \in 1 .. n : h[1 .. k - 1] \in A => h[1 .. k] = st[<<trades[k], h[1 .. k - 1]>>]
  <2> TAKE k \in 1 .. n
  <2>1. Max(1 .. k) = k /\ (1 .. k) \ {k} = 1 .. k - 1 /\ 1 .. k # {}
    BY LastOfPrefix
  <2>2. h[1 .. k] = SpreadStep(h[(1 .. k) \ {k}], trades[k], Len(trades), total)
    <3> DEFINE s == 1 .. k
    <3>1. Max(s) = k /\ s # {} /\ s \in SUBSET DOMAIN trades
      BY <1>1, <2>1
    <3> HIDE DEF s
    <3>2. h[s] = SpreadStep(h[s \ {k}], trades[k], Len(trades), total)
      BY <1>7, <3>1 DEF SpreadFold
    <3> QED
      BY <3>2 DEF s
  <2> QED
    BY <1>1, <1>4, <2>1, <2>2
<1>11. Steps(h, trades, st, base, A)
  BY <1>9, <1>10 DEF Steps
<1>12. PICK r : Passes(r, h, trades, st, base, A)
  BY <1>2, <1>3, <1>11, PrefixesUnfold
<1>13. \A k \in 1 .. n : r[k] = SpreadStep(r[k - 1], trades[k], Len(trades), total)
  <2> TAKE k \in 1 .. n
  <2>1. k - 1 \in 0 .. n /\ trades[k] \in Trade
    BY <1>1
  <2> QED
    BY <1>4, <1>12, <2>1 DEF Passes
<1> QED
  BY <1>8, <1>12, <1>13 DEF base, A, Passes

\* calcBasicStats: the sums and the counts.
BasicStep(a, t) ==
  [total |-> a.total + t.pnl,
   profit |-> a.profit + Larger(t.pnl, 0),
   loss |-> a.loss + Larger(-t.pnl, 0),
   wins |-> a.wins + (IF t.pnl > 0 THEN 1 ELSE 0),
   losses |-> a.losses + (IF t.pnl > 0 THEN 0 ELSE 1),
   longs |-> a.longs + (IF t.side = "BUY" THEN 1 ELSE 0),
   longWins |-> a.longWins + (IF t.side = "BUY" /\ t.pnl > 0 THEN 1 ELSE 0),
   largestWin |-> Larger(a.largestWin, t.pnl),
   largestLoss |-> Larger(a.largestLoss, -t.pnl),
   held |-> a.held + t.exitAt - t.entryAt]

BasicStart ==
  [total |-> 0, profit |-> 0, loss |-> 0, wins |-> 0, losses |-> 0, longs |-> 0,
   longWins |-> 0, largestWin |-> 0, largestLoss |-> 0, held |-> 0]

BasicStats ==
  [total : Int, profit : Int, loss : Int, wins : Int, losses : Int, longs : Int,
   longWins : Int, largestWin : Int, largestLoss : Int, held : Int]

\* One trade leaves the sums and the counts numbers.
LEMMA BasicStepTyped ==
  ASSUME NEW a \in BasicStats, NEW t \in Trade
  PROVE  BasicStep(a, t) \in BasicStats
<1>1. a.total \in Int /\ a.profit \in Int /\ a.loss \in Int /\ a.wins \in Int /\ a.losses \in Int
  BY DEF BasicStats
<1>2. a.longs \in Int /\ a.longWins \in Int /\ a.largestWin \in Int /\ a.largestLoss \in Int /\ a.held \in Int
  BY DEF BasicStats
<1>3. t.pnl \in Int /\ t.exitAt \in Int /\ t.entryAt \in Int
  BY DEF Trade
<1> DEFINE total == a.total + t.pnl
           profit == a.profit + Larger(t.pnl, 0)
           loss == a.loss + Larger(-t.pnl, 0)
           wins == a.wins + (IF t.pnl > 0 THEN 1 ELSE 0)
           losses == a.losses + (IF t.pnl > 0 THEN 0 ELSE 1)
           longs == a.longs + (IF t.side = "BUY" THEN 1 ELSE 0)
           longWins == a.longWins + (IF t.side = "BUY" /\ t.pnl > 0 THEN 1 ELSE 0)
           largestWin == Larger(a.largestWin, t.pnl)
           largestLoss == Larger(a.largestLoss, -t.pnl)
           held == a.held + t.exitAt - t.entryAt
<1>4. total \in Int /\ profit \in Int /\ loss \in Int /\ held \in Int
  BY <1>1, <1>2, <1>3 DEF Larger
<1>5. wins \in Int /\ losses \in Int /\ longs \in Int /\ longWins \in Int
  BY <1>1, <1>2, <1>3
<1>6. largestWin \in Int /\ largestLoss \in Int
  BY <1>2, <1>3 DEF Larger
<1>7. BasicStep(a, t) = [total |-> total, profit |-> profit, loss |-> loss, wins |-> wins,
                         losses |-> losses, longs |-> longs, longWins |-> longWins,
                         largestWin |-> largestWin, largestLoss |-> largestLoss, held |-> held]
  BY DEF BasicStep
<1> HIDE DEF total, profit, loss, wins, losses, longs, longWins, largestWin, largestLoss, held
<1> QED
  BY <1>4, <1>5, <1>6, <1>7 DEF BasicStats

BasicFold(h, trades) ==
  h = [s \in SUBSET DOMAIN trades |->
         IF s = {} THEN BasicStart ELSE BasicStep(h[s \ {Max(s)}], trades[Max(s)])]

\* The values the sums take from trade to trade.
LEMMA BasicUnfold ==
  ASSUME NEW trades \in Seq(Trade)
  PROVE  \E r : /\ r[0] = BasicStart
                /\ \A k \in 1 .. Len(trades) : r[k] = BasicStep(r[k - 1], trades[k])
                /\ \A k \in 0 .. Len(trades) : r[k] \in BasicStats
                /\ Basic(trades) = r[Len(trades)]
<1> DEFINE n == Len(trades)
           A == BasicStats
           base == BasicStart
           st == [p \in Trade \X BasicStats |-> BasicStep(p[2], p[1])]
           h == CHOOSE g : BasicFold(g, trades)
<1>1. n \in Nat /\ DOMAIN trades = 1 .. n /\ \A i \in 1 .. n : trades[i] \in Trade
  BY LenProperties
<1>2. base \in A /\ \A a \in A, t \in Trade : BasicStep(a, t) \in A
  <2>1. base \in A
    BY DEF BasicStart, BasicStats
  <2>2. \A a \in A, t \in Trade : BasicStep(a, t) \in A
    BY BasicStepTyped
  <2> QED
    BY <2>1, <2>2
<1>3. st \in [Trade \X A -> A]
  BY <1>2
<1>4. \A a \in A, t \in Trade : st[<<t, a>>] = BasicStep(a, t)
  OBVIOUS
<1> HIDE DEF st, h, A, base
<1>5. PICK g : Folds(g, trades, st, base) /\ Within(g, SUBSET DOMAIN trades, A)
  BY <1>2, <1>3, LeftFoldDefined
<1>6. \A s \in SUBSET DOMAIN trades : s # {} =>
        st[<<trades[Max(s)], g[s \ {Max(s)}]>>] = BasicStep(g[s \ {Max(s)}], trades[Max(s)])
  <2> TAKE s \in SUBSET DOMAIN trades
  <2>1. SUFFICES ASSUME s # {}
        PROVE st[<<trades[Max(s)], g[s \ {Max(s)}]>>] = BasicStep(g[s \ {Max(s)}], trades[Max(s)])
    OBVIOUS
  <2>2. Max(s) \in s
    BY <1>1, <2>1, MaxOfSome
  <2>3. trades[Max(s)] \in Trade /\ g[s \ {Max(s)}] \in A
    BY <1>1, <1>5, <2>2 DEF Within
  <2> QED
    BY <1>4, <2>3
<1>7. BasicFold(h, trades)
  <2>1. BasicFold(g, trades)
    BY <1>5, <1>6, Zenon DEF BasicFold, Folds, base
  <2> QED
    BY <2>1 DEF h
<1>8. Basic(trades) = h[DOMAIN trades]
  BY DEF Basic, BasicStep, BasicStart, FoldLeft, MapThenFoldSet, BasicFold, h
<1>9. h[{}] = base
  BY <1>7 DEF BasicFold, base
<1>10. \A k \in 1 .. n : h[1 .. k - 1] \in A => h[1 .. k] = st[<<trades[k], h[1 .. k - 1]>>]
  <2> TAKE k \in 1 .. n
  <2>1. Max(1 .. k) = k /\ (1 .. k) \ {k} = 1 .. k - 1 /\ 1 .. k # {}
    BY LastOfPrefix
  <2>2. h[1 .. k] = BasicStep(h[(1 .. k) \ {k}], trades[k])
    <3> DEFINE s == 1 .. k
    <3>1. Max(s) = k /\ s # {} /\ s \in SUBSET DOMAIN trades
      BY <1>1, <2>1
    <3> HIDE DEF s
    <3>2. h[s] = BasicStep(h[s \ {k}], trades[k])
      BY <1>7, <3>1 DEF BasicFold
    <3> QED
      BY <3>2 DEF s
  <2> QED
    BY <1>1, <1>4, <2>1, <2>2
<1>11. Steps(h, trades, st, base, A)
  BY <1>9, <1>10 DEF Steps
<1>12. PICK r : Passes(r, h, trades, st, base, A)
  BY <1>2, <1>3, <1>11, PrefixesUnfold
<1>13. \A k \in 1 .. n : r[k] = BasicStep(r[k - 1], trades[k])
  <2> TAKE k \in 1 .. n
  <2>1. k - 1 \in 0 .. n /\ trades[k] \in Trade
    BY <1>1
  <2> QED
    BY <1>4, <1>12, <2>1 DEF Passes
<1> QED
  BY <1>8, <1>12, <1>13 DEF base, A, Passes

-----------------------------------------------------------------------------
(* The curve and its high.                                                 *)

\* The curve adds the pnl of one trade after the other.
LEMMA CurveSteps ==
  ASSUME NEW trades \in Seq(Trade)
  PROVE  /\ Curve(trades, 0) = 0
         /\ \A k \in 1 .. Len(trades) : Curve(trades, k) = Curve(trades, k - 1) + trades[k].pnl
         /\ \A k \in 0 .. Len(trades) : Curve(trades, k) \in Int
<1> DEFINE n == Len(trades)
           Sums(r, k) == /\ r[0] = 0
                         /\ \A i \in 1 .. k : r[i] = r[i - 1] + trades[i].pnl
                         /\ \A i \in 0 .. k : r[i] \in Int
<1>1. n \in Nat
  BY LenProperties
<1>2. ASSUME NEW k \in 0 .. n
      PROVE  \E r : Sums(r, k) /\ Curve(trades, k) = r[k]
  <2> DEFINE q == SubSeq(trades, 1, k)
  <2>1. q \in Seq(Trade) /\ Len(q) = k /\ \A i \in 1 .. k : q[i] = trades[i]
    BY <1>1, SubSeqProperties
  <2>2. Curve(trades, k) = Summed(q)
    BY DEF Curve, Summed
  <2> HIDE DEF q
  <2>3. PICK r : /\ r[0] = 0
                 /\ \A i \in 1 .. Len(q) : r[i] = SumStep(r[i - 1], q[i])
                 /\ \A i \in 0 .. Len(q) : r[i] \in Int
                 /\ Summed(q) = r[Len(q)]
    BY <2>1, SumUnfold
  <2>4. Sums(r, k)
    BY <2>1, <2>3 DEF SumStep
  <2> QED
    BY <2>1, <2>2, <2>3, <2>4
<1>3. ASSUME NEW k \in 0 .. n, NEW r, NEW s, Sums(r, k), NEW l \in 0 .. n, l <= k, Sums(s, l)
      PROVE  \A i \in 0 .. l : r[i] = s[i]
  <2> DEFINE T == {i \in 0 .. l : r[i] = s[i]}
  <2>1. 0 \in T
    BY <1>3
  <2>2. \A i \in 1 .. l : i - 1 \in T => i \in T
    BY <1>3
  <2> HIDE DEF T
  <2>3. \A i \in 0 .. l : i \in T
    BY <2>1, <2>2, Counting
  <2> QED
    BY <2>3 DEF T
<1>4. Curve(trades, 0) = 0
  <2>1. 0 \in 0 .. n
    BY <1>1
  <2> QED
    BY <1>2, <2>1
<1>5. \A k \in 0 .. n : Curve(trades, k) \in Int
  <2> TAKE k \in 0 .. n
  <2>1. PICK r : Sums(r, k) /\ Curve(trades, k) = r[k]
    BY <1>2
  <2>2. k \in 0 .. k
    OBVIOUS
  <2> QED
    BY <2>1, <2>2
<1>6. \A k \in 1 .. n : Curve(trades, k) = Curve(trades, k - 1) + trades[k].pnl
  <2> TAKE k \in 1 .. n
  <2>1. k \in 0 .. n /\ k - 1 \in 0 .. n /\ k - 1 <= k /\ k - 1 \in 0 .. k - 1 /\ k \in 1 .. k
    OBVIOUS
  <2>2. PICK r : Sums(r, k) /\ Curve(trades, k) = r[k]
    BY <1>2, <2>1
  <2>3. PICK s : Sums(s, k - 1) /\ Curve(trades, k - 1) = s[k - 1]
    BY <1>2, <2>1
  <2>4. r[k - 1] = s[k - 1]
    <3> HIDE DEF Sums
    <3> QED
      BY <1>3, <2>1, <2>2, <2>3
  <2> QED
    BY <2>1, <2>2, <2>3, <2>4
<1> QED
  BY <1>4, <1>5, <1>6

\* What the trades came to in all is the end of the curve.
LEMMA TotalIsCurve ==
  ASSUME NEW trades \in Seq(Trade)
  PROVE  Basic(trades).total = Curve(trades, Len(trades)) /\ Basic(trades).total \in Int
<1> DEFINE n == Len(trades)
<1>1. n \in Nat
  BY LenProperties
<1>2. PICK r : /\ r[0] = BasicStart
               /\ \A k \in 1 .. n : r[k] = BasicStep(r[k - 1], trades[k])
               /\ \A k \in 0 .. n : r[k] \in BasicStats
               /\ Basic(trades) = r[n]
  BY BasicUnfold
<1> DEFINE T == {k \in 0 .. n : r[k].total = Curve(trades, k)}
<1>3. 0 \in T
  BY <1>1, <1>2, CurveSteps DEF BasicStart
<1>4. ASSUME NEW k \in 1 .. n, k - 1 \in T PROVE k \in T
  <2>1. r[k].total = r[k - 1].total + trades[k].pnl
    <3>1. r[k] = BasicStep(r[k - 1], trades[k])
      BY <1>2
    <3> QED
      BY <3>1 DEF BasicStep
  <2>2. Curve(trades, k) = Curve(trades, k - 1) + trades[k].pnl
    BY CurveSteps
  <2> QED
    BY <1>1, <1>4, <2>1, <2>2
<1>5. \A k \in 0 .. n : k \in T
  <2> HIDE DEF T
  <2> QED
    BY <1>1, <1>3, <1>4, Counting
<1>6. n \in 0 .. n /\ Curve(trades, n) \in Int
  BY <1>1, CurveSteps
<1> QED
  BY <1>2, <1>5, <1>6

\* HighUpTo follows the curve: it is 0 before the first trade, and rises with it.
LEMMA HighSteps ==
  ASSUME NEW trades \in Seq(Trade)
  PROVE  /\ HighUpTo(trades, 0) = 0
         /\ \A k \in 1 .. Len(trades) :
              HighUpTo(trades, k) = Larger(HighUpTo(trades, k - 1), Curve(trades, k))
         /\ \A k \in 0 .. Len(trades) : /\ HighUpTo(trades, k) \in Int
                                       /\ Curve(trades, k) <= HighUpTo(trades, k)
                                       /\ \E j \in 0 .. k : HighUpTo(trades, k) = Curve(trades, j)
<1> DEFINE n == Len(trades)
           c == [k \in 0 .. n |-> Curve(trades, k)]
           S(k) == {c[j] : j \in 0 .. k}
           hi == [k \in 0 .. n |-> HighUpTo(trades, k)]
<1>1. n \in Nat
  BY LenProperties
<1>2. c \in [0 .. n -> Int] /\ c[0] = 0
  BY <1>1, CurveSteps
<1>3. \A k \in 0 .. n : S(k) \subseteq Int
  <2> TAKE k \in 0 .. n
  <2>1. \A j \in 0 .. k : j \in 0 .. n
    BY <1>1
  <2> HIDE DEF c
  <2>2. \A j \in 0 .. k : c[j] \in Int
    BY <1>2, <2>1
  <2> QED
    BY <2>2
<1>4. \A k \in 0 .. n : hi[k] = Max(S(k))
  <2> TAKE k \in 0 .. n
  <2>1. S(k) = {Curve(trades, j) : j \in 0 .. k}
    <3>1. \A j \in 0 .. k : c[j] = Curve(trades, j)
      BY <1>1
    <3> QED
      BY <3>1
  <2> QED
    BY <2>1 DEF HighUpTo
<1> HIDE DEF c
<1> DEFINE T == {k \in 0 .. n : hi[k] \in S(k) /\ \A y \in S(k) : hi[k] >= y}
<1>5. 0 \in T /\ hi[0] = 0
  <2>1. S(0) = {0}
    BY <1>2
  <2>2. Max({0}) = 0
    <3> DEFINE s == {0}
    <3>1. s \subseteq Int /\ 0 \in s /\ \A y \in s : 0 >= y
      OBVIOUS
    <3> HIDE DEF s
    <3>2. Max(s) = 0
      BY <3>1, IsMax
    <3> QED
      BY <3>2 DEF s
  <2>3. 0 \in 0 .. n
    BY <1>1
  <2>4. hi[0] = 0
    BY <1>4, <2>1, <2>2, <2>3
  <2> QED
    BY <2>1, <2>3, <2>4
<1>6. ASSUME NEW k \in 1 .. n, k - 1 \in T
      PROVE  k \in T /\ hi[k] = Larger(hi[k - 1], c[k])
  <2> DEFINE m == Larger(hi[k - 1], c[k])
  <2>1. k \in 0 .. n /\ k - 1 \in 0 .. n /\ S(k) = S(k - 1) \cup {c[k]}
    BY <1>1
  <2>2. hi[k - 1] \in S(k - 1) /\ (\A y \in S(k - 1) : hi[k - 1] >= y) /\ hi[k - 1] \in Int /\ c[k] \in Int
    BY <1>2, <1>3, <1>6, <2>1
  <2>3. m \in S(k) /\ \A y \in S(k) : m >= y
    <3>1. S(k - 1) \subseteq Int
      BY <1>3, <2>1
    <3> DEFINE s1 == S(k - 1)
    <3>2. \A y \in s1 : m >= y
      <4>1. m \in Int /\ m >= hi[k - 1]
        BY <2>2 DEF Larger
      <4>2. s1 \subseteq Int /\ \A y \in s1 : hi[k - 1] >= y
        BY <2>2, <3>1
      <4> HIDE DEF s1, m
      <4> QED
        BY <2>2, <4>1, <4>2
    <3>3. m >= c[k]
      BY <2>2 DEF Larger
    <3>4. m \in s1 \cup {c[k]}
      BY <2>2 DEF Larger
    <3> QED
      BY <2>1, <3>2, <3>3, <3>4
  <2>4. Max(S(k)) = m
    <3> DEFINE s2 == S(k)
    <3>1. s2 \subseteq Int /\ m \in s2 /\ \A y \in s2 : m >= y
      BY <1>3, <2>1, <2>3
    <3> HIDE DEF s2, m
    <3>2. Max(s2) = m
      BY <3>1, IsMax
    <3> QED
      BY <3>2 DEF s2
  <2> QED
    BY <1>4, <2>1, <2>3, <2>4
<1>7. \A k \in 0 .. n : k \in T
  <2> HIDE DEF T
  <2> QED
    BY <1>1, <1>5, <1>6, Counting
<1>8. \A k \in 1 .. n : hi[k] = Larger(hi[k - 1], c[k])
  <2> TAKE k \in 1 .. n
  <2>1. k - 1 \in T
    BY <1>1, <1>7
  <2> QED
    BY <1>6, <2>1
<1>9. \A k \in 0 .. n : hi[k] \in Int /\ c[k] <= hi[k] /\ \E j \in 0 .. k : hi[k] = c[j]
  <2> TAKE k \in 0 .. n
  <2>1. hi[k] \in S(k) /\ (\A y \in S(k) : hi[k] >= y)
    BY <1>7
  <2>2. c[k] \in S(k)
    BY <1>1
  <2>3. hi[k] \in Int /\ c[k] \in Int /\ hi[k] >= c[k]
    BY <1>2, <1>3, <2>1, <2>2
  <2> QED
    BY <2>1, <2>3
<1>10. \A k \in 0 .. n : hi[k] = HighUpTo(trades, k) /\ c[k] = Curve(trades, k)
  BY DEF c
<1>11. 0 \in 0 .. n /\ \A k \in 1 .. n : k \in 0 .. n /\ k - 1 \in 0 .. n
  BY <1>1
<1>12. \A k \in 0 .. n : \A j \in 0 .. k : j \in 0 .. n
  BY <1>1
<1> HIDE DEF hi, n, T
<1>13. HighUpTo(trades, 0) = 0
  BY <1>5, <1>10, <1>11
<1>14. \A k \in 1 .. n : HighUpTo(trades, k) = Larger(HighUpTo(trades, k - 1), Curve(trades, k))
  BY <1>8, <1>10, <1>11
<1>15. ASSUME NEW k \in 0 .. n
       PROVE  /\ HighUpTo(trades, k) \in Int
              /\ Curve(trades, k) <= HighUpTo(trades, k)
              /\ \E j \in 0 .. k : HighUpTo(trades, k) = Curve(trades, j)
  <2>1. HighUpTo(trades, k) \in Int /\ Curve(trades, k) <= HighUpTo(trades, k)
    BY <1>9, <1>10
  <2>2. PICK j \in 0 .. k : hi[k] = c[j]
    BY <1>9
  <2>3. HighUpTo(trades, k) = Curve(trades, j)
    BY <1>10, <1>12, <2>2
  <2> QED
    BY <2>1, <2>3
<1> QED
  BY <1>13, <1>14, <1>15 DEF n

-----------------------------------------------------------------------------
(* The longest runs.                                                       *)

\* run counts the members of W up to each place; top keeps the largest count.
Counts(run, top, W, n) ==
  /\ run[0] = 0 /\ top[0] = 0
  /\ \A k \in 1 .. n : run[k] = IF k \in W THEN run[k - 1] + 1 ELSE 0
  /\ \A k \in 1 .. n : top[k] = Larger(top[k - 1], run[k])

RunLengths(W, n) ==
  {m \in 1 .. n : \E a \in 1 .. n : a + m - 1 <= n /\ \A i \in a .. a + m - 1 : i \in W}

\* Counting the run that ends at each place, and keeping the largest count, finds
\* the longest run there is.
LEMMA LongestRunCounted ==
  ASSUME NEW n \in Nat, NEW W \in SUBSET (1 .. n), NEW run, NEW top, Counts(run, top, W, n)
  PROVE  top[n] = Max({0} \cup RunLengths(W, n))
<1> USE DEF Counts
<1> DEFINE Ends(k) == /\ run[k] \in 0 .. k
                      /\ \A i \in (k - run[k] + 1) .. k : i \in W
                      /\ run[k] < k => k - run[k] \notin W
           Tops(k) == /\ top[k] \in Int
                      /\ \A j \in 0 .. k : run[j] \in Int /\ run[j] <= top[k]
                      /\ \E j \in 0 .. k : top[k] = run[j]
           T == {k \in 0 .. n : Ends(k) /\ Tops(k)}
<1>1. 0 \in T
  <2>1. Ends(0)
    OBVIOUS
  <2>2. Tops(0)
    OBVIOUS
  <2> QED
    BY <2>1, <2>2
<1>2. ASSUME NEW k \in 1 .. n, k - 1 \in T PROVE k \in T
  <2>1. k - 1 \in 0 .. n /\ run[k - 1] \in 0 .. k - 1
    BY <1>2
  <2>2. ASSUME k \in W PROVE Ends(k)
    <3>1. run[k] = run[k - 1] + 1
      BY <2>2
    <3>2. run[k] \in 0 .. k /\ k - run[k] = k - 1 - run[k - 1]
      BY <2>1, <3>1
    <3>3. \A i \in (k - run[k] + 1) .. k : i \in W
      <4> TAKE i \in (k - run[k] + 1) .. k
      <4>1. CASE i = k
        BY <2>2, <4>1
      <4>2. CASE i # k
        <5>1. i \in (k - 1 - run[k - 1] + 1) .. (k - 1)
          BY <2>1, <3>2, <4>2
        <5> QED
          BY <1>2, <5>1
      <4> QED
        BY <4>1, <4>2
    <3>4. run[k] < k => k - run[k] \notin W
      <4>1. run[k] < k => run[k - 1] < k - 1
        BY <2>1, <3>1
      <4> QED
        BY <1>2, <3>2, <4>1
    <3> QED
      BY <3>2, <3>3, <3>4
  <2>3. ASSUME k \notin W PROVE Ends(k)
    <3>1. run[k] = 0
      BY <2>3
    <3> QED
      BY <2>3, <3>1
  <2>4. Ends(k)
    BY <2>2, <2>3
  <2>5. Tops(k)
    <3>1. top[k] = Larger(top[k - 1], run[k])
      OBVIOUS
    <3>2. Tops(k - 1) /\ run[k] \in Int
      BY <1>2, <2>4
    <3>3. top[k] \in Int /\ top[k] >= top[k - 1] /\ top[k] >= run[k]
      BY <3>1, <3>2 DEF Larger
    <3>4. \A j \in 0 .. k : run[j] \in Int /\ run[j] <= top[k]
      <4> TAKE j \in 0 .. k
      <4>1. CASE j = k
        BY <3>2, <3>3, <4>1
      <4>2. CASE j # k
        <5>1. j \in 0 .. k - 1
          BY <4>2
        <5>2. run[j] \in Int /\ run[j] <= top[k - 1]
          BY <3>2, <5>1
        <5> QED
          BY <3>2, <3>3, <5>2
      <4> QED
        BY <4>1, <4>2
    <3>5. \E j \in 0 .. k : top[k] = run[j]
      <4>1. PICK j \in 0 .. k - 1 : top[k - 1] = run[j]
        BY <3>2
      <4>2. j \in 0 .. k /\ k \in 0 .. k
        OBVIOUS
      <4>3. top[k] = run[j] \/ top[k] = run[k]
        BY <3>1, <4>1 DEF Larger
      <4> QED
        BY <4>2, <4>3
    <3> QED
      BY <3>3, <3>4, <3>5
  <2>6. k \in 0 .. n
    OBVIOUS
  <2> HIDE DEF Ends, Tops
  <2> QED
    BY <2>4, <2>5, <2>6
<1>3. \A k \in 0 .. n : k \in T
  <2> HIDE DEF T
  <2> QED
    BY <1>1, <1>2, Counting
<1>4. \A k \in 0 .. n : Ends(k) /\ Tops(k)
  BY <1>3
<1> DEFINE Fits(m, a) == a + m - 1 <= n /\ \A i \in a .. a + m - 1 : i \in W
           M == {m \in 1 .. n : \E a \in 1 .. n : Fits(m, a)}
           S == {0} \cup M
<1>5. ASSUME NEW m \in M
      PROVE  m <= top[n]
  <2>1. m \in 1 .. n
    OBVIOUS
  <2>2. PICK a \in 1 .. n : Fits(m, a)
    OBVIOUS
  <2> DEFINE e == a + m - 1
  <2>3. e \in 1 .. n /\ e \in 0 .. n /\ e >= m
    BY <2>1, <2>2
  <2>4. Ends(e)
    BY <1>4, <2>3
  <2>5. run[e] >= m
    <3> SUFFICES ASSUME run[e] < m PROVE FALSE
      BY <2>1, <2>4
    <3>1. run[e] < e /\ e - run[e] \in a .. a + m - 1
      BY <2>1, <2>2, <2>3, <2>4
    <3> QED
      BY <2>2, <2>4, <3>1
  <2>6. run[e] <= top[n] /\ top[n] \in Int /\ run[e] \in Int
    <3>1. Tops(n) /\ e \in 0 .. n
      BY <1>4, <2>3
    <3> QED
      BY <2>4, <3>1
  <2> HIDE DEF e
  <2> QED
    BY <2>1, <2>5, <2>6
<1>6. top[n] \in S
  <2>1. PICK j \in 0 .. n : top[n] = run[j]
    BY <1>4
  <2>2. Ends(j)
    BY <1>4
  <2>3. CASE run[j] = 0
    BY <2>1, <2>3
  <2>4. CASE run[j] # 0
    <3> DEFINE a == j - run[j] + 1
    <3>1. run[j] \in 1 .. n /\ a \in 1 .. n /\ a + run[j] - 1 = j
      BY <2>2, <2>4
    <3>2. Fits(run[j], a)
      BY <2>2, <3>1
    <3> QED
      BY <2>1, <3>1, <3>2
  <2> QED
    BY <2>3, <2>4
<1>7. \A y \in S : top[n] >= y
  <2>1. top[n] >= 0 /\ top[n] \in Int
    <3>1. Tops(n) /\ 0 \in 0 .. n
      BY <1>4
    <3> QED
      BY <3>1
  <2> TAKE y \in S
  <2>2. CASE y = 0
    BY <2>1, <2>2
  <2>3. CASE y \in M
    <3>1. y \in Int
      OBVIOUS
    <3>2. y <= top[n]
      <4> HIDE DEF M
      <4> QED
        BY <1>5, <2>3
    <3> QED
      BY <2>1, <3>1, <3>2
  <2> QED
    BY <2>2, <2>3
<1>8. S \subseteq Int
  OBVIOUS
<1> USE DEF RunLengths
<1>9. Max(S) = top[n]
  <2> HIDE DEF S
  <2> QED
    BY <1>6, <1>7, <1>8, IsMax
<1> QED
  BY <1>9

\* calcStability finds the longest runs of wins and of losses there are.
THEOREM StreaksMeasured ==
  ASSUME NEW trades \in Seq(Trade)
  PROVE  /\ Streaks(trades).maxWins = LongestRun(trades, LAMBDA t : t.pnl > 0)
         /\ Streaks(trades).maxLosses = LongestRun(trades, LAMBDA t : t.pnl <= 0)
<1> DEFINE n == Len(trades)
           Won == {i \in 1 .. n : trades[i].pnl > 0}
           Lost == {i \in 1 .. n : trades[i].pnl <= 0}
<1>1. n \in Nat /\ DOMAIN trades = 1 .. n /\ \A i \in 1 .. n : trades[i].pnl \in Int
  <2>1. n \in Nat /\ DOMAIN trades = 1 .. n /\ \A i \in 1 .. n : trades[i] \in Trade
    BY LenProperties
  <2> QED
    BY <2>1 DEF Trade
<1>2. PICK r : /\ r[0] = StreakStart
               /\ \A k \in 1 .. n : r[k] = StreakStep(r[k - 1], trades[k])
               /\ \A k \in 0 .. n : r[k] \in Streak
               /\ Streaks(trades) = r[n]
  BY StreaksUnfold
<1> DEFINE wins == [k \in 0 .. n |-> r[k].wins]
           losses == [k \in 0 .. n |-> r[k].losses]
           maxWins == [k \in 0 .. n |-> r[k].maxWins]
           maxLosses == [k \in 0 .. n |-> r[k].maxLosses]
<1>3. wins[0] = 0 /\ losses[0] = 0 /\ maxWins[0] = 0 /\ maxLosses[0] = 0
  <2>1. 0 \in 0 .. n
    BY <1>1
  <2> QED
    BY <1>2, <2>1 DEF StreakStart
<1>4. ASSUME NEW k \in 1 .. n
      PROVE  /\ wins[k] = IF k \in Won THEN wins[k - 1] + 1 ELSE 0
             /\ losses[k] = IF k \in Lost THEN losses[k - 1] + 1 ELSE 0
             /\ maxWins[k] = Larger(maxWins[k - 1], wins[k])
             /\ maxLosses[k] = Larger(maxLosses[k - 1], losses[k])
  <2>1. k \in 0 .. n /\ k - 1 \in 0 .. n
    BY <1>1
  <2>2. r[k] = StreakStep(r[k - 1], trades[k])
    BY <1>2
  <2> DEFINE a == r[k - 1]
             b == r[k]
             t == trades[k]
  <2>3. b.wins = (IF t.pnl > 0 THEN a.wins + 1 ELSE 0)
        /\ b.losses = (IF t.pnl > 0 THEN 0 ELSE a.losses + 1)
    BY <2>2 DEF StreakStep
  <2>4. b.maxWins = Larger(a.maxWins, b.wins) /\ b.maxLosses = Larger(a.maxLosses, b.losses)
    BY <2>2 DEF StreakStep
  <2>5. (k \in Won <=> t.pnl > 0) /\ (k \in Lost <=> ~(t.pnl > 0))
    BY <1>1
  <2>6. wins[k] = b.wins /\ losses[k] = b.losses /\ maxWins[k] = b.maxWins /\ maxLosses[k] = b.maxLosses
    BY <2>1
  <2>7. wins[k - 1] = a.wins /\ losses[k - 1] = a.losses
        /\ maxWins[k - 1] = a.maxWins /\ maxLosses[k - 1] = a.maxLosses
    BY <2>1
  <2> HIDE DEF a, b, t, Won, Lost, wins, losses, maxWins, maxLosses
  <2>8. wins[k] = IF k \in Won THEN wins[k - 1] + 1 ELSE 0
    BY <2>3, <2>5, <2>6, <2>7
  <2>9. losses[k] = IF k \in Lost THEN losses[k - 1] + 1 ELSE 0
    BY <2>3, <2>5, <2>6, <2>7
  <2> QED
    BY <2>4, <2>6, <2>7, <2>8, <2>9
<1>5. Streaks(trades).maxWins = maxWins[n] /\ Streaks(trades).maxLosses = maxLosses[n]
  BY <1>1, <1>2
<1>6. \A m \in 1 .. n, a \in 1 .. n :
        /\ (a + m - 1 <= n /\ \A i \in a .. a + m - 1 : trades[i].pnl > 0)
             <=> (a + m - 1 <= n /\ \A i \in a .. a + m - 1 : i \in Won)
        /\ (a + m - 1 <= n /\ \A i \in a .. a + m - 1 : trades[i].pnl <= 0)
             <=> (a + m - 1 <= n /\ \A i \in a .. a + m - 1 : i \in Lost)
  <2> TAKE m \in 1 .. n, a \in 1 .. n
  <2>1. a + m - 1 <= n => \A i \in a .. a + m - 1 : i \in 1 .. n
    BY <1>1
  <2> QED
    BY <2>1
<1>7. LongestRun(trades, LAMBDA t : t.pnl > 0) = Max({0} \cup RunLengths(Won, n))
  <2>1. {m \in 1 .. n : \E a \in DOMAIN trades :
           a + m - 1 <= n /\ \A i \in a .. a + m - 1 : trades[i].pnl > 0}
        = {m \in 1 .. n : \E a \in 1 .. n : a + m - 1 <= n /\ \A i \in a .. a + m - 1 : i \in Won}
    BY <1>1, <1>6
  <2> QED
    BY <2>1 DEF LongestRun, RunLengths
<1>8. LongestRun(trades, LAMBDA t : t.pnl <= 0) = Max({0} \cup RunLengths(Lost, n))
  <2>1. {m \in 1 .. n : \E a \in DOMAIN trades :
           a + m - 1 <= n /\ \A i \in a .. a + m - 1 : trades[i].pnl <= 0}
        = {m \in 1 .. n : \E a \in 1 .. n : a + m - 1 <= n /\ \A i \in a .. a + m - 1 : i \in Lost}
    BY <1>1, <1>6
  <2> QED
    BY <2>1 DEF LongestRun, RunLengths
<1>9. Won \in SUBSET (1 .. n) /\ Lost \in SUBSET (1 .. n)
  OBVIOUS
<1> HIDE DEF n, Won, Lost, wins, losses, maxWins, maxLosses
<1>10. Counts(wins, maxWins, Won, n) /\ Counts(losses, maxLosses, Lost, n)
  BY <1>3, <1>4 DEF Counts
<1>11. maxWins[n] = Max({0} \cup RunLengths(Won, n))
  BY <1>1, <1>9, <1>10, LongestRunCounted
<1>12. maxLosses[n] = Max({0} \cup RunLengths(Lost, n))
  BY <1>1, <1>9, <1>10, LongestRunCounted
<1> QED
  BY <1>5, <1>7, <1>8, <1>11, <1>12

-----------------------------------------------------------------------------
(* The deviations and the distances.                                       *)

\* There is a downside just when some trade lost.
THEOREM DownsideMeasured ==
  ASSUME NEW trades \in Seq(Trade), NEW total \in Int
  PROVE  Spreads(trades, total).belowZero > 0 <=> \E i \in DOMAIN trades : trades[i].pnl < 0
<1> DEFINE n == Len(trades)
<1>1. n \in Nat /\ DOMAIN trades = 1 .. n /\ \A i \in 1 .. n : trades[i].pnl \in Int
  <2>1. n \in Nat /\ DOMAIN trades = 1 .. n /\ \A i \in 1 .. n : trades[i] \in Trade
    BY LenProperties
  <2> QED
    BY <2>1 DEF Trade
<1>2. PICK r : /\ r[0] = SpreadStart
               /\ \A k \in 1 .. n : r[k] = SpreadStep(r[k - 1], trades[k], n, total)
               /\ \A k \in 0 .. n : r[k] \in SpreadSums
               /\ Spreads(trades, total) = r[n]
  BY SpreadsUnfold
<1> DEFINE below == [k \in 0 .. n |-> r[k].belowZero]
           Lost(k) == \E i \in 1 .. k : trades[i].pnl < 0
           T == {k \in 0 .. n : below[k] \in Int /\ below[k] >= 0 /\ (below[k] > 0 <=> Lost(k))}
<1>3. 0 \in T
  <2>1. 0 \in 0 .. n /\ below[0] = 0
    BY <1>1, <1>2 DEF SpreadStart
  <2>2. ~Lost(0)
    OBVIOUS
  <2> QED
    BY <2>1, <2>2
<1>4. ASSUME NEW k \in 1 .. n, k - 1 \in T PROVE k \in T
  <2> DEFINE x == trades[k].pnl
             sq == x * x
  <2>1. k \in 0 .. n /\ k - 1 \in 0 .. n /\ k \in 1 .. k /\ x \in Int
    BY <1>1
  <2>2. r[k] = SpreadStep(r[k - 1], trades[k], n, total)
    BY <1>2
  <2>3. below[k] = below[k - 1] + (IF x < 0 THEN sq ELSE 0)
    BY <2>1, <2>2 DEF SpreadStep
  <2>4. sq \in Int /\ (x < 0 => sq > 0)
    <3> HIDE DEF x
    <3> QED
      BY <2>1
  <2>5. Lost(k) <=> Lost(k - 1) \/ x < 0
    <3>1. \A i \in 1 .. k : i \in 1 .. k - 1 \/ i = k
      OBVIOUS
    <3>2. \A i \in 1 .. k - 1 : i \in 1 .. k
      OBVIOUS
    <3> QED
      BY <2>1, <3>1, <3>2
  <2>6. below[k - 1] \in Int /\ below[k - 1] >= 0 /\ (below[k - 1] > 0 <=> Lost(k - 1))
    BY <1>4
  <2> HIDE DEF x, sq, below, Lost
  <2>7. below[k] \in Int /\ below[k] >= 0 /\ (below[k] > 0 <=> Lost(k))
    <3>1. CASE x < 0
      <4>1. below[k] = below[k - 1] + sq
        BY <2>3, <3>1
      <4> QED
        BY <2>4, <2>5, <2>6, <3>1, <4>1
    <3>2. CASE ~(x < 0)
      <4>1. below[k] = below[k - 1]
        BY <2>3, <2>6, <3>2
      <4> QED
        BY <2>5, <2>6, <3>2, <4>1
    <3> QED
      BY <3>1, <3>2
  <2> QED
    BY <2>1, <2>7
<1>5. \A k \in 0 .. n : k \in T
  <2> HIDE DEF T
  <2> QED
    BY <1>1, <1>3, <1>4, Counting
<1>6. n \in T /\ below[n] = Spreads(trades, total).belowZero
  BY <1>1, <1>2, <1>5
<1> QED
  BY <1>1, <1>6

\* The solvers need the product multiplied out.
LEMMA SquareOfDifference ==
  ASSUME NEW a \in Int, NEW b \in Int
  PROVE  (a - b) * (a - b) = a * a - 2 * (a * b) + b * b
OBVIOUS

\* p, the partial sums of p, and those of its squares.
SumsOf(p, t, q, n) ==
  /\ t[0] = 0 /\ q[0] = 0
  /\ \A k \in 1 .. n : p[k] \in Int /\ t[k] = t[k - 1] + p[k] /\ q[k] = q[k - 1] + p[k] * p[k]
  /\ \A k \in 0 .. n : t[k] \in Int /\ q[k] \in Int

Pairs(n) == {c \in (1 .. n) \X (1 .. n) : c[1] < c[2]}

PairsUpTo(n, m) == {c \in Pairs(n) : c[2] <= m}

PairsInto(n, m, l) == PairsUpTo(n, m - 1) \cup {c \in Pairs(n) : c[2] = m /\ c[1] <= l}

\* The squares of the distances between n numbers, summed over all pairs.
LEMMA PairsSum ==
  ASSUME NEW n \in Nat, NEW p, NEW t, NEW q, SumsOf(p, t, q, n), NEW f, NEW h,
         AddsUp(h, f, Pairs(n)),
         \A c \in Pairs(n) : f[c] = (p[c[1]] - p[c[2]]) * (p[c[1]] - p[c[2]])
  PROVE  h[Pairs(n)] = n * q[n] - t[n] * t[n]
<1> DEFINE T == {m \in 0 .. n : h[PairsUpTo(n, m)] = m * q[m] - t[m] * t[m]}
<1>1. 0 \in T
  <2>1. PairsUpTo(n, 0) = {}
    BY DEF PairsUpTo, Pairs
  <2>2. h[{}] = 0 /\ q[0] = 0 /\ t[0] = 0
    BY DEF AddsUp, SumsOf
  <2> QED
    BY <2>1, <2>2
<1>2. ASSUME NEW m \in 1 .. n, m - 1 \in T PROVE m \in T
  <2> DEFINE x == p[m]
             u == h[PairsUpTo(n, m - 1)]
             L == {l \in 0 .. m - 1 : h[PairsInto(n, m, l)] = u + q[l] - 2 * (x * t[l]) + l * (x * x)}
  <2>1. m - 1 \in Nat /\ x \in Int /\ m - 1 \in 0 .. n
    BY DEF SumsOf
  <2>2. u = (m - 1) * q[m - 1] - t[m - 1] * t[m - 1]
    BY <1>2
  <2>3. q[m - 1] \in Int /\ t[m - 1] \in Int
    BY <2>1 DEF SumsOf
  <2>4. u \in Int
    BY <2>1, <2>2, <2>3
  <2>5. 0 \in L
    <3>1. PairsInto(n, m, 0) = PairsUpTo(n, m - 1)
      BY DEF PairsInto, PairsUpTo, Pairs
    <3>2. q[0] = 0 /\ t[0] = 0 /\ x * 0 = 0 /\ 0 * (x * x) = 0
      BY <2>1 DEF SumsOf
    <3>3. u + 0 - 2 * 0 + 0 = u
      BY <2>4
    <3> QED
      BY <2>1, <3>1, <3>2, <3>3
  <2>6. ASSUME NEW l \in 1 .. m - 1, l - 1 \in L PROVE l \in L
    <3> DEFINE c == <<l, m>>
               s == PairsInto(n, m, l)
    <3>1. l \in 1 .. n /\ l - 1 \in 0 .. n /\ l \in 0 .. n /\ l \in 0 .. m - 1
      BY <2>1
    <3>2. c \in Pairs(n) /\ c \in s /\ s \ {c} = PairsInto(n, m, l - 1)
      <4>1. c \in Pairs(n)
        BY <3>1 DEF Pairs
      <4>2. c \in s
        BY <3>1, <4>1 DEF PairsInto
      <4>3. \A d \in s \ {c} : d \in PairsInto(n, m, l - 1)
        BY <3>1 DEF PairsInto, PairsUpTo, Pairs
      <4>4. \A d \in PairsInto(n, m, l - 1) : d \in s \ {c}
        BY <3>1 DEF PairsInto, PairsUpTo, Pairs
      <4> QED
        BY <4>1, <4>2, <4>3, <4>4
    <3>3. s \in SUBSET Pairs(n)
      BY DEF PairsInto, PairsUpTo
    <3>4. h[s] = f[c] + h[s \ {c}]
      BY <3>2, <3>3 DEF AddsUp
    <3>5. f[c] = (p[l] - x) * (p[l] - x)
      BY <3>2
    <3>6. p[l] \in Int /\ q[l] = q[l - 1] + p[l] * p[l] /\ t[l] = t[l - 1] + p[l]
          /\ q[l - 1] \in Int /\ t[l - 1] \in Int
      BY <3>1 DEF SumsOf
    <3>7. f[c] = p[l] * p[l] - 2 * (p[l] * x) + x * x
      BY <2>1, <3>5, <3>6, SquareOfDifference
    <3>8. h[s \ {c}] = u + q[l - 1] - 2 * (x * t[l - 1]) + (l - 1) * (x * x)
      BY <2>6, <3>2
    <3> DEFINE y == p[l]
    <3>9. x * t[l] = x * t[l - 1] + x * y
      BY <2>1, <3>6
    <3>10. l * (x * x) = (l - 1) * (x * x) + x * x
      <4> DEFINE z == x * x
      <4>1. z \in Int /\ l \in Int
        BY <2>1
      <4> HIDE DEF z
      <4>2. l * z = (l - 1) * z + z
        BY <4>1
      <4> QED
        BY <4>2 DEF z
    <3>11. y * x = x * y
      BY <2>1, <3>6
    <3>12. h[s] = u + q[l] - 2 * (x * t[l]) + l * (x * x)
      <4> DEFINE xx == x * x
                 yy == y * y
                 xy == x * y
                 yx == y * x
                 xt == x * t[l - 1]
                 xtl == x * t[l]
                 lx == (l - 1) * xx
                 llx == l * xx
                 g == f[c]
                 v == h[s \ {c}]
                 w == h[s]
      <4>1. xx \in Int /\ yy \in Int /\ xy \in Int /\ xt \in Int
        BY <2>1, <3>6
      <4>2. lx \in Int
        <5> HIDE DEF xx
        <5> QED
          BY <4>1
      <4>3. w = g + v /\ g = yy - 2 * yx + xx /\ v = u + q[l - 1] - 2 * xt + lx
            /\ q[l] = q[l - 1] + yy /\ xtl = xt + xy /\ llx = lx + xx /\ yx = xy
        BY <3>4, <3>6, <3>7, <3>8, <3>9, <3>10, <3>11
      <4>4. q[l - 1] \in Int
        BY <3>6
      <4> HIDE DEF xx, yy, xy, yx, xt, xtl, lx, llx, g, v, w, u, x
      <4>5. w = u + q[l] - 2 * xtl + llx
        BY <2>4, <4>1, <4>2, <4>3, <4>4
      <4> QED
        BY <4>5 DEF w, xtl, llx, xx
    <3> QED
      BY <3>1, <3>12
  <2>7. m - 1 \in L
    <3>1. \A l \in 0 .. m - 1 : l \in L
      <4> HIDE DEF L
      <4> QED
        BY <2>1, <2>5, <2>6, Counting
    <3> QED
      BY <2>1, <3>1
  <2>8. PairsInto(n, m, m - 1) = PairsUpTo(n, m)
    BY DEF PairsInto, PairsUpTo, Pairs
  <2>9. h[PairsUpTo(n, m)] = u + q[m - 1] - 2 * (x * t[m - 1]) + (m - 1) * (x * x)
    BY <2>7, <2>8
  <2>10. q[m] = q[m - 1] + x * x /\ t[m] = t[m - 1] + x
    BY DEF SumsOf
  <2>11. h[PairsUpTo(n, m)] = m * q[m] - t[m] * t[m]
    <3> DEFINE a == q[m - 1]
               b == t[m - 1]
               z == x * x
    <3>1. m * (a + z) = (m - 1) * a + a + (m - 1) * z + z
      <4>1. a \in Int /\ z \in Int /\ m \in Int
        BY <2>1, <2>3
      <4> HIDE DEF a, z
      <4> QED
        BY <4>1
    <3>2. (b + x) * (b + x) = b * b + 2 * (x * b) + x * x
      <4>1. b \in Int /\ x \in Int
        BY <2>1, <2>3
      <4> HIDE DEF b, x
      <4> QED
        BY <4>1
    <3> DEFINE ma == (m - 1) * a
               mz == (m - 1) * z
               bb == b * b
               xb == x * b
    <3>3. a \in Int /\ z \in Int /\ m - 1 \in Int /\ bb \in Int /\ xb \in Int
      BY <2>1, <2>3
    <3>4. ma \in Int /\ mz \in Int
      <4> HIDE DEF a, z
      <4> QED
        BY <3>3
    <3> DEFINE g == h[PairsUpTo(n, m)]
               mq == m * q[m]
               tt == t[m] * t[m]
    <3>5. mq = ma + a + mz + z /\ tt = bb + 2 * xb + z
      BY <2>10, <3>1, <3>2
    <3>6. g = ma - bb + a - 2 * xb + mz
      BY <2>2, <2>9
    <3> HIDE DEF a, b, z, ma, mz, bb, xb, g, mq, tt
    <3>7. g = mq - tt
      BY <3>3, <3>4, <3>5, <3>6
    <3> QED
      BY <3>7 DEF g, mq, tt
  <2>12. m \in 0 .. n
    OBVIOUS
  <2> QED
    BY <2>11, <2>12
<1>3. \A m \in 0 .. n : m \in T
  <2> HIDE DEF T
  <2> QED
    BY <1>1, <1>2, Counting
<1>4. PairsUpTo(n, n) = Pairs(n) /\ n \in 0 .. n
  BY DEF PairsUpTo, Pairs
<1> QED
  BY <1>3, <1>4

\* The distances between n numbers, squared and summed, by AddsUp.
LEMMA DistancesAddUp ==
  ASSUME NEW trades \in Seq(Trade)
  PROVE  \E f, h : /\ AddsUp(h, f, Pairs(Len(trades)))
                   /\ \A c \in Pairs(Len(trades)) :
                        f[c] = (trades[c[1]].pnl - trades[c[2]].pnl)
                                 * (trades[c[1]].pnl - trades[c[2]].pnl)
                   /\ SquaredDistances(trades) = Len(trades) * h[Pairs(Len(trades))]
<1> DEFINE n == Len(trades)
           S == Pairs(n)
           d(c) == (trades[c[1]].pnl - trades[c[2]].pnl) * (trades[c[1]].pnl - trades[c[2]].pnl)
           f == [c \in S |-> d(c)]
           Of(g) == g = [s \in SUBSET S |->
                           IF s = {} THEN 0 ELSE d(Pick(s)) + g[s \ {Pick(s)}]]
           h == CHOOSE g : Of(g)
<1>1. n \in Nat /\ DOMAIN trades = 1 .. n /\ \A i \in 1 .. n : trades[i].pnl \in Int
  <2>1. n \in Nat /\ DOMAIN trades = 1 .. n /\ \A i \in 1 .. n : trades[i] \in Trade
    BY LenProperties
  <2> QED
    BY <2>1 DEF Trade
<1>2. IsFiniteSet(S)
  <2>1. IsFiniteSet(1 .. n)
    BY <1>1, FS_Interval
  <2>2. IsFiniteSet((1 .. n) \X (1 .. n))
    BY <2>1, FS_Product
  <2> QED
    BY <2>2, FS_Subset DEF Pairs
<1>3. f \in [S -> Int]
  <2>1. ASSUME NEW c \in S PROVE d(c) \in Int
    <3>1. c[1] \in 1 .. n /\ c[2] \in 1 .. n
      BY DEF Pairs
    <3>2. trades[c[1]].pnl \in Int /\ trades[c[2]].pnl \in Int
      BY <1>1, <3>1
    <3> QED
      BY <3>2
  <2> QED
    BY <2>1
<1>4. \A c \in S : f[c] = d(c)
  OBVIOUS
<1>5. SquaredDistances(trades) = n * h[S]
  <2>1. {c \in (DOMAIN trades) \X (DOMAIN trades) : c[1] < c[2]} = S
    BY <1>1 DEF Pairs
  <2>2. MapThenSumSet(d, S) = h[S]
    BY DEF MapThenSumSet, MapThenFoldSet, Pick
  <2> QED
    BY <2>1, <2>2 DEF SquaredDistances
<1>6. \A g : Of(g) <=> Unfolds(g, f, S)
  <2>1. \A s \in SUBSET S : s # {} => d(Pick(s)) = f[Pick(s)]
    <3> HIDE DEF d, f
    <3> QED
      BY <1>4 DEF Pick
  <2> HIDE DEF d, f
  <2> TAKE g
  <2>2. [s \in SUBSET S |-> IF s = {} THEN 0 ELSE d(Pick(s)) + g[s \ {Pick(s)}]]
        = [s \in SUBSET S |-> IF s = {} THEN 0 ELSE f[Pick(s)] + g[s \ {Pick(s)}]]
    BY <2>1, Zenon
  <2> QED
    BY <2>2 DEF Unfolds
<1> HIDE DEF f, h, S, Of
<1>7. Unfolds(h, f, S)
  <2>1. PICK g : Unfolds(g, f, S)
    BY <1>2, <1>3, SumsDefined
  <2>2. Of(g)
    BY <1>6, <2>1
  <2>3. Of(h)
    BY <2>2 DEF h
  <2> QED
    BY <1>6, <2>3
<1>8. AddsUp(h, f, S)
  BY <1>2, <1>3, <1>7, UnfoldsAddsUp
<1> QED
  BY <1>4, <1>5, <1>8 DEF S

\* n squared times the variance, as the code takes it from the mean, is what the
\* distances between the trades come to.
THEOREM SpreadMeasured ==
  ASSUME NEW trades \in Seq(Trade)
  PROVE  Spreads(trades, Basic(trades).total).around = SquaredDistances(trades)
<1> DEFINE n == Len(trades)
           p == [k \in 1 .. n |-> trades[k].pnl]
           t == [k \in 0 .. n |-> Curve(trades, k)]
           total == Basic(trades).total
<1>1. n \in Nat /\ DOMAIN trades = 1 .. n /\ \A i \in 1 .. n : trades[i].pnl \in Int
  <2>1. n \in Nat /\ DOMAIN trades = 1 .. n /\ \A i \in 1 .. n : trades[i] \in Trade
    BY LenProperties
  <2> QED
    BY <2>1 DEF Trade
<1>2. total = t[n] /\ t[n] \in Int
  BY <1>1, TotalIsCurve, CurveSteps
<1>3. PICK q : /\ q[0] = 0
               /\ \A k \in 1 .. n : q[k] = q[k - 1] + p[k] * p[k]
               /\ \A k \in 0 .. n : q[k] \in Int
  <2> DEFINE sq == [k \in 1 .. n |-> p[k] * p[k]]
  <2>1. sq \in [1 .. n -> Int]
    BY <1>1
  <2>2. PICK q : /\ q[0] = 0
                 /\ \A k \in 1 .. n : q[k] = q[k - 1] + sq[k]
                 /\ \A k \in 0 .. n : q[k] \in Int
    <3> HIDE DEF sq
    <3> QED
      BY <1>1, <2>1, PartialSums
  <2> QED
    BY <2>2
<1>4. SumsOf(p, t, q, n)
  <2>1. t[0] = 0
    BY <1>1, CurveSteps
  <2>2. ASSUME NEW k \in 1 .. n
        PROVE  p[k] \in Int /\ t[k] = t[k - 1] + p[k]
    BY <1>1, CurveSteps
  <2>3. \A k \in 0 .. n : t[k] \in Int
    BY CurveSteps
  <2> HIDE DEF p, t, n
  <2> QED
    BY <1>3, <2>1, <2>2, <2>3 DEF SumsOf
<1>5. SquaredDistances(trades) = n * (n * q[n] - t[n] * t[n])
  <2>1. PICK f, h : /\ AddsUp(h, f, Pairs(n))
                    /\ \A c \in Pairs(n) :
                         f[c] = (trades[c[1]].pnl - trades[c[2]].pnl)
                                  * (trades[c[1]].pnl - trades[c[2]].pnl)
                    /\ SquaredDistances(trades) = n * h[Pairs(n)]
    BY DistancesAddUp
  <2>2. \A c \in Pairs(n) : f[c] = (p[c[1]] - p[c[2]]) * (p[c[1]] - p[c[2]])
    <3> TAKE c \in Pairs(n)
    <3>1. c[1] \in 1 .. n /\ c[2] \in 1 .. n
      BY DEF Pairs
    <3>2. p[c[1]] = trades[c[1]].pnl /\ p[c[2]] = trades[c[2]].pnl
      BY <3>1
    <3> QED
      BY <2>1, <3>2
  <2>3. h[Pairs(n)] = n * q[n] - t[n] * t[n]
    <3> HIDE DEF n, p, t
    <3> QED
      BY <1>1, <1>4, <2>1, <2>2, PairsSum
  <2> QED
    BY <2>1, <2>3
<1>6. PICK r : /\ r[0] = SpreadStart
               /\ \A k \in 1 .. n : r[k] = SpreadStep(r[k - 1], trades[k], n, total)
               /\ \A k \in 0 .. n : r[k] \in SpreadSums
               /\ Spreads(trades, total) = r[n]
  BY <1>2, SpreadsUnfold
<1> DEFINE around == [k \in 0 .. n |-> r[k].around]
           Sum(k) == (n * n) * q[k] - 2 * ((n * total) * t[k]) + k * (total * total)
           T == {k \in 0 .. n : around[k] = Sum(k)}
<1>7. 0 \in T
  <2>1. 0 \in 0 .. n /\ around[0] = 0 /\ q[0] = 0 /\ t[0] = 0
    BY <1>1, <1>3, <1>4, <1>6 DEF SpreadStart, SumsOf
  <2>2. n \in Int /\ total \in Int
    BY <1>1, <1>2
  <2>3. (n * n) * 0 - 2 * ((n * total) * 0) + 0 * (total * total) = 0
    <3> HIDE DEF n, total
    <3> QED
      BY <2>2
  <2> QED
    BY <2>1, <2>3
<1>8. ASSUME NEW k \in 1 .. n, k - 1 \in T PROVE k \in T
  <2> DEFINE x == p[k]
             diff == n * x - total
  <2>1. k \in 0 .. n /\ k - 1 \in 0 .. n /\ n \in Int /\ total \in Int /\ x \in Int
    BY <1>1, <1>2
  <2>2. around[k] = around[k - 1] + diff * diff
    <3>1. r[k] = SpreadStep(r[k - 1], trades[k], n, total)
      BY <1>6
    <3> QED
      BY <2>1, <3>1 DEF SpreadStep
  <2>3. q[k] = q[k - 1] + x * x /\ t[k] = t[k - 1] + x /\ q[k - 1] \in Int /\ t[k - 1] \in Int
    BY <1>4, <2>1 DEF SumsOf
  <2>4. around[k - 1] = Sum(k - 1)
    BY <1>8
  <2> HIDE DEF n, x, total
  <2>5. diff * diff = (n * n) * (x * x) - 2 * ((n * total) * x) + total * total
    <3>1. n * x \in Int
      BY <2>1
    <3>2. diff * diff = (n * x) * (n * x) - 2 * ((n * x) * total) + total * total
      BY <2>1, <3>1, SquareOfDifference
    <3>3. (n * x) * (n * x) = (n * n) * (x * x)
      BY <2>1
    <3>4. (n * x) * total = (n * total) * x
      BY <2>1
    <3> QED
      BY <3>2, <3>3, <3>4
  <2> DEFINE nn == n * n
             nt == n * total
             tt == total * total
             xx == x * x
  <2>6. nn \in Int /\ nt \in Int /\ tt \in Int /\ xx \in Int
    BY <2>1
  <2> HIDE DEF nn, nt, tt, xx
  <2>7. nn * (q[k - 1] + xx) = nn * q[k - 1] + nn * xx
    BY <2>3, <2>6
  <2>8. nt * (t[k - 1] + x) = nt * t[k - 1] + nt * x
    BY <2>1, <2>3, <2>6
  <2>9. k * tt = (k - 1) * tt + tt
    BY <2>6
  <2> DEFINE a1 == nn * q[k - 1]
             a2 == nn * xx
             b1 == nt * t[k - 1]
             b2 == nt * x
             c1 == (k - 1) * tt
  <2>10. a1 \in Int /\ a2 \in Int /\ b1 \in Int /\ b2 \in Int /\ c1 \in Int
    BY <2>1, <2>3, <2>6
  <2>11. Sum(k) = nn * (q[k - 1] + xx) - 2 * (nt * (t[k - 1] + x)) + k * tt
    BY <2>3 DEF nn, nt, tt, xx
  <2>12. Sum(k - 1) = a1 - 2 * b1 + c1
    BY DEF nn, nt, tt
  <2>13. diff * diff = a2 - 2 * b2 + tt
    BY <2>5 DEF nn, nt, tt, xx
  <2>14. Sum(k) = (a1 + a2) - 2 * (b1 + b2) + (c1 + tt)
    BY <2>7, <2>8, <2>9, <2>11
  <2> DEFINE dd == diff * diff
             s0 == Sum(k - 1)
             s1 == Sum(k)
  <2>15. dd = a2 - 2 * b2 + tt /\ s0 = a1 - 2 * b1 + c1
         /\ s1 = (a1 + a2) - 2 * (b1 + b2) + (c1 + tt)
    BY <2>12, <2>13, <2>14
  <2>16. around[k - 1] = s0 /\ around[k] = around[k - 1] + dd
    BY <2>2, <2>4
  <2>17. s1 = s0 + dd
    <3> HIDE DEF a1, a2, b1, b2, c1, dd, s0, s1
    <3> QED
      BY <2>6, <2>10, <2>15
  <2>18. around[k] = Sum(k)
    BY <2>16, <2>17
  <2> QED
    BY <2>1, <2>18 DEF n
<1>9. \A k \in 0 .. n : k \in T
  <2> HIDE DEF T
  <2> QED
    BY <1>1, <1>7, <1>8, Counting
<1>10. Spreads(trades, total).around = Sum(n)
  <2>1. n \in 0 .. n
    BY <1>1
  <2>2. around[n] = Sum(n)
    BY <1>9, <2>1
  <2> QED
    BY <1>6, <2>1, <2>2
<1>11. Sum(n) = n * (n * q[n] - t[n] * t[n])
  <2>1. n \in Int /\ t[n] \in Int /\ q[n] \in Int /\ total = t[n]
    BY <1>1, <1>2, <1>3
  <2> DEFINE y == q[n]
             z == total
  <2>2. z \in Int /\ y \in Int /\ t[n] = z
    BY <2>1
  <2> HIDE DEF n, y, z
  <2>3. (n * n) * y - 2 * ((n * z) * z) + n * (z * z) = n * (n * y - z * z)
    BY <2>1, <2>2
  <2> QED
    BY <2>2, <2>3 DEF y, z
<1> QED
  BY <1>5, <1>10, <1>11

-----------------------------------------------------------------------------
(* The falls.                                                              *)

\* One step of the risk figures, in terms of the curve and of its high.
RiskFollows(r, trades) ==
  /\ r[0] = RiskStart(trades)
  /\ \A k \in 0 .. Len(trades) :
       r[k] \in RiskState /\ r[k].equity = Curve(trades, k) /\ r[k].peak = HighUpTo(trades, k)
  /\ \A k \in 1 .. Len(trades) :
       LET c == Curve(trades, k)
           old == HighUpTo(trades, k - 1)
           high == HighUpTo(trades, k)
           exitAt == trades[k].exitAt
       IN  /\ r[k].maxDD = IF high > c THEN Larger(r[k - 1].maxDD, high - c) ELSE r[k - 1].maxDD
           /\ r[k].maxDuration = IF c > old /\ r[k - 1].under
                                 THEN Larger(r[k - 1].maxDuration, exitAt - r[k - 1].start)
                                 ELSE r[k - 1].maxDuration
           /\ r[k].lastPeak = IF c > old THEN exitAt ELSE r[k - 1].lastPeak
           /\ r[k].start = IF high > c /\ ~r[k - 1].under THEN r[k - 1].lastPeak ELSE r[k - 1].start
           /\ r[k].under <=> (r[k - 1].under /\ ~(c > old)) \/ high > c
  /\ RiskEnd(trades) = r[Len(trades)]

\* The state of calcRiskMetrics after each trade, as curve and highs give it.
LEMMA RiskFollowsCurve ==
  ASSUME NEW trades \in Seq(Trade), trades # << >>
  PROVE  \E r : RiskFollows(r, trades)
<1> DEFINE n == Len(trades)
<1>1. n \in Nat /\ \A i \in 1 .. n : trades[i] \in Trade /\ trades[i].pnl \in Int
  <2>1. n \in Nat /\ \A i \in 1 .. n : trades[i] \in Trade
    BY LenProperties
  <2> QED
    BY <2>1 DEF Trade
<1>2. PICK r : /\ r[0] = RiskStart(trades)
               /\ \A k \in 1 .. n : r[k] = RiskStep(r[k - 1], trades[k])
               /\ \A k \in 0 .. n : r[k] \in RiskState
               /\ RiskEnd(trades) = r[n]
  BY RiskUnfold
<1> DEFINE Same(k) == r[k].equity = Curve(trades, k) /\ r[k].peak = HighUpTo(trades, k)
           T == {k \in 0 .. n : Same(k)}
<1>3. 0 \in T
  <2>1. r[0].equity = 0 /\ r[0].peak = 0
    BY <1>2 DEF RiskStart
  <2> QED
    BY <1>1, <2>1, CurveSteps, HighSteps
<1>4. ASSUME NEW k \in 1 .. n, Same(k - 1)
      PROVE  LET c == Curve(trades, k)
                 old == HighUpTo(trades, k - 1)
                 high == HighUpTo(trades, k)
                 exitAt == trades[k].exitAt
             IN  /\ Same(k)
                 /\ r[k].maxDD = IF high > c THEN Larger(r[k - 1].maxDD, high - c) ELSE r[k - 1].maxDD
                 /\ r[k].maxDuration = IF c > old /\ r[k - 1].under
                                       THEN Larger(r[k - 1].maxDuration, exitAt - r[k - 1].start)
                                       ELSE r[k - 1].maxDuration
                 /\ r[k].lastPeak = IF c > old THEN exitAt ELSE r[k - 1].lastPeak
                 /\ r[k].start = IF high > c /\ ~r[k - 1].under THEN r[k - 1].lastPeak
                                                                ELSE r[k - 1].start
                 /\ r[k].under <=> (r[k - 1].under /\ ~(c > old)) \/ high > c
  <2> DEFINE a == r[k - 1]
             b == r[k]
             t == trades[k]
             c == Curve(trades, k)
             old == HighUpTo(trades, k - 1)
             high == HighUpTo(trades, k)
             e == a.equity + t.pnl
  <2>1. k \in 0 .. n /\ k - 1 \in 0 .. n /\ t \in Trade
    BY <1>1
  <2>2. b = RiskStep(a, t) /\ a \in RiskState
    BY <1>2, <2>1
  <2>3. e = c /\ c \in Int /\ old \in Int /\ high = Larger(old, c) /\ a.peak = old
    <3>1. c = Curve(trades, k - 1) + t.pnl
      BY CurveSteps
    <3>2. c \in Int /\ old \in Int /\ high = Larger(old, c)
      BY <2>1, CurveSteps, HighSteps
    <3> QED
      BY <1>4, <3>1, <3>2
  <2>4. high = (IF c > old THEN c ELSE old) /\ (high > c <=> old > c) /\ (old > c => high = old)
    BY <2>3 DEF Larger
  <2> HIDE DEF c, old, high, a, t
  <2>5. b = [equity |-> e,
             peak |-> IF e > a.peak THEN e ELSE a.peak,
             maxDD |-> IF a.peak > e THEN Larger(a.maxDD, a.peak - e) ELSE a.maxDD,
             ddCount |-> IF a.peak > e THEN a.ddCount + 1 ELSE a.ddCount,
             ddSum |-> IF a.peak > e THEN a.ddSum + a.peak - e ELSE a.ddSum,
             maxDuration |-> IF e > a.peak /\ a.under THEN Larger(a.maxDuration, t.exitAt - a.start)
                                                      ELSE a.maxDuration,
             lastPeak |-> IF e > a.peak THEN t.exitAt ELSE a.lastPeak,
             start |-> IF a.peak > e /\ ~a.under THEN a.lastPeak ELSE a.start,
             under |-> (a.under /\ ~(e > a.peak)) \/ a.peak > e]
    BY <2>1, <2>2, RiskStepGives
  <2> HIDE DEF b, e
  <2>6. b.equity = c /\ b.peak = high
    BY <2>3, <2>4, <2>5
  <2>7. b.maxDD = IF high > c THEN Larger(a.maxDD, high - c) ELSE a.maxDD
    BY <2>3, <2>4, <2>5
  <2>8. b.maxDuration = IF c > old /\ a.under THEN Larger(a.maxDuration, t.exitAt - a.start)
                                              ELSE a.maxDuration
    BY <2>3, <2>5
  <2>9. b.lastPeak = IF c > old THEN t.exitAt ELSE a.lastPeak
    BY <2>3, <2>5
  <2>10. b.start = IF high > c /\ ~a.under THEN a.lastPeak ELSE a.start
    BY <2>3, <2>4, <2>5
  <2>11. b.under <=> (a.under /\ ~(c > old)) \/ high > c
    BY <2>3, <2>4, <2>5
  <2> QED
    BY <2>6, <2>7, <2>8, <2>9, <2>10, <2>11 DEF a, b, c, old, high, t
<1>5. \A k \in 1 .. n : k - 1 \in T => k \in T
  <2> SUFFICES ASSUME NEW k \in 1 .. n, k - 1 \in T PROVE k \in T
    OBVIOUS
  <2>1. Same(k)
    BY <1>4
  <2> QED
    BY <1>1, <2>1
<1>6. \A k \in 0 .. n : Same(k)
  <2>1. \A k \in 0 .. n : k \in T
    <3> HIDE DEF T
    <3> QED
      BY <1>1, <1>3, <1>5, Counting
  <2> QED
    BY <2>1
<1>7. \A k \in 1 .. n : Same(k - 1)
  BY <1>1, <1>6
<1> HIDE DEF Same, n
<1>8. \A k \in 0 .. n : r[k] \in RiskState /\ r[k].equity = Curve(trades, k)
                        /\ r[k].peak = HighUpTo(trades, k)
  BY <1>2, <1>6 DEF Same
<1>9. \A k \in 1 .. n :
       LET c == Curve(trades, k)
           old == HighUpTo(trades, k - 1)
           high == HighUpTo(trades, k)
           exitAt == trades[k].exitAt
       IN  /\ r[k].maxDD = IF high > c THEN Larger(r[k - 1].maxDD, high - c) ELSE r[k - 1].maxDD
           /\ r[k].maxDuration = IF c > old /\ r[k - 1].under
                                 THEN Larger(r[k - 1].maxDuration, exitAt - r[k - 1].start)
                                 ELSE r[k - 1].maxDuration
           /\ r[k].lastPeak = IF c > old THEN exitAt ELSE r[k - 1].lastPeak
           /\ r[k].start = IF high > c /\ ~r[k - 1].under THEN r[k - 1].lastPeak ELSE r[k - 1].start
           /\ r[k].under <=> (r[k - 1].under /\ ~(c > old)) \/ high > c
  BY <1>4, <1>7
<1> QED
  BY <1>2, <1>8, <1>9 DEF RiskFollows, n

\* The fall still open at the end is closed by the last trade.
LEMMA RiskOfEnd ==
  ASSUME NEW trades, RiskEnd(trades) \in RiskState
  PROVE  /\ Risk(trades).maxDD = RiskEnd(trades).maxDD
         /\ Risk(trades).maxDuration =
              IF RiskEnd(trades).under
              THEN Larger(RiskEnd(trades).maxDuration,
                          trades[Len(trades)].exitAt - RiskEnd(trades).start)
              ELSE RiskEnd(trades).maxDuration
<1> DEFINE end == RiskEnd(trades)
           d == IF end.under THEN Larger(end.maxDuration, trades[Len(trades)].exitAt - end.start)
                             ELSE end.maxDuration
<1>1. Risk(trades) = [end EXCEPT !.maxDuration = d]
  BY DEF Risk, RiskEnd
<1>2. end \in RiskState
  OBVIOUS
<1> HIDE DEF end, d
<1>3. [end EXCEPT !.maxDuration = d].maxDD = end.maxDD
      /\ [end EXCEPT !.maxDuration = d].maxDuration = d
  BY <1>2 DEF RiskState
<1> QED
  BY <1>1, <1>3 DEF end, d

\* calcRiskMetrics finds the deepest fall of the curve below a high before it.
THEOREM FallMeasured ==
  ASSUME NEW trades \in Seq(Trade), trades # << >>
  PROVE  Risk(trades).maxDD = DeepestFall(trades)
<1> DEFINE n == Len(trades)
           fall(k) == HighUpTo(trades, k) - Curve(trades, k)
<1>1. n \in Nat /\ DOMAIN trades = 1 .. n
  BY LenProperties
<1>2. PICK r : RiskFollows(r, trades)
  BY RiskFollowsCurve
<1> DEFINE m == [k \in 0 .. n |-> r[k].maxDD]
           Deepest(k) == /\ m[k] \in Int /\ m[k] >= 0
                         /\ \A j \in 1 .. k : fall(j) <= m[k]
                         /\ m[k] # 0 => \E j \in 1 .. k : fall(j) > 0 /\ m[k] = fall(j)
           T == {k \in 0 .. n : Deepest(k)}
<1>3. \A k \in 1 .. n : HighUpTo(trades, k) \in Int /\ Curve(trades, k) \in Int /\ fall(k) \in Int
  BY <1>1, CurveSteps, HighSteps
<1>4. 0 \in T
  <2>1. 0 \in 0 .. n /\ m[0] = 0
    BY <1>1, <1>2 DEF RiskFollows, RiskStart
  <2> QED
    BY <2>1
<1>5. ASSUME NEW k \in 1 .. n, k - 1 \in T PROVE k \in T
  <2> DEFINE f == fall(k)
  <2>1. k \in 0 .. n /\ k - 1 \in 0 .. n /\ f \in Int /\ Deepest(k - 1)
    <3>1. k \in 0 .. n /\ k - 1 \in 0 .. n
      BY <1>1
    <3>2. Deepest(k - 1)
      BY <1>5
    <3> HIDE DEF Deepest
    <3> QED
      BY <1>3, <3>1, <3>2
  <2>2. m[k] = IF f > 0 THEN Larger(m[k - 1], f) ELSE m[k - 1]
    <3>1. r[k].maxDD = IF HighUpTo(trades, k) > Curve(trades, k)
                       THEN Larger(r[k - 1].maxDD, f) ELSE r[k - 1].maxDD
      BY <1>2 DEF RiskFollows
    <3>2. HighUpTo(trades, k) > Curve(trades, k) <=> f > 0
      BY <1>3
    <3> QED
      BY <2>1, <3>1, <3>2
  <2>3. \A j \in 1 .. k : j = k \/ j \in 1 .. k - 1
    OBVIOUS
  <2>4. \A j \in 1 .. k - 1 : j \in 1 .. k /\ fall(j) \in Int
    BY <1>3
  <2> HIDE DEF m
  <2>5. m[k] \in Int /\ m[k] >= 0 /\ m[k] >= m[k - 1] /\ m[k] >= f
    BY <2>1, <2>2 DEF Larger
  <2>6. \A j \in 1 .. k : fall(j) <= m[k]
    <3> TAKE j \in 1 .. k
    <3>1. CASE j = k
      BY <2>1, <2>5, <3>1
    <3>2. CASE j \in 1 .. k - 1
      <4>1. fall(j) <= m[k - 1] /\ fall(j) \in Int
        BY <2>1, <2>4, <3>2
      <4> HIDE DEF fall
      <4> QED
        BY <2>1, <2>5, <4>1
    <3> QED
      BY <2>3, <3>1, <3>2
  <2>7. m[k] # 0 => \E j \in 1 .. k : fall(j) > 0 /\ m[k] = fall(j)
    <3>1. CASE f > 0 /\ m[k] = f
      BY <3>1
    <3>2. CASE m[k] = m[k - 1]
      BY <2>1, <2>4, <3>2
    <3> QED
      BY <2>2, <3>1, <3>2 DEF Larger
  <2>8. Deepest(k)
    BY <2>5, <2>6, <2>7
  <2> HIDE DEF Deepest
  <2> QED
    BY <2>1, <2>8
<1>6. \A k \in 0 .. n : k \in T
  <2> HIDE DEF T
  <2> QED
    BY <1>1, <1>4, <1>5, Counting
<1>7. n \in 0 .. n /\ Deepest(n)
  BY <1>1, <1>6
<1> DEFINE S == {0} \cup {fall(k) : k \in UnderWater(trades)}
<1>8. UnderWater(trades) = {k \in 1 .. n : fall(k) > 0}
  <2>1. \A k \in 1 .. n : Curve(trades, k) < HighUpTo(trades, k) <=> fall(k) > 0
    BY <1>3
  <2> HIDE DEF fall
  <2> QED
    BY <1>1, <2>1 DEF UnderWater
<1> HIDE DEF m, fall, n
<1>9. S \subseteq Int
  BY <1>3, <1>8
<1>10. m[n] \in S
  BY <1>7, <1>8
<1>11. \A y \in S : m[n] >= y
  <2> TAKE y \in S
  <2>1. CASE y = 0
    BY <1>7, <2>1
  <2>2. CASE \E k \in UnderWater(trades) : y = fall(k)
    <3>1. PICK k \in UnderWater(trades) : y = fall(k)
      BY <2>2
    <3>2. k \in 1 .. n
      BY <1>8, <3>1
    <3>3. fall(k) \in Int /\ fall(k) <= m[n] /\ m[n] \in Int
      BY <1>3, <1>7, <3>2
    <3> QED
      BY <3>1, <3>3
  <2> QED
    BY <2>1, <2>2
<1>12. Max(S) = m[n]
  <2> HIDE DEF S
  <2> QED
    BY <1>9, <1>10, <1>11, IsMax
<1>13. DeepestFall(trades) = Max(S)
  BY DEF DeepestFall, fall
<1>14. Risk(trades).maxDD = m[n]
  <2>1. Risk(trades).maxDD = RiskEnd(trades).maxDD
    <3>1. RiskEnd(trades) \in RiskState
      BY <1>2, <1>7 DEF RiskFollows, n
    <3> QED
      BY <3>1, RiskOfEnd
  <2>2. RiskEnd(trades) = r[n]
    BY <1>2 DEF RiskFollows, n
  <2> QED
    BY <1>7, <2>1, <2>2 DEF m
<1> QED
  BY <1>12, <1>13, <1>14

\* The high never falls, and no place before is above it.
LEMMA HighGrows ==
  ASSUME NEW trades \in Seq(Trade), NEW k \in 0 .. Len(trades), NEW j \in 0 .. k
  PROVE  /\ HighUpTo(trades, j) <= HighUpTo(trades, k)
         /\ Curve(trades, j) <= HighUpTo(trades, k)
         /\ HighUpTo(trades, j) \in Int /\ HighUpTo(trades, k) \in Int /\ Curve(trades, j) \in Int
<1> DEFINE n == Len(trades)
           hi == [i \in 0 .. n |-> HighUpTo(trades, i)]
           T == {i \in 0 .. k : \A l \in 0 .. i : hi[l] <= hi[i]}
<1>1. n \in Nat /\ k \in Nat /\ \A i \in 0 .. k : i \in 0 .. n
  BY LenProperties
<1>2. \A i \in 0 .. n : hi[i] \in Int /\ hi[i] = HighUpTo(trades, i)
  BY HighSteps
<1>3. \A i \in 1 .. n : hi[i] >= hi[i - 1]
  <2> TAKE i \in 1 .. n
  <2>1. i \in 0 .. n /\ i - 1 \in 0 .. n
    BY <1>1
  <2>2. HighUpTo(trades, i) = Larger(HighUpTo(trades, i - 1), Curve(trades, i))
        /\ Curve(trades, i) \in Int
    BY <2>1, HighSteps, CurveSteps
  <2> QED
    BY <1>2, <2>1, <2>2 DEF Larger
<1> HIDE DEF hi
<1>4. 0 \in T
  <2>1. hi[0] \in Int /\ 0 \in 0 .. k
    BY <1>1, <1>2
  <2>2. hi[0] <= hi[0]
    BY <2>1
  <2> QED
    BY <2>1, <2>2
<1>5. ASSUME NEW i \in 1 .. k, i - 1 \in T PROVE i \in T
  <2>1. i \in 0 .. k /\ i \in 0 .. n /\ i - 1 \in 0 .. n /\ i \in 1 .. n
    BY <1>1
  <2>2. hi[i] >= hi[i - 1] /\ hi[i] \in Int /\ hi[i - 1] \in Int
    BY <1>2, <1>3, <2>1
  <2>3. \A l \in 0 .. i : hi[l] <= hi[i]
    <3> TAKE l \in 0 .. i
    <3>1. CASE l = i
      BY <2>2, <3>1
    <3>2. CASE l # i
      <4>1. l \in 0 .. i - 1 /\ l \in 0 .. n
        BY <1>1, <3>2
      <4>2. hi[l] <= hi[i - 1] /\ hi[l] \in Int
        BY <1>2, <1>5, <4>1
      <4> QED
        BY <2>2, <4>2
    <3> QED
      BY <3>1, <3>2
  <2> QED
    BY <2>1, <2>3
<1>6. \A i \in 0 .. k : i \in T
  <2> HIDE DEF T
  <2> QED
    BY <1>1, <1>4, <1>5, Counting
<1>7. k \in T /\ j \in 0 .. n
  BY <1>1, <1>6
<1>8. hi[j] <= hi[k]
  BY <1>7
<1>9. Curve(trades, j) <= HighUpTo(trades, j) /\ Curve(trades, j) \in Int
  BY <1>7, HighSteps, CurveSteps
<1> QED
  BY <1>1, <1>2, <1>7, <1>8, <1>9

-----------------------------------------------------------------------------
(* A fall runs from the trade that set the high to the first above it.     *)

\* The first places at the high of place k, and the ones above it from k on.
At(trades, k) == {j \in 1 .. k : Curve(trades, j) = HighUpTo(trades, k)}

Above(trades, k) == {j \in k .. Len(trades) : Curve(trades, j) > HighUpTo(trades, k)}

Origin(trades, k) == IF HighUpTo(trades, k) = 0 \/ At(trades, k) = {} THEN 1 ELSE Min(At(trades, k))

Closing(trades, k) == IF Above(trades, k) = {} THEN Len(trades) ELSE Min(Above(trades, k))

LEMMA TimeFromOriginToClosing ==
  ASSUME NEW trades, NEW k
  PROVE  TimeUnderWater(trades, k) =
           trades[Closing(trades, k)].exitAt - trades[Origin(trades, k)].exitAt
BY DEF TimeUnderWater, Closing, Origin, At, Above

\* A trade that makes a new high has its origin at itself.
LEMMA OriginOfNewHigh ==
  ASSUME NEW trades \in Seq(Trade), NEW k \in 1 .. Len(trades),
         Curve(trades, k) > HighUpTo(trades, k - 1)
  PROVE  HighUpTo(trades, k) = Curve(trades, k) /\ Origin(trades, k) = k
<1> DEFINE n == Len(trades)
<1>1. n \in Nat /\ k \in 0 .. n /\ k - 1 \in 0 .. n
  BY LenProperties
<1>2. HighUpTo(trades, k - 1) \in Int /\ Curve(trades, k) \in Int
      /\ HighUpTo(trades, k) = Larger(HighUpTo(trades, k - 1), Curve(trades, k))
  BY <1>1, HighSteps, CurveSteps
<1>3. HighUpTo(trades, k) = Curve(trades, k)
  BY <1>2 DEF Larger
<1>4. \A j \in 1 .. k : j # k => Curve(trades, j) # Curve(trades, k)
  <2> SUFFICES ASSUME NEW j \in 1 .. k, j # k PROVE Curve(trades, j) # Curve(trades, k)
    OBVIOUS
  <2>1. j \in 0 .. k - 1
    OBVIOUS
  <2>2. Curve(trades, j) <= HighUpTo(trades, k - 1) /\ Curve(trades, j) \in Int
    BY <1>1, <2>1, HighGrows
  <2> QED
    BY <1>2, <2>2
<1>5. At(trades, k) = {k}
  BY <1>3, <1>4 DEF At
<1>6. Min({k}) = k
  <2> DEFINE S == {k}
  <2>1. S \subseteq Int /\ k \in S /\ \A y \in S : k <= y
    OBVIOUS
  <2> HIDE DEF S
  <2>2. Min(S) = k
    BY <2>1, IsMin
  <2> QED
    BY <2>2 DEF S
<1>7. HighUpTo(trades, k) # 0
  <2>1. 0 \in 0 .. k - 1
    OBVIOUS
  <2>2. Curve(trades, 0) <= HighUpTo(trades, k - 1)
    BY <1>1, <2>1, HighGrows
  <2>3. Curve(trades, 0) = 0
    BY CurveSteps
  <2> QED
    BY <1>2, <1>3, <2>2, <2>3
<1> QED
  BY <1>3, <1>5, <1>6, <1>7 DEF Origin

\* While the high stays the same, so does the trade that set it.
LEMMA OriginOfSameHigh ==
  ASSUME NEW trades \in Seq(Trade), NEW k \in 0 .. Len(trades), NEW j \in 0 .. k,
         HighUpTo(trades, j) = HighUpTo(trades, k)
  PROVE  Origin(trades, j) = Origin(trades, k)
<1>1. Len(trades) \in Nat /\ j \in 0 .. Len(trades)
  BY LenProperties
<1>2. CASE HighUpTo(trades, k) = 0
  BY <1>2 DEF Origin
<1>3. CASE HighUpTo(trades, k) # 0
  <2> DEFINE A == At(trades, j)
             B == At(trades, k)
  <2>1. A \subseteq B /\ B \subseteq Nat
    BY DEF At
  <2>2. A # {}
    <3>1. PICK i \in 0 .. j : HighUpTo(trades, j) = Curve(trades, i)
      BY <1>1, HighSteps
    <3>2. i # 0
      BY <1>3, <3>1, CurveSteps
    <3>3. i \in 1 .. j
      BY <3>2
    <3> QED
      BY <3>1, <3>3 DEF At
  <2>3. PICK a \in A : \A y \in A : a <= y
    <3>1. A \subseteq Nat
      BY <2>1
    <3> HIDE DEF A
    <3> QED
      BY <2>2, <3>1, LeastNatural
  <2>4. \A y \in B : a <= y
    <3> TAKE y \in B
    <3>1. CASE y <= j
      <4>1. y \in A
        BY <3>1 DEF At
      <4> QED
        BY <2>3, <4>1
    <3>2. CASE ~(y <= j)
      <4>1. a <= j /\ a \in Int /\ y \in Int /\ j \in Int
        BY DEF At
      <4> QED
        BY <3>2, <4>1
    <3> QED
      BY <3>1, <3>2
  <2>5. Min(A) = a
    <3>1. A \subseteq Int
      BY <2>1
    <3> HIDE DEF A
    <3> QED
      BY <2>3, <3>1, IsMin
  <2>6. Min(B) = a
    <3>1. B \subseteq Int /\ a \in B
      BY <2>1
    <3> HIDE DEF B, A
    <3> QED
      BY <2>4, <3>1, IsMin
  <2>7. B # {}
    BY <2>1, <2>2
  <2> QED
    BY <1>3, <2>2, <2>5, <2>6, <2>7 DEF Origin
<1> QED
  BY <1>2, <1>3

\* The first new high closes the falls from the one before.
LEMMA ClosingAtNewHigh ==
  ASSUME NEW trades \in Seq(Trade), NEW k \in 1 .. Len(trades), NEW j \in 0 .. k - 1,
         HighUpTo(trades, j) = HighUpTo(trades, k - 1),
         Curve(trades, k) > HighUpTo(trades, k - 1)
  PROVE  Closing(trades, j) = k
<1> DEFINE n == Len(trades)
           A == Above(trades, j)
<1>1. n \in Nat /\ k - 1 \in 0 .. n /\ HighUpTo(trades, k - 1) \in Int
  BY LenProperties, HighSteps
<1>2. k \in A
  BY <1>1 DEF Above
<1>3. \A y \in A : k <= y
  <2> SUFFICES ASSUME NEW y \in A, ~(k <= y) PROVE FALSE
    OBVIOUS
  <2>1. y \in 0 .. k - 1 /\ Curve(trades, y) > HighUpTo(trades, k - 1)
    BY DEF Above
  <2>2. Curve(trades, y) <= HighUpTo(trades, k - 1) /\ Curve(trades, y) \in Int
    BY <1>1, <2>1, HighGrows
  <2> QED
    BY <1>1, <2>1, <2>2
<1>4. A \subseteq Int
  BY <1>1 DEF Above
<1>5. Min(A) = k
  <2> HIDE DEF A
  <2> QED
    BY <1>2, <1>3, <1>4, IsMin
<1> QED
  BY <1>2, <1>5 DEF Closing

\* A fall from the last high is open to the end.
LEMMA ClosingAtEnd ==
  ASSUME NEW trades \in Seq(Trade), NEW j \in 0 .. Len(trades),
         HighUpTo(trades, j) = HighUpTo(trades, Len(trades))
  PROVE  Closing(trades, j) = Len(trades)
<1> DEFINE n == Len(trades)
<1>1. n \in Nat /\ n \in 0 .. n
  BY LenProperties
<1>2. ASSUME NEW y \in j .. n PROVE ~(Curve(trades, y) > HighUpTo(trades, j))
  <2>1. y \in 0 .. n
    BY <1>1
  <2>2. Curve(trades, y) <= HighUpTo(trades, n) /\ Curve(trades, y) \in Int /\ HighUpTo(trades, n) \in Int
    BY <1>1, <2>1, HighGrows
  <2> QED
    BY <2>2
<1>3. Above(trades, j) = {}
  BY <1>2 DEF Above
<1> QED
  BY <1>3 DEF Closing

\* What the variables of calcRiskMetrics' loop know of the falls so far.
Wet(trades, j) == Curve(trades, j) < HighUpTo(trades, j)

Open(trades, j, k) == Wet(trades, j) /\ HighUpTo(trades, j) = HighUpTo(trades, k)

Recovered(trades, j, k) == Wet(trades, j) /\ HighUpTo(trades, j) < HighUpTo(trades, k)

FallsKnown(trades, a, k) ==
  /\ a.lastPeak = trades[Origin(trades, k)].exitAt
  /\ a.under <=> \E j \in 1 .. k : Open(trades, j, k)
  /\ a.under => a.start = trades[Origin(trades, k)].exitAt
  /\ a.maxDuration \in Int /\ a.maxDuration >= 0
  /\ \A j \in 1 .. k : Recovered(trades, j, k) =>
       TimeUnderWater(trades, j) \in Int /\ TimeUnderWater(trades, j) <= a.maxDuration
  /\ a.maxDuration # 0 =>
       \E j \in 1 .. k : Recovered(trades, j, k) /\ a.maxDuration = TimeUnderWater(trades, j)

\* One trade more keeps what the pass knows of the falls that have recovered.
LEMMA FallsKnownStep ==
  ASSUME NEW trades \in Seq(Trade), NEW r, RiskFollows(r, trades), NEW k \in 1 .. Len(trades),
         FallsKnown(trades, r[k - 1], k - 1)
  PROVE  FallsKnown(trades, r[k], k)
<1> DEFINE n == Len(trades)
           a == r[k - 1]
           b == r[k]
           c == Curve(trades, k)
           old == HighUpTo(trades, k - 1)
           high == HighUpTo(trades, k)
           x == trades[k].exitAt
           hi(j) == HighUpTo(trades, j)
           time(j) == TimeUnderWater(trades, j)
<1>1. n \in Nat /\ k \in 0 .. n /\ k - 1 \in 0 .. n /\ k - 1 \in 0 .. k
      /\ \A j \in 1 .. k - 1 : j \in 0 .. n /\ j \in 0 .. k - 1 /\ j \in 1 .. k
  BY LenProperties
<1>2. x \in Int
  <2>1. trades[k] \in Trade
    BY LenProperties
  <2> QED
    BY <2>1 DEF Trade
<1>3. c \in Int /\ old \in Int /\ high \in Int /\ high = Larger(old, c)
  BY <1>1, CurveSteps, HighSteps
<1>4. a \in RiskState /\ b \in RiskState
  BY <1>1 DEF RiskFollows
<1>5. /\ b.maxDuration = IF c > old /\ a.under THEN Larger(a.maxDuration, x - a.start) ELSE a.maxDuration
      /\ b.lastPeak = IF c > old THEN x ELSE a.lastPeak
      /\ b.start = IF high > c /\ ~a.under THEN a.lastPeak ELSE a.start
      /\ b.under <=> (a.under /\ ~(c > old)) \/ high > c
  BY DEF RiskFollows
<1>6. /\ a.lastPeak = trades[Origin(trades, k - 1)].exitAt
      /\ a.under <=> \E j \in 1 .. k - 1 : Open(trades, j, k - 1)
      /\ a.under => a.start = trades[Origin(trades, k - 1)].exitAt
      /\ a.maxDuration \in Int /\ a.maxDuration >= 0
      /\ \A j \in 1 .. k - 1 : Recovered(trades, j, k - 1) => time(j) \in Int /\ time(j) <= a.maxDuration
      /\ a.maxDuration # 0 =>
           \E j \in 1 .. k - 1 : Recovered(trades, j, k - 1) /\ a.maxDuration = time(j)
  BY DEF FallsKnown
<1>7. \A j \in 1 .. k - 1 : hi(j) \in Int /\ hi(j) <= old
  BY <1>1, HighGrows
<1>8. a.start \in Int
  BY <1>4, RiskFields
<1>9. \A j \in 1 .. k : j = k \/ j \in 1 .. k - 1
  OBVIOUS
<1>10. CASE c > old
  <2>1. high = c /\ Origin(trades, k) = k
    BY <1>10, OriginOfNewHigh
  <2>2. high > old /\ ~(high > c) /\ ~Wet(trades, k)
    BY <1>3, <1>10, <2>1 DEF Wet
  <2>3. ASSUME NEW j \in 1 .. k - 1, Open(trades, j, k - 1)
        PROVE  time(j) = x - a.start /\ a.under
    <3>1. a.under
      BY <1>6, <2>3
    <3>2. hi(j) = old
      BY <2>3 DEF Open
    <3>3. Closing(trades, j) = k
      BY <1>1, <1>10, <3>2, ClosingAtNewHigh
    <3>4. Origin(trades, j) = Origin(trades, k - 1)
      BY <1>1, <3>2, OriginOfSameHigh
    <3>5. time(j) = x - trades[Origin(trades, k - 1)].exitAt
      BY <3>3, <3>4, TimeFromOriginToClosing
    <3> QED
      BY <1>6, <3>1, <3>5
  <2>4. \A j \in 1 .. k : ~Open(trades, j, k)
    <3> TAKE j \in 1 .. k
    <3>1. CASE j = k
      BY <2>2, <3>1 DEF Open
    <3>2. CASE j \in 1 .. k - 1
      <4>1. hi(j) \in Int /\ hi(j) <= old
        BY <1>7, <3>2
      <4>2. hi(j) # high
        BY <1>3, <2>2, <4>1
      <4> QED
        BY <4>2 DEF Open
    <3> QED
      BY <1>9, <3>1, <3>2
  <2>5. ~b.under
    BY <1>5, <1>10, <2>2
  <2>6. b.lastPeak = trades[Origin(trades, k)].exitAt
    BY <1>5, <1>10, <2>1
  <2>7. b.maxDuration = IF a.under THEN Larger(a.maxDuration, x - a.start) ELSE a.maxDuration
    BY <1>5, <1>10
  <2>8. b.maxDuration \in Int /\ b.maxDuration >= 0 /\ b.maxDuration >= a.maxDuration
        /\ (a.under => b.maxDuration >= x - a.start)
    BY <1>2, <1>6, <1>8, <2>7 DEF Larger
  <2>9. \A j \in 1 .. k : Recovered(trades, j, k) => time(j) \in Int /\ time(j) <= b.maxDuration
    <3> SUFFICES ASSUME NEW j \in 1 .. k, Recovered(trades, j, k)
                 PROVE  time(j) \in Int /\ time(j) <= b.maxDuration
      OBVIOUS
    <3>1. j \in 1 .. k - 1 /\ Wet(trades, j)
      BY <1>9, <2>2 DEF Recovered
    <3>2. CASE hi(j) = old
      <4>1. Open(trades, j, k - 1)
        BY <3>1, <3>2 DEF Open
      <4>2. time(j) = x - a.start /\ a.under
        BY <2>3, <3>1, <4>1
      <4> QED
        BY <1>2, <1>8, <2>8, <4>2
    <3>3. CASE hi(j) # old
      <4>1. hi(j) < old
        BY <1>3, <1>7, <3>1, <3>3
      <4>2. Recovered(trades, j, k - 1)
        BY <3>1, <4>1 DEF Recovered
      <4>3. time(j) \in Int /\ time(j) <= a.maxDuration
        BY <1>6, <3>1, <4>2
      <4> HIDE DEF time, a, b
      <4> QED
        BY <1>6, <2>8, <4>3
    <3> QED
      BY <3>2, <3>3
  <2>10. b.maxDuration # 0 => \E j \in 1 .. k : Recovered(trades, j, k) /\ b.maxDuration = time(j)
    <3> SUFFICES ASSUME b.maxDuration # 0
                 PROVE  \E j \in 1 .. k : Recovered(trades, j, k) /\ b.maxDuration = time(j)
      OBVIOUS
    <3>1. CASE b.maxDuration = a.maxDuration
      <4>1. PICK j \in 1 .. k - 1 : Recovered(trades, j, k - 1) /\ a.maxDuration = time(j)
        BY <1>6, <3>1
      <4>2. hi(j) < high /\ Wet(trades, j) /\ j \in 1 .. k
        <5>1. hi(j) < old /\ hi(j) \in Int
          BY <1>7, <4>1 DEF Recovered
        <5>2. hi(j) < high
          BY <1>3, <2>2, <5>1
        <5> QED
          BY <1>1, <4>1, <5>2 DEF Recovered
      <4> QED
        BY <3>1, <4>1, <4>2 DEF Recovered
    <3>2. CASE a.under /\ b.maxDuration = x - a.start
      <4>1. PICK j \in 1 .. k - 1 : Open(trades, j, k - 1)
        BY <1>6, <3>2
      <4>2. time(j) = x - a.start
        BY <2>3, <4>1
      <4>3. hi(j) < high /\ Wet(trades, j) /\ j \in 1 .. k
        <5>1. hi(j) = old
          BY <4>1 DEF Open
        <5>2. hi(j) < high
          BY <1>3, <2>2, <5>1
        <5> QED
          BY <1>1, <4>1, <5>2 DEF Open
      <4> QED
        BY <3>2, <4>2, <4>3 DEF Recovered
    <3> QED
      BY <2>7, <3>1, <3>2 DEF Larger
  <2> QED
    BY <2>4, <2>5, <2>6, <2>8, <2>9, <2>10 DEF FallsKnown
<1>11. CASE ~(c > old)
  <2>1. high = old
    BY <1>3, <1>11 DEF Larger
  <2>2. Origin(trades, k - 1) = Origin(trades, k)
    BY <1>1, <2>1, OriginOfSameHigh
  <2>3. b.maxDuration = a.maxDuration /\ b.lastPeak = a.lastPeak
    BY <1>5, <1>11
  <2>4. Wet(trades, k) <=> high > c
    BY <1>3 DEF Wet
  <2>5. b.under <=> a.under \/ Wet(trades, k)
    BY <1>5, <1>11, <2>4
  <2>6. b.under <=> \E j \in 1 .. k : Open(trades, j, k)
    <3>1. \A j : Open(trades, j, k) <=> Open(trades, j, k - 1)
      BY <2>1 DEF Open
    <3>2. Open(trades, k, k) <=> Wet(trades, k)
      BY DEF Open
    <3>3. k \in 1 .. k
      OBVIOUS
    <3> HIDE DEF a, b
    <3> QED
      BY <1>1, <1>6, <1>9, <2>5, <3>1, <3>2, <3>3
  <2>7. b.under => b.start = trades[Origin(trades, k)].exitAt
    BY <1>5, <1>6, <2>2, <2>4, <2>5
  <2>8. \A j \in 1 .. k : Recovered(trades, j, k) => j \in 1 .. k - 1 /\ Recovered(trades, j, k - 1)
    <3> SUFFICES ASSUME NEW j \in 1 .. k, Recovered(trades, j, k)
                 PROVE  j \in 1 .. k - 1 /\ Recovered(trades, j, k - 1)
      OBVIOUS
    <3>1. j # k
      BY <1>3 DEF Recovered
    <3> QED
      BY <1>9, <2>1, <3>1 DEF Recovered
  <2>9. \A j \in 1 .. k - 1 : Recovered(trades, j, k - 1) => j \in 1 .. k /\ Recovered(trades, j, k)
    BY <1>1, <2>1 DEF Recovered
  <2>10. \A j \in 1 .. k : Recovered(trades, j, k) => time(j) \in Int /\ time(j) <= b.maxDuration
    BY <1>6, <2>3, <2>8
  <2>11. b.maxDuration # 0 => \E j \in 1 .. k : Recovered(trades, j, k) /\ b.maxDuration = time(j)
    BY <1>6, <2>3, <2>9
  <2>12. b.lastPeak = trades[Origin(trades, k)].exitAt
    BY <1>6, <2>2, <2>3
  <2> QED
    BY <1>6, <2>3, <2>6, <2>7, <2>10, <2>11, <2>12 DEF FallsKnown
<1> QED
  BY <1>10, <1>11

\* calcRiskMetrics finds the longest time the curve stayed below a high.
THEOREM FallTimeMeasured ==
  ASSUME NEW trades \in Seq(Trade), trades # << >>
  PROVE  Risk(trades).maxDuration = LongestFall(trades)
<1> DEFINE n == Len(trades)
           time(j) == TimeUnderWater(trades, j)
<1>1. n \in Nat /\ DOMAIN trades = 1 .. n /\ n # 0
  BY LenProperties
<1>2. PICK r : RiskFollows(r, trades)
  BY RiskFollowsCurve
<1> DEFINE T == {k \in 0 .. n : FallsKnown(trades, r[k], k)}
<1>3. 0 \in T
  <2>1. r[0] = RiskStart(trades) /\ HighUpTo(trades, 0) = 0 /\ 0 \in 0 .. n
    BY <1>1, <1>2, HighSteps DEF RiskFollows
  <2>2. Origin(trades, 0) = 1
    BY <2>1 DEF Origin
  <2>3. r[0].lastPeak = trades[1].exitAt /\ r[0].under = FALSE /\ r[0].maxDuration = 0
    BY <2>1 DEF RiskStart
  <2>4. \A j \in 1 .. 0 : FALSE
    OBVIOUS
  <2>5. FallsKnown(trades, r[0], 0)
    BY <2>2, <2>3, <2>4 DEF FallsKnown
  <2> QED
    BY <2>1, <2>5
<1>4. ASSUME NEW k \in 1 .. n, k - 1 \in T PROVE k \in T
  <2>1. FallsKnown(trades, r[k], k)
    BY <1>2, <1>4, FallsKnownStep
  <2> QED
    BY <1>1, <2>1
<1>5. \A k \in 0 .. n : k \in T
  <2> HIDE DEF T
  <2> QED
    BY <1>1, <1>3, <1>4, Counting
<1> DEFINE end == r[n]
           x == trades[n].exitAt
           d == Risk(trades).maxDuration
<1>6. n \in 0 .. n /\ FallsKnown(trades, end, n)
  BY <1>1, <1>5
<1>7. end \in RiskState /\ RiskEnd(trades) = end
  BY <1>2, <1>6 DEF RiskFollows
<1>8. d = IF end.under THEN Larger(end.maxDuration, x - end.start) ELSE end.maxDuration
  BY <1>7, RiskOfEnd
<1>9. x \in Int /\ end.start \in Int
  <2>1. trades[n] \in Trade
    BY <1>1, LenProperties
  <2> QED
    BY <1>7, <2>1, RiskFields DEF Trade
<1>10. /\ end.under <=> \E j \in 1 .. n : Open(trades, j, n)
       /\ end.under => end.start = trades[Origin(trades, n)].exitAt
       /\ end.maxDuration \in Int /\ end.maxDuration >= 0
       /\ \A j \in 1 .. n : Recovered(trades, j, n) => time(j) \in Int /\ time(j) <= end.maxDuration
       /\ end.maxDuration # 0 =>
            \E j \in 1 .. n : Recovered(trades, j, n) /\ end.maxDuration = time(j)
  BY <1>6 DEF FallsKnown
<1>11. \A j \in 1 .. n : j \in 0 .. n
  BY <1>1
<1>12. ASSUME NEW j \in 1 .. n, Open(trades, j, n)
       PROVE  time(j) = x - end.start /\ end.under
  <2>1. end.under
    BY <1>10, <1>12
  <2>2. HighUpTo(trades, j) = HighUpTo(trades, n)
    BY <1>12 DEF Open
  <2>3. Closing(trades, j) = n /\ Origin(trades, j) = Origin(trades, n)
    BY <1>6, <1>11, <2>2, ClosingAtEnd, OriginOfSameHigh
  <2>4. time(j) = x - trades[Origin(trades, n)].exitAt
    BY <2>3, TimeFromOriginToClosing
  <2> QED
    BY <1>10, <2>1, <2>4
<1>13. \A j \in 1 .. n : Wet(trades, j) <=> Open(trades, j, n) \/ Recovered(trades, j, n)
  <2> TAKE j \in 1 .. n
  <2>1. HighUpTo(trades, j) <= HighUpTo(trades, n) /\ HighUpTo(trades, j) \in Int
        /\ HighUpTo(trades, n) \in Int
    BY <1>6, <1>11, HighGrows
  <2> QED
    BY <2>1 DEF Open, Recovered
<1> DEFINE S == {0} \cup {time(j) : j \in UnderWater(trades)}
<1>14. UnderWater(trades) = {j \in 1 .. n : Wet(trades, j)}
  BY <1>1 DEF UnderWater, Wet
<1>15. LongestFall(trades) = Max(S)
  BY DEF LongestFall
<1> HIDE DEF n, time, end, x, d, T
<1>16. d \in Int /\ d >= 0 /\ d >= end.maxDuration /\ (end.under => d >= x - end.start)
  BY <1>8, <1>9, <1>10 DEF Larger
<1>17. ASSUME NEW j \in UnderWater(trades)
       PROVE  time(j) \in Int /\ time(j) <= d
  <2>1. j \in 1 .. n /\ (Open(trades, j, n) \/ Recovered(trades, j, n))
    BY <1>13, <1>14
  <2>2. CASE Open(trades, j, n)
    BY <1>9, <1>12, <1>16, <2>1, <2>2
  <2>3. CASE Recovered(trades, j, n)
    <3>1. time(j) \in Int /\ time(j) <= end.maxDuration
      BY <1>10, <2>1, <2>3
    <3> QED
      BY <1>10, <1>16, <3>1
  <2> QED
    BY <2>1, <2>2, <2>3
<1>18. d # 0 => \E j \in UnderWater(trades) : d = time(j)
  <2> SUFFICES ASSUME d # 0 PROVE \E j \in UnderWater(trades) : d = time(j)
    OBVIOUS
  <2>1. CASE d = end.maxDuration
    <3>1. PICK j \in 1 .. n : Recovered(trades, j, n) /\ end.maxDuration = time(j)
      BY <1>10, <2>1
    <3> QED
      BY <1>13, <1>14, <2>1, <3>1
  <2>2. CASE end.under /\ d = x - end.start
    <3>1. PICK j \in 1 .. n : Open(trades, j, n)
      BY <1>10, <2>2
    <3>2. d = time(j) /\ j \in UnderWater(trades)
      BY <1>12, <1>13, <1>14, <2>2, <3>1
    <3> QED
      BY <3>2
  <2> QED
    BY <1>8, <2>1, <2>2 DEF Larger
<1>19. S \subseteq Int /\ d \in S /\ \A y \in S : d >= y
  BY <1>16, <1>17, <1>18
<1>20. Max(S) = d
  <2> HIDE DEF S
  <2> QED
    BY <1>19, IsMax
<1> QED
  BY <1>15, <1>20 DEF d

-----------------------------------------------------------------------------
(* The result.                                                             *)

Measured(trades) ==
  LET figures == Calculate(trades) IN
  /\ figures.maxDD = DeepestFall(trades)
  /\ figures.maxDuration = LongestFall(trades)
  /\ figures.maxWins = LongestRun(trades, LAMBDA t : t.pnl > 0)
  /\ figures.maxLosses = LongestRun(trades, LAMBDA t : t.pnl <= 0)
  /\ figures.around = SquaredDistances(trades)
  /\ figures.downside <=> \E i \in DOMAIN trades : trades[i].pnl < 0

\* Without trades all the figures are 0, and so is what they measure.
LEMMA NothingMeasured == Measured(<< >>)
<1>1. << >> \in Seq(Trade) /\ Len(<< >>) = 0 /\ DOMAIN << >> = {}
  OBVIOUS
<1>2. Calculate(<< >>) = ZeroResult
  BY DEF Calculate
<1>3. DeepestFall(<< >>) = 0 /\ LongestFall(<< >>) = 0
  <2>1. UnderWater(<< >>) = {}
    BY <1>1 DEF UnderWater
  <2>2. Max({0}) = 0
    <3> DEFINE S == {0}
    <3>1. S \subseteq Int /\ 0 \in S /\ \A y \in S : 0 >= y
      OBVIOUS
    <3> HIDE DEF S
    <3>2. Max(S) = 0
      BY <3>1, IsMax
    <3> QED
      BY <3>2 DEF S
  <2>3. DeepestFall(<< >>) = Max({0})
    BY <2>1 DEF DeepestFall
  <2>4. LongestFall(<< >>) = Max({0})
    BY <2>1 DEF LongestFall
  <2> QED
    BY <2>2, <2>3, <2>4
<1>4. LongestRun(<< >>, LAMBDA t : t.pnl > 0) = 0 /\ LongestRun(<< >>, LAMBDA t : t.pnl <= 0) = 0
  <2> DEFINE e == << >>
  <2>1. e \in Seq(Trade) /\ Len(e) = 0
    BY <1>1
  <2> HIDE DEF e
  <2>2. Streaks(e).maxWins = LongestRun(e, LAMBDA t : t.pnl > 0)
        /\ Streaks(e).maxLosses = LongestRun(e, LAMBDA t : t.pnl <= 0)
    BY <2>1, StreaksMeasured
  <2>3. Streaks(e) = StreakStart
    BY <2>1, StreaksUnfold
  <2> QED
    BY <2>2, <2>3 DEF e, StreakStart
<1>5. SquaredDistances(<< >>) = 0
  <2> DEFINE e == << >>
             total == Basic(e).total
  <2>1. e \in Seq(Trade) /\ Len(e) = 0
    BY <1>1
  <2> HIDE DEF e
  <2>2. total \in Int
    BY <2>1, TotalIsCurve
  <2>3. Spreads(e, total).around = SquaredDistances(e)
    BY <2>1, SpreadMeasured
  <2> HIDE DEF total
  <2>4. Spreads(e, total) = SpreadStart
    BY <2>1, <2>2, SpreadsUnfold
  <2> QED
    BY <2>3, <2>4 DEF e, SpreadStart
<1>6. /\ ZeroResult.maxDD = 0 /\ ZeroResult.maxDuration = 0 /\ ZeroResult.maxWins = 0
      /\ ZeroResult.maxLosses = 0 /\ ZeroResult.around = 0 /\ ZeroResult.downside = FALSE
  BY DEF ZeroResult
<1> QED
  BY <1>1, <1>2, <1>3, <1>4, <1>5, <1>6 DEF Measured

\* All the figures of a run with trades.
LEMMA TradesMeasured ==
  ASSUME NEW trades \in Seq(Trade), trades # << >>
  PROVE  Measured(trades)
<1> DEFINE total == Basic(trades).total
           figures == Calculate(trades)
<1>1. total \in Int
  BY TotalIsCurve
<1>2. figures = FullResult(trades)
  BY DEF Calculate
<1>3. /\ figures.maxDD = Risk(trades).maxDD /\ figures.maxDuration = Risk(trades).maxDuration
      /\ figures.maxWins = Streaks(trades).maxWins /\ figures.maxLosses = Streaks(trades).maxLosses
      /\ figures.around = Spreads(trades, total).around
      /\ figures.downside = (Spreads(trades, total).belowZero > 0)
  BY <1>2 DEF FullResult
<1>4. Risk(trades).maxDD = DeepestFall(trades) /\ Risk(trades).maxDuration = LongestFall(trades)
  BY FallMeasured, FallTimeMeasured
<1>5. /\ Streaks(trades).maxWins = LongestRun(trades, LAMBDA t : t.pnl > 0)
      /\ Streaks(trades).maxLosses = LongestRun(trades, LAMBDA t : t.pnl <= 0)
  BY StreaksMeasured
<1>6. Spreads(trades, total).around = SquaredDistances(trades)
  BY SpreadMeasured
<1>7. Spreads(trades, total).belowZero > 0 <=> \E i \in DOMAIN trades : trades[i].pnl < 0
  BY <1>1, DownsideMeasured
<1> HIDE DEF total
<1> QED
  BY <1>3, <1>4, <1>5, <1>6, <1>7 DEF Measured

\* Whatever trades a run makes, the figures of its result are what the reference
\* definitions make of them.
THEOREM FiguresTellTruth == Spec => []ResultMeasured
<1>1. ASSUME IInv PROVE ResultMeasured
  <2>1. SUFFICES ASSUME pc = "begin" PROVE Measured(Trades)
    BY DEF ResultMeasured, Measured
  <2>2. Trades = book.trades
    BY <1>1, <2>1 DEF IInv, BookInv, Trades
  <2>3. Trades \in Seq(Trade)
    BY <1>1, <2>2, SoundAlways DEF Sound, Kept, Book
  <2>4. CASE Trades = << >>
    BY <2>4, NothingMeasured
  <2>5. CASE Trades # << >>
    BY <2>3, <2>5, TradesMeasured
  <2> QED
    BY <2>4, <2>5
<1> QED
  BY <1>1, InvariantHolds, PTL
=============================================================================
