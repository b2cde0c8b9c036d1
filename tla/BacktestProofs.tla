--------------------------- MODULE BacktestProofs ---------------------------
(***************************************************************************)
(* What a backtest guarantees for any market, any batch and any rules'     *)
(* parameters: its books.  The strengthening is Sound(book): the types,    *)
(* one position at most, each order for a position that is there, and the  *)
(* chain of equity, times and identities through the trades.  Every stage  *)
(* of a tick and of a candle has a lemma, and every action combines them.  *)
(* Then what it is drawn from: the data the sets of a batch share          *)
(* (CacheInv), and the closes the averages are taken over (LedgerInv),     *)
(* which are in the order of time and of candles that have closed.         *)
(***************************************************************************)
EXTENDS BacktestRunner, SequenceTheorems, FiniteSetTheorems, TLAPS

Sides == {"BUY", "SELL"}
ExitTypes == {"STOP_LOSS", "TAKE_PROFIT", "FORCE_CLOSE"}

Close == [bucket : Int, close : Int]
Tick == [bid : Int, ask : Int, at : Int]
Extreme == [high : Int, low : Int]
Position == [id : Int, side : Sides, lot : Int, entry : Int, at : Int, capital : Int,
             peak : Int, seen : SUBSET Extreme]
EntryOrder == [side : Sides, lot : Int, due : Int]
ExitOrder == [id : Int, type : ExitTypes, due : Int]
Trade == [id : Int, side : Sides, lot : Int, entryAt : Int, exitAt : Int, pnl : Int,
          capital : Int, equityAfter : Int, mfe : Int, mae : Int, exitType : ExitTypes]
Book == [ledger : Seq(Close), forming : SUBSET Close, last : SUBSET Tick, rate : Int,
         open : SUBSET Position, pendingEntry : SUBSET EntryOrder,
         pendingExit : SUBSET ExitOrder, trades : Seq(Trade), opened : Int, equity : Int]

Before(b, i) == IF i = 1 THEN Initial ELSE b.trades[i - 1].equityAfter

OneOpen(b) == \A x, y \in b.open : x = y

Chain(b) ==
  /\ \A i \in DOMAIN b.trades :
       /\ b.trades[i].capital = Before(b, i)
       /\ b.trades[i].equityAfter = b.trades[i].capital + b.trades[i].pnl * b.trades[i].lot
  /\ b.equity = Before(b, Len(b.trades) + 1)
  /\ \A pos \in b.open : pos.capital = b.equity

Times(b) ==
  /\ \A i, j \in DOMAIN b.trades : i < j => b.trades[i].exitAt <= b.trades[j].entryAt
  /\ \A i \in DOMAIN b.trades, pos \in b.open : b.trades[i].exitAt <= pos.at

Numbers(b) ==
  /\ \A i \in DOMAIN b.trades : b.trades[i].id = i
  /\ \A pos \in b.open : pos.id = Len(b.trades) + 1 /\ b.opened = Len(b.trades) + 1
  /\ b.open = {} => b.opened = Len(b.trades)

Orders(b) ==
  /\ \A x, y \in b.pendingEntry : x = y
  /\ b.pendingEntry # {} => b.open = {} /\ b.pendingExit = {}
  /\ \A x, y \in b.pendingExit : x = y
  /\ \A o \in b.pendingExit : \E pos \in b.open : pos.id = o.id

Kept(b) == b \in Book /\ OneOpen(b) /\ Chain(b) /\ Times(b) /\ Numbers(b)

Sound(b) == Kept(b) /\ Orders(b)

\* Nothing in the book is later than t.
UpTo(b, t) ==
  /\ \A i \in DOMAIN b.trades : b.trades[i].exitAt <= t
  /\ \A pos \in b.open : pos.at <= t

-----------------------------------------------------------------------------
(* The operators return what they should.                                  *)

\* The gain of a position at a price is a number.
LEMMA FavourableInt ==
  ASSUME NEW pos \in Position, NEW x \in Int
  PROVE  Favourable(pos, x) \in Int
BY DEF Favourable, Position, Sides

\* A rule that answers, answers with one of the three exit types.
LEMMA ExitTypeOK ==
  ASSUME NEW p, NEW pos, NEW s, NEW peak, ExitType(p, pos, s, peak) # "none"
  PROVE  ExitType(p, pos, s, peak) \in ExitTypes
<1>1. CrossExitType(pos, s) \in ExitTypes
  BY DEF CrossExitType, ExitTypes
<1> QED
  BY <1>1 DEF ExitType, ExitTypes

\* An entry has a side.
LEMMA EntrySideOK ==
  ASSUME NEW p, NEW s, EntrySide(p, s) # "none"
  PROVE  EntrySide(p, s) \in Sides
BY DEF EntrySide, CrossSide, Sides

\* The lot is a number when there is a rate.
LEMMA LotInt ==
  ASSUME NEW b \in Book, b.rate > 0
  PROVE  Lot(b) \in Int
<1> DEFINE d == MarginNum * b.rate * LotStep
<1>1. MarginNum * b.rate \in Nat \ {0}
  <2>1. \A x, y \in Nat \ {0} : x * y \in Nat \ {0}
    OBVIOUS
  <2>2. b.rate \in Nat \ {0}
    BY DEF Book
  <2> QED
    BY <2>1, <2>2, LotAssumption
<1>2. d \in Nat \ {0}
  <2>1. \A x, y \in Nat \ {0} : x * y \in Nat \ {0}
    OBVIOUS
  <2> QED
    BY <2>1, <1>1, LotAssumption
<1>3. b.equity * MarginDen \in Int
  <2>1. \A x, y \in Int : x * y \in Int
    OBVIOUS
  <2>2. b.equity \in Int /\ MarginDen \in Int
    BY LotAssumption DEF Book
  <2> QED
    BY <2>1, <2>2
<1> DEFINE n == b.equity * MarginDen
<1>4. n \div d \in Int
  <2>1. n \in Int
    BY <1>3
  <2> HIDE DEF n, d
  <2> QED
    BY <2>1, <1>2
<1>5. (n \div d) * LotStep \in Int
  <2> DEFINE q == n \div d
  <2>1. q \in Int
    BY <1>4
  <2> HIDE DEF q
  <2>2. q * LotStep \in Int
    BY <2>1, LotAssumption
  <2> QED
    BY <2>2 DEF q
<1> DEFINE m == (n \div d) * LotStep
<1>6. Lot(b) = Clamped(m)
  BY DEF Lot, DecideLot
<1>7. m \in Int
  BY <1>5
<1> HIDE DEF m
<1> QED
  BY <1>6, <1>7, LotAssumption DEF Clamped

\* The extremes are numbers.
LEMMA StretchedOK ==
  ASSUME NEW seen \in SUBSET Extreme, NEW h \in Int, NEW l \in Int
  PROVE  Stretched(seen, h, l) \in SUBSET Extreme
BY DEF Stretched, Extreme

\* And so are the best and the worst gain drawn from them.
LEMMA PipsInt ==
  ASSUME NEW pos \in Position
  PROVE  BestPips(pos) \in Int /\ WorstPips(pos) \in Int
<1>1. CASE pos.seen = {}
  BY <1>1 DEF BestPips, WorstPips
<1>2. CASE pos.seen # {}
  <2> DEFINE e == CHOOSE e \in pos.seen : TRUE
  <2>1. e \in pos.seen
    BY <1>2
  <2>2. e \in Extreme
    BY <2>1 DEF Position
  <2>3. e.high \in Int /\ e.low \in Int
    BY <2>2 DEF Extreme
  <2>4. Favourable(pos, e.high) \in Int /\ Favourable(pos, e.low) \in Int
    BY <2>3, FavourableInt
  <2>5. /\ BestPips(pos) = Favourable(pos, IF pos.side = "BUY" THEN e.high ELSE e.low)
        /\ WorstPips(pos) = -Favourable(pos, IF pos.side = "BUY" THEN e.low ELSE e.high)
    BY <1>2 DEF BestPips, WorstPips
  <2> HIDE DEF e
  <2> QED
    BY <2>4, <2>5
<1> QED
  BY <1>1, <1>2

-----------------------------------------------------------------------------
(* Closing and opening a position.                                         *)

\* The trade a closed position becomes.
LEMMA TradeOK ==
  ASSUME NEW pos \in Position, NEW x \in Int, NEW t \in Int, NEW type \in ExitTypes,
         NEW after \in Int
  PROVE  TradeRecord(pos, x, t, type, after) \in Trade
<1>1. Favourable(pos, x) \in Int /\ BestPips(pos) \in Int /\ WorstPips(pos) \in Int
  BY FavourableInt, PipsInt
<1>2. /\ pos.id \in Int /\ pos.side \in Sides /\ pos.lot \in Int /\ pos.at \in Int
      /\ pos.capital \in Int
  BY DEF Position
<1> QED
  BY <1>1, <1>2 DEF TradeRecord, Trade

\* What a position earned.
LEMMA AmountInt ==
  ASSUME NEW pos \in Position, NEW x \in Int
  PROVE  Amount(pos, x) \in Int
<1>1. \A a, c \in Int : a * c \in Int
  OBVIOUS
<1>2. Favourable(pos, x) \in Int /\ pos.lot \in Int
  BY FavourableInt DEF Position
<1> QED
  BY <1>1, <1>2 DEF Amount

\* Closing the open position keeps the books: the trade joins the chain.
LEMMA ClosedKept ==
  ASSUME NEW b, Kept(b), NEW pos \in b.open, NEW x \in Int, NEW t \in Int,
         pos.at <= t, NEW type \in ExitTypes
  PROVE  /\ Kept(Closed(b, pos, x, t, type))
         /\ Closed(b, pos, x, t, type).open = {}
         /\ Closed(b, pos, x, t, type).pendingEntry = b.pendingEntry
         /\ Closed(b, pos, x, t, type).pendingExit = b.pendingExit
         /\ Closed(b, pos, x, t, type).last = b.last
         /\ Closed(b, pos, x, t, type).rate = b.rate
         /\ \A n \in Int : UpTo(b, n) /\ t <= n => UpTo(Closed(b, pos, x, t, type), n)
<1> DEFINE after == b.equity + Amount(pos, x)
           new == TradeRecord(pos, x, t, type, after)
           c == Closed(b, pos, x, t, type)
           n == Len(b.trades)
<1>1. b \in Book /\ pos \in Position /\ b.trades \in Seq(Trade) /\ b.equity \in Int
  BY DEF Kept, Book
<1>2. after \in Int
  BY <1>1, AmountInt
<1>3. new \in Trade
  BY <1>1, <1>2, TradeOK
<1>4. /\ new.id = pos.id /\ new.capital = pos.capital /\ new.equityAfter = after
      /\ new.entryAt = pos.at /\ new.exitAt = t
      /\ new.pnl * new.lot = Amount(pos, x)
  BY DEF TradeRecord, Amount
<1>5. c = [b EXCEPT !.equity = after, !.open = @ \ {pos}, !.trades = Append(@, new)]
  BY DEF Closed
<1> HIDE DEF new, after, c
<1>6. /\ Append(b.trades, new) \in Seq(Trade)
      /\ Len(Append(b.trades, new)) = n + 1
      /\ \A i \in 1 .. n : Append(b.trades, new)[i] = b.trades[i]
      /\ Append(b.trades, new)[n + 1] = new
  BY <1>1, <1>3, AppendProperties
<1>7. n \in Nat /\ DOMAIN b.trades = 1 .. n
  BY <1>1, LenProperties
<1>8. /\ c.equity = after /\ c.open = b.open \ {pos} /\ c.trades = Append(b.trades, new)
      /\ c.opened = b.opened /\ c.pendingEntry = b.pendingEntry
      /\ c.pendingExit = b.pendingExit /\ c.last = b.last /\ c.rate = b.rate
  BY <1>1, <1>5 DEF Book
<1>9. c \in Book
  BY <1>1, <1>2, <1>5, <1>6 DEF Book
<1>10. c.open = {}
  BY <1>8 DEF Kept, OneOpen
<1>11. n + 1 \in Nat /\ DOMAIN c.trades = 1 .. n + 1 /\ Len(c.trades) = n + 1
  <2>1. c.trades \in Seq(Trade) /\ Len(c.trades) = n + 1
    BY <1>6, <1>8
  <2> QED
    BY <2>1, <1>7, LenProperties
<1>12. \A i \in 1 .. n : c.trades[i] = b.trades[i]
  BY <1>6, <1>8
<1>13. c.trades[n + 1] = new
  BY <1>6, <1>8
<1>14. \A i \in 1 .. n + 1 : Before(c, i) = Before(b, i)
  <2> TAKE i \in 1 .. n + 1
  <2>1. CASE i = 1
    BY <2>1 DEF Before
  <2>2. CASE i # 1
    <3>1. i - 1 \in 1 .. n
      BY <2>2, <1>7
    <3> QED
      BY <3>1, <1>12, <2>2 DEF Before
  <2> QED
    BY <2>1, <2>2
<1>15. pos.capital = b.equity /\ b.equity = Before(b, n + 1)
  BY DEF Kept, Chain
<1>16. Chain(c)
  <2>1. ASSUME NEW i \in 1 .. n + 1
        PROVE  /\ c.trades[i].capital = Before(c, i)
               /\ c.trades[i].equityAfter = c.trades[i].capital + c.trades[i].pnl * c.trades[i].lot
    <3>1. CASE i = n + 1
      <4>1. c.trades[i] = new /\ Before(c, i) = Before(b, n + 1)
        BY <3>1, <1>13, <1>14
      <4>2. new.capital + Amount(pos, x) = after
        BY <1>4, <1>15 DEF after
      <4>3. new.capital = Before(c, i)
        BY <4>1, <1>4, <1>15
      <4>4. new.equityAfter = new.capital + new.pnl * new.lot
        BY <4>2, <1>4
      <4> QED
        BY <4>1, <4>3, <4>4
    <3>2. CASE i # n + 1
      <4>1. i \in 1 .. n
        BY <3>2, <1>7
      <4>2. /\ b.trades[i].capital = Before(b, i)
            /\ b.trades[i].equityAfter = b.trades[i].capital + b.trades[i].pnl * b.trades[i].lot
        BY <4>1, <1>7 DEF Kept, Chain
      <4>3. c.trades[i] = b.trades[i] /\ Before(c, i) = Before(b, i)
        BY <4>1, <1>12, <1>14
      <4> QED
        BY <4>2, <4>3
    <3> QED
      BY <3>1, <3>2
  <2>2. c.equity = Before(c, n + 1 + 1)
    <3>1. Before(c, n + 1 + 1) = c.trades[n + 1].equityAfter
      BY <1>7 DEF Before
    <3> QED
      BY <3>1, <1>4, <1>8, <1>13
  <2> QED
    BY <2>1, <2>2, <1>10, <1>11 DEF Chain
<1>17. Times(c)
  <2>1. \A i \in 1 .. n : b.trades[i].exitAt <= pos.at
    BY <1>7 DEF Kept, Times
  <2>2. ASSUME NEW i \in 1 .. n + 1, NEW j \in 1 .. n + 1, i < j
        PROVE  c.trades[i].exitAt <= c.trades[j].entryAt
    <3>1. i \in 1 .. n
      BY <2>2, <1>7
    <3>2. CASE j = n + 1
      BY <3>1, <3>2, <2>1, <1>4, <1>12, <1>13
    <3>3. CASE j # n + 1
      <4>1. j \in 1 .. n
        BY <3>3, <1>7
      <4> QED
        BY <3>1, <4>1, <2>2, <1>7, <1>12 DEF Kept, Times
    <3> QED
      BY <3>2, <3>3
  <2> QED
    BY <2>2, <1>10, <1>11 DEF Times
<1>18. Numbers(c)
  <2>1. pos.id = n + 1 /\ b.opened = n + 1
    BY DEF Kept, Numbers
  <2>2. ASSUME NEW i \in 1 .. n + 1
        PROVE  c.trades[i].id = i
    <3>1. CASE i = n + 1
      BY <3>1, <2>1, <1>4, <1>13
    <3>2. CASE i # n + 1
      <4>1. i \in 1 .. n
        BY <3>2, <1>7
      <4> QED
        BY <4>1, <1>7, <1>12 DEF Kept, Numbers
    <3> QED
      BY <3>1, <3>2
  <2> QED
    BY <2>1, <2>2, <1>8, <1>10, <1>11 DEF Numbers
<1>19. ASSUME NEW m \in Int, UpTo(b, m), t <= m
       PROVE  UpTo(c, m)
  <2>1. ASSUME NEW i \in 1 .. n + 1
        PROVE  c.trades[i].exitAt <= m
    <3>1. CASE i = n + 1
      BY <3>1, <1>4, <1>13, <1>19
    <3>2. CASE i # n + 1
      <4>1. i \in 1 .. n
        BY <3>2, <1>7
      <4> QED
        BY <4>1, <1>7, <1>12, <1>19 DEF UpTo
    <3> QED
      BY <3>1, <3>2
  <2> QED
    BY <2>1, <1>10, <1>11 DEF UpTo
<1>20. OneOpen(c)
  BY <1>10 DEF OneOpen
<1>21. Kept(c)
  BY <1>9, <1>16, <1>17, <1>18, <1>20 DEF Kept
<1> QED
  BY <1>8, <1>10, <1>19, <1>21 DEF c

\* Opening one where none is open keeps them.
LEMMA OpenedKept ==
  ASSUME NEW b, Kept(b), b.open = {}, NEW o, o.side \in Sides, o.lot \in Int,
         NEW x \in Int, NEW t \in Int, UpTo(b, t)
  PROVE  /\ Kept(Opened(b, o, x, t)) /\ UpTo(Opened(b, o, x, t), t)
         /\ Opened(b, o, x, t).pendingEntry = b.pendingEntry
         /\ Opened(b, o, x, t).pendingExit = b.pendingExit
         /\ Opened(b, o, x, t).last = b.last
         /\ Opened(b, o, x, t).rate = b.rate
<1> DEFINE pos == [id |-> b.opened + 1, side |-> o.side, lot |-> o.lot, entry |-> x, at |-> t,
                   capital |-> b.equity, peak |-> 0, seen |-> {}]
           c == Opened(b, o, x, t)
<1>1. b \in Book /\ b.opened \in Int /\ b.equity \in Int /\ b.trades \in Seq(Trade)
  BY DEF Kept, Book
<1>2. pos \in Position
  BY <1>1 DEF Position
<1>3. c = [b EXCEPT !.open = {pos}, !.opened = b.opened + 1]
  BY <1>1 DEF Opened, Book
<1>4. pos.id = b.opened + 1 /\ pos.at = t /\ pos.capital = b.equity
  OBVIOUS
<1> HIDE DEF pos, c
<1>5. /\ c.open = {pos} /\ c.opened = b.opened + 1 /\ c.trades = b.trades
      /\ c.equity = b.equity /\ c.pendingEntry = b.pendingEntry
      /\ c.pendingExit = b.pendingExit /\ c.last = b.last /\ c.rate = b.rate
  BY <1>1, <1>3 DEF Book
<1>6. c \in Book
  <2>1. {pos} \in SUBSET Position /\ b.opened + 1 \in Int
    BY <1>1, <1>2
  <2> QED
    BY <2>1, <1>1, <1>3 DEF Book
<1>7. OneOpen(c)
  BY <1>5 DEF OneOpen
<1>8. Chain(c)
  BY <1>4, <1>5 DEF Kept, Chain, Before
<1>9. Times(c)
  BY <1>4, <1>5 DEF Kept, Times, UpTo
<1>10. Numbers(c)
  BY <1>4, <1>5 DEF Kept, Numbers
<1>11. UpTo(c, t)
  BY <1>4, <1>5 DEF UpTo
<1> QED
  BY <1>5, <1>6, <1>7, <1>8, <1>9, <1>10, <1>11 DEF Kept, c

\* What leaves trades, equity and numbers alone, and every open position with its
\* identity, keeps the books.
LEMMA RemarkedKept ==
  ASSUME NEW b, Kept(b), NEW c \in Book,
         c.trades = b.trades, c.equity = b.equity, c.opened = b.opened,
         OneOpen(c), c.open = {} => b.open = {},
         \A q \in c.open : \E pos \in b.open :
           q.id = pos.id /\ q.at = pos.at /\ q.capital = pos.capital
  PROVE  /\ Kept(c)
         /\ \A n \in Int : UpTo(b, n) => UpTo(c, n)
<1>1. Chain(c)
  <2>1. \A pos \in c.open : pos.capital = c.equity
    BY DEF Kept, Chain
  <2>2. \A i : Before(c, i) = Before(b, i)
    BY DEF Before
  <2> QED
    BY <2>1, <2>2 DEF Kept, Chain
<1>2. Times(c)
  BY DEF Kept, Times
<1>3. Numbers(c)
  BY DEF Kept, Numbers
<1>4. \A n \in Int : UpTo(b, n) => UpTo(c, n)
  BY DEF UpTo
<1> QED
  BY <1>1, <1>2, <1>3, <1>4 DEF Kept

\* The case where no position is touched.
LEMMA UntouchedKept ==
  ASSUME NEW b, Kept(b), NEW c \in Book,
         c.trades = b.trades, c.equity = b.equity, c.opened = b.opened, c.open = b.open
  PROVE  /\ Kept(c)
         /\ \A n \in Int : UpTo(b, n) => UpTo(c, n)
<1>1. OneOpen(c) /\ (c.open = {} => b.open = {})
  BY DEF Kept, OneOpen
<1>2. \A q \in c.open : \E pos \in b.open :
        q.id = pos.id /\ q.at = pos.at /\ q.capital = pos.capital
  OBVIOUS
<1> QED
  BY <1>1, <1>2, RemarkedKept

-----------------------------------------------------------------------------
(* The ledger.                                                             *)

\* Appending a close and dropping old ones leaves a ledger.
LEMMA AddCandleKept ==
  ASSUME NEW b, Kept(b), NEW p, p.short \in Nat \ {0}, p.long \in Nat \ {0}, NEW c \in Close
  PROVE  /\ AddCandle(b, p, c) \in Book
         /\ AddCandle(b, p, c).open = b.open /\ AddCandle(b, p, c).trades = b.trades
         /\ AddCandle(b, p, c).equity = b.equity /\ AddCandle(b, p, c).opened = b.opened
         /\ AddCandle(b, p, c).pendingEntry = b.pendingEntry
         /\ AddCandle(b, p, c).pendingExit = b.pendingExit
         /\ AddCandle(b, p, c).last = b.last /\ AddCandle(b, p, c).rate = b.rate
<1> DEFINE l == Append(b.ledger, c)
           n == WarmupCount(p)
<1>1. b \in Book /\ b.ledger \in Seq(Close)
  BY DEF Kept, Book
<1>2. l \in Seq(Close)
  BY <1>1, AppendProperties
<1>3. n \in Nat \ {0}
  BY DEF WarmupCount
<1>4. Keep(l, n) \in Seq(Close)
  <2>1. CASE Len(l) > n + 1
    <3>1. Len(l) \in Nat /\ \A i \in 1 .. Len(l) : l[i] \in Close
      BY <1>2, LenProperties, ElementOfSeq
    <3> HIDE DEF l, n
    <3>2. \A i \in (Len(l) - n) .. Len(l) : l[i] \in Close
      BY <3>1, <2>1, <1>3
    <3>3. Len(l) - n \in Int /\ Len(l) \in Int
      BY <3>1, <1>3
    <3>4. SubSeq(l, Len(l) - n, Len(l)) \in Seq(Close)
      BY <3>2, <3>3, SubSeqProperties
    <3> QED
      BY <3>4, <2>1 DEF Keep
  <2>2. CASE ~(Len(l) > n + 1)
    <3> HIDE DEF l, n
    <3> QED
      BY <2>2, <1>2 DEF Keep
  <2> QED
    BY <2>1, <2>2
<1>5. AddCandle(b, p, c) = [b EXCEPT !.ledger = Keep(l, n)]
  BY <1>1 DEF AddCandle, Book
<1> HIDE DEF l, n
<1> QED
  BY <1>1, <1>4, <1>5 DEF Book

\* A snapshot shows the prices of its tick.
LEMMA SnapshotPrices ==
  ASSUME NEW b, NEW bid \in Int, NEW ask \in Int, NEW t \in Int
  PROVE  /\ Snapshot(b, bid, ask, t).bid = bid /\ Snapshot(b, bid, ask, t).ask = ask
         /\ Snapshot(b, bid, ask, t).at = t
BY DEF Snapshot

\* The peak the trailing rule remembers stays a number.
LEMMA PeakInt ==
  ASSUME NEW p, NEW pos \in Position, NEW s, s.bid \in Int, s.ask \in Int
  PROVE  PeakAfter(p, pos, s, pos.peak) \in Int
<1>1. ExitQuote(s, pos.side) \in Int
  BY DEF ExitQuote
<1>2. Gain(pos, s) \in Int
  BY <1>1, FavourableInt DEF Gain
<1>3. pos.peak \in Int
  BY DEF Position
<1>4. NewPeak(pos, s, pos.peak) \in Int
  BY <1>2, <1>3 DEF NewPeak
<1> QED
  BY <1>3, <1>4 DEF PeakAfter

-----------------------------------------------------------------------------
(* The stages of a tick.                                                   *)

\* Asking the exit rules: at most one order is accepted, for a position that is
\* there, unless the run ends.
LEMMA JudgeExitsSound ==
  ASSUME NEW b, Sound(b), NEW p, NEW s, s.bid \in Int, s.ask \in Int, NEW due \in Int,
         ~ExitRefused(b, p, s)
  PROVE  /\ Sound(JudgeExits(b, p, s, due))
         /\ \A n \in Int : UpTo(b, n) => UpTo(JudgeExits(b, p, s, due), n)
         /\ JudgeExits(b, p, s, due).rate = b.rate /\ JudgeExits(b, p, s, due).last = b.last
<1> DEFINE c == JudgeExits(b, p, s, due)
           order(pos) == [id |-> pos.id, type |-> ExitType(p, pos, s, pos.peak), due |-> due]
           told(pos) == [pos EXCEPT !.peak = PeakAfter(p, pos, s, pos.peak)]
           E == b.pendingExit \cup {order(pos) : pos \in Asked(b, p, s)}
           O == {told(pos) : pos \in b.open}
<1>1. b \in Book /\ b.open \subseteq Position /\ b.pendingExit \subseteq ExitOrder
  BY DEF Sound, Kept, Book
<1>2. \A pos \in b.open : /\ told(pos) \in Position /\ told(pos).id = pos.id
                          /\ told(pos).at = pos.at /\ told(pos).capital = pos.capital
  <2> TAKE pos \in b.open
  <2>1. pos \in Position
    BY <1>1
  <2>2. PeakAfter(p, pos, s, pos.peak) \in Int
    BY <2>1, PeakInt
  <2> QED
    BY <2>1, <2>2 DEF Position
<1>3. \A pos \in Asked(b, p, s) : order(pos) \in ExitOrder /\ pos \in b.open
  <2> TAKE pos \in Asked(b, p, s)
  <2>1. pos \in b.open /\ ExitType(p, pos, s, pos.peak) # "none"
    BY DEF Asked
  <2>2. ExitType(p, pos, s, pos.peak) \in ExitTypes
    BY <2>1, ExitTypeOK
  <2>3. pos.id \in Int
    BY <2>1, <1>1 DEF Position
  <2> QED
    BY <2>1, <2>2, <2>3 DEF ExitOrder
<1>4. c = [b EXCEPT !.pendingExit = E, !.open = O]
  BY <1>1 DEF JudgeExits, Book
<1>5. E \subseteq ExitOrder /\ O \subseteq Position
  BY <1>1, <1>2, <1>3
<1>6. \A o \in E : o \in b.pendingExit \/ \E pos \in Asked(b, p, s) : o = order(pos)
  OBVIOUS
<1>7. \A q \in O : \E pos \in b.open : q = told(pos)
  OBVIOUS
<1>8. \A pos \in b.open : told(pos) \in O
  OBVIOUS
<1> HIDE DEF c, E, O
<1>9. /\ c \in Book /\ c.open = O /\ c.pendingExit = E /\ c.pendingEntry = b.pendingEntry
      /\ c.trades = b.trades /\ c.equity = b.equity /\ c.opened = b.opened
      /\ c.rate = b.rate /\ c.last = b.last
  BY <1>1, <1>4, <1>5 DEF Book
<1>10. OneOpen(c)
  BY <1>7, <1>9 DEF Sound, Kept, OneOpen
<1>11. c.open = {} => b.open = {}
  BY <1>8, <1>9
<1>12. \A q \in c.open : \E pos \in b.open :
         q.id = pos.id /\ q.at = pos.at /\ q.capital = pos.capital
  <2> TAKE q \in c.open
  <2>1. PICK pos \in b.open : q = told(pos)
    BY <1>7, <1>9
  <2> QED
    BY <2>1, <1>2
<1>13. Kept(c) /\ \A n \in Int : UpTo(b, n) => UpTo(c, n)
  BY <1>9, <1>10, <1>11, <1>12, RemarkedKept DEF Sound
<1>14. \A x, y \in E : x = y
  <2> TAKE x, y \in E
  <2>1. CASE Asked(b, p, s) = {}
    BY <1>6, <2>1 DEF Sound, Orders
  <2>2. CASE Asked(b, p, s) # {}
    <3>1. b.pendingExit = {}
      BY <2>2 DEF ExitRefused
    <3>2. PICK u \in Asked(b, p, s) : x = order(u)
      BY <1>6, <3>1
    <3>3. PICK v \in Asked(b, p, s) : y = order(v)
      BY <1>6, <3>1
    <3>4. u = v
      BY DEF ExitRefused
    <3> QED
      BY <3>2, <3>3, <3>4
  <2> QED
    BY <2>1, <2>2
<1>15. \A o \in E : \E pos \in O : pos.id = o.id
  <2> TAKE o \in E
  <2>1. CASE o \in b.pendingExit
    <3>1. PICK pos \in b.open : pos.id = o.id
      BY <2>1 DEF Sound, Orders
    <3> QED
      BY <3>1, <1>2, <1>8
  <2>2. CASE \E pos \in Asked(b, p, s) : o = order(pos)
    <3>1. PICK pos \in Asked(b, p, s) : o = order(pos)
      BY <2>2
    <3>2. o.id = pos.id /\ pos \in b.open
      BY <3>1, <1>3
    <3> QED
      BY <3>2, <1>2, <1>8
  <2> QED
    BY <1>6, <2>1, <2>2
<1>16. b.pendingEntry # {} => O = {} /\ E = {}
  <2>1. SUFFICES ASSUME b.pendingEntry # {} PROVE O = {} /\ E = {}
    OBVIOUS
  <2>2. b.open = {} /\ b.pendingExit = {}
    BY <2>1 DEF Sound, Orders
  <2>3. O = {}
    BY <2>2, <1>7
  <2> QED
    BY <2>2, <2>3, <1>3, <1>6
<1>17. Orders(c)
  BY <1>9, <1>14, <1>15, <1>16 DEF Sound, Orders
<1> QED
  BY <1>9, <1>13, <1>17 DEF Sound, c

\* Asking the entry rule: an order waits only where nothing is open or waiting.
LEMMA JudgeEntrySound ==
  ASSUME NEW b, Sound(b), b.rate > 0, NEW p, NEW s, NEW due \in Int
  PROVE  /\ Sound(JudgeEntry(b, p, s, due))
         /\ \A n \in Int : UpTo(b, n) => UpTo(JudgeEntry(b, p, s, due), n)
         /\ JudgeEntry(b, p, s, due).rate = b.rate /\ JudgeEntry(b, p, s, due).last = b.last
<1>1. CASE ~(MayEnter(b) /\ EntrySide(p, s) # "none")
  BY <1>1 DEF JudgeEntry
<1>2. CASE MayEnter(b) /\ EntrySide(p, s) # "none"
  <2> DEFINE o == [side |-> EntrySide(p, s), lot |-> Lot(b), due |-> due]
             c == JudgeEntry(b, p, s, due)
  <2>1. b \in Book
    BY DEF Sound, Kept
  <2>2. o \in EntryOrder
    BY <1>2, <2>1, EntrySideOK, LotInt DEF EntryOrder
  <2>3. c = [b EXCEPT !.pendingEntry = {o}]
    BY <1>2 DEF JudgeEntry
  <2> HIDE DEF o, c
  <2>4. /\ c \in Book /\ c.pendingEntry = {o} /\ c.open = b.open /\ c.trades = b.trades
        /\ c.equity = b.equity /\ c.opened = b.opened /\ c.pendingExit = b.pendingExit
        /\ c.rate = b.rate /\ c.last = b.last
    BY <2>1, <2>2, <2>3 DEF Book
  <2>5. Kept(c) /\ \A n \in Int : UpTo(b, n) => UpTo(c, n)
    BY <2>4, UntouchedKept DEF Sound
  <2>6. b.open = {} /\ b.pendingExit = {}
    BY <1>2 DEF MayEnter, HasAnyPending
  <2>7. Orders(c)
    BY <2>4, <2>6 DEF Orders
  <2> QED
    BY <2>4, <2>5, <2>7 DEF Sound, c
<1> QED
  BY <1>1, <1>2

\* Where an order is filled.
LEMMA SlippedInt ==
  ASSUME NEW tick, tick.bid \in Int, tick.ask \in Int, NEW side, NEW slip \in Int
  PROVE  SlippedPrice(tick, side, slip) \in Int
BY DEF SlippedPrice

\* Filling an exit closes the one open position.
LEMMA FillExitSound ==
  ASSUME NEW b, Sound(b), NEW tick, tick.bid \in Int, tick.ask \in Int, tick.at \in Int,
         UpTo(b, tick.at), NEW slip \in Int
  PROVE  /\ Sound(FillExit(b, tick, slip)) /\ UpTo(FillExit(b, tick, slip), tick.at)
         /\ FillExit(b, tick, slip).rate = b.rate /\ FillExit(b, tick, slip).last = b.last
         /\ FillExit(b, tick, slip).pendingEntry = b.pendingEntry
<1>1. CASE Due(b.pendingExit, tick) = {}
  BY <1>1 DEF FillExit
<1>2. CASE Due(b.pendingExit, tick) # {}
  <2> DEFINE o == CHOOSE o \in Due(b.pendingExit, tick) : TRUE
             pos == CHOOSE q \in b.open : q.id = o.id
             d == [b EXCEPT !.pendingExit = {}]
             x == SlippedPrice(tick, Opposite(pos.side), slip)
  <2>1. o \in b.pendingExit
    BY <1>2 DEF Due
  <2>2. \E q \in b.open : q.id = o.id
    BY <2>1 DEF Sound, Orders
  <2>3. pos \in b.open
    BY <2>2
  <2>4. FillExit(b, tick, slip) = Closed(d, pos, x, tick.at, o.type)
    BY <1>2 DEF FillExit
  <2>5. x \in Int
    BY SlippedInt
  <2>6. b \in Book /\ o \in ExitOrder
    BY <2>1 DEF Sound, Kept, Book
  <2>7. o.type \in ExitTypes
    BY <2>6 DEF ExitOrder
  <2> HIDE DEF o, pos, x, d
  <2>8. /\ d \in Book /\ d.pendingExit = {} /\ d.open = b.open /\ d.trades = b.trades
        /\ d.equity = b.equity /\ d.opened = b.opened /\ d.pendingEntry = b.pendingEntry
        /\ d.rate = b.rate /\ d.last = b.last
    BY <2>6 DEF Book, d
  <2>9. Kept(d) /\ UpTo(d, tick.at)
    BY <2>8, UntouchedKept DEF Sound
  <2>10. pos \in d.open /\ pos.at <= tick.at
    BY <2>3, <2>8 DEF UpTo
  <2> DEFINE c == Closed(d, pos, x, tick.at, o.type)
  <2>11. /\ Kept(c) /\ c.open = {} /\ c.pendingEntry = d.pendingEntry
         /\ c.pendingExit = d.pendingExit /\ c.last = d.last /\ c.rate = d.rate
         /\ UpTo(d, tick.at) /\ tick.at <= tick.at => UpTo(c, tick.at)
    BY <2>5, <2>7, <2>9, <2>10, ClosedKept
  <2>12. UpTo(c, tick.at)
    BY <2>9, <2>11
  <2> HIDE DEF c
  <2>13. b.pendingEntry = {}
    BY <2>1 DEF Sound, Orders
  <2>14. Orders(c)
    BY <2>8, <2>11, <2>13 DEF Orders
  <2> QED
    BY <2>4, <2>8, <2>11, <2>12, <2>14 DEF Sound, c
<1> QED
  BY <1>1, <1>2

\* Filling an entry opens a position where none is.
LEMMA FillEntrySound ==
  ASSUME NEW b, Sound(b), NEW tick, tick.bid \in Int, tick.ask \in Int, tick.at \in Int,
         UpTo(b, tick.at), NEW slip \in Int
  PROVE  /\ Sound(FillEntry(b, tick, slip)) /\ UpTo(FillEntry(b, tick, slip), tick.at)
         /\ FillEntry(b, tick, slip).rate = b.rate /\ FillEntry(b, tick, slip).last = b.last
<1>1. CASE Due(b.pendingEntry, tick) = {}
  BY <1>1 DEF FillEntry
<1>2. CASE Due(b.pendingEntry, tick) # {}
  <2> DEFINE o == CHOOSE o \in Due(b.pendingEntry, tick) : TRUE
             d == [b EXCEPT !.pendingEntry = {}]
             x == SlippedPrice(tick, o.side, slip)
  <2>1. o \in b.pendingEntry
    BY <1>2 DEF Due
  <2>2. FillEntry(b, tick, slip) = Opened(d, o, x, tick.at)
    BY <1>2 DEF FillEntry
  <2>3. x \in Int
    BY SlippedInt
  <2>4. b \in Book /\ o \in EntryOrder
    BY <2>1 DEF Sound, Kept, Book
  <2>5. o.side \in Sides /\ o.lot \in Int
    BY <2>4 DEF EntryOrder
  <2> HIDE DEF o, x, d
  <2>6. /\ d \in Book /\ d.pendingEntry = {} /\ d.open = b.open /\ d.trades = b.trades
        /\ d.equity = b.equity /\ d.opened = b.opened /\ d.pendingExit = b.pendingExit
        /\ d.rate = b.rate /\ d.last = b.last
    BY <2>4 DEF Book, d
  <2>7. Kept(d) /\ UpTo(d, tick.at)
    BY <2>6, UntouchedKept DEF Sound
  <2>8. d.open = {} /\ d.pendingExit = {}
    BY <2>1, <2>6 DEF Sound, Orders
  <2> DEFINE c == Opened(d, o, x, tick.at)
  <2>9. /\ Kept(c) /\ UpTo(c, tick.at) /\ c.pendingEntry = d.pendingEntry
        /\ c.pendingExit = d.pendingExit /\ c.last = d.last /\ c.rate = d.rate
    BY <2>3, <2>5, <2>7, <2>8, OpenedKept
  <2> HIDE DEF c
  <2>10. Orders(c)
    BY <2>6, <2>8, <2>9 DEF Orders
  <2> QED
    BY <2>2, <2>6, <2>9, <2>10 DEF Sound, c
<1> QED
  BY <1>1, <1>2

\* The same for the orders: each keeps its position.
LEMMA RemarkedSound ==
  ASSUME NEW b, Sound(b), NEW c \in Book,
         c.trades = b.trades, c.equity = b.equity, c.opened = b.opened,
         c.pendingEntry = b.pendingEntry, c.pendingExit = b.pendingExit,
         OneOpen(c),
         \A q \in c.open : \E pos \in b.open :
           q.id = pos.id /\ q.at = pos.at /\ q.capital = pos.capital,
         \A pos \in b.open : \E q \in c.open : q.id = pos.id
  PROVE  Sound(c) /\ \A n \in Int : UpTo(b, n) => UpTo(c, n)
<1>1. c.open = {} => b.open = {}
  OBVIOUS
<1>2. Kept(c) /\ \A n \in Int : UpTo(b, n) => UpTo(c, n)
  BY <1>1, RemarkedKept DEF Sound
<1>3. \A o \in c.pendingExit : \E pos \in c.open : pos.id = o.id
  <2> TAKE o \in c.pendingExit
  <2>1. PICK pos \in b.open : pos.id = o.id
    BY DEF Sound, Orders
  <2> QED
    BY <2>1
<1>4. b.open = {} => c.open = {}
  OBVIOUS
<1>5. Orders(c)
  BY <1>3, <1>4 DEF Sound, Orders
<1> QED
  BY <1>2, <1>5 DEF Sound

\* The extremes after a tick.
LEMMA TrackTickSound ==
  ASSUME NEW b, Sound(b), NEW tick, tick.bid \in Int, tick.ask \in Int
  PROVE  /\ Sound(TrackTick(b, tick)) /\ TrackTick(b, tick).last = b.last
         /\ \A n \in Int : UpTo(b, n) => UpTo(TrackTick(b, tick), n)
<1> DEFINE x(pos) == ExitQuote(tick, pos.side)
           told(pos) == [pos EXCEPT !.seen = Stretched(pos.seen, x(pos), x(pos))]
           O == {told(pos) : pos \in b.open}
           c == TrackTick(b, tick)
<1>1. b \in Book /\ b.open \subseteq Position
  BY DEF Sound, Kept, Book
<1>2. \A pos \in b.open : /\ told(pos) \in Position /\ told(pos).id = pos.id
                          /\ told(pos).at = pos.at /\ told(pos).capital = pos.capital
  <2> TAKE pos \in b.open
  <2>1. pos \in Position /\ pos.seen \in SUBSET Extreme
    BY <1>1 DEF Position
  <2>2. x(pos) \in Int
    BY DEF ExitQuote
  <2> HIDE DEF x
  <2>3. Stretched(pos.seen, x(pos), x(pos)) \in SUBSET Extreme
    BY <2>1, <2>2, StretchedOK
  <2> QED
    BY <2>1, <2>3 DEF Position
<1>3. \A q \in O : \E pos \in b.open : q = told(pos)
  OBVIOUS
<1>4. \A pos \in b.open : told(pos) \in O
  OBVIOUS
<1>5. c = [b EXCEPT !.open = O]
  BY DEF TrackTick
<1>6. \A u, v \in b.open : u = v
  BY DEF Sound, Kept, OneOpen
<1> HIDE DEF O, c, told
<1>7. O \subseteq Position
  BY <1>2, <1>3
<1>8. /\ c \in Book /\ c.open = O /\ c.pendingExit = b.pendingExit
      /\ c.pendingEntry = b.pendingEntry /\ c.trades = b.trades /\ c.equity = b.equity
      /\ c.opened = b.opened /\ c.last = b.last
  BY <1>1, <1>5, <1>7 DEF Book
<1>9. OneOpen(c)
  BY <1>3, <1>6, <1>8 DEF OneOpen
<1>10. \A q \in c.open : \E pos \in b.open :
         q.id = pos.id /\ q.at = pos.at /\ q.capital = pos.capital
  BY <1>2, <1>3, <1>8
<1>11. \A pos \in b.open : \E q \in c.open : q.id = pos.id
  BY <1>2, <1>4, <1>8
<1>12. Sound(c) /\ \A n \in Int : UpTo(b, n) => UpTo(c, n)
  BY <1>8, <1>9, <1>10, <1>11, RemarkedSound
<1> QED
  BY <1>8, <1>12 DEF c

\* What holds of the book between two ticks: nothing in it is later than the last.
TickBook(b) ==
  /\ Sound(b)
  /\ \A x, y \in b.last : x = y
  /\ \A n \in Int : (\A l \in b.last : l.at <= n) => UpTo(b, n)
  /\ b.last = {} => b.pendingEntry = {} /\ b.pendingExit = {}

\* A sound book that reaches to its last tick is such a book.
LEMMA UpToLast ==
  ASSUME NEW d, Sound(d), NEW tick, tick.at \in Int, d.last = {tick}, UpTo(d, tick.at)
  PROVE  TickBook(d)
<1>1. ASSUME NEW n \in Int, \A l \in d.last : l.at <= n
      PROVE  UpTo(d, n)
  <2>1. tick.at <= n
    BY <1>1
  <2>2. d \in Book
    BY DEF Sound, Kept
  <2>3. \A i \in DOMAIN d.trades : d.trades[i].exitAt \in Int
    <3>1. d.trades \in Seq(Trade)
      BY <2>2 DEF Book
    <3>2. \A i \in DOMAIN d.trades : d.trades[i] \in Trade
      BY <3>1
    <3> QED
      BY <3>2 DEF Trade
  <2>4. \A pos \in d.open : pos.at \in Int
    BY <2>2 DEF Book, Position
  <2> QED
    BY <2>1, <2>3, <2>4 DEF UpTo
<1> QED
  BY <1>1 DEF TickBook

\* The book the rules are shown.
LEMMA ShownSound ==
  ASSUME NEW b, TickBook(b), NEW p, p.short \in Nat \ {0}, p.long \in Nat \ {0},
         NEW tick \in Tick, \A l \in b.last : l.at < tick.at
  PROVE  /\ Sound(Shown(b, p, tick)) /\ UpTo(Shown(b, p, tick), tick.at)
         /\ Shown(b, p, tick).rate = tick.bid /\ Shown(b, p, tick).last = {tick}
<1> DEFINE f == {[bucket |-> Bucket(tick.at), close |-> tick.bid]}
           a == Accumulated(b, tick)
<1>1. b \in Book /\ tick.bid \in Int /\ tick.at \in Int
  BY DEF TickBook, Sound, Kept, Tick
<1>2. \A l \in b.last : l.at <= tick.at
  <2>1. \A l \in b.last : l.at \in Int
    BY <1>1 DEF Book, Tick
  <2> QED
    BY <2>1, <1>1
<1>3. UpTo(b, tick.at)
  BY <1>1, <1>2 DEF TickBook
<1>4. f \in SUBSET Close
  BY <1>1, BookAssumption DEF Close, Bucket
<1>5. a = [b EXCEPT !.rate = tick.bid, !.last = {tick}, !.forming = f]
  BY DEF Accumulated
<1> HIDE DEF f, a
<1>6. /\ a \in Book /\ a.rate = tick.bid /\ a.last = {tick} /\ a.trades = b.trades
      /\ a.equity = b.equity /\ a.opened = b.opened /\ a.open = b.open
      /\ a.pendingEntry = b.pendingEntry /\ a.pendingExit = b.pendingExit
  BY <1>1, <1>4, <1>5 DEF Book
<1>7. Kept(a) /\ UpTo(a, tick.at)
  BY <1>1, <1>3, <1>6, UntouchedKept DEF TickBook, Sound
<1>8. Orders(a)
  BY <1>6 DEF TickBook, Sound, Orders
<1>9. CASE Confirmed(b, tick) = {}
  BY <1>6, <1>7, <1>8, <1>9 DEF Shown, Sound, a
<1>10. CASE Confirmed(b, tick) # {}
  <2> DEFINE k == CHOOSE k \in Confirmed(b, tick) : TRUE
             c == AddCandle(a, p, k)
  <2>1. k \in b.forming
    BY <1>10 DEF Confirmed
  <2>2. k \in Close
    BY <2>1, <1>1 DEF Book
  <2>3. Shown(b, p, tick) = c
    BY <1>10 DEF Shown, a
  <2> HIDE DEF k
  <2>4. /\ c \in Book /\ c.open = a.open /\ c.trades = a.trades /\ c.equity = a.equity
        /\ c.opened = a.opened /\ c.pendingEntry = a.pendingEntry
        /\ c.pendingExit = a.pendingExit /\ c.last = a.last /\ c.rate = a.rate
    BY <1>7, <2>2, AddCandleKept
  <2> HIDE DEF c
  <2>5. Kept(c) /\ UpTo(c, tick.at)
    BY <1>1, <1>7, <2>4, UntouchedKept
  <2>6. Orders(c)
    BY <1>8, <2>4 DEF Orders
  <2> QED
    BY <1>6, <2>3, <2>4, <2>5, <2>6 DEF Sound
<1> QED
  BY <1>9, <1>10

\* What is due is filled, and what is open is tracked.
LEMMA FillsSound ==
  ASSUME NEW b, Sound(b), NEW tick, tick.bid \in Int, tick.ask \in Int, tick.at \in Int,
         UpTo(b, tick.at), b.last = {tick}, NEW exitSlip \in Int, NEW entrySlip \in Int
  PROVE  TickBook(TrackTick(FillEntry(FillExit(b, tick, exitSlip), tick, entrySlip), tick))
<1> DEFINE k == FillExit(b, tick, exitSlip)
           c == FillEntry(k, tick, entrySlip)
           d == TrackTick(c, tick)
<1>1. Sound(k) /\ UpTo(k, tick.at) /\ k.last = {tick}
  BY FillExitSound
<1> HIDE DEF k
<1>2. Sound(c) /\ UpTo(c, tick.at) /\ c.last = {tick}
  BY <1>1, FillEntrySound
<1> HIDE DEF c
<1>3. Sound(d) /\ d.last = c.last /\ \A n \in Int : UpTo(c, n) => UpTo(d, n)
  BY <1>2, TrackTickSound
<1> HIDE DEF d
<1>4. UpTo(d, tick.at) /\ d.last = {tick}
  BY <1>2, <1>3
<1>5. TickBook(d)
  BY <1>3, <1>4, UpToLast
<1> QED
  BY <1>5 DEF d, c, k

\* One tick, whatever the rules answer, unless they end the run.
LEMMA TickSound ==
  ASSUME NEW b, TickBook(b), NEW p, p.short \in Nat \ {0}, p.long \in Nat \ {0},
         NEW tick \in Tick, tick.bid > 0, \A l \in b.last : l.at < tick.at,
         NEW due \in Int, NEW judged, NEW exitSlip \in Int, NEW entrySlip \in Int,
         \/ judged = Shown(b, p, tick)
         \/ /\ ~RulesThrow(Shown(b, p, tick), p, tick, due)
            /\ judged = Judged(Shown(b, p, tick), p, tick, due)
  PROVE  TickBook(TrackTick(FillEntry(FillExit(judged, tick, exitSlip), tick, entrySlip), tick))
<1> DEFINE a == Shown(b, p, tick)
           s == ShownAt(a, tick)
<1>1. tick.bid \in Int /\ tick.ask \in Int /\ tick.at \in Int
  BY DEF Tick
<1>2. Sound(a) /\ UpTo(a, tick.at) /\ a.rate = tick.bid /\ a.last = {tick}
  BY ShownSound
<1>3. Sound(judged) /\ UpTo(judged, tick.at) /\ judged.last = {tick}
  <2>1. CASE judged = a
    BY <2>1, <1>2
  <2>2. CASE ~RulesThrow(a, p, tick, due) /\ judged = Judged(a, p, tick, due)
    <3> DEFINE e == JudgeExits(a, p, s, due)
    <3>1. ~ExitRefused(a, p, s) /\ judged = JudgeEntry(e, p, s, due)
      BY <2>2 DEF RulesThrow, Judged
    <3>2. s.bid \in Int /\ s.ask \in Int
      BY <1>1, SnapshotPrices DEF ShownAt
    <3> HIDE DEF a, s
    <3>3. /\ Sound(e) /\ e.rate = a.rate /\ e.last = a.last
          /\ \A n \in Int : UpTo(a, n) => UpTo(e, n)
      BY <1>2, <3>1, <3>2, JudgeExitsSound
    <3> HIDE DEF e
    <3>4. e.rate > 0
      BY <3>3, <1>2
    <3>5. /\ Sound(judged) /\ judged.last = e.last
          /\ \A n \in Int : UpTo(e, n) => UpTo(judged, n)
      BY <3>1, <3>3, <3>4, JudgeEntrySound
    <3> QED
      BY <1>1, <1>2, <3>3, <3>5
  <2> QED
    BY <2>1, <2>2
<1> HIDE DEF a, s
<1> QED
  BY <1>1, <1>3, FillsSound

\* An exit that is due does not wait any longer.
LEMMA FillExitEmpties ==
  ASSUME NEW b, Sound(b), NEW tick, NEW slip, \A o \in b.pendingExit : o.due <= tick.at
  PROVE  FillExit(b, tick, slip).pendingExit = {}
<1>1. CASE b.pendingExit = {}
  BY <1>1 DEF FillExit, Due
<1>2. CASE b.pendingExit # {}
  <2>1. b \in Book
    BY DEF Sound, Kept
  <2>2. Due(b.pendingExit, tick) # {}
    BY <1>2 DEF Due
  <2> QED
    BY <2>1, <2>2 DEF FillExit, Closed, Book
<1> QED
  BY <1>1, <1>2

\* When the stream ends nothing waits any longer.
LEMMA SettledSound ==
  ASSUME NEW b, TickBook(b), b.last # {}, NEW slip \in Int
  PROVE  /\ TickBook(Settled(b, slip))
         /\ Settled(b, slip).pendingEntry = {} /\ Settled(b, slip).pendingExit = {}
<1> DEFINE tick == CHOOSE t \in b.last : TRUE
           due(o) == [o EXCEPT !.due = tick.at]
           E == {due(o) : o \in b.pendingExit}
           d == [b EXCEPT !.pendingEntry = {}, !.pendingExit = E]
           c == FillExit(d, tick, slip)
<1>1. b \in Book
  BY DEF TickBook, Sound, Kept
<1>2. b.last = {tick}
  BY DEF TickBook
<1>3. tick.bid \in Int /\ tick.ask \in Int /\ tick.at \in Int
  BY <1>1, <1>2 DEF Book, Tick
<1>4. UpTo(b, tick.at)
  BY <1>2, <1>3 DEF TickBook
<1>5. Settled(b, slip) = c
  BY DEF Settled
<1>6. \A o \in b.pendingExit : due(o) \in ExitOrder /\ due(o).id = o.id /\ due(o).due = tick.at
  <2> HIDE DEF tick
  <2> QED
    BY <1>1, <1>3 DEF Book, ExitOrder
<1>7. \A e \in E : \E o \in b.pendingExit : e = due(o)
  OBVIOUS
<1> HIDE DEF tick, E, due
<1>8. E \subseteq ExitOrder /\ \A e \in E : e.due = tick.at
  BY <1>6, <1>7
<1>9. /\ d \in Book /\ d.pendingEntry = {} /\ d.pendingExit = E /\ d.trades = b.trades
      /\ d.equity = b.equity /\ d.opened = b.opened /\ d.open = b.open /\ d.last = b.last
  BY <1>1, <1>8 DEF Book
<1> HIDE DEF d
<1>10. Kept(d) /\ UpTo(d, tick.at)
  BY <1>3, <1>4, <1>9, UntouchedKept DEF TickBook, Sound
<1>11. \A x, y \in E : x = y
  <2>1. \A x, y \in b.pendingExit : x = y
    BY DEF TickBook, Sound, Orders
  <2> QED
    BY <2>1, <1>7
<1>12. \A e \in E : \E pos \in d.open : pos.id = e.id
  <2> TAKE e \in E
  <2>1. PICK o \in b.pendingExit : e = due(o)
    BY <1>7
  <2>2. PICK pos \in b.open : pos.id = o.id
    BY <2>1 DEF TickBook, Sound, Orders
  <2> QED
    BY <2>1, <2>2, <1>6, <1>9
<1>13. Sound(d)
  BY <1>9, <1>10, <1>11, <1>12 DEF Sound, Orders
<1>14. /\ Sound(c) /\ UpTo(c, tick.at)
       /\ c.rate = d.rate /\ c.last = d.last /\ c.pendingEntry = d.pendingEntry
  BY <1>3, <1>10, <1>13, FillExitSound
<1>15. \A e \in d.pendingExit : e.due <= tick.at
  BY <1>3, <1>8, <1>9
<1>16. c.pendingExit = {}
  BY <1>13, <1>15, FillExitEmpties
<1> HIDE DEF c
<1>17. TickBook(c)
  <2>1. c.last = {tick}
    BY <1>2, <1>9, <1>14
  <2> QED
    BY <1>3, <1>14, <2>1, UpToLast
<1> QED
  BY <1>5, <1>9, <1>14, <1>16, <1>17

\* What is still open is closed at the last tick.
LEMMA ForceClosedAtTickSound ==
  ASSUME NEW b, TickBook(b), b.pendingEntry = {}, b.pendingExit = {},
         NEW pos \in b.open, NEW slip \in Int
  PROVE  /\ TickBook(ForceClosedAtTick(b, pos, slip))
         /\ ForceClosedAtTick(b, pos, slip).pendingEntry = {}
         /\ ForceClosedAtTick(b, pos, slip).pendingExit = {}
<1> DEFINE tick == CHOOSE t \in b.last : TRUE
           x == SlippedPrice(tick, Opposite(pos.side), slip)
           c == Closed(b, pos, x, tick.at, "FORCE_CLOSE")
<1>1. b \in Book /\ pos.at \in Int
  BY DEF TickBook, Sound, Kept, Book, Position
<1>2. b.last # {}
  <2>1. SUFFICES ASSUME b.last = {} PROVE FALSE
    OBVIOUS
  <2>2. pos.at - 1 \in Int
    BY <1>1
  <2>3. UpTo(b, pos.at - 1)
    BY <2>1, <2>2 DEF TickBook
  <2> QED
    BY <2>3, <1>1 DEF UpTo
<1>3. b.last = {tick}
  BY <1>2 DEF TickBook
<1>4. tick.bid \in Int /\ tick.ask \in Int /\ tick.at \in Int
  BY <1>1, <1>3 DEF Book, Tick
<1>5. UpTo(b, tick.at)
  BY <1>3, <1>4 DEF TickBook
<1>6. ForceClosedAtTick(b, pos, slip) = c
  BY DEF ForceClosedAtTick
<1> HIDE DEF tick
<1>7. x \in Int
  BY <1>4, SlippedInt
<1>8. pos.at <= tick.at /\ "FORCE_CLOSE" \in ExitTypes /\ Kept(b)
  BY <1>5 DEF UpTo, ExitTypes, TickBook, Sound
<1> HIDE DEF x
<1>9. /\ Kept(c) /\ c.open = {} /\ c.pendingEntry = b.pendingEntry
      /\ c.pendingExit = b.pendingExit /\ c.last = b.last /\ c.rate = b.rate
      /\ \A n \in Int : UpTo(b, n) /\ tick.at <= n => UpTo(c, n)
  BY <1>4, <1>7, <1>8, ClosedKept
<1> HIDE DEF c
<1>10. Sound(c)
  BY <1>9 DEF Sound, Orders
<1>11. UpTo(c, tick.at)
  BY <1>4, <1>5, <1>9
<1>12. TickBook(c)
  BY <1>3, <1>4, <1>9, <1>10, <1>11, UpToLast
<1> QED
  BY <1>6, <1>9, <1>12

-----------------------------------------------------------------------------
(* The stages of a candle.                                                 *)

Candle == [bucket : Int, open : Int, close : Int, high : Int, low : Int]

\* What holds of the book between two candles: no order waits.
CandleBook(b) == Sound(b) /\ b.pendingEntry = {} /\ b.pendingExit = {} /\ b.last = {}

\* The extremes after a candle.
LEMMA TrackCandleSound ==
  ASSUME NEW b, CandleBook(b), NEW k \in Candle
  PROVE  /\ CandleBook(TrackCandle(b, k)) /\ TrackCandle(b, k).rate = b.rate
         /\ \A n \in Int : UpTo(b, n) => UpTo(TrackCandle(b, k), n)
<1> DEFINE told(pos) == [pos EXCEPT !.seen = Stretched(pos.seen, k.high, k.low)]
           O == {told(pos) : pos \in b.open}
           c == TrackCandle(b, k)
<1>1. b \in Book /\ b.open \subseteq Position /\ k.high \in Int /\ k.low \in Int
  BY DEF CandleBook, Sound, Kept, Book, Candle
<1>2. \A pos \in b.open : /\ told(pos) \in Position /\ told(pos).id = pos.id
                          /\ told(pos).at = pos.at /\ told(pos).capital = pos.capital
  <2> TAKE pos \in b.open
  <2>1. pos \in Position /\ pos.seen \in SUBSET Extreme
    BY <1>1 DEF Position
  <2>2. Stretched(pos.seen, k.high, k.low) \in SUBSET Extreme
    BY <1>1, <2>1, StretchedOK
  <2> QED
    BY <2>1, <2>2 DEF Position
<1>3. \A q \in O : \E pos \in b.open : q = told(pos)
  OBVIOUS
<1>4. \A pos \in b.open : told(pos) \in O
  OBVIOUS
<1>5. c = [b EXCEPT !.open = O]
  BY DEF TrackCandle
<1>6. \A u, v \in b.open : u = v
  BY DEF CandleBook, Sound, Kept, OneOpen
<1> HIDE DEF O, c, told
<1>7. O \subseteq Position
  BY <1>2, <1>3
<1>8. /\ c \in Book /\ c.open = O /\ c.pendingExit = b.pendingExit
      /\ c.pendingEntry = b.pendingEntry /\ c.trades = b.trades /\ c.equity = b.equity
      /\ c.opened = b.opened /\ c.last = b.last /\ c.rate = b.rate
  BY <1>1, <1>5, <1>7 DEF Book
<1>9. OneOpen(c)
  BY <1>3, <1>6, <1>8 DEF OneOpen
<1>10. \A q \in c.open : \E pos \in b.open :
         q.id = pos.id /\ q.at = pos.at /\ q.capital = pos.capital
  BY <1>2, <1>3, <1>8
<1>11. \A pos \in b.open : \E q \in c.open : q.id = pos.id
  BY <1>2, <1>4, <1>8
<1>12. Sound(c) /\ \A n \in Int : UpTo(b, n) => UpTo(c, n)
  BY <1>8, <1>9, <1>10, <1>11, RemarkedSound DEF CandleBook
<1> QED
  BY <1>8, <1>12 DEF c, CandleBook

\* A candle enters the ledger and the extremes.
LEMMA TakeCandleSound ==
  ASSUME NEW b, CandleBook(b), NEW p, p.short \in Nat \ {0}, p.long \in Nat \ {0},
         NEW k \in Candle
  PROVE  /\ CandleBook(TakeCandle(b, p, k)) /\ TakeCandle(b, p, k).rate = k.close
         /\ \A n \in Int : UpTo(b, n) => UpTo(TakeCandle(b, p, k), n)
<1> DEFINE new == [bucket |-> k.bucket, close |-> k.close]
           a == AddCandle(b, p, new)
           d == [a EXCEPT !.rate = k.close]
<1>1. new \in Close /\ k.close \in Int
  BY DEF Candle, Close
<1>2. Kept(b)
  BY DEF CandleBook, Sound
<1> HIDE DEF new
<1>3. /\ a \in Book /\ a.open = b.open /\ a.trades = b.trades /\ a.equity = b.equity
      /\ a.opened = b.opened /\ a.pendingEntry = b.pendingEntry
      /\ a.pendingExit = b.pendingExit /\ a.last = b.last /\ a.rate = b.rate
  BY <1>1, <1>2, AddCandleKept
<1> HIDE DEF a
<1>4. /\ d \in Book /\ d.open = b.open /\ d.trades = b.trades /\ d.equity = b.equity
      /\ d.opened = b.opened /\ d.pendingEntry = b.pendingEntry
      /\ d.pendingExit = b.pendingExit /\ d.last = b.last /\ d.rate = k.close
  BY <1>1, <1>3 DEF Book
<1>5. TakeCandle(b, p, k) = TrackCandle(d, k)
  BY DEF TakeCandle, d, a, new
<1> HIDE DEF d
<1>6. Kept(d) /\ \A n \in Int : UpTo(b, n) => UpTo(d, n)
  BY <1>2, <1>4, UntouchedKept
<1>7. CandleBook(d)
  BY <1>4, <1>6 DEF CandleBook, Sound, Orders
<1> QED
  BY <1>4, <1>5, <1>6, <1>7, TrackCandleSound

\* The one open position is replaced by itself with something else remembered.
LEMMA ReplacedSound ==
  ASSUME NEW b, CandleBook(b), NEW pos \in b.open, NEW q \in Position,
         q.id = pos.id, q.at = pos.at, q.capital = pos.capital,
         NEW c, c = [b EXCEPT !.open = (@ \ {pos}) \cup {q}]
  PROVE  /\ CandleBook(c) /\ c.rate = b.rate
         /\ \A n \in Int : UpTo(b, n) => UpTo(c, n)
<1>1. b \in Book /\ b.open = {pos}
  BY DEF CandleBook, Sound, Kept, OneOpen
<1>2. (b.open \ {pos}) \cup {q} = {q}
  BY <1>1
<1>3. c = [b EXCEPT !.open = {q}]
  BY <1>2
<1>4. /\ c \in Book /\ c.open = {q} /\ c.pendingExit = b.pendingExit
      /\ c.pendingEntry = b.pendingEntry /\ c.trades = b.trades /\ c.equity = b.equity
      /\ c.opened = b.opened /\ c.last = b.last /\ c.rate = b.rate
  BY <1>1, <1>3 DEF Book
<1>5. OneOpen(c)
  BY <1>4 DEF OneOpen
<1>6. \A y \in c.open : \E x \in b.open : y.id = x.id /\ y.at = x.at /\ y.capital = x.capital
  BY <1>4
<1>7. \A x \in b.open : \E y \in c.open : y.id = x.id
  BY <1>1, <1>4
<1>8. Sound(c) /\ \A n \in Int : UpTo(b, n) => UpTo(c, n)
  BY <1>4, <1>5, <1>6, <1>7, RemarkedSound DEF CandleBook
<1> QED
  BY <1>4, <1>8 DEF CandleBook

\* An exit at the open of the next candle.
LEMMA JudgeAtNextOpenSound ==
  ASSUME NEW b, CandleBook(b), NEW p, NEW pos \in b.open, NEW k \in Candle, NEW nxt \in Candle,
         UpTo(b, Slots * nxt.bucket)
  PROVE  /\ CandleBook(JudgeAtNextOpen(b, p, pos, k, nxt))
         /\ UpTo(JudgeAtNextOpen(b, p, pos, k, nxt), Slots * nxt.bucket)
         /\ JudgeAtNextOpen(b, p, pos, k, nxt).rate = b.rate
<1> DEFINE s == ShownAfter(b, k)
           type == ExitType(p, pos, s, pos.peak)
           t == Slots * nxt.bucket
           c == JudgeAtNextOpen(b, p, pos, k, nxt)
<1>1. b \in Book /\ pos \in Position /\ pos.at \in Int /\ Kept(b)
  BY DEF CandleBook, Sound, Kept, Book, Position
<1>2. t \in Int /\ nxt.open \in Int /\ k.close \in Int
  <2>1. nxt.bucket \in Int /\ nxt.open \in Int /\ k.close \in Int
    BY DEF Candle
  <2>2. \A x, y \in Int : x * y \in Int
    OBVIOUS
  <2> QED
    BY <2>1, <2>2, BookAssumption
<1>3. CASE type # "none"
  <2> DEFINE d == Closed(b, pos, nxt.open, t, type)
  <2>1. c = d
    BY <1>3 DEF JudgeAtNextOpen
  <2>2. type \in ExitTypes
    BY <1>3, ExitTypeOK
  <2>3. pos.at <= t
    BY DEF UpTo
  <2> HIDE DEF type, t
  <2>4. /\ Kept(d) /\ d.open = {} /\ d.pendingEntry = b.pendingEntry
        /\ d.pendingExit = b.pendingExit /\ d.last = b.last /\ d.rate = b.rate
        /\ \A n \in Int : UpTo(b, n) /\ t <= n => UpTo(d, n)
    BY <1>1, <1>2, <2>2, <2>3, ClosedKept
  <2>5. UpTo(b, t) /\ t <= t
    BY <1>2 DEF t
  <2>6. UpTo(d, t)
    BY <1>2, <2>4, <2>5
  <2> HIDE DEF d
  <2>7. CandleBook(d)
    BY <2>4 DEF CandleBook, Sound, Orders
  <2> QED
    BY <2>1, <2>4, <2>6, <2>7 DEF c, t
<1>4. CASE type = "none"
  <2> DEFINE q == [pos EXCEPT !.peak = PeakAfter(p, pos, s, pos.peak)]
  <2>1. c = [b EXCEPT !.open = (@ \ {pos}) \cup {q}]
    BY <1>4 DEF JudgeAtNextOpen
  <2>2. s.bid \in Int /\ s.ask \in Int
    BY <1>2 DEF ShownAfter, Snapshot
  <2> HIDE DEF s, c
  <2>3. PeakAfter(p, pos, s, pos.peak) \in Int
    BY <1>1, <2>2, PeakInt
  <2>4. q \in Position /\ q.id = pos.id /\ q.at = pos.at /\ q.capital = pos.capital
    BY <1>1, <2>3 DEF Position
  <2> HIDE DEF q
  <2>5. /\ CandleBook(c) /\ c.rate = b.rate
        /\ \A n \in Int : UpTo(b, n) => UpTo(c, n)
    BY <2>1, <2>4, ReplacedSound
  <2> QED
    BY <1>2, <2>5 DEF c
<1> QED
  BY <1>3, <1>4

\* An entry at the open of the next candle.
LEMMA EnterAtNextOpenSound ==
  ASSUME NEW b, CandleBook(b), b.rate > 0, NEW p, NEW k \in Candle, NEW nxt \in Candle,
         UpTo(b, Slots * nxt.bucket)
  PROVE  /\ CandleBook(EnterAtNextOpen(b, p, k, nxt))
         /\ UpTo(EnterAtNextOpen(b, p, k, nxt), Slots * nxt.bucket)
<1> DEFINE s == ShownAfter(b, k)
           o == [side |-> EntrySide(p, s), lot |-> Lot(b)]
           t == Slots * nxt.bucket
           c == Opened(b, o, nxt.open, t)
<1>1. b \in Book /\ Kept(b)
  BY DEF CandleBook, Sound, Kept
<1>2. t \in Int /\ nxt.open \in Int
  <2>1. nxt.bucket \in Int /\ nxt.open \in Int
    BY DEF Candle
  <2>2. \A x, y \in Int : x * y \in Int
    OBVIOUS
  <2> QED
    BY <2>1, <2>2, BookAssumption
<1>3. CASE ~(b.open = {} /\ EntrySide(p, s) # "none")
  BY <1>3 DEF EnterAtNextOpen
<1>4. CASE b.open = {} /\ EntrySide(p, s) # "none"
  <2>1. EnterAtNextOpen(b, p, k, nxt) = c
    BY <1>4 DEF EnterAtNextOpen
  <2>2. o.side \in Sides /\ o.lot \in Int
    BY <1>1, <1>4, EntrySideOK, LotInt
  <2>3. UpTo(b, t)
    OBVIOUS
  <2> HIDE DEF o, t
  <2>4. /\ Kept(c) /\ UpTo(c, t) /\ c.pendingEntry = b.pendingEntry
        /\ c.pendingExit = b.pendingExit /\ c.last = b.last /\ c.rate = b.rate
    BY <1>1, <1>2, <1>4, <2>2, <2>3, OpenedKept
  <2> HIDE DEF c
  <2>5. CandleBook(c)
    BY <2>4 DEF CandleBook, Sound, Orders
  <2> QED
    BY <2>1, <2>4, <2>5 DEF t
<1> QED
  BY <1>3, <1>4

\* What is still open is closed at the close of the last candle.
LEMMA ForceClosedAtCloseSound ==
  ASSUME NEW b, CandleBook(b), NEW pos \in b.open, NEW k \in Candle,
         UpTo(b, CloseTime(k.bucket))
  PROVE  /\ CandleBook(ForceClosedAtClose(b, pos, k))
         /\ UpTo(ForceClosedAtClose(b, pos, k), CloseTime(k.bucket))
<1> DEFINE q == [pos EXCEPT !.seen = Stretched(pos.seen, k.high, k.low)]
           d == [b EXCEPT !.open = (@ \ {pos}) \cup {q}]
           t == CloseTime(k.bucket)
           c == Closed(d, q, k.close, t, "FORCE_CLOSE")
<1>1. b \in Book /\ pos \in Position /\ pos.seen \in SUBSET Extreme
  BY DEF CandleBook, Sound, Kept, Book, Position
<1>2. k.high \in Int /\ k.low \in Int /\ k.close \in Int /\ t \in Int
  <2>1. k.high \in Int /\ k.low \in Int /\ k.close \in Int /\ k.bucket + 1 \in Int
    BY DEF Candle
  <2>2. \A x, y \in Int : x * y \in Int
    OBVIOUS
  <2> QED
    BY <2>1, <2>2, BookAssumption DEF CloseTime
<1>3. ForceClosedAtClose(b, pos, k) = c
  BY DEF ForceClosedAtClose
<1>4. Stretched(pos.seen, k.high, k.low) \in SUBSET Extreme
  BY <1>1, <1>2, StretchedOK
<1>5. q \in Position /\ q.id = pos.id /\ q.at = pos.at /\ q.capital = pos.capital
  BY <1>1, <1>4 DEF Position
<1>6. d = [b EXCEPT !.open = (@ \ {pos}) \cup {q}]
  OBVIOUS
<1> HIDE DEF q, d
<1>7. /\ CandleBook(d) /\ q \in d.open /\ \A n \in Int : UpTo(b, n) => UpTo(d, n)
  <2>1. CandleBook(d)
    BY <1>5, <1>6, ReplacedSound
  <2>2. q \in d.open
    BY <1>1, <1>6 DEF Book
  <2>3. \A n \in Int : UpTo(b, n) => UpTo(d, n)
    BY <1>5, <1>6, ReplacedSound
  <2> QED
    BY <2>1, <2>2, <2>3
<1>8. UpTo(d, t) /\ Kept(d) /\ "FORCE_CLOSE" \in ExitTypes /\ q \in d.open
  BY <1>2, <1>7 DEF CandleBook, Sound, ExitTypes
<1>9. q.at <= t
  BY <1>8 DEF UpTo
<1> HIDE DEF t
<1>10. /\ Kept(c) /\ c.open = {} /\ c.pendingEntry = d.pendingEntry
       /\ c.pendingExit = d.pendingExit /\ c.last = d.last /\ c.rate = d.rate
       /\ \A n \in Int : UpTo(d, n) /\ t <= n => UpTo(c, n)
  BY <1>2, <1>8, <1>9, ClosedKept
<1> HIDE DEF c
<1>11. UpTo(c, t)
  BY <1>2, <1>8, <1>10
<1>12. CandleBook(c)
  BY <1>7, <1>10 DEF CandleBook, Sound, Orders
<1> QED
  BY <1>3, <1>11, <1>12 DEF t

-----------------------------------------------------------------------------
(* The invariant.                                                          *)

Typed ==
  /\ mode \in {"OHLC", "TICK"} /\ delay \in Int
  /\ have \subseteq Int /\ IsFiniteSet(have)
  /\ batch \in Batches /\ at \in Nat \ {0}
  /\ fetched \subseteq have /\ \A c \in cache : c.buckets \subseteq have
  /\ pc = "tick" => mode = "TICK" /\ at \in Sets
  /\ pc \in {"candle", "judge"} => mode = "OHLC" /\ at \in Sets

BookInv ==
  /\ mode = "TICK" => TickBook(book)
  /\ mode = "OHLC" => CandleBook(book)
  /\ pc = "candle" =>
       \E c \in Candle : candle = {c} /\ c.close > 0 /\ UpTo(book, Slots * c.bucket)
  /\ pc = "judge" =>
       /\ book.rate > 0
       /\ \E c, n \in Candle :
            candle = {c} /\ next = {n} /\ n.close > 0 /\ UpTo(book, Slots * n.bucket)
  /\ pc = "closing" =>
       /\ book.pendingEntry = {} /\ book.pendingExit = {}
       /\ mode = "OHLC" =>
            \E c \in Candle : candle = {c} /\ UpTo(book, CloseTime(c.bucket))
  /\ pc \in {"begin", "insert"} => book.open = {} /\ result = {book.trades}

IInv == Typed /\ BookInv

\* A book in which nothing has happened yet.
Blank(b) ==
  /\ b \in Book
  /\ b.open = {} /\ b.pendingEntry = {} /\ b.pendingExit = {} /\ b.last = {}
  /\ b.trades = <<>> /\ b.opened = 0 /\ b.equity = Initial

LEMMA BlankSound ==
  ASSUME NEW b, Blank(b)
  PROVE  TickBook(b) /\ CandleBook(b) /\ \A n : UpTo(b, n)
<1>1. Len(<<>>) = 0 /\ DOMAIN <<>> = {} /\ Initial \in Int
  BY BookAssumption
<1>2. OneOpen(b) /\ Times(b) /\ Numbers(b) /\ Orders(b)
  BY <1>1 DEF Blank, OneOpen, Times, Numbers, Orders
<1>3. Chain(b)
  BY <1>1 DEF Blank, Chain, Before
<1>4. \A n : UpTo(b, n)
  BY <1>1 DEF Blank, UpTo
<1>5. Sound(b)
  BY <1>2, <1>3 DEF Blank, Sound, Kept
<1> QED
  BY <1>4, <1>5 DEF Blank, TickBook, CandleBook

\* The books a run starts with.
LEMMA NewBookBlank ==
  /\ Blank(NewBook)
  /\ \A l \in Seq(Close) : Blank([NewBook EXCEPT !.ledger = l])
<1>1. <<>> \in Seq(Trade) /\ <<>> \in Seq(Close) /\ Initial \in Int
  BY BookAssumption
<1>2. Blank(NewBook)
  BY <1>1 DEF Blank, NewBook, Book
<1>3. ASSUME NEW l \in Seq(Close)
      PROVE  Blank([NewBook EXCEPT !.ledger = l])
  BY <1>2 DEF Blank, Book
<1> QED
  BY <1>2, <1>3

\* Later is later in slots.
LEMMA SlotsMonotone ==
  ASSUME NEW x \in Int, NEW y \in Int, x <= y
  PROVE  Slots * x \in Int /\ Slots * y \in Int /\ Slots * x <= Slots * y
<1>1. \A s \in Nat, d \in Nat : s * d \in Nat
  OBVIOUS
<1>2. \A s, a, d \in Int : s * (a + d) = s * a + s * d
  OBVIOUS
<1>3. \A s, a \in Int : s * a \in Int
  OBVIOUS
<1> DEFINE d == y - x
<1>4. d \in Nat /\ y = x + d /\ Slots \in Nat /\ Slots \in Int
  BY BookAssumption
<1> HIDE DEF d
<1>5. Slots * d \in Nat /\ Slots * x \in Int /\ Slots * y \in Int
  BY <1>1, <1>3, <1>4
<1>6. Slots * y = Slots * x + Slots * d
  BY <1>2, <1>4
<1> QED
  BY <1>5, <1>6

\* What is nothing later than m is nothing later than n.
LEMMA UpToLater ==
  ASSUME NEW b, Sound(b), NEW m \in Int, NEW n \in Int, m <= n, UpTo(b, m)
  PROVE  UpTo(b, n)
<1>1. b \in Book
  BY DEF Sound, Kept
<1>2. \A i \in DOMAIN b.trades : b.trades[i].exitAt \in Int
  <2>1. \A i \in DOMAIN b.trades : b.trades[i] \in Trade
    <3>1. b.trades \in Seq(Trade)
      BY <1>1 DEF Book
    <3> QED
      BY <3>1
  <2> QED
    BY <2>1 DEF Trade
<1>3. \A pos \in b.open : pos.at \in Int
  BY <1>1 DEF Book, Position
<1> QED
  BY <1>2, <1>3 DEF UpTo

\* The candles a bucket may turn out to hold.
LEMMA CandlesOK ==
  ASSUME NEW b \in Int, NEW c \in Candles(b)
  PROVE  c \in Candle /\ c.bucket = b /\ c.close > 0
<1>1. \A x \in Prices : x \in Int /\ x > 0
  BY RunnerAssumption
<1>2. \A w \in Wicks : w \in Int
  BY RunnerAssumption
<1>3. c \in [bucket : {b}, open : Prices, close : Prices,
             high : {x + w : x \in Prices, w \in Wicks},
             low : {x - w : x \in Prices, w \in Wicks}]
  BY DEF Candles
<1>4. {x + w : x \in Prices, w \in Wicks} \subseteq Int
  BY <1>1, <1>2
<1>5. {x - w : x \in Prices, w \in Wicks} \subseteq Int
  BY <1>1, <1>2
<1> QED
  BY <1>1, <1>3, <1>4, <1>5 DEF Candle

\* The averages of the set being run have periods.
LEMMA PeriodsOK ==
  ASSUME Typed, at \in Sets
  PROVE  P.short \in Nat \ {0} /\ P.long \in Nat \ {0} /\ Warm \in Nat \ {0}
<1>1. batch \in Batches /\ DOMAIN batch = Sets
  BY RunnerAssumption DEF Typed, Sets
<1>2. P \in SmaCrossParameters
  BY <1>1, RunnerAssumption DEF P
<1>3. P.short \in Nat \ {0} /\ P.long \in Nat \ {0}
  BY <1>2 DEF SmaCrossParameters
<1> QED
  BY <1>3 DEF Warm, WarmupCount

\* The initial states.
LEMMA InitIInv == Init => IInv
<1> SUFFICES ASSUME Init PROVE IInv
  OBVIOUS
<1>1. Typed
  BY RunnerAssumption DEF Init, Typed
<1>2. TickBook(book) /\ CandleBook(book)
  BY BlankSound, NewBookBlank DEF Init
<1>3. BookInv
  BY <1>2 DEF Init, BookInv
<1> QED
  BY <1>1, <1>3 DEF IInv

\* The actions that drop the book: the run is over.
LEMMA FreshBook ==
  ASSUME IInv, Typed', book' = NewBook,
         pc' \notin {"candle", "judge", "closing", "begin", "insert"}
  PROVE  IInv'
<1>1. TickBook(book') /\ CandleBook(book')
  BY BlankSound, NewBookBlank
<1> QED
  BY <1>1 DEF IInv, BookInv

\* The actions that leave it alone.
LEMMA SameBook ==
  ASSUME IInv, Typed', book' = book, mode' = mode,
         pc' \notin {"candle", "judge", "closing", "begin", "insert"}
  PROVE  IInv'
BY DEF IInv, BookInv

\* Fetching starts a run: the ledger is the warm-up, and the first candle is ready.
LEMMA FetchInv ==
  ASSUME IInv, Fetch
  PROVE  IInv'
<1> DEFINE got == Fetched(Warm)
<1>1. at \in Sets /\ Typed /\ UNCHANGED <<mode, delay, have, batch, at>>
  BY DEF Fetch, IInv, config
<1>2. Warm \in Nat \ {0} /\ got \subseteq have
  <2>1. Warm \in Nat \ {0}
    BY <1>1, PeriodsOK
  <2>2. \A c \in cache : FromCache(c, Warm) \subseteq have
    BY <1>1 DEF Typed, FromCache
  <2>3. InDatabase(Warm) \subseteq have
    BY DEF InDatabase
  <2> QED
    BY <2>1, <2>2, <2>3 DEF Fetched, CacheReaches
<1>3. fetched' = got /\ \A c \in cache' : c.buckets \subseteq have
  BY <1>1, <1>2 DEF Fetch, Typed
<1>4. Typed'
  <2>1. pc' \in {"throw", "candle", "tick"}
    BY DEF Fetch
  <2>2. /\ pc' = "tick" => mode = "TICK"
        /\ pc' = "candle" => mode = "OHLC"
    BY <1>1 DEF Fetch, Typed
  <2>3. (at \in Sets)' <=> at \in Sets
    BY <1>1 DEF Sets
  <2> QED
    BY <1>1, <1>2, <1>3, <2>1, <2>2, <2>3 DEF Typed
<1> HIDE DEF got
<1>5. CASE pc' = "throw"
  <2>1. book' = NewBook
    BY <1>1, <1>5 DEF Fetch, Typed
  <2> QED
    BY <1>4, <1>5, <2>1, FreshBook
<1>6. CASE pc' # "throw"
  <2>1. PICK l \in LedgersOf(FirstOf(got, Warm)) : book' = [NewBook EXCEPT !.ledger = l]
    BY <1>6 DEF Fetch, got
  <2>2. l \in Seq(Close)
    <3> DEFINE S == FirstOf(got, Warm)
    <3>1. S \subseteq have
      BY <1>2 DEF FirstOf
    <3>2. IsFiniteSet(S) /\ S \subseteq Int
      BY <1>1, <3>1, FS_Subset DEF Typed
    <3> DEFINE n == Cardinality(S)
    <3>3. n \in Nat
      BY <3>2, FS_CardinalityType
    <3>4. l \in [1 .. n -> [bucket : S, close : Prices]]
      BY <2>1 DEF LedgersOf
    <3>5. Prices \subseteq Int
      BY RunnerAssumption
    <3> HIDE DEF S, n
    <3>6. [bucket : S, close : Prices] \subseteq Close
      BY <3>2, <3>5, Zenon DEF Close
    <3>7. l \in [1 .. n -> Close]
      BY <3>4, <3>6
    <3> QED
      BY <3>3, <3>7
  <2>3. TickBook(book') /\ CandleBook(book') /\ \A n : UpTo(book', n)
    BY <2>1, <2>2, BlankSound, NewBookBlank
  <2>4. CASE mode = "TICK"
    <3>1. pc' = "tick"
      BY <1>6, <2>4 DEF Fetch
    <3> QED
      BY <1>4, <2>3, <3>1 DEF IInv, BookInv
  <2>5. CASE mode = "OHLC"
    <3>1. PICK b \in Earliest(got \ FirstOf(got, Warm)) : \E c \in Candles(b) : candle' = {c}
      BY <1>6, <2>5 DEF Fetch, got
    <3>2. PICK c \in Candles(b) : candle' = {c}
      BY <3>1
    <3>3. b \in Int
      BY <1>1, <1>2, <3>1 DEF Earliest, Typed
    <3>4. c \in Candle /\ c.close > 0
      BY <3>3, CandlesOK
    <3>5. pc' = "candle"
      BY <1>6, <2>5 DEF Fetch
    <3>6. UpTo(book', Slots * c.bucket)
      BY <2>3
    <3> QED
      BY <1>4, <2>3, <3>2, <3>4, <3>5, <3>6 DEF IInv, BookInv
  <2> QED
    BY <1>1, <2>4, <2>5 DEF Typed
<1> QED
  BY <1>5, <1>6

\* What the stages of the loop make of the book when this tick is taken.
Taken(tick, judged, exitSlip, entrySlip) ==
  /\ tick.bid > 0 /\ tick.at + delay \in Int
  /\ Slots * From <= tick.at /\ \A l \in book.last : l.at < tick.at
  /\ book' = TrackTick(FillEntry(FillExit(judged, tick, exitSlip), tick, entrySlip), tick)
  /\ \/ judged = Shown(book, P, tick)
     \/ /\ ~RulesThrow(Shown(book, P, tick), P, tick, tick.at + delay)
        /\ judged = Judged(Shown(book, P, tick), P, tick, tick.at + delay)

\* A tick ends the run, or goes through the stages of the loop.
LEMMA TickTaken ==
  ASSUME IInv, OnTick
  PROVE  \/ pc' = "throw" /\ book' = NewBook
         \/ /\ pc' = "tick"
            /\ \E tick \in Tick, exitSlip, entrySlip \in Int :
                 \E judged : Taken(tick, judged, exitSlip, entrySlip)
<1>1. Typed /\ TickBook(book)
  BY DEF OnTick, IInv, BookInv, Typed
<1>2. PICK t \in NextTickTimes, bid \in Prices, gap \in Gaps :
        LET tick == [bid |-> bid, ask |-> bid + gap, at |-> t] IN
        \E shown \in {Shown(book, P, tick)}, asks \in {Confirmed(book, tick) # {}} :
          \/ /\ asks /\ RulesThrow(shown, P, tick, tick.at + delay)
             /\ pc' = "throw" /\ book' = NewBook
          \/ /\ ~(asks /\ RulesThrow(shown, P, tick, tick.at + delay))
             /\ \E judged \in {IF asks THEN Judged(shown, P, tick, tick.at + delay) ELSE shown},
                   exitSlip, entrySlip \in Slips :
                  \E settled \in {FillExit(judged, tick, exitSlip)} :
                    book' = TrackTick(FillEntry(settled, tick, entrySlip), tick)
             /\ pc' = pc
  BY DEF OnTick
<1> DEFINE tick == [bid |-> bid, ask |-> bid + gap, at |-> t]
           shown == Shown(book, P, tick)
           due == tick.at + delay
<1>3. t \in Int /\ Slots * From <= t /\ \A l \in book.last : l.at < t
  <2>1. Slots * From \in Int /\ Slots * To + Slots - 1 \in Int
    <3>1. \A x, y \in Int : x * y \in Int
      OBVIOUS
    <3>2. Slots \in Int /\ From \in Int /\ To \in Int
      BY BookAssumption, RunnerAssumption
    <3> QED
      BY <3>1, <3>2
  <2>2. t \in Slots * From .. Slots * To + Slots - 1 /\ \A l \in book.last : t > l.at
    BY DEF NextTickTimes
  <2>3. \A l \in book.last : l.at \in Int
    BY <1>1 DEF TickBook, Sound, Kept, Book, Tick
  <2>4. t \in Int /\ Slots * From <= t
    BY <2>1, <2>2
  <2> QED
    BY <2>2, <2>3, <2>4
<1>4. bid \in Int /\ bid > 0 /\ gap \in Int
  BY RunnerAssumption
<1>5. tick \in Tick /\ tick.bid > 0 /\ tick.at = t
  BY <1>3, <1>4 DEF Tick
<1>6. due \in Int
  BY <1>1, <1>3, <1>5 DEF Typed
<1>7. \/ pc' = "throw" /\ book' = NewBook
      \/ /\ pc' = pc
         /\ \E judged, exitSlip, entrySlip :
              /\ exitSlip \in Slips /\ entrySlip \in Slips
              /\ book' = TrackTick(FillEntry(FillExit(judged, tick, exitSlip), tick, entrySlip), tick)
              /\ \/ judged = shown
                 \/ ~RulesThrow(shown, P, tick, due) /\ judged = Judged(shown, P, tick, due)
  <2> HIDE DEF tick
  <2>1. CASE Confirmed(book, tick) # {}
    BY <1>2, <2>1 DEF tick
  <2>2. CASE Confirmed(book, tick) = {}
    BY <1>2, <2>2 DEF tick
  <2> QED
    BY <2>1, <2>2
<1>8. Slots * From <= tick.at /\ \A l \in book.last : l.at < tick.at
  BY <1>3, <1>5
<1> HIDE DEF tick
<1>9. CASE pc' = "throw" /\ book' = NewBook
  BY <1>9
<1>10. CASE ~(pc' = "throw" /\ book' = NewBook)
  <2>1. PICK judged, exitSlip, entrySlip :
          /\ exitSlip \in Slips /\ entrySlip \in Slips
          /\ book' = TrackTick(FillEntry(FillExit(judged, tick, exitSlip), tick, entrySlip), tick)
          /\ \/ judged = shown
             \/ ~RulesThrow(shown, P, tick, due) /\ judged = Judged(shown, P, tick, due)
    BY <1>7, <1>10
  <2>2. exitSlip \in Int /\ entrySlip \in Int
    BY <2>1, RunnerAssumption
  <2>3. pc' = "tick"
    BY <1>7, <1>10 DEF OnTick
  <2>4. tick \in Tick /\ tick.bid > 0 /\ tick.at + delay \in Int
    BY <1>5, <1>6
  <2>5. Taken(tick, judged, exitSlip, entrySlip)
    BY <1>8, <2>1, <2>4 DEF Taken
  <2> HIDE DEF shown, due
  <2> QED
    BY <2>2, <2>3, <2>4, <2>5
<1> QED
  BY <1>9, <1>10

\* One tick.
LEMMA OnTickInv ==
  ASSUME IInv, OnTick
  PROVE  IInv'
<1>1. /\ Typed /\ mode = "TICK" /\ at \in Sets /\ TickBook(book)
      /\ UNCHANGED <<mode, delay, have, batch, at, fetched, cache>>
  BY DEF OnTick, IInv, BookInv, Typed, config
<1>2. (pc' = "throw" /\ book' = NewBook) \/ pc' = "tick"
  BY TickTaken
<1>3. Typed'
  <2>1. (at \in Sets)'
    BY <1>1 DEF Sets
  <2> QED
    BY <1>1, <1>2, <2>1 DEF Typed
<1>4. CASE pc' = "throw" /\ book' = NewBook
  BY <1>3, <1>4, FreshBook
<1>5. CASE ~(pc' = "throw" /\ book' = NewBook)
  <2>1. PICK tick \in Tick, exitSlip, entrySlip \in Int :
          \E judged : Taken(tick, judged, exitSlip, entrySlip)
    BY <1>5, TickTaken
  <2>5. PICK judged : Taken(tick, judged, exitSlip, entrySlip)
    BY <2>1
  <2>2. P.short \in Nat \ {0} /\ P.long \in Nat \ {0}
    BY <1>1, PeriodsOK
  <2>3. TickBook(book')
    BY <1>1, <2>2, <2>5, TickSound DEF Taken
  <2>4. pc' = "tick"
    BY <1>2, <1>5
  <2> QED
    BY <1>1, <1>3, <2>3, <2>4 DEF IInv, BookInv
<1> QED
  BY <1>4, <1>5

\* The stream ends.
LEMMA StreamEndsInv ==
  ASSUME IInv, StreamEnds
  PROVE  IInv'
<1>1. /\ Typed /\ mode = "TICK" /\ TickBook(book) /\ pc' = "closing"
      /\ UNCHANGED <<mode, delay, have, batch, at, fetched, cache>>
  BY DEF StreamEnds, IInv, BookInv, Typed, config
<1>2. Typed'
  BY <1>1 DEF Typed
<1>3. TickBook(book') /\ book'.pendingEntry = {} /\ book'.pendingExit = {}
  <2>1. CASE book.last = {}
    BY <1>1, <2>1 DEF StreamEnds, TickBook
  <2>2. CASE book.last # {}
    <3>1. PICK slip \in Slips : book' = Settled(book, slip)
      BY <2>2 DEF StreamEnds
    <3>2. slip \in Int
      BY RunnerAssumption
    <3> QED
      BY <1>1, <2>2, <3>1, <3>2, SettledSound
  <2> QED
    BY <2>1, <2>2
<1> QED
  BY <1>1, <1>2, <1>3 DEF IInv, BookInv

\* A candle is taken.
LEMMA TakeNextCandleInv ==
  ASSUME IInv, TakeNextCandle
  PROVE  IInv'
<1>1. /\ Typed /\ mode = "OHLC" /\ at \in Sets /\ CandleBook(book) /\ pc' = "judge"
      /\ UNCHANGED <<mode, delay, have, batch, at, fetched, cache, candle>>
      /\ book' = TakeCandle(book, P, Current)
  BY DEF TakeNextCandle, IInv, BookInv, Typed, config
<1>2. Typed'
  <2>1. (at \in Sets)'
    BY <1>1 DEF Sets
  <2> QED
    BY <1>1, <2>1 DEF Typed
<1>3. PICK c \in Candle : candle = {c} /\ c.close > 0 /\ UpTo(book, Slots * c.bucket)
  BY DEF TakeNextCandle, IInv, BookInv
<1>4. Current = c
  BY <1>3 DEF Current
<1>5. PICK b \in Earliest(CandlesAhead) : \E n \in Candles(b) : next' = {n}
  BY DEF TakeNextCandle
<1>6. PICK n \in Candles(b) : next' = {n}
  BY <1>5
<1>7. b \in Int /\ b > c.bucket
  BY <1>1, <1>4 DEF Earliest, CandlesAhead, Typed
<1>8. n \in Candle /\ n.bucket = b /\ n.close > 0
  BY <1>7, CandlesOK
<1>9. c.bucket \in Int /\ n.bucket \in Int /\ c.bucket <= n.bucket
  BY <1>7, <1>8 DEF Candle
<1>10. /\ Slots * c.bucket \in Int /\ Slots * n.bucket \in Int
       /\ Slots * c.bucket <= Slots * n.bucket
  BY <1>9, SlotsMonotone
<1>11. P.short \in Nat \ {0} /\ P.long \in Nat \ {0}
  BY <1>1, PeriodsOK
<1>12. /\ CandleBook(book') /\ book'.rate = c.close
       /\ \A m \in Int : UpTo(book, m) => UpTo(book', m)
  BY <1>1, <1>4, <1>11, TakeCandleSound
<1>13. UpTo(book', Slots * n.bucket)
  BY <1>3, <1>10, <1>12, UpToLater DEF CandleBook
<1>14. book'.rate > 0
  BY <1>3, <1>12
<1> QED
  BY <1>1, <1>2, <1>3, <1>6, <1>8, <1>12, <1>13, <1>14 DEF IInv, BookInv

\* The exit rules answer for one position.
LEMMA AskExitInv ==
  ASSUME IInv, AskExit
  PROVE  IInv'
<1>1. /\ Typed /\ mode = "OHLC" /\ CandleBook(book) /\ pc = "judge" /\ pc' = "judge"
      /\ book.rate > 0
      /\ UNCHANGED <<mode, delay, have, batch, at, fetched, cache, candle, next>>
  BY DEF AskExit, IInv, BookInv, Typed, config
<1>2. Typed'
  BY <1>1 DEF Typed, Sets
<1>3. PICK c, n \in Candle :
        candle = {c} /\ next = {n} /\ n.close > 0 /\ UpTo(book, Slots * n.bucket)
  BY <1>1 DEF IInv, BookInv
<1>4. Current = c /\ Following = n
  BY <1>3 DEF Current, Following
<1>5. PICK pos \in book.open : book' = JudgeAtNextOpen(book, P, pos, Current, Following)
  BY DEF AskExit
<1>6. /\ CandleBook(book') /\ UpTo(book', Slots * n.bucket) /\ book'.rate = book.rate
  BY <1>1, <1>3, <1>4, <1>5, JudgeAtNextOpenSound
<1> QED
  BY <1>1, <1>2, <1>3, <1>6 DEF IInv, BookInv

\* The entry rule answers, or ends the run.
LEMMA AskEntryInv ==
  ASSUME IInv, AskEntry
  PROVE  IInv'
<1>1. /\ Typed /\ mode = "OHLC" /\ at \in Sets /\ CandleBook(book) /\ pc = "judge"
      /\ book.rate > 0 /\ pc' \in {"throw", "candle"}
      /\ UNCHANGED <<mode, delay, have, batch, at, fetched, cache>>
  BY DEF AskEntry, IInv, BookInv, Typed, config
<1>2. Typed'
  BY <1>1 DEF Typed, Sets
<1>3. PICK c, n \in Candle :
        candle = {c} /\ next = {n} /\ n.close > 0 /\ UpTo(book, Slots * n.bucket)
  BY <1>1 DEF IInv, BookInv
<1>4. Current = c /\ Following = n
  BY <1>3 DEF Current, Following
<1>5. CASE pc' = "throw"
  <2>1. book' = NewBook
    BY <1>5 DEF AskEntry
  <2> QED
    BY <1>2, <1>5, <2>1, FreshBook
<1>6. CASE pc' # "throw"
  <2>1. /\ pc' = "candle" /\ candle' = {n}
        /\ book' = EnterAtNextOpen(book, P, c, n)
    BY <1>3, <1>4, <1>6 DEF AskEntry
  <2>2. CandleBook(book') /\ UpTo(book', Slots * n.bucket)
    BY <1>1, <1>3, <2>1, EnterAtNextOpenSound
  <2> QED
    BY <1>1, <1>2, <1>3, <2>1, <2>2 DEF IInv, BookInv
<1> QED
  BY <1>5, <1>6

\* The last candle: what was opened at its open is there, and nothing later.
LEMMA CandlesEndInv ==
  ASSUME IInv, CandlesEnd
  PROVE  IInv'
<1>1. /\ Typed /\ mode = "OHLC" /\ CandleBook(book) /\ pc' = "closing"
      /\ UNCHANGED <<mode, delay, have, batch, at, fetched, cache, book, candle>>
  BY DEF CandlesEnd, IInv, BookInv, Typed, config, engine
<1>2. Typed'
  BY <1>1 DEF Typed
<1>3. PICK c \in Candle : candle = {c} /\ c.close > 0 /\ UpTo(book, Slots * c.bucket)
  BY DEF CandlesEnd, IInv, BookInv
<1>4. c.bucket \in Int /\ c.bucket + 1 \in Int /\ c.bucket <= c.bucket + 1
  BY DEF Candle
<1>5. /\ Slots * c.bucket \in Int /\ CloseTime(c.bucket) \in Int
      /\ Slots * c.bucket <= CloseTime(c.bucket)
  BY <1>4, SlotsMonotone DEF CloseTime
<1>6. UpTo(book, CloseTime(c.bucket))
  BY <1>1, <1>3, <1>5, UpToLater DEF CandleBook
<1> QED
  BY <1>1, <1>2, <1>3, <1>6 DEF IInv, BookInv, CandleBook

\* What is open is closed.
LEMMA ForceCloseInv ==
  ASSUME IInv, ForceClose
  PROVE  IInv'
<1>1. /\ Typed /\ pc = "closing" /\ pc' = "closing"
      /\ book.pendingEntry = {} /\ book.pendingExit = {}
      /\ UNCHANGED <<mode, delay, have, batch, at, fetched, cache, candle>>
  BY DEF ForceClose, IInv, BookInv, config
<1>2. Typed'
  BY <1>1 DEF Typed
<1>3. PICK pos \in book.open :
        IF mode = "OHLC" THEN book' = ForceClosedAtClose(book, pos, Current)
        ELSE \E slip \in Slips : book' = ForceClosedAtTick(book, pos, slip)
  BY DEF ForceClose
<1>4. CASE mode = "OHLC"
  <2>1. CandleBook(book)
    BY <1>4 DEF IInv, BookInv
  <2>2. PICK c \in Candle : candle = {c} /\ UpTo(book, CloseTime(c.bucket))
    BY <1>1, <1>4 DEF IInv, BookInv
  <2>3. book' = ForceClosedAtClose(book, pos, c)
    BY <1>3, <1>4, <2>2 DEF Current
  <2>4. CandleBook(book') /\ UpTo(book', CloseTime(c.bucket))
    BY <2>1, <2>2, <2>3, ForceClosedAtCloseSound
  <2> QED
    BY <1>1, <1>2, <1>4, <2>2, <2>4 DEF IInv, BookInv, CandleBook
<1>5. CASE mode = "TICK"
  <2>1. TickBook(book)
    BY <1>5 DEF IInv, BookInv
  <2>2. PICK slip \in Slips : book' = ForceClosedAtTick(book, pos, slip)
    BY <1>3, <1>5
  <2>3. slip \in Int
    BY RunnerAssumption
  <2>4. TickBook(book') /\ book'.pendingEntry = {} /\ book'.pendingExit = {}
    BY <1>1, <2>1, <2>2, <2>3, ForceClosedAtTickSound
  <2> QED
    BY <1>1, <1>2, <1>5, <2>4 DEF IInv, BookInv
<1> QED
  BY <1>1, <1>4, <1>5 DEF Typed

\* The invariant is kept by every step.
LEMMA NextIInv == IInv /\ [Next]_vars => IInv'
<1> SUFFICES ASSUME IInv, [Next]_vars PROVE IInv'
  OBVIOUS
<1> USE DEF config, engine, rows
<1>1. CASE CreateBatch
  <2>1. Typed' /\ book' = book /\ mode' = mode /\ pc' \in {"fetch", "failed"}
    BY <1>1 DEF CreateBatch, IInv, Typed
  <2> QED
    BY <2>1, SameBook
<1>2. CASE Fetch
  BY <1>2, FetchInv
<1>3. CASE OnTick
  BY <1>3, OnTickInv
<1>4. CASE StreamEnds
  BY <1>4, StreamEndsInv
<1>5. CASE TakeNextCandle
  BY <1>5, TakeNextCandleInv
<1>6. CASE AskExit
  BY <1>6, AskExitInv
<1>7. CASE AskEntry
  BY <1>7, AskEntryInv
<1>8. CASE CandlesEnd
  BY <1>8, CandlesEndInv
<1>9. CASE ForceClose
  BY <1>9, ForceCloseInv
<1>10. CASE Return
  BY <1>10 DEF Return, IInv, BookInv, Typed
<1>11. CASE InsertRun
  BY <1>11 DEF InsertRun, IInv, BookInv, Typed
<1>12. CASE InsertTrades
  BY <1>12 DEF InsertTrades, IInv, BookInv, Typed
<1>13. CASE CommitRun
  <2>1. Typed' /\ book' = NewBook /\ pc' \in {"fetch", "complete"}
    BY <1>13 DEF CommitRun, IInv, Typed
  <2> QED
    BY <2>1, FreshBook
<1>14. CASE SaveFails
  <2>1. Typed' /\ book' = book /\ mode' = mode /\ pc' = "throw"
    BY <1>14 DEF SaveFails, IInv, Typed
  <2> QED
    BY <2>1, SameBook
<1>15. CASE CompleteBatch
  <2>1. Typed' /\ book' = book /\ mode' = mode /\ pc' \in {"close", "throw"}
    BY <1>15 DEF CompleteBatch, IInv, Typed
  <2> QED
    BY <2>1, SameBook
<1>16. CASE FailBatch
  <2>1. Typed' /\ book' = book /\ mode' = mode /\ pc' = "failed"
    BY <1>16 DEF FailBatch, IInv, Typed
  <2> QED
    BY <2>1, SameBook
<1>17. CASE CloseResources
  <2>1. Typed' /\ book' = book /\ mode' = mode /\ pc' = "done"
    BY <1>17 DEF CloseResources, IInv, Typed
  <2> QED
    BY <2>1, SameBook
<1>18. CASE Crash
  <2>1. Typed' /\ book' = NewBook /\ pc' = "gone"
    BY <1>18 DEF Crash, IInv, Typed
  <2> QED
    BY <2>1, FreshBook
<1>20. CASE ReadFails
  <2>1. Typed' /\ book' = NewBook /\ pc' = "throw"
    BY <1>20 DEF ReadFails, IInv, Typed
  <2> QED
    BY <2>1, FreshBook
<1>19. CASE UNCHANGED vars
  BY <1>19 DEF vars, IInv, BookInv, Typed, Sets
<1> QED
  BY <1>1, <1>2, <1>3, <1>4, <1>5, <1>6, <1>7, <1>8, <1>9, <1>10, <1>11, <1>12, <1>13,
     <1>14, <1>15, <1>16, <1>17, <1>18, <1>19, <1>20 DEF Next, Program, Engine

\* The invariant holds always.
THEOREM InvariantHolds == Spec => []IInv
BY InitIInv, NextIInv, PTL DEF Spec

\* IInv speaks of a sound book.
LEMMA SoundAlways == IInv => Sound(book)
BY DEF IInv, Typed, BookInv, TickBook, CandleBook

\* A trade begins when the one before it has ended, and one position at most is
\* open: TickEngine and OhlcEngine never hold two at once.
THEOREM NeverTwoPositions == Spec => []TradesNeverOverlap
<1>1. IInv => TradesNeverOverlap
  BY SoundAlways DEF Sound, Kept, Times, OneOpen, TradesNeverOverlap
<1> QED
  BY <1>1, InvariantHolds, PTL

\* The equity compounds from trade to trade, in either engine.
THEOREM EquityCompounds == Spec => []EquityChain
<1>1. IInv => EquityChain
  BY SoundAlways DEF Sound, Kept, Chain, Before, EquityChain
<1> QED
  BY <1>1, InvariantHolds, PTL

\* What an engine returns lists every position it opened, once.
THEOREM NothingLeftOut == Spec => []EachEntrySettledOnce
<1>1. ASSUME IInv PROVE EachEntrySettledOnce
  <2>1. SUFFICES ASSUME pc = "begin" PROVE
          /\ book.open = {} /\ Len(Trades) = book.opened
          /\ \A i \in DOMAIN Trades : Trades[i].id = i
    BY DEF EachEntrySettledOnce
  <2>2. book.open = {} /\ Trades = book.trades
    BY <1>1, <2>1 DEF IInv, BookInv, Trades
  <2> QED
    BY <1>1, <2>2, SoundAlways DEF Sound, Kept, Numbers
<1> QED
  BY <1>1, InvariantHolds, PTL

-----------------------------------------------------------------------------
(* The rows.                                                               *)

Working == {"fetch", "tick", "candle", "judge", "closing", "begin", "insert"}
Stages == Working \cup {"create", "complete", "throw", "close", "failed", "done", "gone"}

\* The sets before `at` have their runs, and after a COMMIT whose answer was lost
\* the set at `at` too; the row of the batch follows pc.
RowsInv ==
  /\ Len(batch) \in Nat \ {0} /\ at \in 1 .. Len(batch) + 1 /\ pc \in Stages
  /\ \/ runRows = 1 .. at - 1
     \/ runRows = 1 .. at /\ at <= Len(batch) /\ pc \in {"throw", "failed", "gone"}
  /\ pc \in Working => at <= Len(batch)
  /\ pc = "complete" => at = Len(batch) + 1
  /\ pc \in Working \cup {"complete"} => batchRow.status = "RUNNING"
  /\ pc = "throw" => batchRow.status \in {"RUNNING", "COMPLETED"}
  /\ batchRow.status \in {"none", "RUNNING", "COMPLETED", "FAILED"}
  /\ pc = "create" => batchRow.status = "none"
  /\ batchRow.status = "none" => runRows = {} /\ at = 1
  /\ batchRow.status = "COMPLETED" => at = Len(batch) + 1
  /\ batchRow.status \in {"COMPLETED", "FAILED"} => batchRow.completed = Cardinality(runRows)

\* The rows of the sets before `at` are that many.
LEMMA RunsCounted ==
  ASSUME RowsInv, runRows = 1 .. at - 1
  PROVE  Cardinality(runRows) = at - 1
<1>1. 1 \in Int /\ at \in Int /\ at - 1 \in Int /\ at >= 1
  BY DEF RowsInv
<1>2. Cardinality(1 .. at - 1) = IF 1 > at - 1 THEN 0 ELSE (at - 1) - 1 + 1
  BY <1>1, FS_Interval
<1>3. (IF 1 > at - 1 THEN 0 ELSE (at - 1) - 1 + 1) = at - 1
  BY <1>1
<1> QED
  BY <1>2, <1>3

\* The steps that touch no row and stay among the working stages.
LEMMA WorkingStep ==
  ASSUME RowsInv, pc \in Working, UNCHANGED <<batch, at, runRows, batchRow>>,
         pc' \in Working \cup {"throw"}
  PROVE  RowsInv'
<1>1. batchRow' = batchRow /\ batchRow.status = "RUNNING" /\ runRows' = 1 .. at' - 1
  BY DEF RowsInv, Working
<1>2. pc' \in Stages /\ pc' # "create" /\ pc' # "complete"
  BY DEF Working, Stages
<1> QED
  BY <1>1, <1>2 DEF RowsInv

\* RowsInv is inductive.
LEMMA NextRowsInv == RowsInv /\ [Next]_vars => RowsInv'
<1> SUFFICES ASSUME RowsInv, [Next]_vars PROVE RowsInv'
  OBVIOUS
<1> USE DEF config, engine, rows
<1>1. CASE CreateBatch
  BY <1>1 DEF CreateBatch, RowsInv, Working, Stages
<1>2. CASE Fetch
  <2>1. pc = "fetch" /\ pc' \in {"throw", "candle", "tick"} /\ UNCHANGED <<batch, at, runRows, batchRow>>
    BY <1>2 DEF Fetch
  <2> QED
    BY <2>1, WorkingStep DEF Working
<1>3. CASE OnTick
  <2>1. pc = "tick" /\ pc' \in {"throw", "tick"} /\ UNCHANGED <<batch, at, runRows, batchRow>>
    BY <1>3 DEF OnTick
  <2> QED
    BY <2>1, WorkingStep DEF Working
<1>4. CASE StreamEnds
  BY <1>4, WorkingStep DEF StreamEnds, Working
<1>5. CASE TakeNextCandle
  BY <1>5, WorkingStep DEF TakeNextCandle, Working
<1>6. CASE AskExit
  BY <1>6, WorkingStep DEF AskExit, Working
<1>7. CASE AskEntry
  <2>1. pc = "judge" /\ pc' \in {"throw", "candle"} /\ UNCHANGED <<batch, at, runRows, batchRow>>
    BY <1>7 DEF AskEntry
  <2> QED
    BY <2>1, WorkingStep DEF Working
<1>8. CASE CandlesEnd
  BY <1>8, WorkingStep DEF CandlesEnd, Working
<1>9. CASE ForceClose
  BY <1>9, WorkingStep DEF ForceClose, Working
<1>10. CASE Return
  BY <1>10, WorkingStep DEF Return, Working
<1>11. CASE InsertRun
  BY <1>11, WorkingStep DEF InsertRun, Working
<1>12. CASE InsertTrades
  BY <1>12, WorkingStep DEF InsertTrades, Working
<1>13. CASE CommitRun
  <2>1. /\ pc = "insert" /\ at \in 1 .. Len(batch) /\ batchRow.status = "RUNNING"
        /\ UNCHANGED <<batch, batchRow>> /\ at' = at + 1 /\ runRows' = runRows \cup {at}
        /\ pc' = IF at < Len(batch) THEN "fetch" ELSE "complete"
    BY <1>13 DEF CommitRun, Committed, RowsInv, Working
  <2>2. runRows' = 1 .. at' - 1
    BY <2>1 DEF RowsInv, Working
  <2>3. pc' \in Working => at' <= Len(batch')
    BY <2>1 DEF RowsInv, Working
  <2>4. pc' = "complete" => at' = Len(batch') + 1
    BY <2>1 DEF RowsInv
  <2>5. pc' \in Stages /\ pc' # "create"
    BY <2>1 DEF Stages, Working
  <2>6. Len(batch') \in Nat \ {0} /\ at' \in 1 .. Len(batch') + 1
    BY <2>1 DEF RowsInv
  <2>7. batchRow'.status = "RUNNING"
    BY <2>1
  <2> QED
    BY <2>2, <2>3, <2>4, <2>5, <2>6, <2>7 DEF RowsInv
<1>14. CASE SaveFails
  <2>1. pc \in {"begin", "insert"} /\ pc' = "throw" /\ UNCHANGED <<batch, at, batchRow>>
    BY <1>14 DEF SaveFails
  <2>2. CASE UNCHANGED runRows
    BY <2>1, <2>2, WorkingStep DEF Working
  <2>3. CASE Committed
    <3>1. /\ batchRow' = batchRow /\ batchRow.status = "RUNNING"
          /\ at \in 1 .. Len(batch) /\ runRows = 1 .. at - 1
      BY <2>1 DEF RowsInv, Working
    <3>2. runRows' = 1 .. at
      BY <2>3, <3>1 DEF Committed
    <3> QED
      BY <2>1, <3>1, <3>2 DEF RowsInv, Working, Stages
  <2> QED
    BY <1>14, <2>2, <2>3 DEF SaveFails
<1>15. CASE CompleteBatch
  <2>1. /\ at = Len(batch) + 1 /\ batchRow.status = "RUNNING"
        /\ runRows = 1 .. at - 1
    BY <1>15 DEF CompleteBatch, RowsInv
  <2>2. pc' \in {"close", "throw"} /\ UNCHANGED <<batch, at, runRows>>
    BY <1>15 DEF CompleteBatch
  <2>3. CASE batchRow' = Completed("COMPLETED")
    BY <2>1, <2>2, <2>3 DEF Completed, RowsInv, Working, Stages
  <2>4. CASE batchRow' = batchRow /\ pc' = "throw"
    BY <2>1, <2>2, <2>4 DEF RowsInv, Working, Stages
  <2> QED
    BY <1>15, <2>3, <2>4 DEF CompleteBatch
<1>16. CASE FailBatch
  <2>1. batchRow.status \in {"RUNNING", "COMPLETED"} /\ pc = "throw"
    BY <1>16 DEF FailBatch, RowsInv
  <2>2. pc' = "failed" /\ UNCHANGED <<batch, at, runRows>>
    BY <1>16 DEF FailBatch
  <2>3. CASE batchRow' = Completed("FAILED")
    BY <2>1, <2>2, <2>3 DEF Completed, RowsInv, Working, Stages
  <2>4. CASE batchRow' = batchRow
    BY <2>1, <2>2, <2>4 DEF RowsInv, Working, Stages
  <2> QED
    BY <1>16, <2>3, <2>4 DEF FailBatch
<1>17. CASE CloseResources
  BY <1>17 DEF CloseResources, RowsInv, Working, Stages
<1>18. CASE Crash
  BY <1>18 DEF Crash, RowsInv, Working, Stages
<1>20. CASE ReadFails
  <2>1. pc \in Working /\ pc' = "throw" /\ UNCHANGED <<batch, at, runRows, batchRow>>
    BY <1>20 DEF ReadFails, Working
  <2> QED
    BY <2>1, WorkingStep
<1>19. CASE UNCHANGED vars
  BY <1>19 DEF vars, RowsInv
<1> QED
  BY <1>1, <1>2, <1>3, <1>4, <1>5, <1>6, <1>7, <1>8, <1>9, <1>10, <1>11, <1>12, <1>13,
     <1>14, <1>15, <1>16, <1>17, <1>18, <1>19, <1>20 DEF Next, Program, Engine

Count == [total : Int, trades : Int]

\* A committed run has all its trades; the open transaction counts towards them.
TxInv ==
  /\ tx \in Count /\ tradeRows \in [Sets -> Count]
  /\ pc = "insert" => tx.total = Len(Trades)
  /\ \A i \in Sets : tradeRows[i].trades = tradeRows[i].total

\* TxInv is kept, as what an engine returned is a list of trades.
LEMMA NextTxInv == IInv /\ RowsInv /\ TxInv /\ [Next]_vars => TxInv'
<1> SUFFICES ASSUME IInv, RowsInv, TxInv, [Next]_vars PROVE TxInv'
  OBVIOUS
<1> USE DEF config, engine, rows
<1>1. ASSUME UNCHANGED <<batch, tx, tradeRows>>, pc' # "insert"
      PROVE  TxInv'
  BY <1>1 DEF TxInv, Sets
<1>2. ASSUME UNCHANGED <<batch, tradeRows>>, tx' = NoTx, pc' # "insert"
      PROVE  TxInv'
  BY <1>2 DEF TxInv, Sets, NoTx, Count
<1>3. ASSUME pc \in {"begin", "insert"}
      PROVE  Len(Trades) \in Int
  <2>1. Trades = book.trades
    BY <1>3 DEF IInv, BookInv, Trades
  <2>2. book.trades \in Seq(Trade)
    BY SoundAlways DEF Sound, Kept, Book
  <2> QED
    BY <2>1, <2>2
<1>18. ASSUME pc = "insert", Rest = 0, Committed, tx' = NoTx, UNCHANGED batch, pc' # "insert"
      PROVE  TxInv'
  <2>1. tradeRows' = [tradeRows EXCEPT ![at] = tx]
    BY <1>18 DEF Committed
  <2>2. Len(Trades) \in Int
    BY <1>3, <1>18
  <2>3. tx.trades = tx.total /\ tx \in Count
    BY <1>18, <2>2 DEF Rest, TxInv, Count
  <2>4. \A i \in Sets : tradeRows'[i].trades = tradeRows'[i].total
    <3> TAKE i \in Sets
    <3>1. CASE i = at
      BY <2>1, <2>3, <3>1 DEF TxInv
    <3>2. CASE i # at
      BY <2>1, <3>2 DEF TxInv
    <3> QED
      BY <3>1, <3>2
  <2>5. tradeRows' \in [Sets -> Count]
    BY <2>1, <2>3 DEF TxInv
  <2>6. tx' \in Count
    BY <1>18 DEF NoTx, Count
  <2>7. Sets' = Sets
    BY <1>18 DEF Sets
  <2> QED
    BY <1>18, <2>4, <2>5, <2>6, <2>7 DEF TxInv
<1>4. CASE CreateBatch
  BY <1>1, <1>4 DEF CreateBatch
<1>5. CASE Fetch
  <2>1. pc' \in {"throw", "candle", "tick"} /\ UNCHANGED <<batch, tx, tradeRows>>
    BY <1>5 DEF Fetch
  <2> QED
    BY <1>1, <2>1
<1>6. CASE OnTick
  <2>1. pc' \in {"throw", "tick"} /\ UNCHANGED <<batch, tx, tradeRows>>
    BY <1>6 DEF OnTick
  <2> QED
    BY <1>1, <2>1
<1>17. CASE ReadFails
  BY <1>1, <1>17 DEF ReadFails
<1>7. CASE StreamEnds \/ TakeNextCandle \/ AskExit \/ CandlesEnd \/ ForceClose \/ Return
  BY <1>1, <1>7 DEF StreamEnds, TakeNextCandle, AskExit, CandlesEnd, ForceClose, Return
<1>8. CASE AskEntry
  <2>1. pc' \in {"throw", "candle"} /\ UNCHANGED <<batch, tx, tradeRows>>
    BY <1>8 DEF AskEntry
  <2> QED
    BY <1>1, <2>1
<1>9. CASE InsertRun
  <2>1. Len(Trades) \in Int
    BY <1>3, <1>9 DEF InsertRun
  <2>2. /\ tx' = [total |-> Len(Trades), trades |-> 0] /\ Trades' = Trades
        /\ UNCHANGED <<batch, tradeRows>>
    BY <1>9 DEF InsertRun, NoTx, Trades
  <2>3. tx' \in Count /\ tx'.total = Len(Trades)
    BY <2>1, <2>2 DEF Count
  <2> QED
    BY <2>2, <2>3 DEF TxInv, Sets
<1>10. CASE InsertTrades
  <2> DEFINE n == IF Rest < ChunkRows THEN Rest ELSE ChunkRows
  <2>1. Len(Trades) \in Int
    BY <1>3, <1>10 DEF InsertTrades
  <2>2. Rest \in Int
    BY <2>1 DEF Rest, TxInv, Count
  <2>3. n \in Int
    BY <2>2, RunnerAssumption
  <2>4. /\ tx' = [tx EXCEPT !.trades = @ + n] /\ UNCHANGED <<pc, batch, tradeRows, result>>
    BY <1>10 DEF InsertTrades
  <2> HIDE DEF n
  <2>5. tx' \in Count /\ tx'.total = tx.total
    BY <2>3, <2>4 DEF TxInv, Count
  <2>6. Trades' = Trades
    BY <2>4 DEF Trades
  <2> QED
    BY <2>4, <2>5, <2>6 DEF TxInv, Sets
<1>11. CASE CommitRun
  <2>1. pc' \in {"fetch", "complete"}
    BY <1>11 DEF CommitRun
  <2> QED
    BY <1>18, <1>11, <2>1 DEF CommitRun
<1>12. CASE SaveFails
  <2>1. CASE UNCHANGED tradeRows
    BY <1>2, <1>12, <2>1 DEF SaveFails
  <2>2. CASE pc = "insert" /\ Rest = 0 /\ Committed
    BY <1>18, <1>12, <2>2 DEF SaveFails
  <2> QED
    BY <1>12, <2>1, <2>2 DEF SaveFails
<1>13. CASE CompleteBatch
  BY <1>1, <1>13 DEF CompleteBatch
<1>14. CASE FailBatch \/ CloseResources
  BY <1>1, <1>14 DEF FailBatch, CloseResources
<1>15. CASE Crash
  BY <1>2, <1>15 DEF Crash
<1>16. CASE UNCHANGED vars
  BY <1>16 DEF vars, TxInv, Sets, Trades
<1> QED
  BY <1>4, <1>5, <1>6, <1>7, <1>8, <1>9, <1>10, <1>11, <1>12, <1>13, <1>14, <1>15, <1>16, <1>17
     DEF Next, Program, Engine

\* A batch that says COMPLETED has a run for each of its sets, and completed_runs
\* counts the runs there are (PostgresBatchStore.complete).
THEOREM BatchRowsTrue == Spec => []BatchTellsTruth
<1>1. Init => RowsInv /\ TxInv
  BY RunnerAssumption DEF Init, RowsInv, TxInv, Working, Stages, NoTx, Count
<1>2. ASSUME RowsInv, TxInv PROVE BatchTellsTruth
  <2>1. batchRow.status = "COMPLETED" => at = Len(batch) + 1 /\ runRows = 1 .. at - 1
    BY <1>2 DEF RowsInv
  <2>2. batchRow.status = "COMPLETED" => runRows = Sets /\ batchRow.completed = Len(batch)
    BY <1>2, <2>1, RunsCounted DEF RowsInv, Sets
  <2>3. batchRow.status = "none" => runRows = {}
    BY <1>2 DEF RowsInv
  <2>4. batchRow.status \in {"COMPLETED", "FAILED"} => batchRow.completed = Cardinality(runRows)
    BY <1>2 DEF RowsInv
  <2> QED
    BY <1>2, <2>2, <2>3, <2>4 DEF BatchTellsTruth, TxInv
<1> QED
  BY <1>1, <1>2, NextRowsInv, NextTxInv, InitIInv, NextIInv, PTL DEF Spec

-----------------------------------------------------------------------------
(* The cache.                                                              *)

Running == {"tick", "candle", "judge"}

\* What is cached is what its own query found, from an instant of its own on.
CacheInv ==
  /\ \A c \in cache : c.from \in Int /\ c.buckets = {b \in have : c.from <= b /\ b <= To}
  /\ \A c, d \in cache : c = d
  /\ pc \in Running /\ InDatabase(Warm) # {} => fetched = InDatabase(Warm)

\* Nothing that the cache is about changes while a set runs.
LEMMA CacheStep ==
  ASSUME CacheInv, UNCHANGED <<have, batch, at, fetched, cache>>,
         pc' \in Running => pc \in Running
  PROVE  CacheInv'
BY DEF CacheInv, InDatabase, Warm, P

\* Fetching: cut from the cache or read, it is what the query finds.
LEMMA FetchCached ==
  ASSUME IInv, CacheInv, Fetch
  PROVE  CacheInv'
<1>1. /\ Typed /\ at \in Sets /\ UNCHANGED <<have, batch, at>> /\ fetched' = Fetched(Warm)
      /\ cache' = IF CacheReaches(Warm) THEN cache
                  ELSE {[from |-> From - Warm, buckets |-> Fetched(Warm)]}
  BY DEF Fetch, IInv, config
<1>2. From - Warm \in Int /\ have \subseteq Int /\ To \in Int
  <2>1. Warm \in Nat \ {0}
    BY <1>1, PeriodsOK
  <2> QED
    BY <1>1, <2>1, RunnerAssumption DEF Typed
<1>3. Warm' = Warm /\ InDatabase(Warm)' = InDatabase(Warm)
  BY <1>1 DEF Warm, P, InDatabase
<1>4. CASE CacheReaches(Warm)
  <2> DEFINE c == CHOOSE c \in cache : TRUE
  <2>1. PICK d \in cache : d.from <= From - Warm
    BY <1>4 DEF CacheReaches
  <2>2. c = d
    BY <2>1 DEF CacheInv
  <2> HIDE DEF c
  <2>3. d.from \in Int /\ d.buckets = {b \in have : d.from <= b /\ b <= To}
    BY DEF CacheInv
  <2>4. {b \in d.buckets : From - Warm <= b} = InDatabase(Warm)
    <3> DEFINE w == From - Warm
    <3>1. w \in Int /\ d.from <= w
      BY <1>2, <2>1
    <3>2. InDatabase(Warm) = {b \in have : w <= b /\ b <= To}
      BY DEF InDatabase
    <3> HIDE DEF w
    <3>3. \A b \in have : w <= b => d.from <= b
      BY <1>2, <2>3, <3>1
    <3>4. {b \in d.buckets : w <= b} = {b \in have : w <= b /\ b <= To}
      BY <2>3, <3>3
    <3> QED
      BY <3>2, <3>4 DEF w
  <2>5. InDatabase(Warm) # {} => FromCache(d, Warm) = InDatabase(Warm)
    BY <2>4 DEF FromCache
  <2>6. fetched' = FromCache(d, Warm)
    BY <1>1, <1>4, <2>2 DEF Fetched, c
  <2> QED
    BY <1>1, <1>3, <1>4, <2>5, <2>6 DEF CacheInv
<1>5. CASE ~CacheReaches(Warm)
  <2> DEFINE new == [from |-> From - Warm, buckets |-> InDatabase(Warm)]
  <2>1. fetched' = InDatabase(Warm) /\ cache' = {new}
    BY <1>1, <1>5 DEF Fetched
  <2>2. new.from \in Int /\ new.buckets = {b \in have : new.from <= b /\ b <= To}
    BY <1>2 DEF InDatabase
  <2> HIDE DEF new
  <2> QED
    BY <1>1, <1>3, <2>1, <2>2 DEF CacheInv
<1> QED
  BY <1>4, <1>5

\* CacheInv is inductive.
LEMMA NextCacheInv == IInv /\ CacheInv /\ [Next]_vars => CacheInv'
<1> SUFFICES ASSUME IInv, CacheInv, [Next]_vars PROVE CacheInv'
  OBVIOUS
<1> USE DEF config, engine, rows
<1>1. CASE Fetch
  BY <1>1, FetchCached
<1>2. CASE OnTick \/ ReadFails
  BY <1>2, CacheStep DEF OnTick, ReadFails, Running
<1>3. CASE AskEntry
  BY <1>3, CacheStep DEF AskEntry, Running
<1>4. CASE TakeNextCandle \/ AskExit
  BY <1>4, CacheStep DEF TakeNextCandle, AskExit, Running
<1>5. CASE StreamEnds \/ CandlesEnd \/ ForceClose \/ Return
  BY <1>5, CacheStep DEF StreamEnds, CandlesEnd, ForceClose, Return, Running
<1>6. CASE CreateBatch
  <2>1. pc' \notin Running /\ UNCHANGED <<have, batch, at, fetched, cache>>
    BY <1>6 DEF CreateBatch, Running
  <2> QED
    BY <2>1, CacheStep
<1>7. CASE InsertRun \/ InsertTrades \/ SaveFails
  BY <1>7, CacheStep DEF InsertRun, InsertTrades, SaveFails, Running
<1>8. CASE CommitRun
  <2>1. pc' \notin Running /\ UNCHANGED <<have, cache>>
    BY <1>8 DEF CommitRun, Running
  <2> QED
    BY <2>1 DEF CacheInv
<1>9. CASE CompleteBatch \/ FailBatch \/ CloseResources
  <2>1. pc' \notin Running /\ UNCHANGED <<have, batch, at, fetched, cache>>
    BY <1>9 DEF CompleteBatch, FailBatch, CloseResources, Running
  <2> QED
    BY <2>1, CacheStep
<1>10. CASE Crash
  <2>1. pc' \notin Running /\ cache' = {}
    BY <1>10 DEF Crash, Running
  <2> QED
    BY <2>1 DEF CacheInv
<1>11. CASE UNCHANGED vars
  BY <1>11, CacheStep DEF vars
<1> QED
  BY <1>1, <1>2, <1>3, <1>4, <1>5, <1>6, <1>7, <1>8, <1>9, <1>10, <1>11
     DEF Next, Program, Engine

\* The parameter sets of a batch share what was read from the database, and each is
\* given what its own query would have found (TimescaleDataProvider.fetchCandles).
THEOREM SharedDataIsOwnData == Spec => []CacheTransparent
<1>1. Init => CacheInv
  BY DEF Init, CacheInv, Running
<1>2. CacheInv => CacheTransparent
  BY DEF CacheInv, CacheTransparent, Running
<1> QED
  BY <1>1, <1>2, NextCacheInv, InitIInv, NextIInv, PTL DEF Spec

-----------------------------------------------------------------------------
(* The steps that leave the ledger alone.                                  *)

SameLedger(c, b) == c.ledger = b.ledger /\ c.forming = b.forming /\ c.last = b.last

LEMMA JudgeExitsLedger ==
  ASSUME NEW b \in Book, NEW p, NEW s, NEW due
  PROVE  SameLedger(JudgeExits(b, p, s, due), b)
<1> DEFINE E == b.pendingExit \cup {[id |-> pos.id, type |-> ExitType(p, pos, s, pos.peak),
                                     due |-> due] : pos \in Asked(b, p, s)}
           O == {[pos EXCEPT !.peak = PeakAfter(p, pos, s, @)] : pos \in b.open}
<1>1. JudgeExits(b, p, s, due) = [b EXCEPT !.pendingExit = E, !.open = O]
  BY DEF JudgeExits
<1> HIDE DEF E, O
<1> QED
  BY <1>1 DEF Book, SameLedger

LEMMA JudgeEntryLedger ==
  ASSUME NEW b \in Book, NEW p, NEW s, NEW due
  PROVE  SameLedger(JudgeEntry(b, p, s, due), b)
<1>1. CASE ~(MayEnter(b) /\ EntrySide(p, s) # "none")
  BY <1>1 DEF JudgeEntry, SameLedger
<1>2. CASE MayEnter(b) /\ EntrySide(p, s) # "none"
  <2> DEFINE E == {[side |-> EntrySide(p, s), lot |-> Lot(b), due |-> due]}
  <2>1. JudgeEntry(b, p, s, due) = [b EXCEPT !.pendingEntry = E]
    BY <1>2 DEF JudgeEntry
  <2> HIDE DEF E
  <2> QED
    BY <2>1 DEF Book, SameLedger
<1> QED
  BY <1>1, <1>2

LEMMA ClosedLedger ==
  ASSUME NEW b \in Book, NEW pos, NEW price, NEW t, NEW type
  PROVE  SameLedger(Closed(b, pos, price, t, type), b)
<1> DEFINE after == b.equity + Amount(pos, price)
           O == b.open \ {pos}
           T == Append(b.trades, TradeRecord(pos, price, t, type, after))
<1>1. Closed(b, pos, price, t, type) = [b EXCEPT !.equity = after, !.open = O, !.trades = T]
  BY DEF Closed
<1> HIDE DEF after, O, T
<1> QED
  BY <1>1 DEF Book, SameLedger

LEMMA OpenedLedger ==
  ASSUME NEW b \in Book, NEW order, NEW price, NEW t
  PROVE  SameLedger(Opened(b, order, price, t), b)
<1> DEFINE O == b.open \cup {[id |-> b.opened + 1, side |-> order.side, lot |-> order.lot,
                       entry |-> price, at |-> t, capital |-> b.equity,
                       peak |-> 0, seen |-> {}]}
           n == b.opened + 1
<1>1. Opened(b, order, price, t) = [b EXCEPT !.open = O, !.opened = n]
  BY DEF Opened
<1> HIDE DEF O, n
<1> QED
  BY <1>1 DEF Book, SameLedger

LEMMA FillExitLedger ==
  ASSUME NEW b \in Book, NEW tick, NEW slip
  PROVE  SameLedger(FillExit(b, tick, slip), b)
<1>1. CASE Due(b.pendingExit, tick) = {}
  BY <1>1 DEF FillExit, SameLedger
<1>2. CASE Due(b.pendingExit, tick) # {}
  <2> DEFINE d == [b EXCEPT !.pendingExit = {}]
  <2>1. PICK pos, price, type : FillExit(b, tick, slip) = Closed(d, pos, price, tick.at, type)
    BY <1>2 DEF FillExit
  <2>2. d \in Book /\ SameLedger(d, b)
    BY DEF Book, SameLedger
  <2> HIDE DEF d
  <2> QED
    BY <2>1, <2>2, ClosedLedger DEF SameLedger
<1> QED
  BY <1>1, <1>2

LEMMA FillEntryLedger ==
  ASSUME NEW b \in Book, NEW tick, NEW slip
  PROVE  SameLedger(FillEntry(b, tick, slip), b)
<1>1. CASE Due(b.pendingEntry, tick) = {}
  BY <1>1 DEF FillEntry, SameLedger
<1>2. CASE Due(b.pendingEntry, tick) # {}
  <2> DEFINE d == [b EXCEPT !.pendingEntry = {}]
  <2>1. PICK order, price : FillEntry(b, tick, slip) = Opened(d, order, price, tick.at)
    BY <1>2 DEF FillEntry
  <2>2. d \in Book /\ SameLedger(d, b)
    BY DEF Book, SameLedger
  <2> HIDE DEF d
  <2> QED
    BY <2>1, <2>2, OpenedLedger DEF SameLedger
<1> QED
  BY <1>1, <1>2

LEMMA TrackTickLedger ==
  ASSUME NEW b \in Book, NEW tick
  PROVE  SameLedger(TrackTick(b, tick), b)
<1> DEFINE O == {[pos EXCEPT !.seen = Stretched(@, ExitQuote(tick, pos.side), ExitQuote(tick, pos.side))] :
                   pos \in b.open}
<1>1. TrackTick(b, tick) = [b EXCEPT !.open = O]
  BY DEF TrackTick
<1> HIDE DEF O
<1> QED
  BY <1>1 DEF Book, SameLedger

LEMMA TrackCandleLedger ==
  ASSUME NEW b \in Book, NEW candle_
  PROVE  SameLedger(TrackCandle(b, candle_), b)
<1> DEFINE O == {[pos EXCEPT !.seen = Stretched(@, candle_.high, candle_.low)] : pos \in b.open}
<1>1. TrackCandle(b, candle_) = [b EXCEPT !.open = O]
  BY DEF TrackCandle
<1> HIDE DEF O
<1> QED
  BY <1>1 DEF Book, SameLedger

LEMMA JudgeAtNextOpenLedger ==
  ASSUME NEW b \in Book, NEW p, NEW pos, NEW k, NEW n
  PROVE  SameLedger(JudgeAtNextOpen(b, p, pos, k, n), b)
<1> DEFINE s == ShownAfter(b, k)
           type == ExitType(p, pos, s, pos.peak)
           O == (b.open \ {pos}) \cup {[pos EXCEPT !.peak = PeakAfter(p, pos, s, @)]}
<1>1. CASE type # "none"
  <2>1. JudgeAtNextOpen(b, p, pos, k, n) = Closed(b, pos, n.open, Slots * n.bucket, type)
    BY <1>1 DEF JudgeAtNextOpen
  <2> QED
    BY <2>1, ClosedLedger
<1>2. CASE type = "none"
  <2>1. JudgeAtNextOpen(b, p, pos, k, n) = [b EXCEPT !.open = O]
    BY <1>2 DEF JudgeAtNextOpen
  <2> HIDE DEF O
  <2> QED
    BY <2>1 DEF Book, SameLedger
<1> QED
  BY <1>1, <1>2

LEMMA EnterAtNextOpenLedger ==
  ASSUME NEW b \in Book, NEW p, NEW k, NEW n
  PROVE  SameLedger(EnterAtNextOpen(b, p, k, n), b)
BY OpenedLedger DEF EnterAtNextOpen, SameLedger

-----------------------------------------------------------------------------
(* The order of the closes in a ledger.                                    *)

Ascending(l) == \A i, j \in DOMAIN l : i < j => l[i].bucket < l[j].bucket
AllBefore(l, k) == \A i \in DOMAIN l : l[i].bucket < k

\* What is before a bucket is before every later one.
LEMMA BeforeLater ==
  ASSUME NEW l \in Seq(Close), NEW j \in Int, NEW k \in Int, AllBefore(l, j), j <= k
  PROVE  AllBefore(l, k)
<1>1. \A i \in DOMAIN l : l[i] \in Close
  OBVIOUS
<1>2. \A i \in DOMAIN l : l[i].bucket \in Int
  BY <1>1 DEF Close
<1> QED
  BY <1>2 DEF AllBefore

\* A later close goes to the end, and dropping old ones keeps the order.
LEMMA KeepAscending ==
  ASSUME NEW l \in Seq(Close), NEW c \in Close, NEW k \in Int, NEW n \in Nat \ {0},
         Ascending(l), AllBefore(l, c.bucket), c.bucket < k
  PROVE  /\ Ascending(Keep(Append(l, c), n))
         /\ AllBefore(Keep(Append(l, c), n), k)
<1> DEFINE a == Append(l, c)
<1>1. c.bucket \in Int
  BY DEF Close
<1>2. /\ a \in Seq(Close) /\ Len(l) \in Nat /\ Len(a) = Len(l) + 1 /\ a[Len(l) + 1] = c
      /\ \A i \in 1 .. Len(l) : a[i] = l[i]
      /\ DOMAIN l = 1 .. Len(l) /\ DOMAIN a = 1 .. Len(l) + 1
  BY AppendProperties, LenProperties
<1> HIDE DEF a
<1>3. \A i \in 1 .. Len(l) : l[i].bucket \in Int /\ l[i].bucket < c.bucket
  <2>1. \A i \in 1 .. Len(l) : l[i] \in Close
    BY <1>2
  <2> QED
    BY <1>2, <2>1 DEF Close, AllBefore
<1>4. \A i \in 1 .. Len(l) + 1 : a[i].bucket \in Int /\ a[i].bucket < k
  <2> TAKE i \in 1 .. Len(l) + 1
  <2>1. CASE i \in 1 .. Len(l)
    BY <1>1, <1>2, <1>3, <2>1
  <2>2. CASE i = Len(l) + 1
    BY <1>1, <1>2, <2>2
  <2> QED
    BY <1>2, <2>1, <2>2
<1>5. \A i, j \in 1 .. Len(l) + 1 : i < j => a[i].bucket < a[j].bucket
  <2> TAKE i, j \in 1 .. Len(l) + 1
  <2>1. SUFFICES ASSUME i < j PROVE a[i].bucket < a[j].bucket
    OBVIOUS
  <2>2. i \in 1 .. Len(l) /\ a[i] = l[i]
    BY <1>2, <2>1
  <2>3. CASE j \in 1 .. Len(l)
    <3>1. l[i].bucket < l[j].bucket
      BY <1>2, <2>1, <2>2, <2>3 DEF Ascending
    <3> QED
      BY <1>2, <2>2, <2>3, <3>1
  <2>4. CASE j = Len(l) + 1
    BY <1>2, <1>3, <2>2, <2>4
  <2> QED
    BY <1>2, <2>3, <2>4
<1>6. CASE ~(Len(a) > n + 1)
  BY <1>2, <1>4, <1>5, <1>6 DEF Keep, Ascending, AllBefore, a
<1>7. CASE Len(a) > n + 1
  <2> DEFINE m == Len(a) - n
             s == SubSeq(a, m, Len(a))
  <2>1. m \in Int /\ Len(a) \in Int /\ 1 <= m /\ m <= Len(a)
    BY <1>2, <1>7
  <2>2. /\ s \in Seq(Close) /\ Len(s) = Len(a) - m + 1
        /\ \A i \in 1 .. Len(a) - m + 1 : s[i] = a[m + i - 1]
    <3>1. \A i \in m .. Len(a) : a[i] \in Close
      BY <1>2, <2>1
    <3> HIDE DEF m
    <3> QED
      BY <2>1, <3>1, SubSeqProperties
  <2>3. DOMAIN s = 1 .. Len(a) - m + 1
    BY <2>2
  <2>4. Keep(a, n) = s
    BY <1>7 DEF Keep
  <2> HIDE DEF s, m
  <2>5. \A i \in DOMAIN s : m + i - 1 \in 1 .. Len(l) + 1 /\ s[i] = a[m + i - 1]
    BY <1>2, <2>1, <2>2, <2>3
  <2>6. AllBefore(s, k)
    BY <1>4, <2>5 DEF AllBefore
  <2>7. Ascending(s)
    <3>1. \A i, j \in DOMAIN s : i < j => m + i - 1 < m + j - 1
      BY <2>1, <2>3
    <3> QED
      BY <1>5, <2>5, <3>1 DEF Ascending
  <2> QED
    BY <2>4, <2>6, <2>7 DEF a
<1> QED
  BY <1>6, <1>7

-----------------------------------------------------------------------------
(* The ledger through a candle, and at the end of either run.              *)

LEMMA TakeCandleLedger ==
  ASSUME NEW b, CandleBook(b), NEW p, p.short \in Nat \ {0}, p.long \in Nat \ {0},
         NEW k \in Candle, Ascending(b.ledger), AllBefore(b.ledger, k.bucket)
  PROVE  /\ Ascending(TakeCandle(b, p, k).ledger)
         /\ AllBefore(TakeCandle(b, p, k).ledger, k.bucket + 1)
<1> DEFINE new == [bucket |-> k.bucket, close |-> k.close]
           n == WarmupCount(p)
           a == AddCandle(b, p, new)
           d == [a EXCEPT !.rate = k.close]
<1>1. new \in Close /\ k.close \in Int /\ new.bucket = k.bucket /\ k.bucket + 1 \in Int
      /\ k.bucket < k.bucket + 1 /\ n \in Nat \ {0}
  BY DEF Candle, Close, WarmupCount
<1>2. b \in Book /\ b.ledger \in Seq(Close) /\ Kept(b)
  BY DEF CandleBook, Sound, Kept, Book
<1>3. TakeCandle(b, p, k) = TrackCandle(d, k)
  BY DEF TakeCandle
<1> HIDE DEF new
<1>4. a \in Book
  BY <1>1, <1>2, AddCandleKept
<1>5. a.ledger = Keep(Append(b.ledger, new), n)
  BY <1>2 DEF AddCandle, Book
<1> HIDE DEF n
<1>6. Ascending(a.ledger) /\ AllBefore(a.ledger, k.bucket + 1)
  BY <1>1, <1>2, <1>5, KeepAscending
<1> HIDE DEF a
<1>7. d \in Book /\ d.ledger = a.ledger
  BY <1>1, <1>4 DEF Book
<1> HIDE DEF d
<1>8. TrackCandle(d, k).ledger = d.ledger
  BY <1>7, TrackCandleLedger DEF SameLedger
<1> QED
  BY <1>3, <1>6, <1>7, <1>8

LEMMA ForceClosedAtCloseLedger ==
  ASSUME NEW b \in Book, NEW pos \in b.open, NEW k \in Candle
  PROVE  SameLedger(ForceClosedAtClose(b, pos, k), b)
<1> DEFINE q == [pos EXCEPT !.seen = Stretched(@, k.high, k.low)]
           O == (b.open \ {pos}) \cup {q}
           d == [b EXCEPT !.open = O]
<1>1. ForceClosedAtClose(b, pos, k) = Closed(d, q, k.close, CloseTime(k.bucket), "FORCE_CLOSE")
  BY DEF ForceClosedAtClose
<1>2. pos \in Position /\ pos.seen \in SUBSET Extreme /\ k.high \in Int /\ k.low \in Int
  BY DEF Book, Position, Candle
<1>3. q \in Position
  BY <1>2, StretchedOK DEF Position
<1> HIDE DEF q
<1>4. d \in Book /\ SameLedger(d, b)
  BY <1>3 DEF Book, SameLedger
<1> HIDE DEF d
<1> QED
  BY <1>1, <1>4, ClosedLedger DEF SameLedger

LEMMA ForceClosedAtTickLedger ==
  ASSUME NEW b \in Book, NEW pos, NEW slip
  PROVE  SameLedger(ForceClosedAtTick(b, pos, slip), b)
BY ClosedLedger DEF ForceClosedAtTick

LEMMA SettledLedger ==
  ASSUME NEW b, TickBook(b), b.last # {}, NEW slip \in Int
  PROVE  SameLedger(Settled(b, slip), b)
<1> DEFINE tick == CHOOSE t \in b.last : TRUE
           E == {[o EXCEPT !.due = tick.at] : o \in b.pendingExit}
           d == [b EXCEPT !.pendingEntry = {}, !.pendingExit = E]
<1>1. b \in Book
  BY DEF TickBook, Sound, Kept
<1>2. tick.at \in Int
  <2>1. tick \in b.last
    OBVIOUS
  <2> QED
    BY <1>1, <2>1 DEF Book, Tick
<1>3. Settled(b, slip) = FillExit(d, tick, slip)
  BY DEF Settled
<1>4. E \subseteq ExitOrder
  <2> HIDE DEF tick
  <2> QED
    BY <1>1, <1>2 DEF Book, ExitOrder
<1> HIDE DEF E, tick
<1>5. d \in Book /\ SameLedger(d, b)
  BY <1>1, <1>4 DEF Book, SameLedger
<1> HIDE DEF d
<1> QED
  BY <1>3, <1>5, FillExitLedger DEF SameLedger

-----------------------------------------------------------------------------
(* The ledger through a tick.                                              *)

\* The closes are before the candle that forms, and that candle is of the bucket
\* of the last tick; before the first tick they are before the period.
TickLedger(b) ==
  /\ Ascending(b.ledger)
  /\ b.last = {} => b.forming = {} /\ AllBefore(b.ledger, From)
  /\ \A t \in b.last :
       /\ Slots * From <= t.at
       /\ \E f \in b.forming : /\ b.forming = {f} /\ f.bucket = Bucket(t.at)
                               /\ AllBefore(b.ledger, f.bucket)

LEMMA SameTickLedger ==
  ASSUME NEW b, NEW c, TickLedger(b), SameLedger(c, b)
  PROVE  TickLedger(c)
BY DEF TickLedger, SameLedger

\* A later instant is of a later bucket or of the same.
LEMMA BucketMonotone ==
  ASSUME NEW x \in Int, NEW y \in Int, x <= y
  PROVE  /\ Bucket(x) \in Int /\ Bucket(y) \in Int /\ Bucket(x) <= Bucket(y)
         /\ Slots * Bucket(x) <= x
BY BookAssumption DEF Bucket

LEMMA FirstBucket ==
  ASSUME NEW x \in Int, Slots * From <= x
  PROVE  From <= Bucket(x)
BY BookAssumption, RunnerAssumption DEF Bucket

\* The book the rules are shown: the candle that was confirmed is the last of its
\* ledger, and the one that forms is of the bucket of the tick.
LEMMA ShownLedger ==
  ASSUME NEW b, TickBook(b), NEW p, p.short \in Nat \ {0}, p.long \in Nat \ {0},
         NEW tick \in Tick, \A l \in b.last : l.at < tick.at, Slots * From <= tick.at,
         TickLedger(b)
  PROVE  TickLedger(Shown(b, p, tick))
<1> DEFINE g == [bucket |-> Bucket(tick.at), close |-> tick.bid]
           a == Accumulated(b, tick)
           n == WarmupCount(p)
<1>1. /\ b \in Book /\ b.ledger \in Seq(Close) /\ tick.at \in Int /\ tick.bid \in Int
      /\ Bucket(tick.at) \in Int /\ n \in Nat \ {0}
  <2>1. b \in Book /\ b.ledger \in Seq(Close) /\ tick.at \in Int /\ tick.bid \in Int
    BY DEF TickBook, Sound, Kept, Book, Tick
  <2>2. Bucket(tick.at) \in Int
    <3>1. tick.at <= tick.at
      BY <2>1
    <3> QED
      BY <2>1, <3>1, BucketMonotone
  <2>3. n \in Nat \ {0}
    BY DEF WarmupCount
  <2> QED
    BY <2>1, <2>2, <2>3
<1>2. a = [b EXCEPT !.rate = tick.bid, !.last = {tick}, !.forming = {g}]
  BY DEF Accumulated
<1>3. g \in Close /\ g.bucket = Bucket(tick.at)
  BY <1>1 DEF Close
<1> HIDE DEF g, a, n
<1>4. /\ a \in Book /\ a.ledger = b.ledger /\ a.last = {tick} /\ a.forming = {g}
      /\ Kept(a)
  <2>1. /\ a \in Book /\ a.ledger = b.ledger /\ a.last = {tick} /\ a.forming = {g}
        /\ a.trades = b.trades /\ a.equity = b.equity /\ a.opened = b.opened
        /\ a.open = b.open
    BY <1>1, <1>2, <1>3 DEF Book
  <2>2. Kept(a)
    BY <1>1, <2>1, UntouchedKept DEF TickBook, Sound
  <2> QED
    BY <2>1, <2>2
\* It is enough that the closes shown are before the bucket of the tick.
<1>5. ASSUME NEW c, c.last = {tick}, c.forming = {g}, Ascending(c.ledger),
             AllBefore(c.ledger, Bucket(tick.at))
      PROVE  TickLedger(c)
  BY <1>3, <1>5 DEF TickLedger
<1>6. CASE b.last = {}
  <2>1. b.forming = {} /\ Ascending(b.ledger) /\ AllBefore(b.ledger, From)
    BY <1>6 DEF TickLedger
  <2>2. Shown(b, p, tick) = a
    BY <2>1 DEF Shown, Confirmed, a
  <2>3. From \in Int /\ From <= Bucket(tick.at)
    BY <1>1, FirstBucket, RunnerAssumption
  <2>4. AllBefore(b.ledger, Bucket(tick.at))
    BY <1>1, <2>1, <2>3, BeforeLater
  <2> QED
    BY <1>4, <1>5, <2>1, <2>2, <2>4
<1>7. CASE b.last # {}
  <2>1. PICK t \in b.last : t.at < tick.at
    BY <1>7
  <2>2. PICK f \in b.forming : /\ b.forming = {f} /\ f.bucket = Bucket(t.at)
                               /\ AllBefore(b.ledger, f.bucket)
    BY <2>1 DEF TickLedger
  <2>3. f \in Close /\ f.bucket \in Int /\ t.at \in Int
    BY <1>1, <2>1, <2>2 DEF Book, Close, Tick
  <2>4. f.bucket <= Bucket(tick.at)
    <3>1. t.at <= tick.at
      BY <1>1, <2>1, <2>3
    <3>2. Bucket(t.at) <= Bucket(tick.at)
      BY <1>1, <2>3, <3>1, BucketMonotone
    <3> QED
      BY <2>2, <3>2
  <2>5. Ascending(b.ledger)
    BY DEF TickLedger
  <2>6. CASE f.bucket = Bucket(tick.at)
    <3>1. Shown(b, p, tick) = a
      BY <2>2, <2>6 DEF Shown, Confirmed, a
    <3> QED
      BY <1>4, <1>5, <2>2, <2>5, <2>6, <3>1
  <2>7. CASE f.bucket # Bucket(tick.at)
    <3> DEFINE c == AddCandle(a, p, f)
    <3>1. Confirmed(b, tick) = {f}
      BY <2>2, <2>7 DEF Confirmed
    <3>2. Shown(b, p, tick) = c
      BY <3>1 DEF Shown, a
    <3>3. c = [a EXCEPT !.ledger = Keep(Append(b.ledger, f), n)]
      BY <1>4 DEF AddCandle, Book, n
    <3>4. f.bucket < Bucket(tick.at)
      BY <1>1, <2>3, <2>4, <2>7
    <3> DEFINE k == Keep(Append(b.ledger, f), n)
    <3>5. Ascending(k) /\ AllBefore(k, Bucket(tick.at))
      BY <1>1, <2>2, <2>3, <2>5, <3>4, KeepAscending
    <3> HIDE DEF c, k
    <3>6. c.ledger = k /\ c.last = {tick} /\ c.forming = {g}
      BY <1>4, <3>3 DEF Book, k
    <3> QED
      BY <1>5, <3>2, <3>5, <3>6
  <2> QED
    BY <2>6, <2>7
<1> QED
  BY <1>6, <1>7

\* Filling and tracking leave the ledger alone.
LEMMA FillsLedger ==
  ASSUME NEW b, Sound(b), NEW tick, tick.bid \in Int, tick.ask \in Int, tick.at \in Int,
         UpTo(b, tick.at), NEW exitSlip \in Int, NEW entrySlip \in Int
  PROVE  SameLedger(TrackTick(FillEntry(FillExit(b, tick, exitSlip), tick, entrySlip), tick), b)
<1> DEFINE k == FillExit(b, tick, exitSlip)
           c == FillEntry(k, tick, entrySlip)
           d == TrackTick(c, tick)
<1>1. Sound(k) /\ UpTo(k, tick.at)
  BY FillExitSound
<1>2. b \in Book /\ SameLedger(k, b)
  BY FillExitLedger DEF Sound, Kept
<1> HIDE DEF k
<1>3. Sound(c)
  BY <1>1, FillEntrySound
<1>4. k \in Book /\ SameLedger(c, k)
  BY <1>1, FillEntryLedger DEF Sound, Kept
<1> HIDE DEF c
<1>5. c \in Book /\ SameLedger(d, c)
  BY <1>3, TrackTickLedger DEF Sound, Kept
<1> HIDE DEF d
<1>6. SameLedger(d, b)
  BY <1>2, <1>4, <1>5 DEF SameLedger
<1> QED
  BY <1>6 DEF d, c, k

\* One tick, whatever the rules answer, unless they end the run.
LEMMA TickKeepsLedger ==
  ASSUME NEW b, TickBook(b), NEW p, p.short \in Nat \ {0}, p.long \in Nat \ {0},
         NEW tick \in Tick, tick.bid > 0, \A l \in b.last : l.at < tick.at,
         Slots * From <= tick.at, TickLedger(b),
         NEW due \in Int, NEW judged, NEW exitSlip \in Int, NEW entrySlip \in Int,
         \/ judged = Shown(b, p, tick)
         \/ /\ ~RulesThrow(Shown(b, p, tick), p, tick, due)
            /\ judged = Judged(Shown(b, p, tick), p, tick, due)
  PROVE  TickLedger(TrackTick(FillEntry(FillExit(judged, tick, exitSlip), tick, entrySlip), tick))
<1> DEFINE a == Shown(b, p, tick)
           s == ShownAt(a, tick)
<1>1. tick.bid \in Int /\ tick.ask \in Int /\ tick.at \in Int
  BY DEF Tick
<1>2. Sound(a) /\ UpTo(a, tick.at) /\ a.rate = tick.bid
  BY ShownSound
<1>3. TickLedger(a)
  BY ShownLedger
<1>4. Sound(judged) /\ UpTo(judged, tick.at) /\ SameLedger(judged, a)
  <2>1. CASE judged = a
    BY <2>1, <1>2 DEF SameLedger
  <2>2. CASE ~RulesThrow(a, p, tick, due) /\ judged = Judged(a, p, tick, due)
    <3> DEFINE e == JudgeExits(a, p, s, due)
    <3>1. ~ExitRefused(a, p, s) /\ judged = JudgeEntry(e, p, s, due)
      BY <2>2 DEF RulesThrow, Judged
    <3>2. s.bid \in Int /\ s.ask \in Int
      BY <1>1, SnapshotPrices DEF ShownAt
    <3> HIDE DEF a, s
    <3>3. Sound(e) /\ e.rate = a.rate /\ \A n \in Int : UpTo(a, n) => UpTo(e, n)
      BY <1>2, <3>1, <3>2, JudgeExitsSound
    <3>4. a \in Book /\ SameLedger(e, a)
      BY <1>2, JudgeExitsLedger DEF Sound, Kept
    <3> HIDE DEF e
    <3>5. e.rate > 0 /\ e \in Book
      BY <3>3, <1>2 DEF Sound, Kept
    <3>6. Sound(judged) /\ \A n \in Int : UpTo(e, n) => UpTo(judged, n)
      BY <3>1, <3>3, <3>5, JudgeEntrySound
    <3>7. SameLedger(judged, e)
      BY <3>1, <3>5, JudgeEntryLedger
    <3>8. UpTo(judged, tick.at)
      BY <1>1, <1>2, <3>3, <3>6
    <3>9. SameLedger(judged, a)
      BY <3>4, <3>7 DEF SameLedger
    <3> QED
      BY <3>6, <3>8, <3>9
  <2> QED
    BY <2>1, <2>2
<1> HIDE DEF a, s
<1> DEFINE d == TrackTick(FillEntry(FillExit(judged, tick, exitSlip), tick, entrySlip), tick)
<1>5. SameLedger(d, judged)
  BY <1>1, <1>4, FillsLedger
<1> HIDE DEF d
<1>6. TickLedger(d)
  BY <1>3, <1>4, <1>5, SameTickLedger
<1> QED
  BY <1>6 DEF d

-----------------------------------------------------------------------------
(* The warm-up.                                                            *)

\* The first n of a set are before all the others.
LEMMA FirstBefore ==
  ASSUME NEW S \in SUBSET Int, IsFiniteSet(S), NEW n \in Nat,
         NEW b \in FirstOf(S, n), NEW d \in S \ FirstOf(S, n)
  PROVE  b < d
<1> DEFINE L(x) == {c \in S : c < x}
<1>1. b \in S /\ b \in Int /\ d \in S /\ d \in Int /\ Cardinality(L(b)) < n
      /\ ~(Cardinality(L(d)) < n)
  BY DEF FirstOf
<1>2. SUFFICES ASSUME d <= b PROVE FALSE
  BY <1>1
<1>3. L(b) \in SUBSET S /\ L(d) \in SUBSET L(b)
  <2>1. \A c \in S : c < d => c < b
    BY <1>1, <1>2
  <2>2. L(d) \subseteq L(b)
    BY <2>1
  <2>3. L(b) \subseteq S
    OBVIOUS
  <2> HIDE DEF L
  <2> QED
    BY <2>2, <2>3
<1> HIDE DEF L
<1>4. IsFiniteSet(L(b))
  BY <1>3, FS_Subset
<1>5. IsFiniteSet(L(d)) /\ Cardinality(L(d)) <= Cardinality(L(b))
  BY <1>3, <1>4, FS_Subset
<1>6. Cardinality(L(b)) \in Nat /\ Cardinality(L(d)) \in Nat
  BY <1>4, <1>5, FS_CardinalityType
<1> QED
  BY <1>1, <1>5, <1>6

\* With a complete window the warm-up is that window: nothing of the period is in it.
LEMMA WarmupBeforePeriod ==
  ASSUME have \subseteq Int, IsFiniteSet(have), Warm \in Nat \ {0}, WarmupGap = {},
         NEW b \in FirstOf(InDatabase(Warm), Warm)
  PROVE  b < From
<1> DEFINE S == InDatabase(Warm)
           L == {c \in S : c < b}
           W == From - Warm .. From - 1
<1>1. /\ b \in Int /\ b <= To /\ From \in Int /\ To \in Int
      /\ Cardinality(L) < Warm
  BY RunnerAssumption DEF FirstOf, InDatabase
<1>2. SUFFICES ASSUME From <= b PROVE FALSE
  BY <1>1
<1>3. W \subseteq have
  BY DEF WarmupGap
<1>4. W \in SUBSET L
  BY <1>1, <1>2, <1>3 DEF InDatabase
<1>5. IsFiniteSet(L)
  <2>1. L \in SUBSET have
    BY DEF InDatabase
  <2> HIDE DEF L
  <2> QED
    BY <2>1, FS_Subset
<1>6. Cardinality(W) = Warm
  <2>1. From - Warm \in Int /\ From - 1 \in Int /\ From - Warm <= From - 1
    BY <1>1
  <2>2. Cardinality(W) = (From - 1) - (From - Warm) + 1
    BY <2>1, FS_Interval
  <2> HIDE DEF W
  <2> QED
    BY <1>1, <2>2
<1> HIDE DEF L, W
<1>7. Cardinality(W) <= Cardinality(L) /\ Cardinality(L) \in Nat
  BY <1>4, <1>5, FS_Subset, FS_CardinalityType
<1> QED
  BY <1>1, <1>6, <1>7

-----------------------------------------------------------------------------
(* The invariant.                                                          *)

CandlesLedger ==
  mode = "OHLC" /\ pc \in {"candle", "judge", "closing"} =>
    /\ Ascending(book.ledger)
    /\ pc = "candle" => \A c \in candle : AllBefore(book.ledger, c.bucket)
    /\ pc \in {"judge", "closing"} => \A c \in candle : AllBefore(book.ledger, c.bucket + 1)
    /\ pc = "judge" => \A c \in candle, n \in next : c.bucket < n.bucket

TicksLedger ==
  mode = "TICK" /\ pc \in {"tick", "closing"} /\ WarmupGap = {} => TickLedger(book)

LedgerInv == CandlesLedger /\ TicksLedger

\* What Fetch puts into the ledger.
LEMMA FetchLedger ==
  ASSUME IInv, CacheInv, Fetch
  PROVE  LedgerInv'
<1> DEFINE got == Fetched(Warm)
           S == FirstOf(got, Warm)
<1>1. /\ at \in Sets /\ Typed /\ UNCHANGED <<mode, delay, have, batch, at>>
      /\ fetched' = got /\ mode \in {"OHLC", "TICK"} /\ have \subseteq Int
      /\ IsFiniteSet(have)
  BY DEF Fetch, IInv, config, Typed
<1>2. Warm \in Nat \ {0}
  BY <1>1, PeriodsOK
<1>3. got \subseteq have /\ \A b \in got : b <= To
  <2>1. \A c \in cache : FromCache(c, Warm) \subseteq c.buckets
    BY DEF FromCache
  <2>2. \A c \in cache : c.buckets \subseteq {b \in have : b <= To}
    BY DEF CacheInv
  <2>3. InDatabase(Warm) \subseteq {b \in have : b <= To}
    BY DEF InDatabase
  <2> QED
    BY <2>1, <2>2, <2>3 DEF Fetched, CacheReaches
<1>4. S \subseteq got /\ S \subseteq Int /\ IsFiniteSet(got)
  BY <1>1, <1>3, FS_Subset DEF FirstOf
<1> HIDE DEF got
<1>5. SUFFICES ASSUME pc' \in {"candle", "tick"} PROVE LedgerInv'
  <2>1. pc' \in {"throw", "candle", "tick"}
    BY DEF Fetch
  <2> QED
    BY <1>5, <2>1 DEF LedgerInv, CandlesLedger, TicksLedger
<1>6. PICK l \in LedgersOf(S) : book' = [NewBook EXCEPT !.ledger = l]
  BY <1>5 DEF Fetch, got
<1>7. /\ book'.ledger = l /\ book'.last = {} /\ book'.forming = {}
      /\ Ascending(l) /\ \A i \in DOMAIN l : l[i].bucket \in S
  BY <1>6 DEF NewBook, LedgersOf, Ascending
<1>8. CASE mode = "OHLC"
  <2>1. /\ pc' = "candle"
        /\ \E b \in Earliest(got \ S) : \E c \in Candles(b) : candle' = {c}
    BY <1>5, <1>8 DEF Fetch, got
  <2>2. PICK b \in Earliest(got \ S) : \E c \in Candles(b) : candle' = {c}
    BY <2>1
  <2>3. PICK c \in Candles(b) : candle' = {c}
    BY <2>2
  <2>4. b \in got \ S /\ b \in Int
    BY <1>1, <1>3 DEF Earliest
  <2>5. c.bucket = b
    BY <2>4, CandlesOK
  <2>6. got \in SUBSET Int /\ Warm \in Nat
    BY <1>1, <1>2, <1>3
  <2>7. \A x \in S : x < b
    BY <1>4, <2>4, <2>6, FirstBefore
  <2>8. AllBefore(l, c.bucket)
    BY <1>7, <2>5, <2>7 DEF AllBefore
  <2> QED
    BY <1>1, <1>7, <1>8, <2>1, <2>3, <2>8 DEF LedgerInv, CandlesLedger, TicksLedger
<1>9. CASE mode = "TICK"
  <2>1. pc' = "tick" /\ mode' = "TICK"
    BY <1>1, <1>5, <1>9 DEF Fetch
  <2>2. SUFFICES ASSUME WarmupGap = {} PROVE AllBefore(l, From)
    <3>1. WarmupGap' = WarmupGap
      BY <1>1 DEF WarmupGap, Warm, P
    <3> QED
      BY <1>7, <2>1, <2>2, <3>1 DEF LedgerInv, CandlesLedger, TicksLedger, TickLedger
  <2>3. ASSUME NEW x \in S PROVE x < From
    <3>1. x \in Int /\ x <= To /\ From \in Int /\ To \in Int
      BY <1>3, <1>4, RunnerAssumption
    <3>2. SUFFICES ASSUME From <= x PROVE x < From
      BY <3>1
    <3>3. From - 1 \in InDatabase(Warm)
      <4>1. From - 1 \in From - Warm .. From - 1 /\ From - 1 <= To /\ From - Warm <= From - 1
        BY <1>2, <3>1, <3>2
      <4> QED
        BY <2>2, <4>1 DEF WarmupGap, InDatabase
    <3>4. CacheInv'
      BY FetchCached
    <3>5. InDatabase(Warm)' = InDatabase(Warm)
      BY <1>1 DEF InDatabase, Warm, P
    <3>6. got = InDatabase(Warm)
      BY <1>1, <2>1, <3>3, <3>4, <3>5 DEF CacheInv, Running
    <3>7. x \in FirstOf(InDatabase(Warm), Warm)
      BY <3>6
    <3> QED
      BY <1>1, <1>2, <2>2, <3>7, WarmupBeforePeriod
  <2> QED
    BY <1>7, <2>3 DEF AllBefore
<1> QED
  BY <1>1, <1>8, <1>9

\* Steps that leave the engines, or stay where they are, leave it true.
LEMMA LedgerStep ==
  ASSUME LedgerInv, UNCHANGED <<mode, have, batch, at, candle, next>>,
         SameLedger(book', book), pc' = pc
  PROVE  LedgerInv'
<1>1. WarmupGap' = WarmupGap
  BY DEF WarmupGap, Warm, P
<1>2. TickLedger(book) => TickLedger(book')
  BY SameTickLedger
<1>3. TicksLedger'
  BY <1>1, <1>2 DEF LedgerInv, TicksLedger
<1>4. CandlesLedger'
  BY DEF LedgerInv, CandlesLedger, SameLedger
<1> QED
  BY <1>3, <1>4 DEF LedgerInv

\* One tick.
LEMMA OnTickLedger ==
  ASSUME IInv, LedgerInv, OnTick
  PROVE  LedgerInv'
<1>1. /\ Typed /\ mode = "TICK" /\ at \in Sets /\ TickBook(book) /\ pc = "tick"
      /\ UNCHANGED <<mode, have, batch, at>>
  BY DEF OnTick, IInv, BookInv, Typed, config
<1>2. WarmupGap' = WarmupGap
  BY <1>1 DEF WarmupGap, Warm, P
<1>3. SUFFICES ASSUME WarmupGap = {}, pc' = "tick" PROVE TickLedger(book')
  <2>1. pc' = "throw" \/ pc' = "tick"
    BY DEF OnTick
  <2> QED
    BY <1>1, <1>2, <1>3, <2>1 DEF LedgerInv, CandlesLedger, TicksLedger
<1>4. TickLedger(book)
  BY <1>1, <1>3 DEF LedgerInv, TicksLedger
<1>5. PICK tick \in Tick, exitSlip, entrySlip \in Int :
        \E judged : Taken(tick, judged, exitSlip, entrySlip)
  BY <1>3, TickTaken
<1>6. PICK judged : Taken(tick, judged, exitSlip, entrySlip)
  BY <1>5
<1>7. P.short \in Nat \ {0} /\ P.long \in Nat \ {0}
  BY <1>1, PeriodsOK
<1> QED
  BY <1>1, <1>4, <1>6, <1>7, TickKeepsLedger DEF Taken

\* The stream ends, or what is open at its end is closed.
LEMMA EndLedger ==
  ASSUME IInv, LedgerInv, StreamEnds \/ ForceClose
  PROVE  LedgerInv'
<1>1. CASE StreamEnds
  <2>1. /\ mode = "TICK" /\ TickBook(book) /\ pc = "tick" /\ pc' = "closing"
        /\ UNCHANGED <<mode, have, batch, at>>
    BY <1>1 DEF StreamEnds, IInv, BookInv, Typed, config
  <2>2. SameLedger(book', book)
    <3>1. CASE book.last = {}
      BY <1>1, <3>1 DEF StreamEnds, SameLedger
    <3>2. CASE book.last # {}
      <4>1. PICK slip \in Slips : book' = Settled(book, slip)
        BY <1>1, <3>2 DEF StreamEnds
      <4>2. slip \in Int
        BY RunnerAssumption
      <4> QED
        BY <2>1, <3>2, <4>1, <4>2, SettledLedger
    <3> QED
      BY <3>1, <3>2
  <2>3. WarmupGap' = WarmupGap
    BY <2>1 DEF WarmupGap, Warm, P
  <2>4. TickLedger(book) => TickLedger(book')
    BY <2>2, SameTickLedger
  <2> QED
    BY <2>1, <2>3, <2>4 DEF LedgerInv, TicksLedger, CandlesLedger
<1>2. CASE ForceClose
  <2>1. /\ pc = "closing" /\ pc' = pc /\ mode \in {"OHLC", "TICK"} /\ book \in Book
        /\ UNCHANGED <<mode, have, batch, at, candle, next>>
    BY <1>2, SoundAlways DEF ForceClose, IInv, Typed, config, Sound, Kept
  <2>2. PICK pos \in book.open :
          IF mode = "OHLC" THEN book' = ForceClosedAtClose(book, pos, Current)
          ELSE \E slip \in Slips : book' = ForceClosedAtTick(book, pos, slip)
    BY <1>2 DEF ForceClose
  <2>3. CASE mode = "OHLC"
    <3>1. PICK c \in Candle : candle = {c}
      BY <2>1, <2>3 DEF IInv, BookInv
    <3>2. Current = c
      BY <3>1 DEF Current
    <3>3. SameLedger(book', book)
      BY <2>1, <2>2, <2>3, <3>2, ForceClosedAtCloseLedger
    <3> QED
      BY <2>1, <3>3, LedgerStep
  <2>4. CASE mode = "TICK"
    <3>1. SameLedger(book', book)
      BY <2>1, <2>2, <2>4, ForceClosedAtTickLedger
    <3> QED
      BY <2>1, <3>1, LedgerStep
  <2> QED
    BY <2>1, <2>3, <2>4
<1> QED
  BY <1>1, <1>2

\* The candles.
LEMMA CandleStepsLedger ==
  ASSUME IInv, LedgerInv, TakeNextCandle \/ AskExit \/ AskEntry \/ CandlesEnd
  PROVE  LedgerInv'
<1>1. Typed /\ mode = "OHLC" /\ at \in Sets /\ CandleBook(book)
  BY DEF TakeNextCandle, AskExit, AskEntry, CandlesEnd, IInv, BookInv, Typed
<1>2. book \in Book /\ book.ledger \in Seq(Close)
  BY <1>1 DEF CandleBook, Sound, Kept, Book
<1>3. PICK c \in Candle : candle = {c}
  BY DEF TakeNextCandle, AskExit, AskEntry, CandlesEnd, IInv, BookInv
<1>4. Current = c /\ c.bucket \in Int /\ c.bucket + 1 \in Int
  BY <1>3 DEF Current, Candle
<1>5. CASE TakeNextCandle
  <2>1. /\ pc = "candle" /\ pc' = "judge" /\ mode' = "OHLC" /\ candle' = {c}
        /\ book' = TakeCandle(book, P, c)
    BY <1>1, <1>3, <1>4, <1>5 DEF TakeNextCandle, config
  <2>2. Ascending(book.ledger) /\ AllBefore(book.ledger, c.bucket)
    BY <1>1, <1>3, <2>1 DEF LedgerInv, CandlesLedger
  <2>3. Ascending(book'.ledger) /\ AllBefore(book'.ledger, c.bucket + 1)
    BY <1>1, <2>1, <2>2, PeriodsOK, TakeCandleLedger
  <2>4. PICK b \in Earliest(CandlesAhead) : \E n \in Candles(b) : next' = {n}
    BY <1>5 DEF TakeNextCandle
  <2>5. PICK n \in Candles(b) : next' = {n}
    BY <2>4
  <2>6. b \in Int /\ b > c.bucket
    BY <1>1, <1>4 DEF Earliest, CandlesAhead, Typed
  <2>7. n.bucket = b
    BY <2>6, CandlesOK
  <2>8. c.bucket < n.bucket
    BY <1>4, <2>6, <2>7
  <2> QED
    BY <2>1, <2>3, <2>5, <2>8 DEF LedgerInv, CandlesLedger, TicksLedger
<1>6. CASE AskExit
  <2>1. /\ pc' = pc /\ UNCHANGED <<mode, have, batch, at, candle, next>>
        /\ \E pos \in book.open : book' = JudgeAtNextOpen(book, P, pos, Current, Following)
    BY <1>6 DEF AskExit, config
  <2>2. SameLedger(book', book)
    BY <1>2, <2>1, JudgeAtNextOpenLedger
  <2> QED
    BY <2>1, <2>2, LedgerStep
<1>7. CASE AskEntry
  <2>1. SUFFICES ASSUME pc' = "candle" PROVE LedgerInv'
    <3>1. pc' \in {"throw", "candle"}
      BY <1>7 DEF AskEntry
    <3> QED
      BY <2>1, <3>1 DEF LedgerInv, CandlesLedger, TicksLedger
  <2>2. /\ pc = "judge" /\ mode' = "OHLC" /\ candle' = next
        /\ book' = EnterAtNextOpen(book, P, Current, Following)
    BY <1>1, <1>7, <2>1 DEF AskEntry, config
  <2>3. book'.ledger = book.ledger
    BY <1>2, <2>2, EnterAtNextOpenLedger DEF SameLedger
  <2>4. PICK n \in Candle : next = {n}
    BY <2>2 DEF IInv, BookInv
  <2>5. c.bucket < n.bucket /\ AllBefore(book.ledger, c.bucket + 1) /\ Ascending(book.ledger)
    BY <1>1, <1>3, <2>2, <2>4 DEF LedgerInv, CandlesLedger
  <2>6. n.bucket \in Int /\ c.bucket + 1 <= n.bucket
    BY <1>4, <2>5 DEF Candle
  <2>7. AllBefore(book.ledger, n.bucket)
    BY <1>2, <1>4, <2>5, <2>6, BeforeLater
  <2> QED
    BY <2>1, <2>2, <2>3, <2>4, <2>5, <2>7 DEF LedgerInv, CandlesLedger, TicksLedger
<1>8. CASE CandlesEnd
  <2>1. pc = "candle" /\ pc' = "closing" /\ UNCHANGED <<mode, book, candle>>
    BY <1>8 DEF CandlesEnd, config, engine
  <2>2. Ascending(book.ledger) /\ AllBefore(book.ledger, c.bucket)
    BY <1>1, <1>3, <2>1 DEF LedgerInv, CandlesLedger
  <2>3. c.bucket <= c.bucket + 1
    BY <1>4
  <2>4. AllBefore(book.ledger, c.bucket + 1)
    BY <1>2, <1>4, <2>2, <2>3, BeforeLater
  <2> QED
    BY <1>1, <1>3, <2>1, <2>2, <2>4 DEF LedgerInv, CandlesLedger, TicksLedger
<1> QED
  BY <1>5, <1>6, <1>7, <1>8

\* LedgerInv is inductive, beside the invariants of the books and of the cache.
LEMMA NextLedgerInv == IInv /\ CacheInv /\ LedgerInv /\ [Next]_vars => LedgerInv'
<1> SUFFICES ASSUME IInv, CacheInv, LedgerInv, [Next]_vars PROVE LedgerInv'
  OBVIOUS
<1>1. CASE Fetch
  BY <1>1, FetchLedger
<1>2. CASE OnTick
  BY <1>2, OnTickLedger
<1>3. CASE StreamEnds \/ ForceClose
  BY <1>3, EndLedger
<1>4. CASE TakeNextCandle \/ AskExit \/ AskEntry \/ CandlesEnd
  BY <1>4, CandleStepsLedger
<1>5. ASSUME pc' \notin {"tick", "candle", "judge", "closing"} PROVE LedgerInv'
  BY <1>5 DEF LedgerInv, CandlesLedger, TicksLedger
<1>6. CASE \/ CreateBatch \/ ReadFails \/ Return \/ InsertRun \/ InsertTrades \/ CommitRun
           \/ SaveFails \/ CompleteBatch \/ FailBatch \/ CloseResources \/ Crash
  <2>1. pc' \notin {"tick", "candle", "judge", "closing"}
    BY <1>6 DEF CreateBatch, ReadFails, Return, InsertRun, InsertTrades, CommitRun,
       SaveFails, CompleteBatch, FailBatch, CloseResources, Crash
  <2> QED
    BY <1>5, <2>1
<1>7. CASE UNCHANGED vars
  <2>1. SameLedger(book', book) /\ pc' = pc /\ UNCHANGED <<mode, have, batch, at, candle, next>>
    BY <1>7 DEF vars, SameLedger
  <2> QED
    BY <2>1, LedgerStep
<1> QED
  BY <1>1, <1>2, <1>3, <1>4, <1>6, <1>7 DEF Next, Program, Engine

\* No candle is in the ledger before it has closed, and the closes are in the order
\* of time: no average of TickEngine.run or OhlcEngine.run is drawn from the future.
THEOREM NothingFromTheFuture == Spec => []LedgerInOrder
<1>1. Init => CacheInv /\ LedgerInv
  BY DEF Init, CacheInv, Running, LedgerInv, CandlesLedger, TicksLedger
<1>2. ASSUME IInv, LedgerInv PROVE LedgerInOrder
  <2>1. SUFFICES ASSUME InEngine, mode = "OHLC" \/ WarmupGap = {}
        PROVE  /\ Ascending(book.ledger)
               /\ \A i \in DOMAIN book.ledger : CloseTime(book.ledger[i].bucket) <= Reached
    BY DEF LedgerInOrder, Ascending
  <2>2. book.ledger \in Seq(Close) /\ book.last \subseteq Tick
    BY <1>2, SoundAlways DEF Sound, Kept, Book
  <2>3. \A i \in DOMAIN book.ledger : book.ledger[i].bucket \in Int
    <3>1. \A i \in DOMAIN book.ledger : book.ledger[i] \in Close
      BY <2>2
    <3> QED
      BY <3>1 DEF Close
\* What is before bucket k has closed when k begins.
  <2>4. ASSUME NEW k \in Int, AllBefore(book.ledger, k), NEW i \in DOMAIN book.ledger
        PROVE  /\ CloseTime(book.ledger[i].bucket) \in Int /\ Slots * k \in Int
               /\ CloseTime(book.ledger[i].bucket) <= Slots * k
    <3> DEFINE x == book.ledger[i].bucket + 1
    <3>1. x \in Int /\ x <= k
      BY <2>3, <2>4 DEF AllBefore
    <3>2. CloseTime(book.ledger[i].bucket) = Slots * x
      BY DEF CloseTime
    <3> HIDE DEF x
    <3> QED
      BY <2>4, <3>1, <3>2, SlotsMonotone
  <2>5. CASE mode = "OHLC"
    <3>1. pc \in {"candle", "judge", "closing"}
      BY <1>2, <2>1, <2>5 DEF InEngine, IInv, Typed
    <3>2. PICK c \in Candle : candle = {c}
      BY <1>2, <2>5, <3>1 DEF IInv, BookInv
    <3>3. Current = c /\ Reached = CloseTime(c.bucket) /\ c.bucket \in Int
      BY <2>5, <3>2 DEF Current, Reached, Candle
    <3>4. Ascending(book.ledger)
      BY <1>2, <2>5, <3>1 DEF LedgerInv, CandlesLedger
    <3>5. AllBefore(book.ledger, c.bucket + 1)
      <4>1. CASE pc = "candle"
        <5>1. AllBefore(book.ledger, c.bucket) /\ c.bucket <= c.bucket + 1
          BY <1>2, <2>5, <3>2, <3>3, <4>1 DEF LedgerInv, CandlesLedger
        <5> QED
          BY <2>2, <3>3, <5>1, BeforeLater
      <4>2. CASE pc # "candle"
        BY <1>2, <2>5, <3>1, <3>2, <4>2 DEF LedgerInv, CandlesLedger
      <4> QED
        BY <4>1, <4>2
    <3>6. c.bucket + 1 \in Int /\ CloseTime(c.bucket) = Slots * (c.bucket + 1)
      BY <3>3 DEF CloseTime
    <3> QED
      BY <2>4, <3>3, <3>4, <3>5, <3>6
  <2>6. CASE mode = "TICK"
    <3>1. pc \in {"tick", "closing"} /\ TickLedger(book) /\ TickBook(book)
      BY <1>2, <2>1, <2>6 DEF InEngine, IInv, BookInv, Typed, LedgerInv, TicksLedger
    <3>2. Ascending(book.ledger)
      BY <3>1 DEF TickLedger
    <3>3. CASE book.last = {}
      <4>1. AllBefore(book.ledger, From) /\ From \in Int /\ Reached = Slots * From
        BY <2>6, <3>1, <3>3, RunnerAssumption DEF TickLedger, Reached
      <4> QED
        BY <2>4, <3>2, <4>1
    <3>4. CASE book.last # {}
      <4>1. PICK t \in book.last : book.last = {t}
        BY <3>1, <3>4 DEF TickBook
      <4>2. t.at \in Int /\ Reached = t.at
        BY <2>2, <2>6, <4>1 DEF Tick, Reached
      <4>3. AllBefore(book.ledger, Bucket(t.at))
        BY <3>1, <4>1 DEF TickLedger
      <4>4. Bucket(t.at) \in Int /\ Slots * Bucket(t.at) <= t.at
        <5>1. t.at <= t.at
          BY <4>2
        <5> QED
          BY <4>2, <5>1, BucketMonotone
      <4> DEFINE k == Bucket(t.at)
      <4> HIDE DEF k
      <4>5. \A i \in DOMAIN book.ledger :
              /\ CloseTime(book.ledger[i].bucket) \in Int /\ Slots * k \in Int
              /\ CloseTime(book.ledger[i].bucket) <= Slots * k
        BY <2>4, <4>3, <4>4 DEF k
      <4>6. Slots * k <= t.at
        BY <4>4 DEF k
      <4> QED
        BY <3>2, <4>2, <4>5, <4>6
    <3> QED
      BY <3>3, <3>4
  <2> QED
    BY <1>2, <2>5, <2>6 DEF IInv, Typed
<1> QED
  BY <1>1, <1>2, NextLedgerInv, NextCacheInv, InitIInv, NextIInv, PTL DEF Spec
=============================================================================
