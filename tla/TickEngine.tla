----------------------------- MODULE TickEngine -----------------------------
(***************************************************************************)
(* TickEngine.run, from the first tick on: what one tick does to the book  *)
(* and how the run is settled when the stream ends.  A tick is             *)
(* [bid, ask, at]; slips are what SlippageModel adds against the order.    *)
(***************************************************************************)
EXTENDS BacktestBook

\* selectPrice with the slippage of the side: up for a BUY, down for a SELL,
\* never below one pip.
SlippedPrice(tick, side, slip) ==
  IF side = "BUY" THEN tick.ask + slip
  ELSE IF tick.bid - slip < 1 THEN 1 ELSE tick.bid - slip

-----------------------------------------------------------------------------
(* The stages of one tick, in the order of the loop.                       *)

\* CandleAccumulator confirms the candle it is building when the tick is of
\* another bucket.
Confirmed(b, tick) == {c \in b.forming : c.bucket # Bucket(tick.at)}

Accumulated(b, tick) ==
  [b EXCEPT !.rate = tick.bid, !.last = {tick},
            !.forming = {[bucket |-> Bucket(tick.at), close |-> tick.bid]}]

ShownAt(b, tick) == Snapshot(b, tick.bid, tick.ask, tick.at)

\* The positions the exit rules want closed.
Asked(b, p, s) == {pos \in b.open : ExitType(p, pos, s, pos.peak) # "none"}

\* acceptExitOrder throws on a second order.
ExitRefused(b, p, s) ==
  \/ Asked(b, p, s) # {} /\ b.pendingExit # {}
  \/ \E x, y \in Asked(b, p, s) : x # y

JudgeExits(b, p, s, due) ==
  [b EXCEPT
     !.pendingExit = @ \cup {[id |-> pos.id, type |-> ExitType(p, pos, s, pos.peak),
                              due |-> due] : pos \in Asked(b, p, s)},
     !.open = {[pos EXCEPT !.peak = PeakAfter(p, pos, s, @)] : pos \in @}]

HasAnyPending(b) == b.pendingEntry # {} \/ b.pendingExit # {}

(* A plausible slip: only the orders that wait are looked at. *)
MayEnterUnlessPending(b) == ~HasAnyPending(b)

MayEnter(b) == b.open = {} /\ ~HasAnyPending(b)

JudgeEntry(b, p, s, due) ==
  IF MayEnter(b) /\ EntrySide(p, s) # "none"
  THEN [b EXCEPT !.pendingEntry = {[side |-> EntrySide(p, s), lot |-> Lot(b), due |-> due]}]
  ELSE b

\* checkEntryFill and checkExitFill: the orders whose time has come.
Due(orders, tick) == {o \in orders : o.due <= tick.at}

\* The position of the order is closed, at the price of the other side.
FillExit(b, tick, slip) ==
  IF Due(b.pendingExit, tick) # {}
  THEN LET order == CHOOSE o \in Due(b.pendingExit, tick) : TRUE
           pos == CHOOSE q \in b.open : q.id = order.id
       IN  Closed([b EXCEPT !.pendingExit = {}], pos,
                  SlippedPrice(tick, Opposite(pos.side), slip), tick.at, order.type)
  ELSE b

FillEntry(b, tick, slip) ==
  IF Due(b.pendingEntry, tick) # {}
  THEN LET order == CHOOSE o \in Due(b.pendingEntry, tick) : TRUE
       IN  Opened([b EXCEPT !.pendingEntry = {}], order,
                  SlippedPrice(tick, order.side, slip), tick.at)
  ELSE b

\* ExtremeTracker.update: the price the position would close at.
TrackTick(b, tick) ==
  [b EXCEPT !.open =
     {[pos EXCEPT !.seen = Stretched(@, ExitQuote(tick, pos.side), ExitQuote(tick, pos.side))] :
        pos \in @}]

-----------------------------------------------------------------------------
(* One tick.                                                               *)

\* The book when the rules are asked: the confirmed candle is in the ledger.
Shown(b, p, tick) ==
  IF Confirmed(b, tick) = {} THEN Accumulated(b, tick)
  ELSE AddCandle(Accumulated(b, tick), p, CHOOSE c \in Confirmed(b, tick) : TRUE)

Judged(b, p, tick, due) ==
  LET s == ShownAt(b, tick) IN JudgeEntry(JudgeExits(b, p, s, due), p, s, due)

\* Asking the rules may end the run.
RulesThrow(b, p, tick, due) ==
  LET s == ShownAt(b, tick) IN
  \/ ExitRefused(b, p, s)
  \/ MayEnter(JudgeExits(b, p, s, due)) /\ LotRefused(b, p, s)

-----------------------------------------------------------------------------
(* The end of the stream.                                                  *)

\* settleAtStreamEnd: an entry that waits is dropped, an exit is filled at the
\* last tick whatever its time.
Settled(b, slip) ==
  LET tick == CHOOSE t \in b.last : TRUE
      pending == {[o EXCEPT !.due = tick.at] : o \in b.pendingExit}
  IN  FillExit([b EXCEPT !.pendingEntry = {}, !.pendingExit = pending], tick, slip)

\* A position still open is closed at the last tick.
ForceClosedAtTick(b, pos, slip) ==
  LET tick == CHOOSE t \in b.last : TRUE IN
  Closed(b, pos, SlippedPrice(tick, Opposite(pos.side), slip), tick.at, "FORCE_CLOSE")
=============================================================================
