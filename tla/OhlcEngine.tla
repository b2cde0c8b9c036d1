----------------------------- MODULE OhlcEngine -----------------------------
(***************************************************************************)
(* OhlcEngine.run: what one candle does to the book.  A candle is          *)
(* [bucket, open, high, low, close]; orders are filled at the open of the  *)
(* next one, exactly (IdealExecutionSimulator).                            *)
(***************************************************************************)
EXTENDS BacktestBook

\* makeTick: the close is the bid, the ask is one pip above it.
ShownAfter(b, candle) ==
  Snapshot(b, candle.close, candle.close + 1, CloseTime(candle.bucket))

\* ExtremeTracker.updateOhlc.
TrackCandle(b, candle) ==
  [b EXCEPT !.open = {[pos EXCEPT !.seen = Stretched(@, candle.high, candle.low)] : pos \in @}]

\* The candle enters the ledger and the extremes before any rule is asked.
TakeCandle(b, p, candle) ==
  TrackCandle([AddCandle(b, p, [bucket |-> candle.bucket, close |-> candle.close])
                 EXCEPT !.rate = candle.close], candle)

\* The exit rules answer for one position.
JudgeAtNextOpen(b, p, pos, candle, next) ==
  LET s == ShownAfter(b, candle)
      type == ExitType(p, pos, s, pos.peak)
  IN  IF type # "none"
      THEN Closed(b, pos, next.open, Slots * next.bucket, type)
      ELSE [b EXCEPT !.open = (@ \ {pos}) \cup {[pos EXCEPT !.peak = PeakAfter(p, pos, s, @)]}]

\* With no position left the entry rule is asked: the candle that closed one may
\* open the next.
EnterAtNextOpen(b, p, candle, next) ==
  LET s == ShownAfter(b, candle) IN
  IF b.open = {} /\ EntrySide(p, s) # "none"
  THEN Opened(b, [side |-> EntrySide(p, s), lot |-> Lot(b)], next.open, Slots * next.bucket)
  ELSE b

CandleThrows(b, p, candle) == b.open = {} /\ LotRefused(b, p, ShownAfter(b, candle))

\* A position still open is closed at the close of the last candle.
ForceClosedAtClose(b, pos, candle) ==
  LET tracked == [pos EXCEPT !.seen = Stretched(@, candle.high, candle.low)] IN
  Closed([b EXCEPT !.open = (@ \ {pos}) \cup {tracked}], tracked,
         candle.close, CloseTime(candle.bucket), "FORCE_CLOSE")
=============================================================================
