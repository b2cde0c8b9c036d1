SPECIFICATION Spec
CONSTANTS
  LotStep = 1
  MinLot = 1
  MaxLot = 2
  MarginNum = 1
  MarginDen = 1
  Slots = 2
  Initial = 3
  Batches <- MCBatches
  Histories <- MCHistories
  From = 4
  To = 7
  Prices = {2, 4}
  Wicks = {1}
  Gaps = {1}
  Slips = {0, 1}
  Delays = {0, 1}
  Modes = {"OHLC", "TICK"}
  ChunkRows = 1
CHECK_DEADLOCK FALSE
INVARIANTS
  TradesNeverOverlap
  EquityChain
  EachEntrySettledOnce
  ResultMeasured
  CacheTransparent
  LedgerInOrder
  BatchTellsTruth
PROPERTIES
  BatchEnds
