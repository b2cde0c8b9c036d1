\* Ages are in units of five seconds.  Two sockets, so that an old and a new one
\* could live together; two strategies share lots of 1 and 5.
SPECIFICATION SessionSpec
CONSTANTS
  Sockets = {1, 2}
  Silence = 1
  MaxLevel = 1
  MaxRetries = 2
  MaxAge = 1
  BalanceTtl = 1
  RequestTimeout = 1
  MaxDelay = 2
  LotStep = 1
  MinLot = 1
  MaxLot = 6
  MarginNum = 1
  MarginDen = 1
  Scale = 100
  Strategies = 2
  Balances = {1, 5}
  Rates = {1, 2}
INVARIANTS OneChain StaysDown PendingIsNews MarginKept
PROPERTIES DeadLinkNoticed Recovers SizedOnFreshData NewestProcessed StartupEnds
CHECK_DEADLOCK FALSE
