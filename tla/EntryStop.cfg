SPECIFICATION FairSpec
CONSTANTS
  MaxCommands = 2
  Ttl = 1
  Strategies = {sma, other}
  Signals = {int, term}
INVARIANTS StopIsFinal HeldIsKnown
PROPERTIES CommandsSettle StopEnds
CHECK_DEADLOCK FALSE
