SPECIFICATION Spec
CONSTANTS
  MaxCommands = 1
  Ttl = 1
  Strategies = {sma}
  Signals = {term}
INVARIANT NoEntryLostAtExit
CHECK_DEADLOCK FALSE
