SPECIFICATION Spec
CONSTANTS
  MaxCommands = 2
  Ttl = 1
  Strategies = {sma}
  Signals = {}
INVARIANT OneOpenPerStrategy
CHECK_DEADLOCK FALSE
