SPECIFICATION SafeSpec
CONSTANTS
  Positions = {1, 2}
  SyncRuns = {1}
  StartupSync = 1
  MaxEnds = 0
  EmergencyUsed = TRUE
  FailureThreshold = 2
  CooldownTicks = 2
INVARIANT
  ConfirmedNeverResent
