\* Two positions, one process lifetime, emergency close allowed: every
\* interleaving of dispatcher, queue, one synchronisation and emergency close.
SPECIFICATION SafeSpec
CONSTANTS
  Positions = {1, 2}
  SyncRuns = {1}
  StartupSync = 1
  MaxEnds = 0
  EmergencyUsed = TRUE
  FailureThreshold = 2
  CooldownTicks = 2
INVARIANTS
  NoPhantomClose
  ConfirmedExitKept
  NoDegradedEntry
  ShieldedNeverCounts
  KillSwitchExact
  EmergencyReportTrue
PROPERTY
  ClosedRowsFinal
