\* Two positions in one process; or one, where the process may end once at any
\* await and is restarted, with an emergency close and two synchronisations.
SPECIFICATION SceneSpec
CONSTANTS
  Positions = {1, 2}
  Spare = {2}
  SyncRuns = {1, 2}
  StartupSync = 1
  MaxEnds = 2
  EmergencyUsed = TRUE
  FailureThreshold = 2
  CooldownTicks = 1
PROPERTIES
  KeepsPromise
  DispatchTerminates
  QueueDrains
  EmergencyGuardReleased
ACTION_CONSTRAINT
  WithinScene
