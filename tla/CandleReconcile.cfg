\* Periods of two steps, two of them a day; the program starts in the third.
SPECIFICATION Spec
CONSTANTS
  Duration = 2
  Offset = 1
  Bars = 3
  Required = 2
  PeriodsPerDay = 2
  Delay = 1
  StartTime = 5
  MaxTime = 11
INVARIANTS SmaAscending SmaFollowsCandle FormingSmaInStep WatchdogAlive
PROPERTY StaysStable
CHECK_DEADLOCK FALSE
