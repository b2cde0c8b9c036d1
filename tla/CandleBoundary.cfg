\* The answer of GMO meets ticks that arrive without delay. Periods of two steps, two of them a day; the program starts in the third.
SPECIFICATION Spec
CONSTANTS
  Duration = 2
  Offset = 1
  Bars = 3
  Required = 2
  PeriodsPerDay = 2
  Delay = 0
  StartTime = 5
  MaxTime = 11
INVARIANT ConfirmedBeforeForming
CHECK_DEADLOCK FALSE
