CONSTANTS
  Key = {k1, k2}
  MinInterval = 2
  MaxTime = 4
  CheckInterval = 2
  MaxLate = 1
  MaxClock = 14
  Passed = {2, 9}
  DayLength = 4
  RunTime = 1
  MaxForeign = 2
  Instant = {3, 4, 8, 13, 30}

SPECIFICATION PartSpec

INVARIANTS
  RateBound
  WithinOneWindow
  EmitsOnce
  NoneMissed

CHECK_DEADLOCK FALSE
