CONSTANTS
  Slots = {1, 6}
  Attempts = {"r1", "r2"}
  Grace = 2
  MaxCycles = 3
  MaxTime = 7
SPECIFICATION SteadySpec
PROPERTY CursorReachesNow
CHECK_DEADLOCK FALSE
