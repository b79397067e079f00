SPECIFICATION Spec
CONSTANTS
  r1 = r1
  r2 = r2
  Rules = {r1, r2}
  Schedules <- Limited
  Dest <- OneDM
  Gap = 2
  Cycle = 8
  Irregular <- Limited
  MaxLate = 0
  MaxMissed = 1
  MaxTime = 12
  Horizon = 48
INVARIANTS PlannedTimesKeepApart
CHECK_DEADLOCK FALSE
