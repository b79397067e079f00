SPECIFICATION Spec
CONSTANTS
  r1 = r1
  r2 = r2
  Rules = {r1, r2}
  Schedules <- Mixed
  Dest <- OneDM
  Gap = 2
  Cycle = 8
  Irregular <- Unlimited
  MaxLate = 2
  MaxMissed = 1
  MaxTime = 10
  Horizon = 48
INVARIANTS TypeOK PlannedTimesKeepApart RefusalsHaveAReason
CHECK_DEADLOCK FALSE
