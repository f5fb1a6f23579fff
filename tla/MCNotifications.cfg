CONSTANTS
  x1 = x1
  x2 = x2
  w1 = w1
  w2 = w2
  Workers = {w1, w2}
  Idle = Idle
  MaxTime = 1
  MaxFaults = 1
  Subs = {x1, x2}
  Period = 1
  DaysBefore = 1
  RecoveryWindow = 0
  Settled = {x2}
  Reachable = {x1}
  Nobody = Nobody
SPECIFICATION FairSpec
INVARIANTS
  EveryMailIsAccounted
PROPERTIES
  DueNoticesGoOut
CHECK_DEADLOCK FALSE
