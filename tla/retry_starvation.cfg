SPECIFICATION FairSpec
CONSTANTS
  r1 = r1
  r2 = r2
  r3 = r3
  w1 = w1
  w2 = w2
  Logs = {r1, r2}
  Workers = {w1}
  MaxAttempts = 3
  Intervals <- Backoff
  BatchSize = 1
  Orphans = {}
  Poison = {r1}
  MaxAborts = 0
  MaxRaises = 0
  NoTime = NoTime
PROPERTIES
  PendingResolves
CHECK_DEADLOCK FALSE
