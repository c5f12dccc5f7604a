SPECIFICATION FairSpec
CONSTANTS
  r1 = r1
  r2 = r2
  r3 = r3
  w1 = w1
  w2 = w2
  Logs = {r1, r2, r3}
  Workers = {w1}
  MaxAttempts = 3
  Intervals <- Backoff
  BatchSize = 2
  Orphans = {r3}
  Poison = {r1}
  MaxAborts = 1
  MaxRaises = 1
  NoTime = NoTime
INVARIANTS
  SendsAccounted
PROPERTIES
  PendingResolves
CHECK_DEADLOCK FALSE
