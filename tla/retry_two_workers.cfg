SPECIFICATION Spec
CONSTANTS
  r1 = r1
  r2 = r2
  r3 = r3
  w1 = w1
  w2 = w2
  Logs = {r1, r2}
  Workers = {w1, w2}
  MaxAttempts = 3
  Intervals <- Backoff
  BatchSize = 2
  Orphans = {r2}
  Poison = {}
  MaxAborts = 1
  MaxRaises = 1
  NoTime = NoTime
SYMMETRY Symmetry
INVARIANTS
  TypeOK
  AttemptsWithinPolicy
  PendingIsScheduled
PROPERTIES
  ResolvedStaysResolved
CHECK_DEADLOCK FALSE
