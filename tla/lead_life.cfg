SPECIFICATION Spec
CONSTANTS
  l1 = l1
  l2 = l2
  Leads = {l1, l2}
  RetryMaxCount = 4
  RetryIntervals <- Intervals
  FollowUpMaxCount = 2
  FollowUpIntervalDays = 3
  NoTime = NoTime
  SeedTime = SeedTime
  NoSummary = NoSummary
  NoCause = NoCause
SYMMETRY Symmetry
INVARIANTS
  TypeOK
  CounterLimits
  DialsAccounted
  DialBound
  WaitsForTheRightTime
  DecisionMatrix
CHECK_DEADLOCK FALSE
