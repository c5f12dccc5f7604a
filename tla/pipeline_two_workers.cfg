SPECIFICATION Spec
CONSTANTS
  c1 = c1
  c2 = c2
  c3 = c3
  c4 = c4
  l1 = l1
  l2 = l2
  w1 = w1
  w2 = w2
  Leads = {l1, l2}
  Calls = {c1, c2, c3}
  Workers = {w1, w2}
  Endings <- AllEndings
  CallbackOn <- OnAchieved
  MaxDuplicates = 0
  RetryMaxCount = 2
  RetryIntervals <- Intervals
  FollowUpMaxCount = 2
  FollowUpIntervalDays = 3
  NoTime = NoTime
  SeedTime = SeedTime
  NoSummary = NoSummary
  NoCause = NoCause
  NoCall = NoCall
  NoLead = NoLead
  NoEnding = NoEnding
SYMMETRY Symmetry
INVARIANTS
  CallOwnsItsLead
  NoUnwantedRedial
  StatusExplainedByLastCall
  SummaryTellsTheTranscript
CHECK_DEADLOCK FALSE
