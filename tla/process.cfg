SPECIFICATION FairSpec
CONSTANTS
  c1 = c1
  m1 = m1
  p1 = p1
  p2 = p2
  Calls = {c1}
  Malformed = {m1}
  Workers = {p1, p2}
  Processes = {p1, p2}
  Loops <- TwoLoops
  MaxPushes = 2
  MaxStops = 3
  NoTask = NoTask
INVARIANTS
  TypeOK
  NoLoopOutlivesItsClients
  TasksAccounted
  RecordsAgree
PROPERTIES
  ShutdownCompletes
  QueueDrains
CHECK_DEADLOCK FALSE
