SPECIFICATION FairSpec
CONSTANTS
  k1 = k1
  k2 = k2
  k3 = k3
  Nobody = Nobody
  Configs = {k1, k2, k3}
  Scenarios <- AllScenarios
INVARIANTS
  TypeOK
  LogsAreAllOrNothing
  TwoMatchesFail
PROPERTIES
  StrayRequestIsAlone
  StageEnds
CHECK_DEADLOCK FALSE
