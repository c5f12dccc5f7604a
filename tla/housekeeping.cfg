SPECIFICATION FairSpec
CONSTANTS
  c1 = c1
  c2 = c2
  k1 = k1
  k2 = k2
  d1 = d1
  p1 = p1
  p2 = p2
  Sites <- ThreeSites
  Calls = {c1, c2}
  Campaigns = {k1, k2}
  CampaignOf <- OneEach
  Rollers = {p1, p2}
  Window = 1
  MaxTime = 2
  MaxFailures = 1
  Devices = {d1}
  Watchers = {p1, p2}
  Threshold = 1
  NoHash = NoHash
  Never = Never
  Asleep = Asleep
INVARIANTS
  TypeOK
  HashesTellTheirWindow
PROPERTIES
  RollupConverges
  OnlySilentGoOffline
  SilentGoesOffline
CHECK_DEADLOCK FALSE
