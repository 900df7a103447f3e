SPECIFICATION MonitorSpec
CONSTANTS
  None = None
  NoURL = NoURL
  u1 = u1
  u2 = u2
  c1 = c1
  c2 = c2
  loop = loop
  URLs = {u1}
  Second = 1
  DurationLimit = 100
  Clients = {c1, c2}
  Loop = loop
  Configs <- TwoConfigs
  InitConfig <- Auto
  StoredThresholds = {}
  Device <- NoAnswer
  FetchTimeout = 1
  MaxPoll = 1
  MaxStale = 1
  ClockSteps <- NoStep
  MaxAhead = 0
  MaxBehind = 0
  MaxTime = 1
  Operations = {"refresh", "ocrefresh"}
INVARIANTS
  MonitorTypeOK
  RefreshShowsNewPoll
  RefreshIsConsistent
SYMMETRY
  AnyClient
CONSTRAINT
  Connected
