SPECIFICATION FairSpec
CONSTANTS
  None = None
  NoURL = NoURL
  u1 = u1
  c1 = c1
  c2 = c2
  loop = loop
  URLs = {u1}
  Second = 1
  DurationLimit = 100
  Clients = {c1, c2}
  Loop = loop
  Configs <- OneConfig
  InitConfig <- Auto
  StoredThresholds = {}
  Device <- OneReading
  FetchTimeout = 1
  MaxPoll = 1
  MaxStale = 2
  ClockSteps <- Forward
  MaxAhead = 1
  MaxBehind = 0
  MaxTime = 1
PROPERTIES
  PublishInOrder
  RefreshReturns
  LoopStops
