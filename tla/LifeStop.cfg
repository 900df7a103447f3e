SPECIFICATION LifeSpec
CONSTANTS
  None = None
  NoURL = NoURL
  u1 = u1
  c1 = c1
  c2 = c2
  loop = loop
  URLs = {u1}
  Second = 1
  DurationLimit = 100
  Clients = {c1, c2}
  Loop = loop
  Configs <- OneConfig
  InitConfig <- Auto
  StoredThresholds = {16}
  Device <- NoAnswer
  FetchTimeout = 2
  MaxPoll = 1
  MaxStale = 1
  ClockSteps <- NoStep
  MaxAhead = 0
  MaxBehind = 0
  MaxTime = 3
  ShutdownTimeout = 1
  StopTimeout = 2
  MaxProbes = 1
INVARIANTS
  LifeTypeOK
  RestartExitsWithOne
  CleanExitIsQuiet
  UndisturbedStopIsClean
  DiscoveryStatusIsTrue
CONSTRAINT
  Connected
SYMMETRY
  AnyClient
CHECK_DEADLOCK
  FALSE
