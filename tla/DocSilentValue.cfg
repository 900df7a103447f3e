SPECIFICATION MonitorSpec
CONSTANTS
  None = None
  NoURL = NoURL
  u1 = u1
  u2 = u2
  c1 = c1
  c2 = c2
  loop = loop
  URLs = {u1}
  Second = 1
  DurationLimit = 100
  Clients = {c1}
  Loop = loop
  Configs <- OverrideConfigs
  InitConfig <- Auto
  StoredThresholds = {}
  Device <- OneReading
  FetchTimeout = 1
  MaxPoll = 1
  MaxStale = 1
  ClockSteps <- NoStep
  MaxAhead = 0
  MaxBehind = 0
  MaxTime = 1
  Operations = {"temperature"}
INVARIANTS
  NoSilentlyWrongValue
