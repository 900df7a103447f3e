SPECIFICATION Spec
CONSTANTS
  None = None
  NoURL = NoURL
  u1 = u1
  c1 = c1
  c2 = c2
  loop = loop
  URLs = {u1}
  Second = 1
  DurationLimit = 100
  Clients = {c1}
  Loop = loop
  Configs <- TwoIntervals
  InitConfig <- Early
  StoredThresholds = {16}
  Device <- OneReading
  FetchTimeout = 1
  MaxPoll = 2
  MaxStale = 2
  ClockSteps <- Back
  MaxAhead = 0
  MaxBehind = 1
  MaxTime = 8
INVARIANTS
  TypeOK
  ConfigAdopted
  PollsKeepComing
  VerdictFresh
  Clockwork
CONSTRAINTS
  Connected
  Running
