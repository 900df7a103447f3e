SPECIFICATION MonitorSpec
CONSTANTS
  None = None
  NoURL = NoURL
  u1 = u1
  u2 = u2
  c1 = c1
  c2 = c2
  loop = loop
  URLs = {u1, u2}
  Second = 1
  DurationLimit = 100
  Clients = {c1}
  Loop = loop
  Configs <- UrlConfigs
  InitConfig <- Auto
  StoredThresholds = {16, 22}
  Device <- FewReadings
  FetchTimeout = 1
  MaxPoll = 1
  MaxStale = 1
  ClockSteps <- Forward
  MaxAhead = 1
  MaxBehind = 0
  MaxTime = 0
  Operations = {"issafe", "temperature", "pressure", "ocrefresh",
                "dashboard"}
INVARIANTS
  SensorValueIsReal
  DashboardAgrees
  SafeAnswerIsBacked
  SafeIsJustified
  CleanVerdictIsCurrent
  PollOrder
PROPERTY
  KeepsPromise
CONSTRAINT
  Running
