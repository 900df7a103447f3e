SPECIFICATION RulesSpec
CONSTANTS
  None = None
  NoURL = NoURL
  u1 = u1
  URLs = {u1}
  Second = 1
  DurationLimit = 100
  Settings <- AllSettings
  Inputs <- AllInputs
  Clocks = {0, 2, 3}
INVARIANT
  PageAgreesWithVerdict
PROPERTY
  NeverSaferWhenWorse
