SPECIFICATION Spec
CONSTANTS
  None = None
  Absent = Absent
  Empty = Empty
  Torn = Torn
  Null = Null
  NoNumber = NoNumber
  good = good
  better = better
  wrong = wrong
  low = low
  high = high
  w1 = w1
  w2 = w2
  x1 = x1
  x2 = x2
  x3 = x3
  x4 = x4
  net1 = net1
  net2 = net2
  Writers = {w1}
  Bases = {good, better, wrong}
  ValidBases = {good, better}
  DefaultBase = good
  Network <- Ports
  Thresholds = {low, high}
  Cells = {x1, x2, x3, x4}
  CurrentVersion = 1
  Puts <- BadPuts
  Forms = {}
  FirstFile <- NewFile
  MaxCrashes = 0
PROPERTY
  LiveIsNotMutated
