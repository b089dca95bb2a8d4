SPECIFICATION Spec
CONSTANTS
  u = u
  v = v
  NbOfVariables = 1
  PageElements = 2
  Values <- MCValues
  NoData = NoData
  Erased = Erased
  Corrupt = Corrupt
  EccOnCut = FALSE
  MaxCuts = 2
  MaxOffs = 0
  MaxFaults = 0
PROPERTY NothingLost
CHECK_DEADLOCK FALSE
