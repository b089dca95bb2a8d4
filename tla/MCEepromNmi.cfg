SPECIFICATION FairSpec
CONSTANTS
  u = u
  v = v
  NbOfVariables = 1
  PageElements = 2
  Values <- MCValues
  NoData = NoData
  Erased = Erased
  Corrupt = Corrupt
  EccOnCut = TRUE
  MaxCuts = 1
  MaxOffs = 0
  MaxFaults = 0
PROPERTY PowerOnStarts
CHECK_DEADLOCK FALSE
