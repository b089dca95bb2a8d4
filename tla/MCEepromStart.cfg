SPECIFICATION FairSpec
CONSTANTS
  u = u
  v = v
  NbOfVariables = 1
  PageElements = 2
  Values <- MCValues
  NoData = NoData
  Erased = Erased
  Corrupt = Corrupt
  EccOnCut = FALSE
  MaxCuts = 1
  MaxOffs = 1
  MaxFaults = 1
PROPERTY StoreSpec
PROPERTY StartsUp
CHECK_DEADLOCK FALSE
