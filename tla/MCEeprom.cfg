SPECIFICATION Spec
CONSTANTS
  u = u
  v = v
  NbOfVariables = 2
  PageElements = 1
  Values <- MCValues
  NoData = NoData
  Erased = Erased
  Corrupt = Corrupt
  EccOnCut = TRUE
  MaxCuts = 1
  MaxOffs = 1
  MaxFaults = 0
SYMMETRY Symmetry
INVARIANT TypeOK
INVARIANT ProgramsErasedLines
INVARIANT NoForcedCleanUp
PROPERTY StoreSpec
CHECK_DEADLOCK FALSE
