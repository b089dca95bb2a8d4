SPECIFICATION Spec
CONSTANTS
  MaxVars = 2
  Values <- MCValues
  Periods <- MCPeriods
  Initial = 1
  Reload = 2
  MaxNoMem = 1
PROPERTY FreedOnce
