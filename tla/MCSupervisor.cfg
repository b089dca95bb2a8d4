SPECIFICATION FairSpec
CONSTANTS
  MaxVars = 2
  Values <- MCValues
  Periods <- MCPeriods
  Initial = 1
  Reload = 2
  MaxNoMem = 1
INVARIANT TypeOK
INVARIANT BlockAccess
PROPERTY DeadlineEarned
PROPERTY SilentIsReset
