\* Times in units of 3 seconds; the limits are scaled down, their order is kept.
SPECIFICATION FairSpec
CONSTANTS
  BoardId = 1
  Lists <- MCLists
  Packets = 2
  MaxRetransfers = 2
  RetryLimit = 1
  HostTimeout = 3
  EndTimeout = 5
  BoardTimeout = 1
  MaxSwallow = 1
  MaxFaults = 3
INVARIANT TypeOK
INVARIANT BoardGivesUpFirst
PROPERTY FinishedIsInstalled
PROPERTY RepairsPackets
PROPERTY ListEnds
CHECK_DEADLOCK FALSE
