SPECIFICATION FairSpec

CONSTANTS
  Bits = {1, 2}
  MaxPages = 2
  Programs <- MCPrograms
  None = None
  RetryLimit = 3
  MaxFlashFaults = 1
  MaxUnnoticed = 1
  MaxLineFaults = 2

INVARIANT TypeOK
INVARIANT QuadEnabled
INVARIANT CopiesRecordedProgram
INVARIANT NoMixture
INVARIANT GoesWithProgram
INVARIANT SpiRole
PROPERTY ReturnsToLoop
