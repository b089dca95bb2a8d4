SPECIFICATION Spec
CONSTANTS
  BoardId = 1
  Programs <- MCPrograms
  MaxData = 4
  Page = 2
  CliLen = 16
  Bursts <- MCBursts
  MaxHits = 1
INVARIANT TypeOK
INVARIANT FramesAgree
INVARIANT DamageIsRefused
INVARIANT FlashHoldsProgram
INVARIANT DataIsRepaired
CHECK_DEADLOCK FALSE
