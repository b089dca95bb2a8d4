SPECIFICATION FairSpec
CONSTANTS
  a = a
  b = b
  Blank = Blank
  Torn = Torn
  NoData = NoData
  NoFrame = NoFrame
  OtherFrame = OtherFrame
  Data <- MCData
  Images <- MCAllImages
  MaxPages = 2
  RetryLimit = 1
  MaxFaults = 2
  MaxCuts = 1
  MaxFrames = 2
PROPERTY RecoverableBoots
PROPERTY MailboxDrains
