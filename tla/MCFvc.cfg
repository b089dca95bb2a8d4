SPECIFICATION Spec
CONSTANTS
  a = a
  b = b
  Blank = Blank
  Torn = Torn
  NoData = NoData
  NoFrame = NoFrame
  OtherFrame = OtherFrame
  Data <- MCData
  Images <- MCImages
  MaxPages = 2
  RetryLimit = 1
  MaxFaults = 2
  MaxCuts = 1
  MaxFrames = 2
INVARIANT TypeOK
INVARIANT RunsWholeImage
PROPERTY FinishedMeansInstalled
PROPERTY KeepsRecordedProgram
PROPERTY RestoreInstallsBackup
