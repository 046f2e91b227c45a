SPECIFICATION Spec
CONSTANTS
  QueueSize = 2
  MaxRun = 2
  MaxFrame = 5
  DropPeriod = 1
  MaxSpill = 1
  SleepCoversFrame = TRUE
INVARIANTS
  TypeOK
  NoWriteUnderRead
  BlockStaysAvailable
  OnlyWholeFrames
PROPERTIES
  DeliversFrameStream
