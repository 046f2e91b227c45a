SPECIFICATION FairSpec
CONSTANTS
  QueueSize = 2
  MaxRun = 1
  MaxFrame = 3
  DropPeriod = 2
  MaxSpill = 1
  SleepCoversFrame = TRUE
PROPERTIES
  FullRingDrains
  ShutdownCompletes
