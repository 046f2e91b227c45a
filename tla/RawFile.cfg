SPECIFICATION Spec
CONSTANTS
  BlockSize = 3
  MaxEvents = 3
  MaxFrameID = 3
  MaxFrames = 3
  MaxSteps = 2
INVARIANTS
  FilesAgree
  EventsSurvive
  BuffersHoldWholeFrames
CHECK_DEADLOCK FALSE
