SPECIFICATION FairSpec
CONSTANTS
  QueueSize = 2
  NSN = 3
  MaxSpan = 1
  Bounds <- SmallBounds
INVARIANTS
  SlotsAreSafe
  OffersCurrentFrames
  ReplyIsToCommand
PROPERTIES
  ServesUntilStopped
CHECK_DEADLOCK FALSE
