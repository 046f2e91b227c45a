SPECIFICATION FairSpec
CONSTANTS
  f1 = f1
  f2 = f2
  Febs <- MCFebs
  Slots = 2
  Byte = 4
  SNModulus = 3
  LinkSlots = 2
  MaxTries = 2
  MaxRequests = 2
INVARIANTS
  SlotsAreQueues
  ReplyAnswersCommand
  NothingExecutesLate
PROPERTIES
  CommandReturns
CHECK_DEADLOCK FALSE
