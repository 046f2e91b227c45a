SPECIFICATION FairSpec
CONSTANTS
  NB = 2
  BufferWords = 2
  MaxCount = 3
  MaxTransfers = 3
INVARIANTS
  BuffersAreSafe
PROPERTIES
  DeliversWordStream
  NobodyWaitsForever
