SPECIFICATION FairSpec
CONSTANTS
  g1 = g1
  g2 = g2
  g3 = g3
  w1 = w1
  Pools <- MCPools
  Crew <- MCCrew
  Jobs <- MCJobs
  NoJob = NoJob
  NStages = 3
  MaxBlocks = 3
  MaxSteps = 2
INVARIANTS
  PipelineInv
  NoJobTouchedAfterDelete
PROPERTIES
  WritesEventStream
  ConversionEnds
