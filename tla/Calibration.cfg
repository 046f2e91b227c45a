SPECIFICATION Spec
CONSTANTS
  Asic = {0, 1, 3}
  Channel = {0, 1}
  Tac = {0, 1}
  Worker = {w1, w2}
  MaxFiles = 4
  MaxDeaths = 1
  MaxForkFailures = 1
INVARIANTS
  ParentKnowsWorkers
  CalibratedRight
  OffsetsRight
PROPERTIES
  CalibrationEnds
CHECK_DEADLOCK FALSE
