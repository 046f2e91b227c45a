SPECIFICATION Spec
CONSTANTS
  Asic = {0, 1, 3}
  Channel = {0, 1}
  Tac = {0, 1}
  Worker = {w1, w2}
  MaxFiles = 4
  MaxDeaths = 1
  MaxForkFailures = 0
INVARIANTS CalibrationSucceeds
CHECK_DEADLOCK FALSE
