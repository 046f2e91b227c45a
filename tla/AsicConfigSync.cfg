SPECIFICATION Spec
CONSTANTS
  a1 = a1
  a2 = a2
  user = user
  Asics <- MCAsics
  UserConfigs <- MCUserConfigs
  MaxTries = 2
  MaxInitTries = 1
  MaxCommands = 0
  MaxDisturbed = 1
INVARIANTS
  CheckedAfterSync
CHECK_DEADLOCK FALSE
