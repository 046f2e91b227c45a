SPECIFICATION FairSpec
CONSTANTS
  a1 = a1
  a2 = a2
  user = user
  Asics <- MCAsics
  UserConfigs <- MCUserConfigs
  MaxTries = 3
  MaxInitTries = 2
  MaxCommands = 3
  MaxDisturbed = 0
INVARIANTS
  BeliefsAreTrue
PROPERTIES
  ActiveAsicsConfigured
  InitializeEnds
CHECK_DEADLOCK FALSE
