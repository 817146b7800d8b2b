SPECIFICATION Spec
CONSTANTS
  Items = {1}
  Configs <- MCConfigs
  PauseLimit = 2
  MaxPullerIterations = 2
  MaxFaults = 1
  MaxUpdates = 1
INVARIANTS TypeOK NoLostPull WatchRestored
PROPERTIES EventuallySynced RequestAnswered
CHECK_DEADLOCK FALSE
