SPECIFICATION FairSpec
CONSTANTS
  MaxTurns = 2
  MaxQueued = 1
  MaxStops = 0
  MaxCrashes = 0
  MaxHooks = 0
  DiskFaults = TRUE
  Rebinds = {}

PROPERTIES BoundaryEventuallySigned
CHECK_DEADLOCK FALSE
