SPECIFICATION Spec
CONSTANTS
  MaxTurns = 1
  MaxQueued = 1
  MaxStops = 0
  MaxCrashes = 0
  MaxHooks = 1
  DiskFaults = FALSE
  Rebinds = {"reset"}

PROPERTIES SwapBehindFence
CHECK_DEADLOCK FALSE
