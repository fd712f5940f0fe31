\* One session, two turns, stops, loads and resets over files that may fail.
SPECIFICATION FairSpec
CONSTANTS
  MaxTurns = 2
  MaxQueued = 2
  MaxStops = 2
  MaxCrashes = 0
  MaxHooks = 1
  DiskFaults = TRUE
  Rebinds = {"load", "reset"}
INVARIANTS NoDoubleSignal
PROPERTIES SignedUnlessLeaked GateEventuallyOpens FenceEventuallyPasses
CHECK_DEADLOCK FALSE
