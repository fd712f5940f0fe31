\* One session: three turns, every abort race, a crash; files can be written.
SPECIFICATION Spec
CONSTANTS
  MaxTurns = 3
  MaxQueued = 2
  MaxStops = 2
  MaxCrashes = 1
  MaxHooks = 1
  DiskFaults = FALSE
  Rebinds = {}
INVARIANTS TypeOK NoDoubleSignal OneWriter TablesMatchChain TailAfterFollowsTail AbortReachesChild
PROPERTIES ArchivedUnlessStopped NoHookAfterAbort ImplementsNarrativeTurns
CHECK_DEADLOCK FALSE
