\* A burst in one workspace, a single change in another.
SPECIFICATION EventsSpec
CONSTANTS
  Directories = {1, 2}
  Orphans = {}
  PathsPerDir = 2
  PathsCap = 2
  MaxChanges = 3
  MaxOutages = 0
PROPERTY
  EverySessionIsTold
CHECK_DEADLOCK FALSE
