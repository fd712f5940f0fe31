\* One remote call at a time, every failure of kernel and disk, one crash.
SPECIFICATION Spec
CONSTANTS
  Callers = {c1}
  Faults = {"create", "fork", "clear", "seed", "sweep", "rename", "copy", "restore", "drop", "unlink"}
  SaveMeanwhile = FALSE
  MaxSessions = 4
  MaxPlays = 3
  MaxCrashes = 1
INVARIANTS TypeOK MapFollowsMarker BoundSessionExists NoForeignWorld
PROPERTIES LoadKeepsWholeWorld
CHECK_DEADLOCK FALSE
