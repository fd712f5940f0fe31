\* One remote call at a time; re-seeding runtime/ may fail.
SPECIFICATION Spec
CONSTANTS
  Callers = {c1}
  Faults = {"seed"}
  SaveMeanwhile = FALSE
  MaxSessions = 2
  MaxPlays = 1
  MaxCrashes = 0
INVARIANTS RebindAllOrNothing
CHECK_DEADLOCK FALSE
