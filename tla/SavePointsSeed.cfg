SPECIFICATION Spec
CONSTANTS
  Keep = 2
  HandNames = 0
  PageSubmits = FALSE
  MaxTexts = 2
  MaxWrites = 1
  MaxSaves = 3
  MaxSessions = 2
  MaxCrashes = 0
PROPERTIES RetryRestoresWorld
CHECK_DEADLOCK FALSE
