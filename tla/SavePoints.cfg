SPECIFICATION Spec
CONSTANTS
  Keep = 2
  HandNames = 1
  PageSubmits = TRUE
  MaxTexts = 2
  MaxWrites = 1
  MaxSaves = 3
  MaxSessions = 3
  MaxCrashes = 1
INVARIANTS TypeOK WorldKnownToHistory NothingSentTwice StampsPaired OneRowPerName
PROPERTIES SendPrunesOldest SendSetsRetryPoint
CHECK_DEADLOCK FALSE
