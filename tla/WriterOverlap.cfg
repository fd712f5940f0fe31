\* The user clicks on while a create is on its way.
SPECIFICATION WritersSpec
CONSTANTS
  MaxWriters = 2
  MaxMounts = 1
  MaxMishaps = 0
INVARIANT
  ClosedForGood
CHECK_DEADLOCK FALSE
