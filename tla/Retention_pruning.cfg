\* Three runs over three days, one directory kept, with failures and a crash.
CONSTANTS
  t1 = t1
  t2 = t2
  Tickets <- TwoTickets
  MaxDirs = 1
  MaxAgeDays = 0
  MaxRuns = 3
  MaxDays = 2
  MaxFaults = 1
  MaxCrashes = 1
SYMMETRY Symmetric
SPECIFICATION Spec
CHECK_DEADLOCK FALSE
INVARIANTS
  PreservedIsFindable
  RobbedOnlyAfterReclaim
PROPERTIES
  PrunedIsOldAndBeyond
  BoundedAfterPass
