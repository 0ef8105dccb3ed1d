\* A commit that a hook refuses, then another pass.
CONSTANTS
  f1 = f1
  f2 = f2
  f3 = f3
  Files <- TwoFiles
  MaxPasses = 2
  MaxFaults = 1
  MaxCrashes = 0
SPECIFICATION Spec
CHECK_DEADLOCK FALSE
INVARIANTS
  FailedIsNotCommitted
