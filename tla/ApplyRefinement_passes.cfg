\* Three passes over two files, two failures and a crash anywhere.
CONSTANTS
  f1 = f1
  f2 = f2
  f3 = f3
  Files <- TwoFiles
  MaxPasses = 3
  MaxFaults = 2
  MaxCrashes = 1
SYMMETRY Symmetric
SPECIFICATION Spec
CHECK_DEADLOCK FALSE
INVARIANTS
  AppliedIsCommitted
  FailedIsUndone
  FoundIsRestored
