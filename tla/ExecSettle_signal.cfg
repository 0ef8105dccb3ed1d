\* A child that a signal from outside ends.
CONSTANTS
  Calls <- AllCalls
  MaxChunks = 3
SPECIFICATION Spec
CHECK_DEADLOCK FALSE
INVARIANTS
  PassedMeansExitedZero
