\* Five attempts, two failures that may alternate, a cap of two consults.
CONSTANTS
  s1 = s1
  s2 = s2
  NoSignature = NoSignature
  Signatures <- TwoSignatures
  MaxAttempts = 5
  MaxConsults = 2
SPECIFICATION FairSpec
CHECK_DEADLOCK FALSE
INVARIANTS
  StallWasInformed
  UnworkableIsAgreed
  DirectionIsFresh
  ConsultsWithinCap
PROPERTY
  Returns
