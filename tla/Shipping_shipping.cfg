SPECIFICATION FairSpec
CONSTANTS
  build = build
  lint = lint
  Checks <- TwoChecks
  Findings <- TwoFindings
  MaxReviewRounds = 4
  CiWaitTimeoutSec = 7
  CiPollIntervalSec = 3
  MaxReruns = 1
  Remotes = {TRUE, FALSE}
  Mode = "autopilot"
  MaxFaults = 3
  MaxResumes = 1
INVARIANTS
  GreenUnlessLate
  FixesConverge
  CompletedIsSettled
  ReportIsTrue
PROPERTY ShippingEnds
CHECK_DEADLOCK FALSE
