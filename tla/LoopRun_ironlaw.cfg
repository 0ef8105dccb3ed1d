\* One crash is enough: no fault is needed.
CONSTANTS
  Ticket <- OneTicket
  DependsOn <- NoDependencies
  Refactor <- NoRefactor
  HasRemote = TRUE
  ClaudeBuilds = TRUE
  BudgetOn = TRUE
  RefineInstalled = FALSE
  AutonomyDefault = "review"
  AutonomyCeiling = "autopilot"
  MaxTickets = 2
  MaxIterations = 2
  MaxReviewRounds = 2
  MaxRuns = 2
  MaxFaults = 0
  MaxCrashes = 1
SPECIFICATION Spec
CHECK_DEADLOCK FALSE
INVARIANT
  ClosedIsVerified
