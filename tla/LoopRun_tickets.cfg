\* Two tickets, the second (a refactor) waiting for the first to be pulled; one
\* run with refinement, the codex builder and a remote; one fault, no crash.
CONSTANTS
  Ticket <- TwoTickets
  DependsOn <- SecondNeedsFirst
  Refactor <- SecondIsRefactor
  HasRemote = TRUE
  ClaudeBuilds = FALSE
  BudgetOn = TRUE
  RefineInstalled = TRUE
  AutonomyDefault = "review"
  AutonomyCeiling = "autopilot"
  MaxTickets = 3
  MaxIterations = 2
  MaxReviewRounds = 2
  MaxRuns = 1
  MaxFaults = 1
  MaxCrashes = 0
SPECIFICATION FairSpec
CHECK_DEADLOCK FALSE
INVARIANTS
  FlaggedNotRestarted
  DependenciesFirst
PROPERTIES
  ProcessEnds
  StartedGetsOutcome
