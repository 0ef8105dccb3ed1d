\* One ticket through crashes, faults and resumed runs.
CONSTANTS
  Ticket <- OneTicket
  DependsOn <- NoDependencies
  Refactor <- NoRefactor
  HasRemote = TRUE
  ClaudeBuilds = TRUE
  BudgetOn = TRUE
  RefineInstalled = FALSE
  AutonomyDefault = "review"
  AutonomyCeiling = "autopilot"
  MaxTickets = 2
  MaxIterations = 2
  MaxReviewRounds = 2
  MaxRuns = 2
  MaxFaults = 2
  MaxCrashes = 2
SPECIFICATION Spec
CHECK_DEADLOCK FALSE
INVARIANTS
  ClosedVerifiedUnlessBlind
  MergedIsGated
  AuditTrail
  TerminalEventIsFinal
  RefusalsExplained
PROPERTIES
  ClosedTreeFrozen
  NoTicketDropped
  FinalIsFinal
  ImplementsDelivery
