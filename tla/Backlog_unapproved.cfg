SPECIFICATION Spec
CONSTANTS
  t1 = t1
  t2 = t2
  Tickets <- Pairs
  Graphs <- PairGraphs
  Brainstormed = {t1}
  MaxPlanningRounds = 1
  MaxConcurrent = 2
  MaxBatches = 2
  MaxEdits = 1
  Turns <- PairTurns
INVARIANT DraftedOnApproved
CHECK_DEADLOCK FALSE
