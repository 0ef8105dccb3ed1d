\* Two calls of any runner, or of exec with any options; three chunks of output
\* each, two failures.
CONSTANTS
  Calls <- AllCalls
  MaxChunks = 3
  MaxCalls = 2
  MaxFaults = 2
SPECIFICATION ControlledSpec
CHECK_DEADLOCK FALSE
INVARIANTS
  KilledIsNotSuccess
  CallsAreTold
PROPERTIES
  SettledOnce
  AnnouncedNotIdle
  BoundedSettles
