SPECIFICATION PipesFairSpec
CONSTANTS
  NumWorkers = 2
  Supervisor = Supervisor
  Cap = 2
  Respawns = TRUE
PROPERTIES
  TriggerReturns
CHECK_DEADLOCK FALSE
