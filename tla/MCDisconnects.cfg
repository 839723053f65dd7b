SPECIFICATION AllSpec
CONSTANTS
  NumWorkers = 2
  Supervisor = Supervisor
  Cap = 1
  Respawns = TRUE
  Ip = {a, b}
  NoIp = NoIp
  TableSizes = {1, 2}
  BlockTime = 2
  MaxWait = 1
  MaxKills = 1
SYMMETRY Addresses
INVARIANTS
  AllInv
  NotForgotten
PROPERTIES
  AnswersRight
CHECK_DEADLOCK FALSE
