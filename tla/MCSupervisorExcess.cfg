SPECIFICATION FairSpec
CONSTANTS
  MaxWorkers = 2
  Pid = {p1, p2}
  NoPid = NoPid
  MaxRestarts = 1
  Window = 1
  Signals = {"hup"}
  ForkFails = FALSE
  BindChanges = FALSE
PROPERTIES
  ExcessEnds
CHECK_DEADLOCK FALSE
