SPECIFICATION FairSpec
CONSTANTS
  MaxWorkers = 1
  Pid = {p1}
  NoPid = NoPid
  MaxRestarts = 1
  Window = 1
  Signals = {"stop", "hup", "usr1"}
  ForkFails = TRUE
  BindChanges = FALSE
PROPERTIES
  WorkersRestarted
CHECK_DEADLOCK FALSE
