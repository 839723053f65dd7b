SPECIFICATION FairSpec
CONSTANTS
  MaxWorkers = 2
  Pid = {p1, p2}
  NoPid = NoPid
  MaxRestarts = 1
  Window = 0
  Signals = {"stop", "hup", "usr1"}
  ForkFails = TRUE
  BindChanges = FALSE
INVARIANTS
  Inv
PROPERTIES
  RestartedUnlessForkFailed
  ReloadReaches
  AllEnd
CHECK_DEADLOCK FALSE
