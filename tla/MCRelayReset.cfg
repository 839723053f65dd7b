SPECIFICATION Spec
CONSTANTS
  Cap = 2
  Batch = 4
  Budget = 4
  Limits = {8, 12}
  Room = 3
  Total = 9
  Framings = {FALSE}
  Resets = TRUE
  PoolFails = 1
INVARIANTS
  Complete
  UnreadIsCovered
CHECK_DEADLOCK FALSE
