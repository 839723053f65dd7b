SPECIFICATION Spec
CONSTANTS
  Cap = 2
  Batch = 4
  Budget = 4
  Limits = {8}
  Room = 3
  Total = 9
  Framings = {FALSE}
  Resets = FALSE
  PoolFails = 0
PROPERTY
  Delivered
CHECK_DEADLOCK FALSE
