SPECIFICATION Spec
CONSTANTS
  Cap = 2
  Batch = 4
  Budget = 4
  Limits = {8, 12}
  Room = 5
  Total = 12
  Framings = {TRUE, FALSE}
  Resets = TRUE
  PoolFails = 1
INVARIANTS
  Inv
PROPERTIES
  DeliveredUnlessShort
CHECK_DEADLOCK FALSE
