SPECIFICATION PoolSpec
CONSTANTS
  Buffer = {b1, b2, b3, b4, b5}
  View = {v1, v2}
  MinBuffers = 1
  MaxBuffers = 4
  ExpandSize = 2
  LowWater = 1
  HighWater = 1
  MaxHeld = 2
  NoBuffer = NoBuffer
SYMMETRY Names
INVARIANTS
  IInv
PROPERTIES
  ViewsKeepBytes
CHECK_DEADLOCK FALSE
