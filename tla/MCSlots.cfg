SPECIFICATION Spec
CONSTANTS
  Pid = {p1, p2}
  NumSlots = 2
  Limits = {1, 2}
  MaxCopies = 1
  MaxUses = 2
  MaxKills = 1
  MaxVersion = 2
  Measured = {1}
  NoPid = NoPid
SYMMETRY Workers
INVARIANTS
  Inv
PROPERTIES
  RightClient
  Reclaimed
CHECK_DEADLOCK FALSE
