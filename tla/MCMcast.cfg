SPECIFICATION Spec
CONSTANTS
  Client = {c1, c2}
  NoClient = NoClient
  Window = 2
  InitCollect = 2
  BatchCap = 2
  LastPacket = 3
  Late = 2
  Skip = 1
  StartSpan = 2
  Behind = {1}
  MaxLacks = 1
  MaxJoins = 3
SYMMETRY Alike
VIEW Seen
INVARIANTS
  Inv
  OneRun
CHECK_DEADLOCK FALSE
