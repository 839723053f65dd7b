SPECIFICATION Spec
CONSTANTS
  SeqMod = 16
  Window = 4
  InitCollect = 2
  FecPorts = {TRUE}
  GroupLen = 2
  Parities = 1
  MaxGroups = 2
  LastPacket = 14
  Late = 2
  Skip = 2
  StartSpan = 2
  NoPacket = NoPacket
  NoGroup = NoGroup
INVARIANTS
  NotAhead
PROPERTIES
  InOrder
CHECK_DEADLOCK FALSE
