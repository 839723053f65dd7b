SPECIFICATION Spec
CONSTANTS
  SeqMod = 16
  Window = 4
  InitCollect = 2
  FecPorts = {FALSE, TRUE}
  GroupLen = 2
  Parities = 1
  MaxGroups = 2
  LastPacket = 17
  Late = 3
  Skip = 3
  StartSpan = 4
  NoPacket = NoPacket
  NoGroup = NoGroup
INVARIANTS
  Inv
PROPERTIES
  ImplementsStream
  NothingLost
CHECK_DEADLOCK FALSE

