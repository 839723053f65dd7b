SPECIFICATION Spec
CONSTANTS
  SeqMod = 16
  Window = 4
  InitCollect = 2
  FecPorts = {FALSE}
  GroupLen = 2
  Parities = 0
  MaxGroups = 1
  LastPacket = 18
  Late = 3
  Skip = 6
  StartSpan = 6
  NoPacket = NoPacket
  NoGroup = NoGroup
INVARIANTS
  CountIsBuffered
  WithinWindow
CHECK_DEADLOCK FALSE
