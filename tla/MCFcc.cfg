SPECIFICATION LiveSpec
CONSTANTS
  SeqMod = 16
  Window = 4
  InitCollect = 2
  FirstBurst = 1
  FirstLive = 2
  LastPacket = 5
  MaxRedirects = 1
  SignalTicks = 1
  UnicastTicks = 2
  SyncTicks = 3
  Displaced = 1
  MaxDrops = 1
  MaxControl = 3
  Failing = {"join", "request", "term"}
  NoPacket = NoPacket
  NoGroup = NoGroup
INVARIANTS
  Inv
PROPERTIES
  OneOrder
  TurnsToGroup

CHECK_DEADLOCK FALSE
