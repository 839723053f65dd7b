SPECIFICATION Spec
CONSTANTS
  SeqMod = 8
  Window = 4
  InitCollect = 2
  FirstBurst = 4
  FirstLive = 5
  LastPacket = 7
  MaxRedirects = 1
  SignalTicks = 2
  UnicastTicks = 3
  SyncTicks = 4
  Displaced = 0
  MaxDrops = 0
  MaxControl = 3
  Failing = {}
  NoPacket = NoPacket
  NoGroup = NoGroup
INVARIANTS
  StopCoversHandoff
  SyncWaitBounded
CHECK_DEADLOCK FALSE
