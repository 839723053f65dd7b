SPECIFICATION LiveSpec
CONSTANTS
  SeqMod = 16
  Window = 4
  InitCollect = 2
  FirstBurst = 1
  FirstLive = 2
  LastPacket = 4
  MaxRedirects = 1
  SignalTicks = 1
  UnicastTicks = 2
  SyncTicks = 3
  Displaced = 0
  MaxDrops = 0
  MaxControl = 3
  Failing = {"join", "request", "term", "last term"}
  NoPacket = NoPacket
  NoGroup = NoGroup
PROPERTIES
  FedOrEnded
CHECK_DEADLOCK FALSE
