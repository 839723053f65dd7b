SPECIFICATION FairSpec
CONSTANTS
  LastSequence = 3
  WindowLen = 2
  Lag = 1
  LIVE_EDGE_SEGMENTS = 1
  TRIM_ABOVE = 1
  KEEP = 1
  MAX_REFRESH_FAILURES = 2
  Begins <- Beginnings
  InitUrl <- TsThenMp4
  NoInit = "none"
  Marked = {}
  Loads <- AllKinds
  Body = 3
  Packet = 2
  MaxLoads = 2
  MaxCommands = 1
  MaxCycles = 2
  MaxFrames = 1
INVARIANTS
  WorkerInv
  Timeline
  NothingListedLost
  EachByteOnce
  PlayedThrough
PROPERTIES
  PausedIsQuiet
  LoadEnds
CHECK_DEADLOCK FALSE
