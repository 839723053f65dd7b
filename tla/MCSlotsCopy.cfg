SPECIFICATION FairSpec
CONSTANTS
  Pid = {p1, p2}
  NumSlots = 1
  Limits = {1}
  MaxUses = 2
  MaxKills = 0
  MaxVersion = 4
  MaxCopies = 2
  Measured = {1}
  NoPid = NoPid
INVARIANTS
  SnapshotConsistent
PROPERTIES
  DisconnectHonoured
CHECK_DEADLOCK FALSE
