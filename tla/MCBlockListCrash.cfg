SPECIFICATION FairSpec
CONSTANTS
  Pid = {p1, p2}
  NoPid = NoPid
  Ip = {a}
  NoIp = NoIp
  TableSizes = {1}
  BlockTime = 1
  MaxWait = 1
  MaxKills = 1
PROPERTIES
  Answered
CHECK_DEADLOCK FALSE
