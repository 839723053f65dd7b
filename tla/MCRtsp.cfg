SPECIFICATION RtspFairSpec
CONSTANTS
  NumAddrs = 2
  MaxRedirects = 1
  MaxAuth = 1
  Timeout = 1
  StunTimeout = 1
  StunRetries = 1
  Kinds = {"play", "head", "duration"}
  Redirects = {"DESCRIBE", "TEARDOWN"}
  Challenges = {"OPTIONS", "DESCRIBE", "SETUP", "PLAY"}
  Transports = {"ok", "tcp"}
  KeepAlives = TRUE
  Backlog = 1
INVARIANTS
  SessionInv
PROPERTIES
  HandshakeEnds
  TeardownEnds
  EndSeen
CHECK_DEADLOCK FALSE
