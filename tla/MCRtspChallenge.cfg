SPECIFICATION RtspFairSpec
CONSTANTS
  NumAddrs = 1
  MaxRedirects = 1
  MaxAuth = 1
  Timeout = 1
  StunTimeout = 1
  StunRetries = 1
  Kinds = {"play"}
  Redirects = {"DESCRIBE"}
  Challenges = {"SETUP"}
  Transports = {"ok", "tcp"}
  KeepAlives = TRUE
  Backlog = 2
PROPERTIES
  HandshakeEndsAlways
CHECK_DEADLOCK FALSE
