SPECIFICATION RtspFairSpec
CONSTANTS
  NumAddrs = 1
  MaxRedirects = 1
  MaxAuth = 1
  Timeout = 1
  StunTimeout = 1
  StunRetries = 1
  Kinds = {"play"}
  Redirects = {"TEARDOWN"}
  Challenges = {"DESCRIBE"}
  Transports = {"ok", "tcp"}
  KeepAlives = TRUE
  Backlog = 2
PROPERTIES
  TeardownEndsAlways
CHECK_DEADLOCK FALSE
