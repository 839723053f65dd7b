SPECIFICATION RtspSpec
CONSTANTS
  NumAddrs = 1
  MaxRedirects = 1
  MaxAuth = 1
  Timeout = 1
  StunTimeout = 1
  StunRetries = 1
  Kinds = {"play"}
  Redirects = {"DESCRIBE", "PLAY"}
  Challenges = {"DESCRIBE"}
  Transports = {"ok", "tcp"}
  KeepAlives = TRUE
  Backlog = 2
INVARIANTS
  OneEndpoint
  AnswersMatch
CHECK_DEADLOCK FALSE
