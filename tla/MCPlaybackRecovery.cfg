SPECIFICATION Spec
CONSTANTS
  Managed = {FALSE}
  Unsupported = {"x"}
  Quota = 2
  MaxBackward = 2
  MinBackward = 1
  SCHEDULE_AHEAD = 2
  BACKGROUND_SCHEDULE_AHEAD = 3
  HARD_RESYNC_THRESHOLD = 2
  PENDING_REFILL_WINDOW = 2
  MAX_START_DELAY = 2
  Loads <- Software
  VOD_FORWARD_BUFFER_PAUSE = 1
  BACKPRESSURE_RESUME_BUFFER_AHEAD = 1
  TargetLatency = 0
  MaxLatency = 1
  UNDERRUN_BACKOFF_MAX = 1
  MaxUnits = 3
  Inbox = 1
  MaxDisturbances = 2
PROPERTIES
  TrustedClock
CHECK_DEADLOCK FALSE
