SPECIFICATION HeartbeatSpec
CONSTANTS
  Interval = 3
  None = None
  MaxNow = 12
  MaxFlight = 3
\* Time stops at MaxNow, and a closed connection stays closed.
CHECK_DEADLOCK FALSE
PROPERTY
  ScheduledAreAnswered
