SPECIFICATION ConvergenceSpec
CONSTANTS
  c1 = c1
  b1 = b1
  b2 = b2
  ChannelIds = {c1}
  MsgIds = {1, 2, 3}
  Bodies = {b1, b2}
  MaxChannels = 1
  MaxMessages = 3
  RetiredFloor = 1
  Pages = {}
  Retirements = {}
  Restorations = {}
  MaxClock = 20
  Here = c1
  OldIds = {1}
  PageSize = 2
  MaxEvents = 3
  MaxAsked = 2
\* The bounded server stops.
CHECK_DEADLOCK FALSE
INVARIANTS
  AgreesUnlessCrossed
  CompleteWhileRoom
