SPECIFICATION PagerSpec
CONSTANTS
  c1 = c1
  c2 = c2
  NoChannel = NoChannel
  Channels = {c1, c2}
  QueueCapacity = 2
  RingCapacity = 1
  IdSpace = 4
  FirstId = 3
  MaxRetries = 1
  Delays = {1}
  MaxTaken = 3
  MaxSelections = 2
\* The worker is aborted, the user is done.
CHECK_DEADLOCK FALSE
INVARIANTS
  IdsRepeatLate
  ExhaustionHolds
  PendingIsTracked
  ExhaustedIsOfSelection
  OneAtATime
PROPERTIES
  ServiceRefined
  AcceptedIsAnswered
