SPECIFICATION StoppingSpec
CONSTANTS
  MaxAttempts = 2
  MaxLog = 2
  MaxFaults = 3
  FirstEvents = {"READY", "EVENT"}
\* run returns.
CHECK_DEADLOCK FALSE
INVARIANTS
  LifecycleTypeOK
  SequenceIsOfSession
  GoneIsForgotten
  IdentifySpacing
PROPERTIES
  EachDispatchOnce
  StatusRefined
  ShutdownEnds
  ReadyInTheEnd
