SPECIFICATION LifecycleSpec

CONSTANTS
  MaxAttempts = 2
  MaxLog = 2
  MaxFaults = 3
  FirstEvents = {"READY", "EVENT"}
\* run returns.
CHECK_DEADLOCK FALSE
INVARIANT
  FatalCloseIsFatal
