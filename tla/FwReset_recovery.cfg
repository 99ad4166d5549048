\* Two ports, three events from outside: every step may fail.
CONSTANTS
  NumPorts = 2
  FailurePeriod = 1
  TimeoutThreshold = 1
  FailedThreshold = 2
  MayFail = TRUE
  PciErrors = TRUE
  MaxEvents = 3
SPECIFICATION MCSpec
INVARIANTS RecoveryOwned NapiBalancedInCalm PortsRestored
PROPERTY Recovers
CHECK_DEADLOCK FALSE
