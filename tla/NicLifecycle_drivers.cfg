CONSTANTS
  Functions = {0, 1}
  Port0 = 0
  Has = {"aer", "msi", "lro", "pexq", "fwfile"}
  MaxFaults = 2
  Devices = {1, 2, 3}
  Empty = 0
  MaxEntries = 4
SPECIFICATION Spec
INVARIANTS
  GivenBack
  WatchdogOfTheBound
  RecoveryOnMapped
  TableTrue
CHECK_DEADLOCK FALSE
