CONSTANTS
  MaxRxDescCount = 2
  PostThreshold = 1
  MaxChain = 1
  Cpus = {c1, c2}
  Opener = opener
  OpenMayFail = TRUE
  p0 = p0
  p1 = p1
  Ports = {p0, p1}
  Kinds <- MCKinds
  NumCpus = 2
  MaxOwed = 1
  MaxControls = 3
SPECIFICATION MCSpec
PROPERTIES SharedListServed Polled
CHECK_DEADLOCK FALSE
