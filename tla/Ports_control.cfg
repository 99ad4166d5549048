CONSTANTS
  Mcasts = {m1, bcast}
  Stations = {s1, s2}
  Bcast = bcast
  MaxMcCount = 1
  Ips = {i1}
  Mtus = {1500, 9000}
  NoRule = none
  Ctxs <- MCCtxs
  MaxCalls = 4
  MaxFaults = 2
  x0 = x0
  x1 = x1
  XgPorts = {x0, x1}
  Addrs = {a1, a2}
  XgMtus = {1500, 9000}
  MaxXgCalls = 4
  MaxResets = 1
  Phys = {"quake", "puma"}
  MaxTests = 2
  Blinks = 2
  MaxRxDescCount = 3
  PostThreshold = 2
  MaxChain = 2
  Cpus = {c1, c2}
  Opener = opener
  OpenMayFail = TRUE
SPECIFICATION MCSpec
INVARIANTS FiltersRight SettingsKnown PortRight TestLeavesNothing OnePoster BufferAccounted
PROPERTY BuffersGoRound
CHECK_DEADLOCK FALSE
