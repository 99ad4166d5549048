CONSTANTS
  Rings = {r1, r2}
  Polls = {r1, r2}
  r1 = r1
  snmp = snmp
  tool = tool
  r2 = r2
  Slots = 4
  Budget = 2
  Waiters = {snmp, tool}
  MaxCalls <- MCMaxCalls
  MaxCompId = 4
  IntBits = 2
  WordBits = 4
  Flows = {f1, f2}
  SameKey <- MCSameKey
  MaxLro = 1
  Lengths = {1, 3}
  Contexts = {r2}
  MaxMessages = 3
  MaxResets = 1
  MaxCmds = 2
  QMsgs = 16
  MaxPending = 8
  Thres = 4
  MaxRun = 3
  MaxDbell = 4
  Requests = {1, 3, 5}
SYMMETRY Symmetry
SPECIFICATION MCSpec
INVARIANTS WholeMessages RightWaiter WaitersKnown FlowsMatch InOrder ReportComing
CHECK_DEADLOCK FALSE
