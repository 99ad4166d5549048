CONSTANTS
  MaxTxDescCount = 5
  BlockSize = 2
  MaxStatusHandle = 3
  ResetThreshold = 0
  FragDescs = {2}
  HeaderDescs = {0, 2}
  MessageSizes = {1, 2}
  Skbs = {s1}
  Senders = {t1}
  Cpus = {c1, c2}
  TxCpu = c1
  None = None
  Cont = Cont
  Unused = Unused
  MaxCommands = 3
  MaxDowns = 1
SPECIFICATION SafetySpec
INVARIANTS NoOverrun BlockReserved SkbAccounted
PROPERTIES NoFreeInFlight CommandOrder
CHECK_DEADLOCK FALSE
