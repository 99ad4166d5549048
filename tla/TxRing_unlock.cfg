CONSTANTS
  MaxTxDescCount = 5
  BlockSize = 2
  MaxStatusHandle = 3
  ResetThreshold = 0
  FragDescs = {1}
  HeaderDescs = {0, 2}
  MessageSizes = {1, 2}
  Skbs = {s1, s2}
  Senders = {t1, t2}
  Cpus = {c1}
  TxCpu = c1
  None = None
  Cont = Cont
  Unused = Unused
  MaxCommands = 4
  MaxDowns = 0
SPECIFICATION Spec
INVARIANT PendingBlockReserved
CHECK_DEADLOCK FALSE
