CONSTANTS
  MaxTxDescCount = 5
  BlockSize = 2
  MaxStatusHandle = 3
  ResetThreshold = 1
  FragDescs = {1}
  HeaderDescs = {2}
  MessageSizes = {1, 2}
  Skbs = {s1}
  Senders = {t1}
  Cpus = {c1, c2}
  TxCpu = c1
  None = None
  Cont = Cont
  Unused = Unused
  MaxCommands = 2
  MaxDowns = 0
SPECIFICATION ProgressSpec
PROPERTIES QueueRestarts CommandsReachCard
CHECK_DEADLOCK FALSE
