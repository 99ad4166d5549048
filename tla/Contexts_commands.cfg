CONSTANTS
  Callers = {nic, other}
  NoCaller = none
  Host = nic
  NumRx = 3
  LockRetries = 1
  PollRetries = 1
  MaxBegins = 3
  MaxOthers = 1
  Sets <- MCSets
  Queries <- MCQueries
  Limits <- MCLimits
  Transfers <- MCTransfers
SPECIFICATION MCSpec
INVARIANTS CommandWhole AnswerSound DefaultsLiveInCalm
  CardBackedInCalm QueuesKnownInCalm
CHECK_DEADLOCK FALSE
