SPECIFICATION FairSpec
CONSTANTS
  Controllers = {t1}
  Waiters = {t2}
  MaxFd = 2
  Limit = 1
  Sets = {s1}
  Sockets = {a, b}
  InitialCapacity = 1
  SnapshotMax = 2
  MaxEvents = 1
  Interests = {{"in"}}
  Occurring = {"in"}
  MaxOpens = 2
  None = None

  
PROPERTIES
  TimedWaitReturns
  ReadyIsReported
CHECK_DEADLOCK FALSE
