SPECIFICATION Spec
CONSTANTS
  Controllers = {t1, t2}
  Waiters = {}
  MaxFd = 2
  Limit = 1
  Sets = {s1, s2}
  Sockets = {a}
  InitialCapacity = 1
  SnapshotMax = 2
  MaxEvents = 1
  Interests = {{"in"}, {"out"}}
  Occurring = {}
  MaxOpens = 2
  None = None

  
PROPERTIES
  ImplementsInterestList
SYMMETRY Symmetry
CHECK_DEADLOCK FALSE
