SPECIFICATION FairSpec
CONSTANTS
  Threads = {t1, t2}
  Nobody = Nobody
  Wrap = 6
  Waits = {0, 2, 3, 5}
  MaxLate = 3
INVARIANTS
  Exclusion
  RightRelease
  OwnerIsHolder
PROPERTIES
  TimedCallReturns
