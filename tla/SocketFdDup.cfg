SPECIFICATION FairSpec
CONSTANTS
  Threads = {t1, t2}
  MaxFd = 2
  InitialCapacity = 1
  RawDup = TRUE
  Nobody = Nobody
INVARIANT Classification
