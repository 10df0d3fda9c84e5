SPECIFICATION FairSpec
CONSTANTS
  Threads = {t1, t2, t3, t4}
  InitSteps = 2
INVARIANTS
  NoEarlyReturn
PROPERTIES
  WaitersReturn
  ImplementsContract
