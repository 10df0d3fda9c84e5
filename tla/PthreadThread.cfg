SPECIFICATION FairSpec
CONSTANTS
  Controls = {c1, c2}
  Callers = {a1, a2}
  Nobody = Nobody
INVARIANTS
  NoUseAfterFree
  HandleOwnership
  OneClaimant
  JoinReturnsResult
PROPERTIES
  Reclaimed
  JoinReturns
  RefsImplementOwnership
CHECK_DEADLOCK FALSE
