SPECIFICATION FairSpec
CONSTANTS
  f1 = f1
  f2 = f2
  s1 = s1
  s2 = s2
  None = None
  Files = {f1, f2}
  Stages = {s1, s2}
  MaxPolicy = 1
  MaxTools = 1
  MaxLists = 1
  MaxEdits = 1
  MaxStops = 1
INVARIANTS  CatalogTruthful StageExact
PROPERTIES ConfiguredAgain
