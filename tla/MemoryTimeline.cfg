CONSTANTS
  MaxId = 3
  MaxTime = 3
  MaxEdits = 3
  Starts = {1}
  Ends = {2}
  Keys = {k1}
  NoKey = NoKey
SPECIFICATION Spec
CHECK_DEADLOCK FALSE
INVARIANTS
  FactsDontOverlap
  LinksArePaired
  PurgeReachesAll
PROPERTIES
  ChainsSurvive
