CONSTANTS
  Ids = {a, b}
  Requests = {r1}
  Writers = {w}
  Contents <- AllContents
  Ttl = 2
  MaxTime = 2
  MaxInstant = 3
SPECIFICATION Spec
SYMMETRY Symmetry
CHECK_DEADLOCK FALSE
INVARIANTS
  ReplaysAreCurrent
  NothingLeaks
