CONSTANTS
  MemoryIds = {a}
  Vectors = {v}
  NoVector = NoVector
  Spaces = {s1, s2}
  Searches = {r1, r2}
  MaxKept = 1
  MaxWrites = 3
SPECIFICATION IndexSpec
SYMMETRY Symmetry
CHECK_DEADLOCK FALSE
INVARIANTS
  IndexOfSnapshot
