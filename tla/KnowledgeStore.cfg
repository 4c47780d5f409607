CONSTANTS
  Documents = {d1}
  NoDocument = NoDocument
  Uploads = {u1}
  Pieces = {a, b}
  MaxParts = 1
  MaxOpen = 1
  MaxVersions = 2
  Jobs = {j1}
  Spaces = {s1, s2}
SPECIFICATION Spec
CHECK_DEADLOCK FALSE
SYMMETRY Symmetry
INVARIANTS
  ReadyIsServed
  VectorsMatch
PROPERTIES
  NeverServesWorse
