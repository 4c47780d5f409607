CONSTANTS
  MaxId = 2
  Texts = {x, y}
  NoText = NoText
  p1 = p1
  p2 = p2
  Clients = {p1, p2}
  Asks <- ByClient
  MaxWrites = 5
SPECIFICATION Spec
CHECK_DEADLOCK FALSE
SYMMETRY Symmetry
PROPERTIES
  OnlyLateVectors
  GuardedEditsLoseNoEdit
  OnlyLateEvidence
  OnlyLateCitations
  PurgesWhatWasShown
