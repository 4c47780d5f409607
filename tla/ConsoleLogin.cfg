CONSTANTS
  Users = {"ann"}
  Tokens = {t1, t2, t3}
  NoToken = NoToken
  Codes = {c1, c2}
  NoCode = NoCode
  Clients = {p1, p2}
  Lifetime = 1
  MaxTime = 2
  Embedded = TRUE
  HostRevokes = TRUE
SPECIFICATION LoginSpec
SYMMETRY Symmetry
INVARIANTS
  MemoryForgets
PROPERTIES
  HeldTokensKept
  StraysHaveACause
