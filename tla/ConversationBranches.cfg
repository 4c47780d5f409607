CONSTANTS
  Requests = {r1, r2, r3}
  Conversations = {c1}
  NoConversation = NoConversation
  Asks = {"q"}
  Answers = {a, b}
  MaxTurns = 2
  Keep = 1
  Retained = 2
  MaxNodes = 2
SPECIFICATION Spec
SYMMETRY Symmetry
CHECK_DEADLOCK FALSE
INVARIANTS
  BranchKeepsItsHistory
  OneWorkerPerTurn
  OnlyLateBranches
