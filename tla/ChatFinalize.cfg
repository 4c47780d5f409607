CONSTANTS
  Jobs = {1, 2}
  Owner <- OneUser
  TurnTasks = {t1}
  Drainers = {d1}
  Tokens = {k1, k2, k3, k4, k5}
  NoToken = NoToken
  AnyJob = AnyJob
  MaxAttempts = 2
  MaxLive = 1
  MaxAge = 2
  Lease = 1
  KeepTerminal = 1
  BatchLimit = 2
  MaxTurns = 2
SPECIFICATION FairSpec
INVARIANTS
  LiveBound
  OneWriter
  DoneWasIngested
PROPERTIES
  FailedForCause
  LeaseRespected
  ContractSpec
  EventuallySettled
