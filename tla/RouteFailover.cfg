CONSTANTS
  Requests = {r1, r2}
  Streaming = {r1, r2}
  Connections = {"x", "y"}
  Deployments = {"main", "sibling", "other"}
  Conn <- TwoAccounts
  Keyed = {"main", "sibling", "other"}
  Targets <- AccountFirst
  Scope = "same_channel"
  Payloads <- AllOrNotMain
  MaxAttempts = 2
  Retries = 1
  Threshold = 1
  RateCool = 1
  AuthCool = 2
  RetryAfter = 2
  DeployCool = 1
  ServerCool = 1
  NoDeployment = NoDeployment
  MaxTicks = 1
  MaxClears = 1
SPECIFICATION Spec
SYMMETRY Symmetry
CHECK_DEADLOCK FALSE
INVARIANTS
  NeverRepeatedBlindly
  ProviderAnswerKept
PROPERTIES
  TargetRechecked
