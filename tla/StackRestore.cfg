CONSTANTS
  kdb = kdb
  udb = udb
  env = env
  v0 = v0
  v1 = v1
  u = u
  s1 = s1
  s2 = s2
  Files = {kdb, udb, env}
  Databases = {kdb, udb}
  Unguarded = {udb, env}
  Env = env
  Archived <- MCArchived
  Written = {v0, v1}
  Backup = Backup
  Own = {s1, s2}
  NoFile = NoFile
  Unsound = {u}
  MaxWork = 2
  MaxRestores = 2
  MaxFaults = 3
SPECIFICATION FairSpec
CHECK_DEADLOCK FALSE
PROPERTIES
  RestoresAllOrNothing
  SecretsNotCopied
  EventuallyStartable
