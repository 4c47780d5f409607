CONSTANTS
  Procs = {p1, p2}
  NoProc = NoProc
  Configs = {"c0", "c1"}
  Default = "c0"
  Names = {"client", "provider"}
  Values = {"key"}
  Unset = "unset"
  NoFile = NoFile
  NoJournal = NoJournal
  NoView = NoView
  Keep = Keep
  Clashes <- OneKeyTwice
  MaxCommits = 2
  MaxFaults = 2
SPECIFICATION FairSpec
PROPERTIES
  PublishesItsOwnEdit
  PairSpec
  CommittedSettles
