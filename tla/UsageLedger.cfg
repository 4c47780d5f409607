CONSTANTS
  RequestIds = {r1}
  Old = {o1}
  Readers = {p1}
  RawDays = 1
  DailyDays = 2
  MaxSends = 2
  MaxTime = 5
  MaxFaults = 2
SPECIFICATION FairSpec
CHECK_DEADLOCK FALSE
INVARIANTS
  DaysAddUp
  SummaryMissesNothing
PROPERTIES
  EveryAnswerAccounted
