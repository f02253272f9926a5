SPECIFICATION FairSpec
CONSTANTS
  N = 3
  Id <- MinuteIds
  Occurs <- MinuteOccurs
  Exclusive = {1, 2}
  Panics = {3}
  Led = {"report", "prune"}
  Minute = 4
  Ms = 2
  Ttl = 7
  MaxLate = 1
  MaxGap = 1
  MaxRun = 5
  MaxTime = 12
CHECK_DEADLOCK FALSE
INVARIANT NoOverlap
INVARIANT LocksAreOwned
INVARIANT NoOccurrenceLost
PROPERTY RepeatedOnlyWhenEarly
PROPERTY SkippedOnlyForARun
PROPERTY ShutdownStops
