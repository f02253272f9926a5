SPECIFICATION RunSpec
CONSTANTS
  N = 4
  Id <- Ids
  Occurs <- Occurrences
  Invalid = {2}
  Exclusive = {1, 3}
  Led = {"report", "purge", "backup"}
  Minute = 3
  Passes = 3
CHECK_DEADLOCK FALSE
INVARIANT OnePassPerOccurrence
INVARIANT NoPassMisses
