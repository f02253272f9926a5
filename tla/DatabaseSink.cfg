SPECIFICATION FairSpec
CONSTANTS
  Thread = {t1, t2}
  Capacity = 1
  BatchSize = 2
  Flavor = {"multi_thread", "current_thread"}
  MaxEvents = 2
  Noise = Noise
CHECK_DEADLOCK FALSE
INVARIANT Conservation
INVARIANT StoredInOrder
INVARIANT ExitIsClean
PROPERTY ComesToRest
PROPERTY DropsAreReported
