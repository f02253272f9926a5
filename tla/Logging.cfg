SPECIFICATION FairSpec
CONSTANTS
  Caller = {i1, i2}
  Configs <- Several
  Prefix = {App}
  Covers <- Alone
  Capacity = 2
  DefaultKeep = 1
  MaxEvents = 2
  MaxClock = 2
  None = None
  Omitted = Omitted
  App = App
CHECK_DEADLOCK FALSE
INVARIANT PublishedInOrder
INVARIANT KeepsTheNewest
PROPERTY NobodyIsLeft
