SPECIFICATION FairSpec
CONSTANTS
  Application = "diamond"
  Task = {t1, t2}
  ScopedTask = {}
  MaxRoots = 1
  None = None
  Process = Process
  Type <- MCTypes
  Tag <- MCTags
  EntryId <- MCEntryId
  Lifecycle <- MCLifecycle
  Regs <- MCRegs
  Singular <- MCSingular
  Groups <- MCGroups
  Deps <- MCDeps
  Fallible <- MCFallible
  Wanted <- MCWanted
CHECK_DEADLOCK FALSE
INVARIANT PermitHeldByBuilder
INVARIANT Agreement
INVARIANT BuiltAtMostOnce
INVARIANT CyclesAreGenuine
PROPERTY EveryResolveEnds
