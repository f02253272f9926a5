SPECIFICATION Spec
CONSTANTS
  Application = "requests"
  Task = {t1, t2}
  ScopedTask = {t1, t2}
  MaxRoots = 1
  None = None
  Process = Process
  Type <- MCTypes
  Tag <- MCTags
  EntryId <- MCEntryId
  Lifecycle <- MCLifecycle
  Regs <- MCRegs
  Singular <- MCSingular
  Groups <- MCGroups
  Deps <- MCDeps
  Fallible <- MCFallible
  Wanted <- MCWanted
CHECK_DEADLOCK FALSE
INVARIANT ScopesAreIsolated
INVARIANT GotWhatWasAskedFor
INVARIANT RegistrationsAreHonoured
INVARIANT ErrorsAreOwn
INVARIANT NoStandstill
PROPERTY ImplementsBuildOnce
