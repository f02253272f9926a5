SPECIFICATION Spec
CONSTANTS
  Files <- Sections
  Path <- Paths
  Environments <- Sources
  Schema <- Structs
  Table = Table
CHECK_DEADLOCK FALSE
INVARIANT StaysATree
INVARIANT LoadedIsOverlay
