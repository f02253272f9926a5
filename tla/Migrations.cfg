SPECIFICATION FairSpec
CONSTANTS
  Process = {Old, New}
  Conn = {Archive, Ghost, Main}
  Position <- Alphabet
  Configured = {Main, Archive}
  Default = Main
  OwnPath <- Paths
  GlobalPath = SharedDir
  Files <- Releases
  Reversible = {1, 2, 3}
  Locking = {Main}
  Transactional = {Archive}
  None = None
  Main = Main
  Archive = Archive
  Ghost = Ghost
  MainDir = MainDir
  ArchiveDir = ArchiveDir
  SharedDir = SharedDir
  Old = Old
  New = New
INVARIANT NoHoles
INVARIANT MigratedMeansReleased
INVARIANT RollbackSparesTheRest
PROPERTY EveryCommandEnds
