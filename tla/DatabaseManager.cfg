SPECIFICATION FairSpec
CONSTANTS
  Caller = {c1, c2}
  Name <- Names
  Configs <- Sections
  None = None
  Main = Main
  Stats = Stats
  Ghost = Ghost
CHECK_DEADLOCK FALSE
INVARIANT Agreement
INVARIANT OutcomeIsConfigured
PROPERTY ImplementsBuildOnce
PROPERTY EveryUseEnds
