SPECIFICATION FairSpec
CONSTANTS
  Runs = {r1}
  Prunes = {c1}
  RunSpecs <- AllSpecs
  Lookalike = {}
  StartupMax = 1
  SweepMax = 1
  Grace = 3
  DirGrace = 3
  RemovalsFail = TRUE
INVARIANT ActiveRunsKeepSidecars
PROPERTIES ImplementsOwnership ToolsAreNotSwept OrphansAreCollected
