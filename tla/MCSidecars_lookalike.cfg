SPECIFICATION Spec
CONSTANTS
  Runs = {r1}
  Prunes = {c1}
  RunSpecs <- AllSpecs
  Lookalike = {r1}
  StartupMax = 1
  SweepMax = 1
  Grace = 3
  DirGrace = 3
  RemovalsFail = FALSE
PROPERTY ToolsAreNotSwept
