SPECIFICATION Spec
CONSTANTS
  Runs = {r1, r2}
  Prunes = {}
  RunSpecs <- AllSpecs
  Lookalike = {}
  StartupMax = 1
  SweepMax = 1
  Grace = 3
  DirGrace = 3
  RemovalsFail = FALSE
SYMMETRY RunSymmetry
INVARIANTS TypeOK ActiveRunsKeepSidecars EndedRunsLeaveNothing
