SPECIFICATION Spec
CONSTANTS
  Procs = {p1, p2}
  ToolDirs = {claude}
  Logs = {log}
  Keys = {trusted}
  Answers = {project}
  Contexts = FALSE
INVARIANTS
  TypeOK
  NothingVanishes
  LayoutMatchesVersion
PROPERTY UpgradeCompletes
