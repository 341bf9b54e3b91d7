SPECIFICATION Spec
CONSTANTS
  Procs = {p1}
  ToolDirs = {claude}
  Logs = {}
  Keys = {trusted}
  Answers = {project, other}
  Contexts = TRUE
INVARIANT NothingVanishes
