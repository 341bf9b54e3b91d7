SPECIFICATION MCSpec
CONSTANTS
  token = token
  newer = newer
  key = key
  root = root
  context = context
  Runs = {r1, r2}
  Dirs <- MCDirs
  Above <- MCAbove
  WorkDirs = {"project"}
  Contents <- MCContents
  Root = {root}
  Context = {context}
  Creds = {token, newer, key}
PROPERTY AsksAboutEveryChange
