SPECIFICATION ImagesSpec
CONSTANTS
  DefaultLayer = "21"
  Configs <- MCConfigs
  BuildFlags <- MCBuildFlags
  MaxRelease = 2
  MaxCommands = 2
INVARIANT FlagsChangeTheImage
CHECK_DEADLOCK FALSE
