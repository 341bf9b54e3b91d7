SPECIFICATION Spec
CONSTANTS
  NormalHost <- MCNormalHost
  WildHosts = {".wild"}
  presets <- MCPresets
  ToolHosts = {"model"}
  DindRegistryHosts = {"hub"}
  OddHosts = {"group"}
  ConfigEnvNames = {"TOOL_HOME"}
  ProxyEnvNames = {"HTTP_PROXY"}
  DindEnvNames = {"DOCKER_HOST"}
  TrustEnvNames = {"CA_FILE"}
  IntegrationEnvNames <- MCIntegrationEnv
  RefusedMounts = {"config"}
  WholeCpus <- MCWholeCpus
  Requests <- MCRequests
  DefaultLayer = "21"
  Configs <- MCConfigs
  BuildFlags <- MCBuildFlags
  MaxRelease = 2
  MaxCommands = 2
  Vms = {r1, r2}
  MaxRebuilds = 2
  MaxDockerds = 2
  Sessions = {r1, r2}
  Notes = {n1, n2}
  MaxFiles = 3
  MaxTaken = 2
  Updaters = {u1, u2}
  Cosigns = {u1}
  Signed = TRUE
  MaxUploads = 2
  Names <- MCNames
  Trees <- MCTrees
  Spots <- MCSpots
  LinkTargets <- MCLinkTargets
  MaxPlanted = 2
  Cwd <- MCCwd
  ConfigFiles <- MCConfigFiles
  HostPaths <- MCHostPaths
  Patterns <- MCPatterns
  Paths <- MCPaths
  Unsafe <- MCUnsafe
  Trailing <- MCTrailing
  Decoded <- MCDecoded
  ServersRead <- MCServersRead
SYMMETRY Symmetric
INVARIANTS EgressIsAsAsked PathLimitsHold BackstopNeverFires NothingIsIgnoredSilently
  SecretsStayOut InstructionsMatchTheRun DryRunsStartNothing NothingBeforeApproval
  FilesCannotLiftLimits
  UpdatesForgetNothing NewVersionsArrive VmsAreNotStale NotesSurvive
  BinaryIsARelease MountsLeadWhereTheySay ServersReadWhatWasMatched
PROPERTIES MountsAreAsChecked SnapshotsAreClean
CHECK_DEADLOCK FALSE
