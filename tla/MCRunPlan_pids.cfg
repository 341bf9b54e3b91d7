SPECIFICATION PlanSpec
CONSTANTS
  NormalHost <- MCNormalHost
  WildHosts = {".wild"}
  presets <- MCPresets
  ToolHosts = {"model"}
  DindRegistryHosts = {"hub"}
  OddHosts = {"group"}
  ConfigEnvNames = {"TOOL_HOME"}
  ProxyEnvNames = {"HTTP_PROXY"}
  DindEnvNames = {"DOCKER_HOST"}
  TrustEnvNames = {"CA_FILE"}
  IntegrationEnvNames <- MCIntegrationEnv
  RefusedMounts = {"config"}
  WholeCpus <- MCWholeCpus
  Requests <- MCRequests
INVARIANT EveryIgnoredSettingIsWarned
CHECK_DEADLOCK FALSE
