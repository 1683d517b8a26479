SPECIFICATION Spec
CONSTANTS
  Paths <- MCPaths
  Size = 2
  MaxRequests = 4
  MaxFaults = 2
  Configs <- MCConfigs
  Disks <- MCDisks
  Fetchable = {"chat", "default"}
  ChatModel = "chat"
  RerankerModel = "bge"
  DefaultModel = "default"
  MaxLaunches = 3
  MaxToggles = 3
  MaxQuestions = 2
INVARIANTS
  InstalledModelIsWhole
  SettingsReachTheEngine
  ServerOutlivesTheApp
CHECK_DEADLOCK FALSE
