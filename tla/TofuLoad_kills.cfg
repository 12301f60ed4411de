SPECIFICATION Spec
CONSTANTS
  Workspaces = {"default", "dev", "prod"}
  Default = "default"
  Missing = "missing"
  MaxBackups = 2
  MaxRuns = 3
  MaxFaults = 2
CHECK_DEADLOCK FALSE
INVARIANTS OwnDirSurvives LeftAsFound RequestedShown
