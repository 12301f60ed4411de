SPECIFICATION Spec
CONSTANTS
  Providers = {"aws"}
  ThirdParty = {}
  Types <- MCTypes
  Importable <- MCImportable
  CrashTypes <- MCOneCrashType
  Curated <- MCCurated
  Locked = {"aws"}
  MaxLoadFailures = 1
CHECK_DEADLOCK FALSE
INVARIANTS NoDeadHandle
