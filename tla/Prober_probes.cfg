SPECIFICATION Spec
CONSTANTS
  Providers = {"aws", "acme"}
  ThirdParty = {"acme"}
  Types <- MCTypes
  Importable <- MCImportable
  CrashTypes <- MCCrashTypes
  Curated <- MCCurated
  Locked = {"aws", "acme"}
  MaxLoadFailures = 2
CHECK_DEADLOCK FALSE
INVARIANTS NotPoisoned StartedOncePerCrash RestartBudget
