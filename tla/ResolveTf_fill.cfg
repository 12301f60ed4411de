SPECIFICATION Spec
CONSTANTS
  N = 3
  M = 3
  Files <- MCFiles
  Digests <- MCDigests
  ModuleMaps <- MCModuleMaps
  ResourceMaps <- MCResourceMaps
  Composable = {1, 2}
  MaxFaults = 1
CHECK_DEADLOCK FALSE
INVARIANTS FilesPartition SharedOnlyByMapping ComposedFromOwn
PROPERTIES FirstMappingWins
