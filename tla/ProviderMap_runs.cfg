SPECIFICATION Spec
CONSTANTS
  Providers <- MCProviders
  Releases <- MCReleases
  Workers <- MCWorkers
  Tables <- MCTables
  Truth <- MCTruth
  TfVersions <- MCTfVersions
  MaxRuns = 2
  MaxFaults = 1
CHECK_DEADLOCK FALSE
INVARIANTS SequentialSaved EndedComplete
PROPERTY VersionsKept
