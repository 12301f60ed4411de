SPECIFICATION Spec
CONSTANTS
  Tools <- MCTools
  TF <- MCTF
  Builds <- MCBuilds
  Bridged <- MCBridged
  Locks <- MCLocks
  Dynamic = "dynamic"
  MaxProcs = 2
  MaxSessions <- MCMaxSessions
  Releases <- MCReleases
  MaxReleases = 1
  MaxFaults = 1
CHECK_DEADLOCK FALSE
INVARIANTS InjectsAsDigested OwnOrphansGone
PROPERTY LiveLeftAlone
