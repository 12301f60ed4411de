SPECIFICATION FairSpec
CONSTANTS
  N = 6
  Components <- MCComponents
  Parent <- MCParent
  UrnOf <- MCDistinct
  KeyOf <- MCDistinct
  BatchSize = 2
  MaxFaults = 2
CHECK_DEADLOCK FALSE
INVARIANTS ReportSound VerdictsPartition NoReimport IsolationExact
PROPERTIES LedgerSpec RunEnds Converges
