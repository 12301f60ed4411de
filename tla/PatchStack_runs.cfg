SPECIFICATION FairSpec
CONSTANTS
  URNs = {"vpc", "attachment"}
  Ops <- MCOps
  Listed = {"attachment"}
  Faults <- AllFaults
  MaxFaults = 2
CHECK_DEADLOCK FALSE
INVARIANTS ExitExplained Recoverable OutNeverReverted ExitZeroSafe LegitimateRunKept
PROPERTIES TransactionSpec VerdictReached
