SPECIFICATION PatcherSpec
CONSTANTS
  Res <- MCRes
  Dig <- MCDig
  Field <- MCField
  Inputs <- MCInputs
  Root = "stack"
  NoDig = "none"
  Reruns = 1
CHECK_DEADLOCK FALSE
INVARIANTS RevertedWhole RerunSettled OwnTypeUnlessNamesake GivenOnce
