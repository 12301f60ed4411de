SPECIFICATION Spec
CONSTANTS
  Attrs <- MCAttrs
  Marked <- MCMarked
  InSchema <- MCInSchema
  Nested <- MCNested
  Composite = {"list"}
  Numbers = {"token"}
  Misnamed = {"list"}
  Keys <- MCKeys
  KeyOf <- MCKeyOf
  TooLong = {}
  TfVars = {"region"}
  Workspace = {"db_password"}
  Sensitive = {"db_password"}
  Programs <- MCPrograms
  MaxApplies = 0
CHECK_DEADLOCK FALSE
INVARIANTS InjectedIsOwn
