SPECIFICATION Spec
CONSTANTS
  Attrs <- MCAttrs
  Marked <- MCMarked
  InSchema <- MCInSchema
  Nested <- MCNested
  Composite = {"list"}
  Numbers = {"token"}
  Misnamed = {"list"}
  Keys <- MCKeys
  KeyOf <- MCKeyOf
  TooLong = {}
  TfVars = {"region"}
  Workspace = {"region"}
  Sensitive = {"region"}
  Programs <- MCPrograms
  MaxApplies = 2
CHECK_DEADLOCK FALSE
INVARIANTS NoClearSecret NoPlaceholderInState InjectedIsOwn Recoverable
