SPECIFICATION Spec
CONSTANTS
  MaxRuns = 3
  Keep <- MCKeep
  Layouts = {TRUE, FALSE}
CONSTRAINTS
  NoLitter
  FewFailures
INVARIANTS
  SuccessIsRestorable
PROPERTIES
  LocalKeepsNewest
  SecondaryKeepsNewest
CHECK_DEADLOCK FALSE
