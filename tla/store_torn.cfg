SPECIFICATION Spec
CONSTANTS
  MaxRuns = 1
  Keep <- MCKeep
  Layouts = {TRUE}
INVARIANT BundleIsComplete
CHECK_DEADLOCK FALSE
