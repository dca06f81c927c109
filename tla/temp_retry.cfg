SPECIFICATION TempSpec
CONSTANTS
  TempRuns = {"r1", "r2"}
CHECK_DEADLOCK FALSE
PROPERTIES
  RemovalIsRetried
