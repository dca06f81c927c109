SPECIFICATION MCSpec
CONSTANTS
  p1 = p1
  p2 = p2
  p3 = p3
  Procs <- MCProcs
  PidOf <- MCPidOf
  HostOf <- TwoHosts
  GuardHost = "hostA"
  Supervised <- MCSupervised
  NoProc = NoProc
  NoLock = NoLock
  IOFaults = TRUE
CHECK_DEADLOCK FALSE
INVARIANTS
  OnlyReapingBreaksExclusion
  StaleVerdictSound
  SerialRunsExclude
PROPERTIES
  ReleaseSparesOthersUnlessReaped
  SerialNeverBlocked
  RestartSparesWatched
