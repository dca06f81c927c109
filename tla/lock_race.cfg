SPECIFICATION FreshLocksSpec
CONSTANTS
  p1 = p1
  p2 = p2
  p3 = p3
  Procs <- MCProcs
  PidOf <- MCPidOf
  HostOf <- OneHost
  NoProc = NoProc
  NoLock = NoLock
  IOFaults = FALSE
CHECK_DEADLOCK FALSE
INVARIANTS
  MutualExclusion
