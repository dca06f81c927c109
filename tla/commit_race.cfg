SPECIFICATION MCSpec
CONSTANTS
  Order <- MCOrder
  Network = {"network"}
  PVEServices <- MCPVE
  PBSServices <- MCPBS
  Users <- MCUsers
  Groups <- MCGroups
  NoEntry = NoEntry
  Threshold = 2
  Hosts <- MCHosts
  Backups <- MCBackups
  m1 = m1
  m2 = m2
  Mountpoints = {m1, m2}
  Legacy = {m1}
CHECK_DEADLOCK FALSE
INVARIANTS
  CommittedIsNotReverted
