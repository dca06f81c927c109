SPECIFICATION MCSpec
CONSTANTS
  MaxUploads = 3
  KeepCloud = 1
  Jobs = 2
  Daily = 0
  Weekly = 1
  Monthly = 1
  Yearly = 1
  Horizon = 11
  WeekOf <- MCWeekOf
  MonthOf <- MCMonthOf
  YearOf <- MCYearOf
  TempRuns = {"r1", "r2", "r3"}
  Slots = 2
  Probes = {"lister", "sizer"}
  Chunks = 2
CHECK_DEADLOCK FALSE
INVARIANTS
  HistoryTypeOK
  ClaimedIsUploaded
  TiersKeep
  LeftoversAreTracked
PROPERTIES
  CloudKeepsNewest
  CopyIsAtomic
  HangsAreOutlived
