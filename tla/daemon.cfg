SPECIFICATION MCSpec
CONSTANTS
  s1 = s1
  s2 = s2
  email = email
  gotify = gotify
  Runs <- MCRuns
  NoRun = NoRun
  MaxBoots = 3
  PidOf <- FreshPids
  Disruptions = TRUE
  Channels <- MCChannels
  Outcomes <- MCOutcomes
  MaxRuns = 2
  LossyPings = TRUE
  Recorders = {"heartbeat", "outcome", "update"}
  UpdateLoop = "update"
  Loops = {"beat", "update"}
  Setups = {"setup"}
  Telegrams = {"telegram"}
  MaxSecrets = 3
  MaxTroubles = 1
CHECK_DEADLOCK FALSE
INVARIANTS
  DaemonTypeOK
  PingedAtMostOnce
  VerdictIsTrue
  PanelIsOfOneRun
  NoRecordLost
  StrandedByOverlap
  NeverUnscheduled
  CleanCommandSettles
PROPERTIES
  UndisturbedIsPinged
  VerdictIsFinal
  RowsAreOfThisRun
  
  TransientErrorNeverFlips
  SecretHeals
