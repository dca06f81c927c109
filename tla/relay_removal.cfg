SPECIFICATION RelaySpec
CONSTANTS
  Loops = {"beat", "update"}
  Setups = {"setup"}
  Telegrams = {"telegram"}
  MaxSecrets = 3
  MaxTroubles = 1
CHECK_DEADLOCK FALSE
INVARIANTS
  NeverStranded
