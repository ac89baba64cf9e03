SPECIFICATION FairSpec
CONSTANTS
  Kinds = {"modal", "browser", "boot"}
  Faults = {"wedge", "verify", "blip", "stall", "close", "drop"}
  MAX_FAULTS = 3
  MAX_RUNS = 2
  Regions = 2
  Chunks = 2
  maxAttempts = 3
  MAX_DEAD_HANDLE_RETRIES = 2
INVARIANTS TypeOK WarnedWhileWriting Attested
PROPERTIES RunsEnd WarningClears
CHECK_DEADLOCK FALSE
