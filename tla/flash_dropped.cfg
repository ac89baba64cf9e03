SPECIFICATION FairSpec
CONSTANTS
  Kinds = {"modal"}
  Faults = {"drop"}
  MAX_FAULTS = 1
  MAX_RUNS = 1
  Regions = 1
  Chunks = 2
  maxAttempts = 3
  MAX_DEAD_HANDLE_RETRIES = 5
PROPERTY DropsSpendNoAttempt
CHECK_DEADLOCK FALSE
