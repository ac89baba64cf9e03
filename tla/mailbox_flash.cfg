SPECIFICATION Spec
CONSTANTS
  f1 = f1  f2 = f2  h1 = h1  h2 = h2  A = A  B = B
  Flashers = {A, B}
  FirstFlasher = A
  Flashes = {f1, f2}
  Hashes = {}
  Owner <- MCOwner
  N_CONTEXTS = 2
  Chunks = 2
  MAX_FLASH_HASH_ATTEMPTS = 2
  Faults = {"linkError", "lostAck", "stubRestart", "stubExit"}
  MayAbort = FALSE
  Impatient = TRUE
  ReadySurvives = TRUE
  OverlapBoot = FALSE
  NoJob = NoJob
  Garbage = Garbage
INVARIANTS TypeOK NeverMisplaced
PROPERTY SuccessMeansVerified
CHECK_DEADLOCK FALSE
