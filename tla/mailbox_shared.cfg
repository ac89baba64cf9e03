SPECIFICATION FairSpec
CONSTANTS
  f1 = f1  f2 = f2  h1 = h1  h2 = h2  A = A  B = B
  Flashers = {A}
  FirstFlasher = A
  Flashes = {f1}
  Hashes = {h1}
  Owner <- MCOwner
  N_CONTEXTS = 2
  Chunks = 2
  MAX_FLASH_HASH_ATTEMPTS = 2
  Faults = {"linkError", "stubExit"}
  MayAbort = TRUE
  Impatient = FALSE
  ReadySurvives = TRUE
  OverlapBoot = FALSE
  NoJob = NoJob
  Garbage = Garbage
INVARIANTS Lockstep NoGarbledDigests
PROPERTIES DesyncIsProof RefinesJobQueue EveryOperationEnds
CHECK_DEADLOCK FALSE
