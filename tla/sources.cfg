SPECIFICATION Spec
CONSTANTS
  r1 = r1
  r2 = r2
  b1 = b1
  None = None
  Repos = {r1, r2}
  Curated = {r1}
  Cores = {r1}
  MAX_VERSION = 2
  CONCURRENCY = 1
  MAX_CALLS = 2
  Batches = {b1}
  Deeds = {"add", "import", "refresh", "update", "select", "activate", "remove", "retry", "reload"}
CONSTRAINT Bounds
INVARIANTS TypeOK OptOutHolds NothingForgotten RowsHonest PinsHold
