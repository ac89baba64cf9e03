SPECIFICATION FairSpec
CONSTANTS
  k1 = k1  k2 = k2  a = a  b = b  big = big  caller = caller  drain = drain
  Keys = {k1, k2}
  Contents = {a, b, big}
  Oversized = {big}
  Callers = {caller}
  Drains = {drain}
  BUDGET = 1
  Calls = {"get", "put", "delete"}
  Faults = {"refuse", "swallow", "evict", "keep", "unread", "cut"}
  Puts = {b}
  MAX_FAULTS = 1
  None = None
INVARIANTS Serves NothingStale NothingUnreachable
PROPERTY Drained
