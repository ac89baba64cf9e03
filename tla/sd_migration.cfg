SPECIFICATION FairSpec
CONSTANTS
  f1 = f1  f2 = f2  a = a  b = b
  Files = {f1, f2}
  Contents = {a, b}
  None = None
  Broken = Broken
  Layouts = {"modern", "unknown", "legacy"}
  Faults = {"pull", "read", "lookup", "write", "remove", "unreadable", "foreign"}
  MAX_FAULTS = 4
  MAX_CANCELS = 1
INVARIANTS TypeOK
PROPERTIES MovesWhole Finishes
CHECK_DEADLOCK FALSE
