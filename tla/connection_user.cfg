SPECIFICATION Spec
CONSTANTS
  o1 = o1  o2 = o2
  Operations = {o1}
  MAX_TRIES = 1
  MAX_ATTACHES = 2
  MAX_DROPS = 0
  MAX_FAILURES = 1
  UserActions = {"connect", "disconnect", "reset"}
  NoHandle = NoHandle
INVARIANT NothingLeftDeferred
PROPERTIES BootKeepsItsHandle LiveHandleStaysOpen
CHECK_DEADLOCK FALSE
