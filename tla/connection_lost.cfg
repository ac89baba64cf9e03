SPECIFICATION FairSpec
CONSTANTS
  o1 = o1  o2 = o2
  Operations = {}
  MAX_TRIES = 1
  MAX_ATTACHES = 3
  MAX_DROPS = 1
  MAX_FAILURES = 0
  UserActions = {}
  NoHandle = NoHandle
PROPERTY Reconnects
CHECK_DEADLOCK FALSE
