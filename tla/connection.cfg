SPECIFICATION FairSpec
CONSTANTS
  o1 = o1  o2 = o2
  Operations = {o1}
  MAX_TRIES = 2
  MAX_ATTACHES = 2
  MAX_DROPS = 1
  MAX_FAILURES = 0
  UserActions = {}
  NoHandle = NoHandle
INVARIANTS TypeOK PollComesBack
PROPERTY FlowsEnd
CHECK_DEADLOCK FALSE
