SPECIFICATION FairSpec
CONSTANTS
  f1 = f1  f2 = f2  a = a  b = b
  Files = {f1}
  Contents = {a}
  None = None
  Broken = Broken
  Layouts = {"modern"}
  Faults = {"pull"}
  MAX_FAULTS = 1
  MAX_CANCELS = 0
PROPERTY InterruptedRunResumes
CHECK_DEADLOCK FALSE
