CONSTANTS
  Proc = {b1, b2}
  NoProc = NoProc
  MaxPort = 2
  MaxRetries = 2
  MaxPolls = 2
  MaxChanges = 2
SPECIFICATION Spec
INVARIANTS
  NoSurvivor
CHECK_DEADLOCK FALSE
