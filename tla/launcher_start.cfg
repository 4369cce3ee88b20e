CONSTANTS
  Proc = {b1, b2}
  NoProc = NoProc
  MaxPort = 3
  MaxRetries = 2
  MaxPolls = 2
  MaxChanges = 2
SPECIFICATION FairSpec
INVARIANTS
  NoLostBackend
  AtMostOneBackend
  ReadyIsOwnBackend
PROPERTIES
  StartupEnds
CHECK_DEADLOCK FALSE
