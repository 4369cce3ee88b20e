CONSTANTS
  Named <- MadeUp
  Calls = {1}
  Kinds <- Deletes
  Motion = FALSE
  MaxOps = 0
  Turns = {1}
  Scripts <- One
SPECIFICATION TurnsSpec
CHECK_DEADLOCK FALSE
PROPERTY StopIsFinal
