CONSTANTS
  Named <- MadeUp
  Calls = {1}
  Kinds <- Deletes
  Motion = FALSE
  MaxOps = 1
  Turns = {1, 2}
  Scripts <- Three
SPECIFICATION TurnsSpec
CHECK_DEADLOCK FALSE
INVARIANTS TurnsTypeOK GenerationRuns NoStuckRow
PROPERTIES ReplyInItsChat StopHolds TurnEnds
