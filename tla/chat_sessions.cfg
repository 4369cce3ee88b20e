CONSTANTS
  Named <- MadeUp
  Calls = {1, 2}
  Kinds <- AllKinds
  Motion = TRUE
  MaxOps = 2
SPECIFICATION Spec
CHECK_DEADLOCK FALSE
PROPERTIES
  ViewFollows
  StaysUnique
  CatchesUp
  ShortensTheNamed
