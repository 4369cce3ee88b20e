CONSTANTS
  Turns = {t1, t2}
  RequestId <- Retried
  MaxTools = 1
  MaxEdits = 2
  None = None
SPECIFICATION Spec
CHECK_DEADLOCK FALSE
PROPERTY ContinueKeepsText
