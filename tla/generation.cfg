CONSTANTS
  s1 = s1
  s2 = s2
  t1 = t1
  Calls = {s1, s2, t1}
  Kind <- TwoStreams
  MaxRounds = 2
  MaxCalls = 1
  None = None
SPECIFICATION FairSpec
PROPERTIES
  ImplementsSlot
  StreamsEnd
  WorkersEnd
