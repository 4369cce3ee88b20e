CONSTANTS
 Lines <- LinesC
 Chats = {1,2}
 First <- FirstC
 Count <- CountC
 Tasks = {1}
 MaxSaid = 4
 MaxAsked = 4
 MaxActs = 3
SPECIFICATION GuardSpec
CHECK_DEADLOCK FALSE
INVARIANTS LoadingMeansWaiting CachedUsageFits HistoryOfItsChat KeepsTheNewest
