SPECIFICATION FairSpec
CONSTANTS
  Callers = {g1, g2}
  Levels = {0, 1, 3, 4}
  MaxCalls = 3
  MaxSeconds = 2
  Free = Free
INVARIANTS
  EntriesKept
  EventsAudited
PROPERTY LoggingReturns
CHECK_DEADLOCK FALSE
