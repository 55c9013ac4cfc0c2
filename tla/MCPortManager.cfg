SPECIFICATION FairSpec
CONSTANTS
  Sessions = {s1, s2}
  MinPort = 1
  MaxPort = 4
  MaxRetries = 2
  InitialRange <- MCInitialRange
  NewRanges <- MCNewRanges
  NoAllocation = NoAllocation
  Free = Free
INVARIANTS
  IntactExclusive
  NoOrphanPort
PROPERTIES
  GrantedInRange
  ServiceDisturbsNobody
  ImplementsPool
  AskAnswered
CHECK_DEADLOCK FALSE
