SPECIFICATION CarefulSpec
CONSTANTS
  Sessions = {s1, s2}
  MinPort = 1
  MaxPort = 4
  MaxRetries = 1
  InitialRange <- MCInitialRange
  NewRanges <- MCNewRanges
  NoAllocation = NoAllocation
  Free = Free
INVARIANT LiveExclusive
