SPECIFICATION SystemSpec
CONSTANTS
  Conns = {c1, c2}
  StreamIds = {test, host}
  DefaultStreams = {test, host}
  HostStream = host
  MaxTears = 1
  NoSession = NoSession
  Sessions = {s1, s2}
  MinPort = 1
  MaxPort = 2
  MaxRetries = 1
  InitialRange <- MCOnePair
  NewRanges = {}
  NoAllocation = NoAllocation
  Free = Free
SYMMETRY MCSymmetry
INVARIANTS
  ViewsAgree
  GrantedPortsKept
  TornDownStaysDown
PROPERTY NoForeignRelease
CHECK_DEADLOCK FALSE
