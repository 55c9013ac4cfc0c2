SPECIFICATION AdministeredSpec
CONSTANTS
  Conns = {c1}
  StreamIds = {host}
  DefaultStreams = {host}
  HostStream = host
  MaxTears = 1
  NoSession = NoSession
  Sessions = {s1}
  MinPort = 1
  MaxPort = 2
  MaxRetries = 1
  InitialRange <- MCOnePair
  NewRanges = {}
  NoAllocation = NoAllocation
  Free = Free
PROPERTIES
  StopEndsAcceptLoop
  EveryCallReturns
CHECK_DEADLOCK FALSE
