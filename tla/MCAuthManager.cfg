SPECIFICATION FairSpec
CONSTANTS
  c1 = c1
  c2 = c2
  user = user
  group = group
  local = local
  remote = remote
  any = any
  Gone = Gone
  Callers <- MCCallers
  Names <- MCNames
  Groups <- MCGroups
  Kinds <- MCKinds
  Anonymous = Anonymous
  Unset = any
  Local = local
  SampleUsers <- MCSampleUsers
  MorePermissions <- MCMorePermissions
  MoreRules <- MCMoreRules
  MaxRules = 3
  MaxCalls = 2
INVARIANTS
  DecisionHolds
  EveryRequestCounted
PROPERTY ChecksReturn
CHECK_DEADLOCK FALSE
