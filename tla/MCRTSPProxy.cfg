SPECIFICATION FairSpec
CONSTANTS
  p1 = p1
  a = a
  b = b
  Clients = {c1}
  Paths = {p1}
  Servers = {a, b}
  NoServer = NoServer
  Default = Default
  Routes <- MCRoutes
  MaxRequests = 2
INVARIANTS
  AnswersMatch
  IdleCloseIsFinal
PROPERTIES
  HandlersEnd
  RequestsAnswered
CHECK_DEADLOCK FALSE
