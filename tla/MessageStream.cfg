SPECIFICATION FairSpec
CONSTANTS
  MaxCalls = 4
  MaxHops = 2
INVARIANT AnswersInStep
PROPERTIES
  ShortReadCostsOneCall
  CallsReturn
CHECK_DEADLOCK FALSE
