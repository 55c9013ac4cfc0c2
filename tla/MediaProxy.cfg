SPECIFICATION MediaFairSpec
CONSTANT MaxStarts = 3
INVARIANTS
  OneForwarderPerStop
  RunningIsServed
  SettledStopClears
PROPERTY SettledStopEnds
CHECK_DEADLOCK FALSE
