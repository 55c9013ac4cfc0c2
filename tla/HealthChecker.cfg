SPECIFICATION FairSpec
CONSTANTS
  Runners = {r1, r2}
  Main = Main
  Operator = Operator
  NoListener = NoListener
  Replaced = Replaced
  Threshold = 3
INVARIANTS
  NoLeakedListener
  SomebodyWatches
PROPERTY DownIsRestarted
CHECK_DEADLOCK FALSE
