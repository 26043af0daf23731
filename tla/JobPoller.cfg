SPECIFICATION FairSpec
CONSTANTS
  Jobs = {j1}
  Widgets = {w1, w2}
  MaxPolls = 2
  MaxFaults = 1
INVARIANTS
  WatchEndsTold
  ToldTruth
PROPERTIES
  WatchTold
  PollerRests
CHECK_DEADLOCK FALSE
