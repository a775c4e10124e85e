SPECIFICATION FairSpec
CONSTANTS
  e1 = e1
  e2 = e2
  p1 = p1
  p2 = p2
  Events <- TwoEvents
  Passes <- TwoPasses
  BatchSize = 1
  MaxTime = 2
  MaxFaults = 2
INVARIANTS EnqueuedOnce
PROPERTY PendingIsDrained
CHECK_DEADLOCK FALSE
