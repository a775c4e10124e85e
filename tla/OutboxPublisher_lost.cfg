SPECIFICATION Spec
CONSTANTS
  e1 = e1
  e2 = e2
  p1 = p1
  p2 = p2
  Events <- TwoEvents
  Passes <- OnePass
  BatchSize = 2
  MaxTime = 2
  MaxFaults = 1
INVARIANT PublishedWasEnqueued
CHECK_DEADLOCK FALSE
