SPECIFICATION FairSpec
CONSTANTS
  e1 = e1
  trade = trade
  logistics = logistics
  p1 = p1
  p2 = p2
  w1 = w1
  w2 = w2
  Consumers <- MCConsumers
  Events <- OneEvent
  Bindings <- FanOutOne
  Passes <- TwoPasses
  Workers <- TwoWorkers
  BatchSize = 1
  MaxTime = 1
  MaxFaults = 0
  Attempts = 2
  MaxStalls = 1
  MaxCrashes = 1
PROPERTIES BusDelivers CommittedIsApplied
CHECK_DEADLOCK FALSE
