SPECIFICATION FairSpec
CONSTANTS
  e1 = e1
  trade = trade
  logistics = logistics
  w1 = w1
  w2 = w2
  Consumers <- MCConsumers
  Workers <- MCWorkers
  Events <- OneEvent
  Bindings <- FanOutOne
  Attempts = 3
  MaxStalls = 1
  MaxCrashes = 2
INVARIANT EveryBindingTried
PROPERTIES JobSettles DeliveryRefined
CHECK_DEADLOCK FALSE
