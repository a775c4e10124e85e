SPECIFICATION Spec
CONSTANTS
  o1 = o1
  p1 = p1
  p2 = p2
  p3 = p3
  c1 = c1
  c2 = c2
  a1 = a1
  a2 = a2
  NoTarget = NoTarget
  Orders <- OneOrder
  Payments <- TwoPayments
  Clerks <- TwoClerks
  Processes <- OneProcess
  MaxCancels = 0
SYMMETRY Sym
INVARIANT FullPaymentReleases
CHECK_DEADLOCK FALSE
