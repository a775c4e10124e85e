SPECIFICATION RunSpec
CONSTANTS
  o1 = o1
  p1 = p1
  p2 = p2
  c1 = c1
  c2 = c2
  a1 = a1
  a2 = a2
  g1 = g1
  l1 = l1
  po1 = po1
  goma = goma
  s1 = s1
  u1 = u1
  NoTarget = NoTarget
  None = None
  Orders <- OneOrder
  Payments <- TwoPayments
  Clerks <- TwoClerks
  Processes <- TwoProcesses
  MaxCancels = 2
  Packages <- OnePackage
  Lots <- OneLot
  POs <- OnePO
  Destinations <- OneDestination
  Shipments <- OneShipment
  LotOf <- LotEach
  OrderOf <- OrderEach
  POOf <- POEach
  Users <- OneUser
SYMMETRY Sym
INVARIANTS ReleaseNeverEarly LedgerSound SettledByFullPayment
PROPERTIES ReversalNeverLost GoodsFollowMoney
CHECK_DEADLOCK FALSE
