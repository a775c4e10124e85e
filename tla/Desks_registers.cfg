SPECIFICATION DesksSpec
CONSTANTS
  g1 = g1
  g2 = g2
  l1 = l1
  l2 = l2
  o1 = o1
  o2 = o2
  po1 = po1
  goma = goma
  s1 = s1
  u1 = u1
  u2 = u2
  offer1 = offer1
  k1 = k1
  k2 = k2
  k3 = k3
  k4 = k4
  c1 = c1
  c2 = c2
  factory = factory
  ann = ann
  ben = ben
  cyd = cyd
  dee = dee
  a1 = a1
  a2 = a2
  evfleet = evfleet
  mobility = mobility
  taxi = taxi
  nid1 = nid1
  phone1 = phone1
  sys1 = sys1
  sys2 = sys2
  desk = desk
  mail1 = mail1
  doc1 = doc1
  gmail = gmail
  folder = folder
  note1 = note1
  None = None
  Nobody = Nobody
  NoChange = NoChange
  NoKey = NoKey
  MaxPeople = 3
  Packages <- TwoPackages
  Lots <- TwoLots
  Orders <- TwoOrders
  POs <- OnePO
  Destinations <- OneDestination
  Shipments <- OneShipment
  LotOf <- LotEach
  OrderOf <- OrderEach
  POOf <- SamePO
  Users <- TwoUsers
  Offers <- OneOffer
  Keys <- FourKeys
  DealUsers <- TwoUsers
  Changes <- TwoChanges
  Suppliers <- OneSupplier
  SupplierOf <- SameSupplier
  Finance <- FinanceAndCeo
  Approvals <- TwoApprovals
  Accounts <- ThreeAccounts
  NationalIds <- OneNid
  Phones <- OnePhone
  NidOf <- KnownNids
  PhoneOf <- KnownPhones
  Staff <- SystemsAndDesk
  Mergers <- OneMerger
  Messages <- MailAndDoc
  SourceOf <- WhereFrom
  Mail = gmail
  MaxPerSweep = 1
  Notes <- OneNote
  Sweeps <- TwoUsers
  MaxTime = 2
  sig2 = sig2
  sig1 = sig1
  own2 = own2
  own1 = own1
  told2 = told2
  told1 = told1
  pat = pat
  QuoteCalls <- TwoUsers
  MaxQuotes = 3
  Staffers <- OnePerson
  MinuteTexts <- TwoMinutes
  OwnTexts <- TwoOwnTexts
  NoText = NoText
  WeekCalls <- TwoUsers
  MaxBlockers = 2
  DeskSignals <- TwoSignals
  MaxPerRun = 1
  TriageRuns <- TwoUsers
  Promoters <- TwoUsers
  Base = 2
  Width = 2
  Longest = 3
  MaxNumber = 6
  Creators <- TwoUsers
  init1 = init1
  duty1 = duty1
  grant1 = grant1
  r1 = r1
  r2 = r2
  r3 = r3
  m1 = m1
  m2 = m2
  NoBackup = NoBackup
  Unset = Unset
  Initiatives <- OneInitiative
  Duties <- OneDuty
  PlanCalls <- TwoUsers
  DutyPeople <- TwoOwners
  MaxHours = 1
  ScopeUsers <- TwoOwners
  ScopeCustomers = {}
  ScopeShipments = {}
  ScopeDepartments = {}
  Grants <- OneGrant
  GrantActors <- CeoAndOwner
  GrantCalls <- TwoUsers
  Aboard <- TwoOrders
  RevenueTon <- TonEach
  FreightCalls <- TwoUsers
  MaxFreight = 1
  MaxAllocations = 3
  Receipts <- ThreeReceipts
  Penalty <- PenaltyOf
  ScoreCalls <- TwoUsers
  StartScore = 5
  Core <- TwoModules
  AcademyCalls <- TwoUsers
  MaxAttempts = 2
  MaxRows = 3
SYMMETRY Sym
INVARIANTS HeldUntilDecided SailsThroughGates TransitionOnce MoneyFollowsInspection FourEyes UndisturbedQuotes CorrectionsStand PeopleDecide SequentialCreatesSucceed RegisterRules NoStageSkipped OneAllocation NeverDoublePenalised EarnedOnce
PROPERTIES LinkFollowsPerson RefilesNothing
CHECK_DEADLOCK FALSE
