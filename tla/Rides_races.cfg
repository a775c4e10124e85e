SPECIFICATION RidesSpec
CONSTANTS
  d1 = d1
  d2 = d2
  momo1 = momo1
  momo2 = momo2
  call1 = call1
  call2 = call2
  trip1 = trip1
  trip2 = trip2
  topup1 = topup1
  Nobody = Nobody
  AtCashOut = AtCashOut
  AtSettle = AtSettle
  CommissionBps = 3000
  SavingsMaxBps = 2500
  FareStep = 1
  MinTripMinutes = 2
  Drivers <- TwoDrivers
  Collections <- TwoCollections
  RideCalls <- TwoCalls
  Fare = 3
  Fee = 2
  Trips <- TwoTrips
  TripFare = 3
  Rule <- TwoADay
  Installments <- TwoInstallments
  InstallmentAmount = 2
  TopUps <- OneTopUp
  TopUpAmount = 1
  CashOutAmount = 3
  WalletCalls <- TwoCalls
  AdPrice = 1
  AdBudget = 2
  MaxServed = 4
  AdCalls <- TwoCalls
SYMMETRY Sym
INVARIANTS PaidOnceForMoney DriverKeepsTheFee UndisturbedIsSolvent RepaidInOrder NeverOverbilled
PROPERTY ClaimedOnce
CHECK_DEADLOCK FALSE
