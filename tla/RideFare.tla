------------------------------ MODULE RideFare ------------------------------
(***************************************************************************)
(* UZA Move's price engine: pure functions over integer francs.  Distances *)
(* and minutes are whole here; the code's are reals, rounded to the same   *)
(* fare steps.                                                             *)
(***************************************************************************)
EXTENDS Integers

CONSTANTS
  CommissionBps,      \* COMMISSION_BPS: 800 of 10 000
  SavingsMaxBps,      \* SAVINGS_MAX_SHARE_OF_FARE_BPS: 2 500 of 10 000
  FareStep,           \* FARE_ROUNDING_RWF: 50
  MinTripMinutes

Bps == 10000

ASSUME FareAssumption ==
  /\ CommissionBps \in 0..Bps /\ SavingsMaxBps \in 0..Bps
  /\ FareStep \in Nat \ {0} /\ MinTripMinutes \in Nat

AtLeast(a, b) == IF a >= b THEN a ELSE b
AtMost(a, b) == IF a <= b THEN a ELSE b

\* Math.round of a quotient: half up.
RoundedQuotient(a, b) == (2 * a + b) \div (2 * b)

ApplyBps(amount, bps) == RoundedQuotient(amount * bps, Bps)

RoundFare(amount) == AtLeast(0, RoundedQuotient(amount, FareStep) * FareStep)

\* UZA's share and the driver's.
CommissionOf(fare) == ApplyBps(AtLeast(0, fare), CommissionBps)
DriverEarnings(fare) == AtLeast(0, fare) - CommissionOf(fare)

\* A tariff is [baseFare, perKm, perMinute, minFare, maxFare]; the ceiling wins.
RawFare(km, min, tariff) ==
  tariff.baseFare + tariff.perKm * AtLeast(0, km) + tariff.perMinute * AtLeast(MinTripMinutes, min)
QuoteFare(km, min, tariff) ==
  RoundFare(AtMost(AtLeast(RawFare(km, min, tariff), tariff.minFare), tariff.maxFare))

\* A rule is [ruleType, fixedDaily, percent, roundTo] or "none"; never over the ceiling.
RuleWants(fare, rule) ==
  CASE rule.ruleType = "percent_trip" -> ApplyBps(fare, rule.percent * 100)
    [] rule.ruleType = "round_up" -> ((fare + rule.roundTo - 1) \div rule.roundTo) * rule.roundTo - fare
    [] rule.ruleType = "fixed_daily" -> rule.fixedDaily
    [] rule.ruleType = "none" -> 0
SavingsForFare(fare, rule) == AtLeast(0, AtMost(RuleWants(fare, rule), ApplyBps(fare, SavingsMaxBps)))

\* The statement of one payout: each stage takes only what is still available.
DeductionWaterfall(gross, ads, owed, due, rule) ==
  LET earned == gross - CommissionOf(gross) + ads
      recovered == AtMost(AtLeast(0, owed), earned)
      repaid == AtMost(AtLeast(0, due), earned - recovered)
      saved == AtMost(SavingsForFare(gross, rule), earned - recovered - repaid)
  IN  [commission |-> CommissionOf(gross), commissionOwedRecovered |-> recovered,
       loanDeduction |-> repaid, savingsDeduction |-> saved,
       netToMomo |-> earned - recovered - repaid - saved]

SettleableCommission(owed, walletBalance) == AtLeast(0, AtMost(owed, walletBalance))
=============================================================================
