------------------------------ MODULE RideProofs ------------------------------
(* Proofs about UZA Move: what its price engine computes for every amount, *)
(* one driver per trip, payments and compensations of a trip, a wallet     *)
(* that one call at a time cannot overdraw, and ads that are not billed    *)
(* for more than was served.                                               *)
EXTENDS RideTrip, RideWallet, RideAds, FiniteSetTheorems, WellFoundedInduction, TLAPS

----------------------------------------------------------------------------
(* The price engine                                                        *)

\* A share of an amount is between nothing and the amount.
LEMMA Share ==
  ASSUME NEW amount \in Nat, NEW bps \in 0..Bps
  PROVE  ApplyBps(amount, bps) \in Nat /\ ApplyBps(amount, bps) <= amount
  <1> DEFINE part == amount * bps
  <1>1. part \in Nat
    BY DEF Bps
  <1>2. part <= amount * 10000
    BY DEF Bps
  <1> HIDE DEF part
  <1>3. /\ (2 * part + 10000) \div 20000 \in Nat
        /\ (2 * part + 10000) \div 20000 <= amount
    BY <1>1, <1>2
  <1> QED BY <1>3 DEF ApplyBps, RoundedQuotient, Bps, part

\* splitFare: UZA's share and the driver's are the fare, and neither is negative.
THEOREM SplitIsExact ==
  ASSUME NEW f \in Nat
  PROVE  /\ CommissionOf(f) \in 0..f /\ DriverEarnings(f) \in 0..f
         /\ CommissionOf(f) + DriverEarnings(f) = f
  <1>1. AtLeast(0, f) = f
    BY DEF AtLeast
  <1>2. CommissionOf(f) \in Nat /\ CommissionOf(f) <= f
    BY <1>1, Share, FareAssumption DEF CommissionOf
  <1> HIDE DEF CommissionOf
  <1> QED BY <1>1, <1>2 DEF DriverEarnings

\* quoteFare: an estimate is a whole number of francs and, the last rounding aside, it is
\* never over the tariff's ceiling, whatever the distance.
THEOREM QuoteIsCapped ==
  ASSUME NEW km \in Int, NEW min \in Int,
         NEW tariff \in [baseFare : Nat, perKm : Nat, perMinute : Nat, minFare : Nat, maxFare : Nat]
  PROVE  /\ QuoteFare(km, min, tariff) \in Nat
         /\ 2 * QuoteFare(km, min, tariff) <= 2 * tariff.maxFare + FareStep
  <1> DEFINE capped == AtMost(AtLeast(RawFare(km, min, tariff), tariff.minFare), tariff.maxFare)
             steps == RoundedQuotient(capped, FareStep)
  <1>1. capped \in Int /\ capped <= tariff.maxFare
    BY FareAssumption DEF RawFare, AtLeast, AtMost
  <1> HIDE DEF capped
  <1>2. /\ steps \in Int
        /\ steps * (2 * FareStep) <= 2 * capped + FareStep
    <2>1. 2 * FareStep \in Nat \ {0} /\ 2 * capped + FareStep \in Int
      BY <1>1, FareAssumption
    <2>2. \A a \in Int, b \in Nat \ {0} : (a \div b) \in Int /\ (a \div b) * b <= a
      BY SMT
    <2> QED BY <2>1, <2>2 DEF RoundedQuotient
  <1> HIDE DEF steps
  <1>3. steps * FareStep \in Int /\ steps * (2 * FareStep) = 2 * (steps * FareStep)
    BY <1>2, FareAssumption
  <1>4. QuoteFare(km, min, tariff) = AtLeast(0, steps * FareStep)
    BY DEF QuoteFare, RoundFare, capped, steps
  <1> QED BY <1>1, <1>2, <1>3, <1>4, FareAssumption DEF AtLeast

\* settleableCommission: UZA collects no more than is owed and no more than is there.
THEOREM SettlesWhatIsThere ==
  ASSUME NEW debt \in Nat, NEW purse \in Int
  PROVE  /\ SettleableCommission(debt, purse) \in 0..debt
         /\ SettleableCommission(debt, purse) <= AtLeast(0, purse)
  BY DEF SettleableCommission, AtLeast, AtMost

\* savingsForFare: whatever a rule wants, no more than the ceiling is swept.
THEOREM SavingsAreCapped ==
  ASSUME NEW f \in Nat, NEW rule, RuleWants(f, rule) \in Int
  PROVE  /\ SavingsForFare(f, rule) \in Nat
         /\ SavingsForFare(f, rule) <= ApplyBps(f, SavingsMaxBps)
         /\ SavingsForFare(f, rule) <= f
  <1>1. ApplyBps(f, SavingsMaxBps) \in Nat /\ ApplyBps(f, SavingsMaxBps) <= f
    BY Share, FareAssumption
  <1> HIDE DEF ApplyBps, RuleWants
  <1> QED BY <1>1 DEF SavingsForFare, AtLeast, AtMost

\* deductionWaterfall: the statement of a payout accounts for every franc of the fare and
\* the ads, takes nothing that is not there and never sends less than nothing.
THEOREM WaterfallConserves ==
  ASSUME NEW gross \in Nat, NEW ads \in Nat, NEW debt \in Int, NEW due \in Int,
         NEW rule, RuleWants(gross, rule) \in Int
  PROVE  LET w == DeductionWaterfall(gross, ads, debt, due, rule)
         IN  /\ w.commission + w.commissionOwedRecovered + w.loanDeduction
                  + w.savingsDeduction + w.netToMomo = gross + ads
             /\ w.commission >= 0 /\ w.commissionOwedRecovered >= 0 /\ w.loanDeduction >= 0
             /\ w.savingsDeduction >= 0 /\ w.netToMomo >= 0
  <1>1. CommissionOf(gross) \in 0..gross
    BY SplitIsExact
  <1>2. SavingsForFare(gross, rule) \in Nat
    BY SavingsAreCapped
  <1> HIDE DEF CommissionOf, SavingsForFare
  <1> DEFINE earned == gross - CommissionOf(gross) + ads
             recovered == AtMost(AtLeast(0, debt), earned)
             repaid == AtMost(AtLeast(0, due), earned - recovered)
             saved == AtMost(SavingsForFare(gross, rule), earned - recovered - repaid)
  <1>3. earned \in Nat
    BY <1>1
  <1> HIDE DEF earned
  <1>4. recovered \in Nat /\ recovered <= earned
    BY <1>3 DEF AtLeast, AtMost
  <1> HIDE DEF recovered
  <1>5. repaid \in Nat /\ repaid <= earned - recovered
    BY <1>3, <1>4 DEF AtLeast, AtMost
  <1> HIDE DEF repaid
  <1>6. saved \in Nat /\ saved <= earned - recovered - repaid
    BY <1>2, <1>3, <1>4, <1>5 DEF AtMost
  <1> HIDE DEF saved
  <1>7. DeductionWaterfall(gross, ads, debt, due, rule)
          = [commission |-> CommissionOf(gross), commissionOwedRecovered |-> recovered,
             loanDeduction |-> repaid, savingsDeduction |-> saved,
             netToMomo |-> earned - recovered - repaid - saved]
    BY DEF DeductionWaterfall, earned, recovered, repaid, saved
  <1>8. CommissionOf(gross) + earned = gross + ads
    BY <1>1 DEF earned
  <1> QED BY <1>1, <1>3, <1>4, <1>5, <1>6, <1>7, <1>8

----------------------------------------------------------------------------
(* Ads                                                                     *)

Price(n) == AdPrice * n

\* The clicks that are recorded and whose call has not read the sum yet.
Unread == {c \in AdCalls : adCall[c].pc = "read"}

\* By impressions: a call read a sum below the budget, then recorded what it bills for.
CpmInv ==
  billing = "cpm" =>
    /\ spent <= Price(Served) /\ spent < AdBudget + AdPrice
    /\ \A c \in AdCalls :
         /\ adCall[c].pc \in {"show", "bill"} => adCall[c].spent < AdBudget
         /\ adCall[c].pc = "show" => adCall[c].spent <= Price(Served)
         /\ adCall[c].pc = "bill" => adCall[c].spent + AdPrice <= Price(Served)

\* By clicks: a call records, then reads the sum; what is still unread has room.
CpcInv ==
  billing = "cpc" =>
    /\ spent + Price(Cardinality(Unread)) <= Price(Served)
    /\ \A c \in AdCalls :
         adCall[c].pc = "bill" =>
           adCall[c].spent + Price(Cardinality(Unread) + 1) <= Price(Served)

AdsInv == AdsTypeOK /\ CpmInv /\ CpcInv

LEMMA Prices ==
  ASSUME NEW n \in Nat
  PROVE  /\ Price(n) \in Nat /\ Price(0) = 0 /\ Price(n + 1) = Price(n) + AdPrice
         /\ \A m \in Nat : m <= n => Price(m) <= Price(n)
  BY AdAssumption DEF Price

\* What a step serves: an impression or click of the kind that is billed, or nothing.
LEMMA ServedType == ASSUME AdsTypeOK PROVE Served \in Nat
  BY DEF AdsTypeOK, Served

LEMMA RecordedServes ==
  ASSUME AdsTypeOK, NEW kind \in {"cpm", "cpc"}, Recorded(kind), UNCHANGED billing
  PROVE  /\ Served' = IF kind = billing THEN Served + 1 ELSE Served
         /\ impressions' \in Nat /\ clicks' \in Nat /\ unrecorded' \in Nat
  BY DEF AdsTypeOK, Recorded, Served

LEMMA OthersServeNothing ==
  ASSUME UNCHANGED <<served, billing>> PROVE Served' = Served
  BY DEF served, Served

LEMMA UnreadFinite == IsFiniteSet(Unread) /\ Cardinality(Unread) \in Nat
  BY AdAssumption, FS_Subset, FS_CardinalityType DEF Unread

LEMMA AdsInitInv == ASSUME AdsInit PROVE AdsInv
  <1> USE AdAssumption
  <1>1. AdsTypeOK
    BY DEF AdsInit, AdsTypeOK, AdRequests, CampaignStatuses, NoAd
  <1>2. Unread = {}
    BY DEF AdsInit, Unread, NoAd
  <1>3. Cardinality(Unread) = 0
    BY <1>2, FS_EmptySet
  <1>4. Price(0) = 0
    BY Prices
  <1>5. Served = 0
    BY DEF AdsInit, Served
  <1>6. CpmInv /\ CpcInv
    BY <1>3, <1>4, <1>5 DEF AdsInit, CpmInv, CpcInv, NoAd
  <1> QED BY <1>1, <1>6 DEF AdsInv

LEMMA AdRequestTypes ==
  ASSUME AdsTypeOK, NEW c \in AdCalls
  PROVE  /\ adCall[c].pc \in {"show", "bill"} => adCall[c].spent \in Nat
         /\ adCall[c].pc \in {"idle", "show", "bill", "click", "read"}
  BY DEF AdsTypeOK, AdRequests, NoAd

LEMMA AdsTypeStep == ASSUME AdsTypeOK, [AdsNext]_adVars PROVE AdsTypeOK'
  <1> USE AdAssumption DEF served
  <1>1. ASSUME NEW s \in CampaignStatuses, SetCampaignStatus(s) PROVE AdsTypeOK'
    BY <1>1 DEF SetCampaignStatus, AdsTypeOK
  <1>2. ASSUME NEW c \in AdCalls, ServeAdReads(c) PROVE AdsTypeOK'
    BY <1>2 DEF ServeAdReads, AdsTypeOK, AdRequests, ShowsFirst
  <1>3. ASSUME NEW c \in AdCalls, ServeAdShows(c) PROVE AdsTypeOK'
    <2>1. adCall[c].spent \in Nat
      BY <1>3, AdRequestTypes DEF ServeAdShows
    <2>2. impressions' \in Nat /\ clicks' \in Nat /\ unrecorded' \in Nat
      BY <1>3, RecordedServes DEF ServeAdShows
    <2> QED BY <1>3, <2>1, <2>2 DEF ServeAdShows, AdsTypeOK, AdRequests
  <1>4. ASSUME NEW c \in AdCalls, RecordAdClickReads(c) PROVE AdsTypeOK'
    BY <1>4 DEF RecordAdClickReads, AdsTypeOK, AdRequests
  <1>5. ASSUME NEW c \in AdCalls, RecordAdClickRecords(c) PROVE AdsTypeOK'
    <2>1. impressions' \in Nat /\ clicks' \in Nat /\ unrecorded' \in Nat
      BY <1>5, RecordedServes DEF RecordAdClickRecords
    <2> QED BY <1>5, <2>1 DEF RecordAdClickRecords, AdsTypeOK, AdRequests
  <1>6. ASSUME NEW c \in AdCalls, RecordAdClickReadsSpent(c) PROVE AdsTypeOK'
    BY <1>6 DEF RecordAdClickReadsSpent, AdsTypeOK, AdRequests
  <1>7. ASSUME NEW c \in AdCalls, BillCampaign(c) PROVE AdsTypeOK'
    <2>1. adCall[c].spent + AdPrice \in Nat
      BY <1>7, AdRequestTypes DEF BillCampaign
    <2> QED BY <1>7, <2>1 DEF BillCampaign, AdsTypeOK, AdRequests
  <1>8. ASSUME NEW c \in AdCalls, AdCallDies(c) PROVE AdsTypeOK'
    BY <1>8 DEF AdCallDies, AdsTypeOK, AdRequests
  <1>9. CASE UNCHANGED adVars
    BY <1>9 DEF adVars, AdsTypeOK
  <1> QED BY <1>1, <1>2, <1>3, <1>4, <1>5, <1>6, <1>7, <1>8, <1>9 DEF AdsNext

LEMMA CpmStep == ASSUME AdsInv, [AdsNext]_adVars PROVE CpmInv'
  <1> USE AdAssumption
  <1>0. AdsTypeOK /\ CpmInv
    BY DEF AdsInv
  <1>p. /\ Served \in Nat /\ Price(Served) \in Nat
        /\ Price(Served + 1) = Price(Served) + AdPrice
    BY <1>0, ServedType, Prices
  <1>t. \A c \in AdCalls :
          /\ adCall[c].pc \in {"show", "bill"} => adCall[c].spent \in Nat
          /\ adCall[c].pc \in {"idle", "show", "bill", "click", "read"}
    BY <1>0, AdRequestTypes
  <1> USE <1>0, <1>p, <1>t DEF CpmInv, AdsTypeOK, NoAd
  <1>1. ASSUME NEW s \in CampaignStatuses, SetCampaignStatus(s) PROVE CpmInv'
    BY <1>1, OthersServeNothing DEF SetCampaignStatus
  <1>2. ASSUME NEW c \in AdCalls, ServeAdReads(c) PROVE CpmInv'
    BY <1>2, OthersServeNothing DEF ServeAdReads, ShowsFirst
  <1>3. ASSUME NEW c \in AdCalls, ServeAdShows(c) PROVE CpmInv'
    <2>1. Served' = IF "cpm" = billing THEN Served + 1 ELSE Served
      BY <1>3, RecordedServes DEF ServeAdShows
    <2> QED BY <1>3, <2>1 DEF ServeAdShows
  <1>4. ASSUME NEW c \in AdCalls, RecordAdClickReads(c) PROVE CpmInv'
    BY <1>4, OthersServeNothing DEF RecordAdClickReads
  <1>5. ASSUME NEW c \in AdCalls, RecordAdClickRecords(c) PROVE CpmInv'
    <2>1. Served' = IF "cpc" = billing THEN Served + 1 ELSE Served
      BY <1>5, RecordedServes DEF RecordAdClickRecords
    <2> QED BY <1>5, <2>1 DEF RecordAdClickRecords
  <1>6. ASSUME NEW c \in AdCalls, RecordAdClickReadsSpent(c) PROVE CpmInv'
    BY <1>6, OthersServeNothing DEF RecordAdClickReadsSpent
  <1>7. ASSUME NEW c \in AdCalls, BillCampaign(c) PROVE CpmInv'
    BY <1>7, OthersServeNothing DEF BillCampaign
  <1>8. ASSUME NEW c \in AdCalls, AdCallDies(c) PROVE CpmInv'
    BY <1>8, OthersServeNothing DEF AdCallDies
  <1>9. CASE UNCHANGED adVars
    BY <1>9, OthersServeNothing DEF adVars
  <1> QED BY <1>1, <1>2, <1>3, <1>4, <1>5, <1>6, <1>7, <1>8, <1>9 DEF AdsNext

LEMMA CpcStep == ASSUME AdsInv, [AdsNext]_adVars PROVE CpcInv'
  <1> USE AdAssumption
  <1> DEFINE open == Cardinality(Unread)
  <1>0. AdsTypeOK /\ CpcInv /\ spent \in Nat /\ Served \in Nat
    BY ServedType DEF AdsInv, AdsTypeOK
  <1>f. IsFiniteSet(Unread) /\ open \in Nat
    BY UnreadFinite
  <1>p. /\ Price(Served) \in Nat /\ Price(Served + 1) = Price(Served) + AdPrice
        /\ Price(open) \in Nat /\ Price(open + 1) = Price(open) + AdPrice
    BY <1>0, <1>f, Prices
  <1>t. \A c \in AdCalls :
          /\ adCall[c].pc \in {"show", "bill"} => adCall[c].spent \in Nat
          /\ adCall[c].pc \in {"idle", "show", "bill", "click", "read"}
    BY <1>0, AdRequestTypes
  <1>i. billing = "cpc" =>
          /\ spent + Price(open) <= Price(Served)
          /\ \A c \in AdCalls :
               adCall[c].pc = "bill" => adCall[c].spent + Price(open + 1) <= Price(Served)
    BY <1>0 DEF CpcInv
  \* The steps that leave what is unread, the sum and what was served alone and bill nothing new.
  <1>s. ASSUME Unread' = Unread, UNCHANGED <<billing, spent>>, Served' = Served,
               \A c \in AdCalls : adCall'[c].pc = "bill" => adCall'[c] = adCall[c] \/ billing = "cpm"
        PROVE  CpcInv'
    <2>1. Cardinality(Unread') = open
      BY <1>s
    <2> HIDE DEF open
    <2> QED BY <1>i, <1>s, <2>1, <1>t DEF CpcInv
  <1>1. ASSUME NEW s \in CampaignStatuses, SetCampaignStatus(s) PROVE CpcInv'
    BY <1>1, <1>s, OthersServeNothing DEF SetCampaignStatus, Unread
  <1>2. ASSUME NEW c \in AdCalls, ServeAdReads(c) PROVE CpcInv'
    BY <1>0, <1>2, <1>s, OthersServeNothing DEF ServeAdReads, ShowsFirst, Unread, AdsTypeOK, NoAd
  <1>3. ASSUME NEW c \in AdCalls, ServeAdShows(c) PROVE CpcInv'
    <2>1. Served' = IF "cpm" = billing THEN Served + 1 ELSE Served
      BY <1>0, <1>3, RecordedServes DEF ServeAdShows
    <2>2. CASE billing = "cpc"
      BY <1>0, <1>3, <1>s, <2>1, <2>2 DEF ServeAdShows, Unread, AdsTypeOK, NoAd
    <2>3. CASE billing # "cpc"
      BY <1>3, <2>3 DEF ServeAdShows, CpcInv
    <2> QED BY <2>2, <2>3
  <1>4. ASSUME NEW c \in AdCalls, RecordAdClickReads(c) PROVE CpcInv'
    BY <1>0, <1>4, <1>s, OthersServeNothing DEF RecordAdClickReads, Unread, AdsTypeOK, NoAd
  <1>5. ASSUME NEW c \in AdCalls, RecordAdClickRecords(c) PROVE CpcInv'
    <2>1. Unread' = Unread \cup {c} /\ c \notin Unread
      BY <1>0, <1>5 DEF RecordAdClickRecords, Unread, AdsTypeOK
    <2>2. Cardinality(Unread') = open + 1
      BY <2>1, <1>f, FS_AddElement
    <2>3. open + 1 \in Nat
      BY <1>f
    <2>5. Price((open + 1) + 1) = Price(open + 1) + AdPrice
      BY <2>3, Prices
    <2>4. /\ UNCHANGED <<billing, spent>> /\ (billing = "cpc" => Served' = Served + 1)
          /\ \A d \in AdCalls : adCall'[d].pc = "bill" => adCall'[d] = adCall[d]
      BY <1>0, <1>5, RecordedServes DEF RecordAdClickRecords, AdsTypeOK
    <2> HIDE DEF open
    <2> QED BY <1>0, <1>f, <1>i, <1>p, <1>t, <2>2, <2>3, <2>4, <2>5 DEF CpcInv
  <1>6. ASSUME NEW c \in AdCalls, RecordAdClickReadsSpent(c) PROVE CpcInv'
    <2>1. Unread' = Unread \ {c} /\ c \in Unread
      BY <1>0, <1>6 DEF RecordAdClickReadsSpent, Unread, AdsTypeOK, NoAd
    <2>2. Cardinality(Unread') = open - 1 /\ open # 0
      BY <2>1, <1>f, FS_RemoveElement, FS_EmptySet
    <2> DEFINE rest == open - 1
    <2>3. rest \in Nat /\ rest + 1 = open
      BY <2>2, <1>f
    <2>4. Price(rest) \in Nat /\ Price(rest + 1) = Price(rest) + AdPrice
      BY <2>3, Prices
    <2>5. /\ UNCHANGED <<billing, spent>> /\ Served' = Served
          /\ \A d \in AdCalls : adCall'[d].pc = "bill" =>
               adCall'[d] = adCall[d] \/ adCall'[d].spent = spent
      BY <1>0, <1>6, OthersServeNothing DEF RecordAdClickReadsSpent, AdsTypeOK, NoAd
    <2>6. Cardinality(Unread') = rest
      BY <2>2
    <2> HIDE DEF open, rest
    <2> QED BY <1>0, <1>f, <1>i, <1>p, <1>t, <2>3, <2>4, <2>5, <2>6 DEF CpcInv
  <1>7. ASSUME NEW c \in AdCalls, BillCampaign(c) PROVE CpcInv'
    <2>1. Unread' = Unread
      BY <1>0, <1>7 DEF BillCampaign, Unread, AdsTypeOK, NoAd
    <2>2. /\ UNCHANGED billing /\ Served' = Served
          /\ spent' \in {spent, adCall[c].spent + AdPrice}
          /\ \A d \in AdCalls : adCall'[d].pc = "bill" => adCall'[d] = adCall[d]
          /\ adCall[c].pc = "bill" /\ adCall[c].spent \in Nat
      BY <1>0, <1>7, <1>t, OthersServeNothing DEF BillCampaign, AdsTypeOK, NoAd
    <2>3. Cardinality(Unread') = open
      BY <2>1
    <2> HIDE DEF open
    <2> QED BY <1>0, <1>f, <1>i, <1>p, <1>t, <2>2, <2>3 DEF CpcInv
  <1>8. ASSUME NEW c \in AdCalls, AdCallDies(c) PROVE CpcInv'
    <2>1. Unread' \subseteq Unread
      BY <1>0, <1>8 DEF AdCallDies, Unread, AdsTypeOK, NoAd
    <2>2. Cardinality(Unread') \in Nat /\ Cardinality(Unread') <= open
      BY <2>1, <1>f, FS_Subset, FS_CardinalityType
    <2> DEFINE less == Cardinality(Unread')
    <2>3. /\ Price(less) \in Nat /\ Price(less) <= Price(open) /\ Price(less + 1) = Price(less) + AdPrice
      BY <2>2, <1>f, Prices
    <2>4. /\ UNCHANGED <<billing, spent>> /\ Served' = Served
          /\ \A d \in AdCalls : adCall'[d].pc = "bill" => adCall'[d] = adCall[d]
      BY <1>0, <1>8, OthersServeNothing DEF AdCallDies, AdsTypeOK, NoAd
    <2> HIDE DEF open
    <2> QED BY <1>0, <1>f, <1>i, <1>p, <1>t, <2>2, <2>3, <2>4 DEF CpcInv
  <1>9. CASE UNCHANGED adVars
    BY <1>9, <1>s, OthersServeNothing DEF adVars, Unread
  <1> QED BY <1>1, <1>2, <1>3, <1>4, <1>5, <1>6, <1>7, <1>8, <1>9 DEF AdsNext

\* Whatever races, dies or fails unnoticed, for any number of calls, prices and budgets: an
\* advertiser is never billed for more than was served, nor a price over the budget for
\* impressions (serveAd, recordAdClick).
THEOREM ServedIsBilled == AdsSpec => []NeverOverbilled
  <1>1. AdsInit => AdsInv
    BY AdsInitInv
  <1>2. AdsInv /\ [AdsNext]_adVars => AdsInv'
    BY AdsTypeStep, CpmStep, CpcStep DEF AdsInv
  <1>3. AdsInv => NeverOverbilled
    <2> SUFFICES ASSUME AdsInv PROVE NeverOverbilled
      OBVIOUS
    <2>1. /\ Price(Cardinality(Unread)) \in Nat /\ spent \in Nat
          /\ Price(Served) \in Nat /\ billing \in {"cpm", "cpc"}
      BY UnreadFinite, ServedType, Prices DEF AdsInv, AdsTypeOK
    <2>2. billing = "cpm" => spent <= Price(Served) /\ spent < AdBudget + AdPrice
      BY DEF AdsInv, CpmInv
    <2>3. billing = "cpc" => spent <= Price(Served)
      BY <2>1 DEF AdsInv, CpcInv
    <2> QED BY <2>1, <2>2, <2>3 DEF NeverOverbilled, Price
  <1> QED BY <1>1, <1>2, <1>3, PTL DEF AdsSpec

----------------------------------------------------------------------------
(* A trip                                                                  *)

LEMMA TripAmounts == Commission \in Nat /\ Fare \in Nat /\ Fee \in Nat /\ Fee > 0
  BY SplitIsExact, RideAssumption DEF Commission

\* What a step may leave a call with.
LEMMA GoesTypes ==
  ASSUME call \in [RideCalls -> RideRequests], NEW c \in RideCalls,
         NEW next \in RideRequests, Goes(c, next)
  PROVE  call' \in [RideCalls -> RideRequests]
  BY DEF Goes

LEMMA DoneTypes ==
  ASSUME call \in [RideCalls -> RideRequests], NEW c \in RideCalls, Done(c)
  PROVE  call' \in [RideCalls -> RideRequests]
  <1>1. Waiting \in RideRequests
    BY DEF RideRequests
  <1> QED BY <1>1, GoesTypes DEF Done

\* The fields of a request by its step.
LEMMA RequestFields ==
  ASSUME RideTypeOK, NEW c \in RideCalls
  PROVE  /\ call[c].pc = "accept" => call[c].driver \in Drivers
         /\ call[c].pc = "status" => call[c].to \in {"arriving"} \cup Cancelled
         /\ call[c].pc = "complete" => call[c].commission \in {0, Commission}
  <1> HIDE DEF Commission, Cancelled
  <1>1. call[c] \in RideRequests
    BY DEF RideTypeOK
  <1> QED BY <1>1 DEF RideRequests, Waiting

\* A call on its way through the ledger.
LEMMA LedgerFields ==
  ASSUME RideTypeOK, NEW c \in RideCalls, call[c].pc \in {"credit", "deduct"}
  PROVE  /\ call[c].fare \in {0, Fare} /\ call[c].commission \in {0, Commission}
         /\ call[c].cash \in BOOLEAN
         /\ [call[c] EXCEPT !.pc = "deduct"] \in RideRequests
         /\ [call[c] EXCEPT !.pc = "deduct"].pc = "deduct"
         /\ call[c].fare \in Nat /\ call[c].fare <= Fare
         /\ call[c].commission \in Nat /\ call[c].commission <= Commission
  <1> DEFINE Ledger == [pc : {"credit", "deduct"}, cash : BOOLEAN, fare : {0, Fare},
                        commission : {0, Commission}]
  <1> HIDE DEF Commission, Cancelled
  <1>1. call[c] \in RideRequests
    BY DEF RideTypeOK
  <1>2. call[c] \in Ledger
    BY <1>1 DEF RideRequests, Waiting
  <1>3. [call[c] EXCEPT !.pc = "deduct"] \in Ledger /\ [call[c] EXCEPT !.pc = "deduct"].pc = "deduct"
    BY <1>2
  <1>4. [call[c] EXCEPT !.pc = "deduct"] \in RideRequests
    BY <1>3 DEF RideRequests
  <1> QED BY <1>2, <1>3, <1>4, TripAmounts

\* wallet_post: the row is there, and money moved once for it.
LEMMA PostEffect ==
  ASSUME posted \subseteq Entries, moved \in [Entries -> Nat],
         NEW e \in Entries, NEW amount \in Nat, Post(e, amount)
  PROVE  /\ posted' = posted \cup {e} /\ posted' \subseteq Entries
         /\ moved' \in [Entries -> Nat]
         /\ \A f \in Entries \ {e} : moved'[f] = moved[f]
         /\ moved'[e] = IF e \in posted THEN moved[e] ELSE moved[e] + amount
  BY DEF Post

LEMMA TripTypeInit == ASSUME RideInit PROVE RideTypeOK
  <1>1. [pc |-> "offer", exclude |-> Nobody] \in RideRequests /\ Waiting \in RideRequests
    BY DEF RideRequests
  <1>2. call \in [RideCalls -> RideRequests]
    BY <1>1 DEF RideInit
  <1> HIDE DEF RideRequests
  <1> QED BY <1>2, TripAmounts DEF RideInit, RideTypeOK, Statuses, Entries

LEMMA TripTypeStep == ASSUME RideTypeOK, [RideNext]_rideVars PROVE RideTypeOK'
  <1> USE TripAmounts DEF tripRow, wallets
  <1>t. /\ status \in Statuses /\ driver \in Drivers \cup {Nobody}
        /\ offered \in Drivers \cup {Nobody} /\ live \in BOOLEAN
        /\ fare \in {0, Fare} /\ commission \in {0, Commission}
        /\ payStatus \in {"pending", "paid", "failed", "cash_collected"}
        /\ momo \in [Collections -> {"none", "pending", "successful", "failed"}]
        /\ posted \subseteq Entries /\ moved \in [Entries -> Nat]
        /\ call \in [RideCalls -> RideRequests]
    BY DEF RideTypeOK
  <1> HIDE DEF RideRequests, Commission
  <1>1. CASE ExpireStaleTrips
    BY <1>t, <1>1 DEF ExpireStaleTrips, RideTypeOK, Statuses, Closed, Cancelled
  <1>2. CASE OfferLapses
    BY <1>t, <1>2 DEF OfferLapses, RideTypeOK
  <1>3. ASSUME NEW c \in RideCalls, OfferToNearestDriver(c) PROVE RideTypeOK'
    BY <1>t, <1>3, DoneTypes DEF OfferToNearestDriver, RideTypeOK
  <1>4. ASSUME NEW c \in RideCalls, ListOpenTrips(c) PROVE RideTypeOK'
    <2>1. [pc |-> "offer", exclude |-> offered] \in RideRequests
      BY <1>t DEF RideRequests
    <2> QED BY <1>t, <1>4, <2>1, GoesTypes DEF ListOpenTrips, RideTypeOK
  <1>5. ASSUME NEW c \in RideCalls, NEW d \in Drivers, AcceptTripReads(c, d) PROVE RideTypeOK'
    <2>1. [pc |-> "accept", driver |-> d] \in RideRequests
      BY DEF RideRequests
    <2> QED BY <1>t, <1>5, <2>1, GoesTypes DEF AcceptTripReads, RideTypeOK
  <1>6. ASSUME NEW c \in RideCalls, AcceptTripClaims(c) PROVE RideTypeOK'
    <2>1. call[c].driver \in Drivers
      BY <1>6, RequestFields DEF AcceptTripClaims
    <2> QED BY <1>t, <1>6, <2>1, DoneTypes DEF AcceptTripClaims, RideTypeOK, Statuses
  <1>7. ASSUME NEW c \in RideCalls, SetTripStatusReads(c) PROVE RideTypeOK'
    <2>0. PICK to \in {"arriving"} \cup Cancelled :
            \E f \in CancellationFee(to) : Goes(c, [pc |-> "status", to |-> to, fee |-> f])
      BY <1>7 DEF SetTripStatusReads
    <2>1. PICK fee \in CancellationFee(to) : Goes(c, [pc |-> "status", to |-> to, fee |-> fee])
      BY <2>0
    <2>2. fee \in {0, Fee}
      BY DEF CancellationFee
    <2>3. [pc |-> "status", to |-> to, fee |-> fee] \in RideRequests
      BY <2>2 DEF RideRequests
    <2> QED BY <1>t, <1>7, <2>1, <2>3, GoesTypes DEF SetTripStatusReads, RideTypeOK
  <1>8. ASSUME NEW c \in RideCalls, SetTripStatusWrites(c) PROVE RideTypeOK'
    <2>1. call[c].to \in {"arriving"} \cup Cancelled
      BY <1>8, RequestFields DEF SetTripStatusWrites
    <2>2. ChargeFirst \in RideRequests
      BY DEF ChargeFirst, RideRequests
    <2>3. call' \in [RideCalls -> RideRequests]
      BY <1>t, <1>8, <2>2, GoesTypes, DoneTypes DEF SetTripStatusWrites
    <2> QED BY <1>t, <1>8, <2>1, <2>3 DEF SetTripStatusWrites, RideTypeOK, Statuses, Closed
  <1>9. ASSUME NEW c \in RideCalls, ChargeRider(c) PROVE RideTypeOK'
    <2>1. [pc |-> "compensate"] \in RideRequests
      BY DEF RideRequests
    <2>2. posted' \subseteq Entries /\ moved' \in [Entries -> Nat]
      BY <1>t, <1>9, PostEffect DEF ChargeRider, Entries
    <2> QED BY <1>t, <1>9, <2>1, <2>2, GoesTypes DEF ChargeRider, RideTypeOK
  <1>10. ASSUME NEW c \in RideCalls, CompensateDriver(c) PROVE RideTypeOK'
    <2>1. posted' \subseteq Entries /\ moved' \in [Entries -> Nat]
      BY <1>t, <1>10, PostEffect DEF CompensateDriver, Entries
    <2> QED BY <1>t, <1>10, <2>1, DoneTypes DEF CompensateDriver, RideTypeOK
  <1>11. ASSUME NEW c \in RideCalls, StartTripReads(c) PROVE RideTypeOK'
    <2>1. [pc |-> "start"] \in RideRequests
      BY DEF RideRequests
    <2> QED BY <1>t, <1>11, <2>1, GoesTypes DEF StartTripReads, RideTypeOK
  <1>12. ASSUME NEW c \in RideCalls, StartTripWrites(c) PROVE RideTypeOK'
    BY <1>t, <1>12, DoneTypes DEF StartTripWrites, RideTypeOK, Statuses
  <1>13. ASSUME NEW c \in RideCalls, CompleteTripReads(c) PROVE RideTypeOK'
    <2>1. PICK cash \in BOOLEAN :
            Goes(c, [pc |-> "complete", cash |-> cash, commission |-> commission])
      BY <1>13 DEF CompleteTripReads
    <2>2. [pc |-> "complete", cash |-> cash, commission |-> commission] \in RideRequests
      BY <1>t DEF RideRequests
    <2> QED BY <1>t, <1>13, <2>1, <2>2, GoesTypes DEF CompleteTripReads, RideTypeOK
  <1>14. ASSUME NEW c \in RideCalls, CompleteTripWrites(c) PROVE RideTypeOK'
    <2>1. call[c].commission \in {0, Commission}
      BY <1>14, RequestFields DEF CompleteTripWrites
    <2>2. [pc |-> "credit", cash |-> TRUE, fare |-> Fare, commission |-> call[c].commission]
            \in RideRequests
      BY <2>1 DEF RideRequests
    <2>3. call' \in [RideCalls -> RideRequests]
      BY <1>t, <1>14, <2>2, GoesTypes, DoneTypes DEF CompleteTripWrites
    <2> QED BY <1>t, <1>14, <2>1, <2>3 DEF CompleteTripWrites, RideTypeOK, Statuses, Closed
  <1>15. ASSUME NEW c \in RideCalls, ForceCancelReads(c) PROVE RideTypeOK'
    <2>1. [pc |-> "force"] \in RideRequests
      BY DEF RideRequests
    <2> QED BY <1>t, <1>15, <2>1, GoesTypes DEF ForceCancelReads, RideTypeOK
  <1>16. ASSUME NEW c \in RideCalls, ForceCancelWrites(c) PROVE RideTypeOK'
    BY <1>t, <1>16, DoneTypes DEF ForceCancelWrites, RideTypeOK, Statuses, Closed, Cancelled
  <1>17. ASSUME NEW c \in RideCalls, NEW p \in Collections, AskMomo(c, p) PROVE RideTypeOK'
    <2>1. [pc |-> "asked"] \in RideRequests
      BY DEF RideRequests
    <2> QED BY <1>t, <1>17, <2>1, GoesTypes DEF AskMomo, RideTypeOK
  <1>18. ASSUME NEW c \in RideCalls, NEW p \in Collections, MomoCallback(c, p) PROVE RideTypeOK'
    <2>1. [pc |-> "verify"] \in RideRequests /\ [pc |-> "fail"] \in RideRequests
      BY DEF RideRequests
    <2>2. call' \in [RideCalls -> RideRequests]
      BY <1>t, <1>18, <2>1, GoesTypes DEF MomoCallback
    <2> QED BY <1>t, <1>18, <2>2 DEF MomoCallback, RideTypeOK
  <1>19. ASSUME NEW c \in RideCalls, AwaitMomo(c) PROVE RideTypeOK'
    BY <1>t, <1>19, DoneTypes DEF AwaitMomo, RideTypeOK
  <1>20. ASSUME NEW c \in RideCalls, MomoFails(c) PROVE RideTypeOK'
    BY <1>t, <1>20, DoneTypes DEF MomoFails, FailedPayment, RideTypeOK
  <1>21. ASSUME NEW c \in RideCalls, VerifyPayment(c) PROVE RideTypeOK'
    <2>1. [pc |-> "credit", cash |-> FALSE, fare |-> fare, commission |-> commission] \in RideRequests
      BY <1>t DEF RideRequests
    <2>2. call' \in [RideCalls -> RideRequests]
      BY <1>t, <1>21, <2>1, GoesTypes, DoneTypes DEF VerifyPayment
    <2> QED BY <1>t, <1>21, <2>2 DEF VerifyPayment, RideTypeOK
  <1>22. ASSUME NEW c \in RideCalls, CreditDriver(c) PROVE RideTypeOK'
    <2>1. /\ call[c].fare \in {0, Fare} /\ call[c].commission \in {0, Commission}
          /\ call[c].cash \in BOOLEAN
      BY <1>22, LedgerFields DEF CreditDriver
    <2>2. [call[c] EXCEPT !.pc = "deduct"] \in RideRequests
      BY <1>22, LedgerFields DEF CreditDriver
    <2>3. posted' \subseteq Entries /\ moved' \in [Entries -> Nat]
      BY <1>t, <1>22, <2>1, PostEffect DEF CreditDriver, Entries
    <2> QED BY <1>t, <1>22, <2>2, <2>3, GoesTypes DEF CreditDriver, RideTypeOK
  <1>23. ASSUME NEW c \in RideCalls, DeductCommission(c) PROVE RideTypeOK'
    <2>1. call[c].commission \in Nat
      BY <1>23, LedgerFields DEF DeductCommission
    <2>2. posted' \subseteq Entries /\ moved' \in [Entries -> Nat]
      BY <1>t, <1>23, <2>1, PostEffect DEF DeductCommission, Entries
    <2> QED BY <1>t, <1>23, <2>2, DoneTypes DEF DeductCommission, RideTypeOK
  <1>24. ASSUME NEW c \in RideCalls, CallDies(c) PROVE RideTypeOK'
    BY <1>t, <1>24, DoneTypes DEF CallDies, RideTypeOK
  <1>25. CASE UNCHANGED rideVars
    BY <1>t, <1>25 DEF rideVars, RideTypeOK
  <1> QED BY <1>1, <1>2, <1>3, <1>4, <1>5, <1>6, <1>7, <1>8, <1>9, <1>10, <1>11, <1>12, <1>13, <1>14,
             <1>15, <1>16, <1>17, <1>18, <1>19, <1>20, <1>21, <1>22, <1>23, <1>24, <1>25 DEF RideNext, CallStep

\* The trip row, its payments, its ledger and its calls stay in their types, for any
\* number of drivers, calls and collections (trips.functions.ts, momo.server.ts).
THEOREM TripTypeCorrect == RideSpec => []RideTypeOK
  BY TripTypeInit, TripTypeStep, PTL DEF RideSpec

\* A claimed trip has left "requested" for good: the claim of acceptTrip and the update
\* of expireStaleTrips match nothing any more.
Unclaimed == driver # Nobody => status # "requested"

LEMMA UnclaimedStep ==
  ASSUME RideTypeOK, Unclaimed, [RideNext]_rideVars
  PROVE  Unclaimed' /\ (driver # Nobody => driver' = driver)
  <1> USE DEF tripRow, wallets
  <1>1. CASE ExpireStaleTrips
    BY <1>1 DEF ExpireStaleTrips, Unclaimed
  <1>2. ASSUME NEW c \in RideCalls, AcceptTripClaims(c)
        PROVE  Unclaimed' /\ (driver # Nobody => driver' = driver)
    BY <1>2 DEF AcceptTripClaims, StillFree, Unclaimed
  <1>3. ASSUME NEW c \in RideCalls, SetTripStatusWrites(c)
        PROVE  status' # "requested" /\ driver' = driver
    <2>1. call[c].to \in {"arriving"} \cup Cancelled
      BY <1>3, RequestFields DEF SetTripStatusWrites
    <2> QED BY <1>3, <2>1 DEF SetTripStatusWrites, Cancelled
  <1>4. ASSUME NEW c \in RideCalls,
               StartTripWrites(c) \/ CompleteTripWrites(c) \/ ForceCancelWrites(c)
        PROVE  status' # "requested" /\ driver' = driver
    BY <1>4 DEF StartTripWrites, CompleteTripWrites, ForceCancelWrites
  <1>5. CASE OfferLapses
    BY <1>5 DEF OfferLapses, Unclaimed
  <1>6. ASSUME NEW c \in RideCalls,
               \/ OfferToNearestDriver(c) \/ ListOpenTrips(c)
               \/ \E d \in Drivers : AcceptTripReads(c, d)
               \/ SetTripStatusReads(c) \/ ChargeRider(c) \/ CompensateDriver(c)
               \/ StartTripReads(c) \/ CompleteTripReads(c) \/ ForceCancelReads(c)
        PROVE  UNCHANGED <<status, driver>>
    BY <1>6 DEF OfferToNearestDriver, ListOpenTrips, AcceptTripReads, SetTripStatusReads,
                ChargeRider, CompensateDriver, StartTripReads, CompleteTripReads, ForceCancelReads
  <1>7. ASSUME NEW c \in RideCalls,
               \/ \E p \in Collections : AskMomo(c, p) \/ MomoCallback(c, p)
               \/ AwaitMomo(c) \/ MomoFails(c) \/ VerifyPayment(c)
               \/ CreditDriver(c) \/ DeductCommission(c) \/ CallDies(c)
        PROVE  UNCHANGED <<status, driver>>
    BY <1>7 DEF AskMomo, MomoCallback, AwaitMomo, MomoFails, VerifyPayment, CreditDriver,
                DeductCommission, CallDies
  <1>8. CASE UNCHANGED rideVars
    BY <1>8 DEF rideVars, Unclaimed
  <1> QED BY <1>1, <1>2, <1>3, <1>4, <1>5, <1>6, <1>7, <1>8 DEF RideNext, CallStep, Unclaimed

\* For any number of drivers and calls, nobody takes a trip from the driver who claimed
\* it (acceptTrip, offerToNearestDriver, expireStaleTrips).
THEOREM OneDriver == RideSpec => ClaimedOnce
  <1>1. RideInit => Unclaimed
    BY DEF RideInit, Unclaimed
  <1>2. RideTypeOK /\ Unclaimed /\ [RideNext]_rideVars =>
          Unclaimed' /\ [driver # Nobody => driver' = driver]_rideVars
    BY UnclaimedStep
  <1> QED BY <1>1, <1>2, TripTypeCorrect, PTL DEF RideSpec, ClaimedOnce

----------------------------------------------------------------------------
(* The ledger of a trip                                                    *)

\* Four steps post; any other leaves the wallets and sends no call to the compensation.
LEMMA WhoPosts ==
  ASSUME RideTypeOK, [RideNext]_rideVars
  PROVE  \/ \E c \in RideCalls : \/ ChargeRider(c) \/ CompensateDriver(c)
                                 \/ CreditDriver(c) \/ DeductCommission(c)
         \/ /\ posted' = posted /\ moved' = moved
            /\ \A c \in RideCalls : call'[c].pc = "compensate" => call[c].pc = "compensate"
  <1> DEFINE Quiet == /\ posted' = posted /\ moved' = moved
                      /\ \A b \in RideCalls : call'[b].pc = "compensate" => call[b].pc = "compensate"
  <1> USE DEF tripRow, wallets
  <1>t. call \in [RideCalls -> RideRequests]
    BY DEF RideTypeOK
  <1>n. Waiting.pc # "compensate"
    BY DEF Waiting
  <1>g. ASSUME NEW c \in RideCalls, NEW next, Goes(c, next), next.pc # "compensate",
               posted' = posted, moved' = moved
        PROVE  Quiet
    BY <1>t, <1>g DEF Goes
  <1>d. ASSUME NEW c \in RideCalls, Done(c), posted' = posted, moved' = moved PROVE Quiet
    BY <1>g, <1>n, <1>d DEF Done
  <1>1. ASSUME ExpireStaleTrips \/ OfferLapses \/ UNCHANGED rideVars PROVE Quiet
    BY <1>1 DEF ExpireStaleTrips, OfferLapses, rideVars
  <1>2. ASSUME NEW c \in RideCalls,
               \/ OfferToNearestDriver(c) \/ AcceptTripClaims(c) \/ StartTripWrites(c)
               \/ ForceCancelWrites(c) \/ AwaitMomo(c) \/ MomoFails(c) \/ CallDies(c)
        PROVE  Quiet
    BY <1>2, <1>d DEF OfferToNearestDriver, AcceptTripClaims, StartTripWrites, ForceCancelWrites,
                      AwaitMomo, MomoFails, CallDies
  <1>3. ASSUME NEW c \in RideCalls,
               \/ ListOpenTrips(c) \/ StartTripReads(c) \/ ForceCancelReads(c)
               \/ \E d \in Drivers : AcceptTripReads(c, d)
               \/ \E p \in Collections : AskMomo(c, p) \/ MomoCallback(c, p)
               \/ SetTripStatusReads(c) \/ CompleteTripReads(c)
        PROVE  Quiet
    <2>1. posted' = posted /\ moved' = moved /\ \E next : Goes(c, next) /\ next.pc # "compensate"
      <3>1. CASE ListOpenTrips(c) \/ StartTripReads(c) \/ ForceCancelReads(c)
        BY <3>1 DEF ListOpenTrips, StartTripReads, ForceCancelReads
      <3>2. ASSUME NEW d \in Drivers, AcceptTripReads(c, d)
            PROVE  posted' = posted /\ moved' = moved /\ \E next : Goes(c, next) /\ next.pc # "compensate"
        BY <3>2 DEF AcceptTripReads
      <3>3. ASSUME NEW p \in Collections, AskMomo(c, p) \/ MomoCallback(c, p)
            PROVE  posted' = posted /\ moved' = moved /\ \E next : Goes(c, next) /\ next.pc # "compensate"
        BY <3>3 DEF AskMomo, MomoCallback
      <3>4. CASE SetTripStatusReads(c)
        BY <3>4 DEF SetTripStatusReads
      <3>5. CASE CompleteTripReads(c)
        BY <3>5 DEF CompleteTripReads
      <3> QED BY <1>3, <3>1, <3>2, <3>3, <3>4, <3>5
    <2> HIDE DEF Quiet
    <2> QED BY <2>1, <1>g
  <1>4. ASSUME NEW c \in RideCalls, SetTripStatusWrites(c) PROVE Quiet
    <2>1. ChargeFirst.pc # "compensate"
      BY DEF ChargeFirst
    <2> QED BY <1>4, <2>1, <1>d, <1>g DEF SetTripStatusWrites
  <1>5. ASSUME NEW c \in RideCalls, CompleteTripWrites(c) PROVE Quiet
    BY <1>5, <1>d, <1>g DEF CompleteTripWrites
  <1>6. ASSUME NEW c \in RideCalls, VerifyPayment(c) PROVE Quiet
    BY <1>6, <1>d, <1>g DEF VerifyPayment
  <1> HIDE DEF Quiet
  <1>7. Quiet \/ \E c \in RideCalls : \/ ChargeRider(c) \/ CompensateDriver(c)
                                      \/ CreditDriver(c) \/ DeductCommission(c)
    <2>1. CASE ExpireStaleTrips \/ OfferLapses \/ UNCHANGED rideVars
      BY <1>1, <2>1
    <2>2. ASSUME ~(ExpireStaleTrips \/ OfferLapses \/ UNCHANGED rideVars)
          PROVE  \E c \in RideCalls : CallStep(c)
      BY <2>2 DEF RideNext
    <2>3. ASSUME NEW c \in RideCalls, CallStep(c)
          PROVE  \/ Quiet
                 \/ ChargeRider(c) \/ CompensateDriver(c) \/ CreditDriver(c) \/ DeductCommission(c)
      BY <2>3, <1>2, <1>3, <1>4, <1>5, <1>6 DEF CallStep
    <2>4. ASSUME NEW c \in RideCalls, CallStep(c)
          PROVE  Quiet \/ \E b \in RideCalls : \/ ChargeRider(b) \/ CompensateDriver(b)
                                              \/ CreditDriver(b) \/ DeductCommission(b)
      BY <2>3, <2>4, Zenon
    <2> QED BY <2>1, <2>2, <2>4, Zenon
  <1> QED BY <1>7 DEF Quiet

\* The fee is charged once and before it is paid out; a credit and a commission have
\* moved nothing before their row is posted, and once at most after.
FeeInv ==
  /\ moved["cancellation_fee"] = IF "cancellation_fee" \in posted THEN Fee ELSE 0
  /\ moved["cancellation_payout"] = IF "cancellation_payout" \in posted THEN Fee ELSE 0
  /\ "cancellation_payout" \in posted => "cancellation_fee" \in posted
  /\ \A c \in RideCalls : call[c].pc = "compensate" => "cancellation_fee" \in posted
CreditInv ==
  /\ moved["trip_credit"] <= Fare /\ ("trip_credit" \notin posted => moved["trip_credit"] = 0)
  /\ moved["commission"] <= Commission /\ ("commission" \notin posted => moved["commission"] = 0)
LedgerInv == RideTypeOK /\ FeeInv /\ CreditInv

LEMMA LedgerInit == ASSUME RideInit PROVE LedgerInv
  <1>1. RideTypeOK
    BY TripTypeInit
  <1>2. CreditInv
    BY TripAmounts DEF RideInit, CreditInv, Entries
  <1>3. \A c \in RideCalls : call[c].pc # "compensate"
    BY DEF RideInit, Waiting
  <1> QED BY <1>1, <1>2, <1>3 DEF RideInit, LedgerInv, FeeInv, Entries

LEMMA LedgerStep == ASSUME LedgerInv, [RideNext]_rideVars PROVE LedgerInv'
  <1>t. /\ RideTypeOK /\ FeeInv /\ CreditInv /\ RideTypeOK'
        /\ posted \subseteq Entries /\ moved \in [Entries -> Nat]
        /\ call \in [RideCalls -> RideRequests]
    BY TripTypeStep DEF LedgerInv, RideTypeOK
  <1>e. {"trip_credit", "commission", "commission_owed", "cancellation_fee", "cancellation_payout"} = Entries
    BY DEF Entries
  <1> USE TripAmounts DEF tripRow, wallets
  <1> HIDE DEF Commission, Entries, RideRequests
  <1>1. ASSUME NEW c \in RideCalls, ChargeRider(c) PROVE FeeInv' /\ CreditInv'
    <2>1. /\ posted' = posted \cup {"cancellation_fee"}
          /\ \A f \in Entries \ {"cancellation_fee"} : moved'[f] = moved[f]
          /\ moved'["cancellation_fee"] = Fee
      BY <1>1, <1>t, <1>e, PostEffect DEF ChargeRider, FeeInv
    <2> QED BY <2>1, <1>t, <1>e DEF FeeInv, CreditInv
  <1>2. ASSUME NEW c \in RideCalls, CompensateDriver(c) PROVE FeeInv' /\ CreditInv'
    <2>1. /\ posted' = posted \cup {"cancellation_payout"}
          /\ \A f \in Entries \ {"cancellation_payout"} : moved'[f] = moved[f]
          /\ moved'["cancellation_payout"] = Fee
      BY <1>2, <1>t, <1>e, PostEffect DEF CompensateDriver, FeeInv
    <2>2. "cancellation_fee" \in posted
      BY <1>2, <1>t DEF CompensateDriver, FeeInv
    <2> QED BY <2>1, <2>2, <1>t, <1>e DEF FeeInv, CreditInv
  <1>3. ASSUME NEW c \in RideCalls, CreditDriver(c) PROVE FeeInv' /\ CreditInv'
    <2>1. PICK amount \in Nat : amount <= Fare /\ Post("trip_credit", amount)
      BY <1>3, <1>t, LedgerFields DEF CreditDriver
    <2>2. /\ posted' = posted \cup {"trip_credit"}
          /\ \A f \in Entries \ {"trip_credit"} : moved'[f] = moved[f]
          /\ moved'["trip_credit"] =
               IF "trip_credit" \in posted THEN moved["trip_credit"] ELSE moved["trip_credit"] + amount
      BY <2>1, <1>t, <1>e, PostEffect
    <2>3. \A b \in RideCalls : call'[b].pc = "compensate" => call[b].pc = "compensate"
      <3>1. [call[c] EXCEPT !.pc = "deduct"].pc # "compensate"
        BY <1>3, <1>t, LedgerFields DEF CreditDriver
      <3> QED BY <1>3, <1>t, <3>1 DEF CreditDriver, Goes
    <2> QED BY <2>1, <2>2, <2>3, <1>t, <1>e DEF FeeInv, CreditInv
  <1>4. ASSUME NEW c \in RideCalls, DeductCommission(c) PROVE FeeInv' /\ CreditInv'
    <2>1. PICK e \in {"commission", "commission_owed"}, amount \in Nat :
            amount <= Commission /\ Post(e, amount)
      BY <1>4, <1>t, LedgerFields DEF DeductCommission
    <2>2. /\ posted' = posted \cup {e}
          /\ \A f \in Entries \ {e} : moved'[f] = moved[f]
          /\ moved'[e] = IF e \in posted THEN moved[e] ELSE moved[e] + amount
      BY <2>1, <1>t, <1>e, PostEffect
    <2>3. \A b \in RideCalls : call'[b].pc = "compensate" => call[b].pc = "compensate"
      BY <1>4, <1>t DEF DeductCommission, Done, Goes, Waiting
    <2> QED BY <2>1, <2>2, <2>3, <1>t, <1>e DEF FeeInv, CreditInv
  <1>5. ASSUME posted' = posted, moved' = moved,
               \A c \in RideCalls : call'[c].pc = "compensate" => call[c].pc = "compensate"
        PROVE  FeeInv' /\ CreditInv'
    BY <1>t, <1>5 DEF FeeInv, CreditInv
  <1> QED BY <1>t, <1>1, <1>2, <1>3, <1>4, <1>5, WhoPosts DEF LedgerInv

\* However many cancellations race or die half way, for any fee and any number of calls,
\* the driver's compensation never exceeds what the rider was charged (setTripStatus).
THEOREM FeeBeforePayout == RideSpec => []DriverKeepsTheFee
  <1>1. LedgerInv => DriverKeepsTheFee
    BY TripAmounts DEF LedgerInv, FeeInv, DriverKeepsTheFee
  <1> QED BY <1>1, LedgerInit, LedgerStep, PTL DEF RideSpec

\* For any number of collections, repeated callbacks and crashes, a driver is credited
\* one fare and loses one commission for a trip (applyTripLedger, wallet_post).
LEMMA OneCredit == RideSpec => [](moved["trip_credit"] <= Fare /\ moved["commission"] <= Commission)
  <1>1. LedgerInv => moved["trip_credit"] <= Fare /\ moved["commission"] <= Commission
    BY DEF LedgerInv, CreditInv
  <1> QED BY <1>1, LedgerInit, LedgerStep, PTL DEF RideSpec

----------------------------------------------------------------------------
(* A payment is verified before anybody is credited                        *)

Verified == \E p \in Collections : momo[p] = "successful"
\* A call that holds the money of a collection, and what stands for money that moved.
Holds(request) == request.pc = "verify" \/ (request.pc = "credit" /\ ~request.cash)
NotPaidYet ==
  /\ payStatus # "paid" /\ moved["trip_credit"] = 0
  /\ \A c \in RideCalls : ~Holds(call[c])
MoneyInv == RideTypeOK /\ (Verified \/ NotPaidYet)

\* A callback that succeeded stays.
LEMMA VerifiedStays == ASSUME RideTypeOK, [RideNext]_rideVars, Verified PROVE Verified'
  <1> USE DEF tripRow, wallets
  <1>t. momo \in [Collections -> {"none", "pending", "successful", "failed"}]
    BY DEF RideTypeOK
  <1>1. CASE UNCHANGED momo
    BY <1>1 DEF Verified
  <1>2. ASSUME NEW c \in RideCalls, NEW p \in Collections, AskMomo(c, p) \/ MomoCallback(c, p)
        PROVE  Verified'
    <2>1. PICK q \in Collections : momo[q] = "successful"
      BY DEF Verified
    <2>2. momo'[q] = "successful"
      BY <1>t, <1>2, <2>1 DEF AskMomo, MomoCallback
    <2> QED BY <2>2 DEF Verified
  <1>3. ASSUME NEW c \in RideCalls,
               \/ OfferToNearestDriver(c) \/ ListOpenTrips(c)
               \/ \E d \in Drivers : AcceptTripReads(c, d)
               \/ AcceptTripClaims(c) \/ SetTripStatusReads(c) \/ SetTripStatusWrites(c)
               \/ ChargeRider(c) \/ CompensateDriver(c) \/ StartTripReads(c) \/ StartTripWrites(c)
        PROVE  UNCHANGED momo
    BY <1>3 DEF OfferToNearestDriver, ListOpenTrips, AcceptTripReads, AcceptTripClaims,
                SetTripStatusReads, SetTripStatusWrites, ChargeRider, CompensateDriver,
                StartTripReads, StartTripWrites
  <1>4. ASSUME NEW c \in RideCalls,
               \/ CompleteTripReads(c) \/ CompleteTripWrites(c)
               \/ ForceCancelReads(c) \/ ForceCancelWrites(c)
               \/ AwaitMomo(c) \/ MomoFails(c) \/ VerifyPayment(c)
               \/ CreditDriver(c) \/ DeductCommission(c) \/ CallDies(c)
        PROVE  UNCHANGED momo
    BY <1>4 DEF CompleteTripReads, CompleteTripWrites, ForceCancelReads, ForceCancelWrites,
                AwaitMomo, MomoFails, VerifyPayment, CreditDriver, DeductCommission, CallDies
  <1>5. CASE ExpireStaleTrips \/ OfferLapses \/ UNCHANGED rideVars
    BY <1>1, <1>5 DEF ExpireStaleTrips, OfferLapses, rideVars
  <1> QED BY <1>1, <1>2, <1>3, <1>4, <1>5 DEF RideNext, CallStep

\* Until a collection succeeds, nothing is paid, credited or on its way to be.
LEMMA NotPaidYetStep == ASSUME RideTypeOK, [RideNext]_rideVars, NotPaidYet PROVE Verified' \/ NotPaidYet'
  <1> USE DEF tripRow, wallets
  <1>t. /\ call \in [RideCalls -> RideRequests] /\ moved \in [Entries -> Nat]
        /\ momo \in [Collections -> {"none", "pending", "successful", "failed"}]
        /\ payStatus # "paid" /\ moved["trip_credit"] = 0 /\ \A b \in RideCalls : ~Holds(call[b])
    BY DEF RideTypeOK, NotPaidYet
  <1>e. {"trip_credit", "commission", "commission_owed", "cancellation_fee", "cancellation_payout"} = Entries
    BY DEF Entries
  <1>w. ~Holds(Waiting)
    BY DEF Holds, Waiting
  <1> HIDE DEF RideRequests, Entries, Commission
  <1>g. ASSUME NEW c \in RideCalls, NEW next, Goes(c, next), ~Holds(next),
               payStatus' # "paid", moved'["trip_credit"] = 0
        PROVE  NotPaidYet'
    <2>1. \A b \in RideCalls : call'[b] = next \/ call'[b] = call[b]
      BY <1>t, <1>g DEF Goes
    <2>2. \A b \in RideCalls : ~Holds(call'[b])
      BY <1>t, <1>g, <2>1
    <2> QED BY <1>g, <2>2 DEF NotPaidYet, Holds
  <1>d. ASSUME NEW c \in RideCalls, Done(c), payStatus' # "paid", moved'["trip_credit"] = 0
        PROVE  NotPaidYet'
    BY <1>g, <1>w, <1>d DEF Done
  <1> HIDE DEF Holds, NotPaidYet
  <1>1. ASSUME ExpireStaleTrips \/ OfferLapses \/ UNCHANGED rideVars PROVE NotPaidYet'
    BY <1>1 DEF ExpireStaleTrips, OfferLapses, rideVars, NotPaidYet, Holds
  <1>2. ASSUME NEW c \in RideCalls,
               \/ OfferToNearestDriver(c) \/ AcceptTripClaims(c) \/ StartTripWrites(c)
               \/ ForceCancelWrites(c) \/ AwaitMomo(c) \/ MomoFails(c) \/ CallDies(c)
        PROVE  NotPaidYet'
    BY <1>2, <1>t, <1>d DEF OfferToNearestDriver, AcceptTripClaims, StartTripWrites,
                            ForceCancelWrites, AwaitMomo, MomoFails, FailedPayment, CallDies
  <1>3. ASSUME NEW c \in RideCalls,
               \/ ListOpenTrips(c) \/ StartTripReads(c) \/ ForceCancelReads(c)
               \/ SetTripStatusReads(c) \/ CompleteTripReads(c)
               \/ \E d \in Drivers : AcceptTripReads(c, d)
               \/ \E p \in Collections : AskMomo(c, p)
        PROVE  NotPaidYet'
    <2>1. /\ payStatus' = payStatus /\ moved' = moved
          /\ \E next : Goes(c, next) /\ next.pc \notin {"verify", "credit"}
      <3> DEFINE Quiet == /\ payStatus' = payStatus /\ moved' = moved
                          /\ \E next : Goes(c, next) /\ next.pc \notin {"verify", "credit"}
      <3>1. ASSUME ListOpenTrips(c) \/ StartTripReads(c) \/ ForceCancelReads(c) PROVE Quiet
        BY <3>1 DEF ListOpenTrips, StartTripReads, ForceCancelReads
      <3>2. ASSUME NEW d \in Drivers, AcceptTripReads(c, d) PROVE Quiet
        BY <3>2 DEF AcceptTripReads
      <3>3. ASSUME NEW p \in Collections, AskMomo(c, p) PROVE Quiet
        BY <3>3 DEF AskMomo
      <3>4. ASSUME SetTripStatusReads(c) PROVE Quiet
        BY <3>4 DEF SetTripStatusReads
      <3>5. ASSUME CompleteTripReads(c) PROVE Quiet
        BY <3>5 DEF CompleteTripReads
      <3> HIDE DEF Quiet
      <3>6. Quiet
        BY <1>3, <3>1, <3>2, <3>3, <3>4, <3>5
      <3> QED BY <3>6 DEF Quiet
    <2>2. PICK next : Goes(c, next) /\ next.pc \notin {"verify", "credit"}
      BY <2>1
    <2>3. ~Holds(next)
      BY <2>2 DEF Holds
    <2> QED BY <1>t, <1>g, <2>1, <2>2, <2>3
  <1>4. ASSUME NEW c \in RideCalls, SetTripStatusWrites(c) PROVE NotPaidYet'
    <2>1. ~Holds(ChargeFirst)
      BY DEF ChargeFirst, Holds
    <2> QED BY <1>4, <1>t, <2>1, <1>d, <1>g DEF SetTripStatusWrites
  <1>5. ASSUME NEW c \in RideCalls, CompleteTripWrites(c) PROVE NotPaidYet'
    <2>1. ~Holds([pc |-> "credit", cash |-> TRUE, fare |-> Fare, commission |-> call[c].commission])
      BY DEF Holds
    <2>2. payStatus' # "paid" /\ moved' = moved
      BY <1>5 DEF CompleteTripWrites
    <2> QED BY <1>5, <1>t, <2>1, <2>2, <1>d, <1>g DEF CompleteTripWrites
  <1>6. ASSUME NEW c \in RideCalls, NEW p \in Collections, MomoCallback(c, p)
        PROVE  Verified' \/ NotPaidYet'
    <2>1. PICK outcome \in {"successful", "failed"} :
            /\ momo' = [momo EXCEPT ![p] = outcome]
            /\ Goes(c, [pc |-> IF outcome = "successful" THEN "verify" ELSE "fail"])
      BY <1>6 DEF MomoCallback
    <2>2. CASE outcome = "successful"
      BY <1>t, <2>1, <2>2 DEF Verified
    <2>3. CASE outcome = "failed"
      <3>1. ~Holds([pc |-> IF outcome = "successful" THEN "verify" ELSE "fail"])
        BY <2>3 DEF Holds
      <3> QED BY <1>6, <1>t, <2>1, <3>1, <1>g DEF MomoCallback
    <2> QED BY <2>2, <2>3
  <1>7. ASSUME NEW c \in RideCalls, VerifyPayment(c) PROVE FALSE
    BY <1>7, <1>t DEF VerifyPayment, Holds
  <1>8. ASSUME NEW c \in RideCalls, CreditDriver(c) PROVE NotPaidYet'
    <2>1. call[c].cash /\ Post("trip_credit", 0)
      BY <1>8, <1>t, LedgerFields DEF CreditDriver, Holds
    <2>2. moved'["trip_credit"] = 0
      BY <1>t, <1>e, <2>1, PostEffect DEF RideTypeOK
    <2>3. ~Holds([call[c] EXCEPT !.pc = "deduct"])
      BY <1>8, LedgerFields DEF CreditDriver, Holds
    <2> QED BY <1>8, <1>t, <2>2, <2>3, <1>g DEF CreditDriver
  <1>9. ASSUME NEW c \in RideCalls, ChargeRider(c) \/ CompensateDriver(c) \/ DeductCommission(c)
        PROVE  NotPaidYet'
    <2>1. PICK e \in Entries \ {"trip_credit"}, amount \in Nat : Post(e, amount)
      BY <1>9, <1>e, TripAmounts, LedgerFields DEF ChargeRider, CompensateDriver, DeductCommission
    <2>2. moved'["trip_credit"] = 0
      BY <1>t, <1>e, <2>1, PostEffect DEF RideTypeOK
    <2>3. ~Holds([pc |-> "compensate"])
      BY DEF Holds
    <2> QED BY <1>9, <1>t, <2>2, <2>3, <1>d, <1>g DEF ChargeRider, CompensateDriver, DeductCommission
  <1> QED BY <1>1, <1>2, <1>3, <1>4, <1>5, <1>6, <1>7, <1>8, <1>9 DEF RideNext, CallStep

\* For any number of collections, calls and drivers, a trip is paid or its fare credited
\* only after a collection succeeded, and its driver is credited one fare and loses one
\* commission (settleMomoCollection, completeTrip, applyTripLedger).
THEOREM PaidOnce == RideSpec => []PaidOnceForMoney
  <1>1. RideInit => MoneyInv
    <2> SUFFICES ASSUME RideInit PROVE MoneyInv
      OBVIOUS
    <2>1. \A c \in RideCalls : ~Holds(call[c])
      BY DEF RideInit, Holds, Waiting
    <2> QED BY <2>1, TripTypeInit DEF RideInit, MoneyInv, NotPaidYet, Entries
  <1>2. MoneyInv /\ [RideNext]_rideVars => MoneyInv'
    BY TripTypeStep, VerifiedStays, NotPaidYetStep DEF MoneyInv
  <1>3. MoneyInv /\ moved["trip_credit"] <= Fare /\ moved["commission"] <= Commission => PaidOnceForMoney
    BY DEF MoneyInv, NotPaidYet, Verified, PaidOnceForMoney
  <1> QED BY <1>1, <1>2, <1>3, OneCredit, PTL DEF RideSpec

----------------------------------------------------------------------------
(* The wallet: the savings a repayment counts on                           *)

\* An installment was deducted once.
Deducted(i) == HasRow(<<"loan_installment", i>>)

\* The installment a repayment takes next.
TakesNext(r, i) ==
  \/ r.pc = "repay" /\ i = r.next
  \/ r.pc = "mark" /\ i \in Unpaid(r.paid) /\ i > r.next
     /\ \A j \in Unpaid(r.paid) : j > r.next => i <= j

\* A repayment reaches an installment after the earlier ones; what it believes
\* of the savings holds until somebody deducts that very installment.
RepaymentSound(r) ==
  /\ r.pc \in {"due", "repay", "mark"} => \A i \in Installments : r.paid[i] > 0 => Deducted(i)
  /\ r.pc = "due" => Unpaid(r.paid) # {}
  /\ r.pc = "mark" => Deducted(r.next) /\ r.take <= Remaining(r.next, r.paid)
  /\ \A i \in Installments : TakesNext(r, i) =>
       /\ Deducted(i) \/ r.savings <= savings
       /\ \A j \in Installments : j < i => Deducted(j)

RepaymentInv ==
  /\ \A i \in Installments : paidAmount[i] > 0 => Deducted(i)
  /\ \A c \in WalletCalls : RepaymentSound(walletCall[c])

\* A commission of the trip was taken, or is owed.
HasCommission(t) == HasRow(<<"commission", t>>) \/ HasRow(<<"commission_owed", t>>)

\* What a call that nobody disturbs is about to take is there.
TakesWhatIsThere(r) ==
  /\ r.pc = "commission" /\ r.method = "momo" =>
       HasCommission(r.trip) \/ CommissionOf(TripFare) <= balance + DoubleCommission
  /\ r.pc = "swept" => r.amount <= balance
  /\ r.pc = "settle" => r.amount <= balance /\ r.amount <= owed
  /\ r.pc = "payout" => CashOutAmount <= balance

\* No call has credited a trip without having posted a commission, or being about to.
CommissionFollows(t) ==
  HasRow(<<"trip_credit", t>>) =>
    \/ HasCommission(t)
    \/ \E c \in WalletCalls : walletCall[c].pc = "commission" /\ walletCall[c].trip = t

SolventInv ==
  ~disturbed =>
    /\ balance + DoubleCommission >= 0 /\ owed >= 0
    /\ \A c, d \in WalletCalls : walletCall[c] # Free /\ walletCall[d] # Free => c = d
    /\ \A c \in WalletCalls : TakesWhatIsThere(walletCall[c])
    /\ \A t \in Trips : CommissionFollows(t)

WalletInv == WalletTypeOK /\ RepaymentInv

\* A set of numbers that is not empty has a least one.
LEMMA LeastExists ==
  ASSUME NEW T \in SUBSET Nat, T # {}
  PROVE  \E n \in T : \A m \in T : n <= m
  <1> DEFINE below(n) == 0..(n - 1)
             Family == {below(n) : n \in T}
  <1>1. Family \subseteq FiniteSubsetsOf(Nat) /\ Family # {}
    <2>1. ASSUME NEW n \in T PROVE below(n) \in FiniteSubsetsOf(Nat)
      <3>1. n - 1 \in Int /\ 0 \in Int
        OBVIOUS
      <3>2. IsFiniteSet(below(n))
        BY <3>1, FS_Interval
      <3> QED BY <3>2 DEF FiniteSubsetsOf
    <2> QED BY <2>1
  <1>2. IsWellFoundedOn(StrictSubsetOrdering(Nat), FiniteSubsetsOf(Nat))
    BY FS_StrictSubsetOrderingWellFounded
  <1>3. PICK x \in Family : \A y \in Family : <<y, x>> \notin StrictSubsetOrdering(Nat)
    <2> HIDE DEF Family
    <2> QED BY <1>1, <1>2, WFMin
  <1>4. PICK n \in T : x = below(n)
    BY <1>3
  <1>5. ASSUME NEW m \in T, m < n PROVE FALSE
    <2>1. below(m) \in Family /\ below(m) \in SUBSET Nat /\ below(n) \in SUBSET Nat
      OBVIOUS
    <2>2. below(m) \subseteq below(n) /\ m \in below(n) /\ m \notin below(m)
      BY <1>5
    <2>3. <<below(m), x>> \in StrictSubsetOrdering(Nat)
      BY <1>4, <2>1, <2>2 DEF StrictSubsetOrdering
    <2> QED BY <1>3, <2>1, <2>3
  <1>6. ASSUME NEW m \in T PROVE n <= m
    <2>1. n \in Nat /\ m \in Nat /\ ~(m < n)
      BY <1>4, <1>5
    <2> QED BY <2>1
  <1> QED BY <1>4, <1>6

\* The earliest of some installments is one of them, and before all others.
LEMMA FirstIsLeast ==
  ASSUME NEW S \in SUBSET Installments, S # {}
  PROVE  First(S) \in S /\ \A j \in S : First(S) <= j
  BY LeastExists, WalletAssumption DEF First

LEMMA WalletAmounts ==
  /\ CommissionOf(TripFare) \in Nat /\ CommissionOf(TripFare) <= TripFare
  /\ TripFare \in Nat /\ Sweep \in Nat /\ TopUpAmount \in Nat
  /\ CashOutAmount \in Nat \ {0} /\ InstallmentAmount \in Nat \ {0}
  BY SplitIsExact, WalletAssumption

\* What a request of each kind has read.
LEMMA WalletFields ==
  ASSUME WalletTypeOK, NEW c \in WalletCalls
  PROVE  LET r == walletCall[c] IN
           /\ r.pc \in {"credit", "commission", "sweep", "swept"} =>
                r.trip \in Trips /\ r.method \in PayMethods
           /\ r.pc = "swept" => r.amount \in 1..Sweep
           /\ r.pc \in {"owed", "settle"} => r.for \in Settlements
           /\ r.pc = "settle" => r.amount \in Nat \ {0}
           /\ r.pc \in {"due", "repay", "mark"} => r.paid \in DueRows
           /\ r.pc \in {"repay", "mark"} => r.next \in Installments /\ r.savings \in Nat
           /\ r.pc = "mark" => r.take \in 1..InstallmentAmount
           /\ r.pc = "topup" => r.ref \in TopUps
  <1>1. walletCall[c] \in WalletRequests
    BY DEF WalletTypeOK
  <1> HIDE DEF DueRows, Sweep, Settlements, PayMethods
  <1> QED BY <1>1 DEF WalletRequests, Free

\* The requests that are no repayment of the loan.
Elsewhere == {r \in WalletRequests : r.pc \notin {"due", "repay", "mark"}}

LEMMA ElsewhereRequests ==
  /\ Free \in Elsewhere
  /\ \A pc \in {"balance", "payout", "loan"} : [pc |-> pc] \in Elsewhere
  /\ \A t \in Trips :
       \A m \in PayMethods :
         /\ \A pc \in {"credit", "commission", "sweep"} :
              [pc |-> pc, trip |-> t, method |-> m] \in Elsewhere
         /\ \A a \in 1..Sweep : [pc |-> "swept", trip |-> t, method |-> m, amount |-> a] \in Elsewhere
         /\ AfterSweep(t, m) \in Elsewhere
  /\ \A ref \in Settlements :
       /\ [pc |-> "owed", for |-> ref] \in Elsewhere
       /\ \A a \in Nat \ {0} : [pc |-> "settle", for |-> ref, amount |-> a] \in Elsewhere
       /\ AfterSettlement(ref) \in Elsewhere
  /\ \A p \in TopUps : [pc |-> "topup", ref |-> p] \in Elsewhere
  <1> HIDE DEF Sweep, DueRows
  <1> QED BY DEF Elsewhere, WalletRequests, Free, AfterSweep, AfterSettlement, Settlements, PayMethods

\* Such a request counts on no savings.
LEMMA ElsewhereSound ==
  ASSUME NEW r \in Elsewhere
  PROVE  RepaymentSound(r) /\ RepaymentSound(r)'
  BY DEF Elsewhere, RepaymentSound, TakesNext

\* A step of a call that takes nothing from the savings nor marks an installment.
LEMMA WalletGrows ==
  ASSUME WalletInv, NEW c \in WalletCalls, NEW next \in WalletRequests,
         walletCall' = [walletCall EXCEPT ![c] = next], RepaymentSound(next)',
         balance' \in Int, owed' \in Int, savings' \in Nat, savings' >= savings,
         ledger \subseteq ledger', ledger' \subseteq Postings,
         topUp' \in [TopUps -> {"none", "pending", "successful", "failed"}],
         disturbed' \in BOOLEAN, UNCHANGED <<paidAmount, taken>>
  PROVE  WalletInv'
  <1> HIDE DEF DueRows, WalletRequests, Postings
  <1>1. WalletTypeOK'
    BY DEF WalletInv, WalletTypeOK
  <1>2. \A b \in WalletCalls : walletCall'[b] = IF b = c THEN next ELSE walletCall[b]
    BY DEF WalletInv, WalletTypeOK
  <1>3. \A i : Deducted(i) => Deducted(i)'
    BY DEF Deducted, HasRow
  <1>4. ASSUME NEW b \in WalletCalls, b # c PROVE RepaymentSound(walletCall[b])'
    <2>1. RepaymentSound(walletCall[b])
      BY DEF WalletInv, RepaymentInv
    <2>2. ASSUME NEW i \in Installments, TakesNext(walletCall[b], i), walletCall[b].savings <= savings
          PROVE  walletCall[b].savings <= savings'
      <3>1. walletCall[b].savings \in Nat
        BY <2>2, WalletFields DEF TakesNext, WalletInv
      <3> QED BY <2>2, <3>1 DEF WalletInv, WalletTypeOK
    <2> QED BY <1>3, <2>1, <2>2 DEF RepaymentSound, TakesNext
  <1>5. RepaymentInv'
    BY <1>2, <1>3, <1>4 DEF WalletInv, RepaymentInv, RepaymentSound, TakesNext
  <1> QED BY <1>1, <1>5 DEF WalletInv

\* What one posting does, when it leaves the savings solvent.
LEMMA WalletPostEffect ==
  ASSUME WalletTypeOK, NEW key \in Postings, NEW delta \in Int, NEW s \in Int, NEW o \in Int,
         WalletPost(key, delta, s, o), HasRow(key) \/ savings + s >= 0
  PROVE  /\ balance' \in Int /\ owed' \in Int /\ savings' \in Nat
         /\ ledger' = ledger \cup {key} /\ ledger' \subseteq Postings
         /\ IF HasRow(key) THEN UNCHANGED wallet
            ELSE balance' = balance + delta /\ savings' = savings + s /\ owed' = owed + o
  <1> HIDE DEF Postings
  <1> QED BY DEF WalletTypeOK, WalletPost, HasRow, Moves, wallet

LEMMA PostingKeys ==
  /\ \A t \in Settlements : \A type \in {"trip_credit", "commission", "commission_owed",
                                          "savings_sweep", "commission_settled"} :
       <<type, t>> \in Postings
  /\ \A i \in Installments : <<"loan_installment", i>> \in Postings
  /\ \A p \in TopUps : <<"topup", p>> \in Postings
  /\ Trips \subseteq Settlements
  BY DEF Postings, Settlements

\* Beginning, going on and ending say what the call does next.
LEMMA CallMoves ==
  ASSUME WalletTypeOK, NEW c \in WalletCalls, NEW next, Begins(c, next) \/ GoesOn(c, next)
  PROVE  walletCall' = [walletCall EXCEPT ![c] = next] /\ disturbed' \in BOOLEAN
  BY Zenon DEF Begins, GoesOn, WalletTypeOK

LEMMA WalletInitInv == ASSUME WalletInit PROVE WalletInv
  <1>1. WalletTypeOK
    <2>1. paidAmount \in DueRows
      BY WalletAmounts DEF WalletInit, DueRows
    <2>2. walletCall \in [WalletCalls -> WalletRequests]
      BY ElsewhereRequests DEF WalletInit, Elsewhere
    <2>3. balance \in Int /\ savings \in Nat /\ owed \in Int /\ ledger \subseteq Postings
      BY DEF WalletInit
    <2>d. disturbed \in BOOLEAN
      BY Zenon DEF WalletInit
    <2>4. /\ topUp \in [TopUps -> {"none", "pending", "successful", "failed"}]
          /\ taken \in [Installments -> Nat]
      BY DEF WalletInit
    <2> HIDE DEF DueRows, WalletRequests, Postings
    <2> QED BY <2>1, <2>2, <2>3, <2>d, <2>4 DEF WalletTypeOK
  <1>2. RepaymentInv
    BY DEF WalletInit, RepaymentInv, RepaymentSound, TakesNext, Free
  <1> QED BY <1>1, <1>2 DEF WalletInv

\* A call that only reads and is no repayment.
LEMMA WalletReads ==
  ASSUME WalletInv, NEW c \in WalletCalls, NEW next \in Elsewhere,
         Begins(c, next) \/ GoesOn(c, next),
         topUp' \in [TopUps -> {"none", "pending", "successful", "failed"}],
         UNCHANGED <<wallet, paidAmount, taken>>
  PROVE  WalletInv'
  <1>1. walletCall' = [walletCall EXCEPT ![c] = next] /\ disturbed' \in BOOLEAN
    BY CallMoves DEF WalletInv
  <1>2. RepaymentSound(next)' /\ next \in WalletRequests
    BY ElsewhereSound DEF Elsewhere
  <1>3. /\ balance' \in Int /\ owed' \in Int /\ savings' \in Nat /\ savings' >= savings
        /\ ledger \subseteq ledger' /\ ledger' \subseteq Postings
    BY DEF WalletInv, WalletTypeOK, wallet
  <1> QED BY <1>1, <1>2, <1>3, WalletGrows

\* A call that posts something but a repayment.
LEMMA WalletAdds ==
  ASSUME WalletInv, NEW c \in WalletCalls, NEW next \in Elsewhere, GoesOn(c, next),
         NEW key \in Postings, NEW delta \in Int, NEW s \in Nat, NEW o \in Int,
         WalletPost(key, delta, s, o), UNCHANGED <<paidAmount, topUp, taken>>
  PROVE  WalletInv'
  <1>1. walletCall' = [walletCall EXCEPT ![c] = next] /\ disturbed' \in BOOLEAN
    BY CallMoves DEF WalletInv
  <1>2. RepaymentSound(next)' /\ next \in WalletRequests
    BY ElsewhereSound DEF Elsewhere
  <1>3. savings \in Nat /\ topUp \in [TopUps -> {"none", "pending", "successful", "failed"}]
    BY DEF WalletInv, WalletTypeOK
  <1>4. /\ balance' \in Int /\ owed' \in Int /\ savings' \in Nat
        /\ ledger' = ledger \cup {key} /\ ledger' \subseteq Postings
        /\ IF HasRow(key) THEN UNCHANGED wallet
           ELSE balance' = balance + delta /\ savings' = savings + s /\ owed' = owed + o
    BY <1>3, WalletPostEffect DEF WalletInv
  <1>5. savings' >= savings
    BY <1>3, <1>4 DEF wallet
  <1> QED BY <1>1, <1>2, <1>3, <1>4, <1>5, WalletGrows

LEMMA TripPostingsStep ==
  ASSUME WalletInv, NEW c \in WalletCalls,
         CreditsTrip(c) \/ TakesCommission(c) \/ SweepPosts(c) \/ TopUpPosts(c)
  PROVE  WalletInv'
  <1>1. CASE CreditsTrip(c)
    <2> DEFINE t == walletCall[c].trip
               m == walletCall[c].method
    <2>1. t \in Trips /\ m \in PayMethods
      BY <1>1, WalletFields DEF WalletInv, CreditsTrip
    <2>2. [pc |-> "commission", trip |-> t, method |-> m] \in Elsewhere /\ <<"trip_credit", t>> \in Postings
      BY <2>1, ElsewhereRequests, PostingKeys
    <2>3. (IF m = "cash" THEN 0 ELSE TripFare) \in Int
      BY WalletAmounts
    <2>4. /\ WalletPost(<<"trip_credit", t>>, IF m = "cash" THEN 0 ELSE TripFare, 0, 0)
          /\ GoesOn(c, [pc |-> "commission", trip |-> t, method |-> m])
          /\ UNCHANGED <<paidAmount, topUp, taken>>
      BY <1>1 DEF CreditsTrip
    <2> QED BY <2>2, <2>3, <2>4, WalletAdds
  <1>2. CASE TakesCommission(c)
    <2> DEFINE t == walletCall[c].trip
               m == walletCall[c].method
    <2>1. t \in Trips /\ m \in PayMethods
      BY <1>2, WalletFields DEF WalletInv, TakesCommission
    <2>2. /\ [pc |-> "sweep", trip |-> t, method |-> m] \in Elsewhere
          /\ <<"commission", t>> \in Postings /\ <<"commission_owed", t>> \in Postings
      BY <2>1, ElsewhereRequests, PostingKeys
    <2>3. GoesOn(c, [pc |-> "sweep", trip |-> t, method |-> m]) /\ UNCHANGED <<paidAmount, topUp, taken>>
      BY <1>2 DEF TakesCommission
    <2>4. \/ WalletPost(<<"commission_owed", t>>, 0, 0, CommissionOf(TripFare))
          \/ WalletPost(<<"commission", t>>, -CommissionOf(TripFare), 0, 0)
      BY <1>2 DEF TakesCommission
    <2>5. CommissionOf(TripFare) \in Int /\ -CommissionOf(TripFare) \in Int
      BY WalletAmounts
    <2> QED BY <2>2, <2>3, <2>4, <2>5, WalletAdds
  <1>3. CASE SweepPosts(c)
    <2> DEFINE t == walletCall[c].trip
               m == walletCall[c].method
               amount == walletCall[c].amount
    <2>1. t \in Trips /\ m \in PayMethods /\ amount \in 1..Sweep
      BY <1>3, WalletFields DEF WalletInv, SweepPosts
    <2>2. AfterSweep(t, m) \in Elsewhere /\ <<"savings_sweep", t>> \in Postings
      BY <2>1, ElsewhereRequests, PostingKeys
    <2>3. /\ WalletPost(<<"savings_sweep", t>>, -amount, amount, 0)
          /\ GoesOn(c, AfterSweep(t, m)) /\ UNCHANGED <<paidAmount, topUp, taken>>
      BY <1>3 DEF SweepPosts
    <2>4. amount \in Nat /\ -amount \in Int
      BY <2>1, WalletAmounts
    <2> QED BY <2>2, <2>3, <2>4, WalletAdds
  <1>4. CASE TopUpPosts(c)
    <2>1. walletCall[c].ref \in TopUps
      BY <1>4, WalletFields DEF WalletInv, TopUpPosts
    <2>2. Free \in Elsewhere /\ <<"topup", walletCall[c].ref>> \in Postings
      BY <2>1, ElsewhereRequests, PostingKeys
    <2>3. /\ WalletPost(<<"topup", walletCall[c].ref>>, TopUpAmount, 0, 0)
          /\ GoesOn(c, Free) /\ UNCHANGED <<paidAmount, topUp, taken>>
      BY <1>4 DEF TopUpPosts, Ends
    <2>4. TopUpAmount \in Int
      BY WalletAmounts
    <2> QED BY <2>2, <2>3, <2>4, WalletAdds
  <1> QED BY <1>1, <1>2, <1>3, <1>4

LEMMA SettlementStep ==
  ASSUME WalletInv, NEW c \in WalletCalls, SettleOwedPosts(c) \/ CashOutPosts(c)
  PROVE  WalletInv'
  <1>1. CASE SettleOwedPosts(c)
    <2> DEFINE ref == walletCall[c].for
               amount == walletCall[c].amount
    <2>1. ref \in Settlements /\ amount \in Nat \ {0}
      BY <1>1, WalletFields DEF WalletInv, SettleOwedPosts
    <2>2. AfterSettlement(ref) \in Elsewhere /\ <<"commission_settled", ref>> \in Postings
      BY <2>1, ElsewhereRequests, PostingKeys
    <2>3. GoesOn(c, AfterSettlement(ref)) /\ UNCHANGED <<paidAmount, topUp, taken>>
      BY <1>1 DEF SettleOwedPosts
    <2>4. -amount \in Int
      BY <2>1
    <2>5. CASE ref = AtSettle
      <3>1. Moves(-amount, 0, -amount) /\ UNCHANGED ledger
        BY <1>1, <2>5 DEF SettleOwedPosts
      <3>a. PICK next \in Elsewhere : next = AfterSettlement(ref)
        BY <2>2
      <3>2. walletCall' = [walletCall EXCEPT ![c] = next] /\ disturbed' \in BOOLEAN
        BY <2>3, <3>a, CallMoves DEF WalletInv
      <3>3. RepaymentSound(next)' /\ next \in WalletRequests
        BY ElsewhereSound DEF Elsewhere
      <3>4. /\ balance' \in Int /\ owed' \in Int /\ savings' \in Nat /\ savings' >= savings
            /\ ledger \subseteq ledger' /\ ledger' \subseteq Postings
            /\ topUp' \in [TopUps -> {"none", "pending", "successful", "failed"}]
        BY <2>1, <2>3, <3>1 DEF WalletInv, WalletTypeOK, Moves
      <3> QED BY <2>3, <3>2, <3>3, <3>4, WalletGrows
    <2>6. CASE ref # AtSettle
      <3>1. WalletPost(<<"commission_settled", ref>>, -amount, 0, -amount)
        BY <1>1, <2>6 DEF SettleOwedPosts
      <3> QED BY <2>2, <2>3, <2>4, <3>1, WalletAdds
    <2> QED BY <2>5, <2>6
  <1>2. CASE CashOutPosts(c)
    <2>1. /\ Moves(-CashOutAmount, 0, 0) /\ GoesOn(c, Free)
          /\ UNCHANGED <<ledger, paidAmount, topUp, taken>>
      BY <1>2 DEF CashOutPosts, Ends
    <2>2. walletCall' = [walletCall EXCEPT ![c] = Free] /\ disturbed' \in BOOLEAN
      BY <2>1, CallMoves DEF WalletInv
    <2>3. RepaymentSound(Free)' /\ Free \in WalletRequests
      BY ElsewhereRequests, ElsewhereSound DEF Elsewhere
    <2>4. /\ balance' \in Int /\ owed' \in Int /\ savings' \in Nat /\ savings' >= savings
          /\ ledger \subseteq ledger' /\ ledger' \subseteq Postings
          /\ topUp' \in [TopUps -> {"none", "pending", "successful", "failed"}]
      BY <2>1, WalletAmounts DEF WalletInv, WalletTypeOK, Moves
    <2> QED BY <2>1, <2>2, <2>3, <2>4, WalletGrows
  <1> QED BY <1>1, <1>2

LEMMA WalletReadsStep ==
  ASSUME WalletInv, NEW c \in WalletCalls,
         \/ \E t \in Trips, m \in PayMethods : ApplyTripLedger(c, t, m)
         \/ SweepReads(c) \/ SettleOwedReads(c) \/ CashOut(c) \/ CashOutReads(c)
         \/ SettleCommission(c) \/ \E p \in TopUps : TopUpCallback(c, p)
         \/ WalletCallDies(c)
  PROVE  WalletInv'
  <1>t. topUp \in [TopUps -> {"none", "pending", "successful", "failed"}]
    BY DEF WalletInv, WalletTypeOK
  <1>1. ASSUME NEW t \in Trips, NEW m \in PayMethods, ApplyTripLedger(c, t, m) PROVE WalletInv'
    BY <1>t, <1>1, ElsewhereRequests, WalletReads DEF ApplyTripLedger
  <1>2. CASE SweepReads(c)
    <2> DEFINE t == walletCall[c].trip
               m == walletCall[c].method
    <2>1. t \in Trips /\ m \in PayMethods
      BY <1>2, WalletFields DEF WalletInv, SweepReads
    <2>2. Swept > 0 => Swept \in 1..Sweep
      BY WalletAmounts DEF Swept, AtMost, AtLeast, WalletInv, WalletTypeOK
    <2>3. (IF Swept > 0 THEN [pc |-> "swept", trip |-> t, method |-> m, amount |-> Swept]
          ELSE AfterSweep(t, m)) \in Elsewhere
      BY <2>1, <2>2, ElsewhereRequests
    <2> QED BY <1>t, <1>2, <2>3, WalletReads DEF SweepReads
  <1>3. CASE SettleOwedReads(c)
    <2> DEFINE ref == walletCall[c].for
               take == AtMost(owed, balance)
    <2>1. ref \in Settlements
      BY <1>3, WalletFields DEF WalletInv, SettleOwedReads
    <2>2. take > 0 => take \in Nat \ {0}
      BY DEF AtMost, WalletInv, WalletTypeOK
    <2>3. (IF take > 0 THEN [pc |-> "settle", for |-> ref, amount |-> take] ELSE AfterSettlement(ref)) \in Elsewhere
      BY <2>1, <2>2, ElsewhereRequests
    <2> QED BY <1>t, <1>3, <2>3, WalletReads DEF SettleOwedReads
  <1>4. CASE CashOut(c) \/ SettleCommission(c)
    <2>1. AtCashOut \in Settlements /\ AtSettle \in Settlements
      BY DEF Settlements
    <2> QED BY <1>t, <1>4, <2>1, ElsewhereRequests, WalletReads DEF CashOut, SettleCommission
  <1>5. CASE CashOutReads(c)
    BY <1>t, <1>5, ElsewhereRequests, WalletReads DEF CashOutReads, Ends
  <1>6. ASSUME NEW p \in TopUps, TopUpCallback(c, p) PROVE WalletInv'
    <2>1. topUp' \in [TopUps -> {"none", "pending", "successful", "failed"}]
      BY <1>t, <1>6 DEF TopUpCallback
    <2>2. UNCHANGED <<wallet, paidAmount, taken>>
      BY <1>6 DEF TopUpCallback
    <2>3. CASE Begins(c, [pc |-> "topup", ref |-> p])
      BY <2>1, <2>2, <2>3, ElsewhereRequests, WalletReads
    <2>4. CASE UNCHANGED <<walletCall, disturbed>>
      BY <2>1, <2>2, <2>4 DEF WalletInv, WalletTypeOK, RepaymentInv, RepaymentSound, TakesNext,
         Deducted, HasRow, wallet
    <2> QED BY <1>6, <2>3, <2>4 DEF TopUpCallback
  <1>7. CASE WalletCallDies(c)
    <2>1. RepaymentSound(Free)' /\ Free \in WalletRequests
      BY ElsewhereRequests, ElsewhereSound DEF Elsewhere
    <2>2. /\ balance' \in Int /\ owed' \in Int /\ savings' \in Nat /\ savings' >= savings
          /\ ledger \subseteq ledger' /\ ledger' \subseteq Postings
          /\ topUp' \in [TopUps -> {"none", "pending", "successful", "failed"}]
          /\ disturbed' \in BOOLEAN /\ walletCall' = [walletCall EXCEPT ![c] = Free]
          /\ UNCHANGED <<paidAmount, taken>>
      BY <1>7 DEF WalletCallDies, WalletInv, WalletTypeOK, wallet
    <2> QED BY <2>1, <2>2, WalletGrows
  <1> QED BY <1>1, <1>2, <1>3, <1>4, <1>5, <1>6, <1>7

\* The loan and the wallet are read.
LEMMA RepaymentReadsStep ==
  ASSUME WalletInv, NEW c \in WalletCalls, RepayReadsLoan(c) \/ RepayReadsWallet(c)
  PROVE  WalletInv'
  <1>0. /\ paidAmount \in DueRows /\ savings \in Nat
        /\ balance' \in Int /\ owed' \in Int /\ savings' \in Nat /\ savings' >= savings
        /\ ledger \subseteq ledger' /\ ledger' \subseteq Postings
        /\ topUp' \in [TopUps -> {"none", "pending", "successful", "failed"}]
        /\ UNCHANGED <<wallet, paidAmount, taken>>
    BY DEF RepayReadsLoan, RepayReadsWallet, WalletInv, WalletTypeOK, wallet
  <1>1. CASE RepayReadsLoan(c) /\ Unpaid(paidAmount) = {}
    BY <1>0, <1>1, ElsewhereRequests, WalletReads DEF RepayReadsLoan, Ends
  <1>2. CASE RepayReadsLoan(c) /\ Unpaid(paidAmount) # {}
    <2>1. PICK next : next = [pc |-> "due", paid |-> paidAmount]
      OBVIOUS
    <2>2. next \in WalletRequests
      BY <1>0, <2>1 DEF WalletRequests
    <2>3. walletCall' = [walletCall EXCEPT ![c] = next] /\ disturbed' \in BOOLEAN
      BY <1>2, <2>1, CallMoves DEF RepayReadsLoan, WalletInv
    <2>4. RepaymentSound(next)'
      <3>1. \A k : Deducted(k) => Deducted(k)'
        BY <1>0 DEF Deducted, HasRow
      <3> QED BY <1>0, <1>2, <2>1, <3>1 DEF WalletInv, RepaymentInv, RepaymentSound, TakesNext
    <2> QED BY <1>0, <2>2, <2>3, <2>4, WalletGrows
  <1>3. CASE RepayReadsWallet(c)
    <2> DEFINE paid == walletCall[c].paid
               i == First(Unpaid(paid))
    <2>1. walletCall[c].pc = "due" /\ paid \in DueRows
      BY <1>3, WalletFields DEF RepayReadsWallet, WalletInv
    <2>2. PICK next : next = [pc |-> "repay", next |-> i, paid |-> paid, savings |-> savings]
      OBVIOUS
    <2>3. walletCall' = [walletCall EXCEPT ![c] = next] /\ disturbed' \in BOOLEAN
      BY <1>3, <2>2, CallMoves DEF RepayReadsWallet, WalletInv
    <2>4. Unpaid(paid) # {} /\ \A k \in Installments : paid[k] > 0 => Deducted(k)
      BY <2>1 DEF WalletInv, RepaymentInv, RepaymentSound
    <2>5. i \in Unpaid(paid) /\ \A j \in Unpaid(paid) : i <= j
      BY <2>4, FirstIsLeast DEF Unpaid
    <2>6. i \in Installments
      BY <2>5 DEF Unpaid
    <2>7. next \in WalletRequests
      BY <1>0, <2>1, <2>2, <2>6 DEF WalletRequests
    <2> HIDE DEF i
    <2>8. ASSUME NEW j \in Installments, j < i PROVE Deducted(j)
      <3>1. j \notin Unpaid(paid)
        <4>1. i \in Nat /\ j \in Nat
          BY <2>6, WalletAssumption
        <4> QED BY <2>5, <2>8, <4>1
      <3>2. paid[j] > 0
        BY <2>1, <3>1, WalletAmounts DEF Unpaid, DueRows
      <3> QED BY <2>4, <3>2
    <2>9. \A k : Deducted(k) => Deducted(k)'
      BY <1>0 DEF Deducted, HasRow
    <2>10. RepaymentSound(next)'
      BY <1>0, <2>2, <2>4, <2>8, <2>9 DEF RepaymentSound, TakesNext, wallet
    <2> QED BY <1>0, <2>3, <2>7, <2>10, WalletGrows
  <1> QED BY <1>1, <1>2, <1>3 DEF RepayReadsLoan

\* An installment is taken: another call that counts on the same savings is about
\* to take the same installment, and finds it taken.
LEMMA RepaymentTakesStep ==
  ASSUME WalletInv, NEW c \in WalletCalls, RepayTakes(c)
  PROVE  WalletInv'
  <1>0. PICK r : r = walletCall[c]
    OBVIOUS
  <1> DEFINE i == r.next
             take == AtMost(Remaining(i, r.paid), r.savings)
  <1>1. r.pc = "repay" /\ r.paid \in DueRows /\ i \in Installments /\ r.savings \in Nat
    BY <1>0, WalletFields DEF RepayTakes, WalletInv
  <1>2. /\ \A k \in Installments : r.paid[k] > 0 => Deducted(k)
        /\ Deducted(i) \/ r.savings <= savings
        /\ \A j \in Installments : j < i => Deducted(j)
    BY <1>0, <1>1 DEF WalletInv, RepaymentInv, RepaymentSound, TakesNext
  <1>3. r.paid[i] \in 0..InstallmentAmount
    BY <1>1 DEF DueRows
  <1>4. CASE take <= 0
    <2>1. GoesOn(c, Free) /\ UNCHANGED <<wallet, paidAmount, taken, topUp>>
      BY <1>0, <1>4 DEF RepayTakes, Ends
    <2>2. topUp' \in [TopUps -> {"none", "pending", "successful", "failed"}]
      BY <2>1 DEF WalletInv, WalletTypeOK
    <2> QED BY <2>1, <2>2, ElsewhereRequests, WalletReads
  <1>5. CASE ~(take <= 0)
    <2>1. /\ WalletPost(<<"loan_installment", i>>, 0, -take, 0)
          /\ taken' = IF Deducted(i) THEN taken ELSE [taken EXCEPT ![i] = @ + take]
          /\ GoesOn(c, [pc |-> "mark", next |-> i, paid |-> r.paid, take |-> take,
                        savings |-> AtLeast(0, savings')])
          /\ UNCHANGED <<paidAmount, topUp>>
      BY <1>0, <1>5 DEF RepayTakes, Deducted
    <2>2. take \in 1..InstallmentAmount /\ take <= Remaining(i, r.paid) /\ take <= r.savings
      BY <1>1, <1>3, <1>5, WalletAmounts DEF AtMost, Remaining
    <2> HIDE DEF take
    <2>3. <<"loan_installment", i>> \in Postings
      BY <1>1, PostingKeys
    <2>4. savings \in Nat /\ taken \in [Installments -> Nat]
      BY DEF WalletInv, WalletTypeOK
    <2>5. take \in Nat /\ -take \in Int /\ (Deducted(i) \/ savings + -take >= 0)
      BY <1>1, <1>2, <2>2, <2>4, WalletAmounts
    <2>6. /\ balance' \in Int /\ owed' \in Int /\ savings' \in Nat
          /\ ledger' = ledger \cup {<<"loan_installment", i>>} /\ ledger' \subseteq Postings
          /\ IF Deducted(i) THEN UNCHANGED wallet ELSE savings' = savings + -take
      BY <2>1, <2>3, <2>5, WalletPostEffect DEF WalletInv, Deducted
    <2>7. PICK next : next = [pc |-> "mark", next |-> i, paid |-> r.paid, take |-> take,
                              savings |-> AtLeast(0, savings')]
      OBVIOUS
    <2>8. AtLeast(0, savings') = savings'
      BY <2>6 DEF AtLeast
    <2>9. next \in WalletRequests
      BY <1>1, <2>2, <2>6, <2>7, <2>8 DEF WalletRequests
    <2>10. walletCall' = [walletCall EXCEPT ![c] = next] /\ disturbed' \in BOOLEAN
      BY <2>1, <2>7, CallMoves DEF WalletInv
    <2>11. taken' \in [Installments -> Nat]
      BY <1>1, <2>1, <2>4, <2>5
    <2>12. WalletTypeOK'
      <3> HIDE DEF DueRows, WalletRequests, Postings
      <3> QED BY <2>1, <2>6, <2>9, <2>10, <2>11 DEF WalletInv, WalletTypeOK
    <2>13. Deducted(i)' /\ \A k : Deducted(k) => Deducted(k)'
      BY <2>6 DEF Deducted, HasRow
    <2>14. RepaymentSound(next)'
      <3>1. ASSUME NEW k \in Installments, k \in Unpaid(r.paid), k > i,
                   \A j \in Unpaid(r.paid) : j > i => k <= j,
                   NEW j \in Installments, j < k
            PROVE  Deducted(j)'
        <4>0. i \in Nat /\ j \in Nat /\ k \in Nat
          BY <1>1, WalletAssumption
        <4>1. CASE j <= i
          <5>1. j = i \/ j < i
            BY <4>0, <4>1
          <5> QED BY <1>2, <2>13, <5>1
        <4>2. CASE j > i
          <5>1. j \notin Unpaid(r.paid)
            BY <3>1, <4>0, <4>2
          <5>2. r.paid[j] > 0
            BY <1>1, <5>1, WalletAmounts DEF Unpaid, DueRows
          <5> QED BY <1>2, <2>13, <5>2
        <4> QED BY <4>0, <4>1, <4>2
      <3> HIDE DEF i
      <3> QED BY <1>2, <2>2, <2>6, <2>7, <2>8, <2>13, <3>1 DEF RepaymentSound, TakesNext
    <2>15. ASSUME NEW b \in WalletCalls, b # c PROVE RepaymentSound(walletCall[b])'
      <3>q. PICK q : q = walletCall[b]
        OBVIOUS
      <3>1. RepaymentSound(q)
        BY <3>q DEF WalletInv, RepaymentInv
      <3>2. walletCall'[b] = walletCall[b]
        BY <2>10, <2>15 DEF WalletInv, WalletTypeOK
      <3>3. ASSUME NEW k \in Installments, TakesNext(q, k), ~Deducted(k)'
            PROVE  q.savings <= savings'
        <4>1. ~Deducted(k) /\ q.savings <= savings /\ \A j \in Installments : j < k => Deducted(j)
          BY <2>13, <3>1, <3>3 DEF RepaymentSound
        <4>2. k # i /\ ~(k < i)
          BY <1>2, <2>13, <3>3, <4>1
        <4>3. Deducted(i)
          <5>1. i \in Nat /\ k \in Nat
            BY <1>1, WalletAssumption
          <5>2. i < k
            BY <4>2, <5>1
          <5> QED BY <1>1, <4>1, <5>2
        <4> QED BY <2>6, <4>1, <4>3 DEF wallet
      <3>4. RepaymentSound(q)'
        BY <2>13, <3>1, <3>3 DEF RepaymentSound, TakesNext
      <3> QED BY <3>2, <3>4, <3>q DEF RepaymentSound, TakesNext
    <2>16. RepaymentInv'
      <3>1. \A b \in WalletCalls : walletCall'[b] = IF b = c THEN next ELSE walletCall[b]
        BY <2>10 DEF WalletInv, WalletTypeOK
      <3>2. \A k \in Installments : paidAmount'[k] > 0 => Deducted(k)'
        BY <2>1, <2>13 DEF WalletInv, RepaymentInv
      <3> QED BY <2>14, <2>15, <3>1, <3>2 DEF RepaymentInv, RepaymentSound, TakesNext
    <2> QED BY <2>12, <2>16 DEF WalletInv
  <1> QED BY <1>4, <1>5

\* The installment is marked with what was taken, and the next one is looked at.
LEMMA RepaymentMarksStep ==
  ASSUME WalletInv, NEW c \in WalletCalls, RepayMarks(c)
  PROVE  WalletInv'
  <1> DEFINE r == walletCall[c]
             i == r.next
             later == {k \in Unpaid(r.paid) : k > i}
  <1>1. /\ r.pc = "mark" /\ r.paid \in DueRows /\ i \in Installments /\ r.savings \in Nat
        /\ r.take \in 1..InstallmentAmount
    BY WalletFields DEF RepayMarks, WalletInv
  <1>2. Deducted(i) /\ r.take <= Remaining(i, r.paid) /\ RepaymentSound(r)
    BY <1>1 DEF WalletInv, RepaymentInv, RepaymentSound
  <1>3. /\ paidAmount' \in {paidAmount, [paidAmount EXCEPT ![i] = r.paid[i] + r.take]}
        /\ UNCHANGED <<wallet, topUp, taken>>
    BY DEF RepayMarks
  <1>4. paidAmount' \in DueRows
    <2>1. r.paid[i] + r.take \in 0..InstallmentAmount
      BY <1>1, <1>2, WalletAmounts DEF DueRows, Remaining
    <2> QED BY <1>3, <2>1 DEF WalletInv, WalletTypeOK, DueRows
  <1>5. \A k : Deducted(k) <=> Deducted(k)'
    BY <1>3 DEF Deducted, HasRow, wallet
  <1>6. \A k \in Installments : paidAmount'[k] > 0 => Deducted(k)'
    BY <1>1, <1>2, <1>3, <1>5 DEF WalletInv, WalletTypeOK, DueRows, RepaymentInv
  <1>7. \A q : RepaymentSound(q) => RepaymentSound(q)'
    BY <1>3, <1>5 DEF RepaymentSound, TakesNext, wallet
  <1>8. ASSUME NEW next \in WalletRequests, RepaymentSound(next), GoesOn(c, next)
        PROVE  WalletInv'
    <2>1. walletCall' = [walletCall EXCEPT ![c] = next] /\ disturbed' \in BOOLEAN
      BY <1>8, CallMoves DEF WalletInv
    <2>2. WalletTypeOK'
      <3> HIDE DEF DueRows, WalletRequests, Postings
      <3> QED BY <1>3, <1>4, <2>1 DEF WalletInv, WalletTypeOK, wallet
    <2>3. \A b \in WalletCalls : walletCall'[b] = next \/ walletCall'[b] = walletCall[b]
      BY <2>1 DEF WalletInv, WalletTypeOK
    <2>4. \A b \in WalletCalls : RepaymentSound(walletCall'[b])
      BY <1>8, <2>3 DEF WalletInv, RepaymentInv
    <2>5. \A b \in WalletCalls : RepaymentSound(walletCall[b])'
      BY <1>5, <1>3, <2>4 DEF RepaymentSound, TakesNext, wallet
    <2> QED BY <1>6, <2>2, <2>5 DEF WalletInv, RepaymentInv
  <1>9. CASE later = {}
    <2>1. GoesOn(c, Free)
      BY <1>9 DEF RepayMarks, Ends
    <2>2. Free \in WalletRequests /\ RepaymentSound(Free)
      BY ElsewhereRequests, ElsewhereSound DEF Elsewhere
    <2> QED BY <1>8, <2>1, <2>2
  <1>10. CASE later # {}
    <2> DEFINE k == First(later)
    <2>1. k \in later /\ \A j \in later : k <= j
      BY <1>10, FirstIsLeast DEF Unpaid
    <2>2. k \in Installments /\ TakesNext(r, k)
      BY <1>1, <2>1 DEF TakesNext, Unpaid
    <2>3. PICK next : next = [pc |-> "repay", next |-> k, paid |-> r.paid, savings |-> r.savings]
      OBVIOUS
    <2>4. GoesOn(c, next)
      BY <1>10, <2>3 DEF RepayMarks
    <2>5. next \in WalletRequests
      BY <1>1, <2>2, <2>3 DEF WalletRequests
    <2> HIDE DEF k
    <2>6. RepaymentSound(next)
      BY <1>1, <1>2, <2>2, <2>3 DEF RepaymentSound, TakesNext
    <2> QED BY <1>8, <2>4, <2>5, <2>6
  <1> QED BY <1>9, <1>10

LEMMA WalletStep == ASSUME WalletInv, [WalletNext]_walletVars PROVE WalletInv'
  <1>1. ASSUME NEW p \in TopUps, TopUpWallet(p) PROVE WalletInv'
    <2>1. WalletTypeOK'
      <3> HIDE DEF DueRows, WalletRequests, Postings
      <3> QED BY <1>1 DEF TopUpWallet, WalletInv, WalletTypeOK, wallet
    <2>2. RepaymentInv'
      BY <1>1 DEF TopUpWallet, WalletInv, RepaymentInv, RepaymentSound, TakesNext, Deducted, HasRow, wallet
    <2> QED BY <2>1, <2>2 DEF WalletInv
  <1>2. CASE UNCHANGED walletVars
    <2>1. WalletTypeOK'
      <3> HIDE DEF DueRows, WalletRequests, Postings
      <3> QED BY <1>2 DEF WalletInv, WalletTypeOK, wallet, walletVars
    <2>2. RepaymentInv'
      BY <1>2 DEF WalletInv, RepaymentInv, RepaymentSound, TakesNext, Deducted, HasRow, wallet, walletVars
    <2> QED BY <2>1, <2>2 DEF WalletInv
  <1> QED BY <1>1, <1>2, TripPostingsStep, SettlementStep, WalletReadsStep, RepaymentReadsStep,
             RepaymentTakesStep, RepaymentMarksStep DEF WalletNext

\* Whatever calls overlap or die: a loan is repaid from savings that are there, no
\* installment records more than its amount, and every request is one the code makes.
THEOREM WalletTypeCorrect == WalletSpec => []WalletTypeOK
  <1>1. WalletInv => WalletTypeOK
    BY DEF WalletInv
  <1> QED BY WalletInitInv, WalletStep, <1>1, PTL DEF WalletSpec

----------------------------------------------------------------------------
(* The wallet: a loan is repaid in order                                   *)

\* What was deducted for an installment is its row's amount, at most the whole of it,
\* and the earlier ones were deducted before.
TakenInv ==
  /\ \A i \in Installments : taken[i] <= InstallmentAmount /\ (taken[i] > 0 <=> Deducted(i))
  /\ \A i, j \in Installments : Deducted(i) /\ j < i => Deducted(j)

\* No step but a repayment's adds a row for an installment.
LEMMA OnlyRepaymentsDeduct ==
  ASSUME WalletTypeOK, [WalletNext]_walletVars
  PROVE  \/ \E c \in WalletCalls : RepayTakes(c)
         \/ taken' = taken /\ \A i \in Installments : Deducted(i)' <=> Deducted(i)
  <1> DEFINE Same == taken' = taken /\ \A i \in Installments : Deducted(i)' <=> Deducted(i)
  <1>k. ASSUME NEW type, NEW ref, type # "loan_installment", NEW d, NEW s, NEW o,
               WalletPost(<<type, ref>>, d, s, o), taken' = taken
        PROVE  Same
    BY <1>k DEF WalletPost, HasRow, Deducted, wallet
  <1>u. ASSUME ledger' = ledger, taken' = taken PROVE Same
    BY <1>u DEF HasRow, Deducted
  <1> HIDE DEF Same
  <1>1. ASSUME NEW c \in WalletCalls,
               \/ CreditsTrip(c) \/ TakesCommission(c) \/ SweepPosts(c)
               \/ SettleOwedPosts(c) \/ TopUpPosts(c)
        PROVE  Same
    BY <1>1, <1>k, <1>u DEF CreditsTrip, TakesCommission, SweepPosts, SettleOwedPosts, TopUpPosts
  <1>2. ASSUME NEW c \in WalletCalls,
               \/ \E t \in Trips, m \in PayMethods : ApplyTripLedger(c, t, m)
               \/ SweepReads(c) \/ SettleOwedReads(c) \/ RepayReadsLoan(c) \/ RepayReadsWallet(c)
               \/ RepayMarks(c) \/ CashOut(c) \/ CashOutReads(c) \/ CashOutPosts(c)
               \/ SettleCommission(c) \/ (\E p \in TopUps : TopUpCallback(c, p)) \/ WalletCallDies(c)
        PROVE  Same
    <2>1. ledger' = ledger /\ taken' = taken
      BY <1>2 DEF ApplyTripLedger, SweepReads, SettleOwedReads, RepayReadsLoan, RepayReadsWallet,
                  RepayMarks, CashOut, CashOutReads, CashOutPosts, SettleCommission, TopUpCallback,
                  WalletCallDies, wallet
    <2> QED BY <1>u, <2>1
  <1>3. ASSUME UNCHANGED walletVars \/ \E p \in TopUps : TopUpWallet(p) PROVE Same
    BY <1>3, <1>u DEF TopUpWallet, walletVars, wallet
  <1>4. Same \/ \E c \in WalletCalls : RepayTakes(c)
    BY <1>1, <1>2, <1>3, Zenon DEF WalletNext
  <1> QED BY <1>4 DEF Same

\* A deduction that happens is the first of its installment, for no more than is left of it.
LEMMA DeductsOnce ==
  ASSUME WalletInv, TakenInv, NEW c \in WalletCalls, RepayTakes(c)
  PROVE  TakenInv'
  <1>0. PICK r : r = walletCall[c]
    OBVIOUS
  <1> DEFINE i == r.next
             take == AtMost(Remaining(i, r.paid), r.savings)
  <1>1. r.pc = "repay" /\ r.paid \in DueRows /\ i \in Installments /\ r.savings \in Nat
    BY <1>0, WalletFields DEF RepayTakes, WalletInv
  <1>2. \A j \in Installments : j < i => Deducted(j)
    BY <1>0, <1>1 DEF WalletInv, RepaymentInv, RepaymentSound, TakesNext
  <1>3. r.paid[i] \in 0..InstallmentAmount /\ taken \in [Installments -> Nat]
    BY <1>1 DEF DueRows, WalletInv, WalletTypeOK
  <1>4. CASE take <= 0 \/ Deducted(i)
    <2>1. ledger' = ledger /\ taken' = taken
      BY <1>0, <1>4 DEF RepayTakes, Deducted, HasRow, WalletPost, wallet
    <2> QED BY <2>1 DEF TakenInv, Deducted, HasRow
  <1>5. CASE ~(take <= 0) /\ ~Deducted(i)
    <2>1. /\ ledger' = ledger \cup {<<"loan_installment", i>>}
          /\ taken' = [taken EXCEPT ![i] = @ + take]
      BY <1>0, <1>5 DEF RepayTakes, Deducted, HasRow, WalletPost
    <2>2. take \in Nat /\ take > 0 /\ take <= InstallmentAmount
      BY <1>1, <1>3, <1>5, WalletAmounts DEF AtMost, Remaining
    <2> HIDE DEF take
    <2>3. taken[i] = 0
      BY <1>1, <1>3, <1>5 DEF TakenInv
    <2>4. \A j \in Installments : taken'[j] = IF j = i THEN take ELSE taken[j]
      BY <1>1, <1>3, <2>1, <2>2, <2>3
    <2>5. \A j \in Installments : Deducted(j)' <=> (j = i \/ Deducted(j))
      BY <1>1, <2>1 DEF Deducted, HasRow
    <2> HIDE DEF i
    <2>6. \A j \in Installments : taken'[j] <= InstallmentAmount /\ (taken'[j] > 0 <=> Deducted(j)')
      BY <2>2, <2>4, <2>5 DEF TakenInv
    <2>7. \A k, j \in Installments : Deducted(k)' /\ j < k => Deducted(j)'
      BY <1>2, <2>5 DEF TakenInv
    <2> QED BY <2>6, <2>7 DEF TakenInv
  <1> QED BY <1>4, <1>5

\* For any calls that overlap or die, any trips and any number of installments: the
\* savings are never overdrawn, an installment is deducted once, for no more than its
\* amount and after the earlier ones, and records nothing that was not deducted
\* (autoRepayLoan, wallet_post).
THEOREM InOrder == WalletSpec => []RepaidInOrder
  <1>1. WalletInit => WalletInv /\ TakenInv
    <2> SUFFICES ASSUME WalletInit PROVE WalletInv /\ TakenInv
      OBVIOUS
    <2>1. TakenInv
      BY WalletAmounts DEF WalletInit, TakenInv, Deducted, HasRow
    <2> QED BY <2>1, WalletInitInv
  <1>2. WalletInv /\ TakenInv /\ [WalletNext]_walletVars => WalletInv' /\ TakenInv'
    <2> SUFFICES ASSUME WalletInv, TakenInv, [WalletNext]_walletVars PROVE WalletInv' /\ TakenInv'
      OBVIOUS
    <2>1. ASSUME taken' = taken, \A i \in Installments : Deducted(i)' <=> Deducted(i) PROVE TakenInv'
      BY <2>1 DEF TakenInv
    <2> QED BY <2>1, WalletStep, OnlyRepaymentsDeduct, DeductsOnce DEF WalletInv
  <1>3. WalletInv /\ TakenInv => RepaidInOrder
    BY DEF WalletInv, WalletTypeOK, RepaymentInv, TakenInv, RepaidInOrder
  <1> QED BY <1>1, <1>2, <1>3, PTL DEF WalletSpec

----------------------------------------------------------------------------
(* The wallet: a driver nobody disturbs is not overdrawn                   *)

\* A call acts alone: while nothing is disturbed, every other call is idle.
LEMMA ActsAlone ==
  ASSUME WalletTypeOK, SolventInv, NEW c \in WalletCalls,
         \/ walletCall[c] # Free
         \/ \E next : Begins(c, next),
         ~disturbed, ~disturbed'
  PROVE  \A d \in WalletCalls : d # c => walletCall[d] = Free
  BY DEF SolventInv, Begins

\* The second commissions only become more, and a trip's counts once.
LEMMA DoubleCommissionType == DoubleCommission \in Nat
  <1>1. IsFiniteSet(SettledTwice)
    BY WalletAssumption, FS_Subset DEF SettledTwice
  <1>2. Cardinality(SettledTwice) \in Nat
    BY <1>1, FS_CardinalityType
  <1> HIDE DEF SettledTwice
  <1> QED BY <1>2, WalletAmounts DEF DoubleCommission

LEMMA DoubleCommissionGrows ==
  ASSUME ledger \subseteq ledger'
  PROVE  DoubleCommission' \in Nat /\ DoubleCommission' >= DoubleCommission
  <1>1. SettledTwice \subseteq SettledTwice'
    BY DEF SettledTwice
  <1>2. IsFiniteSet(SettledTwice')
    BY WalletAssumption, FS_Subset DEF SettledTwice
  <1>3. /\ Cardinality(SettledTwice) \in Nat /\ Cardinality(SettledTwice') \in Nat
        /\ Cardinality(SettledTwice) <= Cardinality(SettledTwice')
    BY <1>1, <1>2, FS_Subset, FS_CardinalityType
  <1> HIDE DEF SettledTwice
  <1> QED BY <1>3, WalletAmounts DEF DoubleCommission

LEMMA SecondCommission ==
  ASSUME NEW t \in Trips, ledger' = ledger \cup {<<"commission", t>>},
         <<"commission", t>> \notin ledger, <<"commission_owed", t>> \in ledger
  PROVE  DoubleCommission' = DoubleCommission + CommissionOf(TripFare)
  <1>1. SettledTwice' = SettledTwice \cup {t} /\ t \notin SettledTwice
    BY DEF SettledTwice
  <1>2. IsFiniteSet(SettledTwice)
    BY WalletAssumption, FS_Subset DEF SettledTwice
  <1>3. Cardinality(SettledTwice) \in Nat /\ Cardinality(SettledTwice') = Cardinality(SettledTwice) + 1
    BY <1>1, <1>2, FS_AddElement, FS_CardinalityType
  <1> HIDE DEF SettledTwice
  <1> QED BY <1>3, WalletAmounts DEF DoubleCommission

\* Its step keeps the wallet solvent when it leaves what it is to take next there.
LEMMA SolventGlue ==
  ASSUME WalletTypeOK, SolventInv, ~disturbed, NEW c \in WalletCalls, NEW next,
         Begins(c, next) \/ (walletCall[c] # Free /\ GoesOn(c, next)),
         (balance + DoubleCommission)' >= 0, owed' >= 0, ledger \subseteq ledger',
         TakesWhatIsThere(next)',
         \A t \in Trips : walletCall[c].pc = "commission" /\ walletCall[c].trip = t => HasCommission(t)',
         \A t \in Trips : <<"trip_credit", t>> \in ledger' =>
            <<"trip_credit", t>> \in ledger \/ (next.pc = "commission" /\ next.trip = t)
  PROVE  SolventInv'
  <1> SUFFICES ASSUME ~disturbed'
               PROVE  /\ \A d, e \in WalletCalls : walletCall'[d] # Free /\ walletCall'[e] # Free => d = e
                      /\ \A d \in WalletCalls : TakesWhatIsThere(walletCall[d])'
                      /\ \A t \in Trips : CommissionFollows(t)'
    BY DEF SolventInv
  <1> USE DEF HasCommission
  <1>1. \A d \in WalletCalls : d # c => walletCall[d] = Free
    BY ActsAlone
  <1>2. \A d \in WalletCalls : walletCall'[d] = IF d = c THEN next ELSE Free
    BY <1>1 DEF Begins, GoesOn, WalletTypeOK
  <1>3. TakesWhatIsThere(Free)'
    BY DEF TakesWhatIsThere, Free
  <1>4. ASSUME NEW d \in WalletCalls PROVE TakesWhatIsThere(walletCall[d])'
    BY <1>2, <1>3 DEF TakesWhatIsThere
  <1>5. ASSUME NEW t \in Trips PROVE CommissionFollows(t)'
    <2>1. CommissionFollows(t)
      BY DEF SolventInv
    <2>2. ASSUME NEW d \in WalletCalls, walletCall[d].pc = "commission", walletCall[d].trip = t
          PROVE  HasCommission(t)'
      BY <1>1, <2>2 DEF Free
    <2> QED BY <1>2, <2>1, <2>2 DEF CommissionFollows, HasRow
  <1> QED BY <1>2, <1>4, <1>5

\* A request of any other kind takes nothing that could be missing.
LEMMA TakesNothing ==
  ASSUME NEW next, next.pc \notin {"commission", "swept", "settle", "payout"}
  PROVE  TakesWhatIsThere(next) /\ TakesWhatIsThere(next)'
  BY DEF TakesWhatIsThere

LEMMA SolventMoves ==
  ASSUME WalletTypeOK, SolventInv, ~disturbed, NEW c \in WalletCalls, NEW next,
         Begins(c, next) \/ (walletCall[c] # Free /\ GoesOn(c, next)),
         UNCHANGED wallet, walletCall[c].pc # "commission", TakesWhatIsThere(next)
  PROVE  SolventInv'
  <1>1. DoubleCommission' = DoubleCommission
    BY DEF DoubleCommission, SettledTwice, wallet
  <1>2. /\ (balance + DoubleCommission)' >= 0 /\ owed' >= 0 /\ ledger' = ledger
        /\ TakesWhatIsThere(next)'
    BY <1>1 DEF SolventInv, wallet, TakesWhatIsThere, HasCommission, HasRow
  <1> QED BY <1>2, SolventGlue

LEMMA SolventPosts ==
  ASSUME WalletTypeOK, SolventInv, ~disturbed, NEW c \in WalletCalls, NEW next,
         walletCall[c] # Free, GoesOn(c, next),
         next.pc \notin {"commission", "swept", "settle", "payout"},
         NEW key, NEW delta \in Int, NEW s \in Int, NEW o \in Int, WalletPost(key, delta, s, o),
         HasRow(key) \/ (balance + delta + DoubleCommission >= 0 /\ owed + o >= 0),
         walletCall[c].pc = "commission" =>
            key = <<"commission", walletCall[c].trip>> \/ key = <<"commission_owed", walletCall[c].trip>>,
         \A t \in Trips : key # <<"trip_credit", t>>
  PROVE  SolventInv'
  <1>1. /\ ledger' = ledger \cup {key} /\ owed' >= 0
        /\ balance' \in Int /\ balance' + DoubleCommission >= 0
    BY DoubleCommissionType DEF SolventInv, WalletTypeOK, WalletPost, HasRow, Moves, wallet
  <1>2. (balance + DoubleCommission)' >= 0
    BY <1>1, DoubleCommissionType, DoubleCommissionGrows
  <1>3. TakesWhatIsThere(next)'
    BY TakesNothing
  <1>4. \A t \in Trips : walletCall[c].pc = "commission" /\ walletCall[c].trip = t => HasCommission(t)'
    BY <1>1 DEF HasCommission, HasRow
  <1> QED BY <1>1, <1>2, <1>3, <1>4, SolventGlue

LEMMA SolventCredit ==
  ASSUME WalletTypeOK, SolventInv, ~disturbed, ~disturbed', NEW c \in WalletCalls, CreditsTrip(c)
  PROVE  SolventInv'
  <1>0. PICK t, m : t = walletCall[c].trip /\ m = walletCall[c].method
    OBVIOUS
  <1>1. walletCall[c].pc = "credit" /\ t \in Trips /\ m \in PayMethods
    BY <1>0, WalletFields DEF CreditsTrip
  <1>2. PICK next : next = [pc |-> "commission", trip |-> t, method |-> m]
    OBVIOUS
  <1>3. /\ GoesOn(c, next) /\ walletCall[c] # Free
        /\ WalletPost(<<"trip_credit", t>>, IF m = "cash" THEN 0 ELSE TripFare, 0, 0)
    BY <1>0, <1>1, <1>2 DEF CreditsTrip, Free
  <1>4. \A d \in WalletCalls : d # c => walletCall[d] = Free
    BY <1>3, ActsAlone
  <1>5. /\ balance \in Int /\ owed \in Int /\ balance + DoubleCommission >= 0 /\ owed >= 0
        /\ DoubleCommission \in Nat
    BY DoubleCommissionType DEF WalletTypeOK, SolventInv
  <1>6. ledger' = ledger \cup {<<"trip_credit", t>>}
    BY <1>3 DEF WalletPost, HasRow, wallet
  <1>7. DoubleCommission' = DoubleCommission
    BY <1>6 DEF DoubleCommission, SettledTwice
  <1>8. /\ (balance + DoubleCommission)' >= 0 /\ owed' >= 0
        /\ <<"trip_credit", t>> \notin ledger /\ m = "momo" => balance' = balance + TripFare
    BY <1>3, <1>5, <1>7, WalletAmounts DEF WalletPost, HasRow, Moves, wallet
  <1>9. TakesWhatIsThere(next)'
    <2>1. CASE m = "cash"
      BY <1>2, <2>1 DEF TakesWhatIsThere
    <2>2. CASE m = "momo" /\ <<"trip_credit", t>> \notin ledger
      <3>1. CommissionOf(TripFare) <= balance' + DoubleCommission'
        BY <1>5, <1>7, <1>8, <2>2, WalletAmounts
      <3> QED BY <1>2, <3>1 DEF TakesWhatIsThere
    <2>3. CASE m = "momo" /\ <<"trip_credit", t>> \in ledger
      <3>1. \A d \in WalletCalls : walletCall[d].pc # "commission"
        BY <1>1, <1>4 DEF Free
      <3>2. HasCommission(t)
        BY <1>1, <2>3, <3>1 DEF SolventInv, CommissionFollows, HasRow
      <3>3. HasCommission(t)'
        BY <1>6, <3>2 DEF HasCommission, HasRow
      <3> QED BY <1>2, <3>3 DEF TakesWhatIsThere
    <2> QED BY <1>1, <2>1, <2>2, <2>3 DEF PayMethods
  <1>10. \A u \in Trips : <<"trip_credit", u>> \in ledger' =>
          <<"trip_credit", u>> \in ledger \/ (next.pc = "commission" /\ next.trip = u)
    BY <1>2, <1>6
  <1> QED BY <1>1, <1>3, <1>6, <1>8, <1>9, <1>10, SolventGlue

\* The commission of a MoMo trip: paid by the fare, or the second one of the trip.
LEMMA SolventCommission ==
  ASSUME WalletTypeOK, SolventInv, ~disturbed, ~disturbed', NEW c \in WalletCalls,
         TakesCommission(c), walletCall[c].method = "momo"
  PROVE  SolventInv'
  <1>0. PICK t, next : /\ t = walletCall[c].trip
                       /\ next = [pc |-> "sweep", trip |-> t, method |-> walletCall[c].method]
    OBVIOUS
  <1>1. /\ walletCall[c].pc = "commission" /\ walletCall[c] # Free /\ t \in Trips
        /\ WalletPost(<<"commission", t>>, -CommissionOf(TripFare), 0, 0)
        /\ GoesOn(c, next)
    BY <1>0, WalletFields DEF TakesCommission, Free
  <1>2. /\ balance \in Int /\ owed \in Int /\ balance + DoubleCommission >= 0 /\ owed >= 0
        /\ DoubleCommission \in Nat /\ CommissionOf(TripFare) \in Nat
        /\ HasCommission(t) \/ CommissionOf(TripFare) <= balance + DoubleCommission
    BY <1>0, <1>1, DoubleCommissionType, WalletAmounts DEF WalletTypeOK, SolventInv, TakesWhatIsThere
  <1>3. ledger' = ledger \cup {<<"commission", t>>} /\ owed' >= 0
    BY <1>1, <1>2 DEF WalletPost, HasRow, Moves, wallet
  <1>4. (balance + DoubleCommission)' >= 0
    <2>1. CASE HasRow(<<"commission", t>>)
      <3>1. balance' = balance /\ ledger' = ledger
        BY <1>1, <2>1 DEF WalletPost, wallet
      <3> QED BY <1>2, <3>1 DEF DoubleCommission, SettledTwice
    <2>2. CASE ~HasRow(<<"commission", t>>)
      <3>1. balance' = balance - CommissionOf(TripFare)
        BY <1>1, <1>2, <2>2 DEF WalletPost, Moves
      <3>2. CASE HasRow(<<"commission_owed", t>>)
        <4>1. DoubleCommission' = DoubleCommission + CommissionOf(TripFare)
          BY <1>1, <1>3, <2>2, <3>2, SecondCommission DEF HasRow
        <4> QED BY <1>2, <3>1, <4>1
      <3>3. CASE ~HasRow(<<"commission_owed", t>>)
        <4>1. DoubleCommission' \in Nat /\ DoubleCommission' >= DoubleCommission
          BY <1>3, DoubleCommissionGrows
        <4> QED BY <1>2, <2>2, <3>1, <3>3, <4>1 DEF HasCommission
      <3> QED BY <3>2, <3>3
    <2> QED BY <2>1, <2>2
  <1>5. TakesWhatIsThere(next)'
    BY <1>0, TakesNothing
  <1>6. \A u \in Trips : walletCall[c].trip = u => HasCommission(u)'
    BY <1>0, <1>3 DEF HasCommission, HasRow
  <1> QED BY <1>1, <1>3, <1>4, <1>5, <1>6, SolventGlue

LEMMA SolventTrip ==
  ASSUME WalletTypeOK, SolventInv, ~disturbed, ~disturbed', NEW c \in WalletCalls,
         \/ \E t \in Trips, m \in PayMethods : ApplyTripLedger(c, t, m)
         \/ TakesCommission(c) \/ SweepReads(c) \/ SweepPosts(c)
  PROVE  SolventInv'
  <1>0. /\ balance \in Int /\ owed \in Int /\ balance + DoubleCommission >= 0 /\ owed >= 0
        /\ DoubleCommission \in Nat /\ TakesWhatIsThere(walletCall[c])
    BY DoubleCommissionType DEF WalletTypeOK, SolventInv
  <1>1. ASSUME NEW t \in Trips, NEW m \in PayMethods, ApplyTripLedger(c, t, m) PROVE SolventInv'
    <2>1. TakesWhatIsThere([pc |-> "credit", trip |-> t, method |-> m])
      BY TakesNothing
    <2>2. walletCall[c] = Free
      BY <1>1 DEF ApplyTripLedger, Begins
    <2> QED BY <1>1, <2>1, <2>2, SolventMoves DEF ApplyTripLedger, Free
  <1>2. CASE TakesCommission(c)
    <2>0. PICK t, next : /\ t = walletCall[c].trip
                         /\ next = [pc |-> "sweep", trip |-> t, method |-> walletCall[c].method]
      OBVIOUS
    <2>1. /\ walletCall[c].pc = "commission" /\ walletCall[c] # Free /\ GoesOn(c, next)
          /\ walletCall[c].method \in PayMethods
      BY <1>2, <2>0, WalletFields DEF TakesCommission, Free
    <2>2. CASE walletCall[c].method = "cash"
      <3>1. WalletPost(<<"commission_owed", t>>, 0, 0, CommissionOf(TripFare))
        BY <1>2, <2>0, <2>2 DEF TakesCommission
      <3>2. balance + 0 + DoubleCommission >= 0 /\ owed + CommissionOf(TripFare) >= 0
        BY <1>0, WalletAmounts
      <3>3. \A u \in Trips : <<"commission_owed", t>> # <<"trip_credit", u>>
        OBVIOUS
      <3>4. CommissionOf(TripFare) \in Int /\ next.pc = "sweep"
        BY <2>0, WalletAmounts
      <3> QED BY <2>0, <2>1, <3>1, <3>2, <3>3, <3>4, SolventPosts
    <2>3. CASE walletCall[c].method = "momo"
      BY <1>2, <2>3, SolventCommission
    <2> QED BY <2>1, <2>2, <2>3 DEF PayMethods
  <1>3. CASE SweepReads(c)
    <2>0. PICK t, m, next :
            /\ t = walletCall[c].trip /\ m = walletCall[c].method
            /\ next = IF Swept > 0 THEN [pc |-> "swept", trip |-> t, method |-> m, amount |-> Swept]
                      ELSE AfterSweep(t, m)
      OBVIOUS
    <2>1. /\ walletCall[c].pc = "sweep" /\ walletCall[c] # Free
          /\ GoesOn(c, next) /\ UNCHANGED wallet
      BY <1>3, <2>0 DEF SweepReads, Free
    <2>2. Swept > 0 => Swept <= balance
      BY <1>0, WalletAmounts DEF Swept, AtMost, AtLeast
    <2>3. TakesWhatIsThere(next)
      BY <2>0, <2>2 DEF TakesWhatIsThere, AfterSweep
    <2> QED BY <2>1, <2>3, SolventMoves
  <1>4. CASE SweepPosts(c)
    <2>0. PICK t, amount, next : /\ t = walletCall[c].trip /\ amount = walletCall[c].amount
                                 /\ next = AfterSweep(t, walletCall[c].method)
      OBVIOUS
    <2>1. /\ walletCall[c].pc = "swept" /\ walletCall[c] # Free
          /\ GoesOn(c, next) /\ WalletPost(<<"savings_sweep", t>>, -amount, amount, 0)
      BY <1>4, <2>0 DEF SweepPosts, Free
    <2>2. amount \in Int /\ -amount \in Int /\ balance + -amount + DoubleCommission >= 0 /\ owed + 0 >= 0
      BY <1>0, <2>0, <2>1, WalletFields, WalletAmounts DEF TakesWhatIsThere
    <2>3. next.pc \notin {"commission", "swept", "settle", "payout"}
      BY <2>0 DEF AfterSweep
    <2>4. \A u \in Trips : <<"savings_sweep", t>> # <<"trip_credit", u>>
      OBVIOUS
    <2> QED BY <2>1, <2>2, <2>3, <2>4, SolventPosts
  <1> QED BY <1>1, <1>2, <1>3, <1>4

LEMMA SolventSettlement ==
  ASSUME WalletTypeOK, SolventInv, ~disturbed, ~disturbed', NEW c \in WalletCalls,
         \/ SettleOwedReads(c) \/ SettleOwedPosts(c) \/ CashOut(c) \/ CashOutReads(c)
         \/ CashOutPosts(c) \/ SettleCommission(c)
  PROVE  SolventInv'
  <1>0. /\ balance \in Int /\ owed \in Int /\ balance + DoubleCommission >= 0 /\ owed >= 0
        /\ DoubleCommission \in Nat /\ TakesWhatIsThere(walletCall[c])
    BY DoubleCommissionType DEF WalletTypeOK, SolventInv
  <1>1. CASE SettleOwedReads(c)
    <2> DEFINE take == AtMost(owed, balance)
    <2>0. PICK ref, next : /\ ref = walletCall[c].for
                           /\ next = IF take > 0 THEN [pc |-> "settle", for |-> ref, amount |-> take]
                                     ELSE AfterSettlement(ref)
      OBVIOUS
    <2>1. /\ walletCall[c].pc = "owed" /\ walletCall[c] # Free
          /\ GoesOn(c, next) /\ UNCHANGED wallet
      BY <1>1, <2>0 DEF SettleOwedReads, Free
    <2>2. take <= balance /\ take <= owed
      BY <1>0 DEF AtMost
    <2>3. TakesWhatIsThere(next)
      <3> HIDE DEF take
      <3> QED BY <2>0, <2>2 DEF TakesWhatIsThere, AfterSettlement, Free
    <2> QED BY <2>1, <2>3, SolventMoves
  <1>2. CASE SettleOwedPosts(c)
    <2>0. PICK ref, amount, next : /\ ref = walletCall[c].for /\ amount = walletCall[c].amount
                                   /\ next = AfterSettlement(ref)
      OBVIOUS
    <2>1. walletCall[c].pc = "settle" /\ walletCall[c] # Free /\ GoesOn(c, next)
      BY <1>2, <2>0 DEF SettleOwedPosts, Free
    <2>2. amount \in Int /\ -amount \in Int /\ balance + -amount + DoubleCommission >= 0 /\ owed + -amount >= 0
      BY <1>0, <2>0, <2>1, WalletFields DEF TakesWhatIsThere
    <2>3. next.pc \notin {"commission", "swept", "settle", "payout"}
      BY <2>0 DEF AfterSettlement, Free
    <2>4. walletCall[c].pc # "commission"
      BY <2>1
    <2>5. CASE ref = AtSettle
      <3>1. Moves(-amount, 0, -amount) /\ UNCHANGED ledger
        BY <1>2, <2>0, <2>5 DEF SettleOwedPosts
      <3>d. DoubleCommission' = DoubleCommission
        BY <3>1 DEF DoubleCommission, SettledTwice
      <3>2. (balance + DoubleCommission)' >= 0 /\ owed' >= 0
        BY <1>0, <2>2, <3>1, <3>d DEF Moves
      <3>3. TakesWhatIsThere(next)'
        BY <2>3, TakesNothing
      <3> QED BY <2>1, <2>4, <3>1, <3>2, <3>3, SolventGlue
    <2>6. CASE ref # AtSettle
      <3>1. WalletPost(<<"commission_settled", ref>>, -amount, 0, -amount)
        BY <1>2, <2>0, <2>6 DEF SettleOwedPosts
      <3>2. \A u \in Trips : <<"commission_settled", ref>> # <<"trip_credit", u>>
        OBVIOUS
      <3> QED BY <2>1, <2>2, <2>3, <2>4, <3>1, <3>2, SolventPosts
    <2> QED BY <2>5, <2>6
  <1>3. CASE CashOut(c) \/ SettleCommission(c)
    <2>1. PICK ref : Begins(c, [pc |-> "owed", for |-> ref])
      BY <1>3 DEF CashOut, SettleCommission
    <2>2. UNCHANGED wallet /\ walletCall[c].pc # "commission"
      BY <1>3, <2>1 DEF CashOut, SettleCommission, Begins, Free
    <2>3. TakesWhatIsThere([pc |-> "owed", for |-> ref])
      BY TakesNothing
    <2> QED BY <2>1, <2>2, <2>3, SolventMoves
  <1>4. CASE CashOutReads(c)
    <2>0. PICK next : next = IF Covered THEN [pc |-> "payout"] ELSE Free
      OBVIOUS
    <2>1. /\ walletCall[c].pc = "balance" /\ walletCall[c] # Free
          /\ GoesOn(c, next) /\ UNCHANGED wallet
      BY <1>4, <2>0 DEF CashOutReads, Ends, Free
    <2>2. TakesWhatIsThere(next)
      BY <1>0, <2>0, WalletAmounts DEF TakesWhatIsThere, Covered, Free
    <2> QED BY <2>1, <2>2, SolventMoves
  <1>5. CASE CashOutPosts(c)
    <2>1. /\ walletCall[c].pc = "payout" /\ walletCall[c] # Free
          /\ GoesOn(c, Free) /\ Moves(-CashOutAmount, 0, 0) /\ UNCHANGED ledger
      BY <1>5 DEF CashOutPosts, Ends, Free
    <2>d. DoubleCommission' = DoubleCommission
      BY <2>1 DEF DoubleCommission, SettledTwice
    <2>2. (balance + DoubleCommission)' >= 0 /\ owed' >= 0
      BY <1>0, <2>1, <2>d, WalletAmounts DEF TakesWhatIsThere, Moves
    <2>3. TakesWhatIsThere(Free)'
      BY TakesNothing DEF Free
    <2>4. walletCall[c].pc # "commission"
      BY <2>1
    <2> QED BY <2>1, <2>2, <2>3, <2>4, SolventGlue
  <1> QED BY <1>1, <1>2, <1>3, <1>4, <1>5

\* The wallet stays covered when the ledger grows and the balance is left alone.
LEMMA SolventThroughout ==
  ASSUME balance \in Int, balance + DoubleCommission >= 0, balance' = balance, ledger \subseteq ledger'
  PROVE  (balance + DoubleCommission)' >= 0
  BY DoubleCommissionType, DoubleCommissionGrows

LEMMA SolventRepayment ==
  ASSUME WalletTypeOK, SolventInv, ~disturbed, ~disturbed', NEW c \in WalletCalls,
         RepayReadsLoan(c) \/ RepayReadsWallet(c) \/ RepayTakes(c) \/ RepayMarks(c)
  PROVE  SolventInv'
  <1>0. /\ balance \in Int /\ owed \in Int /\ balance + DoubleCommission >= 0 /\ owed >= 0
        /\ DoubleCommission \in Nat
    BY DoubleCommissionType DEF WalletTypeOK, SolventInv
  <1>1. walletCall[c].pc \in {"loan", "due", "repay", "mark"} /\ walletCall[c] # Free
    BY DEF RepayReadsLoan, RepayReadsWallet, RepayTakes, RepayMarks, Free
  <1>2. \E next : GoesOn(c, next) /\ next.pc \in {"idle", "due", "repay", "mark"}
    <2> DEFINE Kinds == {"idle", "due", "repay", "mark"}
    <2>1. ASSUME RepayReadsLoan(c) PROVE \E next : GoesOn(c, next) /\ next.pc \in Kinds
      BY <2>1 DEF RepayReadsLoan, Ends, Free
    <2>2. ASSUME RepayReadsWallet(c) PROVE \E next : GoesOn(c, next) /\ next.pc \in Kinds
      BY <2>2 DEF RepayReadsWallet
    <2>3. ASSUME RepayTakes(c) PROVE \E next : GoesOn(c, next) /\ next.pc \in Kinds
      BY <2>3 DEF RepayTakes, Ends, Free
    <2>4. ASSUME RepayMarks(c) PROVE \E next : GoesOn(c, next) /\ next.pc \in Kinds
      BY <2>4 DEF RepayMarks, Ends, Free
    <2> QED BY <2>1, <2>2, <2>3, <2>4
  <1>3. PICK next : GoesOn(c, next) /\ next.pc \in {"idle", "due", "repay", "mark"}
    BY <1>2
  <1>4. /\ balance' = balance /\ owed' = owed /\ ledger \subseteq ledger'
        /\ \A u \in Trips : <<"trip_credit", u>> \in ledger' => <<"trip_credit", u>> \in ledger
    <2>1. ASSUME RepayReadsLoan(c) \/ RepayReadsWallet(c) \/ RepayMarks(c) PROVE UNCHANGED wallet
      BY <2>1 DEF RepayReadsLoan, RepayReadsWallet, RepayMarks
    <2>2. CASE RepayTakes(c) /\ ~UNCHANGED wallet
      <3>1. PICK i, take : WalletPost(<<"loan_installment", i>>, 0, -take, 0)
        BY <2>2 DEF RepayTakes
      <3>2. ledger' = ledger \cup {<<"loan_installment", i>>} /\ balance' = balance + 0 /\ owed' = owed + 0
        BY <2>2, <3>1 DEF WalletPost, Moves
      <3> QED BY <1>0, <3>2
    <2> QED BY <2>1, <2>2 DEF wallet
  <1>5. TakesWhatIsThere(next)'
    BY <1>3, TakesNothing
  <1>6. (balance + DoubleCommission)' >= 0
    BY <1>0, <1>4, SolventThroughout
  <1> QED BY <1>0, <1>1, <1>3, <1>4, <1>5, <1>6, SolventGlue

LEMMA SolventStays ==
  ASSUME SolventInv, UNCHANGED <<wallet, walletCall, disturbed>> PROVE SolventInv'
  BY DEF SolventInv, TakesWhatIsThere, CommissionFollows, HasCommission, HasRow, wallet,
         DoubleCommission, SettledTwice

LEMMA SolventTopUp ==
  ASSUME WalletTypeOK, SolventInv, ~disturbed, ~disturbed', NEW c \in WalletCalls,
         TopUpPosts(c) \/ \E p \in TopUps : TopUpCallback(c, p)
  PROVE  SolventInv'
  <1>0. /\ balance \in Int /\ owed \in Int /\ balance + DoubleCommission >= 0 /\ owed >= 0
        /\ DoubleCommission \in Nat
    BY DoubleCommissionType DEF WalletTypeOK, SolventInv
  <1>1. CASE TopUpPosts(c)
    <2>0. PICK p : p = walletCall[c].ref
      OBVIOUS
    <2>1. /\ walletCall[c].pc = "topup" /\ walletCall[c] # Free /\ GoesOn(c, Free)
          /\ WalletPost(<<"topup", p>>, TopUpAmount, 0, 0)
      BY <1>1, <2>0 DEF TopUpPosts, Ends, Free
    <2>2. TopUpAmount \in Int /\ 0 \in Int /\ balance + TopUpAmount + DoubleCommission >= 0 /\ owed + 0 >= 0
      BY <1>0, WalletAmounts
    <2>3. Free.pc \notin {"commission", "swept", "settle", "payout"}
      BY DEF Free
    <2>4. walletCall[c].pc # "commission"
      BY <2>1
    <2>5. \A u \in Trips : <<"topup", p>> # <<"trip_credit", u>>
      OBVIOUS
    <2> QED BY <2>1, <2>2, <2>3, <2>4, <2>5, SolventPosts
  <1>2. ASSUME NEW p \in TopUps, TopUpCallback(c, p) PROVE SolventInv'
    <2>1. CASE Begins(c, [pc |-> "topup", ref |-> p])
      <3>1. UNCHANGED wallet /\ walletCall[c].pc # "commission"
        BY <1>2, <2>1 DEF TopUpCallback, Begins, Free
      <3>2. TakesWhatIsThere([pc |-> "topup", ref |-> p])
        BY TakesNothing
      <3> QED BY <2>1, <3>1, <3>2, SolventMoves
    <2>2. CASE UNCHANGED <<walletCall, disturbed>>
      <3>1. UNCHANGED wallet
        BY <1>2 DEF TopUpCallback
      <3> QED BY <2>2, <3>1, SolventStays
    <2> QED BY <1>2, <2>1, <2>2 DEF TopUpCallback
  <1> QED BY <1>1, <1>2

LEMMA SolventStep ==
  ASSUME WalletTypeOK, SolventInv, [WalletNext]_walletVars
  PROVE  SolventInv'
  <1> SUFFICES ASSUME ~disturbed' PROVE SolventInv'
    BY DEF SolventInv
  <1>1. ASSUME UNCHANGED <<wallet, walletCall, disturbed>> PROVE SolventInv'
    BY <1>1, SolventStays
  <1>2. CASE UNCHANGED walletVars
    BY <1>1, <1>2 DEF walletVars
  <1>3. ASSUME NEW p \in TopUps, TopUpWallet(p) PROVE SolventInv'
    BY <1>1, <1>3 DEF TopUpWallet
  <1>4. CASE disturbed
    <2>1. ASSUME NEW c \in WalletCalls, NEW next, Begins(c, next) PROVE disturbed'
      BY <1>4, <2>1 DEF Begins
    <2>2. ASSUME NEW c \in WalletCalls, NEW next, GoesOn(c, next) PROVE disturbed'
      BY <1>4, <2>2 DEF GoesOn
    <2>3. ASSUME NEW c \in WalletCalls,
                 \/ \E t \in Trips, m \in PayMethods : ApplyTripLedger(c, t, m)
                 \/ CashOut(c) \/ SettleCommission(c) \/ WalletCallDies(c)
                 \/ \E p \in TopUps : TopUpCallback(c, p)
          PROVE  disturbed'
      BY <1>4, <2>1, <2>3 DEF ApplyTripLedger, CashOut, SettleCommission, WalletCallDies, TopUpCallback
    <2>4. ASSUME NEW c \in WalletCalls,
                 \/ CreditsTrip(c) \/ TakesCommission(c) \/ SweepReads(c) \/ SweepPosts(c)
                 \/ SettleOwedReads(c) \/ SettleOwedPosts(c)
                 \/ CashOutReads(c) \/ CashOutPosts(c) \/ TopUpPosts(c)
          PROVE  disturbed'
      BY <2>2, <2>4 DEF CreditsTrip, TakesCommission, SweepReads, SweepPosts, SettleOwedReads,
         SettleOwedPosts, CashOutReads, CashOutPosts, TopUpPosts, Ends
    <2>5. ASSUME NEW c \in WalletCalls,
                 RepayReadsLoan(c) \/ RepayReadsWallet(c) \/ RepayTakes(c) \/ RepayMarks(c)
          PROVE  disturbed'
      BY <2>2, <2>5 DEF RepayReadsLoan, RepayReadsWallet, RepayTakes, RepayMarks, Ends
    <2> QED BY <1>2, <1>3, <2>3, <2>4, <2>5 DEF WalletNext
  <1>5. CASE ~disturbed
    <2>1. ASSUME NEW c \in WalletCalls, WalletCallDies(c) PROVE FALSE
      BY <2>1 DEF WalletCallDies
    <2> QED BY <1>2, <1>3, <1>5, <2>1, SolventCredit, SolventTrip, SolventSettlement,
               SolventRepayment, SolventTopUp DEF WalletNext
  <1> QED BY <1>4, <1>5

\* Calls that never overlap nor die leave a wallet that is overdrawn by no more than the
\* second commissions of trips settled in cash and in MoMo, and a commission that is not
\* settled twice, for any trips, installments and amounts (applyTripLedger, settleOwed, cashOut).
THEOREM SolventAlone == WalletSpec => []UndisturbedIsSolvent
  <1>1. WalletInit => SolventInv
    <2>1. WalletInit => balance = 0 /\ owed = 0
      BY DEF WalletInit
    <2> QED BY <2>1, DoubleCommissionType
         DEF WalletInit, SolventInv, TakesWhatIsThere, CommissionFollows, HasRow, Free
  <1>2. SolventInv => UndisturbedIsSolvent
    BY DEF SolventInv, UndisturbedIsSolvent
  <1> QED BY WalletTypeCorrect, <1>1, SolventStep, <1>2, PTL DEF WalletSpec
=============================================================================
