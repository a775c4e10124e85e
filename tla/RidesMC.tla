------------------------------- MODULE RidesMC -------------------------------
(* One run for three parts of UZA Move that share no state: a behaviour is *)
(* about one, the focus, and the others stay at Init.  The wallet has two: *)
(* one with both trips, one with the top-up.                               *)
EXTENDS RideTrip, RideWallet, RideAds, TLC

\* Two drivers after one trip, two MoMo payments of it, two calls in flight (those of
\* all three parts).
CONSTANTS d1, d2, momo1, momo2, call1, call2

\* Two trips, a top-up.
CONSTANTS trip1, trip2, topup1

VARIABLE focus

TwoDrivers == {d1, d2}
TwoCollections == {momo1, momo2}
TwoCalls == {call1, call2}

TwoTrips == {trip1, trip2}
TwoInstallments == 1..2
OneTopUp == {topup1}
TwoADay == [ruleType |-> "fixed_daily", fixedDaily |-> 2, percent |-> 0, roundTo |-> 1]

Sym == Permutations(TwoDrivers) \cup Permutations(TwoCollections) \cup Permutations(TwoCalls)

\* Bounds of the wallet.  Two trips, of which the second is paid by MoMo only, and no
\* top-up; or one trip, paid either way, and a top-up.
Settling(t) == {c \in TwoCalls : walletCall'[c].pc = "credit" /\ walletCall'[c].trip = t}
WalletBound ==
  IF focus = "wallet" THEN /\ UNCHANGED topUp
                           /\ \A c \in Settling(trip2) : walletCall'[c].method = "momo"
  ELSE Settling(trip2) = {}

ridesVars == <<focus, rideVars, walletVars, adVars>>

RidesInit ==
  /\ focus \in {"trip", "wallet", "topup", "ads"}
  /\ RideInit /\ WalletInit /\ AdsInit
  /\ focus # "ads" => billing = "cpm"

RidesNext ==
  /\ UNCHANGED focus
  /\ \/ focus = "trip" /\ RideNext /\ UNCHANGED <<walletVars, adVars>>
     \/ focus \in {"wallet", "topup"} /\ WalletNext /\ WalletBound /\ UNCHANGED <<rideVars, adVars>>
     \/ focus = "ads" /\ AdsNext /\ UNCHANGED <<rideVars, walletVars>>

RidesSpec == RidesInit /\ [][RidesNext]_ridesVars
==============================================================================
