------------------------- MODULE OrderToDeliveryMC -------------------------
(* One order of one lot; two payments settle the schedule of a new         *)
(* customer, or reach the pre-loading installment of an established one.   *)
(* A behaviour is about the money alone, with two clerks and a             *)
(* cancellation, about the reversal of a commission, with one finance      *)
(* request at a time and every cancellation, or about the goods as well,   *)
(* with one request and nobody to pay a commission to: the focus.          *)
EXTENDS OrderToDelivery, TLC

CONSTANTS o1, p1, p2, c1, c2, a1, a2, g1, l1, po1, goma, s1, u1

VARIABLE focus

OneOrder == {o1}
TwoPayments == {p1, p2}
TwoClerks == {c1, c2}
TwoProcesses == {a1, a2}
OnePackage == {g1}
OneLot == {l1}
OnePO == {po1}
OneDestination == {goma}
OneShipment == {s1}
OneUser == {u1}
LotEach == g1 :> l1
OrderEach == l1 :> o1
POEach == l1 :> po1
Sym == Permutations(TwoPayments) \cup Permutations(TwoClerks) \cup Permutations(TwoProcesses)

runVars == <<flowVars, focus>>

OneRequest == \E c \in Clerks : \A d \in Clerks \ {c} : clerk[d] = Idle

RunInit ==
  /\ FlowInit /\ focus \in {"money", "reversal", "goods"}
  /\ focus = "goods" => \A o \in Orders : ~agent[o]
  /\ focus = "reversal" => \A o \in Orders : agent[o]

RunNext ==
  /\ UNCHANGED focus
  /\ \/ focus = "money" /\ MoneyStep /\ \A o \in Orders : cancels'[o] <= 1
     \/ focus = "reversal" /\ MoneyStep /\ OneRequest'
     \/ focus = "goods" /\ FlowNext /\ OneRequest' /\ UNCHANGED cancels

RunSpec == RunInit /\ [][RunNext]_runVars
============================================================================
