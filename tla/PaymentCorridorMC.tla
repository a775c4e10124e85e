------------------------ MODULE PaymentCorridorMC --------------------------
(* Model values for the runs of PaymentCorridor.  Orders do not interact,  *)
(* so one order is enough; three payments can settle a whole schedule or   *)
(* compete for one installment.                                            *)
EXTENDS PaymentCorridor, TLC

CONSTANTS o1, p1, p2, p3, c1, c2, a1, a2

OneOrder == {o1}
TwoPayments == {p1, p2}
ThreePayments == {p1, p2, p3}
OneClerk == {c1}
TwoClerks == {c1, c2}
OneProcess == {a1}
TwoProcesses == {a1, a2}

\* The orders of no agent: what the sequential run asks does not look at commissions.
NoAgentInit == Init /\ \A o \in Orders : ~agent[o]
NoAgentSpec == NoAgentInit /\ [][Next]_vars /\ Fairness

Sym == Permutations(Payments) \cup Permutations(Clerks) \cup Permutations(Processes)
============================================================================
