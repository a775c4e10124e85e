------------------------ MODULE OutboxPublisherMC --------------------------
(* Model values for the runs of OutboxPublisher.                           *)
EXTENDS OutboxPublisher, TLC

CONSTANTS e1, e2, p1, p2

TwoEvents == {e1, e2}
OnePass == {p1}
TwoPasses == {p1, p2}
============================================================================
