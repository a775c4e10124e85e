------------------------- MODULE EventDispatchMC ---------------------------
(* Model values for the run of EventDispatch: e1 fans out to two modules,  *)
(* as payment.verified does.                                               *)
EXTENDS EventDispatch, TLC

CONSTANTS e1, trade, logistics, w1, w2

OneEvent == {e1}
MCConsumers == {trade, logistics}
FanOutOne == e1 :> <<trade, logistics>>
MCWorkers == {w1, w2}
============================================================================
