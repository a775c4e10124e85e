------------------------- MODULE EventPipelineMC ---------------------------
(* Model values for the run of EventPipeline.                              *)
EXTENDS EventPipeline, TLC

CONSTANTS e1, trade, logistics, p1, p2, w1, w2

OneEvent == {e1}
MCConsumers == {trade, logistics}
FanOutOne == e1 :> <<trade, logistics>>
TwoPasses == {p1, p2}
TwoWorkers == {w1, w2}
============================================================================
