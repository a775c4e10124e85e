--------------------------- MODULE QualityGateMC ---------------------------
(* Model values for the runs of QualityGate: three captures give a failure *)
(* and its reinspection with a third between or after them.                *)
EXTENDS QualityGate

CONSTANTS po1, k1, k2, k3, r1, r2, u1

OnePO == {po1}
TwoCaptures == {k1, k2}
ThreeCaptures == {k1, k2, k3}
OneRecorder == {r1}
TwoRecorders == {r1, r2}
OneUser == {u1}
============================================================================
