SPECIFICATION Spec
CONSTANTS
  po1 = po1
  k1 = k1
  k2 = k2
  k3 = k3
  r1 = r1
  r2 = r2
  u1 = u1
  POs <- OnePO
  Captures <- TwoCaptures
  Recorders <- OneRecorder
  Users <- OneUser
  InOrder = FALSE
INVARIANT GateFollowsLatest
CHECK_DEADLOCK FALSE
