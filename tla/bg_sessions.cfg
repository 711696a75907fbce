SPECIFICATION Spec
SYMMETRY Symmetry
CONSTANTS
  t1 = t1
  b1 = b1
  f1 = f1
  f2 = f2
  o1 = o1
  o2 = o2
  Tab = {t1}
  Bridge = {b1}
  Frame = {f1, f2}
  Origin = {o1, o2}
  Device = {d1}
  Token = {k1, k2}
  Revoker = {r1}
  None = None
  BridgeOf <- TwoFrames
  TabOf <- OneTab
  OriginOf <- TwoOrigins
  MaxOpens = 1
  MaxFlight = 1
  MaxLosses = 1
  MaxGone = 0
  MaxTimeouts = 0
CHECK_DEADLOCK FALSE
INVARIANTS RevokedIsClosing RetiredIsClosing PurgeOnlyRetired NoLostSession OwnedByConnection
