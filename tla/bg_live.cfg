SPECIFICATION FairSpec
CONSTANTS
  t1 = t1
  b1 = b1
  f1 = f1
  f2 = f2
  o1 = o1
  o2 = o2
  Tab = {t1}
  Bridge = {b1}
  Frame = {f1}
  Origin = {o1}
  Device = {d1}
  Token = {k1}
  Revoker = {}
  None = None
  BridgeOf <- TwoFrames
  TabOf <- OneTab
  OriginOf <- OneOrigin
  MaxOpens = 1
  MaxFlight = 1
  MaxLosses = 1
  MaxGone = 1
  MaxTimeouts = 1
CHECK_DEADLOCK FALSE
PROPERTIES ControlAnswered OrphansDrain GoneBridgeCloses
