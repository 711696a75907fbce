CONSTANTS
  c1 = c1  c2 = c2
  d1 = d1  d2 = d2
  t1 = t1  t2 = t2  t3 = t3
  k1 = k1  k2 = k2
  Client = {c1}
  Device = {d1}
  Token = {t1}
  Conn = {k1, k2}
  None = None
  AskModes = {"nm", "ws", "wt"}
  MaxUnplug = 1
  IoErrors = TRUE
  Lagging = TRUE
SPECIFICATION FairSpec
INVARIANTS CapabilityCurrent CountExact
PROPERTIES DisconnectIsolated RevokedIsNotServed LostLifetimeEnds
CHECK_DEADLOCK FALSE
