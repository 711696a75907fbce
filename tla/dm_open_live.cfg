CONSTANTS
  c1 = c1  c2 = c2
  d1 = d1  d2 = d2
  t1 = t1  t2 = t2  t3 = t3
  k1 = k1  k2 = k2
  Client = {c1, c2}
  Device = {d1}
  Token = {t1, t2}
  Conn = {}
  None = None
  AskModes = {}
  MaxUnplug = 0
  IoErrors = TRUE
  Lagging = FALSE
SPECIFICATION FairSpec
PROPERTIES OpenReturns TeardownCompletes
CHECK_DEADLOCK FALSE
