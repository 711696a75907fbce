SPECIFICATION FairSpec
CONSTANTS
  MaxDocs = 3
  MaxPorts = 3
  Worker = {w1}
  Token = {t1}
  None = None
  MaxExpiries = 1
CHECK_DEADLOCK FALSE
INVARIANTS OnePortPerDocument NoLostSession
PROPERTY OfferAccepted
