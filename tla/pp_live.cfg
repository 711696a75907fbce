SPECIFICATION FairSpec
CONSTANTS
  MaxOpens = 1
  MaxCloses = 0
  MaxTimeouts = 0
  Report = {r1}
  Token = {k1}
  None = None
  Task = {1, 2, 3}
  StartModes = {"worker", "inpage"}
  SwitchTo = {}
  MaxSwitches = 0
  MaxFailures = 1
  MaxLosses = 1
  MaxExpiries = 2
CHECK_DEADLOCK FALSE
INVARIANT OpenHasSession
PROPERTIES OpenSettles ReportSettles
