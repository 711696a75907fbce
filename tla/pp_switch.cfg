SPECIFICATION Spec
CONSTANTS
  MaxOpens = 1
  MaxCloses = 1
  MaxTimeouts = 1
  Report = {}
  Token = {k1}
  None = None
  Task = {1, 2, 3}
  StartModes = {"worker", "inpage"}
  SwitchTo = {"nm", "worker"}
  MaxSwitches = 1
  MaxFailures = 1
  MaxLosses = 0
  MaxExpiries = 0
CHECK_DEADLOCK FALSE
INVARIANTS ReadyIsCurrent NoFutureGeneration PageReadyIsReady SessionsAgree NoOrphanWorker
