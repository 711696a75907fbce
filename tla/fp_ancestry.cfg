SPECIFICATION Spec
CONSTANTS
  Depth = 2
  Origin = {"a"}
  Headers <- Denying
  MaxLoads = 4
CHECK_DEADLOCK FALSE
INVARIANT DenyDominates
