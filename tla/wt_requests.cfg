SPECIFICATION FairSpec
CONSTANTS
  Req = {r1, r2}
  MaxPreOpen = 1
  Kinds = {"ws", "wt"}
CHECK_DEADLOCK FALSE
INVARIANTS NeverIdle PendingIsAnswerable
PROPERTY RequestSettles
