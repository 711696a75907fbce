SPECIFICATION Spec
CONSTANTS
  Req = {r1, r2}
  Place <- Embedded
  Mode = {"popup", "modal"}
  MaxLists = 1
  MaxRevokes = 1
SYMMETRY Sym
CHECK_DEADLOCK FALSE
INVARIANTS AnsweredByOwnChoice GrantedIsAllowed GrantIsListed
