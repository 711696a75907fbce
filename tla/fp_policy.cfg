SPECIFICATION Spec
CONSTANTS
  Depth = 2
  Origin = {"a", "b"}
  Headers <- Declared
  MaxLoads = 3
CHECK_DEADLOCK FALSE
INVARIANTS OneRecordPerFrame AnswerIsPolicy
