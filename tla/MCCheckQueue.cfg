SPECIFICATION Spec
CONSTANTS
  Workers = {w1, w2}
  Masters = {m1}
  Checks = {c1, c2, c3, c4}
  Bad = {c4}
  nBatchSize = 2
  MaxRounds = 2
  MaxInterrupts = 1
  Null = Null
INVARIANTS
  TodoCounts
  WaitReturnsConjunction
  NoneSkipped
  FinishedBeforeRelease
PROPERTIES
  ControlReleased
CHECK_DEADLOCK FALSE
