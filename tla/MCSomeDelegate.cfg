\* Four futures, any count up to one more than there are.
CONSTANTS
  f1 = f1
  f2 = f2
  f3 = f3
  f4 = f4
  Future = {f1, f2, f3, f4}
  MaxCount = 5
  MaxGiven = 2
  ReadyAtEntry = FALSE
  InlineCallbacks = FALSE
  MayKill = TRUE
SPECIFICATION Spec
CHECK_DEADLOCK FALSE
INVARIANTS
  EnoughReady
  SomeWakes
  LeavesNoCaller
PROPERTIES
  SomeEnds
