\* all(): some futures are ready when it is called, and nothing is killed.
CONSTANTS
  f1 = f1
  f2 = f2
  f3 = f3
  f4 = f4
  Future = {f1, f2, f3, f4}
  MaxCount = 4
  MaxGiven = 0
  ReadyAtEntry = TRUE
  InlineCallbacks = FALSE
  MayKill = FALSE
SPECIFICATION Spec
CHECK_DEADLOCK FALSE
INVARIANT EnoughReady
