SPECIFICATION Spec
CONSTANTS
  Thread = {t1, t2}
  Ticker = t1
  Manager = {m1}
  Task = {k1, k2}
  Null = Null
  Nsec = 2
  Clock <- TwoTicks
  Timeout <- Timeouts
  AddWhenUnused = TRUE
  MayDestroy = FALSE
  MaxYield = 1
  MaxCall = 4
SYMMETRY Symmetry
INVARIANTS
  TimersMatch
  ManagedIsBound
  BoundIsManaged
  FinishedIsRemoved
  NotifyNeverSpins
