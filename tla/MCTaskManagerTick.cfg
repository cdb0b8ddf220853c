SPECIFICATION TickSpec
CONSTANTS
  Thread = {t1}
  Ticker = t1
  Manager = {m1}
  Task = {k1, k2}
  Null = Null
  Nsec = 2
  Clock <- Seconds
  Timeout <- OneTimeout
  AddWhenUnused = FALSE
  MayDestroy = TRUE
  MaxYield = 1
  MaxCall = 2
INVARIANT
  TimedOutInTime
PROPERTY
  TickEnds
