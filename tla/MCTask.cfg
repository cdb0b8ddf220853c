SPECIFICATION FairSpec
CONSTANTS
  Thread = {t1, t2}
  Task = {k1, k2}
  Null = Null
  MaxYield = 1
  MaxKill = 1
  MaxNext = 1
INVARIANTS
  KeepsContract
  FinishedIsFinal
PROPERTIES
  KillFinishes
