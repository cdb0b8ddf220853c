SPECIFICATION MCSpec
CONSTANTS
  Thread = {t1, t2, t3}
  Coroutine = {c1, c2, c3}
  Null = Null
SYMMETRY Symmetry
INVARIANTS
  StackExclusive
  ThisCoroutineExact
  ReadyIsResumable
PROPERTIES
  ExceptionReachesStarter
  CallDiscipline
