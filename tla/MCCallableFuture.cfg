\* Three coroutines, two generators.
CONSTANTS
  c1 = c1
  c2 = c2
  c3 = c3
  c4 = c4
  e1 = e1
  e2 = e2
  Co = {c1, c2, c3}
  Event = {e1, e2}
  Null = Null
  Main = Main
  KillStatus <- OnlyTimeout
  ForeignKills = FALSE
  SharedWaits = FALSE
  MaxAwait = 2
  MaxOp = 3
SPECIFICATION Spec
SYMMETRY Symmetry
CHECK_DEADLOCK FALSE
INVARIANTS
  HandlesLive
  CallersWait
  NoSpuriousResume
  KillUnwinds
