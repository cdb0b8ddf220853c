\* Three tasks, a generator and a manager.
CONSTANTS
  c1 = c1
  c2 = c2
  c3 = c3
  e1 = e1
  Co = {c1, c2, c3}
  Event = {e1}
  Null = Null
  Main = Main
  Table = Table
  DropsRunning = FALSE
  DropsWoken = FALSE
  MaxAwait = 2
  MaxOp = 5
  Clock = {1, 3}
  Timeout = {0, 1}
  MayEnd = TRUE
SPECIFICATION Spec
SYMMETRY Symmetry
CHECK_DEADLOCK FALSE
INVARIANTS
  HandlesLive
  KillUnwinds
  LastFutureEnds
  TableExact
