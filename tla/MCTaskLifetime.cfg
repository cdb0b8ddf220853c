SPECIFICATION Spec
CONSTANTS
  Task = {k1, k2, k3}
  Awaiter = {a1}
  Null = Null
  MaxYield = 1
  MaxCall = 2
SYMMETRY Symmetry
INVARIANTS
  ReleasedAtRest
  EndsBeforeFreed
  AwaitersAnswered
  AwaitNotLost
