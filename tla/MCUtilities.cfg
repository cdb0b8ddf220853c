SPECIFICATION USpec
CONSTANTS
  h1 = h1
  h2 = h2
  h3 = h3
  u1 = u1
  u2 = u2
  p1 = p1
  p2 = p2
  p3 = p3
  m1 = m1
  m2 = m2
  Thread = {t1, t2, t3}
  SeqCount = 2
  BlockSize = 2
  MaxClock = 2
  Holder = {h1, h2, h3}
  OwnerOf <- HolderOwner
  User = {u1, u2}
  Object = {o1, o2}
  Variable = {p1, p2, p3}
  UserOf <- VariableUser
  Nil = Nil
  Writer = {w1, w2}
  Modulus = 4
  BitAnd <- AndBits
  BitOr <- OrBits
  BitXor <- XorBits
  Cell = {c1, c2, c3}
  Datum = {d1, d2}
  Block = {b1, b2, b3, b4}
  Zero = Zero
  Pending = Pending
  Client = {q1, q2}
  Stack = {s1, s2, s3}
  Sizes = {1, 3}
  Offset = 1
  Config <- Configs
  MaxResize = 1
  Allocator = {x1, x2}
  Container = {n1, n2, n3}
  Buffer = {m1, m2}
  BufferSize <- BufferSizes
  Heap = {b1, b2, b3}
  Page = 8
  Unit = 2
  StackUnit = 4
  Minimum = 8
  Maximum = 24
  ThisSize = 3
  Request <- Requests
  NoMemory = NoMemory
SYMMETRY Symmetry
INVARIANTS
  LimitsExact
  UsedIsLive
  StacksFit
  IdsAreUnique
  MutualExclusion
  CountedExactly
  NothingLost
PROPERTIES
  ImplementsFuture
  NothingLeaks
