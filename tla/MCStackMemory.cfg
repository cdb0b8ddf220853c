SPECIFICATION StackSpec
CONSTANTS
  Allocator = {x1}
  Container = {n1}
  Buffer = {m1}
  BufferSize <- BufferSizes
  Heap = {b1}
  Page = 8
  Unit = 2
  StackUnit = 4
  Minimum = 8
  Maximum = 24
  ThisSize = 3
  Request <- Requests
  NoMemory = NoMemory
INVARIANT
  WithinMemory
