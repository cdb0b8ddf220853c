SPECIFICATION ResizeSpec
CONSTANTS
  Client = {t1, t2}
  Stack = {s1, s2}
  Sizes = {1, 3}
  Offset = 1
  Config <- OneSmall
  MaxResize = 2
SYMMETRY Symmetry
INVARIANT
  UsedIsLive
