CONSTANTS
  Locs = {x1, x2}
  Arrays = {a1, a2}
  Bytes = {1, 2}
  MaxCap = 3
  UTFMax = 2
  Nil = Nil
  None = None
  CopyHome = FALSE
SPECIFICATION Spec
SYMMETRY Symmetry
VIEW View
INVARIANT StringsImmutable
INVARIANT GrowReserve
