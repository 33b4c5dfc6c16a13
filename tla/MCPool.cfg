CONSTANTS
  Goroutines = {g1, g2}
  Pools = {p1}
  Items = {i1, i2}
  TableIds = {t1, t2, t3, t4}
  NoItem = NoItem
  Nil = Nil
  MaxProcs = 2
  HasNew = TRUE
SPECIFICATION Spec
SYMMETRY Symmetry
VIEW View
INVARIANT TypeOK
INVARIANT NoDuplication
INVARIANT InBounds
INVARIANT RegistryExact
INVARIANT AgeBound
PROPERTY ImplementsAbstract
