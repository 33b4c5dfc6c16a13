CONSTANTS
  Goroutines = {g1, g2}
  Pools = {p1}
  Items = {i1}
  TableIds = {t1, t2, t3, t4}
  NoItem = NoItem
  Nil = Nil
  MaxProcs = 2
  HasNew = TRUE
SPECIFICATION FairSpec
PROPERTY OpCompletes
VIEW View
