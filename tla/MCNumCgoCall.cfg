CONSTANTS
  Ms = {m0, m1, m2, m3}
  M0 = m0
  Nil = Nil
  MaxCgo = 2
  MExit = TRUE
SPECIFICATION Spec
SYMMETRY Symmetry
PROPERTY NumCgoCallCountsListed
PROPERTY NumCgoCallNoOvercount
