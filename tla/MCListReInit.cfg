CONSTANTS
  Lists = {L1, L2}
  Elems = {e1, e2, e3, e4}
  Values = {v1, v2}
  Nil = Nil
  ReInit = TRUE
SPECIFICATION Spec
INVARIANT ListWellFormed
