CONSTANTS
  HeapValues = {1, 2, 3}
  MaxLen = 7
  IntBits = 4
  None = None
  Lists = {L1, L2}
  Elems = {e1, e2, e3, e4}
  ListValues = {v1, v2}
  Nil = Nil
  ReInit = FALSE
SPECIFICATION Spec
INVARIANT HeapOrdered
INVARIANT NoPanic
INVARIANT ListWellFormed
INVARIANT ElementsAgree
PROPERTY ImplementsPriorityQueue
PROPERTY ImplementsListAbstract
