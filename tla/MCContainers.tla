---------------------------- MODULE MCContainers ----------------------------
(***************************************************************************)
(* container/heap and container/list, checked in one model.  They share  *)
(* nothing, so a behaviour exercises one of them (active) while the other *)
(* stays in an initial state; the states are those of the two models side *)
(* by side, not their product.                                            *)
(***************************************************************************)
EXTENDS Integers

CONSTANTS HeapValues, MaxLen, IntBits, None, Lists, Elems, ListValues, Nil, ReInit

VARIABLES h, inited, out, panicked, call, next, prev, list, value, len, alloc, active

H == INSTANCE Heap WITH Values <- HeapValues
L == INSTANCE List WITH Values <- ListValues

heapvars == <<h, inited, out, panicked, call>>
listvars == <<next, prev, list, value, len, alloc>>
vars == <<heapvars, listvars, active>>

Init ==
  \/ active = "heap" /\ H!Init /\ L!Init
  \/ active = "list" /\ H!Init /\ h = <<>> /\ L!Init

Next ==
  \/ active = "heap" /\ H!Next /\ UNCHANGED <<listvars, active>>
  \/ active = "list" /\ L!Next /\ UNCHANGED <<heapvars, active>>

Spec == Init /\ [][Next]_vars

\* The heap invariant, no out-of-range index at a 4-bit int, and the
\* priority queue refinement (Heap!HeapOrdered, Heap!NoPanic,
\* Heap!ImplementsPriorityQueue).
HeapOrdered == H!HeapOrdered
NoPanic == H!NoPanic
ImplementsPriorityQueue == H!ImplementsPriorityQueue

\* Every list a consistent ring counted by len, e.list exact, and the
\* sequence refinement (List!ListWellFormed, List!ElementsAgree,
\* List!ImplementsListAbstract).
ListWellFormed == L!ListWellFormed
ElementsAgree == L!ElementsAgree
ImplementsListAbstract == L!ImplementsListAbstract
=============================================================================
