--------------------------- MODULE PriorityQueue ---------------------------
(***************************************************************************)
(* What container/heap promises a user of its Interface (the package and  *)
(* function comments of src/go-1.15/src/container/heap/heap.go): a         *)
(* multiset of values where Push adds one, Pop removes and returns a       *)
(* minimum by Less, Remove removes and returns some element, and Fix       *)
(* re-establishes the order after the user changed one element.            *)
(***************************************************************************)
EXTENDS Integers, Bags, BagsExt

CONSTANTS Values, None

VARIABLES
  q,     \* the bag of values in the queue
  out,   \* the value the last Pop or Remove returned
  call   \* the last function called

vars == <<q, out, call>>

\* Init orders the elements and keeps them.
Heapify ==
  /\ call' = "init"
  /\ UNCHANGED <<q, out>>

Push(x) ==
  /\ call' = "push"
  /\ q' = BagAdd(q, x)
  /\ UNCHANGED out

\* Pop removes and returns the minimum element (according to Less).
PopMin ==
  /\ call' = "pop"
  /\ q # EmptyBag
  /\ out' \in BagToSet(q)
  /\ \A y \in BagToSet(q) : ~(y < out')
  /\ q' = BagRemove(q, out')

Remove ==
  /\ call' = "remove"
  /\ out' \in BagToSet(q)
  /\ q' = BagRemove(q, out')

\* The user changes one element's value, then calls Fix.
Update ==
  /\ call' = "fix"
  /\ \E x \in BagToSet(q), v \in Values : q' = BagAdd(BagRemove(q, x), v)
  /\ UNCHANGED out

Init ==
  /\ IsABag(q)
  /\ out = None
  /\ call = "none"

Next ==
  \/ Heapify
  \/ \E x \in Values : Push(x)
  \/ PopMin
  \/ Remove
  \/ Update

Spec == Init /\ [][Next]_vars
=============================================================================
