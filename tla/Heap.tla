-------------------------------- MODULE Heap --------------------------------
(***************************************************************************)
(* container/heap (src/go-1.15/src/container/heap/heap.go) over a user's   *)
(* int slice whose Less is <, Swap exchanges two elements, Push appends    *)
(* and Pop removes the last element.  The slice is a TLA+ sequence used   *)
(* with Go's 0-based indices.  Index arithmetic is done at a word width of *)
(* IntBits bits (Go's int has 64), so that down's guard against 2*i+1      *)
(* overflowing is exercised.  An index outside the slice is a Go panic,   *)
(* which the model records in panicked instead of reading a value.        *)
(***************************************************************************)
EXTENDS Integers, Sequences

Seqs == INSTANCE SequencesExt

CONSTANTS
  Values,    \* the ints the user stores
  MaxLen,    \* longest slice
  IntBits,   \* width of Go's int
  None       \* what Pop/Remove returned when nothing was returned yet

Modulus == 2 ^ IntBits
MaxInt == 2 ^ (IntBits - 1) - 1

\* A slice's length is an int.
ASSUME MaxLen \in 1 .. MaxInt

VARIABLES
  h,         \* the user's slice
  inited,    \* Init has been called on it
  out,       \* the value the last Pop or Remove returned
  panicked,  \* an operation indexed outside the slice
  call       \* the last function the user called

vars == <<h, inited, out, panicked, call>>

\* Two's-complement int arithmetic and Go's truncating division.
Wrap(x) == ((x + MaxInt + 1) % Modulus) - (MaxInt + 1)
GoQuo(a, b) == IF a >= 0 THEN a \div b ELSE -((-a) \div b)

\* Some index of ks is outside s: h.Less or h.Swap would panic.
Fault(s, ks) == \E k \in ks : k < 0 \/ k >= Len(s)

\* h.Less(i, j) and h.Swap(i, j) of the user's type.
Less(s, i, j) == s[i + 1] < s[j + 1]
Swap(s, i, j) == [s EXCEPT ![i + 1] = s[j + 1], ![j + 1] = s[i + 1]]

\* A loop's state: the slice, the current index, whether it panicked.
Panic(r) == [r EXCEPT !.panic = TRUE]

\* up: move the element at j towards the root while it is less than its
\* parent (j-1)/2; at the root the parent is j itself.
RECURSIVE UpLoop(_)
UpLoop(r) ==
  LET i == GoQuo(r.j - 1, 2) IN
  CASE i = r.j -> r
    [] Fault(r.s, {r.j, i}) -> Panic(r)
    [] ~Less(r.s, r.j, i) -> r
    [] OTHER -> UpLoop([r EXCEPT !.s = Swap(r.s, i, r.j), !.j = i])

Up(s, j) == LET r == UpLoop([s |-> s, j |-> j, panic |-> FALSE])
            IN [s |-> r.s, panic |-> r.panic]

\* Mutant: down without the j1 < 0 test after 2*i+1 overflows.
RECURSIVE DownNoOverflowGuard(_, _)
DownNoOverflowGuard(r, n) ==
  LET j1 == Wrap(2 * r.j + 1)
      j2 == Wrap(j1 + 1)
  IN
  CASE j1 >= n -> r
    [] Fault(r.s, {j1} \cup (IF j2 < n THEN {j2} ELSE {})) -> Panic(r)
    [] OTHER ->
         LET j == IF j2 < n /\ Less(r.s, j2, j1) THEN j2 ELSE j1 IN
         CASE Fault(r.s, {j, r.j}) -> Panic(r)
           [] ~Less(r.s, j, r.j) -> r
           [] OTHER -> DownNoOverflowGuard([r EXCEPT !.s = Swap(r.s, r.j, j), !.j = j], n)

\* down: move the element at i0 towards the leaves of the first n
\* elements, taking the lesser child (the right one only when strictly
\* less), while a child is less than it.
RECURSIVE DownLoop(_, _)
DownLoop(r, n) ==
  LET j1 == Wrap(2 * r.j + 1)
      j2 == Wrap(j1 + 1)
  IN
  CASE j1 >= n \/ j1 < 0 -> r
    [] Fault(r.s, {j1} \cup (IF j2 < n THEN {j2} ELSE {})) -> Panic(r)
    [] OTHER ->
         LET j == IF j2 < n /\ Less(r.s, j2, j1) THEN j2 ELSE j1 IN
         CASE Fault(r.s, {j, r.j}) -> Panic(r)
           [] ~Less(r.s, j, r.j) -> r
           [] OTHER -> DownLoop([r EXCEPT !.s = Swap(r.s, r.j, j), !.j = j], n)

\* down reports whether the element moved (i > i0).
Down(s, i0, n) ==
  LET r == DownLoop([s |-> s, j |-> i0, panic |-> FALSE], n)
  IN [s |-> r.s, moved |-> r.j > i0, panic |-> r.panic]

\* Init: down(h, i, n) for i from n/2-1 down to 0.
RECURSIVE InitLoop(_, _, _)
InitLoop(r, i, n) ==
  IF i < 0 \/ r.panic THEN r
  ELSE LET d == Down(r.s, i, n)
       IN InitLoop([s |-> d.s, panic |-> d.panic], i - 1, n)
-----------------------------------------------------------------------------
(* The package's functions, each called by the user on h *)

\* Init establishes the heap invariant; it may be called at any time.
HeapInit ==
  LET r == InitLoop([s |-> h, panic |-> FALSE], GoQuo(Len(h), 2) - 1, Len(h)) IN
  /\ call' = "init"
  /\ ~panicked
  /\ h' = r.s
  /\ panicked' = r.panic
  /\ inited' = TRUE
  /\ UNCHANGED out

\* Push: h.Push(x); up(h, h.Len()-1).
Push(x) ==
  LET r == Up(Append(h, x), Len(h)) IN
  /\ call' = "push"
  /\ ~panicked /\ inited
  /\ Len(h) < MaxLen
  /\ h' = r.s
  /\ panicked' = r.panic
  /\ UNCHANGED <<inited, out>>

\* Mutant: Pop runs down over the whole slice, the swapped-out minimum
\* included.
PopDownWholeSlice ==
  LET n == Len(h) - 1
      d == Down(Swap(h, 0, n), 0, Len(h))
  IN
  /\ call' = "pop"
  /\ ~panicked /\ inited
  /\ Len(h) > 0
  /\ h' = Seqs!Front(d.s)
  /\ out' = Seqs!Last(d.s)
  /\ panicked' = d.panic
  /\ UNCHANGED inited

\* Pop: n := h.Len()-1; h.Swap(0, n); down(h, 0, n); return h.Pop().
Pop ==
  LET n == Len(h) - 1
      d == Down(Swap(h, 0, n), 0, n)
  IN
  /\ call' = "pop"
  /\ ~panicked /\ inited
  /\ Len(h) > 0
  /\ h' = Seqs!Front(d.s)
  /\ out' = Seqs!Last(d.s)
  /\ panicked' = d.panic
  /\ UNCHANGED inited

\* Mutant: Remove only sifts down, never up.
RemoveDownOnly(i) ==
  LET n == Len(h) - 1
      d == Down(Swap(h, i, n), i, n)
      s == IF n # i THEN d.s ELSE h
  IN
  /\ call' = "remove"
  /\ ~panicked /\ inited
  /\ i \in 0 .. n
  /\ h' = Seqs!Front(s)
  /\ out' = Seqs!Last(s)
  /\ panicked' = (n # i /\ d.panic)
  /\ UNCHANGED inited

\* Remove(i): if n != i { Swap(i, n); if !down(h, i, n) { up(h, i) } };
\* return h.Pop().
Remove(i) ==
  LET n == Len(h) - 1
      d == Down(Swap(h, i, n), i, n)
      u == Up(d.s, i)
      s == CASE n = i -> h [] d.moved -> d.s [] OTHER -> u.s
  IN
  /\ call' = "remove"
  /\ ~panicked /\ inited
  /\ i \in 0 .. n
  /\ h' = Seqs!Front(s)
  /\ out' = Seqs!Last(s)
  /\ panicked' = (n # i /\ (d.panic \/ (~d.moved /\ u.panic)))
  /\ UNCHANGED inited

\* The user sets h[i] = v, then calls Fix(h, i): if !down(h, i, h.Len())
\* { up(h, i) }.
Fix(i, v) ==
  LET s0 == [h EXCEPT ![i + 1] = v]
      d == Down(s0, i, Len(s0))
      u == Up(d.s, i)
  IN
  /\ call' = "fix"
  /\ ~panicked /\ inited
  /\ i \in 0 .. Len(h) - 1
  /\ h' = IF d.moved THEN d.s ELSE u.s
  /\ panicked' = (d.panic \/ (~d.moved /\ u.panic))
  /\ UNCHANGED <<inited, out>>

Init ==
  /\ h \in Seqs!BoundedSeq(Values, MaxLen)
  /\ inited = FALSE
  /\ out = None
  /\ panicked = FALSE
  /\ call = "none"

Next ==
  \/ HeapInit
  \/ \E x \in Values : Push(x)
  \/ Pop
  \/ \E i \in 0 .. MaxLen - 1 : Remove(i)
  \/ \E i \in 0 .. MaxLen - 1, v \in Values : Fix(i, v)

Spec == Init /\ [][Next]_vars

-----------------------------------------------------------------------------
(* Properties *)

\* The heap invariant of the Interface comment, !h.Less(j, i) for every
\* child j = 2i+1, 2i+2 of i, holds after Init and after every Push, Pop,
\* Remove and Fix: Remove and Fix must choose between sifting down and up.
IsHeap(s) ==
  \A i, j \in 0 .. Len(s) - 1 : j \in {2 * i + 1, 2 * i + 2} => ~(s[j + 1] < s[i + 1])

HeapOrdered == inited => IsHeap(h)

\* No operation indexes outside the slice: down stops when 2*i+1 reaches n
\* or overflows to a negative int, and up stops at the root, whose parent
\* (0-1)/2 truncates to 0.
NoPanic == ~panicked

\* The package implements a priority queue over the slice's elements: Pop
\* returns a least element and every operation keeps the multiset of
\* elements, whatever order the swaps of up and down leave them in.
PQ == INSTANCE PriorityQueue WITH q <- Seqs!ToBag(h)

ImplementsPriorityQueue == PQ!Spec
=============================================================================
