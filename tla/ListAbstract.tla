---------------------------- MODULE ListAbstract ----------------------------
(***************************************************************************)
(* container/list as its doc comments describe it (src/unnamed/part_005):  *)
(* each list is a sequence of elements; an element belongs to at most one  *)
(* list and keeps its Value; an operation given an element or mark that is *)
(* not in the list leaves the list unchanged; PushBackList/PushFrontList  *)
(* insert copies (new elements, same values) of the other list, which may  *)
(* be the list itself.                                                    *)
(***************************************************************************)
EXTENDS Integers, Sequences, FiniteSets, TLC

Seqs == INSTANCE SequencesExt

CONSTANTS Lists, Elems, Values

VARIABLES
  seqs,    \* seqs[l]: the elements of list l, front first
  value,   \* value[e]: e.Value
  alloc    \* the elements created so far

vars == <<seqs, value, alloc>>

In(l, e) == e \in Seqs!Range(seqs[l])
Pos(s, e) == Seqs!SelectInSeq(s, LAMBDA x : x = e)

NoNew == [e \in {} |-> 0]

\* The list l becomes s, where the new elements DOMAIN nv, created now,
\* hold the values nv.
Becomes(l, s, nv) ==
  /\ DOMAIN nv \cap alloc = {}
  /\ seqs' = [seqs EXCEPT ![l] = s]
  /\ alloc' = alloc \cup DOMAIN nv
  /\ value' = [e \in Elems |-> IF e \in DOMAIN nv THEN nv[e] ELSE value[e]]

\* Init clears l.
Init_(l) == Becomes(l, <<>>, NoNew)

PushFront(l, v) == \E e \in Elems \ alloc : Becomes(l, <<e>> \o seqs[l], e :> v)
PushBack(l, v) == \E e \in Elems \ alloc : Becomes(l, Append(seqs[l], e), e :> v)

\* InsertBefore/InsertAfter insert a new element next to mark if mark is an
\* element of l.
InsertBefore(l, v, mark) ==
  /\ In(l, mark)
  /\ \E e \in Elems \ alloc : Becomes(l, Seqs!InsertAt(seqs[l], Pos(seqs[l], mark), e), e :> v)

InsertAfter(l, v, mark) ==
  /\ In(l, mark)
  /\ \E e \in Elems \ alloc : Becomes(l, Seqs!InsertAt(seqs[l], Pos(seqs[l], mark) + 1, e), e :> v)

Remove(l, e) ==
  /\ In(l, e)
  /\ Becomes(l, Seqs!RemoveAt(seqs[l], Pos(seqs[l], e)), NoNew)

\* e moves to position k of l without it.
MoveTo(l, e, k(_)) ==
  LET rest == Seqs!RemoveAt(seqs[l], Pos(seqs[l], e))
  IN Becomes(l, Seqs!InsertAt(rest, k(rest), e), NoNew)

MoveToFront(l, e) == In(l, e) /\ MoveTo(l, e, LAMBDA r : 1)
MoveToBack(l, e) == In(l, e) /\ MoveTo(l, e, LAMBDA r : Len(r) + 1)

MoveBefore(l, e, mark) ==
  /\ In(l, e) /\ In(l, mark) /\ e # mark
  /\ MoveTo(l, e, LAMBDA r : Pos(r, mark))

MoveAfter(l, e, mark) ==
  /\ In(l, e) /\ In(l, mark) /\ e # mark
  /\ MoveTo(l, e, LAMBDA r : Pos(r, mark) + 1)

CopyValues(other, copies) ==
  [c \in Seqs!Range(copies) |-> value[seqs[other][Pos(copies, c)]]]

\* Copies of other's elements, in other's order, at the back or the front.
PushBackList(l, other) ==
  \E copies \in [1 .. Len(seqs[other]) -> Elems \ alloc] :
    /\ Seqs!IsInjective(copies)
    /\ Becomes(l, seqs[l] \o copies, CopyValues(other, copies))

PushFrontList(l, other) ==
  \E copies \in [1 .. Len(seqs[other]) -> Elems \ alloc] :
    /\ Seqs!IsInjective(copies)
    /\ Becomes(l, copies \o seqs[l], CopyValues(other, copies))

Init ==
  /\ seqs = [l \in Lists |-> <<>>]
  /\ alloc = {}
  /\ value \in [Elems -> Values]

\* Operations on an element or mark outside l change nothing: stuttering.
Next ==
  \/ \E l \in Lists : Init_(l)
  \/ \E l \in Lists, v \in Values : PushFront(l, v) \/ PushBack(l, v)
  \/ \E l, other \in Lists : PushBackList(l, other) \/ PushFrontList(l, other)
  \/ \E l \in Lists, v \in Values, mark \in Elems :
       InsertBefore(l, v, mark) \/ InsertAfter(l, v, mark)
  \/ \E l \in Lists, e \in Elems :
       Remove(l, e) \/ MoveToFront(l, e) \/ MoveToBack(l, e)
  \/ \E l \in Lists, e, mark \in Elems :
       MoveBefore(l, e, mark) \/ MoveAfter(l, e, mark)

Spec == Init /\ [][Next]_vars
=============================================================================
