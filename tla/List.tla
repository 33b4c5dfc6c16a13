-------------------------------- MODULE List --------------------------------
(***************************************************************************)
(* container/list (src/unnamed/part_005, lines 26-233) at the level of its *)
(* pointers.  A List's root sentinel is the list's own id in Lists; the    *)
(* elements a program can create are Elems.  Each field store of the code *)
(* is one EXCEPT, in the code's order, so aliasing (at = e, at.next = at)  *)
(* behaves as in Go.  Every exported method that changes state is one      *)
(* action; the program may pass any element it has, of any list, to any   *)
(* method.                                                                 *)
(***************************************************************************)
EXTENDS Integers, Sequences, FiniteSets

Seqs == INSTANCE SequencesExt

CONSTANTS
  Lists,    \* List values (their root sentinels)
  Elems,    \* elements the program can allocate
  Values,   \* element values
  Nil,
  ReInit    \* whether the program calls Init on a list that has elements

Nodes == Lists \cup Elems

VARIABLES
  next, prev,  \* Element.next, Element.prev of every node, roots included
  list,        \* Element.list
  value,       \* Element.Value
  len,         \* List.len
  alloc        \* the elements allocated so far

vars == <<next, prev, list, value, len, alloc>>

\* The heap as a record, so that a method's stores compose.
St == [next |-> next, prev |-> prev, list |-> list, value |-> value,
       len |-> len, alloc |-> alloc]

\* l.Init(): root.next = root.prev = &root, len = 0.
InitOp(st, l) == [st EXCEPT !.next[l] = l, !.prev[l] = l, !.len[l] = 0]

\* l.lazyInit(): Init a zero List, whose root.next is nil.
LazyInit(st, l) == IF st.next[l] = Nil THEN InitOp(st, l) ELSE st

\* l.insert(e, at): e.prev = at; e.next = at.next; e.prev.next = e;
\* e.next.prev = e; e.list = l; l.len++.
Insert(st, e, at, l) ==
  LET s1 == [st EXCEPT !.prev[e] = at]
      s2 == [s1 EXCEPT !.next[e] = s1.next[at]]
      s3 == [s2 EXCEPT !.next[s2.prev[e]] = e]
      s4 == [s3 EXCEPT !.prev[s3.next[e]] = e]
  IN [s4 EXCEPT !.list[e] = l, !.len[l] = @ + 1]

\* A fresh &Element{}: the new element's id.
Fresh(st) == CHOOSE e \in Elems \ st.alloc : TRUE

\* l.insertValue(v, at): insert(&Element{Value: v}, at).
InsertValue(st, v, at, l) ==
  LET e == Fresh(st)
  IN Insert([st EXCEPT !.alloc = @ \cup {e}, !.value[e] = v], e, at, l)

\* Mutant: remove forgets e.list = nil.
RemoveKeepList(st, e, l) ==
  LET s1 == [st EXCEPT !.next[st.prev[e]] = st.next[e]]
      s2 == [s1 EXCEPT !.prev[s1.next[e]] = s1.prev[e]]
  IN [s2 EXCEPT !.next[e] = Nil, !.prev[e] = Nil, !.len[l] = @ - 1]

\* l.remove(e): unlink e, clear its pointers and list, l.len--.
RemoveOp(st, e, l) ==
  LET s1 == [st EXCEPT !.next[st.prev[e]] = st.next[e]]
      s2 == [s1 EXCEPT !.prev[s1.next[e]] = s1.prev[e]]
  IN [s2 EXCEPT !.next[e] = Nil, !.prev[e] = Nil, !.list[e] = Nil, !.len[l] = @ - 1]

\* Mutant: move without its e == at early return.
MoveNoSelfCheck(st, e, at) ==
  LET s1 == [st EXCEPT !.next[st.prev[e]] = st.next[e]]
      s2 == [s1 EXCEPT !.prev[s1.next[e]] = s1.prev[e]]
      s3 == [s2 EXCEPT !.prev[e] = at]
      s4 == [s3 EXCEPT !.next[e] = s3.next[at]]
      s5 == [s4 EXCEPT !.next[s4.prev[e]] = e]
  IN [s5 EXCEPT !.prev[s5.next[e]] = e]

\* l.move(e, at): if e == at return; unlink e; relink it after at.
Move(st, e, at) ==
  IF e = at THEN st
  ELSE
    LET s1 == [st EXCEPT !.next[st.prev[e]] = st.next[e]]
        s2 == [s1 EXCEPT !.prev[s1.next[e]] = s1.prev[e]]
        s3 == [s2 EXCEPT !.prev[e] = at]
        s4 == [s3 EXCEPT !.next[e] = s3.next[at]]
        s5 == [s4 EXCEPT !.next[s4.prev[e]] = e]
    IN [s5 EXCEPT !.prev[s5.next[e]] = e]

\* l.Front(), l.Back(): nil when len is 0.
Front(st, l) == IF st.len[l] = 0 THEN Nil ELSE st.next[l]
Back(st, l) == IF st.len[l] = 0 THEN Nil ELSE st.prev[l]

\* e.Next(), e.Prev(): nil at the root or for an element of no list.
ElemNext(st, e) == IF st.list[e] # Nil /\ st.next[e] # st.list[e] THEN st.next[e] ELSE Nil
ElemPrev(st, e) == IF st.list[e] # Nil /\ st.prev[e] # st.list[e] THEN st.prev[e] ELSE Nil

\* PushBackList's loop: for i, e := other.Len(), other.Front(); i > 0;
\* i, e = i-1, e.Next() { l.insertValue(e.Value, l.root.prev) }.
RECURSIVE CopyBack(_, _, _, _)
CopyBack(st, l, i, e) ==
  IF i <= 0 THEN st
  ELSE LET s == InsertValue(st, st.value[e], st.prev[l], l)
       IN CopyBack(s, l, i - 1, ElemNext(s, e))

\* PushFrontList's loop, from other.Back() by e.Prev(), each at the front.
RECURSIVE CopyFront(_, _, _, _)
CopyFront(st, l, i, e) ==
  IF i <= 0 THEN st
  ELSE LET s == InsertValue(st, st.value[e], l, l)
       IN CopyFront(s, l, i - 1, ElemPrev(s, e))

\* PushFrontList's loop walking other from the front, reversing the copy.
RECURSIVE CopyFrontForward(_, _, _, _)
CopyFrontForward(st, l, i, e) ==
  IF i <= 0 THEN st
  ELSE LET s == InsertValue(st, st.value[e], l, l)
       IN CopyFrontForward(s, l, i - 1, ElemNext(s, e))

-----------------------------------------------------------------------------
(* The exported methods *)

Apply(st) ==
  /\ next' = st.next /\ prev' = st.prev /\ list' = st.list
  /\ value' = st.value /\ len' = st.len /\ alloc' = st.alloc

\* Enough unallocated elements for k more &Element{} (the bound Elems).
CanAlloc(k) == Cardinality(Elems \ alloc) >= k

\* l.Init(), also New() on a fresh List.  Without ReInit the program only
\* clears a list that has no elements.
ListInit(l) ==
  /\ ReInit \/ len[l] = 0
  /\ Apply(InitOp(St, l))

PushFront(l, v) ==
  /\ CanAlloc(1)
  /\ Apply(InsertValue(LazyInit(St, l), v, l, l))

PushBack(l, v) ==
  /\ CanAlloc(1)
  /\ LET st == LazyInit(St, l) IN Apply(InsertValue(st, v, st.prev[l], l))

\* InsertBefore/InsertAfter return nil if mark.list != l.
InsertBefore(l, v, mark) ==
  \/ list[mark] # l /\ UNCHANGED vars
  \/ list[mark] = l /\ CanAlloc(1) /\ Apply(InsertValue(St, v, prev[mark], l))

InsertAfter(l, v, mark) ==
  \/ list[mark] # l /\ UNCHANGED vars
  \/ list[mark] = l /\ CanAlloc(1) /\ Apply(InsertValue(St, v, mark, l))

\* Remove: if e.list == l { l.remove(e) }; return e.Value.
Remove(l, e) ==
  \/ list[e] # l /\ UNCHANGED vars
  \/ list[e] = l /\ Apply(RemoveOp(St, e, l))

MoveToFront(l, e) ==
  \/ (list[e] # l \/ next[l] = e) /\ UNCHANGED vars
  \/ list[e] = l /\ next[l] # e /\ Apply(Move(St, e, l))

MoveToBack(l, e) ==
  \/ (list[e] # l \/ prev[l] = e) /\ UNCHANGED vars
  \/ list[e] = l /\ prev[l] # e /\ Apply(Move(St, e, prev[l]))

MoveBefore(l, e, mark) ==
  \/ (list[e] # l \/ e = mark \/ list[mark] # l) /\ UNCHANGED vars
  \/ list[e] = l /\ e # mark /\ list[mark] = l /\ Apply(Move(St, e, prev[mark]))

MoveAfter(l, e, mark) ==
  \/ (list[e] # l \/ e = mark \/ list[mark] # l) /\ UNCHANGED vars
  \/ list[e] = l /\ e # mark /\ list[mark] = l /\ Apply(Move(St, e, mark))

PushBackList(l, other) ==
  LET st == LazyInit(St, l) IN
  /\ CanAlloc(st.len[other])
  /\ Apply(CopyBack(st, l, st.len[other], Front(st, other)))

\* Mutant: PushFrontList starting at other.Front() and following Next.
PushFrontListForward(l, other) ==
  LET st == LazyInit(St, l) IN
  /\ CanAlloc(st.len[other])
  /\ Apply(CopyFrontForward(st, l, st.len[other], Front(st, other)))

PushFrontList(l, other) ==
  LET st == LazyInit(St, l) IN
  /\ CanAlloc(st.len[other])
  /\ Apply(CopyFront(st, l, st.len[other], Back(st, other)))

\* Every List starts as its zero value; no element exists yet.
Init ==
  /\ next = [n \in Nodes |-> Nil] /\ prev = [n \in Nodes |-> Nil]
  /\ list = [e \in Elems |-> Nil]
  /\ value = [e \in Elems |-> CHOOSE v \in Values : TRUE]
  /\ len = [l \in Lists |-> 0]
  /\ alloc = {}

Next ==
  \/ \E l \in Lists : ListInit(l)
  \/ \E l \in Lists, v \in Values : PushFront(l, v) \/ PushBack(l, v)
  \/ \E l, other \in Lists : PushBackList(l, other) \/ PushFrontList(l, other)
  \/ \E l \in Lists, v \in Values, mark \in alloc :
       InsertBefore(l, v, mark) \/ InsertAfter(l, v, mark)
  \/ \E l \in Lists, e \in alloc :
       Remove(l, e) \/ MoveToFront(l, e) \/ MoveToBack(l, e)
  \/ \E l \in Lists, e, mark \in alloc :
       MoveBefore(l, e, mark) \/ MoveAfter(l, e, mark)

Spec == Init /\ [][Next]_vars

-----------------------------------------------------------------------------
(* Properties *)

\* The elements met following next from l's root, up to the root again.
Chain(l) ==
  LET RECURSIVE W(_, _)
      W(n, k) == IF n = l \/ n = Nil \/ k = 0 THEN <<>> ELSE <<n>> \o W(next[n], k - 1)
  IN W(next[l], Cardinality(Elems) + 1)

\* An initialised list is a ring through its root: following next returns
\* to the root, prev undoes next at every node, and len, which Len, Front
\* and Back trust, counts its elements.  insert, remove and move rewrite
\* four pointers each in an order where at, at.next and e may alias.
ListWellFormed ==
  \A l \in Lists :
    IF next[l] = Nil THEN prev[l] = Nil /\ len[l] = 0
    ELSE LET c == Chain(l) IN
         /\ Len(c) <= Cardinality(Elems)
         /\ next[IF c = <<>> THEN l ELSE c[Len(c)]] = l
         /\ \A n \in Seqs!Range(c) \cup {l} : prev[next[n]] = n
         /\ Len(c) = len[l]

\* e.list, on which every method's "is e an element of l" test relies,
\* names exactly the list whose ring holds e; an element out of every list
\* has nil links.
ElementsAgree ==
  \A e \in alloc :
    /\ \A l \in Lists : (list[e] = l) <=> (next[l] # Nil /\ e \in Seqs!Range(Chain(l)))
    /\ list[e] = Nil => next[e] = Nil /\ prev[e] = Nil

\* The pointer structure implements the documented list of elements: every
\* method changes the sequence of l's elements as its comment says, ignores
\* elements and marks of other lists, and PushBackList/PushFrontList append
\* copies of exactly the other list's elements in order, even when other
\* is l itself and grows while it is copied.
Abs == INSTANCE ListAbstract WITH
         seqs <- [l \in Lists |-> IF next[l] = Nil THEN <<>> ELSE Chain(l)]

ImplementsListAbstract == Abs!Spec
=============================================================================
