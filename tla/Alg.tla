-------------------------------- MODULE Alg --------------------------------
(***************************************************************************)
(* The runtime's generic hashing and equality of map keys (alg.go, in     *)
(* src/unnamed/part_001): typehash, the float, complex and interface      *)
(* hashes, and the interface equality functions.                          *)
(*                                                                         *)
(* Memory is abstracted to slots: a value of type t is the sequence of its *)
(* Types[t].size slots, a scalar takes one slot, and a gap between two     *)
(* struct fields stands for the padding the compiler inserts there.  A     *)
(* slot holds a string: "0", "1" for an integer, "+0", "-0", "1.0", "NaN" *)
(* for a float's bits, pointer and map words.  An interface value is     *)
(* <<type word, data word>>; the data word is a sequence: the one slot of *)
(* a direct type (&a.data), or the value an indirect type's word points   *)
(* to.  An itab is named by its dynamic type.                              *)
(*                                                                         *)
(* memhash is assembly, not in the repository: it is a free function of   *)
(* the seed and the slots it reads, a term <<"mem", h, slots>>, and so are *)
(* c1 * h, c0 ^ h and h ^ fastrand().  Two hashes that are equal as terms *)
(* are equal whatever memhash, c0, c1 and the hash key are.                *)
(***************************************************************************)
EXTENDS Integers, Sequences

CONSTANTS
  Types,    \* Types[t]: the descriptor of type t
  Dynamic,  \* the types interface values hold in the model
  Rands     \* the values fastrand() may return

Nil == "nil"
Panic == <<"panic">>
Seed == <<"seed">>

IntSlots == {"0", "1"}
FloatSlots == {"+0", "-0", "1.0", "NaN"}
ScalarSlots ==
  [int |-> IntSlots, ptr |-> {"p1", "p2"}, map |-> {"m1", "m2"}, slice |-> {"s1"},
   float32 |-> FloatSlots, float64 |-> FloatSlots]

\* add(p, off): the slots from offset off on.
add(p, off) == SubSeq(p, off + 1, Len(p))

\* The terms of the hash arithmetic; a panic propagates.
Term(op, h, arg) == IF h = Panic THEN Panic ELSE <<op, h, arg>>
memhash(p, h, s) == Term("mem", h, SubSeq(p, 1, s))
c1Times(h) == Term("c1*", h, 0)
c0Xor(h) == Term("c0^", h, 0)
randXor(h, r) == Term("^", h, r)

\* What a comparison does: answer true or false, or panic.
Yes == "true"
No == "false"
Panics == "panic"
Answer(b) == IF b THEN Yes ELSE No

\* A float's == on its bits: +0 equals -0 and NaN equals nothing.
FloatEq(a, b) == a # "NaN" /\ b # "NaN" /\ (a = b \/ {a, b} = {"+0", "-0"})
-----------------------------------------------------------------------------
(* The values of each type, and Go's == on them (the language spec):      *)
(* the reference both functions are checked against.                      *)

RECURSIVE Values(_), Layout(_, _, _), Repeat(_, _)
Values(t) ==
  LET d == Types[t] IN
  CASE d.kind \in DOMAIN ScalarSlots -> {<<s>> : s \in ScalarSlots[d.kind]}
    [] d.kind = "complex64" -> {<<a, b>> : a, b \in FloatSlots}
    [] d.kind = "array" -> Repeat(d.elem, d.len)
    [] d.kind = "struct" -> Layout(d.fields, 0, d.size)
    [] d.kind = "interface" ->
         {<<Nil, <<>>>>} \cup
         UNION {{<<dt, w>> : w \in Values(dt)} : dt \in Dynamic}
Repeat(t, n) == IF n = 0 THEN {<<>>} ELSE {u \o v : u \in Values(t), v \in Repeat(t, n - 1)}
\* The fields from offset off on; a slot no field starts at is padding.
Layout(fs, off, size) ==
  IF off = size THEN {<<>>}
  ELSE IF fs # <<>> /\ Head(fs).offset = off
    THEN {u \o v : u \in Values(Head(fs).typ),
                   v \in Layout(Tail(fs), off + Types[Head(fs).typ].size, size)}
    ELSE {<<s>> \o v : s \in IntSlots, v \in Layout(fs, off + 1, size)}

RECURSIVE Comparable(_)
Comparable(t) ==
  LET d == Types[t] IN
  CASE d.kind \in {"map", "slice"} -> FALSE
    [] d.kind = "array" -> Comparable(d.elem)
    [] d.kind = "struct" -> \A i \in DOMAIN d.fields : Comparable(d.fields[i].typ)
    [] OTHER -> TRUE

\* x == y: Yes, No, or Panics when two interface values hold the same
\* uncomparable dynamic type.
RECURSIVE GoEqual(_, _, _)
GoEqual(t, x, y) ==
  LET d == Types[t]
      All(rs) == IF Panics \in rs THEN Panics ELSE Answer(rs \subseteq {Yes})
      Field(f) == GoEqual(f.typ, SubSeq(x, f.offset + 1, f.offset + Types[f.typ].size),
                                 SubSeq(y, f.offset + 1, f.offset + Types[f.typ].size))
  IN
  CASE d.kind \in {"float32", "float64"} -> Answer(FloatEq(x[1], y[1]))
    [] d.kind = "complex64" -> Answer(FloatEq(x[1], y[1]) /\ FloatEq(x[2], y[2]))
    [] d.kind = "array" ->
         LET es == Types[d.elem].size IN
         All({GoEqual(d.elem, SubSeq(x, i * es + 1, i * es + es), SubSeq(y, i * es + 1, i * es + es))
              : i \in 0 .. d.len - 1})
    [] d.kind = "struct" -> All({Field(d.fields[i]) : i \in {j \in DOMAIN d.fields : ~d.fields[j].blank}})
    [] d.kind = "interface" ->
         IF x[1] # y[1] THEN No
         ELSE IF x[1] = Nil THEN Yes
         ELSE IF ~Comparable(x[1]) THEN Panics
         ELSE GoEqual(x[1], x[2], y[2])
    [] OTHER -> Answer(x = y)
-----------------------------------------------------------------------------
(* Hashing: r is what fastrand() returns in this call.                   *)

RECURSIVE typehash(_, _, _, _), StructHashPadding(_, _, _, _, _, _),
          StructHash(_, _, _, _, _, _), ArrayHash(_, _, _, _, _)

\* f32hash, f64hash: +0 and -0 hash alike, a NaN hashes to a random value.
fhash(p, h, r, s) ==
  CASE p[1] \in {"+0", "-0"} -> c1Times(c0Xor(h))
    [] p[1] = "NaN" -> c1Times(randXor(c0Xor(h), r))
    [] OTHER -> memhash(p, h, s)
f32hash(p, h, r) == fhash(p, h, r, 1)
f64hash(p, h, r) == fhash(p, h, r, 1)
c64hash(p, h, r) == f32hash(add(p, 1), f32hash(p, h, r), r)

\* interhash: a nil interface hashes to h; an uncomparable dynamic type
\* panics; otherwise the value is hashed as its dynamic type, through the
\* data word itself for a direct type.
interhash(p, h, r) ==
  LET t == p[1] IN
  IF t = Nil THEN h
  ELSE IF ~Types[t].equal THEN Panic
  ELSE c1Times(typehash(t, p[2], c0Xor(h), r))
\* nilinterhash: the same with a._type, which is tab._type here.
nilinterhash(p, h, r) == interhash(p, h, r)

\* The array case: for i < a.len, h = typehash(a.elem, add(p, i*size), h).
ArrayHash(a, p, h, r, i) ==
  IF i = a.len THEN h
  ELSE ArrayHash(a, p, typehash(a.elem, add(p, i * Types[a.elem].size), h, r), r, i + 1)

\* Mutant: a field that does not start at memEnd does not flush the
\* pending run, so the run goes on over the padding before it.
StructHashPadding(fs, p, h, r, memStart, memEnd) ==
  IF fs = <<>> THEN IF memEnd > memStart THEN memhash(add(p, memStart), h, memEnd - memStart) ELSE h
  ELSE
    LET f == Head(fs)
        regular == Types[f.typ].regular
        flush == memEnd > memStart /\ (f.blank \/ ~regular)
        h1 == IF flush THEN memhash(add(p, memStart), h, memEnd - memStart) ELSE h
        start == IF flush THEN memEnd ELSE memStart
    IN
    CASE f.blank -> StructHashPadding(Tail(fs), p, h1, r, start, memEnd)
      [] ~regular -> StructHashPadding(Tail(fs), p, typehash(f.typ, add(p, f.offset), h1, r), r, start, memEnd)
      [] OTHER -> StructHashPadding(Tail(fs), p, h1, r, IF start = memEnd THEN f.offset ELSE start,
                                    f.offset + Types[f.typ].size)

\* The struct case: runs of regular-memory fields that touch are hashed by
\* one memhash; a blank field, a gap or a field of another kind flushes
\* the run; blank fields are skipped and the others hashed by typehash.
StructHash(fs, p, h, r, memStart, memEnd) ==
  IF fs = <<>> THEN IF memEnd > memStart THEN memhash(add(p, memStart), h, memEnd - memStart) ELSE h
  ELSE
    LET f == Head(fs)
        regular == Types[f.typ].regular
        flush == memEnd > memStart /\ (f.blank \/ f.offset # memEnd \/ ~regular)
        h1 == IF flush THEN memhash(add(p, memStart), h, memEnd - memStart) ELSE h
        start == IF flush THEN memEnd ELSE memStart
    IN
    CASE f.blank -> StructHash(Tail(fs), p, h1, r, start, memEnd)
      [] ~regular -> StructHash(Tail(fs), p, typehash(f.typ, add(p, f.offset), h1, r), r, start, memEnd)
      [] OTHER -> StructHash(Tail(fs), p, h1, r, IF start = memEnd THEN f.offset ELSE start,
                             f.offset + Types[f.typ].size)

\* typehash: regular memory by one memhash (memhash32 and memhash64 are
\* memhash of 4 and 8 bytes), the other kinds by their hash, and a panic
\* for a kind that has none.
typehash(t, p, h, r) ==
  LET d == Types[t] IN
  IF d.regular THEN memhash(p, h, d.size)
  ELSE CASE d.kind = "float32" -> f32hash(p, h, r)
         [] d.kind = "float64" -> f64hash(p, h, r)
         [] d.kind = "complex64" -> c64hash(p, h, r)
         [] d.kind = "interface" /\ d.methods = 0 -> nilinterhash(p, h, r)
         [] d.kind = "interface" -> interhash(p, h, r)
         [] d.kind = "array" -> ArrayHash(d, p, h, r, 0)
         [] d.kind = "struct" -> StructHash(d.fields, p, h, r, 0, 0)
         [] OTHER -> Panic
-----------------------------------------------------------------------------
(* Equality *)

memequal64(p, q) == p[1] = q[1]
f32equal(p, q) == FloatEq(p[1], q[1])
f64equal(p, q) == FloatEq(p[1], q[1])
c64equal(p, q) == FloatEq(p[1], q[1]) /\ FloatEq(p[2], q[2])

\* t.equal: the functions above, and the compiler-generated equality of
\* struct and array types, which is Go's ==.
RECURSIVE equal(_, _, _)

\* Mutant: the direct-interface test before the comparability test, so
\* two equal map words compare equal instead of panicking.
efaceeqDirectFirst(t, x, y) ==
  IF t = Nil THEN Yes
  ELSE IF Types[t].direct THEN Answer(x = y)
  ELSE IF ~Types[t].equal THEN Panics
  ELSE equal(t, x, y)

\* efaceeq: a nil type is equal; no equal function panics; a direct type
\* compares the data words; otherwise eq(x, y).
efaceeq(t, x, y) ==
  IF t = Nil THEN Yes
  ELSE IF ~Types[t].equal THEN Panics
  ELSE IF Types[t].direct THEN Answer(x = y)
  ELSE equal(t, x, y)
\* ifaceeq: the same with tab._type.
ifaceeq(tab, x, y) == efaceeq(tab, x, y)

\* x._type == y._type && efaceeq(...): different types are unequal
\* without a call, so without a panic.
nilinterequal(p, q) == IF p[1] # q[1] THEN No ELSE efaceeq(p[1], p[2], q[2])
interequal(p, q) == IF p[1] # q[1] THEN No ELSE ifaceeq(p[1], p[2], q[2])

equal(t, x, y) ==
  LET d == Types[t] IN
  CASE d.kind \in {"int", "ptr"} -> Answer(memequal64(x, y))
    [] d.kind = "float32" -> Answer(f32equal(x, y))
    [] d.kind = "float64" -> Answer(f64equal(x, y))
    [] d.kind = "complex64" -> Answer(c64equal(x, y))
    [] d.kind = "interface" /\ d.methods = 0 -> nilinterequal(x, y)
    [] d.kind = "interface" -> interequal(x, y)
    [] OTHER -> GoEqual(t, x, y)
-----------------------------------------------------------------------------
VARIABLES
  typ,     \* a comparable type, as of a map key
  x, y,    \* two values of it
  hash,    \* hash[r]: typehash of x and of y when fastrand() returns r
  eq       \* x == y through its equal function

avars == <<typ, x, y, hash, eq>>

\* Both calls of typehash and one of t.equal on the values u, v of t.
Call(t, u, v) ==
  /\ typ = t /\ x = u /\ y = v
  /\ hash = [r \in Rands |-> <<typehash(t, u, Seed, r), typehash(t, v, Seed, r)>>]
  /\ eq = equal(t, u, v)

Init == \E t \in {s \in DOMAIN Types : Comparable(s)} : \E u, v \in Values(t) : Call(t, u, v)

Next == UNCHANGED avars

Spec == Init /\ [][Next]_avars
-----------------------------------------------------------------------------
(* Properties *)

\* The map key contract typehash must keep: keys that are == hash alike
\* whatever fastrand returns (+0 and -0, values differing in padding or in
\* blank fields, interfaces holding equal values), and hashing panics
\* exactly when comparing the key with itself panics (an interface holding
\* a map or a slice, at any depth).
HashConsistent ==
  /\ GoEqual(typ, x, y) = Yes => \A r1, r2 \in Rands : hash[r1][1] = hash[r2][2]
  /\ \A r \in Rands : hash[r][1] = Panic <=> GoEqual(typ, x, x) = Panics

\* nilinterequal, interequal and the equal functions they reach answer Go's
\* ==: interfaces are equal when they hold the same type and == values,
\* and panic when they hold the same uncomparable type, a direct one (a
\* map) included.
EqualAsSpecified == eq = GoEqual(typ, x, y)
=============================================================================
