------------------------------- MODULE Builder -------------------------------
(***************************************************************************)
(* strings.Builder (src/unnamed/part_004, lines 15-117).  A program keeps  *)
(* Builder values in variables Locs and may copy one into another (a Go   *)
(* assignment copies addr and the slice header, not the bytes).  Backing  *)
(* arrays are ids with contents; String() returns a string that shares its *)
(* bytes with the array, and the model keeps what each one read then.      *)
(* append's growth policy is the runtime's (growslice, not in the         *)
(* repository): any capacity that fits, up to MaxCap.                     *)
(***************************************************************************)
EXTENDS Integers, Sequences

CONSTANTS
  Locs,      \* program variables of type Builder
  Arrays,    \* backing-array ids
  Bytes,     \* byte values
  MaxCap,    \* largest backing array
  UTFMax,    \* utf8.UTFMax
  Nil, None,
  CopyHome   \* the program may assign a copy back to the Builder's home

\* The bytes Write, WriteByte, WriteString append (a []byte, a byte, a
\* string), and the UTF-8 encodings WriteRune appends: one ASCII byte
\* (r < utf8.RuneSelf) or a multi-byte sequence of EncodeRune.
Payloads == {<<c>> : c \in Bytes} \cup {<<c, d>> : c, d \in Bytes}
Runes == {[ascii |-> TRUE, enc |-> <<c>>] : c \in Bytes}
           \cup {[ascii |-> FALSE, enc |-> p] : p \in {q \in Payloads : Len(q) >= 2}}

Zero == [addr |-> Nil, arr |-> Nil, len |-> 0, cap |-> 0]

VARIABLES
  b,         \* b[x]: the Builder value in variable x: addr and buf's header
  mem,       \* mem[a]: the bytes of backing array a, 0 for unwritten
  str,       \* str[x]: the last String() of x: its array, length, bytes
  reserve,   \* reserve[x]: bytes Grow promised x can still take in place
  panicked   \* a method panicked

vars == <<b, mem, str, reserve, panicked>>

\* Arrays referenced by a Builder or by a string String() returned.
Live == {b[x].arr : x \in Locs} \cup {str[x].arr : x \in {y \in Locs : str[y] # None}}
FreeArrays == Arrays \ Live

\* Mutant: copyCheck records the address but never panics.
MismatchNever(x) == FALSE

\* copyCheck: the first call records b.addr = b; a call through another
\* variable than the recorded one (a copy) panics.
Mismatch(x) == b[x].addr # Nil /\ b[x].addr # x
Checked(x) == [b[x] EXCEPT !.addr = x]

\* copy(buf, o.buf) into the fresh array a: the first o.len bytes of o's
\* array, the rest zero.
CopyInto(m, o, a) ==
  [m EXCEPT ![a] = [i \in 0 .. MaxCap - 1 |->
     IF o.arr # Nil /\ i < o.len THEN m[o.arr][i] ELSE 0]]

\* The bytes p written at offset off of array a.
Store(m, a, off, p) ==
  [m EXCEPT ![a] = [i \in DOMAIN @ |->
     IF i >= off /\ i < off + Len(p) THEN p[i - off + 1] ELSE @[i]]]

\* Grow's promise shrinks by the k bytes written.
Spend(x, k) == [reserve EXCEPT ![x] = IF @ > k THEN @ - k ELSE 0]

\* A method panics (the caller may recover): what it did before stays.
Panic(bx, x) ==
  /\ b' = [b EXCEPT ![x] = bx]
  /\ panicked' = TRUE
  /\ UNCHANGED <<mem, str, reserve>>

\* b.copyCheck(); b.buf = append(b.buf, p...): in place when it fits,
\* else into a fresh array of any capacity that holds it (growslice).
AppendCall(x, p) ==
  LET o == Checked(x)
      n == o.len + Len(p)
  IN
  \/ Mismatch(x) /\ Panic(b[x], x)
  \/ /\ ~Mismatch(x)
     /\ \/ /\ n <= o.cap
           /\ mem' = Store(mem, o.arr, o.len, p)
           /\ b' = [b EXCEPT ![x] = [o EXCEPT !.len = n]]
        \/ /\ n > o.cap
           /\ \E a \in FreeArrays, c \in n .. MaxCap :
                /\ mem' = Store(CopyInto(mem, o, a), a, o.len, p)
                /\ b' = [b EXCEPT ![x] = [o EXCEPT !.arr = a, !.len = n, !.cap = c]]
     /\ reserve' = Spend(x, Len(p))
     /\ UNCHANGED <<str, panicked>>

\* grow(n): make([]byte, len, 2*cap+n) and copy: the new array of o and
\* the memory after the copy, for the fresh array a.
GrowBuf(o, a, n) == [o EXCEPT !.arr = a, !.cap = 2 * o.cap + n]
-----------------------------------------------------------------------------
(* The methods, called by the program on the Builder in variable x *)

Write(x, p) == AppendCall(x, p)
WriteByte(x, c) == AppendCall(x, <<c>>)
WriteString(x, s) == AppendCall(x, s)

\* WriteRune: an ASCII rune is appended as one byte; otherwise, if fewer
\* than UTFMax bytes are free, grow(UTFMax), then EncodeRune writes the
\* encoding at l and buf becomes buf[:l+n].
WriteRune(x, r) ==
  LET o == Checked(x)
      l == o.len
  IN
  IF r.ascii THEN AppendCall(x, <<r.enc[1]>>)
  ELSE
  \/ Mismatch(x) /\ Panic(b[x], x)
  \/ /\ ~Mismatch(x)
     /\ \/ /\ o.cap - l >= UTFMax
           /\ mem' = Store(mem, o.arr, l, r.enc)
           /\ b' = [b EXCEPT ![x] = [o EXCEPT !.len = l + Len(r.enc)]]
        \/ /\ o.cap - l < UTFMax
           /\ 2 * o.cap + UTFMax <= MaxCap
           /\ \E a \in FreeArrays :
                /\ mem' = Store(CopyInto(mem, o, a), a, l, r.enc)
                /\ b' = [b EXCEPT ![x] = [GrowBuf(o, a, UTFMax) EXCEPT !.len = l + Len(r.enc)]]
     /\ reserve' = Spend(x, Len(r.enc))
     /\ UNCHANGED <<str, panicked>>

\* Mutant: Grow reallocates only when the whole capacity is below n.
GrowCapOnly(x, n) ==
  LET o == Checked(x) IN
  \/ Mismatch(x) /\ Panic(b[x], x)
  \/ ~Mismatch(x) /\ n < 0 /\ Panic(o, x)
  \/ /\ ~Mismatch(x) /\ n >= 0
     /\ \/ /\ o.cap >= n
           /\ b' = [b EXCEPT ![x] = o]
           /\ UNCHANGED mem
        \/ /\ o.cap < n
           /\ 2 * o.cap + n <= MaxCap
           /\ \E a \in FreeArrays :
                /\ mem' = CopyInto(mem, o, a)
                /\ b' = [b EXCEPT ![x] = GrowBuf(o, a, n)]
     /\ reserve' = [reserve EXCEPT ![x] = IF @ > n THEN @ ELSE n]
     /\ UNCHANGED <<str, panicked>>

\* Grow(n): copyCheck; a negative n panics; if cap-len < n, grow(n).  Its
\* promise: n more bytes can be written without another allocation.
Grow(x, n) ==
  LET o == Checked(x) IN
  \/ Mismatch(x) /\ Panic(b[x], x)
  \/ ~Mismatch(x) /\ n < 0 /\ Panic(o, x)
  \/ /\ ~Mismatch(x) /\ n >= 0
     /\ \/ /\ o.cap - o.len >= n
           /\ b' = [b EXCEPT ![x] = o]
           /\ UNCHANGED mem
        \/ /\ o.cap - o.len < n
           /\ 2 * o.cap + n <= MaxCap
           /\ \E a \in FreeArrays :
                /\ mem' = CopyInto(mem, o, a)
                /\ b' = [b EXCEPT ![x] = GrowBuf(o, a, n)]
     /\ reserve' = [reserve EXCEPT ![x] = IF @ > n THEN @ ELSE n]
     /\ UNCHANGED <<str, panicked>>

\* Reset: addr = nil, buf = nil.
Reset(x) ==
  /\ b' = [b EXCEPT ![x] = Zero]
  /\ reserve' = [reserve EXCEPT ![x] = 0]
  /\ UNCHANGED <<mem, str, panicked>>

\* String(): the string header is buf's; its bytes are the array's.
String(x) ==
  /\ str' = [str EXCEPT ![x] = [arr |-> b[x].arr, len |-> b[x].len,
               bytes |-> [i \in 0 .. b[x].len - 1 |-> mem[b[x].arr][i]]]]
  /\ UNCHANGED <<b, mem, reserve, panicked>>

\* The program assigns the Builder in src to the variable dst.  Unless
\* CopyHome, never into the variable src's Builder was recorded at.
Copy(src, dst) ==
  /\ src # dst
  /\ CopyHome \/ dst # b[src].addr
  /\ b' = [b EXCEPT ![dst] = b[src]]
  /\ reserve' = [reserve EXCEPT ![dst] = 0]
  /\ UNCHANGED <<mem, str, panicked>>

Init ==
  /\ b = [x \in Locs |-> Zero]
  /\ mem = [a \in Arrays |-> [i \in 0 .. MaxCap - 1 |-> 0]]
  /\ str = [x \in Locs |-> None]
  /\ reserve = [x \in Locs |-> 0]
  /\ panicked = FALSE

Next ==
  \E x \in Locs :
    \/ \E p \in Payloads : Write(x, p) \/ WriteString(x, p)
    \/ \E c \in Bytes : WriteByte(x, c)
    \/ \E r \in Runes : WriteRune(x, r)
    \/ \E n \in -1 .. UTFMax : Grow(x, n)
    \/ Reset(x) \/ String(x)
    \/ \E dst \in Locs : Copy(x, dst)

Spec == Init /\ [][Next]_vars
-----------------------------------------------------------------------------
(* Properties *)

\* A string String() returned never changes: no later method on any copy
\* of the Builder writes over the bytes it shares with buf.  copyCheck's
\* panic on a copy is what stops a second writer of the same array.
StringsImmutable ==
  \A x \in Locs : str[x] # None =>
    \A i \in DOMAIN str[x].bytes : mem[str[x].arr][i] = str[x].bytes[i]

\* Grow's promise: after Grow(n), until n more bytes were written, they
\* fit in buf's capacity, so append and WriteRune do not allocate.
GrowReserve == \A x \in Locs : b[x].cap - b[x].len >= reserve[x]

\* The contents of arrays no one references are garbage.
View == <<b, [a \in Arrays |-> IF a \in Live THEN mem[a] ELSE 0], str, reserve, panicked>>
=============================================================================
