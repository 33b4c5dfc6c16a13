----------------------------- MODULE MulUintptr -----------------------------
(***************************************************************************)
(* runtime/internal/math.MulUintptr (src/unnamed/part_000) at a word of   *)
(* WordBits = 8*sys.PtrSize bits: uintptr arithmetic is modulo 2^WordBits  *)
(* and the fast-path bound 1<<(4*sys.PtrSize) is half a word.  Each        *)
(* behaviour is one call with any two words; the result is checked        *)
(* against the exact product.                                              *)
(***************************************************************************)
EXTENDS Naturals, Bitwise

CONSTANT WordBits   \* 8*sys.PtrSize: 64 on 64-bit platforms

ASSUME WordBits \in {2 * k : k \in 1 .. 32}

Modulus == 2 ^ WordBits
Word == 0 .. Modulus - 1

\* const MaxUintptr = ^uintptr(0)
MaxUintptr == Modulus - 1

\* Mutant: the fast path taken up to one bit more than half the word.
MulWideFastPath(a, b) ==
  IF (a | b) < 2 ^ (WordBits \div 2 + 1) \/ a = 0
    THEN <<(a * b) % Modulus, FALSE>>
    ELSE <<(a * b) % Modulus, b > MaxUintptr \div a>>

\* MulUintptr(a, b): when both fit in half a word (or a is 0) the product
\* cannot overflow; otherwise overflow := b > MaxUintptr/a.  a*b wraps.
Mul(a, b) ==
  IF (a | b) < 2 ^ (WordBits \div 2) \/ a = 0
    THEN <<(a * b) % Modulus, FALSE>>
    ELSE <<(a * b) % Modulus, b > MaxUintptr \div a>>

VARIABLES
  args,    \* the operands of the call
  result   \* its return values <<a * b, overflow>>

vars == <<args, result>>

\* The call MulUintptr(a, b), for any words a and b.
Init ==
  /\ args \in Word \X Word
  /\ result = Mul(args[1], args[2])

\* A pure function: nothing changes after it returns.
Next == UNCHANGED vars

Spec == Init /\ [][Next]_vars

\* The overflow flag is exactly "the true product exceeds MaxUintptr", and
\* the product is the true one modulo the word, on both paths: the half-
\* word fast path and the division test.
MulCorrect ==
  LET p == args[1] * args[2] IN
  result = <<p % Modulus, p > MaxUintptr>>
=============================================================================
