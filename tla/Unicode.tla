------------------------------- MODULE Unicode -------------------------------
(***************************************************************************)
(* The classification functions of package unicode (src/unnamed/part_002, *)
(* and IsDigit, src/go-1.15/src/runtime/debug.go 57-65).  A rune is an     *)
(* int32; uint8(r) wraps modulo 2^8 and uint32(r) modulo 2^32, which is    *)
(* compared, never computed: TLC's integers are 32-bit.                    *)
(*                                                                         *)
(* The generated tables are not in the repository: the Latin-1 table      *)
(* properties and the RangeTables (L, M, N, P, S, Zs, White_Space, ...).  *)
(* Both are derived here from Cats(r), the Unicode categories and the     *)
(* White_Space property ("WS") of rune r, the way maketables builds them; *)
(* a RangeTable is the set of categories it covers and Is(t, r) tests r's *)
(* membership.  Each function is checked against its doc comment.         *)
(***************************************************************************)
EXTENDS Integers, Bitwise

CONSTANTS
  Runes,     \* the rune values tried, int32
  Cats(_)    \* Cats(r): the categories of r, {} for unassigned and invalid runes

MaxLatin1 == 255
\* uint32(r) <= k, for 0 <= k < 2^31: a negative r wraps to r + 2^32 >= 2^31.
Uint32AtMost(r, k) == r >= 0 /\ r <= k
Uint8(r) == r % 2 ^ 8

\* The RangeTables, as the categories they cover.
L == {"Lu", "Ll", "Lt", "Lm", "Lo"}
M == {"Mn", "Mc", "Me"}
N == {"Nd", "Nl", "No"}
P == {"Pc", "Pd", "Ps", "Pe", "Pi", "Pf", "Po"}
S == {"Sm", "Sc", "Sk", "So"}
Zs == {"Zs"}
Letter == L
Mark == M
Number == N
Punct == P
Symbol == S
Digit == {"Nd"}
White_Space == {"WS"}

\* unicode.Is(rangeTab, r), and isExcludingLatin for r above Latin-1.
Is(t, r) == t \cap Cats(r) # {}
isExcludingLatin(t, r) == ~Uint32AtMost(r, MaxLatin1) /\ Is(t, r)

\* The bit of each Latin-1 property.
pC == 1
pP == 2
pN == 4
pS == 8
pZ == 16
pLu == 32
pLl == 64
pp == 128
pg == pp | pZ
pLo == pLl | pLu
pLmask == pLo

\* properties[c] for c <= MaxLatin1, as maketables generates it: pp for
\* L, M, N, P, S and U+0020.
Bit(c, t, b) == IF Is(t, c) THEN b ELSE 0
properties(c) ==
  Bit(c, {"Cc"}, pC) + Bit(c, P, pP) + Bit(c, N, pN) + Bit(c, S, pS) + Bit(c, Zs, pZ)
    + (IF Is({"Lo", "Lt", "Lm"}, c) THEN pLo ELSE Bit(c, {"Lu"}, pLu) + Bit(c, {"Ll"}, pLl))
    + (IF Is(L \cup M \cup N \cup P \cup S, c) \/ c = 32 THEN pp ELSE 0)

GraphicRanges == <<L, M, N, P, S, Zs>>
PrintRanges == <<L, M, N, P, S>>

\* IsOneOf and In: is r in one of the tables, tried in order.
IsOneOf(ranges, r) == \E i \in DOMAIN ranges : Is(ranges[i], r)
In(r, ranges) == \E i \in DOMAIN ranges : Is(ranges[i], r)
-----------------------------------------------------------------------------
(* The classification functions *)

\* Mutant: the Latin-1 test on the signed rune, so uint8(r) of a negative
\* rune indexes the table.
IsGraphicSigned(r) ==
  IF r <= MaxLatin1 THEN (properties(Uint8(r)) & pg) # 0
  ELSE In(r, GraphicRanges)

Latin1(r) == Uint32AtMost(r, MaxLatin1)
Has(r, bits) == (properties(Uint8(r)) & bits) # 0

IsGraphic(r) == IF Latin1(r) THEN Has(r, pg) ELSE In(r, GraphicRanges)
IsPrint(r) == IF Latin1(r) THEN Has(r, pp) ELSE In(r, PrintRanges)
IsControl(r) == IF Latin1(r) THEN Has(r, pC) ELSE FALSE
IsLetter(r) == IF Latin1(r) THEN Has(r, pLmask) ELSE isExcludingLatin(Letter, r)
IsMark(r) == isExcludingLatin(Mark, r)
IsNumber(r) == IF Latin1(r) THEN Has(r, pN) ELSE isExcludingLatin(Number, r)
IsPunct(r) == IF Latin1(r) THEN Has(r, pP) ELSE Is(Punct, r)
IsSpace(r) ==
  IF Latin1(r) THEN r \in {9, 10, 11, 12, 13, 32, 133, 160}
  ELSE isExcludingLatin(White_Space, r)
IsSymbol(r) == IF Latin1(r) THEN Has(r, pS) ELSE isExcludingLatin(Symbol, r)

\* IsDigit compares the signed rune: '0' <= r && r <= '9' for r <= MaxLatin1.
IsDigit(r) == IF r <= MaxLatin1 THEN 48 <= r /\ r <= 57 ELSE isExcludingLatin(Digit, r)

\* Every function, by name.
Classify(r) ==
  [graphic |-> IsGraphic(r), print |-> IsPrint(r), control |-> IsControl(r),
   letter |-> IsLetter(r), mark |-> IsMark(r), number |-> IsNumber(r),
   punct |-> IsPunct(r), space |-> IsSpace(r), symbol |-> IsSymbol(r),
   digit |-> IsDigit(r)]

\* What the doc comments say of each, from r's categories alone.
Documented(r) ==
  LET c == Cats(r) IN
  [graphic |-> c \cap (L \cup M \cup N \cup P \cup S \cup Zs) # {},
   print |-> c \cap (L \cup M \cup N \cup P \cup S) # {} \/ r = 32,
   control |-> "Cc" \in c, letter |-> c \cap L # {}, mark |-> c \cap M # {},
   number |-> c \cap N # {}, punct |-> c \cap P # {}, space |-> "WS" \in c,
   symbol |-> c \cap S # {}, digit |-> "Nd" \in c]

VARIABLES
  rune,    \* the argument
  class    \* what each function returned for it

uvars == <<rune, class>>

\* One call of every function with any rune.
Init == rune \in Runes /\ class = Classify(rune)

Next == UNCHANGED uvars

Spec == Init /\ [][Next]_uvars

\* Every function answers what its comment says for every rune, negative
\* and beyond MaxRune included: the Latin-1 fast paths index the table by
\* uint8(r) only after uint32(r) <= MaxLatin1, so a negative rune never
\* aliases a Latin-1 entry, and the bit masks pg, pLmask pick the right
\* properties.
ClassifiedAsDocumented == class = Documented(rune)
=============================================================================
