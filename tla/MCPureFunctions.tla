--------------------------- MODULE MCPureFunctions ---------------------------
(***************************************************************************)
(* The pure functions of the repository, checked in one model: each       *)
(* behaviour is one call of MulUintptr with any two words and one call of  *)
(* every unicode classification function with any rune of Runes.  The     *)
(* categories of those runes are Unicode 13's, as Go 1.15's tables have    *)
(* them.  Each behaviour is also one pair of map keys hashed by typehash *)
(* and compared by their equal function.  The three are checked side by   *)
(* side: a state varies the inputs of one function, the others hold one  *)
(* call each.                                                             *)
(***************************************************************************)
EXTENDS Integers, TLC

CONSTANTS WordBits, Runes, Rands

VARIABLES args, result, rune, class, typ, x, y, hash, eq

vars == <<args, result, rune, class, typ, x, y, hash, eq>>

\* The runes tried: the int32 and Latin-1 boundaries, negative runes whose
\* low byte is a Latin-1 letter or control (-1 and 255, -256 and 0),
\* MaxRune and MaxRune + 1, and one rune of each category the functions
\* tell apart, inside and beyond Latin-1.
MCRunes ==
  {-2147483647 - 1, -256, -1, 0, 9, 32, 36, 48, 65, 95, 133, 160, 170, 173,
   178, 255, 256, 768, 1632, 8232, 12288, 1114111, 1114112, 2147483647}

\* The categories of the runes tried ("WS": the White_Space property).
MCCats(r) ==
  CASE r = 9      -> {"Cc", "WS"}     \* '\t'
    [] r = 32     -> {"Zs", "WS"}     \* ' '
    [] r = 36     -> {"Sc"}           \* '$'
    [] r = 48     -> {"Nd"}           \* '0'
    [] r = 65     -> {"Lu"}           \* 'A'
    [] r = 95     -> {"Pc"}           \* '_'
    [] r = 133    -> {"Cc", "WS"}     \* NEL
    [] r = 160    -> {"Zs", "WS"}     \* NBSP
    [] r = 170    -> {"Lo"}           \* feminine ordinal
    [] r = 173    -> {"Cf"}           \* soft hyphen
    [] r = 178    -> {"No"}           \* superscript two
    [] r = 255    -> {"Ll"}           \* y with diaeresis
    [] r = 256    -> {"Lu"}           \* A with macron
    [] r = 768    -> {"Mn"}           \* combining grave
    [] r = 1632   -> {"Nd"}           \* Arabic-Indic zero
    [] r = 8232   -> {"Zl", "WS"}     \* line separator
    [] r = 12288  -> {"Zs", "WS"}     \* ideographic space
    [] OTHER      -> {}               \* unassigned, negative, beyond MaxRune

\* Key types: scalars, a struct with padding (struct{a int8; b int64}: a
\* gap of one slot), one with a blank field, one mixing int32 and float32,
\* one of regular memory, an array of floats, the two interface kinds and
\* a struct holding an interface.
Scalar(k, regular, comparable, direct) ==
  [kind |-> k, size |-> 1, regular |-> regular, equal |-> comparable, direct |-> direct]
Field(name, offset, t) == [blank |-> name = "_", offset |-> offset, typ |-> t]
Composite(k, size, regular, rest) ==
  [kind |-> k, size |-> size, regular |-> regular, equal |-> TRUE, direct |-> FALSE] @@ rest
MCTypes ==
  [t \in {"int", "float32", "float64", "complex64", "ptr", "map", "slice",
          "SPad", "SBlank", "SMix", "SReg", "AF", "E", "I", "SE"} |->
     CASE t = "int" -> Scalar("int", TRUE, TRUE, FALSE)
       [] t = "float32" -> Scalar("float32", FALSE, TRUE, FALSE)
       [] t = "float64" -> Scalar("float64", FALSE, TRUE, FALSE)
       [] t = "complex64" -> Composite("complex64", 2, FALSE, <<>>)
       [] t = "ptr" -> Scalar("ptr", TRUE, TRUE, TRUE)
       [] t = "map" -> Scalar("map", FALSE, FALSE, TRUE)
       [] t = "slice" -> Scalar("slice", FALSE, FALSE, FALSE)
       [] t = "SPad" -> Composite("struct", 3, FALSE, [fields |-> <<Field("a", 0, "int"), Field("b", 2, "int")>>])
       [] t = "SBlank" ->
            Composite("struct", 3, FALSE, [fields |-> <<Field("a", 0, "int"), Field("_", 1, "int"), Field("b", 2, "int")>>])
       [] t = "SMix" ->
            Composite("struct", 3, FALSE, [fields |-> <<Field("a", 0, "int"), Field("f", 1, "float32"), Field("c", 2, "int")>>])
       [] t = "SReg" -> Composite("struct", 2, TRUE, [fields |-> <<Field("a", 0, "int"), Field("b", 1, "int")>>])
       [] t = "AF" -> Composite("array", 2, FALSE, [elem |-> "float32", len |-> 2])
       [] t = "E" -> Composite("interface", 2, FALSE, [methods |-> 0])
       [] t = "I" -> Composite("interface", 2, FALSE, [methods |-> 1])
       [] t = "SE" -> Composite("struct", 3, FALSE, [fields |-> <<Field("e", 0, "E"), Field("a", 2, "int")>>])]

\* What interfaces hold: each kind of hash and equality once.
MCDynamic == {"int", "float32", "complex64", "ptr", "map", "slice", "SPad", "AF"}

Mul == INSTANCE MulUintptr
Uni == INSTANCE Unicode WITH Cats <- MCCats
Alg == INSTANCE Alg WITH Types <- MCTypes, Dynamic <- MCDynamic

MulAt(a, b) == args = <<a, b>> /\ result = Mul!Mul(a, b)
UniAt(r) == rune = r /\ class = Uni!Classify(r)
AlgAt(t, u) == Alg!Call(t, u, u)

Init ==
  \/ Mul!Init /\ UniAt(0) /\ AlgAt("int", <<"0">>)
  \/ MulAt(0, 0) /\ Uni!Init /\ AlgAt("int", <<"0">>)
  \/ MulAt(0, 0) /\ UniAt(0) /\ Alg!Init

Spec == Init /\ [][UNCHANGED vars]_vars

\* MulUintptr returns the wrapped product and reports overflow exactly
\* when the true product exceeds MaxUintptr (MulUintptr!MulCorrect).
MulCorrect == Mul!MulCorrect

\* Every unicode classification function answers what its doc comment
\* says, for negative runes and runes beyond MaxRune too
\* (Unicode!ClassifiedAsDocumented).
ClassifiedAsDocumented == Uni!ClassifiedAsDocumented

\* Equal map keys hash alike and hashing panics exactly when comparing
\* does (Alg!HashConsistent).
HashConsistent == Alg!HashConsistent

\* Interface equality answers Go's == (Alg!EqualAsSpecified).
EqualAsSpecified == Alg!EqualAsSpecified
=============================================================================
