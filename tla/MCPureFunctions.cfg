CONSTANTS
  WordBits = 6
  Runes <- MCRunes
  Rands = {r1, r2}
SPECIFICATION Spec
INVARIANT MulCorrect
INVARIANT ClassifiedAsDocumented
INVARIANT HashConsistent
INVARIANT EqualAsSpecified
