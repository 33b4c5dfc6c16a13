---------------------------- MODULE MCNumCgoCall ----------------------------
EXTENDS NumCgoCall, TLC

\* The Ms other than M0 are interchangeable thread ids.
Symmetry == Permutations(Ms \ {M0})
=============================================================================
