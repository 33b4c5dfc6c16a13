----------------------------- MODULE MCBuilder -----------------------------
EXTENDS Builder, TLC

\* Builder variables and backing arrays are interchangeable ids.
Symmetry == Permutations(Locs) \cup Permutations(Arrays)
=============================================================================
