------------------------------- MODULE MCPool -------------------------------
(* Model-checking instance of Pool: model values for goroutines, pools,    *)
(* items and table ids, with symmetry over the interchangeable ones.       *)
EXTENDS Pool, TLC

Symmetry == Permutations(Goroutines) \cup Permutations(Items) \cup Permutations(TableIds)

\* Tables no one can reach are garbage: their contents, and the age of items
\* outside every live table, never influence a later step.
View ==
  <<procs, local, localSize, victim, victimSize, allPools, oldPools, allPoolsMu,
    [t \in TableIds |-> IF t \in LiveTables THEN <<tsize[t], priv[t], shared[t]>> ELSE 0],
    gr,
    [it \in Items |-> IF \E t \in LiveTables : it \in ItemsOf(t) THEN age[it] ELSE 0]>>
=============================================================================
