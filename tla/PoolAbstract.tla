---------------------------- MODULE PoolAbstract ----------------------------
(***************************************************************************)
(* What a sync.Pool promises (the doc comments of Pool, Put and Get in     *)
(* src/unnamed/part_006, and spec 3 and 4.6): a cache of objects, each of  *)
(* a generation, 0 if Put since the last collection and 1 if before it.    *)
(* Put caches the caller's object; Get hands out one cached object or a    *)
(* fresh one; any cached object may vanish at any time without notice;     *)
(* a collection ages generation 0 to 1 and evicts generation 1.  An object *)
(* is never cached and held at once, and never comes back once evicted.   *)
(***************************************************************************)
EXTENDS Naturals

CONSTANTS Goroutines, Pools, Items, NoItem

NotCached == 2

VARIABLES
  cache,   \* cache[p][x]: generation of x in pool p, or NotCached
  held     \* held[g]: the object goroutine g has, or NoItem

vars == <<cache, held>>

Cached(p, x) == cache[p][x] # NotCached
Held == {held[g] : g \in Goroutines} \ {NoItem}

\* "Any item stored in the Pool may be removed automatically at any time
\* without notification": the next cache is c with some objects dropped.
MayEvict(c) ==
  \A p \in Pools, x \in Items : cache'[p][x] \in {c[p][x], NotCached}

\* Put(x) adds x to the pool (it may be dropped at once).
Put(g) ==
  /\ held[g] # NoItem
  /\ held' = [held EXCEPT ![g] = NoItem]
  /\ \E p \in Pools : MayEvict([cache EXCEPT ![p][held[g]] = 0])

\* The program lets go of an object it holds.
Discard(g) ==
  /\ held[g] # NoItem
  /\ held' = [held EXCEPT ![g] = NoItem]
  /\ MayEvict(cache)

\* Get selects an arbitrary cached item and removes it from the pool.
Get(g) ==
  /\ held[g] = NoItem
  /\ \E p \in Pools, x \in Items :
       /\ Cached(p, x)
       /\ held' = [held EXCEPT ![g] = x]
       /\ MayEvict([cache EXCEPT ![p][x] = NotCached])

\* Get treats the pool as empty and returns New()'s fresh object.
New(g) ==
  /\ held[g] = NoItem
  /\ \E x \in Items \ Held :
       /\ \A p \in Pools : ~Cached(p, x)
       /\ held' = [held EXCEPT ![g] = x]
  /\ MayEvict(cache)

Evict ==
  /\ UNCHANGED held
  /\ MayEvict(cache)

\* A collection: generation 0 becomes 1, generation 1 is evicted.
Collect ==
  /\ UNCHANGED held
  /\ MayEvict([p \in Pools |-> [x \in Items |->
                 IF cache[p][x] = 0 THEN 1 ELSE NotCached]])

Init ==
  /\ cache = [p \in Pools |-> [x \in Items |-> NotCached]]
  /\ held = [g \in Goroutines |-> NoItem]

Next ==
  \/ \E g \in Goroutines : Put(g) \/ Discard(g) \/ Get(g) \/ New(g)
  \/ Evict
  \/ Collect

Spec == Init /\ [][Next]_vars
=============================================================================
