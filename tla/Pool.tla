-------------------------------- MODULE Pool --------------------------------
(***************************************************************************)
(* sync.Pool of Go 1.15 (src/unnamed/part_006, package sync) together with *)
(* runtime.GOMAXPROCS (src/go-1.15/src/runtime/debug.go).                   *)
(*                                                                         *)
(* Goroutines run Put and Get step by step, one step per access to shared  *)
(* memory whose interleaving matters: the two loads of pin, the stores of  *)
(* pinSlow, every popTail of the steal loops, the loads of getSlow.  The   *)
(* collector hook poolCleanup and GOMAXPROCS run with the world stopped,   *)
(* i.e. only when no goroutine is pinned to a P.                           *)
(*                                                                         *)
(* A per-P table ([P]poolLocal) is a table id; its shards are the private  *)
(* slot priv[t][i] and the poolChain shared[t][i], a sequence whose head   *)
(* (owner end) is its last element and whose tail is its first.  The chain *)
(* itself (poolqueue.go) is not under src/: its operations are taken from  *)
(* the spec (4.4), each atomic, popTail allowed to miss spuriously.        *)
(***************************************************************************)
EXTENDS Integers, Sequences, SequencesExt, FiniteSets

CONSTANTS
  Goroutines,     \* goroutines using the pools
  Pools,          \* the Pool objects
  Items,          \* the objects that are put and got
  TableIds,       \* identities of allocated [P]poolLocal arrays
  NoItem,         \* the nil interface{}
  Nil,            \* the nil pointer (no table, no mutex holder)
  MaxProcs,       \* largest GOMAXPROCS setting
  HasNew          \* whether p.New is set

ASSUME MaxProcs \in Nat \ {0} /\ HasNew \in BOOLEAN
\* Enough table ids that allocation never waits for a free one: at most two
\* per pool (local, victim) and one per goroutine are referenced at a time.
ASSUME Cardinality(TableIds) >= 2 * Cardinality(Pools) + Cardinality(Goroutines)

NoP == -1
Ps  == 0 .. MaxProcs - 1

VARIABLES
  procs,        \* gomaxprocs
  local,        \* p.local: the current table of each pool, or Nil
  localSize,    \* p.localSize
  victim,       \* p.victim
  victimSize,   \* p.victimSize
  allPools,     \* allPools: pools with a primary cache
  oldPools,     \* oldPools: pools that may have a victim cache
  allPoolsMu,   \* holder of allPoolsMu, or Nil
  tsize,        \* length of each allocated table
  priv,         \* priv[t][i]: poolLocal.private of shard i of table t
  shared,       \* shared[t][i]: poolLocal.shared of shard i of table t
  gr,           \* per goroutine: pc and the locals of Put/Get/pin/getSlow
  age           \* ghost: collections an item has seen since it was Put

vars == <<procs, local, localSize, victim, victimSize, allPools, oldPools,
          allPoolsMu, tsize, priv, shared, gr, age>>

poolVars  == <<local, localSize, victim, victimSize>>
tableVars == <<tsize, priv, shared>>

PCs == {"idle", "pin_local", "slow_lock", "slow_pin", "slow_alloc", "slow_size",
        "put_store", "get_private", "get_clear", "slow_loadsize", "slow_loadlocal",
        "steal", "victim_size", "victim_private", "victim_clear", "victim_steal",
        "get_done", "get_new"}

GState == [pc : PCs, op : {"put", "get"}, pool : Pools, pid : Ps \cup {NoP},
           tbl : TableIds \cup {Nil}, sz : 0 .. MaxProcs, i : 0 .. MaxProcs,
           x : Items \cup {NoItem}]

-----------------------------------------------------------------------------
(* Helpers *)

Pinned(p) == \E g \in Goroutines : gr[g].pid = p

\* The tables something can still reach; the rest is garbage.
LiveTables ==
  ({local[p] : p \in Pools} \cup {victim[p] : p \in Pools}
     \cup {gr[g].tbl : g \in Goroutines}) \ {Nil}

ItemsOf(t) ==
  {priv[t][i] : i \in 0 .. tsize[t] - 1} \cup
  UNION {ToSet(shared[t][i]) : i \in 0 .. tsize[t] - 1}

FreeItems ==
  Items \ ({gr[g].x : g \in Goroutines} \cup UNION {ItemsOf(t) : t \in LiveTables})

\* Where pin returns to, by operation.
Body(op) == IF op = "put" THEN "put_store" ELSE "get_private"

\* runtime_procUnpin and the return of Put/Get: the goroutine drops its P and
\* the table it was using.
Unpinned(r) == [r EXCEPT !.pid = NoP, !.tbl = Nil]

\* A goroutine outside the pool, holding x; Put/Get's locals are dead.
Outside(pc, x) == [pc |-> pc, op |-> "get", pool |-> CHOOSE p \in Pools : TRUE,
                   pid |-> NoP, tbl |-> Nil, sz |-> 0, i |-> 0, x |-> x]

\* poolChain.pushHead / popHead / popTail (spec 4.4).
PushHead(q, v) == Append(q, v)

-----------------------------------------------------------------------------
(* Operations *)

\* Put(x) up to pin's load of localSize: procPin gives the goroutine a P that
\* no other goroutine holds, below gomaxprocs.
Put(g) ==
  LET r == gr[g] IN
  /\ r.pc = "idle" /\ r.x # NoItem
  /\ \E pl \in Pools, p \in 0 .. procs - 1 :
       /\ ~Pinned(p)
       /\ gr' = [gr EXCEPT ![g] = [r EXCEPT !.pc = "pin_local", !.op = "put",
                                     !.pool = pl, !.pid = p, !.sz = localSize[pl]]]
  /\ UNCHANGED <<procs, poolVars, allPools, oldPools, allPoolsMu, tableVars, age>>

\* Get() up to pin's load of localSize.
Get(g) ==
  LET r == gr[g] IN
  /\ r.pc = "idle" /\ r.x = NoItem
  /\ \E pl \in Pools, p \in 0 .. procs - 1 :
       /\ ~Pinned(p)
       /\ gr' = [gr EXCEPT ![g] = [r EXCEPT !.pc = "pin_local", !.op = "get",
                                     !.pool = pl, !.pid = p, !.sz = localSize[pl]]]
  /\ UNCHANGED <<procs, poolVars, allPools, oldPools, allPoolsMu, tableVars, age>>

\* Mutant: pin's fast-path check off by one (pid <= s).
PinFastOffByOne(g) ==
  LET r == gr[g] IN
  /\ r.pc = "pin_local"
  /\ r.pid <= r.sz
  /\ gr' = [gr EXCEPT ![g] = [r EXCEPT !.pc = Body(r.op), !.tbl = local[r.pool]]]
  /\ UNCHANGED <<procs, poolVars, allPools, oldPools, allPoolsMu, tableVars, age>>

\* pin: l := p.local after s := p.localSize; use shard pid if pid < s,
\* otherwise enter pinSlow, whose first act is runtime_procUnpin.
PinFast(g) ==
  LET r == gr[g] IN
  /\ r.pc = "pin_local"
  /\ r.pid < r.sz
  /\ gr' = [gr EXCEPT ![g] = [r EXCEPT !.pc = Body(r.op), !.tbl = local[r.pool]]]
  /\ UNCHANGED <<procs, poolVars, allPools, oldPools, allPoolsMu, tableVars, age>>

PinSlowEnter(g) ==
  LET r == gr[g] IN
  /\ r.pc = "pin_local"
  /\ ~(r.pid < r.sz)
  /\ gr' = [gr EXCEPT ![g] = [Unpinned(r) EXCEPT !.pc = "slow_lock"]]
  /\ UNCHANGED <<procs, poolVars, allPools, oldPools, allPoolsMu, tableVars, age>>

\* pinSlow: allPoolsMu.Lock(), taken while unpinned.
PinSlowLock(g) ==
  /\ gr[g].pc = "slow_lock"
  /\ allPoolsMu = Nil
  /\ allPoolsMu' = g
  /\ gr' = [gr EXCEPT ![g].pc = "slow_pin"]
  /\ UNCHANGED <<procs, poolVars, allPools, oldPools, tableVars, age>>

\* pinSlow: pin again and re-read local/localSize under the mutex; if the
\* table now covers pid, return it (the deferred Unlock runs).
PinSlowRepin(g) ==
  LET r == gr[g] IN
  /\ r.pc = "slow_pin"
  /\ \E p \in 0 .. procs - 1 :
       /\ ~Pinned(p)
       /\ \/ /\ p < localSize[r.pool]
             /\ allPoolsMu' = Nil
             /\ gr' = [gr EXCEPT ![g] = [r EXCEPT !.pc = Body(r.op), !.pid = p,
                                           !.tbl = local[r.pool]]]
          \/ /\ ~(p < localSize[r.pool])
             /\ gr' = [gr EXCEPT ![g] = [r EXCEPT !.pc = "slow_alloc", !.pid = p]]
             /\ UNCHANGED allPoolsMu
  /\ UNCHANGED <<procs, poolVars, allPools, oldPools, tableVars, age>>

\* Mutant: pinSlow appends to allPools without checking p.local == nil.
PinSlowAllocAlwaysRegister(g) ==
  LET r == gr[g] IN
  /\ r.pc = "slow_alloc"
  /\ allPools' = Append(allPools, r.pool)
  /\ \E t \in TableIds \ LiveTables :
       /\ tsize'  = [tsize EXCEPT ![t] = procs]
       /\ priv'   = [priv EXCEPT ![t] = [i \in Ps |-> NoItem]]
       /\ shared' = [shared EXCEPT ![t] = [i \in Ps |-> <<>>]]
       /\ local'  = [local EXCEPT ![r.pool] = t]
       /\ gr' = [gr EXCEPT ![g] = [r EXCEPT !.pc = "slow_size", !.tbl = t, !.sz = procs]]
  /\ UNCHANGED <<procs, localSize, victim, victimSize, oldPools, allPoolsMu, age>>

\* pinSlow: register the pool if it had no table, allocate a fresh table of
\* GOMAXPROCS(0) zeroed shards and store-release it into p.local.
PinSlowAlloc(g) ==
  LET r == gr[g] IN
  /\ r.pc = "slow_alloc"
  /\ allPools' = IF local[r.pool] = Nil THEN Append(allPools, r.pool) ELSE allPools
  /\ \E t \in TableIds \ LiveTables :
       /\ tsize'  = [tsize EXCEPT ![t] = procs]
       /\ priv'   = [priv EXCEPT ![t] = [i \in Ps |-> NoItem]]
       /\ shared' = [shared EXCEPT ![t] = [i \in Ps |-> <<>>]]
       /\ local'  = [local EXCEPT ![r.pool] = t]
       /\ gr' = [gr EXCEPT ![g] = [r EXCEPT !.pc = "slow_size", !.tbl = t, !.sz = procs]]
  /\ UNCHANGED <<procs, localSize, victim, victimSize, oldPools, allPoolsMu, age>>

\* pinSlow: store-release p.localSize, return &local[pid]; deferred Unlock.
\* Mutant: pinSlow returns without the deferred allPoolsMu.Unlock.
PinSlowPublishNoUnlock(g) ==
  LET r == gr[g] IN
  /\ r.pc = "slow_size"
  /\ localSize' = [localSize EXCEPT ![r.pool] = r.sz]
  /\ gr' = [gr EXCEPT ![g].pc = Body(r.op)]
  /\ UNCHANGED <<procs, local, victim, victimSize, allPools, oldPools, allPoolsMu, tableVars, age>>

PinSlowPublish(g) ==
  LET r == gr[g] IN
  /\ r.pc = "slow_size"
  /\ localSize' = [localSize EXCEPT ![r.pool] = r.sz]
  /\ allPoolsMu' = Nil
  /\ gr' = [gr EXCEPT ![g].pc = Body(r.op)]
  /\ UNCHANGED <<procs, local, victim, victimSize, allPools, oldPools, tableVars, age>>

\* Put: into the private slot if it is empty, else pushHead; then unpin.
PutStore(g) ==
  LET r == gr[g]
      l == r.pid
  IN
  /\ r.pc = "put_store"
  /\ IF priv[r.tbl][l] = NoItem
       THEN /\ priv' = [priv EXCEPT ![r.tbl][l] = r.x]
            /\ UNCHANGED shared
       ELSE /\ shared' = [shared EXCEPT ![r.tbl][l] = PushHead(@, r.x)]
            /\ UNCHANGED priv
  /\ age' = [age EXCEPT ![r.x] = 0]
  /\ gr' = [gr EXCEPT ![g] = Outside("idle", NoItem)]
  /\ UNCHANGED <<procs, poolVars, allPools, oldPools, allPoolsMu, tsize>>

\* Get: x := l.private.
GetPrivate(g) ==
  LET r == gr[g] IN
  /\ r.pc = "get_private"
  /\ gr' = [gr EXCEPT ![g] = [r EXCEPT !.pc = "get_clear", !.x = priv[r.tbl][r.pid]]]
  /\ UNCHANGED <<procs, poolVars, allPools, oldPools, allPoolsMu, tableVars, age>>

\* Mutant: Get forgets l.private = nil after taking the private object.
GetClearNoReset(g) ==
  LET r == gr[g]
      q == shared[r.tbl][r.pid]
  IN
  /\ r.pc = "get_clear"
  /\ \/ /\ r.x # NoItem
        /\ gr' = [gr EXCEPT ![g].pc = "get_done"]
        /\ UNCHANGED <<shared, priv>>
     \/ /\ r.x = NoItem /\ q # <<>>
        /\ shared' = [shared EXCEPT ![r.tbl][r.pid] = Front(q)]
        /\ gr' = [gr EXCEPT ![g] = [r EXCEPT !.pc = "get_done", !.x = Last(q)]]
        /\ UNCHANGED priv
     \/ /\ r.x = NoItem /\ q = <<>>
        /\ gr' = [gr EXCEPT ![g].pc = "slow_loadsize"]
        /\ UNCHANGED <<shared, priv>>
  /\ UNCHANGED <<procs, poolVars, allPools, oldPools, allPoolsMu, tsize, age>>

\* Get: l.private = nil; if x was nil, popHead the local chain, and if that
\* is empty too go to getSlow.
GetClear(g) ==
  LET r == gr[g]
      q == shared[r.tbl][r.pid]
  IN
  /\ r.pc = "get_clear"
  /\ priv' = [priv EXCEPT ![r.tbl][r.pid] = NoItem]
  /\ \/ /\ r.x # NoItem
        /\ gr' = [gr EXCEPT ![g].pc = "get_done"]
        /\ UNCHANGED shared
     \/ /\ r.x = NoItem /\ q # <<>>
        /\ shared' = [shared EXCEPT ![r.tbl][r.pid] = Front(q)]
        /\ gr' = [gr EXCEPT ![g] = [r EXCEPT !.pc = "get_done", !.x = Last(q)]]
     \/ /\ r.x = NoItem /\ q = <<>>
        /\ gr' = [gr EXCEPT ![g].pc = "slow_loadsize"]
        /\ UNCHANGED shared
  /\ UNCHANGED <<procs, poolVars, allPools, oldPools, allPoolsMu, tsize, age>>

\* getSlow: size := atomic.LoadUintptr(&p.localSize).
GetSlowSize(g) ==
  LET r == gr[g] IN
  /\ r.pc = "slow_loadsize"
  /\ gr' = [gr EXCEPT ![g] = [r EXCEPT !.pc = "slow_loadlocal", !.sz = localSize[r.pool]]]
  /\ UNCHANGED <<procs, poolVars, allPools, oldPools, allPoolsMu, tableVars, age>>

\* getSlow: locals := p.local; the steal loop starts at i = 0.
GetSlowLocals(g) ==
  LET r == gr[g] IN
  /\ r.pc = "slow_loadlocal"
  /\ gr' = [gr EXCEPT ![g] = [r EXCEPT !.pc = "steal", !.tbl = local[r.pool], !.i = 0]]
  /\ UNCHANGED <<procs, poolVars, allPools, oldPools, allPoolsMu, tableVars, age>>

\* One iteration of a steal loop over table r.tbl at shard idx: popTail takes
\* the oldest element; it may also report empty (spec 4.4).
PopTailStep(g, idx) ==
  LET r == gr[g]
      q == shared[r.tbl][idx]
  IN
  \/ /\ q # <<>>
     /\ shared' = [shared EXCEPT ![r.tbl][idx] = Tail(q)]
     /\ gr' = [gr EXCEPT ![g] = [r EXCEPT !.pc = "get_done", !.x = Head(q)]]
  \/ /\ gr' = [gr EXCEPT ![g].i = r.i + 1]
     /\ UNCHANGED shared

\* Mutant: the steal loop runs one iteration too many (i <= size).
StealOffByOne(g) ==
  LET r == gr[g] IN
  /\ r.pc = "steal"
  /\ \/ /\ r.i <= r.sz
        /\ PopTailStep(g, (r.pid + r.i + 1) % r.sz)
     \/ /\ r.i = r.sz + 1
        /\ gr' = [gr EXCEPT ![g].pc = "victim_size"]
        /\ UNCHANGED shared
  /\ UNCHANGED <<procs, poolVars, allPools, oldPools, allPoolsMu, tsize, priv, age>>

\* getSlow: for i < size, popTail of locals[(pid+i+1)%size]; then the victim.
Steal(g) ==
  LET r == gr[g] IN
  /\ r.pc = "steal"
  /\ \/ /\ r.i < r.sz
        /\ PopTailStep(g, (r.pid + r.i + 1) % r.sz)
     \/ /\ r.i = r.sz
        /\ gr' = [gr EXCEPT ![g].pc = "victim_size"]
        /\ UNCHANGED shared
  /\ UNCHANGED <<procs, poolVars, allPools, oldPools, allPoolsMu, tsize, priv, age>>

\* getSlow: size := atomic.LoadUintptr(&p.victimSize); nil if pid >= size.
VictimSize(g) ==
  LET r == gr[g]
      s == victimSize[r.pool]
  IN
  /\ r.pc = "victim_size"
  /\ gr' = [gr EXCEPT ![g] = IF r.pid >= s THEN [r EXCEPT !.pc = "get_done"]
                                          ELSE [r EXCEPT !.pc = "victim_private", !.sz = s]]
  /\ UNCHANGED <<procs, poolVars, allPools, oldPools, allPoolsMu, tableVars, age>>

\* getSlow: locals = p.victim; x := locals[pid].private.
VictimPrivate(g) ==
  LET r == gr[g]
      t == victim[r.pool]
  IN
  /\ r.pc = "victim_private"
  /\ gr' = [gr EXCEPT ![g] = [r EXCEPT !.pc = "victim_clear", !.tbl = t, !.x = priv[t][r.pid]]]
  /\ UNCHANGED <<procs, poolVars, allPools, oldPools, allPoolsMu, tableVars, age>>

\* getSlow: if x != nil { l.private = nil; return x }; else scan the victim.
VictimClear(g) ==
  LET r == gr[g] IN
  /\ r.pc = "victim_clear"
  /\ \/ /\ r.x # NoItem
        /\ priv' = [priv EXCEPT ![r.tbl][r.pid] = NoItem]
        /\ gr' = [gr EXCEPT ![g].pc = "get_done"]
     \/ /\ r.x = NoItem
        /\ gr' = [gr EXCEPT ![g] = [r EXCEPT !.pc = "victim_steal", !.i = 0]]
        /\ UNCHANGED priv
  /\ UNCHANGED <<procs, poolVars, allPools, oldPools, allPoolsMu, tsize, shared, age>>

\* getSlow: for i < size, popTail of victim[(pid+i)%size]; when all miss,
\* atomic.StoreUintptr(&p.victimSize, 0) and return nil.
VictimSteal(g) ==
  LET r == gr[g] IN
  /\ r.pc = "victim_steal"
  /\ \/ /\ r.i < r.sz
        /\ PopTailStep(g, (r.pid + r.i) % r.sz)
        /\ UNCHANGED victimSize
     \/ /\ r.i = r.sz
        /\ victimSize' = [victimSize EXCEPT ![r.pool] = 0]
        /\ gr' = [gr EXCEPT ![g].pc = "get_done"]
        /\ UNCHANGED shared
  /\ UNCHANGED <<procs, local, localSize, victim, allPools, oldPools, allPoolsMu,
                 tsize, priv, age>>

\* Get: runtime_procUnpin; if x is nil and p.New is set, call New unpinned.
GetDone(g) ==
  LET r == gr[g] IN
  /\ r.pc = "get_done"
  /\ gr' = [gr EXCEPT ![g] =
              Outside(IF r.x = NoItem /\ HasNew THEN "get_new" ELSE "idle", r.x)]
  /\ UNCHANGED <<procs, poolVars, allPools, oldPools, allPoolsMu, tableVars, age>>

\* Get: x = p.New(), a fresh object.
GetNew(g) ==
  /\ gr[g].pc = "get_new"
  /\ \E it \in FreeItems : gr' = [gr EXCEPT ![g] = [@ EXCEPT !.pc = "idle", !.x = it]]
  /\ UNCHANGED <<procs, poolVars, allPools, oldPools, allPoolsMu, tableVars, age>>

-----------------------------------------------------------------------------
(* The stopped world: collector hook and GOMAXPROCS *)

\* No goroutine is in a pinned section: the world can be stopped.
WorldStoppable == \A g \in Goroutines : gr[g].pid = NoP

\* poolCleanup, at the start of a collection: drop the victim of every pool
\* in oldPools, then move each pool of allPools from local to victim, in
\* the order of the two loops; oldPools, allPools = allPools, nil.
DropVictim(st, p) == [st EXCEPT !.victim[p] = Nil, !.victimSize[p] = 0]

\* Mutant: poolCleanup moves local to victim but forgets p.local = nil.
DemoteKeepLocal(st, p) ==
  [st EXCEPT !.victim[p] = st.local[p], !.victimSize[p] = st.localSize[p]]

Demote(st, p) ==
  [st EXCEPT !.victim[p] = st.local[p], !.victimSize[p] = st.localSize[p],
             !.local[p] = Nil, !.localSize[p] = 0]

\* Mutant: poolCleanup without the loop that drops oldPools' victims.
PoolCleanupKeepVictims ==
  LET st0 == [local |-> local, localSize |-> localSize,
              victim |-> victim, victimSize |-> victimSize]
      st2 == FoldLeft(Demote, st0, allPools)
  IN
  /\ WorldStoppable
  /\ local' = st2.local /\ localSize' = st2.localSize
  /\ victim' = st2.victim /\ victimSize' = st2.victimSize
  /\ oldPools' = allPools
  /\ allPools' = <<>>
  /\ age' = [it \in Items |-> IF age[it] < 2 THEN age[it] + 1 ELSE 2]
  /\ UNCHANGED <<procs, allPoolsMu, tableVars, gr>>

PoolCleanup ==
  LET st0 == [local |-> local, localSize |-> localSize,
              victim |-> victim, victimSize |-> victimSize]
      st1 == FoldLeft(DropVictim, st0, oldPools)
      st2 == FoldLeft(Demote, st1, allPools)
  IN
  /\ WorldStoppable
  /\ local' = st2.local /\ localSize' = st2.localSize
  /\ victim' = st2.victim /\ victimSize' = st2.victimSize
  /\ oldPools' = allPools
  /\ allPools' = <<>>
  /\ age' = [it \in Items |-> IF age[it] < 2 THEN age[it] + 1 ELSE 2]
  /\ UNCHANGED <<procs, allPoolsMu, tableVars, gr>>

\* runtime.GOMAXPROCS(n) with 0 < n != current: stopTheWorldGC, newprocs = n,
\* startTheWorldGC.
GOMAXPROCS ==
  /\ WorldStoppable
  /\ \E n \in 1 .. MaxProcs :
       /\ n # procs
       /\ procs' = n
  /\ UNCHANGED <<poolVars, allPools, oldPools, allPoolsMu, tableVars, gr, age>>

\* The program drops an object it holds instead of putting it back.
Drop(g) ==
  /\ gr[g].pc = "idle" /\ gr[g].x # NoItem
  /\ gr' = [gr EXCEPT ![g].x = NoItem]
  /\ UNCHANGED <<procs, poolVars, allPools, oldPools, allPoolsMu, tableVars, age>>

-----------------------------------------------------------------------------
(* Specification *)

Init ==
  /\ procs \in 1 .. MaxProcs
  /\ local = [p \in Pools |-> Nil] /\ localSize = [p \in Pools |-> 0]
  /\ victim = [p \in Pools |-> Nil] /\ victimSize = [p \in Pools |-> 0]
  /\ allPools = <<>> /\ oldPools = <<>>
  /\ allPoolsMu = Nil
  /\ tsize = [t \in TableIds |-> 0]
  /\ priv = [t \in TableIds |-> [i \in Ps |-> NoItem]]
  /\ shared = [t \in TableIds |-> [i \in Ps |-> <<>>]]
  /\ gr = [g \in Goroutines |-> Outside("idle", NoItem)]
  /\ age = [it \in Items |-> 0]

Step(g) ==
  \/ Put(g) \/ Get(g) \/ PinFast(g) \/ PinSlowEnter(g) \/ PinSlowLock(g)
  \/ PinSlowRepin(g) \/ PinSlowAlloc(g) \/ PinSlowPublish(g) \/ PutStore(g)
  \/ GetPrivate(g) \/ GetClear(g) \/ GetSlowSize(g) \/ GetSlowLocals(g)
  \/ Steal(g) \/ VictimSize(g) \/ VictimPrivate(g) \/ VictimClear(g)
  \/ VictimSteal(g) \/ GetDone(g) \/ GetNew(g)

Next ==
  \/ \E g \in Goroutines : Step(g) \/ Drop(g)
  \/ PoolCleanup
  \/ GOMAXPROCS

Spec == Init /\ [][Next]_vars

\* Once inside Put or Get a goroutine is runnable at every step: a pinned one
\* cannot be preempted, an unpinned one is rescheduled.  Starting an
\* operation and dropping an object are the program's choice, not the
\* pool's, and the stopped world comes when the collector wants it.  Two
\* steps wait on something that is free only now and then: pinSlow's
\* re-pin needs a P, which the scheduler's preemption of unpinned
\* goroutines eventually frees for every runnable goroutine, and
\* allPoolsMu, which sync.Mutex's starvation mode hands to a waiter that
\* has waited over 1ms; both are strongly fair.
Internal(g) ==
  \/ PinFast(g) \/ PinSlowEnter(g) \/ PinSlowAlloc(g) \/ PinSlowPublish(g)
  \/ PutStore(g) \/ GetPrivate(g) \/ GetClear(g) \/ GetSlowSize(g)
  \/ GetSlowLocals(g) \/ Steal(g) \/ VictimSize(g) \/ VictimPrivate(g)
  \/ VictimClear(g) \/ VictimSteal(g) \/ GetDone(g)

FairSpec ==
  Spec /\ \A g \in Goroutines : WF_vars(Internal(g))
                               /\ SF_vars(PinSlowLock(g)) /\ SF_vars(PinSlowRepin(g))

-----------------------------------------------------------------------------
(* Properties *)

TypeOK ==
  /\ procs \in 1 .. MaxProcs
  /\ local \in [Pools -> TableIds \cup {Nil}] /\ localSize \in [Pools -> 0 .. MaxProcs]
  /\ victim \in [Pools -> TableIds \cup {Nil}] /\ victimSize \in [Pools -> 0 .. MaxProcs]
  /\ allPools \in Seq(Pools) /\ oldPools \in Seq(Pools)
  /\ allPoolsMu \in Goroutines \cup {Nil}
  /\ tsize \in [TableIds -> 0 .. MaxProcs]
  /\ priv \in [TableIds -> [Ps -> Items \cup {NoItem}]]
  /\ shared \in [TableIds -> [Ps -> Seq(Items)]]
  /\ gr \in [Goroutines -> GState]
  /\ age \in [Items -> 0 .. 2]

\* An object is in at most one place: held by one goroutine that has taken
\* it (Get returned it, or it is being Put), or in one private slot or chain
\* position of a reachable table.  Get's private read and clear
\* (x := l.private; l.private = nil), the victim's, and every popTail race with
\* other goroutines; only pinning keeps two of them off the same shard.
Owns(g, it) == gr[g].x = it /\ gr[g].pc \notin {"get_clear", "victim_clear"}

Positions(it) ==
  LET inTable(t, i) == i < tsize[t] IN
  {<<t, i, 0>> : <<t, i>> \in {ti \in LiveTables \X Ps :
                                 inTable(ti[1], ti[2]) /\ priv[ti[1]][ti[2]] = it}}
    \cup {tik \in LiveTables \X Ps \X (1 .. Cardinality(Items)) :
            LET q == shared[tik[1]][tik[2]]
            IN inTable(tik[1], tik[2]) /\ tik[3] <= Len(q) /\ q[tik[3]] = it}

NoDuplication ==
  \A it \in Items :
    Cardinality({g \in Goroutines : Owns(g, it)}) + Cardinality(Positions(it)) <= 1

\* Every shard a goroutine is about to touch lies inside the table it
\* loaded: pin indexes p.local by pid after checking pid against a localSize
\* loaded before it, getSlow indexes p.local and p.victim modulo sizes loaded
\* before the tables, while pinSlow on another P republishes local and
\* localSize in two stores and GOMAXPROCS changes between pins.
Accesses(g) ==
  LET r == gr[g] IN
  CASE r.pc \in {"put_store", "get_private", "get_clear", "victim_clear", "slow_size"}
         -> {<<r.tbl, r.pid>>}
    [] r.pc = "victim_private" -> {<<victim[r.pool], r.pid>>}
    [] r.pc = "steal" /\ r.i < r.sz -> {<<r.tbl, (r.pid + r.i + 1) % r.sz>>}
    [] r.pc = "victim_steal" /\ r.i < r.sz -> {<<r.tbl, (r.pid + r.i) % r.sz>>}
    [] OTHER -> {}

InBounds ==
  \A g \in Goroutines : \A a \in Accesses(g) : a[1] # Nil /\ a[2] < tsize[a[1]]

\* allPools lists exactly the pools that have a primary cache, each once,
\* and every pool with a victim cache is in oldPools: pinSlow registers a
\* pool only when p.local is nil, poolCleanup rotates exactly these lists.
RegistryExact ==
  /\ IsInjective(allPools)
  /\ ToSet(allPools) = {p \in Pools : local[p] # Nil}
  /\ {p \in Pools : victim[p] # Nil} \subseteq ToSet(oldPools)

\* Two-generation eviction: an object in a pool's primary cache was Put
\* since the last collection, and one in its victim cache since the one
\* before; nothing survives two collections without being reused.
AgeBound ==
  \A p \in Pools :
    /\ local[p] # Nil => \A it \in ItemsOf(local[p]) \ {NoItem} : age[it] = 0
    /\ victim[p] # Nil => \A it \in ItemsOf(victim[p]) \ {NoItem} : age[it] <= 1

\* Put and Get never block: a goroutine that has entered one leaves the
\* pool's code (returns, or calls New unpinned), however the others, the
\* collector and GOMAXPROCS interleave; the one wait, pinSlow's
\* allPoolsMu.Lock, ends because every holder unlocks on return.
InPool(g) == gr[g].pc \notin {"idle", "get_new"}

OpCompletes == \A g \in Goroutines : InPool(g) ~> ~InPool(g)
-----------------------------------------------------------------------------
(* Refinement of PoolAbstract *)

\* The tables through which an object is in pool p's current generation:
\* p.local, and a replaced table that a pinned goroutine of p still uses.
CurrentTables(p) ==
  ({local[p]} \cup {gr[g].tbl : g \in {h \in Goroutines : gr[h].pool = p}})
    \ {Nil, victim[p]}

\* PoolAbstract's mark for an object not in a pool.
NotCached == 2

AbsGen(p, it) ==
  IF \E t \in CurrentTables(p) : it \in ItemsOf(t) THEN 0
  ELSE IF victim[p] # Nil /\ it \in ItemsOf(victim[p]) THEN 1
  ELSE NotCached

AbsCache == [p \in Pools |-> [it \in Items |-> AbsGen(p, it)]]

AbsHeld == [g \in Goroutines |->
              IF gr[g].x # NoItem /\ Owns(g, gr[g].x) THEN gr[g].x ELSE NoItem]

Abs == INSTANCE PoolAbstract WITH cache <- AbsCache, held <- AbsHeld

\* The implementation keeps the Pool's documented contract: Put caches the
\* object, Get returns a cached object of that pool or a fresh one, objects
\* vanish only without coming back, and a collection moves the primary
\* cache to the victim and evicts the old victim.  Breaking it takes a
\* sequence of pinSlow reallocations, steals through stale tables and
\* poolCleanup's two loops.
ImplementsAbstract == Abs!Spec
=============================================================================
