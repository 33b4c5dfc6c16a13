# TLA+ models of the Go standard-library pieces in this repository

The repository holds annotated Go 1.15 sources. Its spec (`spec.md`) is about
one part, `sync.Pool`, a per-P (per processor) cache of temporary objects
whose eviction follows the garbage collector. The other sources are small
library pieces. This directory models what a model checker can say something
about. It starts with the pool, the one concurrent component.

## 1. Inventory

| Component | Source | State | Operations | Concurrency / hard parts |
|---|---|---|---|---|
| **sync.Pool** | `src/unnamed/part_006` | `local`/`localSize` (current per-P table), `victim`/`victimSize` (previous one), `New`; globals `allPools`, `oldPools`, `allPoolsMu` | `Put`, `Get`, `getSlow`, `pin`, `pinSlow`, `poolCleanup`, `indexLocal` | Goroutines pinned to different Ps run at the same time. `pin` reads `localSize` and then `local`. `pinSlow` stores them in the opposite order, under a mutex that is taken unpinned. `getSlow` steals from the other Ps. `poolCleanup` runs with the world stopped. GOMAXPROCS changes between pins. |
| **poolChain** | not in the repository (`poolqueue.go`) | one deque per shard | `pushHead`, `popHead` (owner only), `popTail` (any P) | lock-free; only its interface is modelled, from spec 4.4 |
| **runtime GOMAXPROCS** | `src/go-1.15/src/runtime/debug.go` 9-28 | `gomaxprocs` | `GOMAXPROCS(n)` (stops the world) | changes the number of Ps the pool must serve; reads the old setting before stopping the world, so concurrent calls race |
| runtime.NumCgoCall | `debug.go` 40-46 | `allm` list, each M's `ncgocall` | `NumCgoCall` | Walks `allm` with no lock while Ms are linked in, count calls and exit. |
| runtime counters | `debug.go` 35-37, 49-56 | none | `NumCPU`, `NumGoroutine`, `debug_modinfo` | read-only |
| **container/list** | `src/unnamed/part_005` 26-233 | a ring of elements with a sentinel `root`, `len`, and an owner pointer `e.list` in each element | `Init`, `lazyInit`, `insert`, `remove`, `move`, `Push*`, `Insert*`, `Move*`, `Remove`, `PushBackList`/`PushFrontList` | Sequential. The pointer surgery must keep the ring consistent with `len`. Every operation ignores an element of another list. `PushBackList(l)` on itself must copy only the original length. |
| **container/heap** | `src/go-1.15/src/container/heap/heap.go` | the user's slice | `Init`, `Push`, `Pop`, `Remove`, `Fix`, `up`, `down` | Pure algorithm: the heap invariant after each operation, `down`'s guard against `int` overflow, and `Remove`'s choice between down and up. |
| **strings.Builder** | `src/unnamed/part_004` 15-117 | `addr` (self pointer), `buf` (len/cap) | `copyCheck`, `Grow`, `grow`, `Write*`, `Reset` | Detects copying by value through the self-address. The growth rule is `2*cap+n`. `Grow` panics on a negative n. |
| strings.Compare | `part_004` 1-14 | none | `Compare` | three-way comparison |
| **math.MulUintptr** | `src/unnamed/part_000` | none | `MulUintptr` | overflow detection at word width, with a fast path when both operands are below half the word |
| time.Ticker | `src/go-1.15/src/time/tick.go` | a runtime timer and a channel with a buffer of one | `NewTicker`, `Stop`, `Reset`, `Tick` | The runtime runs the timer and calls `sendTime` concurrently with `Stop` and `Reset`. The timer code is not in the repository. |
| fmt.Errorf | `src/unnamed/part_003` | none | `Errorf`, `wrapError` | formatting |
| **unicode classes** | `src/unnamed/part_002`, `debug.go` 57-65 | none (generated tables) | `IsGraphic`, `IsPrint`, `IsControl`, `IsLetter`, `IsMark`, `IsNumber`, `IsPunct`, `IsSpace`, `IsSymbol`, `IsDigit`, `In`, `IsOneOf` | Latin-1 fast paths index a bit table by `uint8(r)` after a `uint32(r)` test; negative runes must not alias |
| **runtime hash/equality** | `src/unnamed/part_001` | `hashkey`, `aeskeysched` | `typehash`, `f32hash`, `interhash`, `efaceeq`, `*equal`, `alginit` | Map keys that are == must hash alike: +0/-0, struct padding and blank fields, interfaces holding uncomparable types. `memhash` is in assembly. |
| bufio test exports | `src/unnamed/part_005` 1-25 | none | `MaxTokenSize`, `ErrOrEOF` | test helpers |

### How the pool's parts interact

A goroutine calls `Put(x)` or `Get()` and **pins** itself to its P. While it
is pinned it cannot be preempted, and no stop-the-world can start. `pin`
returns the shard of the current table whose index is the P's id. If the
table is missing or too small, `pinSlow` does the following in order: unpin,
lock `allPoolsMu`, pin again, re-read the table, register the pool in
`allPools` if it had no table, allocate a table of `GOMAXPROCS(0)` shards,
store `local` and then `localSize`, unlock. `Put` fills the private slot, or
failing that pushes onto the shard's chain. `Get` takes the private slot, or
else pops the head of its own chain. After that comes `getSlow`, which
steals from the tails of the other shards. Then it tries the victim
(private slot at the same index, then every tail) and, when all of them
miss, stores `victimSize = 0`. Finally `Get` unpins and calls `New`. The
collector calls `poolCleanup` with the world stopped. It drops the victim
of every pool in `oldPools` and makes each pool of `allPools` demote
`local` to `victim`. Then `oldPools, allPools = allPools, nil`.

### What makes the pool correct

* **No duplication.** An object is handed to at most one `Get` and is in one
  place at a time (spec 4.5, 8).
* **Memory safety of indexing.** Every `indexLocal` stays inside its table,
  whatever `pinSlow`, GOMAXPROCS and the collector do in between (spec 5: "a
  shard table must never be observed partially constructed").
* **Exact registry.** `allPools` holds exactly the pools with a primary
  cache, each once. Every pool with a victim is in `oldPools`.
* **Two-generation eviction.** Nothing survives two collections unused
  (spec 3, 4.6).
* **Non-blocking operations.** Every `Put`/`Get` returns (spec 5).

## 2. Plan

Modules are listed in order of importance, each with its status.

1. `Pool.tla`: sync.Pool, GOMAXPROCS and the chain interface. **Done.**
   Runs `pool_safety` and `pool_liveness`.
2. `PoolAbstract.tla`: the pool's contract, with `Pool` refining it.
   **Done.** Checked in `pool_safety`.
3. A second pool configuration with two pools, to check how `poolCleanup`'s
   two loops interact across pools. *Open.*
4. `List.tla` and `ListAbstract.tla`: container/list. **Done.** Runs
   `containers` and `list_reinit`.
5. `Heap.tla` and `PriorityQueue.tla`: container/heap. **Done.** Run
   `containers`, together with the list (`MCContainers.tla`).
6. `Builder.tla`: strings.Builder. **Done.** Run `builder`.
7. `MulUintptr.tla`: runtime/internal/math.MulUintptr. **Done.** Run
   `pure_functions`.
8. `Ticker.tla`: time.Ticker and Tick against Go 1.15's runtime timer.
   **Done.** Runs `ticker`, `ticker_stop` and `ticker_reset_zero`.
9. `NumCgoCall.tla`: the lock-free walk of `allm`. **Done.** Runs
   `numcgocall` and `numcgocall_lost`.
10. The stale tick `Reset` leaves in `t.C`. **Done.** `StaleTicksWereHeld`
    in run `ticker`.
11. `Unicode.tla`: the unicode classification functions. **Done.** Run
    `pure_functions`, together with MulUintptr (`MCPureFunctions.tla`).
12. `GoMaxProcs.tla`: concurrent GOMAXPROCS calls and their return values.
    **Done.** Run `gomaxprocs_ret`.
13. `Alg.tla`: typehash and interface equality, the map key contract.
    **Done.** Run `pure_functions`.

Not planned:

* Errorf and Compare: they have no state and no concurrency, and tests
  cover them better.

### Runs

| Run | Module / cfg | Expect | Properties | What it shows |
|---|---|---|---|---|
| `pool_safety` | MCPool / MCPool.cfg | pass | TypeOK, NoDuplication, InBounds, RegistryExact, AgeBound, ImplementsAbstract | Pool safety under every interleaving of 2 goroutines, collections and GOMAXPROCS changes, and the refinement to PoolAbstract. |
| `pool_liveness` | MCPool / MCPoolLive.cfg | pass | OpCompletes | Every Put/Get returns under the fairness below. |
| `containers` | MCContainers / MCContainers.cfg | pass | HeapOrdered, NoPanic, ImplementsPriorityQueue, ListWellFormed, ElementsAgree, ImplementsListAbstract | The heap algorithms are correct at a 4-bit int; container/list keeps its ring and implements sequences. |
| `list_reinit` | List / MCListReInit.cfg | violation | ListWellFormed | `Init` on a non-empty list leaves stale elements that corrupt it. |
| `builder` | MCBuilder / MCBuilder.cfg | pass | StringsImmutable, GrowReserve | Strings from String() never change, and Grow keeps its promise. |
| `pure_functions` | MCPureFunctions / MCPureFunctions.cfg | pass | MulCorrect, ClassifiedAsDocumented, HashConsistent, EqualAsSpecified | MulUintptr's overflow flag is exact for every 6-bit pair; every unicode class function matches its doc comment on 24 runes; equal map keys of 15 types hash alike, hashing panics exactly when == does, and interface == is Go's. |
| `ticker` | Ticker / MCTicker.cfg | pass | LateTicksWereInFlight, StaleTicksWereHeld, TicksKeepComing | A tick after Stop was already being sent, a tick just after Reset was already buffered or being sent, and a running Ticker keeps ticking. |
| `ticker_stop` | Ticker / MCTickerStop.cfg | violation | NoSendAfterStop | A tick is sent after Stop returned. |
| `ticker_reset_zero` | Ticker / MCTickerResetZero.cfg | violation | TicksKeepComing | `Reset(0)` silences a Ticker that was never stopped. |
| `numcgocall` | MCNumCgoCall / MCNumCgoCall.cfg | pass | NumCgoCallCountsListed, NumCgoCallNoOvercount | The lock-free walk counts what it must and never overcounts. |
| `numcgocall_lost` | MCNumCgoCall / MCNumCgoCallLost.cfg | violation | NumCgoCallCountsAll | An exited M's calls drop out of the count. |
| `gomaxprocs_ret` | GoMaxProcs / MCGoMaxProcs.cfg | violation | ReturnsPreviousSetting | Two concurrent calls both return the setting only one of them replaced. |

Every property of a passing run is broken by a mutant, a plausible bug in the
code it is about. The mutants are listed in `PROJECT.json` and described
with each model below.

## 3. The Pool model (`Pool.tla`, `MCPool.tla`)

**State.** `procs` is gomaxprocs. `local`, `localSize`, `victim` and
`victimSize` are per pool. `allPools` and `oldPools` are sequences, so a
duplicate would be visible. `allPoolsMu` holds the holder's id or `Nil`.
Tables are ids: `tsize[t]` is the length of table `t`, `priv[t][i]` its
shard `i`'s private slot, and `shared[t][i]` its chain, whose last element is
the head. `gr[g]` is a goroutine's pc and the locals of the function it is
in: the pinned P `pid`, the table `tbl` it loaded, the size `sz` it loaded,
the loop index `i` and the object `x`. `age` is a ghost that counts the
collections an object has seen since it was last Put.

**Actions.** There is one action per step. A step boundary is drawn wherever
another goroutine's step can change the outcome:

* `Put`/`Get`: procPin plus pin's load of `localSize`.
* `PinFast`/`PinSlowEnter`: pin's load of `local` and its check.
* `PinSlowLock`, `PinSlowRepin`, `PinSlowAlloc` (register, allocate, store
  `local`), `PinSlowPublish` (store `localSize`, deferred unlock).
* `PutStore`: Put's private-or-pushHead, then unpin.
* `GetPrivate` and `GetClear`: the private read and clear, which are two
  statements, then popHead.
* `GetSlowSize` and `GetSlowLocals`: two loads. `Steal`: one popTail per
  loop iteration.
* `VictimSize`, `VictimPrivate`, `VictimClear`, `VictimSteal`: the last
  iteration of `VictimSteal` stores `victimSize = 0`.
* `GetDone`: unpin. `GetNew`: `New()`, unpinned.
* `PoolCleanup` and `GOMAXPROCS` are enabled only when no goroutine is
  pinned, which is what the stopped world means. `PoolCleanup` folds over
  `oldPools` and then `allPools` in their order, so a duplicated entry would
  behave as in the code.
* `Drop` is the program discarding an object it holds.

Steps that only a pinned goroutine can do to its own shard (Put's
check-and-store, popHead) are one step each. The chain's own steps are
atomic because its code is not in the repository.

**Objects and tables.** Items are ids. `New` returns an id that nothing
reachable holds. A table that neither a pool nor a goroutine references is
garbage, and its id can be reused by a later allocation. `MCPool!View`
blanks the contents of garbage tables and the ages of objects outside the
live tables. No step reads either of them again, so states that differ only
there behave the same.

**Runs.**

| run | cfg | bounds | checks |
|---|---|---|---|
| `pool_safety` | `MCPool.cfg` | 2 goroutines, 1 pool, 2 objects, GOMAXPROCS 1..2, 4 table ids; symmetry on goroutines, objects and table ids | `TypeOK`, `NoDuplication`, `InBounds`, `RegistryExact`, `AgeBound` (about 310k distinct states, 30 s) |
| `pool_liveness` | `MCPoolLive.cfg` | the same with 1 object, no symmetry | `OpCompletes` under `FairSpec` (about 370k states, 2 min) |

The bounds are enough because every hazard needs at most two goroutines and
two Ps. Some examples:

* A GOMAXPROCS increase from 1 to 2 makes P1 reallocate while P0 is pinned
  on the old table.
* The registration check sees a non-nil table.
* A collection falls between `Lock` and `procPin`.
* Two collections pass with no use of the pool.
* Two goroutines race for one private slot or chain.

Two objects are enough to have one in the table and one in a goroutine's
hand, or two in one chain. Every action fires in `pool_safety`.

**Fairness.** A goroutine inside Put or Get gets weak fairness for each of
its steps. A pinned goroutine is not preempted, and an unpinned one is
rescheduled. Two steps get strong fairness, because what they wait for is
only free now and then. `PinSlowRepin` needs a free P, and Go's preemption
of unpinned goroutines hands every runnable goroutine a P. `PinSlowLock`
needs the mutex, and `sync.Mutex`'s starvation mode hands it to a waiter
that has waited over 1 ms. Starting an operation, dropping an object, a
collection and GOMAXPROCS get no fairness.

**Mutants.** Each property is killed by a plausible bug in the code it is
about:

* an off-by-one in `pin`'s check (`InBounds`);
* `Get` forgetting `l.private = nil` (`NoDuplication`);
* `pinSlow` registering without the `p.local == nil` check (`RegistryExact`);
* `poolCleanup` without the `oldPools` loop (`AgeBound`);
* `pinSlow` without its deferred `Unlock` (`OpCompletes`);
* a steal loop running `i <= size` (`TypeOK`).

**Not modelled in the pool.** Race-detector builds randomly drop one Put in
four and annotate addresses. That is a diagnostic mode and is left out.
`Put(nil)` returns without a change. The `noCopy` vet marker is also left
out. The chain's internal CAS protocol is not modelled, because it is not in
the repository.

### Refinement (`PoolAbstract.tla`, checked in `pool_safety`)

`PoolAbstract` is the contract of the Pool's doc comment and spec 3. For each
pool, an object is either cached in generation 0 (the current one), cached
in generation 1 (the victim), or not cached. Each goroutine holds one object.
The actions are these:

* `Put` caches the held object in generation 0.
* `Discard` lets go of a held object without putting it back.
* `Get` takes a cached object, or `New` makes a fresh one.
* `Evict` drops any cached object at any time. This covers a lost steal and
  a victim marked empty.
* `Collect` ages generation 0 to 1 and drops generation 1.

The mapping `AbsCache` puts an object in generation 0 if it is in the
private slot or chain of a current table. A current table is the pool's
`local`, or a table a goroutine pinned earlier and still uses, unless it is
the victim. It puts an object in generation 1 if it is in the victim. `AbsHeld` is the object a goroutine owns. Mutant: a `Demote` that
sets `victim := local` but does not clear `local` leaves an object in both
generations, which breaks the refinement.

## 4. container/list (`List.tla`, `ListAbstract.tla`)

`List` keeps the pointer structure of `list.go`: `next`, `prev` and `list`
of every root and element, `len` of every list, and `value`. Every store of
`insert`, `remove` and `move` is a sequential `EXCEPT` on a record of the
whole state, in the code's order. This keeps aliasing faithful: `move(e, e)`
and self-copies write the same pointers twice. `lazyInit` is part of every
method that calls it. Each method given an element with `e.list != l` has a
no-op disjunct, as the code returns early. The Push*List methods walk the
other list with the length they captured first, as RECURSIVE operators.

`ListAbstract` is the documented semantics. Each list is a sequence of
elements, and an element keeps its value. A method on an element outside
the list is a stutter. Push*List inserts fresh copies.

The properties:

* `ListWellFormed`: walking `next` from the root returns to it after `len`
  elements, and `prev` mirrors `next`.
* `ElementsAgree`: `e.list = l` exactly for the elements on l's ring.
* `ImplementsListAbstract`: the refinement.

Bounds: two lists, four elements and two values. Self-copies, moves between
neighbours and operations on the other list's elements all happen.

The mutants:

* `move` without its `e == at` check (`ListWellFormed`);
* `remove` keeping `e.list` (`ElementsAgree`);
* `PushFrontList` walking forwards (`ImplementsListAbstract`).

**Finding (`list_reinit`).** `Init` is documented as "initializes or clears
list l". It resets the root and `len` but not `e.list` of the old elements.
This is the sequence: `PushFront(v)` returns e1, then `l.Init()`, then
`l.InsertAfter(v, e1)`. It passes the `mark.list != l` check and writes
through e1's stale pointers. `len` becomes 1, but the root's ring is empty.
The passing run `containers` has `ReInit = FALSE` and calls `Init` only on empty
lists.

## 5. container/heap (`Heap.tla`, `PriorityQueue.tla`)

The user's type is an int slice with `<`. The model handles the slice as
follows:

* The slice is a sequence indexed with Go's 0-based indices.
* `up` and `down` are RECURSIVE loops over the record `[s, j, panic]`.
* Index arithmetic wraps at `IntBits = 4` (`Wrap`), and `(j-1)/2` truncates
  (`GoQuo`). Indexing outside the slice is a recorded panic, not a value.

Initial states are every slice of up to `MaxLen = 7` values in {1,2,3}, not
yet `Init`ed. At a 4-bit int, `MaxInt = 7`, so `2*i+1` overflows for `i >= 4`,
an index a 7-element slice reaches. The properties:

* `HeapOrdered` holds after `Init`.
* `NoPanic`.
* `ImplementsPriorityQueue`: the refinement to a bag in which Pop returns a
  least element and every operation keeps the multiset.

The mutants:

* `Remove` without the `up` fallback (`HeapOrdered`);
* `down` without `j1 < 0` (`NoPanic`);
* `Pop` sifting over all n elements (`ImplementsPriorityQueue`).

## 6. strings.Builder (`Builder.tla`, `MCBuilder.tla`)

The model's state:

* A program keeps Builder values in variables `Locs`. `b[x]` is
  `[addr, arr, len, cap]`, where `addr` is the variable whose address
  `copyCheck` recorded.
* Backing arrays are ids, and `mem[a]` holds their bytes.
* `str[x]` is the last string `String()` returned through x, kept as the
  array it shares, its length and the bytes it read then.
* `reserve[x]` is a ghost variable: the bytes `Grow` promised, minus those
  written since.

Every write method is `copyCheck` followed by `append`. The append writes in
place when the bytes fit, else into a free array of any sufficient capacity.
The growth policy of `append` (growslice) is in the runtime, not the
repository. `Grow` and a multi-byte `WriteRune` use `grow`'s exact
`2*cap+n`. A panic, from copyCheck or `Grow(-1)`, keeps what the method did
before it and sets `panicked`, because the caller may recover. `Copy(src, dst)`
is the program's assignment `dst = src`.

Abstractions:

* A byte is 1 or 2, and 0 marks an unwritten byte.
* A payload has 1 or 2 bytes.
* `UTFMax = 2` stands for utf8.UTFMax. A multi-byte rune is a 2-byte
  encoding.

The bounds are 2 variables, 2 arrays and `MaxCap = 3`. These are enough for
two scenarios: a copy sharing a half-full array with a string pinned to it,
and a Grow on a non-empty buffer. `VIEW` ignores the contents of arrays no
one references.

The properties:

* `StringsImmutable`: every stored string still reads its bytes from its
  array. It is killed by a copyCheck that never panics.
* `GrowReserve`: `cap - len >= reserve`. It is killed by `Grow` testing
  `cap < n` instead of `cap - len < n`.

**Hazard not checked by a run.** The `addr` field "detects copies by
value", but only copies used through another variable. With
`CopyHome = TRUE`, TLC finds that `StringsImmutable` fails. This 7-step
sequence passes copyCheck, because `x.addr == &x` again after the copy
back, and it changes `s`:

1. `x.WriteByte`
2. `y = x`
3. `x.WriteByte`
4. `s := x.String()`
5. `x = y`
6. `x.WriteByte`

The doc forbids copying a non-zero Builder, so the program is at fault. The
check meant to catch it misses this case. No run is kept for it. The passing run has
`CopyHome = FALSE`: copies never go back into the variable whose address
was recorded.

## 7. MulUintptr (`MulUintptr.tla`), unicode (`Unicode.tla`) and hashing (`Alg.tla`)

All three are pure and are checked in one run, `pure_functions`.
`MCPureFunctions.tla` instantiates the three modules. Each initial state
varies the inputs of one of them, and the other two hold one fixed call
each. The states are therefore the three models side by side (about 21k),
not their product, and each invariant still sees every input of its
function.

### MulUintptr

Each behaviour is one call `MulUintptr(a, b)` for any a, b of a
`WordBits = 6` bit word, 4096 initial states. The half-word fast-path bound
is `2^(WordBits/2)`, which is `1<<(4*PtrSize)` at width `8*PtrSize`.
`MulCorrect` says the result is the product mod 2^6 and the flag is exactly
"product > MaxUintptr". Mutant: a fast-path bound one bit wider.

### unicode

Each function of `part_002` (and `IsDigit` from `debug.go`) is an operator
with the code's conversions: `uint8(r)` is `r mod 256`, and `uint32(r) <=
MaxLatin1` is compared without computing `r + 2^32`, which TLC's 32-bit
integers cannot hold. The bit constants `pC` ... `pp`, `pg = pp|pZ` and
`pLmask = pLo = pLl|pLu` are the code's, with Bitwise's `&` and `|`.

The generated tables (`properties` and the RangeTables `L`, `M`, `N`, `P`,
`S`, `Zs`, `White_Space`, ...) are not in the repository. They are derived,
as `maketables` builds them, from `Cats(r)`: the categories of rune r and
the White_Space property. `MCPureFunctions` gives `Cats` for 24 runes:
the int32 limits, -256 and -1 (whose low bytes are U+0000 and U+00FF), one
rune of each category the functions tell apart inside and beyond Latin-1,
MaxRune and MaxRune + 1.

`ClassifiedAsDocumented` says every function answers what its doc comment
says, from the categories alone. Mutant: `IsGraphic` testing the signed
`r <= MaxLatin1`, as `IsDigit` does; then `IsGraphic(-1)` reads the entry of
U+00FF and answers true.

### Hashing and equality of map keys

`Alg.tla` models `typehash` and the functions it dispatches to: `f32hash`,
`f64hash`, `c64hash`, `interhash`, `nilinterhash`, and the array and
struct loops. It also models the equality functions `efaceeq`, `ifaceeq`,
`interequal`, `nilinterequal`, `memequal64`, `f32equal`, `f64equal` and
`c64equal`. The data is abstracted as follows:

* Memory is slots. A scalar takes one slot, and a gap between struct
  fields stands for the compiler's padding. A padding slot holds any
  value.
* Float slots are bit patterns: `+0`, `-0`, `1.0` and `NaN`.
* An interface is a type word and a data word. For a direct type (a pointer
  or a map) the data word is the word itself; for any other type it is the
  value it points to.
* `memhash` (assembly) is a free function, the term `<<"mem", h, slots>>`,
  and so are `c1 * h`, `c0 ^ h` and `h ^ fastrand()`. Hashes equal as terms
  are equal for every hash key and AES choice that `alginit` makes.

`MCPureFunctions` gives 15 key types: int, float32, float64, complex64,
pointer, map, slice, `struct{a int8; b int64}` (padding),
`struct{a; _; b int}` (a blank field), `struct{a int32; f float32; c
int32}`, a regular two-int struct, `[2]float32`, `interface{}`,
`interface{F()}`, and a struct holding an `interface{}`. Interfaces hold
eight of these types. Each initial state is one key type and two of its
values, x and y. `fastrand` returns either of two values.

The reference is Go's `==` from the language spec (`GoEqual`): it answers
true, false, or panic. It ignores blank fields and padding, treats +0 as
equal to -0, makes NaN unequal to everything, and panics when two
interfaces hold the same uncomparable type.

* `HashConsistent`: when x == y, x and y hash alike whatever `fastrand`
  returns. Hashing x panics exactly when comparing x with itself does.
  Mutant: a struct field that does not start at `memEnd` does not flush the
  pending run, so the run goes on over the padding.
* `EqualAsSpecified`: `t.equal` on x and y answers Go's `==`. This matters
  for interfaces, where the type-word test, the nil case, the panic and the
  direct-type shortcut are in the code. Mutant: `efaceeq` takes the
  direct-type shortcut before the comparability test. Two interfaces
  holding the same map then compare equal instead of panicking.

Outside the registered mutants, these plausible bugs were also tried:

* `f32hash` without its `-0` case: `HashConsistent` fails.
* Struct hashing without the blank-field flush: no property fails. The
  field is skipped by `continue`, and the gap test flushes the run at the
  next field anyway.
* `interhash` without its `t.equal == nil` test: no property fails.
  `typehash` panics on a map or a slice anyway; the test only picks the
  type named in the message.

## 8. time.Ticker (`Ticker.tla`)

The program has one variable `t` and calls `NewTicker(d)` or `Tick(d)` once.
After that it calls `Stop` and `Reset(d)`, at most `MaxCalls = 3` calls in
all. A reader goroutine receives from `t.C` in a loop.

The runtime timer is not in the repository. The module keeps what Go 1.15
does with it, as environment actions:

* `Elapse`: time passes. It is kept as the delay `left` until the timer is
  due, and `when(d)` is `d`, or 0 for `d <= 0`.
* `RunBegin`: `runtimer` marks a due timer `timerRunning`.
* `RunOneTimer`: still under the timers lock, `runOneTimer` re-arms a
  periodic timer (period > 0) or removes a one-shot one. Then it unlocks
  and starts `sendTime`.
* `SendTime`: a non-blocking send into the 1-element buffer. A full buffer
  drops the tick.

`Stop` (`deltimer`) and `Reset` (`modtimer`) wait while the timer is
`timerRunning`, then delete or re-arm it. Another M may run the same P's
timers while a `sendTime` is still under way, so up to `MaxInflight = 2`
sends can be pending at once.

The ghost variables are:

* `stopped`: Stop returned and no Reset came since;
* `late`: ticks sent since then;
* `owed`: sends pending when Stop returned.

**Fairness.** Time passes, the scheduler and sysmon run due timers, a
started `sendTime` finishes, and the reader keeps receiving. Each of these
steps gets weak fairness. The program's calls get none. Because calls are
bounded, a behaviour can end with every timer stopped, so the cfgs say
`CHECK_DEADLOCK FALSE`.

The properties:

* `LateTicksWereInFlight` (`late <= owed`): every tick sent after Stop
  was already handed to `sendTime`. It is killed by a Stop that does not
  wait out a running timer.
* `StaleTicksWereHeld` (`early <= held`): Reset does not drain `t.C`, so
  the reader can get a tick right after Reset, before the new period. The
  ghost `held` is the number of ticks buffered or handed to `sendTime` when
  Reset returned, and `early` counts the ticks received since then, until
  `runtimer` next runs the timer. The stale ticks are at most those. It is
  killed by a `modtimer` that returns at once for a running timer, leaving
  the old period's fire to come after Reset.
* `TicksKeepComing`: while the Ticker was made and not stopped, the reader
  receives again and again. It is killed by `NewTicker` leaving the period
  at 0.

The passing run uses durations {0, 1, 2} for `NewTicker` and `Tick`, so the
panic and the nil channel also happen. It uses {1, 2} for `Reset`.

**Finding (`ticker_stop`).** Stop's comment says "after Stop, no more
ticks will be sent". TLC finds this order:

1. `NewTicker(1)`.
2. The timer fires, and `runOneTimer` re-arms it and unlocks.
3. `Stop` sees `timerWaiting`, deletes the timer and returns.
4. `sendTime` puts a tick into `t.C`.

**Finding (`ticker_reset_zero`).** `NewTicker` panics for `d <= 0`, but
`Reset` passes any `d` to `modTimer` as the period. The runtime runs a
timer with period <= 0 once. After `Reset(0)` the Ticker sends one tick and
then falls silent, though it was never stopped.

## 9. runtime.NumCgoCall (`NumCgoCall.tla`, `MCNumCgoCall.tla`)

The caller walks `allm` in three actions, one per part of the loop: the
atomic load, the add and advance, and the return. Three environment
actions run the runtime side, which is not in the repository:

* `NewM` (`mcommoninit`): links a new M in front of `allm`;
* `CgoCall`: an M counts its own cgo call;
* `Exit` (`mexit`): unlinks an M under `sched.lock` and leaves its
  `alllink` as it was.

Ghost variables record `made`, the calls made in all, and, when a walk
begins, `lo` (`made` then) and `base` (each listed M's count then).

The run `numcgocall` has four Ms, one of them `m0`, which never exits, and
two cgo calls per M. These cover several cases: a walk passing an M that
exits, a walk standing on an M as it exits, two exits during one walk, and
an M linked in during a walk. With symmetry on the Ms other than `m0`,
that is about 350k states, in 5 seconds. The violation run
`numcgocall_lost` keeps three Ms.

Termination of the walk is not checked. It follows from the runtime's
side, which the model builds from outside the repository: new Ms are
linked in front, `mexit` keeps `alllink`, and there are finitely many Ms.
Go's three-clause `for` loop always runs `mp = mp.alllink`, so no plausible
bug in the code could break it.

The properties:

* `NumCgoCallCountsListed`: the result counts every call made before the
  walk began by the Ms still listed when it returns. It is killed by a loop
  that stops before the last M.
* `NumCgoCallNoOvercount`: the result is at most `made`. It is killed by a
  sum that is not reset between calls.

**Finding (`numcgocall_lost`).** The doc says NumCgoCall "returns the
number of cgo calls made by the current process". TLC finds this sequence:

1. An M is linked in and makes a cgo call.
2. The M exits.
3. `NumCgoCall` returns 0.

The exited M's calls have left the sum, so a later result can be smaller
than an earlier one.

## 10. runtime.GOMAXPROCS (`GoMaxProcs.tla`)

The callers are goroutines. Each makes one call in three steps:

1. `Call`: the wasm clamp.
2. `Read`: `ret := gomaxprocs` under `sched.lock`, and the early return
   when `n <= 0 || n == ret`.
3. `StopTheWorld`: `stopTheWorldGC`, `newprocs = n`, `startTheWorldGC`.

The third step is atomic. The world is stopped, stop-the-world calls are
serialised, and `procresize` makes `newprocs` the setting before the world
runs again. A ghost variable records, for each call, the calls done before
it began.

`ReturnsPreviousSetting` states the comment's "returns the previous
setting" as linearisability. Once every call has returned, some order of
the calls that keeps real time, replayed one call at a time, gives every
return value and the final setting.

**Finding (`gomaxprocs_ret`).** With two callers, arguments in {0,1,2}
and a setting of 2, TLC finds this 7-state trace:

1. Both callers call `GOMAXPROCS(1)`.
2. Both read 2.
3. Both stop the world and store 1.
4. Both return 2.

In any sequential order the second call would return 1, or return early.
The Pool model only sees the setting, so it keeps GOMAXPROCS as one
stopped-world step.

## 11. Not modelled

* `fmt.Errorf`: formatting.
* Parts of `alg.go`: the `memhashN` and test-adapter wrappers, each one
  call; the complex128 and string cases, which are the complex64 code and
  the assembly `strhash`; `alginit` and `initAlgAES`, which choose the hash
  and its random key (the contract must hold whatever they choose); and
  `readUnaligned32/64`, which are byte-order loads.
* The unicode tables themselves: generated, not in the repository.
* `strings.Compare`: a pure comparison.
* bufio test exports.
* `NumCPU`, `NumGoroutine` and `debug_modinfo`: each returns one runtime
  variable and changes nothing.

Open work:

* A two-pool configuration of the Pool model: with two pools, two
  goroutines, six table ids and one item, TLC did not finish within 15
  minutes, so the checked runs keep one pool.
* `pool_liveness` takes about 2 minutes (371k distinct states); a larger
  instance of it would exceed the 5-minute budget.
