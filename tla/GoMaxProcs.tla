------------------------------ MODULE GoMaxProcs ------------------------------
(***************************************************************************)
(* runtime.GOMAXPROCS (src/go-1.15/src/runtime/debug.go 9-28), called by   *)
(* several goroutines at once.  The old setting is read under sched.lock, *)
(* the lock is dropped, and the new one is stored with the world stopped: *)
(* stopTheWorldGC serialises the stores, and startTheWorldGC's procresize *)
(* makes newprocs the setting before the world runs again, so the store   *)
(* is one step.  Each caller makes one call.                              *)
(***************************************************************************)
EXTENDS Integers, Sequences, FiniteSets

CONSTANTS
  Callers,   \* the goroutines calling GOMAXPROCS
  Args,      \* the arguments they may pass
  Procs0,    \* the setting at start
  Wasm       \* GOARCH == "wasm"

ASSUME Procs0 \in Nat \ {0} /\ Wasm \in BOOLEAN

VARIABLES
  gomaxprocs,  \* the setting
  pc,          \* pc[c]: "idle", "lock" (before the read), "stw", "done"
  n,           \* n[c]: c's argument
  ret,         \* ret[c]: what c read, and returns
  after        \* after[c]: the calls done before c began (real-time order)

vars == <<gomaxprocs, pc, n, ret, after>>

\* The call: if GOARCH == "wasm" && n > 1 { n = 1 }.
Call(c, k) ==
  /\ pc[c] = "idle"
  /\ pc' = [pc EXCEPT ![c] = "lock"]
  /\ n' = [n EXCEPT ![c] = IF Wasm /\ k > 1 THEN 1 ELSE k]
  /\ after' = [after EXCEPT ![c] = {d \in Callers : pc[d] = "done"}]
  /\ UNCHANGED <<gomaxprocs, ret>>

\* lock; ret := gomaxprocs; unlock; if n <= 0 || n == ret { return ret }.
Read(c) ==
  /\ pc[c] = "lock"
  /\ ret' = [ret EXCEPT ![c] = gomaxprocs]
  /\ pc' = [pc EXCEPT ![c] = IF n[c] <= 0 \/ n[c] = gomaxprocs THEN "done" ELSE "stw"]
  /\ UNCHANGED <<gomaxprocs, n, after>>

\* stopTheWorldGC; newprocs = n; startTheWorldGC; return ret.
StopTheWorld(c) ==
  /\ pc[c] = "stw"
  /\ gomaxprocs' = n[c]
  /\ pc' = [pc EXCEPT ![c] = "done"]
  /\ UNCHANGED <<n, ret, after>>

Init ==
  /\ gomaxprocs = Procs0
  /\ pc = [c \in Callers |-> "idle"]
  /\ n = [c \in Callers |-> 0]
  /\ ret = [c \in Callers |-> 0]
  /\ after = [c \in Callers |-> {}]

Next == \E c \in Callers : Read(c) \/ StopTheWorld(c) \/ \E k \in Args : Call(c, k)

Spec == Init /\ [][Next]_vars
-----------------------------------------------------------------------------
(* Properties *)

\* The calls one after another in order s, from setting g: each returns
\* the setting before it and leaves its n, if positive, as the setting.
RECURSIVE Replays(_, _, _)
Replays(s, g, i) ==
  IF i > Len(s) THEN g = gomaxprocs
  ELSE LET c == s[i] IN
       /\ ret[c] = g
       /\ Replays(s, IF n[c] > 0 THEN n[c] ELSE g, i + 1)

\* The orders of the calls that keep every call after those done before it
\* began.
Orders ==
  {s \in [1 .. Cardinality(Callers) -> Callers] :
     /\ \A i, j \in DOMAIN s : i # j => s[i] # s[j]
     /\ \A i, j \in DOMAIN s : s[j] \in after[s[i]] => j < i}

\* GOMAXPROCS "returns the previous setting": once every call returned,
\* their results and the final setting are those of the calls made one at
\* a time in an order that keeps real time.  The read of ret and the store
\* are two steps apart, so two calls can both read the old setting.
ReturnsPreviousSetting ==
  (\A c \in Callers : pc[c] = "done") => \E s \in Orders : Replays(s, Procs0, 1)
=============================================================================
