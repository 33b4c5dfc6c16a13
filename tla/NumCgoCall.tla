------------------------------ MODULE NumCgoCall ------------------------------
(***************************************************************************)
(* runtime.NumCgoCall (src/go-1.15/src/runtime/debug.go 40-46): a goroutine *)
(* walks the list allm, loaded atomically, through the alllink pointers    *)
(* and sums every M's ncgocall, without a lock, while the runtime runs.   *)
(* The runtime's side is not in the repository; the module keeps what Go  *)
(* 1.15 does:                                                             *)
(*  - mcommoninit links a new M in front: mp.alllink = allm, then stores  *)
(*    allm = mp atomically;                                               *)
(*  - an M counts its own cgo calls in mp.ncgocall;                       *)
(*  - mexit (a thread locked by LockOSThread whose goroutine exits) takes *)
(*    its M out of allm under sched.lock and keeps m.alllink as it was;   *)
(*    the M's count leaves the sum with it.  MExit says whether the      *)
(*    program locks threads that exit.                                    *)
(***************************************************************************)
EXTENDS Integers, FiniteSets

Sets == INSTANCE FiniteSetsExt

CONSTANTS
  Ms,        \* M (OS thread) ids
  M0,        \* the M the process starts on; it never exits
  Nil,
  MaxCgo,    \* bound on an M's cgo calls
  MExit      \* Ms may exit

ASSUME M0 \in Ms /\ MaxCgo \in Nat /\ MExit \in BOOLEAN

VARIABLES
  allm,      \* the head of the list of Ms
  alllink,   \* alllink[m]: the next M after m
  created,   \* the Ms that exist or existed
  ncgocall,  \* ncgocall[m]: cgo calls m made
  made,      \* cgo calls the process made in all
  pc,        \* the caller of NumCgoCall: "idle" or "walk"
  mp,        \* its loop variable
  n,         \* its sum
  lo,        \* made when the call began
  base       \* base[m]: m's ncgocall when the call began, 0 if m was not listed

vars == <<allm, alllink, created, ncgocall, made, pc, mp, n, lo, base>>

\* The Ms reachable from allm.
RECURSIVE ChainFrom(_, _)
ChainFrom(m, seen) ==
  IF m = Nil \/ m \in seen THEN seen ELSE ChainFrom(alllink[m], seen \cup {m})
Listed == ChainFrom(allm, {})

Runtime == UNCHANGED <<pc, mp, n, lo, base>>
Caller == UNCHANGED <<allm, alllink, created, ncgocall, made>>
-----------------------------------------------------------------------------
(* The runtime *)

\* mcommoninit: mp.alllink = allm; atomicstorep(&allm, mp).
NewM(m) ==
  /\ m \notin created
  /\ alllink' = [alllink EXCEPT ![m] = allm]
  /\ allm' = m
  /\ created' = created \cup {m}
  /\ UNCHANGED <<ncgocall, made>> /\ Runtime

\* cgocall: mp.ncgocall++ by the M itself.
CgoCall(m) ==
  /\ m \in Listed /\ ncgocall[m] < MaxCgo
  /\ ncgocall' = [ncgocall EXCEPT ![m] = @ + 1]
  /\ made' = made + 1
  /\ UNCHANGED <<allm, alllink, created>> /\ Runtime

\* mexit: for pprev := &allm; *pprev != nil; pprev = &(*pprev).alllink
\* { if *pprev == m { *pprev = m.alllink } }.
Exit(m) ==
  /\ MExit /\ m # M0 /\ m \in Listed
  /\ IF allm = m
       THEN allm' = alllink[m] /\ UNCHANGED alllink
       ELSE \E p \in Listed : alllink[p] = m /\ alllink' = [alllink EXCEPT ![p] = alllink[m]] /\ UNCHANGED allm
  /\ UNCHANGED <<created, ncgocall, made>> /\ Runtime
-----------------------------------------------------------------------------
(* NumCgoCall *)

\* Mutant: the sum is not reset (n kept from the last call).
NumCgoCallStartNoReset ==
  /\ pc = "idle"
  /\ pc' = "walk" /\ mp' = allm /\ lo' = made /\ UNCHANGED n
  /\ base' = [m \in Ms |-> IF m \in Listed THEN ncgocall[m] ELSE 0]
  /\ Caller

\* var n int64; mp := (*m)(atomic.Loadp(unsafe.Pointer(&allm))).
NumCgoCallStart ==
  /\ pc = "idle"
  /\ pc' = "walk" /\ mp' = allm /\ n' = 0 /\ lo' = made
  /\ base' = [m \in Ms |-> IF m \in Listed THEN ncgocall[m] ELSE 0]
  /\ Caller

\* Mutant: the loop runs while mp.alllink != nil, leaving the last M out.
NumCgoCallStepStopEarly ==
  /\ pc = "walk" /\ mp # Nil
  /\ IF alllink[mp] = Nil THEN mp' = Nil /\ UNCHANGED n
     ELSE n' = n + ncgocall[mp] /\ mp' = alllink[mp]
  /\ UNCHANGED <<pc, lo, base>> /\ Caller

\* n += int64(mp.ncgocall); mp = mp.alllink.
NumCgoCallStep ==
  /\ pc = "walk" /\ mp # Nil
  /\ n' = n + ncgocall[mp] /\ mp' = alllink[mp]
  /\ UNCHANGED <<pc, lo, base>> /\ Caller

\* mp == nil: return n.
NumCgoCallReturn ==
  /\ pc = "walk" /\ mp = Nil
  /\ pc' = "idle"
  /\ UNCHANGED <<mp, n, lo, base>> /\ Caller

Init ==
  /\ allm = M0 /\ alllink = [m \in Ms |-> Nil] /\ created = {M0}
  /\ ncgocall = [m \in Ms |-> 0] /\ made = 0
  /\ pc = "idle" /\ mp = Nil /\ n = 0 /\ lo = 0 /\ base = [m \in Ms |-> 0]

Next ==
  \/ \E m \in Ms : NewM(m) \/ CgoCall(m) \/ Exit(m)
  \/ NumCgoCallStart \/ NumCgoCallStep \/ NumCgoCallReturn

Spec == Init /\ [][Next]_vars

-----------------------------------------------------------------------------
(* Properties *)

\* NumCgoCall "returns the number of cgo calls made by the current
\* process".  It counts every call made before it began, although Ms are
\* linked in and count calls while it walks allm without a lock: the tail
\* it walks only grows at the front.
NumCgoCallCountsAll ==
  [][pc = "walk" /\ pc' = "idle" => lo <= n]_vars

\* What the walk does count, Ms exiting or not: every call made before
\* it began by an M that is on allm when it returns, although mexit may
\* unlink other Ms ahead of the walk or the M it stands on.
NumCgoCallCountsListed ==
  [][pc = "walk" /\ pc' = "idle" =>
       n >= Sets!MapThenSumSet(LAMBDA m : base[m], Listed)]_vars

\* It never counts a call that was not made by the time it returns: no M
\* is visited twice, even when mexit unlinks the M the walk stands on and
\* the walk goes on through its stale alllink.
NumCgoCallNoOvercount ==
  [][pc = "walk" /\ pc' = "idle" => n <= made]_vars

=============================================================================
