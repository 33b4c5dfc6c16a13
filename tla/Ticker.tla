------------------------------- MODULE Ticker -------------------------------
(***************************************************************************)
(* time.Ticker and time.Tick (src/go-1.15/src/time/tick.go).  One program  *)
(* variable t holds a Ticker; the program calls NewTicker or Tick once,    *)
(* then Stop and Reset, at most MaxCalls calls in all; a reader goroutine *)
(* receives from t.C in a loop.                                           *)
(*                                                                         *)
(* The runtime timer the Ticker drives is not in the repository; the      *)
(* module keeps what Go 1.15's runtime does with it, as the environment:  *)
(*  - when(d) is now + d, or now for d <= 0; time is kept as the delay    *)
(*    left until the timer is due;                                        *)
(*  - runtimer marks a due timer running, and runOneTimer, still under    *)
(*    the timers lock, re-arms it (period > 0: when += period) or removes *)
(*    it (period <= 0), then unlocks and calls f = sendTime;              *)
(*  - sendTime does a non-blocking send on the 1-element channel;         *)
(*  - deltimer (Stop) and modtimer (Reset) wait while the timer is        *)
(*    running, then delete or re-arm it.                                  *)
(***************************************************************************)
EXTENDS Integers

CONSTANTS
  Durations,       \* arguments to NewTicker and Tick
  ResetDurations,  \* arguments to Reset
  MaxCalls,        \* bound on the program's calls
  MaxInflight      \* bound on sendTime calls under way at once

ASSUME MaxCalls \in Nat /\ MaxInflight \in Nat \ {0}

VARIABLES
  t,         \* the program's Ticker: "zero" (var t Ticker), "made" (by
             \* NewTicker), "leaked" (made by Tick), "nilchan" (Tick(d<=0))
  timer,     \* t.r: [status, left (delay until due), period]
  buf,       \* number of ticks in t.C's 1-element buffer
  inflight,  \* sendTime calls runOneTimer has unlocked for and not yet made
  calls,     \* calls the program made
  panicked,  \* a call panicked
  stopped,   \* Stop returned and no Reset came since
  late,      \* ticks sent into t.C since Stop returned
  owed,      \* sendTime calls under way when Stop returned
  fresh,     \* Reset returned and runtimer has not run the timer since
  held,      \* ticks buffered or in sendTime when that Reset returned
  early      \* ticks the reader received since then, while fresh

vars == <<t, timer, buf, inflight, calls, panicked, stopped, late, owed,
          fresh, held, early>>

\* The ghost of the Reset window, left alone.
ResetGhost == UNCHANGED <<fresh, held, early>>

NoTimer == [status |-> "nostatus", left |-> 0, period |-> 0]

\* when(d): the delay until the timer is due.
When(d) == IF d <= 0 THEN 0 ELSE d

\* A call by the program.
Call == calls < MaxCalls /\ calls' = calls + 1

\* The program's Ticker keeps ticking: it was made and not stopped.
Ticking == t \in {"made", "leaked"} /\ ~stopped
-----------------------------------------------------------------------------
(* The program's calls *)

\* Mutant: NewTicker leaves the runtimeTimer's period at zero.
NewTickerNoPeriod(d) ==
  /\ Call /\ t = "zero"
  /\ \/ d <= 0 /\ panicked' = TRUE /\ UNCHANGED <<t, timer>>
     \/ /\ d > 0
        /\ t' = "made"
        /\ timer' = [status |-> "waiting", left |-> When(d), period |-> 0]
        /\ UNCHANGED panicked
  /\ UNCHANGED <<buf, inflight, stopped, late, owed>> /\ ResetGhost

\* NewTicker(d): d <= 0 panics; else a 1-element channel and a timer with
\* when(d), period d, f = sendTime, started by startTimer.
NewTicker(d) ==
  /\ Call /\ t = "zero"
  /\ \/ d <= 0 /\ panicked' = TRUE /\ UNCHANGED <<t, timer>>
     \/ /\ d > 0
        /\ t' = "made"
        /\ timer' = [status |-> "waiting", left |-> When(d), period |-> d]
        /\ UNCHANGED panicked
  /\ UNCHANGED <<buf, inflight, stopped, late, owed>> /\ ResetGhost

\* Tick(d): nil for d <= 0, else NewTicker(d).C with the Ticker dropped.
Tick(d) ==
  /\ Call /\ t = "zero"
  /\ \/ d <= 0 /\ t' = "nilchan" /\ UNCHANGED timer
     \/ d > 0 /\ t' = "leaked" /\ timer' = [status |-> "waiting", left |-> When(d), period |-> d]
  /\ UNCHANGED <<buf, inflight, panicked, stopped, late, owed>> /\ ResetGhost

\* Mutant: deltimer returns at once for a running timer, leaving it armed.
StopNoWait ==
  /\ Call /\ t \in {"zero", "made"}
  /\ timer' = IF timer.status = "waiting" THEN [timer EXCEPT !.status = "deleted"] ELSE timer
  /\ stopped' = (t = "made")
  /\ late' = 0
  /\ owed' = inflight
  /\ UNCHANGED <<t, buf, inflight, panicked>> /\ ResetGhost

\* Stop: stopTimer(&t.r).  deltimer waits while the timer runs, deletes a
\* waiting one, and does nothing to a zero or removed timer.
Stop ==
  /\ Call /\ t \in {"zero", "made"}
  /\ timer.status # "running"
  /\ timer' = IF timer.status = "waiting" THEN [timer EXCEPT !.status = "deleted"] ELSE timer
  /\ stopped' = (t = "made")
  /\ late' = 0
  /\ owed' = inflight
  /\ UNCHANGED <<t, buf, inflight, panicked>> /\ ResetGhost

\* Mutant: modtimer returns at once for a running timer, leaving it as it is.
ResetNoWait(d) ==
  /\ Call /\ t \in {"zero", "made"}
  /\ \/ t = "zero" /\ panicked' = TRUE /\ UNCHANGED <<timer, stopped>> /\ ResetGhost
     \/ /\ t = "made"
        /\ timer' = IF timer.status = "running" THEN timer
                     ELSE [status |-> "waiting", left |-> When(d), period |-> d]
        /\ stopped' = FALSE
        /\ fresh' = TRUE /\ held' = buf + inflight /\ early' = 0
        /\ UNCHANGED panicked
  /\ UNCHANGED <<t, buf, inflight, late, owed>>

\* Reset(d): a zero Ticker (t.r.f == nil) panics; else modTimer with
\* when(d) and period d, which waits while the timer runs and re-arms it
\* whether it was waiting, deleted or removed.
Reset(d) ==
  /\ Call /\ t \in {"zero", "made"}
  /\ \/ t = "zero" /\ panicked' = TRUE /\ UNCHANGED <<timer, stopped>> /\ ResetGhost
     \/ /\ t = "made"
        /\ timer.status # "running"
        /\ timer' = [status |-> "waiting", left |-> When(d), period |-> d]
        /\ stopped' = FALSE
        /\ fresh' = TRUE /\ held' = buf + inflight /\ early' = 0
        /\ UNCHANGED panicked
  /\ UNCHANGED <<t, buf, inflight, late, owed>>
-----------------------------------------------------------------------------
(* The runtime and the reader *)

\* Time passes until the armed timer is due.
Elapse ==
  /\ timer.status = "waiting" /\ timer.left > 0
  /\ timer' = [timer EXCEPT !.left = @ - 1]
  /\ UNCHANGED <<t, buf, inflight, calls, panicked, stopped, late, owed>> /\ ResetGhost

\* runtimer: a due timer becomes running.
RunBegin ==
  /\ timer.status = "waiting" /\ timer.left = 0 /\ inflight < MaxInflight
  /\ timer' = [timer EXCEPT !.status = "running"]
  /\ fresh' = FALSE
  /\ UNCHANGED <<t, buf, inflight, calls, panicked, stopped, late, owed, held, early>>

\* runOneTimer: re-arm or remove, unlock, then f is about to run.
RunOneTimer ==
  /\ timer.status = "running"
  /\ timer' = IF timer.period > 0
                THEN [timer EXCEPT !.status = "waiting", !.left = timer.period]
                ELSE NoTimer
  /\ inflight' = inflight + 1
  /\ UNCHANGED <<t, buf, calls, panicked, stopped, late, owed>> /\ ResetGhost

\* sendTime: select { case c <- Now(): default: } drops the tick when the
\* buffer is full.
SendTime ==
  /\ inflight > 0
  /\ inflight' = inflight - 1
  /\ buf' = 1
  /\ late' = IF stopped THEN late + 1 ELSE late
  /\ UNCHANGED <<t, timer, calls, panicked, stopped, owed>> /\ ResetGhost

\* The reader goroutine receives a tick; a nil channel blocks it forever.
Recv ==
  /\ t # "nilchan" /\ buf = 1
  /\ buf' = 0
  /\ early' = IF fresh THEN early + 1 ELSE early
  /\ UNCHANGED <<t, timer, inflight, calls, panicked, stopped, late, owed, fresh, held>>

Init ==
  /\ t = "zero" /\ timer = NoTimer /\ buf = 0 /\ inflight = 0
  /\ calls = 0 /\ panicked = FALSE /\ stopped = FALSE /\ late = 0 /\ owed = 0
  /\ fresh = FALSE /\ held = 0 /\ early = 0

Next ==
  \/ \E d \in Durations : NewTicker(d) \/ Tick(d)
  \/ Stop
  \/ \E d \in ResetDurations : Reset(d)
  \/ Elapse \/ RunBegin \/ RunOneTimer \/ SendTime \/ Recv

\* Time passes, the scheduler and sysmon run due timers, a started
\* sendTime completes, and the reader loops on t.C.  The program's own
\* calls get no fairness.
Fairness ==
  /\ WF_vars(Elapse) /\ WF_vars(RunBegin) /\ WF_vars(RunOneTimer)
  /\ WF_vars(SendTime) /\ WF_vars(Recv)

Spec == Init /\ [][Next]_vars /\ Fairness
-----------------------------------------------------------------------------
(* Properties *)

\* Stop's comment: after Stop, no more ticks will be sent.
NoSendAfterStop == late = 0

\* What Stop does guarantee: deltimer waits out a running timer and
\* deletes it, so every tick that reaches t.C after Stop returned was
\* already handed to sendTime by runOneTimer before Stop returned; the
\* timer never fires again until a Reset.
LateTicksWereInFlight == late <= owed

\* NewTicker's comment: the channel delivers ticks at the period's
\* intervals; while the Ticker is running (made and not stopped), the
\* reader receives a tick again and again, dropped ticks notwithstanding.
TicksKeepComing == []<>(~Ticking) \/ []<><<Recv>>_vars

\* Reset's comment says the next tick arrives after the new period.  What
\* holds: modTimer waits out a running timer and Reset does not drain t.C,
\* so the ticks the reader gets after Reset returned and before runtimer
\* runs the re-armed timer are at most those already in t.C's buffer or
\* handed to sendTime then; no fire of the old period comes after Reset.
StaleTicksWereHeld == early <= held
=============================================================================
