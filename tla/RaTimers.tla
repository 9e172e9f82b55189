------------------------------- MODULE RaTimers -------------------------------
(***************************************************************************)
(* The timers that slirp4netns keeps for libslirp (timer_new, timer_mod,   *)
(* timer_free), and how the event loop honours them: update_ra_timeout     *)
(* bounds the sleep of g_poll by the earliest deadline, check_ra_timeout   *)
(* then runs the callbacks that are due.                                   *)
(*                                                                         *)
(* Time passes in ticks, Ticks of them to a millisecond; the code reads    *)
(* the clock in whole milliseconds, rounded down.  Deadlines are kept      *)
(* relative to the current millisecond.  The callback is that of           *)
(* libslirp's router advertisements, which arms its own timer again.       *)
(***************************************************************************)
EXTENDS Integers, Sequences, SequencesExt

CONSTANTS
  Timer,     \* the timers libslirp creates
  Delay,     \* milliseconds after which libslirp asks for a callback
  Sleep,     \* timeouts slirp_pollfds_fill may ask for, in milliseconds
  Ticks,     \* ticks of the clock in a millisecond
  MaxBusy,   \* milliseconds one pass of check_ra_timeout may last
  UintMax    \* UINT32_MAX, the timeout that means none

ASSUME RaAssumption ==
  /\ Ticks \in Nat \ {0}
  /\ MaxBusy \in Nat
  /\ UintMax \in Nat
  /\ Delay \subseteq Nat /\ Sleep \subseteq Nat
  /\ \A d \in Delay \cup Sleep : d <= UintMax \div 2  \* fits a gint

VARIABLES
  timers,    \* data->timers
  left,      \* left[t]: expire_timer_msec - the current millisecond, or Off
  sub,       \* ticks of the current millisecond that have passed
  pc,        \* "busy", "poll", "check" or "callback"
  sleep,     \* ticks until g_poll times out, or Forever
  asked,     \* whether libslirp's own timeout bounds the sleep
  cursor,    \* the timer check_ra_timeout looks at
  age,       \* milliseconds since check_ra_timeout read the clock
  started    \* history: timers that have been armed since timer_new

vars == <<timers, left, sub, pc, sleep, asked, cursor, age, started>>

Floor   == -1 - MaxBusy  \* the longest overdue that is told apart
Off     == Floor - 1     \* stands for expire_timer_msec = -1
Forever == -1

Armed(t) == left[t] # Off

-----------------------------------------------------------------------------
(***************************************************************************)
(* The clock                                                               *)
(***************************************************************************)
Advance ==
  /\ sub' = (sub + 1) % Ticks
  /\ left' = IF sub' # 0 THEN left
             ELSE [t \in Timer |-> IF left[t] > Floor THEN left[t] - 1 ELSE left[t]]

TickBusy ==
  /\ pc = "busy"
  /\ Advance
  /\ UNCHANGED <<timers, pc, sleep, asked, cursor, age, started>>

TickPoll ==
  /\ pc = "poll"
  /\ sleep # 0
  /\ sleep' = IF sleep = Forever THEN Forever ELSE sleep - 1
  /\ Advance
  /\ UNCHANGED <<timers, pc, asked, cursor, age, started>>

TickCheck ==
  /\ pc \in {"check", "callback"}
  /\ age < MaxBusy
  /\ Advance
  /\ age' = IF sub' = 0 THEN age + 1 ELSE age
  /\ UNCHANGED <<timers, pc, sleep, asked, cursor, started>>

-----------------------------------------------------------------------------
(***************************************************************************)
(* libslirp, while packets, requests and sockets are handled.              *)
(***************************************************************************)
timer_new(t) ==
  /\ pc = "busy"
  /\ t \notin ToSet(timers)
  /\ timers' = Append(timers, t)
  /\ left' = [left EXCEPT ![t] = Off]
  /\ started' = started \ {t}
  /\ UNCHANGED <<sub, pc, sleep, asked, cursor, age>>

timer_mod(t, d) ==
  /\ pc = "busy"
  /\ t \in ToSet(timers)
  /\ left' = [left EXCEPT ![t] = d]
  /\ started' = started \cup {t}
  /\ UNCHANGED <<timers, sub, pc, sleep, asked, cursor, age>>

\* g_slist_remove.
timer_free(t) ==
  /\ pc = "busy"
  /\ \E k \in DOMAIN timers : timers[k] = t /\ timers' = RemoveAt(timers, k)
  /\ left' = [left EXCEPT ![t] = Off]
  /\ started' = started \ {t}
  /\ UNCHANGED <<sub, pc, sleep, asked, cursor, age>>

-----------------------------------------------------------------------------
(***************************************************************************)
(* The event loop                                                          *)
(***************************************************************************)
\* A bug that could be here: the wait is rounded down once more.
Waits_TooShort == {IF left[t] <= 0 THEN 0 ELSE left[t] - 1 :
                     t \in {u \in ToSet(timers) : Armed(u)}}

\* The waits that bound the timeout: a deadline in the past counts as now.
Waits == {IF left[t] < 0 THEN 0 ELSE left[t] :
            t \in {u \in ToSet(timers) : Armed(u)}}

\* A bug that could be here: without the clamp, a deadline in the past becomes
\* a huge uint32_t.
update_ra_timeout_Unclamped(timeout) ==
  LET raw == {left[t] : t \in {u \in ToSet(timers) : Armed(u)}} \cup {timeout}
      m   == CHOOSE x \in raw : \A y \in raw : x <= y
  IN  IF m < 0 THEN UintMax + 1 + m ELSE m

\* update_ra_timeout on the timeout libslirp asked for.
update_ra_timeout(timeout) ==
  CHOOSE m \in Waits \cup {timeout} : \A n \in Waits \cup {timeout} : m <= n

\* g_poll takes a gint: what does not fit is negative, and means no timeout.
Ticking(timeout) == IF timeout > UintMax \div 2 THEN Forever ELSE timeout * Ticks

\* The top of the loop: fill, update_ra_timeout and the start of g_poll.
StartPoll ==
  /\ pc = "check"
  /\ cursor > Len(timers)
  /\ \E timeout \in Sleep \cup {UintMax} :
       /\ sleep' = Ticking(update_ra_timeout(timeout))
       /\ asked' = (update_ra_timeout(timeout) = timeout)
  /\ pc' = "poll"
  /\ UNCHANGED <<timers, left, sub, cursor, age, started>>

PollTimesOut ==
  /\ pc = "poll"
  /\ sleep = 0
  /\ pc' = "busy"
  /\ UNCHANGED <<timers, left, sub, sleep, asked, cursor, age, started>>

PollEvent ==
  /\ pc = "poll"
  /\ pc' = "busy"
  /\ UNCHANGED <<timers, left, sub, sleep, asked, cursor, age, started>>

\* check_ra_timeout reads the clock once, then walks the list.
StartCheck ==
  /\ pc = "busy"
  /\ pc' = "check"
  /\ cursor' = 1
  /\ age' = 0
  /\ UNCHANGED <<timers, left, sub, sleep, asked, started>>

\* The deadline against the clock as it was read.
Due(t) == Armed(t) /\ left[t] + age <= 0

CheckNotDue ==
  /\ pc = "check"
  /\ cursor <= Len(timers)
  /\ ~Due(timers[cursor])
  /\ cursor' = cursor + 1
  /\ UNCHANGED <<timers, left, sub, pc, sleep, asked, age, started>>

\* expire_timer_msec = -1, before the callback runs.
CheckDue ==
  /\ pc = "check"
  /\ cursor <= Len(timers)
  /\ Due(timers[cursor])
  /\ left' = [left EXCEPT ![timers[cursor]] = Off]
  /\ pc' = "callback"
  /\ UNCHANGED <<timers, sub, sleep, asked, cursor, age, started>>

\* A bug that could be here: the timer is disarmed after its callback.
Callback_ThenDisarm ==
  /\ pc = "callback"
  /\ left' = [left EXCEPT ![timers[cursor]] = Off]
  /\ pc' = "check"
  /\ cursor' = cursor + 1
  /\ UNCHANGED <<timers, sub, sleep, asked, age, started>>

\* The callback arms its timer again; nothing is done to it afterwards.
Callback ==
  /\ pc = "callback"
  /\ \E d \in Delay : left' = [left EXCEPT ![timers[cursor]] = d]
  /\ pc' = "check"
  /\ cursor' = cursor + 1
  /\ UNCHANGED <<timers, sub, sleep, asked, age, started>>

Init ==
  /\ timers = <<>>
  /\ left = [t \in Timer |-> Off]
  /\ sub = 0
  /\ pc = "busy"
  /\ sleep = Forever
  /\ asked = FALSE
  /\ cursor = 1
  /\ age = 0
  /\ started = {}

Libslirp == \E t \in Timer : \/ timer_new(t) \/ timer_free(t)
                             \/ \E d \in Delay : timer_mod(t, d)
Tick == TickBusy \/ TickPoll \/ TickCheck
Loop == \/ StartPoll \/ PollTimesOut \/ StartCheck
        \/ CheckNotDue \/ CheckDue \/ Callback

Next == Libslirp \/ Tick \/ Loop \/ PollEvent

Spec == Init /\ [][Next]_vars

\* The process is scheduled, and time goes on.
FairSpec == Spec /\ WF_vars(Loop) /\ SF_vars(Tick)

-----------------------------------------------------------------------------
(***************************************************************************)
(* Properties                                                              *)
(***************************************************************************)

\* The variables have their types.
TypeOK ==
  /\ timers \in Seq(Timer)
  /\ \A t \in Timer : left[t] \in Int /\ left[t] >= Off
  /\ sub \in 0 .. Ticks - 1
  /\ pc \in {"busy", "poll", "check", "callback"}
  /\ sleep \in Int /\ sleep >= Forever
  /\ asked \in BOOLEAN
  /\ cursor \in Nat \ {0}
  /\ age \in 0 .. MaxBusy
  /\ started \subseteq Timer

\* While g_poll sleeps, it is going to wake within a millisecond of every
\* deadline, or at once if one is past: the clamp, the rounding of the clock
\* and the narrowing of the timeout to a gint never make a timer late.
NoOversleep ==
  pc = "poll" => \A t \in ToSet(timers) : Armed(t) =>
    /\ sleep # Forever
    /\ sleep = 0 \/ sleep < left[t] * Ticks - sub + Ticks

\* When g_poll times out on account of a timer, that timer is due: rounding
\* the clock down never makes the loop wake up early and spin.
NoEarlyWake ==
  pc = "poll" /\ sleep = 0 /\ ~asked =>
    \E t \in ToSet(timers) : Armed(t) /\ left[t] <= 0

\* A timer that libslirp has armed is armed whenever the loop goes to sleep:
\* check_ra_timeout disarms it before the callback, so what the callback
\* arms is never undone.
RearmIsKept == pc = "poll" => \A t \in started : Armed(t)

\* Once libslirp leaves a timer alone, it fires for ever after if it was ever
\* armed: neither a stream of events nor a stale clock reading starves it.
Fires(t) == pc = "callback" /\ timers[cursor] = t
Touches(t) == timer_free(t) \/ \E d \in Delay : timer_mod(t, d)
TimersFire ==
  \A t \in Timer : <>[][~Touches(t)]_vars =>
                     []<>Fires(t) \/ <>[](t \notin started)

=============================================================================
