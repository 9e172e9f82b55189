---------------------------- MODULE RaTimersProofs ----------------------------
(***************************************************************************)
(* Proofs about RaTimers, for any timers, delays and timeouts that fit a   *)
(* gint, and any granularity of the clock.                                 *)
(***************************************************************************)
EXTENDS RaTimers, WellFoundedInduction, TLAPS

\* The longest timeout that g_poll takes.
GintMax == UintMax \div 2

\* The types, with the domain of left and an upper bound on every wait; and while
\* a callback runs, its timer is in the list.
Types ==
  /\ timers \in Seq(Timer)
  /\ left \in [Timer -> Int] /\ \A t \in Timer : left[t] >= Off /\ left[t] <= GintMax
  /\ sub \in 0 .. Ticks - 1
  /\ pc \in {"busy", "poll", "check", "callback"}
  /\ sleep \in Int /\ sleep >= Forever
  /\ asked \in BOOLEAN
  /\ cursor \in Nat \ {0}
  /\ age \in 0 .. MaxBusy
  /\ started \subseteq Timer
  /\ pc = "callback" => cursor <= Len(timers)

\* The wake-up that a timer asked for, not libslirp, is no earlier than the timer.
WakesForTimer ==
  pc = "poll" /\ ~asked =>
    \E t \in ToSet(timers) :
      /\ Armed(t) /\ sleep # Forever
      /\ left[t] <= 0 \/ sleep >= left[t] * Ticks - sub

\* A timer is disarmed only while its callback runs.
Rearmed == \A t \in started : Armed(t) \/ (pc = "callback" /\ timers[cursor] = t)

IInv == Types /\ NoOversleep /\ WakesForTimer /\ Rearmed

-----------------------------------------------------------------------------
\* A set of natural numbers has a least element.
LEMMA LeastExists ==
  ASSUME NEW S, S \subseteq Nat, S # {}
  PROVE  \E m \in S : \A n \in S : m <= n
<1>1. PICK m \in S : \A n \in S : ~ (<<n, m>> \in OpToRel(<, Nat))
  BY NatLessThanWellFounded, WFMin
<1>2. \A n \in S : ~ (n < m)
  BY <1>1 DEF OpToRel
<1>. QED
  BY <1>2

\* update_ra_timeout returns the least of the waits and of what libslirp asked for.
LEMMA LeastWait ==
  ASSUME Types, NEW timeout \in Nat
  PROVE  /\ update_ra_timeout(timeout) \in Waits \cup {timeout}
         /\ update_ra_timeout(timeout) \in Nat
         /\ \A n \in Waits \cup {timeout} : update_ra_timeout(timeout) <= n
<1>1. \A t \in ToSet(timers) : left[t] \in Int
  BY DEF Types, ToSet
<1>2. Waits \cup {timeout} \subseteq Nat
  BY <1>1 DEF Waits
<1>3. \E m \in Waits \cup {timeout} : \A n \in Waits \cup {timeout} : m <= n
  BY <1>2, LeastExists
<1>. QED
  BY <1>2, <1>3 DEF update_ra_timeout

\* The clock goes on within a millisecond, or into the next one; no timer is armed
\* or disarmed by that.
LEMMA AdvanceFacts ==
  ASSUME Types, Advance
  PROVE  /\ left' \in [Timer -> Int]
         /\ \A t \in Timer : left'[t] >= Off /\ left'[t] <= GintMax
         /\ \A t \in Timer : left'[t] # Off <=> left[t] # Off
         /\ \/ sub' = sub + 1 /\ sub' \in 0 .. Ticks - 1 /\ left' = left
            \/ /\ sub = Ticks - 1 /\ sub' = 0
               /\ \A t \in Timer : left'[t] = IF left[t] > Floor THEN left[t] - 1 ELSE left[t]
<1>1. /\ Ticks \in Nat \ {0} /\ sub \in 0 .. Ticks - 1 /\ Floor \in Int /\ Off = Floor - 1
      /\ GintMax \in Int
  BY RaAssumption DEF RaAssumption, Types, Floor, Off, GintMax
<1>2. (sub + 1) % Ticks = IF sub + 1 = Ticks THEN 0 ELSE sub + 1
  BY <1>1
<1>3. left \in [Timer -> Int] /\ \A t \in Timer : left[t] >= Off /\ left[t] <= GintMax
  BY DEF Types
<1>4. CASE sub + 1 = Ticks
  <2>1. sub' = 0 /\ sub = Ticks - 1
    BY <1>1, <1>2, <1>4 DEF Advance
  <2>2. left' = [t \in Timer |-> IF left[t] > Floor THEN left[t] - 1 ELSE left[t]]
    BY <2>1 DEF Advance
  <2>. QED
    BY <1>1, <1>3, <2>1, <2>2
<1>5. CASE sub + 1 # Ticks
  <2>1. sub' = sub + 1 /\ sub' # 0 /\ sub' \in 0 .. Ticks - 1
    BY <1>1, <1>2, <1>5 DEF Advance
  <2>2. left' = left
    BY <2>1 DEF Advance
  <2>. QED
    BY <1>3, <2>1, <2>2
<1>. QED
  BY <1>4, <1>5


\* The constants as numbers, and what stands for a timer that is off.
LEMMA ConstantFacts ==
  /\ Floor \in Int /\ Off \in Int /\ Off < 0 /\ GintMax \in Int /\ Off <= GintMax
  /\ \A d \in Delay \cup Sleep : d \in Nat /\ d <= GintMax
  /\ Ticks \in Nat \ {0} /\ MaxBusy \in Nat /\ Forever \in Int /\ UintMax \in Nat
  BY RaAssumption DEF RaAssumption, Floor, Off, GintMax, Forever

\* g_slist_remove takes out one timer of the list.
LEMMA RemoveAtType ==
  ASSUME NEW s \in Seq(Timer), NEW k \in DOMAIN s
  PROVE  RemoveAt(s, k) \in Seq(Timer)
  BY DEF RemoveAt

\* Every step keeps the types.
LEMMA TypesStep == Types /\ [Next]_vars => Types'
<1> SUFFICES ASSUME Types, [Next]_vars PROVE Types'
  OBVIOUS
<1>c. /\ Floor \in Int /\ Off \in Int /\ Off < 0 /\ GintMax \in Int /\ Off <= GintMax
      /\ \A d \in Delay : d \in Nat /\ d <= GintMax
      /\ Ticks \in Nat \ {0} /\ MaxBusy \in Nat /\ Forever = -1
  BY ConstantFacts DEF Forever
<1>1. CASE TickBusy
  BY <1>1, <1>c, AdvanceFacts DEF TickBusy, Types
<1>2. CASE TickPoll
  BY <1>2, <1>c, AdvanceFacts DEF TickPoll, Types
<1>3. CASE TickCheck
  BY <1>3, <1>c, AdvanceFacts DEF TickCheck, Types
<1>4. ASSUME NEW t \in Timer, timer_new(t)  PROVE Types'
  BY <1>4, <1>c DEF timer_new, Types
<1>5. ASSUME NEW t \in Timer, timer_free(t)  PROVE Types'
  <2>1. timers' \in Seq(Timer)
    BY <1>5, RemoveAtType DEF timer_free, Types
  <2>. QED
    BY <1>5, <1>c, <2>1 DEF timer_free, Types
<1>6. ASSUME NEW t \in Timer, NEW d \in Delay, timer_mod(t, d)  PROVE Types'
  BY <1>6, <1>c DEF timer_mod, Types
<1>7. CASE StartPoll
  <2>1. PICK timeout \in Sleep \cup {UintMax} :
          /\ sleep' = Ticking(update_ra_timeout(timeout))
          /\ asked' = (update_ra_timeout(timeout) = timeout)
    BY <1>7 DEF StartPoll
  <2>2. update_ra_timeout(timeout) \in Nat
    BY LeastWait, ConstantFacts
  <2>3. sleep' \in Int /\ sleep' >= Forever
    BY <1>c, <2>1, <2>2 DEF Ticking
  <2>4. asked' \in BOOLEAN
    BY <2>1
  <2>. QED
    BY <1>7, <2>3, <2>4 DEF StartPoll, Types
<1>8. CASE PollTimesOut \/ PollEvent
  BY <1>8 DEF PollTimesOut, PollEvent, Types
<1>9. CASE StartCheck
  BY <1>9, <1>c DEF StartCheck, Types
<1>10. CASE CheckNotDue
  BY <1>10 DEF CheckNotDue, Types
<1>11. CASE CheckDue
  BY <1>11, <1>c DEF CheckDue, Types
<1>12. CASE Callback
  BY <1>12, <1>c DEF Callback, Types
<1>13. CASE UNCHANGED vars
  BY <1>13 DEF vars, Types
<1>. QED
  BY <1>1, <1>2, <1>3, <1>4, <1>5, <1>6, <1>7, <1>8, <1>9, <1>10, <1>11, <1>12, <1>13
  DEF Next, Libslirp, Tick, Loop


\* Multiples of Ticks, as the steps below compare them.
LEMMA TicksMonotone ==
  ASSUME NEW a \in Int, NEW b \in Int, a <= b
  PROVE  a * Ticks \in Int /\ b * Ticks \in Int /\ a * Ticks <= b * Ticks
  BY ConstantFacts

\* One multiple of Ticks, and the one before it.
LEMMA TickFacts ==
  ASSUME NEW a \in Int
  PROVE  /\ a * Ticks \in Int
         /\ (a - 1) * Ticks = a * Ticks - Ticks
         /\ a * Ticks < Ticks => a <= 0
         /\ a < 0 => a * Ticks <= 0 - Ticks
  BY ConstantFacts

\* Only StartPoll leads into g_poll and only TickPoll stays there.
LEMMA PollSteps ==
  ASSUME [Next]_vars, pc' = "poll"
  PROVE  \/ StartPoll \/ TickPoll
         \/ UNCHANGED <<timers, left, sub, pc, sleep, asked, started>>
  BY DEF Next, Libslirp, Tick, Loop, TickBusy, TickCheck, timer_new, timer_free, timer_mod,
         PollTimesOut, PollEvent, StartCheck, CheckNotDue, CheckDue, Callback, vars

\* The timeout that update_ra_timeout leaves to g_poll, and the passing of time in it,
\* keep every deadline.
LEMMA NoOversleepStep == Types /\ NoOversleep /\ [Next]_vars => NoOversleep'
<1> SUFFICES ASSUME Types, NoOversleep, [Next]_vars, pc' = "poll",
                    NEW t \in ToSet(timers'), left'[t] # Off
             PROVE  /\ sleep' # Forever
                    /\ sleep' = 0 \/ sleep' < left'[t] * Ticks - sub' + Ticks
  BY DEF NoOversleep, Armed
<1>1. CASE StartPoll
  <2>1. PICK timeout \in Sleep \cup {UintMax} :
          sleep' = Ticking(update_ra_timeout(timeout))
    BY <1>1 DEF StartPoll
  <2>2. /\ t \in ToSet(timers) /\ t \in Timer /\ left'[t] = left[t] /\ left[t] # Off
        /\ sub' = sub /\ sub \in 0 .. Ticks - 1 /\ left[t] \in Int /\ left[t] <= GintMax
    BY <1>1 DEF StartPoll, Types, ToSet
  <2> DEFINE m    == update_ra_timeout(timeout)
             wait == IF left[t] < 0 THEN 0 ELSE left[t]
  <2>3. wait \in Waits /\ wait \in Int
    BY <2>2 DEF Waits, Armed
  <2>4. m \in Nat /\ m <= wait
    BY <2>3, LeastWait, ConstantFacts
  <2>5. m <= GintMax
    BY <2>2, <2>4, ConstantFacts, RaAssumption DEF RaAssumption, GintMax
  <2>6. sleep' = m * Ticks
    BY <2>1, <2>4, <2>5, ConstantFacts DEF Ticking, GintMax
  <2> HIDE DEF m
  <2>7. CASE left[t] < 0
    BY <2>4, <2>6, <2>7, ConstantFacts DEF Forever
  <2>8. CASE left[t] >= 0
    <3>1. m * Ticks <= left[t] * Ticks /\ m * Ticks \in Int /\ left[t] * Ticks \in Int
      BY <2>2, <2>4, <2>8, TicksMonotone
    <3>2. m * Ticks >= 0
      BY <2>4, ConstantFacts
    <3>. QED
      BY <2>2, <2>6, <3>1, <3>2, ConstantFacts DEF Forever
  <2>. QED
    BY <2>2, <2>7, <2>8
<1>2. CASE TickPoll
  <2>1. /\ t \in ToSet(timers) /\ t \in Timer /\ left[t] # Off /\ pc = "poll" /\ sleep # 0
        /\ left[t] \in Int /\ left[t] >= Off /\ sub \in 0 .. Ticks - 1 /\ sleep \in Int
        /\ sleep >= Forever
    BY <1>2, AdvanceFacts DEF TickPoll, Types, ToSet
  <2>2. sleep # Forever /\ sleep < left[t] * Ticks - sub + Ticks
    BY <2>1 DEF NoOversleep, Armed
  <2>3. sleep' = sleep - 1 /\ sleep > 0
    BY <1>2, <2>1, <2>2 DEF TickPoll, Forever
  <2>4. left[t] >= 0 /\ left[t] * Ticks \in Int
    <3>1. left[t] * Ticks \in Int /\ (left[t] < 0 => left[t] * Ticks <= 0 - Ticks)
      BY <2>1, TickFacts
    <3>. QED
      BY <2>1, <2>2, <2>3, <3>1, ConstantFacts
  <2>5. \/ sub' = sub + 1 /\ left'[t] = left[t]
        \/ sub = Ticks - 1 /\ sub' = 0 /\ left'[t] = left[t] - 1
    <3>1. left[t] > Floor
      BY <2>1, <2>4, ConstantFacts DEF Floor
    <3>. QED
      BY <1>2, <2>1, <3>1, AdvanceFacts DEF TickPoll
  <2>6. (left[t] - 1) * Ticks = left[t] * Ticks - Ticks
    BY <2>1, TickFacts
  <2>. QED
    BY <2>1, <2>2, <2>3, <2>4, <2>5, <2>6, ConstantFacts DEF Forever
<1>3. CASE UNCHANGED <<timers, left, sub, pc, sleep, asked, started>>
  BY <1>3 DEF NoOversleep, Armed
<1>. QED
  BY <1>1, <1>2, <1>3, PollSteps

\* A sleep that a timer bounds ends no earlier than that timer's deadline.
LEMMA WakesStep == Types /\ WakesForTimer /\ [Next]_vars => WakesForTimer'
<1> SUFFICES ASSUME Types, WakesForTimer, [Next]_vars, pc' = "poll", ~asked'
             PROVE  \E t \in ToSet(timers') :
                      /\ left'[t] # Off /\ sleep' # Forever
                      /\ left'[t] <= 0 \/ sleep' >= left'[t] * Ticks - sub'
  BY DEF WakesForTimer, Armed
<1>1. CASE StartPoll
  <2>1. PICK timeout \in Sleep \cup {UintMax} :
          /\ sleep' = Ticking(update_ra_timeout(timeout))
          /\ asked' = (update_ra_timeout(timeout) = timeout)
    BY <1>1 DEF StartPoll
  <2> DEFINE m == update_ra_timeout(timeout)
  <2>2. m # timeout
    BY <2>1
  <2>3. m \in Waits /\ m \in Nat
    BY <2>2, LeastWait, ConstantFacts
  <2>4. PICK t \in ToSet(timers) : Armed(t) /\ m = IF left[t] < 0 THEN 0 ELSE left[t]
    BY <2>3 DEF Waits
  <2>5. /\ t \in ToSet(timers') /\ left'[t] = left[t] /\ sub' = sub /\ left[t] # Off
        /\ sub \in 0 .. Ticks - 1 /\ left[t] \in Int /\ left[t] <= GintMax
    BY <1>1, <2>4 DEF StartPoll, Types, ToSet, Armed
  <2>6. m <= GintMax
    BY <2>4, <2>5, ConstantFacts, RaAssumption DEF RaAssumption, GintMax
  <2>7. sleep' = m * Ticks
    BY <2>1, <2>3, <2>6, ConstantFacts DEF Ticking, GintMax
  <2> HIDE DEF m
  <2>8. m * Ticks >= 0 /\ m * Ticks \in Int
    BY <2>3, ConstantFacts
  <2>9. left[t] <= 0 \/ m * Ticks >= left[t] * Ticks - sub
    BY <2>4, <2>5, <2>8, ConstantFacts
  <2>. QED
    BY <2>5, <2>7, <2>8, <2>9 DEF Forever
<1>2. CASE TickPoll
  <2>1. pc = "poll" /\ ~asked
    BY <1>2 DEF TickPoll
  <2>2. PICK t \in ToSet(timers) :
          /\ left[t] # Off /\ sleep # Forever
          /\ left[t] <= 0 \/ sleep >= left[t] * Ticks - sub
    BY <2>1 DEF WakesForTimer, Armed
  <2>3. /\ t \in ToSet(timers') /\ t \in Timer /\ left[t] \in Int /\ sleep \in Int
        /\ sleep >= Forever /\ sleep # 0 /\ sleep' = sleep - 1 /\ sub \in 0 .. Ticks - 1
    BY <1>2, <2>2 DEF TickPoll, Types, ToSet
  <2>4. /\ left'[t] # Off
        /\ \/ sub' = sub + 1 /\ left'[t] = left[t]
           \/ /\ sub = Ticks - 1 /\ sub' = 0
              /\ left'[t] = IF left[t] > Floor THEN left[t] - 1 ELSE left[t]
    BY <1>2, <2>2, <2>3, AdvanceFacts DEF TickPoll
  <2>5. (left[t] - 1) * Ticks = left[t] * Ticks - Ticks /\ left[t] * Ticks \in Int
    BY <2>3, TickFacts
  <2>6. left'[t] <= 0 \/ sleep' >= left'[t] * Ticks - sub'
    BY <2>2, <2>3, <2>4, <2>5, ConstantFacts DEF Off
  <2>. QED
    BY <2>2, <2>3, <2>4, <2>6 DEF Forever
<1>3. CASE UNCHANGED <<timers, left, sub, pc, sleep, asked, started>>
  BY <1>3 DEF WakesForTimer, Armed
<1>. QED
  BY <1>1, <1>2, <1>3, PollSteps

\* A timer that libslirp has armed stays armed but while its callback runs.
LEMMA RearmedStep == Types /\ Rearmed /\ [Next]_vars => Rearmed'
<1> SUFFICES ASSUME Types, Rearmed, [Next]_vars, NEW t \in started'
             PROVE  left'[t] # Off \/ (pc' = "callback" /\ timers'[cursor'] = t)
  BY DEF Rearmed, Armed
<1>c. Off < 0 /\ Off \in Int /\ Delay \subseteq Nat
  BY ConstantFacts
<1>t. started \subseteq Timer /\ left \in [Timer -> Int] /\ timers \in Seq(Timer)
  BY DEF Types
<1>1. CASE Tick
  BY <1>1, <1>t, AdvanceFacts DEF Tick, TickBusy, TickPoll, TickCheck, Rearmed, Armed
<1>2. ASSUME NEW u \in Timer, timer_new(u) \/ timer_free(u)
      PROVE  left'[t] # Off \/ (pc' = "callback" /\ timers'[cursor'] = t)
  BY <1>2, <1>t DEF timer_new, timer_free, Rearmed, Armed
<1>3. ASSUME NEW u \in Timer, NEW d \in Delay, timer_mod(u, d)
      PROVE  left'[t] # Off \/ (pc' = "callback" /\ timers'[cursor'] = t)
  BY <1>3, <1>c, <1>t DEF timer_mod, Rearmed, Armed
<1>4. CASE CheckDue
  BY <1>4, <1>t DEF CheckDue, Rearmed, Armed
<1>5. CASE Callback
  BY <1>5, <1>c, <1>t DEF Callback, Rearmed, Armed
<1>6. CASE StartPoll \/ PollTimesOut \/ PollEvent \/ StartCheck \/ CheckNotDue
  BY <1>6 DEF StartPoll, PollTimesOut, PollEvent, StartCheck, CheckNotDue, Rearmed, Armed
<1>7. CASE UNCHANGED vars
  BY <1>7 DEF vars, Rearmed, Armed
<1>. QED
  BY <1>1, <1>2, <1>3, <1>4, <1>5, <1>6, <1>7 DEF Next, Libslirp, Loop

\* The invariant gives the properties; a sleep that is over has reached its timer's
\* deadline, as the rest of a millisecond is less than one.
LEMMA IInvImplies == IInv => TypeOK /\ NoOversleep /\ NoEarlyWake /\ RearmIsKept
<1> SUFFICES ASSUME IInv PROVE TypeOK /\ NoOversleep /\ NoEarlyWake /\ RearmIsKept
  OBVIOUS
<1>1. TypeOK
  BY DEF IInv, Types, TypeOK
<1>2. NoEarlyWake
  <2> SUFFICES ASSUME pc = "poll", sleep = 0, ~asked
               PROVE  \E t \in ToSet(timers) : Armed(t) /\ left[t] <= 0
    BY DEF NoEarlyWake
  <2>1. PICK t \in ToSet(timers) :
          Armed(t) /\ (left[t] <= 0 \/ sleep >= left[t] * Ticks - sub)
    BY DEF IInv, WakesForTimer
  <2>2. left[t] \in Int /\ sub \in 0 .. Ticks - 1
    BY DEF IInv, Types, ToSet
  <2>3. left[t] * Ticks \in Int /\ (left[t] * Ticks < Ticks => left[t] <= 0)
    BY <2>2, TickFacts
  <2>. QED
    BY <2>1, <2>2, <2>3, ConstantFacts
<1>3. RearmIsKept
  BY DEF IInv, Rearmed, RearmIsKept
<1>. QED
  BY <1>1, <1>2, <1>3 DEF IInv

\* The invariant holds before any timer exists.
LEMMA IInvInit == Init => IInv
<1> SUFFICES ASSUME Init PROVE IInv
  OBVIOUS
<1>1. Types
  <2>1. timers \in Seq(Timer) /\ cursor \in Nat \ {0} /\ started \subseteq Timer
    BY DEF Init
  <2>2. left \in [Timer -> Int] /\ \A t \in Timer : left[t] >= Off /\ left[t] <= GintMax
    BY ConstantFacts DEF Init
  <2>3. sub \in 0 .. Ticks - 1 /\ age \in 0 .. MaxBusy /\ sleep \in Int /\ sleep >= Forever
    BY ConstantFacts DEF Init
  <2>4. asked \in BOOLEAN /\ pc = "busy"
    BY DEF Init
  <2>. QED
    BY <2>1, <2>2, <2>3, <2>4 DEF Types
<1>. QED
  BY <1>1 DEF Init, IInv, NoOversleep, WakesForTimer, Rearmed

\* The invariant holds in every reachable state, for any timers and delays that fit a
\* gint and however finely time passes.
LEMMA Invariant == Spec => []IInv
<1>1. IInv /\ [Next]_vars => IInv'
  BY TypesStep, NoOversleepStep, WakesStep, RearmedStep DEF IInv
<1>. QED
  BY <1>1, IInvInit, PTL DEF Spec

\* The list of timers, the deadlines and g_poll's timeout keep their types.
THEOREM TypeCorrect == Spec => []TypeOK
BY Invariant, IInvImplies, PTL

\* update_ra_timeout: g_poll sleeps no millisecond past the deadline of an armed timer.
THEOREM TimersOnTime == Spec => []NoOversleep
BY Invariant, IInvImplies, PTL

\* update_ra_timeout: when g_poll times out on account of a timer, one is due, so the
\* loop never wakes early and spins.
THEOREM WakesForATimer == Spec => []NoEarlyWake
BY Invariant, IInvImplies, PTL

\* check_ra_timeout disarms a timer before it runs its callback: what the callback
\* arms anew is kept.
THEOREM RearmSurvives == Spec => []RearmIsKept
BY Invariant, IInvImplies, PTL
=============================================================================
