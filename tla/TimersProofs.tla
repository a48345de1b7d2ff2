----------------------------- MODULE TimersProofs -----------------------------
(***************************************************************************)
(* Proofs about Timers, for every set of resources, all arguments and all  *)
(* bounds: IInv is inductive, and the safety properties follow.            *)
(***************************************************************************)
EXTENDS Timers, TLAPS

\* The clamped arguments are an interval of at least one tick and a limit the
\* count can reach.
LEMMA ClampedArguments ==
  ASSUME NEW delay \in Delays, NEW count \in Repeats
  PROVE  /\ Interval(delay) \in Nat \ {0}
         /\ RepeatsLeft(count) \in Nat
         /\ RepeatsLeft(count) > 0 => RepeatsLeft(count) < MaxFired
<1>1. delay \in Int
  BY TimersAssumption
<1>2. count \in Int /\ count < MaxFired
  BY TimersAssumption
<1> QED BY <1>1, <1>2 DEF Interval, RepeatsLeft, MinimumDelay

LEMMA Bounds == MaxTimer \in Nat /\ MaxFired \in Nat
  BY TimersAssumption

LEMMA InitInvariant == Init => IInv
<1> SUFFICES ASSUME Init PROVE IInv
  OBVIOUS
<1>1. TypeOK
  <2>1. next_timer_id \in 1..MaxTimer + 1
    BY Bounds DEF Init
  <2>2. /\ owner \in [Timer -> Resource \cup {NoResource}]
        /\ generation \in [Resource -> Nat \ {0}]
    BY DEF Init
  <2>3. /\ created \in [Timer -> Nat] /\ interval \in [Timer -> Nat \ {0}]
        /\ wait \in [Timer -> Nat] /\ repeats_left \in [Timer -> Nat]
        /\ limit \in [Timer -> Nat] /\ fired \in [Timer -> Nat]
    BY DEF Init
  <2> QED BY <2>1, <2>2, <2>3 DEF Init, TypeOK
<1>2. FreshInv
  BY DEF Init, FreshInv, Posted, Timer, NoTimer
<1>3. DispatchInv
  BY DEF Init, DispatchInv
<1>4. CountInv
  BY DEF Init, CountInv
<1>5. TimerInOnePlace /\ DroppedInv
  BY DEF Init, DroppedInv, TimerInOnePlace, Dispatched
<1>6. HandleInv
  BY DEF Init, HandleInv, Posted, Timer
<1> QED BY <1>1, <1>2, <1>3, <1>4, <1>5, <1>6 DEF IInv

LEMMA PostStep ==
  ASSUME IInv, NEW r \in Resource, NEW delay \in Delays, NEW count \in Repeats,
         post_timer(r, delay, count)
  PROVE  IInv'
<1> PICK n \in Timer : n = next_timer_id
  BY DEF post_timer
<1> DEFINE left == RepeatsLeft(count)
<1>1. /\ Interval(delay) \in Nat \ {0}
      /\ left \in Nat
      /\ left > 0 => left < MaxFired
  BY ClampedArguments
<1> HIDE DEF left
<1>2. /\ n \in Nat /\ n + 1 \in 1..MaxTimer + 1 /\ n # NoTimer
      /\ n \notin timers \cup due \cup cancelled \cup finished \cup cleared /\ n # firing
      /\ fired[n] = 0
  BY Bounds DEF IInv, TypeOK, FreshInv, Posted, Timer, NoTimer
<1>3. \A t \in Timer \cup {NoTimer} : t < n + 1 <=> t < n \/ t = n
  BY <1>2 DEF Timer, NoTimer
<1>4. /\ owner' = [owner EXCEPT ![n] = r]
      /\ created' = [created EXCEPT ![n] = generation[r]]
      /\ interval' = [interval EXCEPT ![n] = Interval(delay)]
      /\ wait' = [wait EXCEPT ![n] = Interval(delay)]
      /\ repeats_left' = [repeats_left EXCEPT ![n] = left]
      /\ limit' = [limit EXCEPT ![n] = left]
      /\ timers' = timers \cup {n}
      /\ next_timer_id' = n + 1
      /\ UNCHANGED <<due, firing, pumping, fired, cancelled, finished, elapsed, generation,
                     stopped, cleared>>
  BY DEF post_timer, handles, left
<1>5. TypeOK'
  BY <1>1, <1>2, <1>4 DEF IInv, TypeOK
<1>6. FreshInv'
  BY <1>2, <1>3, <1>4 DEF IInv, TypeOK, FreshInv, Posted
<1>7. DispatchInv'
  BY <1>2, <1>4 DEF IInv, TypeOK, DispatchInv, Stale
<1>8. CountInv'
  BY <1>1, <1>2, <1>4 DEF IInv, TypeOK, CountInv
<1>9. TimerInOnePlace' /\ DroppedInv'
  BY <1>2, <1>4 DEF IInv, TimerInOnePlace, DroppedInv, Dispatched
<1>10. HandleInv'
  BY <1>2, <1>3, <1>4 DEF IInv, HandleInv, Dispatched, Valid, Posted
<1> QED BY <1>5, <1>6, <1>7, <1>8, <1>9, <1>10 DEF IInv

\* Both ways of cancelling take a posted timer out of the vector and mark it.
LEMMA CancelStep ==
  ASSUME IInv, NEW t \in Timer, cancel(t) \/ cancel_timer(t)
  PROVE  IInv'
<1> USE DEF IInv, cancel, cancel_timer
<1>1. TypeOK'
  BY DEF TypeOK, data
<1>2. FreshInv'
  BY DEF FreshInv, Posted, Valid, data
<1>3. DispatchInv'
  BY DEF DispatchInv, Stale, data
<1>4. CountInv'
  BY DEF CountInv, data
<1>5. TimerInOnePlace' /\ DroppedInv'
  BY DEF DroppedInv, TimerInOnePlace, Dispatched
<1>6. HandleInv'
  BY DEF HandleInv, TimerInOnePlace, Dispatched, Valid, Posted
<1> QED BY <1>1, <1>2, <1>3, <1>4, <1>5, <1>6

LEMMA TickStep == ASSUME IInv, tick PROVE IInv'
<1> USE DEF IInv, tick, lists, data, handles
<1>1. TypeOK'
  BY Bounds DEF TypeOK
<1>2. FreshInv'
  BY DEF FreshInv, Posted
<1>3. DispatchInv'
  BY DEF DispatchInv, Stale
<1>4. CountInv'
  BY DEF CountInv
<1>5. TimerInOnePlace' /\ DroppedInv'
  BY DEF DroppedInv, TimerInOnePlace, Dispatched
<1>6. HandleInv'
  BY DEF HandleInv, Dispatched, Valid, Posted
<1> QED BY <1>1, <1>2, <1>3, <1>4, <1>5, <1>6

LEMMA SnapshotStep == ASSUME IInv, pump_snapshot PROVE IInv'
<1> USE DEF IInv, pump_snapshot, AfterSnapshot, StaleDropped, data
<1>1. TypeOK'
  BY Bounds DEF TypeOK
<1>2. FreshInv'
  BY DEF FreshInv, Posted
<1>3. DispatchInv'
  BY DEF DispatchInv, Stale
<1>4. CountInv'
  BY DEF CountInv
<1>5. TimerInOnePlace' /\ DroppedInv'
  BY DEF DroppedInv, TimerInOnePlace, DispatchInv, Dispatched, TypeOK, Timer, NoTimer
<1>6. HandleInv'
  BY DEF HandleInv, DispatchInv, Dispatched, Valid, Posted, TypeOK, Timer, NoTimer
<1> QED BY <1>1, <1>2, <1>3, <1>4, <1>5, <1>6

LEMMA FireStep == ASSUME IInv, pump_fire PROVE IInv'
<1> USE DEF IInv, pump_fire, data, handles
<1> PICK t \in due : /\ firing' = t /\ due' = due \ {t}
                     /\ fired' = [fired EXCEPT ![t] = IF @ < MaxFired THEN @ + 1 ELSE @]
  OBVIOUS
<1>0. t \in Timer /\ t # NoTimer
  BY DEF TypeOK, Timer, NoTimer
<1>1. TypeOK'
  BY <1>0, Bounds DEF TypeOK
<1>2. FreshInv'
  BY <1>0 DEF TypeOK, FreshInv, Posted, Timer
<1>3. DispatchInv'
  BY DEF DispatchInv, Stale
<1>4. CountInv'
  <2> SUFFICES ASSUME NEW u \in Timer, limit[u] > 0
               PROVE  /\ limit[u] < MaxFired
                      /\ fired'[u] <= limit[u]
                      /\ u \in timers \cup due' => repeats_left[u] >= 1
                                                   /\ fired'[u] + repeats_left[u] = limit[u]
                      /\ u = t => repeats_left[u] >= 1
                                  /\ fired'[u] + repeats_left[u] = limit[u] + 1
    BY DEF CountInv
  <2>1. CASE u = t
    BY <1>0, <2>1, Bounds DEF TypeOK, CountInv, TimerInOnePlace, Dispatched
  <2>2. CASE u # t
    BY <1>0, <2>2 DEF TypeOK, CountInv
  <2> QED BY <2>1, <2>2
<1>5. TimerInOnePlace' /\ DroppedInv'
  BY <1>0 DEF DroppedInv, TimerInOnePlace, Dispatched
<1>6. HandleInv'
  BY <1>0 DEF HandleInv, Dispatched, Valid, Posted, Timer, NoTimer
<1> QED BY <1>1, <1>2, <1>3, <1>4, <1>5, <1>6

LEMMA RearmStep == ASSUME IInv, pump_rearm PROVE IInv'
<1> USE DEF IInv, pump_rearm, Dropped, LastFire, data
<1>0. firing \in Timer /\ firing' = NoTimer /\ NoTimer \notin Timer
  BY DEF TypeOK, Timer, NoTimer
<1>1. TypeOK'
  BY <1>0 DEF TypeOK, Remaining
<1>2. FreshInv'
  <2>1. Posted(firing')
    BY <1>0 DEF TypeOK, Posted, NoTimer
  <2> QED BY <1>0, <2>1 DEF FreshInv, Posted
<1>3. DispatchInv'
  BY DEF DispatchInv, Stale
<1>4. CountInv'
  <2> SUFFICES ASSUME NEW u \in Timer, limit[u] > 0
               PROVE  /\ limit[u] < MaxFired
                      /\ fired[u] <= limit[u]
                      /\ u \in timers' \cup due =>
                           repeats_left'[u] >= 1 /\ fired[u] + repeats_left'[u] = limit[u]
    BY <1>0 DEF CountInv
  <2>1. CASE u = firing
    BY <1>0, <2>1 DEF TypeOK, CountInv, TimerInOnePlace, Dispatched
  <2>2. CASE u # firing
    BY <1>0, <2>2 DEF TypeOK, CountInv
  <2> QED BY <2>1, <2>2
<1>5. TimerInOnePlace' /\ DroppedInv'
  BY <1>0 DEF TypeOK, DroppedInv, TimerInOnePlace, Dispatched
<1>6. HandleInv'
  BY <1>0 DEF TypeOK, FreshInv, HandleInv, TimerInOnePlace, Dispatched, Valid, Posted
<1> QED BY <1>1, <1>2, <1>3, <1>4, <1>5, <1>6

LEMMA PumpEndStep == ASSUME IInv, pump_end PROVE IInv'
<1> USE DEF IInv, pump_end, data, handles
<1>1. TypeOK'
  BY Bounds DEF TypeOK
<1>2. FreshInv' /\ DispatchInv' /\ DroppedInv' /\ CountInv' /\ TimerInOnePlace' /\ HandleInv'
  BY DEF FreshInv, DispatchInv, DroppedInv, CountInv, TimerInOnePlace, HandleInv, Dispatched,
         Valid, Posted, Stale
<1> QED BY <1>1, <1>2

LEMMA ResourceStoppedStep ==
  ASSUME IInv, NEW r \in Resource, resource_stopped(r)
  PROVE  IInv'
<1> USE DEF IInv, resource_stopped, OwnedTimers, data
<1>1. TypeOK'
  BY DEF TypeOK
<1>2. FreshInv'
  BY DEF FreshInv, Posted
<1>3. DispatchInv'
  BY DEF TypeOK, DispatchInv, Stale
<1>4. CountInv'
  BY DEF CountInv
<1>5. TimerInOnePlace' /\ DroppedInv'
  BY DEF DroppedInv, TimerInOnePlace, Dispatched
<1>6. HandleInv'
  BY DEF HandleInv, TimerInOnePlace, Dispatched, Valid, Posted
<1> QED BY <1>1, <1>2, <1>3, <1>4, <1>5, <1>6

LEMMA StopStep == ASSUME IInv, stop PROVE IInv'
<1> USE DEF IInv, stop, data, handles
<1>1. TypeOK'
  BY DEF TypeOK
<1>2. FreshInv' /\ DispatchInv' /\ DroppedInv' /\ CountInv' /\ TimerInOnePlace' /\ HandleInv'
  BY DEF FreshInv, DispatchInv, DroppedInv, CountInv, TimerInOnePlace, HandleInv, Dispatched,
         Valid, Posted, Stale
<1> QED BY <1>1, <1>2

LEMMA NextInvariant == IInv /\ [Next]_vars => IInv'
<1> SUFFICES ASSUME IInv, [Next]_vars PROVE IInv'
  OBVIOUS
<1>1. CASE UNCHANGED vars
  BY <1>1 DEF IInv, TypeOK, FreshInv, DispatchInv, DroppedInv, CountInv, TimerInOnePlace, HandleInv,
              Dispatched, Valid, Posted, Stale, vars, lists, data, handles
<1>2. CASE Next
  BY <1>2, PostStep, CancelStep, TickStep, SnapshotStep, FireStep, RearmStep, PumpEndStep,
     ResourceStoppedStep, StopStep DEF Next, pump_step
<1> QED BY <1>1, <1>2

\* The inductive invariant holds in every reachable state.
THEOREM Invariant == Spec => []IInv
  BY InitInvariant, NextInvariant, PTL DEF Spec

\* Every variable keeps its type.
THEOREM TypeCorrect == Spec => []TypeOK
<1>1. IInv => TypeOK
  BY DEF IInv
<1> QED BY <1>1, Invariant, PTL

\* A timer is never in the scheduler's vector and in a dispatch at once.
THEOREM OnePlace == Spec => []TimerInOnePlace
<1>1. IInv => TimerInOnePlace
  BY DEF IInv
<1> QED BY <1>1, Invariant, PTL

\* A limited timer fires at most repeat_count times.
THEOREM LimitHolds == Spec => []FireLimit
<1>1. IInv => FireLimit
  BY DEF IInv, CountInv, FireLimit
<1> QED BY <1>1, Invariant, PTL

\* No valid handle without a timer, and no timer that fires again in a generation
\* that goes on without a valid handle, unless it was cancelled or stop() cleared it.
THEOREM HandleTruth == Spec => []HandleTellsTruth
<1>1. ASSUME IInv PROVE HandleTellsTruth
  <2>1. ASSUME NEW t \in Timer, FiresAgain(t) PROVE t \in timers \cup Dispatched
    BY <2>1 DEF FiresAgain, Dispatched
  <2> QED BY <1>1, <2>1 DEF IInv, HandleInv, HandleTellsTruth
<1> QED BY <1>1, Invariant, PTL

\* Outside the dispatch that already collected it, a dropped timer is silent.
THEOREM DroppedIsSilent == Spec => DroppedStaysSilent
<1> DEFINE Gone == cancelled \cup finished \cup cleared
<1>1. ASSUME IInv, [Next]_vars, NEW t \in Gone, t \notin Dispatched
      PROVE  t \notin timers' \cup Dispatched'
  <2>1. t \in Timer /\ t < next_timer_id /\ t # NoTimer
    BY <1>1 DEF IInv, TypeOK, FreshInv, Posted, Timer, NoTimer
  <2>2. t \notin timers
    BY <1>1, <2>1 DEF IInv, DroppedInv, HandleInv, Valid, Posted
  <2>3. CASE UNCHANGED <<timers, due, firing>>
    BY <1>1, <2>2, <2>3 DEF Dispatched
  <2>4. ASSUME NEW r \in Resource, NEW delay \in Delays, NEW count \in Repeats,
               post_timer(r, delay, count)
        PROVE  t \notin timers' \cup Dispatched'
    <3>1. t # next_timer_id
      BY <1>1, <2>1 DEF IInv, TypeOK, Timer
    <3>2. timers' = timers \cup {next_timer_id} /\ UNCHANGED <<due, firing>>
      BY <2>4 DEF post_timer
    <3> QED BY <1>1, <2>2, <3>1, <3>2 DEF Dispatched
  <2>5. ASSUME NEW u \in Timer, cancel(u) \/ cancel_timer(u)
        PROVE  t \notin timers' \cup Dispatched'
    BY <1>1, <2>2, <2>5 DEF cancel, cancel_timer, Dispatched
  <2>6. CASE pump_snapshot
    BY <1>1, <2>2, <2>6 DEF pump_snapshot, AfterSnapshot, Dispatched
  <2>7. CASE pump_fire
    BY <1>1, <2>2, <2>7 DEF pump_fire, Dispatched
  <2>8. CASE pump_rearm
    BY <1>1, <2>1, <2>2, <2>8 DEF pump_rearm, Dispatched
  <2>9. ASSUME NEW r \in Resource, resource_stopped(r)
        PROVE  t \notin timers' \cup Dispatched'
    BY <1>1, <2>2, <2>9 DEF resource_stopped, Dispatched
  <2>10. CASE stop
    BY <1>1, <2>2, <2>10 DEF stop, Dispatched
  <2> QED BY <1>1, <2>3, <2>4, <2>5, <2>6, <2>7, <2>8, <2>9, <2>10
          DEF Next, pump_step, pump_end, tick, vars, lists
<1>2. IInv /\ [Next]_vars => [\A t \in Gone : t \notin Dispatched => t \notin timers' \cup Dispatched']_vars
  BY <1>1
<1> QED BY <1>2, Invariant, PTL DEF Spec, DroppedStaysSilent

\* A timer fires for the generation it was posted in, unless that generation
\* ended during the very dispatch that had already collected the timer.
THEOREM RestartIsRespected == Spec => NoFireAcrossRestart
<1> DEFINE Good(t) == Fires(t) => created[t] = generation[owner[t]] \/ owner[t] \in stopped
<1>1. ASSUME IInv, [Next]_vars, NEW t \in Timer PROVE Good(t)
  <2>1. Fires(t) => t \in due
    BY <1>1 DEF Fires, IInv, Next, vars, lists, NoTimer, Timer, post_timer, cancel, cancel_timer, tick,
                pump_snapshot, pump_step, pump_fire, pump_rearm, pump_end, resource_stopped, stop
  <2> QED BY <1>1, <2>1 DEF IInv, DispatchInv, Stale
<1>2. IInv /\ [Next]_vars => [\A t \in Timer : Good(t)]_vars
  BY <1>1
<1> QED BY <1>2, Invariant, PTL DEF Spec, NoFireAcrossRestart

=============================================================================
