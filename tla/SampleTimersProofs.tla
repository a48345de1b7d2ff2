-------------------------- MODULE SampleTimersProofs ---------------------------
(***************************************************************************)
(* Proofs about SampleTimers, for every set of resources, every delay a    *)
(* script may pass and every bound.  The composition implements Timers and *)
(* Callbacks, so the invariants proved of each hold in it; LinkInv says    *)
(* how their states belong together, and the safety of the timer functions *)
(* follows from the three.                                                 *)
(***************************************************************************)
EXTENDS SampleTimers, TLAPS

TimersThms == INSTANCE TimersProofs WITH
  Delays <- {AsInt(d) : d \in {e \in LuaDelays : AsInt(e) >= 0}}, Repeats <- Counts

CallbacksThms == INSTANCE CallbacksProofs WITH Callback <- 1..MaxTimer, MaxBind <- MaxTimer

\* What the components assume of their parameters holds of those given here.
LEMMA TimersArguments == TimersThms!TimersAssumption
<1>1. \A d \in LuaDelays : AsInt(d) \in Int /\ AsInt(d) <= MaxElapsed
  BY SampleTimersAssumption
<1> QED BY <1>1, SampleTimersAssumption DEF TimersThms!TimersAssumption

LEMMA CallbacksArguments == CallbacksThms!CallbackAssumption
BY SampleTimersAssumption DEF CallbacksThms!CallbackAssumption

-----------------------------------------------------------------------------
(* The composition implements its two components.                          *)

\* A delay that checked_delay() accepts is one Timers is instantiated with.
LEMMA StepTimers == [Next]_vars => [T!Next]_(T!vars)
<1> SUFFICES ASSUME [Next]_vars PROVE T!Next \/ UNCHANGED T!vars
  OBVIOUS
<1>1. ASSUME UNCHANGED <<schedulerVars, generation>> PROVE UNCHANGED T!vars
  BY <1>1 DEF schedulerVars, T!vars, T!lists, T!data, T!handles
<1>2. ASSUME NEW r \in Resource, NEW delay \in LuaDelays, NEW count \in Counts,
             sample_timer(r, delay, count)
      PROVE  T!Next
  BY <1>2 DEF sample_timer, IsAccepted, T!Next
<1>3. ASSUME NEW r \in Resource, NEW t \in T!Timer, sample_cancel(r, t) PROVE T!Next
  BY <1>3 DEF sample_cancel, T!Next
<1>4. CASE tick \/ pump_snapshot \/ pump_fire \/ pump_rearm \/ pump_end
  BY <1>4 DEF tick, pump_snapshot, pump_fire, pump_rearm, pump_end, T!Next, T!pump_step
<1>5. ASSUME NEW r \in Resource, resource_stopped(r) PROVE T!Next
  BY <1>5 DEF resource_stopped, TimersStop, T!Next
<1>6. CASE shutdown_scheduler
  BY <1>6 DEF shutdown_scheduler, T!Next
<1>7. CASE hook_end \/ vm_closed \/ shutdown_callbacks \/ shutdown_end
  BY <1>7, <1>1 DEF hook_end, CallbacksStop, vm_closed, shutdown_callbacks, shutdown_end,
     C!invalidate_resource_callbacks, C!vm_closed, C!release_all_callbacks, C!unload
<1>8. ASSUME NEW t \in T!Timer, destroy_closure(t) PROVE UNCHANGED T!vars
  BY <1>8, <1>1 DEF destroy_closure, C!destroy
<1>9. ASSUME NEW r \in Resource, resource_started(r) PROVE UNCHANGED T!vars
  BY <1>9, <1>1 DEF resource_started, C!resource_started
<1>10. CASE UNCHANGED vars
  BY <1>10, <1>1 DEF vars
<1> QED BY <1>2, <1>3, <1>4, <1>5, <1>6, <1>7, <1>8, <1>9, <1>10 DEF Next

\* The timers meet the callbacks as the scheduler's own specification allows.
THEOREM TimersImplemented == Spec => ImplementsTimers
<1>1. Init => T!Init
  BY DEF Init
<1> QED BY <1>1, StepTimers, PTL DEF Spec, ImplementsTimers, T!Spec

-----------------------------------------------------------------------------
(* What is proved of the components holds here.                            *)

\* The two names of each component's specification mean the same.
LEMMA SameTimers ==
  /\ T!Init => TimersThms!Init
  /\ [T!Next]_(T!vars) => [TimersThms!Next]_(TimersThms!vars)
  /\ TimersThms!TypeOK => T!TypeOK
<1>1. T!Init => TimersThms!Init
  BY DEF T!Init, TimersThms!Init, T!Timer, TimersThms!Timer, T!NoTimer, TimersThms!NoTimer
<1>2. T!Next => TimersThms!Next
  BY DEF T!Next, TimersThms!Next, T!post_timer, TimersThms!post_timer, T!cancel_timer,
     TimersThms!cancel_timer, T!cancel, TimersThms!cancel, T!tick, TimersThms!tick,
     T!IsDue, TimersThms!IsDue, T!Stale, TimersThms!Stale, T!StaleDropped,
     TimersThms!StaleDropped, T!AfterSnapshot, TimersThms!AfterSnapshot, T!pump_snapshot,
     TimersThms!pump_snapshot, T!pump_fire, TimersThms!pump_fire, T!Dropped,
     TimersThms!Dropped, T!LastFire, TimersThms!LastFire, T!Remaining,
     TimersThms!Remaining, T!pump_rearm, TimersThms!pump_rearm, T!pump_end,
     TimersThms!pump_end, T!OwnedTimers, TimersThms!OwnedTimers, T!resource_stopped,
     TimersThms!resource_stopped, T!stop, TimersThms!stop, T!pump_step,
     TimersThms!pump_step, T!Timer, TimersThms!Timer, T!NoTimer, TimersThms!NoTimer,
     T!Interruptible, TimersThms!Interruptible, T!Posted, TimersThms!Posted, T!Valid,
     TimersThms!Valid, T!Interval, TimersThms!Interval, T!RepeatsLeft,
     TimersThms!RepeatsLeft, T!MinimumDelay, TimersThms!MinimumDelay, T!lists,
     TimersThms!lists, T!data, TimersThms!data, T!handles, TimersThms!handles
<1>3. UNCHANGED T!vars => UNCHANGED TimersThms!vars
  BY DEF T!vars, TimersThms!vars, T!lists, TimersThms!lists, T!data, TimersThms!data,
     T!handles, TimersThms!handles
<1>4. TimersThms!TypeOK => T!TypeOK
  BY DEF T!TypeOK, TimersThms!TypeOK, T!Timer, TimersThms!Timer, T!NoTimer, TimersThms!NoTimer
<1> QED BY <1>1, <1>2, <1>3, <1>4

LEMMA SameCallbacks ==
  /\ C!Init => CallbacksThms!Init
  /\ [C!Next]_(C!vars) => [CallbacksThms!Next]_(CallbacksThms!vars)
  /\ CallbacksThms!TypeOK => C!TypeOK
<1>1. C!Init => CallbacksThms!Init
  BY DEF C!Init, CallbacksThms!Init, C!NoEntry, CallbacksThms!NoEntry, C!NoSlots,
     CallbacksThms!NoSlots, C!EmptyHandle, CallbacksThms!EmptyHandle, C!NoFunction,
     CallbacksThms!NoFunction
<1>2. C!Next => CallbacksThms!Next
  BY DEF C!Next, CallbacksThms!Next, C!from_stack, CallbacksThms!from_stack, C!move,
     CallbacksThms!move, C!destroy, CallbacksThms!destroy, C!call, CallbacksThms!call,
     C!resource_started, CallbacksThms!resource_started, C!resource_stopped,
     CallbacksThms!resource_stopped, C!invalidate_resource_callbacks,
     CallbacksThms!invalidate_resource_callbacks, C!vm_closed, CallbacksThms!vm_closed,
     C!stop, CallbacksThms!stop, C!release_all_callbacks,
     CallbacksThms!release_all_callbacks, C!unload, CallbacksThms!unload, C!Function,
     CallbacksThms!Function, C!NoFunction, CallbacksThms!NoFunction, C!NoEntry,
     CallbacksThms!NoEntry, C!EmptyHandle, CallbacksThms!EmptyHandle, C!NoSlots,
     CallbacksThms!NoSlots, C!Empty, CallbacksThms!Empty, C!Manager,
     CallbacksThms!Manager, C!Entry, CallbacksThms!Entry, C!Slot, CallbacksThms!Slot,
     C!OwnsEntry, CallbacksThms!OwnsEntry, C!Unrefs, CallbacksThms!Unrefs, C!untrack_ref,
     CallbacksThms!untrack_ref, C!release, CallbacksThms!release, C!MovedFrom,
     CallbacksThms!MovedFrom, C!RefIsDead, CallbacksThms!RefIsDead, C!MayCall,
     CallbacksThms!MayCall, C!Invalidated, CallbacksThms!Invalidated, C!Reachable,
     CallbacksThms!Reachable
<1>3. UNCHANGED C!vars => UNCHANGED CallbacksThms!vars
  BY DEF C!vars, CallbacksThms!vars
<1>4. CallbacksThms!TypeOK => C!TypeOK
  BY DEF C!TypeOK, CallbacksThms!TypeOK, C!Handle, CallbacksThms!Handle, C!EmptyHandle,
     CallbacksThms!EmptyHandle, C!TrackedRef, CallbacksThms!TrackedRef, C!Function,
     CallbacksThms!Function, C!NoFunction, CallbacksThms!NoFunction, C!Phase,
     CallbacksThms!Phase
<1> QED BY <1>1, <1>2, <1>3, <1>4

\* The invariant of Timers.
LEMMA TimersInvariant == Spec => []TimersThms!IInv
<1>1. TimersThms!Spec => []TimersThms!IInv
  BY TimersArguments, TimersThms!Invariant
<1>2. T!Spec => TimersThms!Spec
  BY SameTimers, PTL DEF T!Spec, TimersThms!Spec
<1> QED BY <1>1, <1>2, TimersImplemented, PTL DEF ImplementsTimers

LEMMA TimersTypes == TimersThms!IInv => T!TypeOK
BY SameTimers DEF TimersThms!IInv

\* The completion that runs is one of a timer, and so is its Callback.
LEMMA StepCallbacks ==
  ASSUME T!TypeOK, [Next]_vars
  PROVE  [C!Next]_(C!vars)
<1>1. ASSUME UNCHANGED <<callbackVars, generation>> PROVE UNCHANGED C!vars
  BY <1>1 DEF callbackVars, C!vars
<1>2. ASSUME NEW r \in Resource, NEW delay \in LuaDelays, NEW count \in Counts,
             sample_timer(r, delay, count)
      PROVE  C!Next
  <2>1. next_timer_id \in 1..MaxTimer /\ C!from_stack(next_timer_id, r)
    BY <1>2 DEF sample_timer, T!post_timer, T!Timer
  <2> QED BY <2>1 DEF C!Next
<1>3. ASSUME NEW r \in Resource, NEW t \in T!Timer, sample_cancel(r, t) PROVE UNCHANGED C!vars
  BY <1>3, <1>1 DEF sample_cancel, T!cancel
<1>4. CASE tick \/ pump_snapshot \/ pump_rearm \/ pump_end
  BY <1>4, <1>1 DEF tick, pump_snapshot, pump_rearm, pump_end,
     T!tick, T!pump_snapshot, T!pump_rearm, T!pump_end
<1>5. CASE pump_fire
  <2>1. CASE C!call(firing')
    <3>1. firing' \in 1..MaxTimer
      BY <1>5 DEF pump_fire, T!pump_fire, T!TypeOK, T!Timer
    <3> QED BY <2>1, <3>1 DEF C!Next
  <2>2. CASE UNCHANGED callbackVars
    BY <2>2, <1>5, <1>1 DEF pump_fire
  <2> QED BY <1>5, <2>1, <2>2 DEF pump_fire
<1>6. ASSUME NEW t \in T!Timer, destroy_closure(t) PROVE C!Next
  BY <1>6 DEF destroy_closure, T!Timer, C!Next
<1>7. ASSUME NEW r \in Resource, resource_started(r) \/ resource_stopped(r) PROVE C!Next
  BY <1>7 DEF resource_started, resource_stopped, C!Next
<1>8. CASE hook_end \/ vm_closed \/ shutdown_scheduler \/ shutdown_callbacks \/ shutdown_end
  BY <1>8 DEF hook_end, CallbacksStop, vm_closed, shutdown_scheduler, shutdown_callbacks,
     shutdown_end, C!Next
<1>9. CASE UNCHANGED vars
  BY <1>9, <1>1 DEF vars
<1> QED BY <1>2, <1>3, <1>4, <1>5, <1>6, <1>7, <1>8, <1>9 DEF Next

\* The callbacks meet the timers as their own specification allows.
THEOREM CallbacksImplemented == Spec => ImplementsCallbacks
<1>1. Init => C!Init
  BY DEF Init
<1>2. TimersThms!IInv /\ [Next]_vars => [C!Next]_(C!vars)
  BY TimersTypes, StepCallbacks
<1> QED BY <1>1, <1>2, TimersInvariant, PTL DEF Spec, ImplementsCallbacks, C!Spec

\* The invariant of Callbacks.
LEMMA CallbacksInvariant == Spec => []CallbacksThms!IInv
<1>1. CallbacksThms!Spec => []CallbacksThms!IInv
  BY CallbacksArguments, CallbacksThms!Invariant
<1>2. C!Spec => CallbacksThms!Spec
  BY SameCallbacks, PTL DEF C!Spec, CallbacksThms!Spec
<1> QED BY <1>1, <1>2, CallbacksImplemented, PTL DEF ImplementsCallbacks

-----------------------------------------------------------------------------
(* How the states of the components belong together.                       *)

\* What the invariants of the components say to this module.
LEMMA TimersFacts ==
  ASSUME TimersThms!IInv
  PROVE  T!TypeOK /\ (~pumping => due = {} /\ firing = T!NoTimer)
BY TimersTypes DEF TimersThms!IInv, TimersThms!DispatchInv, TimersThms!NoTimer, T!NoTimer

LEMMA CallbacksFacts ==
  ASSUME CallbacksThms!IInv
  PROVE  /\ C!TypeOK
         /\ phase = "running" => \A t \in T!Timer :
              /\ ~C!Empty(t) /\ callback[t].resource \in up
              /\ callback[t].generation = generation[callback[t].resource]
              => CanCall(t)
         /\ phase = "running" => \A r \in Resource, ref \in Ref :
              registry[r][ref] # C!NoFunction =>
                \E t \in T!Timer : ~C!Empty(t) /\ callback[t].resource = r /\ callback[t].ref = ref
<1>1. C!TypeOK
  BY SameCallbacks DEF CallbacksThms!IInv
<1>2. ASSUME NEW t \in T!Timer, ~C!Empty(t)
      PROVE  /\ callback[t] \in CallbacksThms!Held
             /\ callback[t].function # C!NoFunction
  BY <1>1, <1>2 DEF T!Timer, C!TypeOK, C!Handle, C!Function, C!NoFunction, C!Empty,
     C!EmptyHandle, CallbacksThms!Held, CallbacksThms!Empty, CallbacksThms!EmptyHandle,
     CallbacksThms!NoFunction
<1>3. ASSUME phase = "running", NEW t \in T!Timer, ~C!Empty(t), callback[t].resource \in up,
             callback[t].generation = generation[callback[t].resource]
      PROVE  CanCall(t)
  <2>1. /\ CallbacksThms!OwnsEntry(callback[t]) /\ ~CallbacksThms!Entry(callback[t]).dead
        /\ CallbacksThms!Slot(callback[t]) = callback[t].function
    BY <1>2, <1>3 DEF CallbacksThms!IInv, CallbacksThms!SlotInv
  <2> QED
    BY <2>1, <1>2, <1>3 DEF CanCall, C!MayCall, C!RefIsDead, C!Manager, C!Entry, C!Slot,
       CallbacksThms!OwnsEntry, CallbacksThms!Entry, CallbacksThms!Slot
<1>4. ASSUME phase = "running", NEW r \in Resource, NEW ref \in Ref,
             registry[r][ref] # C!NoFunction
      PROVE  \E t \in T!Timer : ~C!Empty(t) /\ callback[t].resource = r /\ callback[t].ref = ref
  <2>1. PICK h \in CallbacksThms!Held : h.resource = r /\ h.ref = ref
    BY <1>4 DEF CallbacksThms!IInv, CallbacksThms!SlotInv, CallbacksThms!NoFunction, C!NoFunction
  <2> QED BY <2>1 DEF CallbacksThms!Held, CallbacksThms!Empty, CallbacksThms!EmptyHandle,
          CallbacksThms!NoFunction, C!Empty, C!EmptyHandle, C!NoFunction, T!Timer
<1> QED BY <1>1, <1>3, <1>4

LEMMA InitLink == Init => LinkInv
BY DEF Init, T!Init, C!Init, LinkInv, Held, C!Empty, T!Timer, T!NoTimer

\* The step that posts a timer gives it its Callback and its handle at once.
LEMMA SampleTimerLink ==
  ASSUME T!TypeOK, C!TypeOK, LinkInv, NEW r \in Resource, NEW delay \in LuaDelays,
         NEW count \in Counts, sample_timer(r, delay, count)
  PROVE  LinkInv'
<1> PICK n \in T!Timer : n = next_timer_id
  BY DEF sample_timer, T!post_timer
<1>1. /\ owner' = [owner EXCEPT ![n] = r] /\ created' = [created EXCEPT ![n] = generation[r]]
      /\ timers' = timers \cup {n} /\ next_timer_id' = n + 1
      /\ stored' = [stored EXCEPT ![r] = @ \cup {n}]
      /\ UNCHANGED <<due, firing, pumping, generation, spent>>
  BY DEF sample_timer, T!post_timer
<1> PICK ref \in Ref :
      callback' = [callback EXCEPT ![n] = [resource |-> r, ref |-> ref, generation |-> generation[r],
                                            function |-> next_function]]
  BY DEF sample_timer, C!from_stack
<1> DEFINE h == [resource |-> r, ref |-> ref, generation |-> generation[r], function |-> next_function]
<1>2. callback' = [callback EXCEPT ![n] = h] /\ h.resource = r /\ h.generation = generation[r]
  OBVIOUS
<1>3. h # C!EmptyHandle
  BY <1>2, SampleTimersAssumption DEF C!EmptyHandle
<1> HIDE DEF h
<1>4. callback'[n] = h /\ \A t \in T!Timer : t # n => callback'[t] = callback[t]
  BY <1>2 DEF C!TypeOK, T!Timer
<1>5. n \in Nat /\ \A t \in T!Timer : T!Posted(t) => T!Posted(t)' /\ t # n
  BY <1>1, SampleTimersAssumption DEF T!Posted, T!Timer
<1>6. T!Posted(n)'
  BY <1>1, <1>5 DEF T!Posted
<1> QED
  BY <1>1, <1>2, <1>3, <1>4, <1>5, <1>6 DEF LinkInv, Held, C!Empty, T!TypeOK

\* Where no Callback changes hands, no vector gains a timer and no Store an id,
\* the link is kept.
LEMMA KeepLink ==
  ASSUME LinkInv, UNCHANGED <<callback, next_timer_id, owner, created>>,
         Held' \cap T!Timer \subseteq Held,
         spent' \subseteq T!Timer, ~pumping' => spent' = {},
         stored' \in [Resource -> SUBSET T!Timer],
         \A r \in Resource : \A t \in stored'[r] : t \in stored[r] /\ generation'[r] = generation[r]
  PROVE  LinkInv'
BY DEF LinkInv, C!Empty, T!Posted

LEMMA PulseLink ==
  ASSUME T!TypeOK, ~pumping => due = {} /\ firing = T!NoTimer, LinkInv,
         tick \/ pump_snapshot \/ pump_fire \/ pump_rearm \/ pump_end
  PROVE  LinkInv'
<1>1. UNCHANGED <<callback, next_timer_id, owner, created, generation, stored>>
  BY DEF tick, pump_snapshot, pump_fire, pump_rearm, pump_end, callbackVars, sampleVars, C!call,
     T!tick, T!pump_snapshot, T!pump_fire, T!pump_rearm, T!pump_end, T!lists, T!data
<1>2. Held' \cap T!Timer \subseteq Held
  <2>1. CASE tick
    BY <2>1 DEF tick, sampleVars, T!tick, T!lists, Held
  <2>2. CASE pump_snapshot
    BY <2>2 DEF pump_snapshot, sampleVars, T!pump_snapshot, T!AfterSnapshot, Held
  <2>3. CASE pump_fire
    BY <2>3 DEF pump_fire, sampleVars, T!pump_fire, Held
  <2>4. CASE pump_rearm
    <3>1. timers' \subseteq timers \cup {firing} /\ spent' \subseteq spent \cup {firing}
          /\ due' = due /\ firing' = T!NoTimer
      BY <2>4 DEF pump_rearm, T!pump_rearm
    <3> QED BY <3>1, SampleTimersAssumption DEF Held, T!Timer, T!NoTimer
  <2>5. CASE pump_end
    BY <2>5 DEF pump_end, T!pump_end, Held
  <2> QED BY <2>1, <2>2, <2>3, <2>4, <2>5
<1>3. spent' \subseteq T!Timer /\ (~pumping' => spent' = {})
  <2>1. CASE tick \/ pump_snapshot \/ pump_fire
    BY <2>1 DEF tick, pump_snapshot, pump_fire, sampleVars, T!tick, T!pump_snapshot, T!pump_fire,
       T!lists, LinkInv
  <2>2. CASE pump_rearm
    BY <2>2 DEF pump_rearm, T!pump_rearm, T!TypeOK, LinkInv
  <2>3. CASE pump_end
    BY <2>3 DEF pump_end
  <2> QED BY <2>1, <2>2, <2>3
<1>4. stored' \in [Resource -> SUBSET T!Timer]
  BY <1>1 DEF LinkInv
<1> QED BY <1>1, <1>2, <1>3, <1>4, KeepLink

\* The hooks and cancels only let go.
LEMMA LetGoLink ==
  ASSUME LinkInv,
         \/ \E r \in Resource, t \in T!Timer : sample_cancel(r, t)
         \/ \E r \in Resource : resource_started(r) \/ resource_stopped(r)
         \/ hook_end \/ vm_closed \/ shutdown_scheduler \/ shutdown_callbacks \/ shutdown_end
  PROVE  LinkInv'
<1> USE DEF LinkInv
<1>1. ASSUME NEW r \in Resource, NEW t \in T!Timer, sample_cancel(r, t) PROVE LinkInv'
  <2>1. /\ UNCHANGED <<callback, next_timer_id, owner, created, generation, spent, due, firing, pumping>>
        /\ timers' \subseteq timers
        /\ stored' = [stored EXCEPT ![r] = @ \ {t}]
    BY <1>1 DEF sample_cancel, T!cancel, T!data, callbackVars
  <2> HIDE DEF LinkInv
  <2>2. /\ stored' \in [Resource -> SUBSET T!Timer] /\ spent \subseteq T!Timer
        /\ ~pumping => spent = {}
        /\ \A q \in Resource : stored'[q] \subseteq stored[q]
    BY <2>1 DEF LinkInv
  <2> QED BY <2>1, <2>2, KeepLink DEF Held
<1>2. ASSUME NEW r \in Resource, resource_stopped(r) PROVE LinkInv'
  <2>1. /\ UNCHANGED <<callback, next_timer_id, owner, created, spent, due, firing, pumping>>
        /\ timers' \subseteq timers
        /\ generation' = [generation EXCEPT ![r] = @ + 1]
        /\ stored' = [stored EXCEPT ![r] = {}]
    BY <1>2 DEF resource_stopped, TimersStop, T!resource_stopped, C!resource_stopped, T!data, Erased
  <2>2. /\ stored' \in [Resource -> SUBSET T!Timer]
        /\ \A q \in Resource : stored'[q] = IF q = r THEN {} ELSE stored[q]
    BY <2>1
  <2>3. \A q \in Resource : q # r => generation'[q] = generation[q]
    BY <1>2, <2>1 DEF resource_stopped, C!resource_stopped
  <2> HIDE DEF LinkInv
  <2>4. spent \subseteq T!Timer /\ (~pumping => spent = {})
    BY DEF LinkInv
  <2> QED BY <2>1, <2>2, <2>3, <2>4, KeepLink DEF Held
<1>3. CASE \/ \E r \in Resource : resource_started(r)
           \/ hook_end \/ vm_closed \/ shutdown_scheduler \/ shutdown_callbacks \/ shutdown_end
  <2>1. /\ UNCHANGED <<callback, next_timer_id, owner, created, spent, due, firing, pumping, generation>>
        /\ timers' \subseteq timers
        /\ \/ UNCHANGED stored
           \/ stored' = [r \in Resource |-> {}]
    BY <1>3 DEF resource_started, hook_end, CallbacksStop, vm_closed, shutdown_scheduler,
       shutdown_callbacks, shutdown_end, C!resource_started, C!invalidate_resource_callbacks,
       C!vm_closed, C!stop, C!release_all_callbacks, C!unload, T!stop, T!data,
       schedulerVars, callbackVars, sampleVars
  <2>2. /\ stored' \in [Resource -> SUBSET T!Timer]
        /\ \A q \in Resource : stored'[q] \subseteq stored[q]
    BY <2>1
  <2> HIDE DEF LinkInv
  <2>3. spent \subseteq T!Timer /\ (~pumping => spent = {})
    BY DEF LinkInv
  <2> QED BY <2>1, <2>2, <2>3, KeepLink DEF Held
<1> QED BY <1>1, <1>2, <1>3

\* A closure dies when no vector holds its timer any more.
LEMMA DestroyLink ==
  ASSUME C!TypeOK, LinkInv, NEW t \in T!Timer, destroy_closure(t)
  PROVE  LinkInv'
<1>1. /\ t \notin Held /\ callback' = [callback EXCEPT ![t] = C!EmptyHandle]
      /\ UNCHANGED <<timers, due, firing, spent, stored, next_timer_id, owner, created, generation,
                     pumping>>
  BY DEF destroy_closure, Orphans, C!destroy, schedulerVars, sampleVars
<1>2. callback'[t] = C!EmptyHandle /\ \A u \in T!Timer : u # t => callback'[u] = callback[u]
  BY <1>1 DEF C!TypeOK, T!Timer
<1> QED BY <1>1, <1>2 DEF LinkInv, Held, C!Empty, T!Posted

LEMMA NextLink ==
  ASSUME TimersThms!IInv, CallbacksThms!IInv, LinkInv, [Next]_vars
  PROVE  LinkInv'
<1>1. /\ T!TypeOK /\ C!TypeOK
      /\ ~pumping => due = {} /\ firing = T!NoTimer
  BY TimersFacts, CallbacksFacts
<1>2. CASE UNCHANGED vars
  BY <1>2 DEF vars, schedulerVars, callbackVars, sampleVars, LinkInv, Held, C!Empty, T!Posted
<1> QED
  BY <1>1, <1>2, SampleTimerLink, PulseLink, LetGoLink, DestroyLink DEF Next

\* Timers, Callbacks and handles belong together in every reachable state.
THEOREM Link == Spec => []LinkInv
<1>1. TimersThms!IInv /\ CallbacksThms!IInv /\ LinkInv /\ [Next]_vars => LinkInv'
  BY NextLink
<1> QED BY <1>1, InitLink, TimersInvariant, CallbacksInvariant, PTL DEF Spec

-----------------------------------------------------------------------------
(* The safety properties the run checks.                                   *)

\* Every variable keeps its type.
THEOREM TypeCorrect == Spec => []TypeOK
<1>1. TimersThms!IInv /\ CallbacksThms!IInv /\ LinkInv => TypeOK
  BY TimersFacts, CallbacksFacts DEF TypeOK, LinkInv
<1> QED BY <1>1, TimersInvariant, CallbacksInvariant, Link, PTL

\* An id of a Store names a timer of the VM that runs now.
THEOREM HandlesAreFresh == Spec => []StoreIsFresh
<1>1. LinkInv => StoreIsFresh
  BY DEF LinkInv, StoreIsFresh
<1> QED BY <1>1, Link, PTL

\* A timer that is scheduled for a running VM can call its function.
THEOREM TimersCanCall == Spec => []ScheduledTimerCanCall
<1>1. ASSUME TimersThms!IInv, CallbacksThms!IInv, LinkInv PROVE ScheduledTimerCanCall
  <2> SUFFICES ASSUME phase = "running", NEW t \in timers \cup due,
                      owner[t] \in up, created[t] = generation[owner[t]]
               PROVE  CanCall(t)
    BY DEF ScheduledTimerCanCall
  <2>1. t \in T!Timer /\ t \in Held
    BY <1>1, TimersFacts DEF T!TypeOK, Held
  <2>2. ~C!Empty(t) /\ callback[t].resource = owner[t] /\ callback[t].generation = created[t]
    BY <1>1, <2>1 DEF LinkInv
  <2> QED BY <1>1, <2>1, <2>2, CallbacksFacts
<1> QED BY <1>1, TimersInvariant, CallbacksInvariant, Link, PTL

\* What is pinned in a running VM belongs to a scheduled timer.
THEOREM NothingLeaks == Spec => []PinnedMeansScheduled
<1>1. ASSUME TimersThms!IInv, CallbacksThms!IInv, LinkInv PROVE PinnedMeansScheduled
  <2> SUFFICES ASSUME Settled, ~pumping, NEW r \in up, NEW ref \in Ref,
                      registry[r][ref] # C!NoFunction
               PROVE  \E t \in timers : owner[t] = r /\ callback[t].ref = ref
    BY DEF PinnedMeansScheduled
  <2>1. r \in Resource /\ phase = "running" /\ Orphans = {}
    BY <1>1, CallbacksFacts DEF C!TypeOK, Settled
  <2>2. PICK t \in T!Timer : ~C!Empty(t) /\ callback[t].resource = r /\ callback[t].ref = ref
    BY <1>1, <2>1, CallbacksFacts
  <2>3. t \in Held
    BY <2>1, <2>2 DEF Orphans
  <2>4. due = {} /\ firing \notin T!Timer /\ spent = {}
    BY <1>1, TimersFacts, SampleTimersAssumption DEF LinkInv, T!NoTimer, T!Timer
  <2>5. t \in timers
    BY <2>2, <2>3, <2>4 DEF Held
  <2> QED BY <1>1, <2>2, <2>5 DEF LinkInv
<1> QED BY <1>1, TimersInvariant, CallbacksInvariant, Link, PTL

\* No completion of a stopped generation reaches Lua.
THEOREM StoppedIsSilent == Spec => StoppedRunsNothing
<1> DEFINE Silent == \A t \in T!Timer :
             T!Fires(t) /\ created[t] # generation[owner[t]] => UNCHANGED last_call
<1>1. ASSUME TimersThms!IInv, LinkInv, [Next]_vars, NEW t \in T!Timer,
             T!Fires(t), created[t] # generation[owner[t]]
      PROVE  UNCHANGED last_call
  <2>1. t # T!NoTimer
    BY SampleTimersAssumption DEF T!Timer, T!NoTimer
  <2>2. CASE pump_fire
    <3>1. firing' = t /\ t \in due
      BY <1>1, <2>2 DEF T!Fires, pump_fire, T!pump_fire
    <3>2. ~C!Empty(t) => callback[t].resource = owner[t] /\ callback[t].generation = created[t]
      BY <1>1 DEF LinkInv
    <3>3. ~C!call(firing')
      BY <1>1, <3>1, <3>2 DEF C!call, C!MayCall
    <3> QED BY <2>2, <3>3 DEF pump_fire, callbackVars
  <2>3. CASE ~pump_fire
    BY <1>1, <2>1, <2>3 DEF T!Fires, Next, vars, schedulerVars, callbackVars, sampleVars,
       sample_timer, sample_cancel, tick, pump_snapshot, pump_rearm, pump_end, destroy_closure,
       resource_started, resource_stopped, TimersStop, hook_end, vm_closed, shutdown_scheduler,
       shutdown_callbacks, shutdown_end, T!post_timer, T!cancel, T!tick, T!lists, T!pump_snapshot,
       T!pump_rearm, T!pump_end, T!resource_stopped, T!stop
  <2> QED BY <2>2, <2>3
<1>2. TimersThms!IInv /\ LinkInv /\ [Next]_vars => [Silent]_vars
  BY <1>1
<1> QED BY <1>2, TimersInvariant, Link, PTL DEF Spec, StoppedRunsNothing
====
