----------------------------- MODULE SampleTimers -----------------------------
(***************************************************************************)
(* The timer functions of the module (functions/async/timer_demo.cpp and   *)
(* timers.cpp) on everything they need: the scheduler's Timers, the        *)
(* Callbacks their completions own, a Store of handles per resource, and   *)
(* the hooks of abi/module.cpp that take all of them down in order.        *)
(*                                                                         *)
(* The composition moves Timers and Callbacks together: every step below   *)
(* is a step of one of them or of both.  The Callback of a timer is an     *)
(* object of the timer's closure and bears its number, so it dies where    *)
(* the scheduler destroys the closure.                                     *)
(***************************************************************************)
EXTENDS Integers, FiniteSets

CONSTANTS
  Resource, NoResource,
  Ref, NoRef,
  LuaDelays,       \* the integers scripts pass as delay_ms
  Counts,          \* the repeat counts: 1 for sample_after, 0 for sample_every
  IntBits,         \* the width of int
  MaxTimer, MaxGeneration, MaxFired, MaxElapsed   \* the bounds of Timers

\* static_cast<int>(delay_ms): the low bits, in two's complement.
AsInt(d) == ((d + 2^(IntBits - 1)) % 2^IntBits) - 2^(IntBits - 1)

\* As in Timers, the clock of a pump() tells every interval from a longer one.
ASSUME SampleTimersAssumption ==
  /\ NoResource \notin Resource /\ NoRef \notin Ref
  /\ LuaDelays \subseteq Int /\ Counts \subseteq Int
  /\ \A d \in LuaDelays : AsInt(d) \in Int /\ AsInt(d) <= MaxElapsed
  /\ IntBits \in Nat \ {0}
  /\ MaxTimer \in Nat /\ MaxGeneration \in Nat /\ MaxElapsed \in Nat \ {0}
  /\ MaxFired \in Nat /\ \A n \in Counts : n < MaxFired

VARIABLES
  (* The scheduler, as in Timers *)
  timers, due, firing, pumping, next_timer_id, owner, created, interval, wait,
  repeats_left, fired, cancelled, finished, elapsed, limit, stopped, cleared,
  (* The callbacks and VMs, as in Callbacks *)
  callback, tracked, registry, up, phase, hooked, next_function, last_call, misfreed,
  (* The Hub, read by both *)
  generation,
  (* This module *)
  stored,    \* the Store: resource -> ids of its HandleMap
  spent      \* dispatched timers pump() has dropped; their closures live to its end

schedulerVars == <<timers, due, firing, pumping, next_timer_id, owner, created, interval, wait,
                   repeats_left, fired, cancelled, finished, elapsed, limit, stopped, cleared>>
callbackVars  == <<callback, tracked, registry, up, phase, hooked, next_function, last_call,
                   misfreed>>
sampleVars    == <<stored, spent>>
vars == <<schedulerVars, callbackVars, generation, sampleVars>>

-----------------------------------------------------------------------------
\* checked_delay(): a negative delay is an error of the script.
IsAccepted(d) == AsInt(d) >= 0

T == INSTANCE Timers WITH
  Delays <- {AsInt(d) : d \in {e \in LuaDelays : AsInt(e) >= 0}}, Repeats <- Counts

C == INSTANCE Callbacks WITH Callback <- 1..MaxTimer, MaxBind <- MaxTimer

\* The timers whose closure some vector of the scheduler holds.
Held_ScheduledOnly == timers \cup due
Held == timers \cup due \cup {firing} \cup spent

\* The closures that die now.
Orphans_None == {}
Orphans == {t \in T!Timer : t \notin Held /\ ~C!Empty(t)}

\* No destructor is still to run: a module function may be called.
Settled == Orphans = {} /\ phase = "running"
Callable(r) == Settled /\ T!Interruptible /\ r \in up

TypeOK ==
  /\ T!TypeOK /\ C!TypeOK
  /\ stored \in [Resource -> SUBSET T!Timer]
  /\ spent \subseteq T!Timer

Init ==
  /\ T!Init /\ C!Init
  /\ stored = [r \in Resource |-> {}]
  /\ spent = {}

-----------------------------------------------------------------------------
(* The module functions.                                                   *)

\* sample_timer, sample_after, sample_every: the function is pinned first; the
\* closure owns the Callback; the handle goes to the resource's HandleMap.
sample_timer(r, delay, count) ==
  /\ Callable(r) /\ IsAccepted(delay)
  /\ LET t == next_timer_id IN
       /\ T!post_timer(r, AsInt(delay), count)
       /\ C!from_stack(t, r)
       /\ stored' = [stored EXCEPT ![r] = @ \cup {t}]
  /\ UNCHANGED spent

\* sample_timer_cancel, sample_after_cancel: the id is looked up among the
\* handles of the calling resource; a finished one answers false and stays.
sample_cancel(r, t) ==
  /\ Callable(r)
  /\ t \in stored[r]
  /\ T!cancel(t)
  /\ stored' = [stored EXCEPT ![r] = @ \ {t}]
  /\ UNCHANGED <<callbackVars, spent>>

-----------------------------------------------------------------------------
(* DoPulse.                                                                *)

tick == Settled /\ T!tick /\ UNCHANGED <<callbackVars, sampleVars>>

pump_snapshot == Settled /\ T!pump_snapshot /\ UNCHANGED <<callbackVars, sampleVars>>

\* The completion calls its Callback, which may refuse.
CanCall(t) ==
  /\ ~C!Empty(t)
  /\ C!MayCall(callback[t])
  /\ C!Slot(callback[t]) # C!NoFunction

pump_fire ==
  /\ Settled
  /\ T!pump_fire
  /\ \/ C!call(firing')
     \/ ~CanCall(firing') /\ UNCHANGED callbackVars
  /\ UNCHANGED <<generation, sampleVars>>

\* A timer that is not armed again stays in the local vector.
pump_rearm ==
  /\ Settled
  /\ T!pump_rearm
  /\ spent' = IF firing \in timers' THEN spent ELSE spent \cup {firing}
  /\ UNCHANGED <<callbackVars, stored>>

pump_end ==
  /\ Settled
  /\ T!pump_end
  /\ spent' = {}
  /\ UNCHANGED <<callbackVars, stored>>

\* The std::function of a dropped timer goes, and ~Callback with it.
destroy_closure(t) ==
  /\ t \in Orphans
  /\ C!destroy(t)
  /\ UNCHANGED <<schedulerVars, sampleVars>>

-----------------------------------------------------------------------------
(* The server and the hooks of module.cpp.                                 *)

resource_started(r) ==
  /\ Settled /\ T!Interruptible
  /\ C!resource_started(r)
  /\ UNCHANGED <<schedulerVars, sampleVars>>

\* Store::on_resource_stopped().
Erased_Kept(r) == stored[r]
Erased(r) == {}

\* What Scheduler::handle_resource_stopped() does to the timers.
TimersStop_Untold(r) ==
  generation' = [generation EXCEPT ![r] = @ + 1] /\ UNCHANGED schedulerVars
TimersStop(r) == T!resource_stopped(r)

\* ResourceStopped: the Hub ends the generation and tells the stores, then the
\* scheduler drops its timers; their closures die before the hook goes on.
resource_stopped(r) ==
  /\ Settled
  /\ C!resource_stopped(r)
  /\ TimersStop(r)
  /\ stored' = [stored EXCEPT ![r] = Erased(r)]
  /\ UNCHANGED <<spent>>

\* The last part of the hook.
CallbacksStop_Untold ==
  phase = "stopping" /\ phase' = "closing"
    /\ UNCHANGED <<callback, tracked, registry, up, hooked, next_function, last_call, misfreed,
                   generation>>
CallbacksStop == C!invalidate_resource_callbacks

hook_end ==
  /\ Orphans = {}
  /\ CallbacksStop
  /\ UNCHANGED <<schedulerVars, sampleVars>>

vm_closed == C!vm_closed /\ UNCHANGED <<schedulerVars, sampleVars>>

\* ShutdownModule, from the server's own loop: the scheduler, the callbacks,
\* the stores, the manager.
shutdown_scheduler ==
  /\ Settled
  /\ T!stop /\ C!stop
  /\ UNCHANGED sampleVars

shutdown_callbacks ==
  /\ Orphans = {}
  /\ C!release_all_callbacks
  /\ UNCHANGED <<schedulerVars, sampleVars>>

shutdown_end ==
  /\ C!unload
  /\ stored' = [r \in Resource |-> {}]
  /\ UNCHANGED <<schedulerVars, spent>>

Next ==
  \/ \E r \in Resource, delay \in LuaDelays, count \in Counts : sample_timer(r, delay, count)
  \/ \E r \in Resource, t \in T!Timer : sample_cancel(r, t)
  \/ tick \/ pump_snapshot \/ pump_fire \/ pump_rearm \/ pump_end
  \/ \E t \in T!Timer : destroy_closure(t)
  \/ \E r \in Resource : resource_started(r) \/ resource_stopped(r)
  \/ hook_end \/ vm_closed
  \/ shutdown_scheduler \/ shutdown_callbacks \/ shutdown_end

Spec == Init /\ [][Next]_vars

-----------------------------------------------------------------------------
(* Safety.                                                                 *)

\* A handle is found only by the VM that created it: neither another resource
\* nor the next VM of the same one can cancel a timer by guessing its id.
StoreIsFresh ==
  phase # "stopping" => \A r \in Resource : \A t \in stored[r] :
    owner[t] = r /\ created[t] = generation[r]

\* A scheduled timer of a running VM never fires into the void: whatever was
\* cancelled, dropped or moved around it, its Callback can be called.
ScheduledTimerCanCall ==
  phase = "running" => \A t \in timers \cup due :
    owner[t] \in up /\ created[t] = generation[owner[t]]
      => CanCall(t)

\* No leak across the components: outside a dispatch, what the module has
\* pinned in a running VM belongs to a timer that is scheduled.
PinnedMeansScheduled ==
  Settled /\ ~pumping => \A r \in up : \A ref \in Ref :
    registry[r][ref] # C!NoFunction =>
      \E t \in timers : owner[t] = r /\ callback[t].ref = ref

\* A stopped resource runs nothing: a completion of the dispatch in progress may
\* still be called for it, but it does not reach Lua - neither the VM that is
\* gone nor the one that has replaced it.
StoppedRunsNothing ==
  [][\A t \in T!Timer : T!Fires(t) /\ created[t] # generation[owner[t]]
       => UNCHANGED last_call]_vars

\* The timers and the callbacks meet in this module exactly as their own
\* specifications allow, so what is proved of each holds here.
ImplementsTimers == T!Spec
ImplementsCallbacks == C!Spec

-----------------------------------------------------------------------------
(* The invariant that ties the components together.                        *)

\* A timer that some vector holds has its Callback, bound by the timer's owner
\* in the timer's generation; a Store holds what its resource's current VM has
\* posted; and only a pump() in progress keeps spent timers.
LinkInv ==
  /\ \A t \in T!Timer : t \in Held => ~C!Empty(t)
  /\ \A t \in T!Timer : ~C!Empty(t) =>
       /\ T!Posted(t)
       /\ callback[t].resource = owner[t] /\ callback[t].generation = created[t]
  /\ stored \in [Resource -> SUBSET T!Timer] /\ spent \subseteq T!Timer
  /\ \A r \in Resource : \A t \in stored[r] :
       T!Posted(t) /\ owner[t] = r /\ created[t] = generation[r]
  /\ ~pumping => spent = {}

=============================================================================
