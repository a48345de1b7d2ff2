-------------------------------- MODULE Timers --------------------------------
(***************************************************************************)
(* The timer half of mta::async::Scheduler (sdk/runtime/scheduler.cpp,     *)
(* timer.hpp, timer.cpp).  Everything here runs on the server's main       *)
(* thread; what makes it hard is re-entrance: pump() moves the due timers  *)
(* into a local vector and calls their completions one after another, and  *)
(* a completion may post timers, cancel timers (itself, or others of the   *)
(* same vector) and see resources stop.                                    *)
(*                                                                         *)
(* Time is relative: wait[t] is what is left of next_fire, in ticks, and   *)
(* elapsed the ticks since the `now' of the pump() in progress.  The order *)
(* of the vectors is abstracted: timers and due are sets, and pump() may   *)
(* dispatch the due timers in any order.                                   *)
(***************************************************************************)
EXTENDS Integers, FiniteSets

CONSTANTS
  Resource,       \* the server's resources
  NoResource,     \* owner of a timer not posted yet
  Delays,         \* the delay_ms arguments timers are posted with
  Repeats,        \* the repeat_count arguments
  MaxTimer,       \* bound: timers ever posted
  MaxGeneration,  \* bound: generations a resource lives through
  MaxFired,       \* bound: fires counted, `fired' stays there afterwards
  MaxElapsed      \* bound: ticks of one pump() told apart

MinimumDelay == 1   \* minimum_timer_delay_ms

\* The count keeps every limit apart from "one fire too many", the clock of a
\* pump() every interval from a longer one.
ASSUME TimersAssumption ==
  /\ NoResource \notin Resource
  /\ Delays \subseteq Int /\ Repeats \subseteq Int
  /\ MaxTimer \in Nat /\ MaxGeneration \in Nat
  /\ MaxFired \in Nat /\ \A n \in Repeats : n < MaxFired
  /\ MaxElapsed \in Nat \ {0} /\ \A d \in Delays : d <= MaxElapsed

Timer == 1..MaxTimer
NoTimer == 0

VARIABLES
  timers,         \* the timers vector
  due,            \* pump()'s local vector: the timers it has still to dispatch
  firing,         \* the timer whose completion is running
  pumping,        \* pump() is in its dispatch loop
  next_timer_id,
  owner,          \* a timer's resource
  created,        \*   its generation,
  interval,       \*   its interval_ms,
  wait,           \*   the ticks until its next_fire,
  repeats_left,   \*   its fires left (0 = forever),
  fired,          \*   its fires so far
  cancelled,      \* TimerState: cancel() was called
  finished,       \* TimerState: the scheduler dropped it
  elapsed,        \* ticks since the dispatching pump() read the clock
  generation,     \* Hub::generations_
  limit,          \* history: a timer's repeat_count (0 = forever)
  stopped,        \* history: resources stopped since the dispatch began
  cleared         \* history: timers stop() threw away

lists   == <<timers, due, firing, pumping, next_timer_id>>
data    == <<owner, created, interval, limit>>
handles == <<cancelled, finished>>
vars == <<lists, data, wait, repeats_left, fired, handles, elapsed, generation,
          stopped, cleared>>

TypeOK ==
  /\ timers \subseteq Timer /\ due \subseteq Timer
  /\ firing \in Timer \cup {NoTimer}
  /\ pumping \in BOOLEAN
  /\ next_timer_id \in 1..MaxTimer + 1
  /\ owner \in [Timer -> Resource \cup {NoResource}] /\ created \in [Timer -> Nat]
  /\ interval \in [Timer -> Nat \ {0}]
  /\ wait \in [Timer -> Nat]
  /\ repeats_left \in [Timer -> Nat] /\ limit \in [Timer -> Nat]
  /\ fired \in [Timer -> Nat]
  /\ cancelled \subseteq Timer /\ finished \subseteq Timer
  /\ elapsed \in Nat
  /\ generation \in [Resource -> Nat \ {0}]
  /\ stopped \subseteq Resource /\ cleared \subseteq Timer

Init ==
  /\ timers = {} /\ due = {} /\ firing = NoTimer /\ pumping = FALSE
  /\ next_timer_id = 1
  /\ owner = [t \in Timer |-> NoResource] /\ created = [t \in Timer |-> 0]
  /\ interval = [t \in Timer |-> 1] /\ wait = [t \in Timer |-> 0]
  /\ repeats_left = [t \in Timer |-> 0] /\ limit = [t \in Timer |-> 0]
  /\ fired = [t \in Timer |-> 0]
  /\ cancelled = {} /\ finished = {}
  /\ elapsed = 0
  /\ generation = [r \in Resource |-> 1]
  /\ stopped = {} /\ cleared = {}

-----------------------------------------------------------------------------
\* Module functions and completions run while pump() is not between two
\* statements of its own.
Interruptible == pumping => firing # NoTimer

Posted(t) == t < next_timer_id

Valid(t) == Posted(t) /\ t \notin cancelled /\ t \notin finished

\* post_timer_impl() clamps both arguments.
Interval(delay) == IF delay < MinimumDelay THEN MinimumDelay ELSE delay
RepeatsLeft(count) == IF count < 0 THEN 0 ELSE count

\* Posting is not refused after stop(): the timer waits for the next pump().
post_timer(r, delay, count) ==
  /\ Interruptible
  /\ next_timer_id \in Timer
  /\ LET t == next_timer_id IN
       /\ owner' = [owner EXCEPT ![t] = r]
       /\ created' = [created EXCEPT ![t] = generation[r]]
       /\ interval' = [interval EXCEPT ![t] = Interval(delay)]
       /\ wait' = [wait EXCEPT ![t] = Interval(delay)]
       /\ repeats_left' = [repeats_left EXCEPT ![t] = RepeatsLeft(count)]
       /\ limit' = [limit EXCEPT ![t] = RepeatsLeft(count)]
       /\ timers' = timers \cup {t}
  /\ next_timer_id' = next_timer_id + 1
  /\ UNCHANGED <<due, firing, pumping, fired, handles, elapsed, generation, stopped, cleared>>

\* Scheduler::cancel_timer(): false, and nothing changes, for a timer that is
\* not in the vector, a dispatched one included.
cancel_timer(t) ==
  /\ Interruptible
  /\ t \in timers
  /\ timers' = timers \ {t}
  /\ finished' = finished \cup {t}
  /\ UNCHANGED <<due, firing, pumping, next_timer_id, data, wait, repeats_left, fired,
                 cancelled, elapsed, generation, stopped, cleared>>

\* Timer::cancel() marks the handle, then calls cancel_timer(), which may not
\* find the timer.
cancel(t) ==
  /\ Interruptible
  /\ Valid(t)
  /\ cancelled' = cancelled \cup {t}
  /\ finished' = finished \cup {t}
  /\ timers' = timers \ {t}
  /\ UNCHANGED <<due, firing, pumping, next_timer_id, data, wait, repeats_left, fired,
                 elapsed, generation, stopped, cleared>>

\* Time passes, also while a completion runs.
tick ==
  /\ wait' = [t \in Timer |-> IF wait[t] > 0 THEN wait[t] - 1 ELSE 0]
  /\ elapsed' = IF pumping /\ elapsed < MaxElapsed THEN elapsed + 1 ELSE elapsed
  /\ UNCHANGED <<lists, data, repeats_left, fired, handles, generation, stopped, cleared>>

-----------------------------------------------------------------------------
(* pump()                                                                  *)

IsDue_CountedOnly(t) == wait[t] = 0 /\ repeats_left[t] > 0
IsDue(t) == wait[t] = 0

\* A timer of an ended generation is dropped instead of dispatched, and its
\* handle told so.
Stale_Never(t) == FALSE
Stale(t) == created[t] # generation[owner[t]]

StaleDropped_Unmarked == {}
StaleDropped == {t \in timers : IsDue(t) /\ Stale(t)}

\* What stays in the vector when the due timers have been moved out of it.
AfterSnapshot == {t \in timers : ~IsDue(t)}

pump_snapshot ==
  /\ ~pumping
  /\ pumping' = TRUE
  /\ elapsed' = 0
  /\ due' = {t \in timers : IsDue(t) /\ ~Stale(t)}
  /\ finished' = finished \cup StaleDropped
  /\ timers' = AfterSnapshot
  /\ UNCHANGED <<firing, next_timer_id, data, wait, repeats_left, fired, cancelled,
                 generation, stopped, cleared>>

\* The completion is called whatever happened to the timer since the snapshot.
pump_fire ==
  /\ pumping /\ firing = NoTimer
  /\ \E t \in due :
       /\ firing' = t
       /\ due' = due \ {t}
       /\ fired' = [fired EXCEPT ![t] = IF @ < MaxFired THEN @ + 1 ELSE @]
  /\ UNCHANGED <<timers, pumping, next_timer_id, data, wait, repeats_left, handles,
                 elapsed, generation, stopped, cleared>>

\* cancel() from inside a completion cannot find a dispatched timer in the
\* vector: the flag keeps it from being armed again.
Dropped_Never(t) == FALSE
Dropped(t) == t \in cancelled

\* repeats_left > 0 && --repeats_left == 0
LastFire_PostDecrement(t) == FALSE
LastFire(t) == repeats_left[t] = 1

\* next_fire is `now' plus the interval, not the time the completion returned.
Remaining(t) == IF interval[t] > elapsed THEN interval[t] - elapsed ELSE 0

\* The completion has returned, or thrown.
pump_rearm ==
  /\ firing # NoTimer
  /\ LET t == firing IN
       \/ /\ Dropped(t)
          /\ UNCHANGED <<timers, wait, repeats_left, finished>>
       \/ /\ ~Dropped(t) /\ LastFire(t)
          /\ repeats_left' = [repeats_left EXCEPT ![t] = 0]
          /\ finished' = finished \cup {t}
          /\ UNCHANGED <<timers, wait>>
       \/ /\ ~Dropped(t) /\ ~LastFire(t)
          /\ repeats_left' = [repeats_left EXCEPT ![t] = IF @ > 0 THEN @ - 1 ELSE 0]
          /\ wait' = [wait EXCEPT ![t] = Remaining(t)]
          /\ timers' = timers \cup {t}
          /\ UNCHANGED finished
  /\ firing' = NoTimer
  /\ UNCHANGED <<due, pumping, next_timer_id, data, fired, cancelled, elapsed, generation,
                 stopped, cleared>>

pump_end ==
  /\ pumping /\ firing = NoTimer /\ due = {}
  /\ pumping' = FALSE
  /\ elapsed' = 0
  /\ stopped' = {}
  /\ UNCHANGED <<timers, due, firing, next_timer_id, data, wait, repeats_left, fired,
                 handles, generation, cleared>>

-----------------------------------------------------------------------------
\* The timers handle_resource_stopped() drops: those in the vector.
OwnedTimers(r) == {t \in timers : owner[t] = r}

\* ResourceStopped: the Hub ends the generation, then the scheduler is told.
resource_stopped(r) ==
  /\ Interruptible
  /\ generation[r] < MaxGeneration
  /\ generation' = [generation EXCEPT ![r] = @ + 1]
  /\ finished' = finished \cup OwnedTimers(r)
  /\ timers' = timers \ OwnedTimers(r)
  /\ stopped' = IF pumping THEN stopped \cup {r} ELSE stopped
  /\ UNCHANGED <<due, firing, pumping, next_timer_id, data, wait, repeats_left, fired,
                 cancelled, elapsed, cleared>>

\* Scheduler::stop() ends with timers.clear().
stop ==
  /\ ~pumping
  /\ timers' = {}
  /\ cleared' = cleared \cup timers
  /\ UNCHANGED <<due, firing, pumping, next_timer_id, data, wait, repeats_left, fired,
                 handles, elapsed, generation, stopped>>

pump_step == pump_fire \/ pump_rearm \/ pump_end

Next ==
  \/ \E r \in Resource, delay \in Delays, count \in Repeats : post_timer(r, delay, count)
  \/ \E t \in Timer : cancel(t) \/ cancel_timer(t)
  \/ tick \/ pump_snapshot \/ pump_step
  \/ \E r \in Resource : resource_stopped(r)
  \/ stop

Spec == Init /\ [][Next]_vars

\* Time passes, completions return, and the server calls DoPulse on every frame.
FairSpec == Spec /\ WF_vars(tick) /\ WF_vars(pump_step) /\ WF_vars(pump_snapshot)

-----------------------------------------------------------------------------
Dispatched == due \cup {firing}

\* The step that calls the completion of t.
Fires(t) == firing # t /\ firing' = t

\* Moving a timer between the vectors never leaves it in both: a timer present
\* twice would fire twice per interval and survive its own cancellation.
TimerInOnePlace == timers \cap Dispatched = {} /\ firing \notin due

\* "repeat_count times in total" (timer.hpp:72-74): a limited timer fires no
\* more often than asked, whatever its completion posts, cancels or stops.
FireLimit == \A t \in Timer : limit[t] > 0 => fired[t] <= limit[t]

\* A dropped timer - cancelled, finished, stale, cleared - that is not in the
\* dispatch vector of the pump() in progress is never armed nor fired again.
DroppedStaysSilent ==
  [][\A t \in cancelled \cup finished \cup cleared :
       t \notin Dispatched => t \notin timers' \cup Dispatched']_vars

\* A timer that will fire again unless something is done about it.
FiresAgain(t) == t \in timers \cup due \/ (t = firing /\ ~LastFire(t))

\* valid() follows the scheduler (timer.hpp:51): no handle is valid whose timer is
\* in none of the vectors, whichever way it was dropped, and none is invalid whose
\* timer fires again in a generation that goes on.  The timers that stop() cleared
\* are the exception (ValidMeansScheduled); of a stopped resource's timers that
\* pump() has in hand nothing is asked (StopInvalidates).
HandleTellsTruth ==
  \A t \in Timer : Posted(t) /\ t \notin cleared =>
    /\ Valid(t) => t \in timers \cup Dispatched
    /\ FiresAgain(t) /\ t \notin cancelled /\ ~Stale(t) => Valid(t)

\* A timer never fires for a generation that has ended, unless its resource was
\* stopped from a completion of the very pump() that had already collected it
\* (StaleNeverFires is the sentence without the exception).
NoFireAcrossRestart ==
  [][\A t \in Timer : Fires(t) =>
       created[t] = generation[owner[t]] \/ owner[t] \in stopped]_vars

\* A scheduled timer keeps firing - an `every' timer again and again - until it
\* is dropped.
ScheduledTimerFires ==
  \A t \in Timer : t \in timers \cup due ~> firing = t \/ ~Valid(t) \/ t \in cleared

-----------------------------------------------------------------------------
(* The inductive invariant.                                                *)

\* A timer that is not posted yet is nowhere.
FreshInv ==
  /\ \A t \in timers \cup due \cup cancelled \cup finished \cup cleared : Posted(t)
  /\ Posted(firing)
  /\ \A t \in Timer : ~Posted(t) => fired[t] = 0

\* The dispatch vector exists during a dispatch only; a timer collected for an
\* ended generation had its resource stopped since.
DispatchInv ==
  /\ ~pumping => due = {} /\ firing = NoTimer
  /\ \A t \in due : Stale(t) => owner[t] \in stopped

\* A cancelled timer may be in the dispatch still, a cleared one is nowhere.
DroppedInv ==
  /\ cancelled \cap timers = {}
  /\ cleared \cap (timers \cup Dispatched) = {}

\* Fires made and fires left add up while a limited timer is scheduled.
CountInv ==
  \A t \in Timer : limit[t] > 0 =>
    /\ limit[t] < MaxFired
    /\ fired[t] <= limit[t]
    /\ t \in timers \cup due => repeats_left[t] >= 1 /\ fired[t] + repeats_left[t] = limit[t]
    /\ t = firing => repeats_left[t] >= 1 /\ fired[t] + repeats_left[t] = limit[t] + 1

\* The flags of a handle are what the scheduler makes of them: a timer that leaves
\* the vectors is marked, one that pump() has in hand only when it is cancelled.
HandleInv ==
  \A t \in Timer : Posted(t) /\ t \notin cleared =>
    (Valid(t) <=> t \in (timers \cup Dispatched) \ cancelled)

IInv ==
  /\ TypeOK /\ FreshInv /\ DispatchInv /\ DroppedInv /\ CountInv
  /\ TimerInOnePlace /\ HandleInv

-----------------------------------------------------------------------------
(* What the documentation says and the code does not.                      *)

\* "Cancels the timer: the completion will not fire again" (timer.hpp:47).
CancelIsFinal == [][\A t \in cancelled : ~Fires(t)]_vars

\* "When the resource stops, every owned timer is invalidated" (timer.hpp:10-11,
\* api.md:415, and scheduler.cpp:478 on the handles): those that pump() has in hand
\* are not, and an `every' timer among them is armed once more, as a valid one.
StopInvalidates ==
  \A t \in Timer : Posted(t) /\ t \notin cleared /\ Stale(t) => ~Valid(t)

\* "the scheduler drops stale-generation timers before they can fire"
\* (timer.hpp:13, resources.hpp:26-28, api.md:450): it looks at the generation when
\* it collects the timers, and not again before each of them fires.
StaleNeverFires ==
  [][\A t \in Timer : Fires(t) => created[t] = generation[owner[t]]]_vars

\* "still scheduled (will fire again)" (timer.hpp:8): a handle is valid also while
\* the completion runs for the last time.
ValidMeansFiresAgain ==
  \A t \in Timer : Valid(t) /\ t \notin cleared => FiresAgain(t)

\* "every scheduler-side drop marks the state finished" (scheduler.cpp:87).
ValidMeansScheduled == \A t \in Timer : Valid(t) => t \in timers \cup Dispatched

=============================================================================
