------------------------------- MODULE Resources -------------------------------
(***************************************************************************)
(* The resource Hub and its sinks (sdk/resources), driven by the hooks of  *)
(* abi/module.cpp, from the load of the module to the destruction of its   *)
(* static objects.                                                         *)
(*                                                                         *)
(* The stores are those of the sample functions: Store<HandleMap<id, X>>,  *)
(* where X pins a Lua function (functions/bench/callback.cpp).  Watchers   *)
(* stand for the sinks a developer adds: they come and go at run time and  *)
(* inside the callbacks of the Hub.  Everything runs on the main thread.   *)
(***************************************************************************)
EXTENDS Naturals, Sequences

CONSTANTS
  Resource, NoResource,
  Store,           \* the static Store objects
  Watcher,         \* other sinks
  MaxId,           \* bound: ids handed out
  MaxGeneration    \* bound: generations a resource lives through

ASSUME ResourcesAssumption ==
  /\ NoResource \notin Resource
  /\ Store # {} /\ Store \cap Watcher = {}
  /\ Store \cap {"hub", "scheduler", "refs"} = {}
  /\ MaxId \in Nat /\ MaxGeneration \in Nat \ {0}

VARIABLES
  phase,       \* the module: "loading", "loaded", "running", "unloaded", "exit"
  statics,     \* its static objects that are constructed, oldest first
  sinks,       \* Hub::sinks_
  generation,  \* Hub::generations_, 1 where there is no entry
  up,          \* resources with a VM
  data,        \* Store::data_ of each store: resource -> its HandleMap
  next_id,     \* the counter of bench/callback.cpp
  issued,      \* history: id -> the resource and generation it was handed to
  notice,      \* the notification in progress
  hooked,      \* the resource it is about
  todo,        \* the sinks of the copy that have not been called
  late         \* history: a destructor has used a static object that was gone

vars == <<phase, statics, sinks, generation, up, data, next_id, issued, notice, hooked,
          todo, late>>

storeVars == <<data, next_id, issued>>
walkVars == <<notice, hooked, todo>>

Id == 1..MaxId
Sink == Store \cup Watcher
Static == {"hub", "scheduler", "refs"} \cup Store

\* The HandleMap of a resource: the generation that made it, and its ids.
HandleMap == [made : Nat, handles : SUBSET Id]
Absent == [made |-> 0, handles |-> {}]
Empty(r) == [made |-> generation[r], handles |-> {}]

Nobody == [resource |-> NoResource, generation |-> 0]

TypeOK ==
  /\ phase \in {"loading", "loaded", "running", "unloaded", "exit"}
  /\ statics \in Seq(Static)
  /\ sinks \subseteq Sink
  /\ generation \in [Resource -> Nat \ {0}]
  /\ up \subseteq Resource
  /\ data \in [Store -> [Resource -> HandleMap]]
  /\ next_id \in 1..MaxId + 1
  /\ issued \in [Id -> [resource : Resource \cup {NoResource}, generation : Nat]]
  /\ notice \in {"none", "stopping", "stopped", "released"}
  /\ hooked \in Resource \cup {NoResource}
  /\ todo \subseteq Sink
  /\ late \in BOOLEAN

Init ==
  /\ phase = "loading" /\ statics = <<>> /\ sinks = {}
  /\ generation = [r \in Resource |-> 1]
  /\ up = {}
  /\ data = [s \in Store |-> [r \in Resource |-> Absent]]
  /\ next_id = 1 /\ issued = [id \in Id |-> Nobody]
  /\ notice = "none" /\ hooked = NoResource /\ todo = {}
  /\ late = FALSE

-----------------------------------------------------------------------------
(* Static objects.                                                         *)

Constructed == {statics[i] : i \in 1..Len(statics)}

\* A function-local static is constructed by the first call.
With(x) == IF x \in Constructed THEN statics ELSE Append(statics, x)

\* Store(): the first one's call of Hub::instance() completes the Hub before
\* the store itself is complete.
construct_store(s) ==
  /\ phase = "loading"
  /\ s \notin Constructed
  /\ statics' = IF "hub" \in Constructed THEN Append(statics, s) ELSE <<"hub", s>>
  /\ sinks' = sinks \cup {s}
  /\ phase' = IF Store \subseteq Constructed \cup {s} THEN "loaded" ELSE "loading"
  /\ UNCHANGED <<generation, up, storeVars, walkVars, late>>

\* What the destruction of a store reaches: the Hub, and tracked_refs() for
\* every Callback its maps still hold.
Reaches(s) ==
  {"hub"} \cup (IF \E r \in Resource : data[s][r].handles # {} THEN {"refs"} ELSE {})

\* Static objects are destroyed in the reverse order of their construction.
destroy_static ==
  /\ phase \in {"unloaded", "exit"} /\ notice = "none" /\ statics # <<>>
  /\ LET last == statics[Len(statics)] IN
       /\ \/ /\ last \in Store
             /\ sinks' = sinks \ {last}
             /\ data' = [data EXCEPT ![last] = [r \in Resource |-> Absent]]
             /\ late' = (late \/ ~(Reaches(last) \subseteq Constructed))
          \/ last \notin Store /\ UNCHANGED <<sinks, data, late>>
       /\ statics' = SubSeq(statics, 1, Len(statics) - 1)
  /\ phase' = "exit"
  /\ UNCHANGED <<generation, up, next_id, issued, walkVars>>

-----------------------------------------------------------------------------
(* Module functions: a resource with a VM calls into the module.           *)

\* current_resource_name() knows the caller while there is a manager; between
\* two steps of the Hub no script runs.
Callable(r) == phase = "running" /\ notice = "none" /\ r \in up

\* for_state() creates the map of the calling resource on its first access.
for_state(s, r) == IF data[s][r] = Absent THEN Empty(r) ELSE data[s][r]

\* next_callback_id(): the counter is the program's, not the resource's.
after_Same(id) == id
after(id) == id + 1

\* bench_callback_hold: the Callback is bound, then moved into the map.
hold(s, r) ==
  /\ Callable(r) /\ next_id \in Id
  /\ statics' = With("refs")
  /\ data' = [data EXCEPT ![s][r] =
                [for_state(s, r) EXCEPT !.handles = @ \cup {next_id}]]
  /\ issued' = [issued EXCEPT ![next_id] = [resource |-> r, generation |-> generation[r]]]
  /\ next_id' = after(next_id)
  /\ UNCHANGED <<phase, sinks, generation, up, walkVars, late>>

\* bench_callback_release and, with an id nobody knows, bench_callback_call: the
\* map of the caller is made for the lookup; ~Callback goes with the handle.
release(s, r, id) ==
  /\ Callable(r)
  /\ data' = [data EXCEPT ![s][r] =
                [for_state(s, r) EXCEPT !.handles = @ \ {id}]]
  /\ UNCHANGED <<phase, statics, sinks, generation, up, next_id, issued, walkVars, late>>

-----------------------------------------------------------------------------
(* The Hub.                                                                *)

\* A developer's sink subscribes and unsubscribes between the hooks.
add(w) ==
  /\ phase \in {"loaded", "running"} /\ notice = "none"
  /\ sinks' = sinks \cup {w}
  /\ UNCHANGED <<phase, statics, generation, up, storeVars, walkVars, late>>

remove(w) ==
  /\ phase \in {"loaded", "running"} /\ notice = "none"
  /\ sinks' = sinks \ {w}
  /\ UNCHANGED <<phase, statics, generation, up, storeVars, walkVars, late>>

\* "Iterate over a copy: a sink may unsubscribe itself inside a callback."
Notify(kind, r) == notice' = kind /\ hooked' = r /\ todo' = sinks

\* What the call of a store's on_resource_stopped() and on_all_released() leaves.
Told_OnlyReleased(s) ==
  [r \in Resource |-> IF notice = "released" THEN Absent ELSE data[s][r]]
Told(s) ==
  [r \in Resource |->
     IF notice = "released" \/ (notice = "stopped" /\ r = hooked)
     THEN Absent ELSE data[s][r]]

\* One turn of the loop, in the order of an unordered_set.
notify_store(s) ==
  /\ s \in todo
  /\ todo' = todo \ {s}
  /\ data' = [data EXCEPT ![s] = Told(s)]
  /\ UNCHANGED <<phase, statics, sinks, generation, up, next_id, issued, notice, hooked, late>>

\* A watcher's callback subscribes and unsubscribes watchers, itself among them.
notify_watcher(w) ==
  /\ w \in todo
  /\ todo' = todo \ {w}
  /\ \/ UNCHANGED sinks
     \/ \E v \in Watcher : sinks' = sinks \ {v}
     \/ \E v \in Watcher : sinks' = sinks \cup {v}
  /\ UNCHANGED <<phase, statics, generation, up, storeVars, notice, hooked, late>>

-----------------------------------------------------------------------------
(* The hooks of abi/module.cpp.                                            *)

initialize ==
  /\ phase = "loaded"
  /\ phase' = "running" /\ statics' = With("scheduler")
  /\ UNCHANGED <<sinks, generation, up, storeVars, walkVars, late>>

\* The server makes a VM for the resource and calls RegisterFunctions.
register_functions(r) ==
  /\ phase = "running" /\ notice = "none"
  /\ r \notin up
  /\ up' = up \cup {r}
  /\ UNCHANGED <<phase, statics, sinks, generation, storeVars, walkVars, late>>

\* The scripts run on after this one, in their onResourceStop handlers.
resource_stopping(r) ==
  /\ Callable(r)
  /\ Notify("stopping", r)
  /\ UNCHANGED <<phase, statics, sinks, generation, up, storeVars, late>>

bump_generation(r) == [generation EXCEPT ![r] = @ + 1]

\* The generation ends before the sinks run.
resource_stopped(r) ==
  /\ Callable(r) /\ generation[r] < MaxGeneration
  /\ generation' = bump_generation(r)
  /\ Notify("stopped", r)
  /\ UNCHANGED <<phase, statics, sinks, up, storeVars, late>>

\* The stores and closures of the scheduler are gone: invalidate_resource_callbacks()
\* comes last, and the server closes the VM.
notified ==
  /\ notice \in {"stopping", "stopped"} /\ todo = {}
  /\ notice' = "none" /\ hooked' = NoResource /\ todo' = {}
  /\ \/ notice = "stopping" /\ UNCHANGED <<statics, up>>
     \/ notice = "stopped" /\ statics' = With("refs") /\ up' = up \ {hooked}
  /\ UNCHANGED <<phase, sinks, generation, storeVars, late>>

\* Scheduler::stop(), release_all_callbacks(), then the Hub.
Released_Untold == notice' = "released" /\ hooked' = NoResource /\ todo' = {}
Released == Notify("released", NoResource)

shutdown ==
  /\ phase = "running" /\ notice = "none"
  /\ statics' = With("refs")
  /\ Released
  /\ UNCHANGED <<phase, sinks, generation, up, storeVars, late>>

\* The manager goes last.
shutdown_end ==
  /\ notice = "released" /\ todo = {}
  /\ notice' = "none" /\ hooked' = NoResource /\ todo' = {}
  /\ phase' = "unloaded"
  /\ UNCHANGED <<statics, sinks, generation, up, storeVars, late>>

Next ==
  \/ \E s \in Store : construct_store(s) \/ notify_store(s)
  \/ \E s \in Store, r \in Resource : hold(s, r)
  \/ \E s \in Store, r \in Resource, id \in Id : release(s, r, id)
  \/ \E w \in Watcher : add(w) \/ remove(w) \/ notify_watcher(w)
  \/ \E r \in Resource : register_functions(r) \/ resource_stopping(r) \/ resource_stopped(r)
  \/ initialize \/ notified \/ shutdown \/ shutdown_end \/ destroy_static

Spec == Init /\ [][Next]_vars

-----------------------------------------------------------------------------
(* Safety.                                                                 *)

\* "The store clears itself when the resource stops" (bench/callback.cpp:34): a
\* store has a map for a resource only while the VM that made it lives, up to the
\* store's own turn in the notification, whatever sinks come and go meanwhile.
FreshState ==
  \A s \in Store, r \in Resource : data[s][r] # Absent =>
    IF notice = "stopped" /\ r = hooked
    THEN s \in todo /\ data[s][r].made + 1 = generation[r]
    ELSE r \in up /\ data[s][r].made = generation[r]

\* An id is found only by the VM it was handed to, in the generation that it was
\* handed out in: the next VM of a resource finds nothing of the last one's.
HandlesAreOwn ==
  \A s \in Store, r \in Resource : \A id \in data[s][r].handles :
    issued[id] = [resource |-> r, generation |-> data[s][r].made]

\* A sink that has unsubscribed hears nothing more.  It does not hold: the walk is
\* over a copy, and a watcher that another one's callback removes is still called.
RemovedStaySilent == todo \subseteq sinks

\* The static objects can go in any order the linker has put them in: what
\* shutdown() leaves lets no destructor reach an object that is already destroyed
\* (the stores outlive tracked_refs(), which a Callback in them would need).
ExitInReach == ~late

-----------------------------------------------------------------------------
(* The inductive invariant.                                                *)

\* The Hub is the oldest static object; the stores are subscribed from their
\* construction to the exit.
StaticsInv ==
  /\ Len(statics) > 0 => statics[1] = "hub"
  /\ phase = "loading" => Store \cap Constructed \subseteq sinks
  /\ phase \notin {"loading", "exit"} => statics # <<>> /\ Store \subseteq sinks

\* During a notification: whom it is about.
WalkInv ==
  /\ notice # "none" => phase = "running"
  /\ notice = "none" => todo = {}
  /\ notice \in {"stopping", "stopped"} => hooked \in up

\* What has no turn to come is clear, and ids are given out once.
DataInv ==
  /\ phase \in {"unloaded", "exit"} => \A s \in Store, r \in Resource : data[s][r] = Absent
  /\ notice = "released" =>
       \A s \in Store, r \in Resource : s \notin todo => data[s][r] = Absent
  /\ \A s \in Store, r \in Resource : \A id \in data[s][r].handles : id < next_id

IInv ==
  /\ TypeOK /\ StaticsInv /\ WalkInv /\ DataInv
  /\ FreshState /\ HandlesAreOwn /\ ExitInReach

=============================================================================
