------------------------------ MODULE Callbacks ------------------------------
(***************************************************************************)
(* mta::async::Callback (sdk/runtime/callback.cpp): a C++ handle to a Lua  *)
(* function, pinned by luaL_ref in the registry of its resource's VM.  VMs *)
(* come and go with their resources, a fresh VM hands out the indices of   *)
(* the old one again, and handles outlive the VM they were bound in.       *)
(*                                                                         *)
(* Everything runs on the main thread.  A Lua function is known by the     *)
(* number of its binding, so a slot of a registry shows whose it is.       *)
(***************************************************************************)
EXTENDS Naturals, FiniteSets

CONSTANTS
  Resource,       \* the server's resources
  NoResource,     \* the resource_ of an empty Callback
  Ref,            \* the indices luaL_ref hands out
  NoRef,          \* LUA_NOREF
  Callback,       \* the Callback objects: parameters, captures, map entries
  MaxBind,        \* bound: functions ever bound
  MaxGeneration   \* bound: generations a resource lives through

ASSUME CallbackAssumption ==
  /\ NoResource \notin Resource /\ NoRef \notin Ref
  /\ MaxBind \in Nat /\ MaxGeneration \in Nat

Function == 1..MaxBind
NoFunction == 0

VARIABLES
  callback,    \* the objects: resource_, ref_, generation_; function is history
  tracked,     \* tracked_refs(): resource -> index -> TrackedRef
  registry,    \* the registry slots of each resource's current VM
  generation,  \* Hub::generations_
  up,          \* resources GetResourceFromName finds a VM for
  phase,       \* where the module is: running, in a resource's stop, shutting down
  hooked,      \* the resource being stopped
  next_function,
  last_call,   \* history: the function of the last call made, and the one that ran
  misfreed     \* history: slots luaL_unref freed that were not the caller's

vars == <<callback, tracked, registry, generation, up, phase, hooked, next_function,
          last_call, misfreed>>

\* "No entry" reads as a dead one of a generation no VM ever has.
TrackedRef == [dead : BOOLEAN, generation : Nat]
NoEntry == [dead |-> TRUE, generation |-> 0]

Handle == [resource : Resource, ref : Ref, generation : Nat \ {0}, function : Function]
EmptyHandle == [resource |-> NoResource, ref |-> NoRef, generation |-> 0,
                function |-> NoFunction]

Phase == {"running", "stopping", "closing", "shutdown", "released", "unloaded"}

TypeOK ==
  /\ callback \in [Callback -> Handle \cup {EmptyHandle}]
  /\ tracked \in [Resource -> [Ref -> TrackedRef]]
  /\ registry \in [Resource -> [Ref -> Function \cup {NoFunction}]]
  /\ generation \in [Resource -> Nat \ {0}]
  /\ up \subseteq Resource
  /\ phase \in Phase
  /\ hooked \in Resource \cup {NoResource}
  /\ next_function \in 1..MaxBind + 1
  /\ last_call \in (Function \cup {NoFunction}) \X (Function \cup {NoFunction})
  /\ misfreed \subseteq Resource \X Ref

NoSlots == [ref \in Ref |-> NoFunction]

Init ==
  /\ callback = [c \in Callback |-> EmptyHandle]
  /\ tracked = [r \in Resource |-> [ref \in Ref |-> NoEntry]]
  /\ registry = [r \in Resource |-> NoSlots]
  /\ generation = [r \in Resource |-> 1]
  /\ up = {}
  /\ phase = "running" /\ hooked = NoResource
  /\ next_function = 1
  /\ last_call = <<NoFunction, NoFunction>>
  /\ misfreed = {}

\* What the objects hold.
Empty(c) == callback[c] = EmptyHandle
Held == {callback[c] : c \in {x \in Callback : ~Empty(x)}}

\* module::manager() is there until the end of shutdown().
Manager == phase # "unloaded"

Entry(h) == tracked[h.resource][h.ref]
Slot(h) == registry[h.resource][h.ref]

-----------------------------------------------------------------------------
(* Releasing: what ~Callback and the move assignment do with a handle.     *)

\* untrack_ref() touches the entry of the callback's own generation only.
OwnsEntry_AnyGeneration(h) == Entry(h).generation # 0
OwnsEntry(h) == Entry(h).generation = h.generation

\* luaL_unref is called while the VM can be reached.
Unrefs_DeadOnly(h) == OwnsEntry(h) /\ Entry(h).dead /\ Manager /\ h.resource \in up
Unrefs(h) == OwnsEntry(h) /\ ~Entry(h).dead /\ Manager /\ h.resource \in up

untrack_ref(h) ==
  /\ tracked' = IF OwnsEntry(h) THEN [tracked EXCEPT ![h.resource][h.ref] = NoEntry]
                ELSE tracked
  /\ \/ /\ Unrefs(h)
        /\ registry' = [registry EXCEPT ![h.resource][h.ref] = NoFunction]
        /\ misfreed' = IF Slot(h) = h.function THEN misfreed
                       ELSE misfreed \cup {<<h.resource, h.ref>>}
     \/ ~Unrefs(h) /\ UNCHANGED <<registry, misfreed>>

release(c) == IF Empty(c) THEN UNCHANGED <<tracked, registry, misfreed>>
              ELSE untrack_ref(callback[c])

-----------------------------------------------------------------------------
\* Callback::from_stack(): a function of a running resource is pinned under an
\* index that is free in its VM, and tracked under the current generation,
\* whatever an older VM left behind for that index.
from_stack(c, r) ==
  /\ phase = "running"
  /\ Empty(c)
  /\ r \in up
  /\ next_function \in Function
  /\ \E ref \in Ref :
       /\ registry[r][ref] = NoFunction
       /\ registry' = [registry EXCEPT ![r][ref] = next_function]
       /\ tracked' = [tracked EXCEPT ![r][ref] =
                        [dead |-> FALSE, generation |-> generation[r]]]
       /\ callback' = [callback EXCEPT ![c] =
                         [resource |-> r, ref |-> ref, generation |-> generation[r],
                          function |-> next_function]]
  /\ next_function' = next_function + 1
  /\ UNCHANGED <<generation, up, phase, hooked, last_call, misfreed>>

\* What a move leaves in its source (generation_ stays, and nothing reads it).
MovedFrom(c) == EmptyHandle

\* The move constructor (into an empty object) and the move assignment, which
\* releases what the target holds first.  Moving an object into itself does
\* nothing.
move(c, d) ==
  /\ c # d /\ ~Empty(c)
  /\ release(d)
  /\ callback' = [callback EXCEPT ![d] = callback[c], ![c] = MovedFrom(c)]
  /\ UNCHANGED <<generation, up, phase, hooked, next_function, last_call>>

\* ~Callback: at any time on the main thread, also inside the hooks (the stores,
\* timers and queued tasks of a stopped resource) and during shutdown.
destroy(c) ==
  /\ ~Empty(c)
  /\ release(c)
  /\ callback' = [callback EXCEPT ![c] = EmptyHandle]
  /\ UNCHANGED <<generation, up, phase, hooked, next_function, last_call>>

RefIsDead(h) == Entry(h).dead \/ Entry(h).generation # h.generation

\* The checks of call() before it touches the VM; those of version 1 knew the
\* resource by its name only.
MayCall_ByName(h) == h.resource \in up
MayCall(h) ==
  /\ ~RefIsDead(h)
  /\ Manager
  /\ h.resource \in up
  /\ generation[h.resource] = h.generation

\* Callback::call() runs what the registry has under the index, if it is a
\* function.  Nothing of the object is used after the function has run.
call(c) ==
  /\ phase = "running"
  /\ ~Empty(c) /\ MayCall(callback[c])
  /\ Slot(callback[c]) # NoFunction
  /\ last_call' = <<callback[c].function, Slot(callback[c])>>
  /\ UNCHANGED <<callback, tracked, registry, generation, up, phase, hooked, next_function,
                 misfreed>>

-----------------------------------------------------------------------------
(* The server and the module's hooks.                                      *)

resource_started(r) ==
  /\ phase = "running"
  /\ r \notin up
  /\ up' = up \cup {r}
  /\ UNCHANGED <<callback, tracked, registry, generation, phase, hooked, next_function,
                 last_call, misfreed>>

\* ResourceStopped: the Hub ends the generation; then stores, timers and queued
\* tasks drop what they hold, each a `destroy'.
resource_stopped(r) ==
  /\ phase = "running"
  /\ r \in up /\ generation[r] < MaxGeneration
  /\ generation' = [generation EXCEPT ![r] = @ + 1]
  /\ phase' = "stopping" /\ hooked' = r
  /\ UNCHANGED <<callback, tracked, registry, up, next_function, last_call, misfreed>>

\* The hook ends by marking the references that are left.
Invalidated_Forgotten(entry) == entry
Invalidated(entry) == IF entry = NoEntry THEN NoEntry ELSE [entry EXCEPT !.dead = TRUE]

invalidate_resource_callbacks ==
  /\ phase = "stopping"
  /\ tracked' = [tracked EXCEPT ![hooked] = [ref \in Ref |-> Invalidated(tracked[hooked][ref])]]
  /\ phase' = "closing"
  /\ UNCHANGED <<callback, registry, generation, up, hooked, next_function, last_call, misfreed>>

\* The server closes the VM, and the registry with it.
vm_closed ==
  /\ phase = "closing"
  /\ up' = up \ {hooked}
  /\ registry' = [registry EXCEPT ![hooked] = NoSlots]
  /\ phase' = "running" /\ hooked' = NoResource
  /\ UNCHANGED <<callback, tracked, generation, next_function, last_call, misfreed>>

\* shutdown(): Scheduler::stop() first, which drops its closures.
stop ==
  /\ phase = "running"
  /\ phase' = "shutdown"
  /\ UNCHANGED <<callback, tracked, registry, generation, up, hooked, next_function,
                 last_call, misfreed>>

\* Only live references of the current generation belong to a reachable VM.
Reachable_Outdated(r, ref) ==
  ~tracked[r][ref].dead /\ tracked[r][ref].generation # generation[r] /\ r \in up
Reachable(r, ref) ==
  ~tracked[r][ref].dead /\ tracked[r][ref].generation = generation[r] /\ r \in up

release_all_callbacks ==
  /\ phase = "shutdown"
  /\ registry' = [r \in Resource |-> [ref \in Ref |->
                    IF Reachable(r, ref) THEN NoFunction ELSE registry[r][ref]]]
  /\ misfreed' = misfreed \cup {slot \in Resource \X Ref :
                     Reachable(slot[1], slot[2]) /\ registry[slot[1]][slot[2]] = NoFunction}
  /\ tracked' = [r \in Resource |-> [ref \in Ref |-> NoEntry]]
  /\ phase' = "released"
  /\ UNCHANGED <<callback, generation, up, hooked, next_function, last_call>>

\* notify_all_released() clears the stores (`destroy'); then manager is reset.
unload ==
  /\ phase = "released"
  /\ phase' = "unloaded"
  /\ UNCHANGED <<callback, tracked, registry, generation, up, hooked, next_function,
                 last_call, misfreed>>

Next ==
  \/ \E c \in Callback, r \in Resource : from_stack(c, r)
  \/ \E c, d \in Callback : move(c, d)
  \/ \E c \in Callback : destroy(c) \/ call(c)
  \/ \E r \in Resource : resource_started(r) \/ resource_stopped(r)
  \/ invalidate_resource_callbacks \/ vm_closed
  \/ stop \/ release_all_callbacks \/ unload

Spec == Init /\ [][Next]_vars

-----------------------------------------------------------------------------
(* Safety.                                                                 *)

\* "even if the fresh registry hands out the same luaL_ref index"
\* (callback.hpp:14-16): a call runs the function that was bound, or nothing.
CallRunsOwnFunction == last_call[1] = last_call[2]

\* The callback of a running VM works until it is released: neither the release
\* of a stale one with the same index nor a stop of another resource kills it.
LiveCallbackWorks ==
  phase \notin {"released", "unloaded"} =>
    \A h \in Held : h.resource \in up /\ h.generation = generation[h.resource] =>
      MayCall(h) /\ Slot(h) = h.function

\* luaL_unref is called once for a pinned function, by its own holder: freeing
\* a slot twice makes luaL_ref hand out one index to two functions.
UnrefOnce == misfreed = {}

\* No leak in a running VM: a pinned function has a Callback that will free it.
SlotHasOwner ==
  \A r \in up, ref \in Ref :
    registry[r][ref] # NoFunction /\ ~(phase = "closing" /\ r = hooked) =>
      \E h \in Held : h.function = registry[r][ref]

\* No leak in the module: the dead entries of ended generations stay only as
\* long as a Callback of that generation exists.
EntryHasOwner ==
  \A r \in Resource, ref \in Ref :
    tracked[r][ref] # NoEntry =>
      \E h \in Held :
        h.resource = r /\ h.ref = ref /\ h.generation = tracked[r][ref].generation

\* "release Lua references while the VMs are reachable" (module.cpp:147-148):
\* shutdown() leaves no function pinned in any running VM.
ShutdownFreesAll ==
  phase \in {"released", "unloaded"} => \A r \in up : registry[r] = NoSlots

-----------------------------------------------------------------------------
(* The inductive invariant.                                                *)

\* Objects never share a function, and each was bound in a generation that has
\* begun; no handle of the next generation exists before its VM does.
HeldInv ==
  /\ \A c, d \in Callback : callback[c] = callback[d] /\ ~Empty(c) => c = d
  /\ \A h \in Held : h.function < next_function /\ h.generation <= generation[h.resource]
  /\ \A h \in Held : h.resource \notin up \/ h.resource = hooked =>
       h.generation < generation[h.resource]
  /\ \A g, h \in Held :
       g.function = h.function
         \/ (g.resource = h.resource /\ g.ref = h.ref /\ g.generation = h.generation)
       => g = h

\* A live entry belongs to the VM that is up, during its stop still by the old
\* generation.
EntryInv ==
  \A r \in Resource, ref \in Ref :
    LET entry == tracked[r][ref] IN
    /\ entry.generation = 0 => entry.dead
    /\ entry # NoEntry => \E h \in Held :
         h.resource = r /\ h.ref = ref /\ h.generation = entry.generation
    /\ ~entry.dead =>
         /\ r \in up /\ phase \notin {"released", "unloaded"}
         /\ IF r = hooked THEN phase = "stopping" /\ entry.generation + 1 = generation[r]
            ELSE entry.generation = generation[r]

\* The holder of a live entry is the holder of the slot.
SlotInv ==
  /\ \A h \in Held : OwnsEntry(h) /\ ~Entry(h).dead => Slot(h) = h.function
  /\ phase \notin {"released", "unloaded"} =>
       \A h \in Held : h.resource \in up /\ h.generation = generation[h.resource] =>
         OwnsEntry(h) /\ ~Entry(h).dead
  /\ \A r \in Resource, ref \in Ref : registry[r][ref] # NoFunction =>
       /\ r \in up
       /\ ~(phase = "closing" /\ r = hooked) => \E h \in Held :
            /\ h.resource = r /\ h.ref = ref /\ h.function = registry[r][ref]
            /\ OwnsEntry(h) /\ ~Entry(h).dead

HookInv ==
  IF phase \in {"stopping", "closing"} THEN hooked \in up ELSE hooked = NoResource

IInv ==
  /\ TypeOK /\ HeldInv /\ EntryInv /\ SlotInv /\ HookInv
  /\ CallRunsOwnFunction /\ UnrefOnce

=============================================================================
