# A verification of the MTA server module SDK

The repository is a C++ SDK for loadable modules of the Multi Theft Auto server. The server
loads the module, gives every *resource* (a set of Lua scripts) a Lua VM of its own, lets the
scripts call the module's functions, and tells the module when frames pass and when resources
stop. The module in turn runs background work on threads, fires timers and calls Lua functions
back. Paths below are relative to `src/source/`.

## 1. Inventory

| Part | Source | State | Operations | Meets |
|---|---|---|---|---|
| Task scheduler | `sdk/runtime/scheduler.cpp`, `task.hpp` | the deque `tasks`, `completions`, `live_tasks`, `stopping`, `queue_limit` under `queue_mutex`; one `TaskState` per task under its own mutex; the workers | `start`, `run`/`post_task`, `configure`, `Task::cancel`, `worker_loop`, `pump`, `handle_resource_stopped`, `stop` | the Hub's generations, the VMs, callbacks (inside completion closures) |
| Timers | `sdk/runtime/scheduler.cpp`, `timer.hpp`, `timer.cpp` | the `timers` vector, `pump()`'s local vector, a shared `TimerState` per handle | `post_timer*`, `cancel_timer`, `Timer::cancel`, `pump`, `handle_resource_stopped`, `stop` | generations; completions that re-enter every operation |
| Callbacks | `sdk/runtime/callback.cpp` | `tracked_refs()`, the registry slots of the VMs, the handles | `from_stack`, moves, destruction, `call`, `invalidate_resource_callbacks`, `release_all_callbacks` | generations, VMs coming and going, shutdown |
| Resource hub, stores | `sdk/resources/` | sinks, `generations_`; a map per `Store`; the stores are static objects | `add`, `remove`, `notify_*`, `generation`, `bump_generation`; `for_state`, `try_find` | everything that outlives a call |
| Module lifecycle | `sdk/abi/module.cpp` | the manager pointer | `initialize`, `register_functions`, `pulse`, `resource_stopping`, `resource_stopped`, `shutdown` | calls all of the above, in an order that matters |
| Handle map, samples | `library/base/handle_map.hpp`, `functions/` | ids to handles, per resource | `sample_task_*`, `sample_after*`, `sample_every`, `bench_callback_*` | stores, tasks, timers, callbacks |
| Argument values | `sdk/lua/argument.cpp`, `arguments.cpp`, `table_helpers.hpp` | none | reading and pushing nested Lua values, depth limit, fields by name | the binder, completions |
| Binder, stack traits | `sdk/bind/bind.hpp`, `sdk/lua/stack.hpp` | the function of each registration site (`holder`) | arity dispatch, conversions, metadata | protected calls, the registry |
| Protected calls, errors, diagnostic context | `sdk/lua/protect.hpp`, `state.hpp`, `sdk/errors/` | the per-thread context | error translation, scopes | all module functions |
| Registry | `sdk/registry/` | the function table | the registration macros, `register_all`; `module_signature` reads it | the server, the binder |
| Userdata | `sdk/objects/userdata.hpp` | per type its name, registrar and recorded methods; per VM metatables and boxed objects | `set_type_name`, `set_methods`, `ensure`, `create`, `check`, methods, `__gc` | VMs, the docs generator |
| Native wrappers, events, logging | `sdk/native/`, `sdk/events/`, `sdk/logging/` | none worth modelling | forwarding, formatting | the server |
| Vendored Lua, build files, tools, test server, documents | `src/other/`, `src/config/` | - | - | - |

What is hard here:

* **Threads.** Workers and the main thread share the queue; a task handle may be used from
  anywhere. Cancelling, finishing, stopping a resource and shutting down race each other.
* **Generations.** A resource that restarts has the old name, a fresh VM, and a registry that
  hands out the old indices again. Everything that outlives a call (a task, a timer, a callback)
  must recognise that its VM is gone.
* **Re-entrance.** A completion that runs inside `pump()` can post, cancel, and see resources stop,
  while `pump()` stands in the middle of a loop.
* **Order of teardown.** The resource hook and `shutdown()` take the components down one after
  another, and handles are destroyed in between and afterwards; static objects of several files are
  constructed and destroyed in an order nobody writes.
* **State of the process beside state of the VMs.** Metatables and globals belong to a VM, which comes
  and goes; holders, recorded methods and type names belong to the process and are made once.
* **Failure half-way.** Constructors, registrars and conversions throw between two steps, and the
  server may refuse a name.

The hazards, with the line where each bites and the properties aimed at it, are listed in
`PROJECT.json`.

## 2. What is modelled

### `TaskScheduler` (tasks and worker threads)

One action is one critical section of the code, or one statement between two of them, so TLC
sees every interleaving the mutexes allow:

| Code | Actions |
|---|---|
| `post_task()` | `post_task` (the section under `queue_mutex`), then `notify_one` after its release |
| `worker_loop()` | `worker_wait`, `spurious_wakeup`, `worker_exit`, `worker_dequeue` (pop, skip or set running), `worker_finish` (after `job.work()`) |
| `Task::cancel()` | `cancel`, at any moment after the handle was returned, by any thread |
| `pump()` | `pump_swap`, `pump_deliver` per completion, `callback_return`, `pump_end` |
| `stop()` | `stop_begin`, `notify_all`, `stop_join` |
| resource hook | `resource_stopped` (the generation ends) and `handle_resource_stopped`, two steps, because workers pop in between |
| the server | `resource_started` |

A task is its id. Ids are handed out where the job is pushed, so the deque is in id order and is
modelled by a set. What `work()` returns is left out: success and error take the same way. Inside a completion
(`main = "callback"`) the module's functions may be called, and resources may start and stop; the
repository's own harness does stop resources from there. A `pump()` inside a `pump()` is left
out: the server calls `DoPulse` from its frame loop only.

`AsyncTasks` is the contract: a task is pending until its completion runs once or is suppressed,
and it is suppressed only by a cancel, in the very step that answers true (`acked`, which the
scheduler's `cancel_acked` is), the end of its owner's generation, or the shutdown; in any other step a
pending task stays pending or is delivered. `ImplementsAsyncTasks` says that the scheduler implements
it under the mapping `AbstractOutcome`: so a worker that suppresses, or a `pump()` that skips, a
completion nobody has cancelled breaks it, as does one that delivers after the answer.

### `Timers`

The due timers leave the vector before any of their completions runs, and come back one by one.
`pump_snapshot`, `pump_fire`, `pump_rearm`, `pump_end` are the parts of `pump()`;
`post_timer`, `cancel` (through a handle), `cancel_timer` (by id), `resource_stopped` and `stop`
are the operations, allowed outside `pump()` and inside a completion (`stop` outside only). Time
is relative (`wait` is what is left of `next_fire`, `elapsed` what has passed since `pump()` read
the clock), so the clock is finite. The order within the vectors is abstracted to any order. A
completion that throws is treated like one that returns, as in the code. What `valid()` means is
`HandleTellsTruth`, which the code and its documents agree on: a valid handle has a timer, and a timer
that will fire again for its VM has a valid handle. Where they part (timers that `pump()` has in hand when
their resource stops, or that fire for the last time, and what `stop()` clears) are definitions of their
own, below; exactly what the code does is `HandleInv`, a part of `IInv`.

### `Callbacks`

A handle is the record of `resource_`, `ref_`, `generation_`, and as history the function it was
bound to; a registry slot shows whose function it holds. `move`, `destroy` and
`call` are the object's operations, `untrack_ref` the common helper. The resource hook is split where handles
may be destroyed in between (`resource_stopped`, `invalidate_resource_callbacks`, `vm_closed`),
and so is `shutdown()` (`stop`, `release_all_callbacks`, `unload`). Handles may be destroyed at any time
on the main thread, also after the module is unloaded (objects with static storage). It is assumed
that the VM runs no Lua between the hook and its closing, which is what the server does.

### `SampleTimers` (the timer functions, and the order of teardown)

The first composition. It holds the variables of `Timers` and `Callbacks`, takes both by
`INSTANCE` and moves them together: `sample_timer` pins a function, makes the closure own the
`Callback`, posts the timer and stores the handle; `sample_cancel` looks an id up among the handles
of the calling resource; the parts of `pump()` are those of `Timers`, and `destroy_closure` runs
the destructor of a `Callback` wherever the last vector that owned its closure lets go of it
(`spent` is what `pump()` has dropped and its local vector still holds). The hooks of
`abi/module.cpp` are split as in the code: stores, scheduler, callbacks, VM, with closures dying in
between. Delays are cast to an `int` of `IntBits` bits. `ImplementsTimers` and
`ImplementsCallbacks` say that the module uses each component only in ways its own specification
allows, so that the theorems about the components hold of the composition.

### `DiagnosticContext` (protected calls, and what log lines are attributed to)

One context per thread; each frame that owns a `ScopedDiagnosticContext` saves the previous one.
`protected_call_named`, `call` (a callback), `pump_task`, `pump_timer`, `worker_loop` enter a
frame, `leave` is the destructor, `protected_call_error` the way of an error through `luaL_error`.
Whether that `longjmp` runs destructors is the platform's choice, the constant `LongjmpUnwinds`.

### `Dispatch` (the typed binder)

The templates see classes of parameters and how many of the last ones have defaults; a call is a
sequence of what the readers tell apart. `dispatch` picks the prefix to read, `pull_param` reads
one parameter, `invoke_prefix` and `error_probe` are the two ends. The initial state is any
signature with any call.

`signature_of` is the metadata that is published of the same signature, with `listed`, the parameters
a script passes. The names of this module's specification begin with a D (`DSpec`) and those
of `Registration` with an R (`RSpec`), so that one module can hold the proofs of both.

### `ArgumentValues` (snapshots of Lua values)

`Argument::read` and `push` with the recursion made explicit, in the frame of `sample_echo`,
`sample_table_get` and `sample_table_set`, which read or change a field between the two with
`get_field` and `set_field`: `read_argument`, `read_entry` (one turn of the `lua_next` loop, the keys in any order),
`read_table_end`, `settop`, `push_argument`, `push_item`, `set_item` (`lua_rawseti` and
`lua_rawset`, which take whatever lies on top), `push_table_end`, `push_end`. The Lua values of an
instance are the constant `Value`, closed under what its tables hold. The reference is
`Copy`, a function over `Value` by levels: positions and names down to the depth limit, `Opaque` where a field
cannot be copied. `Meant` are the values whose copies the called function is to return, `Returned` those
of them that come back at all, `Place` where. `Height` counts the slots of the stack in use. Numbers, strings,
booleans and light userdata are not told apart, and equal keys and shared tables are left out: a snapshot
copies by value. A table as a key is read too, and the result thrown away; it is an odd key here, and takes no
more slots than a value in its place.

### `Resources` (the Hub, its sinks, and their life as static objects)

From the load of the module to the destruction of its static objects, all on the main thread.
`construct_store` and `destroy_static` keep the order of construction (`statics`: the Hub is
completed by the first store's constructor, the scheduler and `tracked_refs()` by their first
use). `hold` and `release` are the functions of `bench/callback.cpp` on a
`Store<HandleMap<id, Callback>>`; `add` and `remove` are those of the Hub; a notification is begun by
`resource_stopping`, `resource_stopped` or `shutdown`, takes one sink per step in any order from its
copy (`notify_store`, `notify_watcher`: a watcher's callback subscribes and unsubscribes
others), and ends in `notified` or `shutdown_end`. What `handle_resource_stopped` and the Callbacks
do meanwhile is the business of `SampleTimers`.

### `Userdata` (objects with methods)

`Registry<T>` of every type at once: the names and registrars that static initializers set, the list
of object types, the methods recorded for tooling, and per VM the metatables and objects.
`create` makes the metatable on first use (`ensure`, which runs the registrar), allocates, constructs
or throws; `registrar_throws` is an attempt that stops half-way; `call` applies the method of a type,
taken from any metatable, to any value; `call_gc` is a script that calls a `__gc` it took from a
metatable (`ensure` sets no `__metatable`) on an object it holds, its own type's or another's, any number
of times; `materialize` is the docs generator's; `collect` and
`close_vm` are Lua's, and run `__gc` whatever scripts have done. The histories `gone` and `called`
tell the two apart: `FinalizedOnce` is what holds of the first whatever the second, and that nothing
without a constructor is in the second; `DestroyedOnce` and `MethodsOnLiveObjects`, which the documents
promise, do not hold (below). `SharedNames` admits two types under one declared name, which `MTA_OBJECT` does
not refuse; the run and the theorems are about `FALSE`.

### `Registration` (from the macro to the function that a name runs)

A site is a macro in a file; `holder` is the static storage that `register_typed` gives it, named by
`__COUNTER__`, which every file counts for itself, and the type of the function. `register_typed`
runs the sites of each file in order and the files in any interleaving; `register_next` is one turn
of `register_all`, which the server may refuse; `close` ends a VM. `module_signature` is what
the function of that name describes: the first entry of the name.

## 3. What the runs show

| Run | Bounds | Shows |
|---|---|---|
| `tasks` | 2 workers, 1 resource, 2 tasks, 3 generations, queue limit 1, 2, or configured as 0 | safety (`CancelSuppresses`, `DeliveredToPoster`, `NoJobBehindSleeper`, `StoppedMeansSettled`, `NoStaleStart`), the refinement `ImplementsAsyncTasks`, liveness (`QueuedTaskSettles`, `CompletionsDrain`, `StopReturns`), the inductive invariant `IInv` |
| `timers` | 2 timers, delays -1 and 2, counts -1, 0, 1 and 2, 3 generations | `FireLimit`, `HandleTellsTruth`, `DroppedStaysSilent`, `NoFireAcrossRestart`, `ScheduledTimerFires` |
| `callbacks` | 2 resources, 2 indices, 3 handles, 3 functions, 3 generations | `CallRunsOwnFunction`, `LiveCallbackWorks`, `UnrefOnce`, `SlotHasOwner`, `ShutdownFreesAll` |
| `sample_timers` | 1 resource, 2 indices, 3 timers (limited and endless), 2 generations, delays -2, 6 and 8 cast to 3 bits | `StoreIsFresh`, `ScheduledTimerCanCall`, `PinnedMeansScheduled`, `StoppedRunsNothing`, `ImplementsTimers`, `ImplementsCallbacks` |
| `context` | 2 resources, 1 worker, a body-style and a typed function, 5 nested frames, `LongjmpUnwinds` | `ContextIsCurrent` |
| `dispatch` | all signatures of up to 3 parameters, all calls of up to 3 arguments | `CalledWithItsArguments`, `NothingDropped`, `ErrorNamesTheFault`, `SignatureIsHonest` |
| `values` | tables of up to 3 entries over 3 positions, 2 names and an odd key; nesting to 3 with a depth limit of 2; calls of up to 2 arguments; fields read and written, present, absent and of the wrong type | `RoundTrip`, `ThreeSlotsPerLevel` |
| `resources` | 2 resources, 2 stores, 2 other sinks, 2 ids, 3 generations | `FreshState`, `HandlesAreOwn`, `ExitInReach` |
| `userdata` | 2 types, 1 name, 1 method, 2 VMs, 2 objects, any calls of methods and of `__gc` | `OwnTypeOnly`, `FinalizedOnce`, `MethodsComplete` |
| `registration` | 2 files of 2 sites, 2 VMs | `SignatureDescribesCallee` |

The bounds are small and sufficient for what the properties relate: two workers for one to sleep
while the other works, two tasks for one to wait behind the other, two timers for one to act on
the other in a dispatch (three where an index must be bound again in between), three generations
for a handle that is two restarts old, two indices and three handles for an index to be reused
while a stale handle and a live one exist, three positions for a hole and an element that arrives
before those in front of it, one nesting more than the depth limit, two stores and two
sinks for one to go while the other is called, two types, VMs and objects for a metatable or a
destructor of one to be taken for the other's (a registrar with one method stops before it or not), two files for their counters to coincide. The theorems below do not
depend on them. Symmetry is used where only safety is checked. `CHECK_DEADLOCK FALSE` stands where
the system really stops: an unloaded module with no handle left, a call that has returned, an
error that has been raised, a terminated process or a bound on nesting.

**Fairness.** `FairSpec` of the tasks assumes that a thread that can run runs (`worker_step`, and
the rest of a call the main thread is in), that `job.work()` and completions return, and that
`pump()` comes round as long as the main thread keeps coming back to its loop (strong fairness of
`pump_swap`, because calls into the module interleave with the frames). `FairSpec` of the timers
adds that time passes. Nobody is obliged to post, cancel, start or stop.

**Disagreements between the code and its documentation**, each a run that TLC refutes:

| Run, property | The code | The text |
|---|---|---|
| `tasks_worker_frees`, `CompletionDiesOnMain` | completion closures of cancelled tasks, with the callbacks they own, die on worker threads | `callback.hpp:20` |
| `values_balance`, `PushBalanced` | a field that held a function is pushed as a key without a value, and `lua_rawset` takes the table instead | `argument.hpp:68` |

Other such definitions stand in the modules without a run of their own; TLC refutes each when it is
added to the configuration of the module, with the constants that are named:

| Definition | The code | The text |
|---|---|---|
| `CancelIsFinal` (`Timers`) | a timer cancelled by another one's completion in the same `pump()` fires once more | `timer.hpp:47` |
| `StopInvalidates` (`Timers`) | the handle of a timer that `pump()` has in hand stays valid when its resource stops, and an `every` timer is armed once more before the next `pump()` drops it | `timer.hpp:10`, `scheduler.cpp:478`, `other/documents/api.md:415` |
| `StaleNeverFires` (`Timers`) | a timer whose resource is stopped by an earlier completion of the same `pump()` fires once more (it does not reach Lua: `StoppedRunsNothing`) | `timer.hpp:13`, `resources.hpp:26`, `other/documents/api.md:450` |
| `ValidMeansFiresAgain` (`Timers`) | a handle is valid while the completion of its last fire runs | `timer.hpp:8` |
| `DefaultsApply` (`Dispatch`) | required parameters are counted, not located: a default behind an optional that is passed is not applied | `other/documents/api.md:129` |
| `StackReserved` (`ArgumentValues`, `MaxTableDepth = 32` and a table nested deeper) | reading takes 3 stack slots per level without `lua_checkstack`, and a C function has 50; by `ThreeSlotsPerLevel` a depth limit of 16, or a check of 96 slots, would do | `lua.h:98`, `GUIDES.md:146` |
| `NameRunsItsFunction` (`Registration`, `Source <- Pointers`) | two files whose macros with the same number register plain functions of one type share a holder, and both names run the later one; the repository registers lambdas only | `bind.hpp:721` |
| `RemovedStaySilent` (`Resources`) | a sink that another one's callback has removed is called in the same walk | `resources.cpp:23` speaks of itself only |
| `MethodsAlways` (`Userdata`) | after a registrar has thrown half-way the metatable stays, and later `create`s of the VM do not complete it | `userdata.hpp:141` |
| `DestroyedOnce` (`Userdata`) | `getmetatable(c).__gc(c)` runs the destructor, and the collector runs it again; `__gc` of another type runs the wrong one | `userdata.hpp:35`, `GUIDES.md:255`, `other/documents/api.md:486` |
| `MethodsOnLiveObjects` (`Userdata`) | a method accepts an object whose destructor a script has called: `check()` compares metatables | `GUIDES.md:256` |
| `OwnTypeOnly`, `MethodsComplete` (`Userdata`, `SharedNames = TRUE`) | two types under one `MTA_OBJECT` name share a metatable: methods of one run on objects of the other | `userdata.hpp:190` |
| `DoneMeansSettled` (`TaskScheduler`) | a task is `Done`, and `done()` true, before its completion has run | `task.hpp:30`, `task.hpp:54` |
| `LiveEntryHasJob` (`TaskScheduler`) | cancel a queued task, then stop its resource: the entry in `live_tasks` stays | `scheduler.cpp:105` |
| `ValidMeansScheduled` (`Timers`) | `stop()` drops timers without marking their handles | `scheduler.cpp:86` |
| `NothingStaleOutside` (`DiagnosticContext`, `LongjmpUnwinds = FALSE`) | the context of a function that failed stays after the call | `protect.hpp:20` |
| `ErrorsBecomeLuaErrors` (`DiagnosticContext`, `LongjmpUnwinds = TRUE`) | errors of typed functions leave a `noexcept` entry point by `longjmp` | `protect.hpp:136`, `GUIDES.md:179` |
| `EchoKeepsPositions` (`ArgumentValues`) | a function among the arguments of `sample_echo` shifts those behind it | `echo.cpp:6` |

A delay wider than `int` wraps (`timer_demo.cpp:33`): `sample_after` with 2^32 + 1 ms fires after
one. `SampleTimers` models the cast; the components behind it see a legal delay, so that no property can
tell it from one that was asked for.

Fields that hold functions have no copy, and `RoundTrip` says nothing of tables with such fields (they
are `Opaque` to it); what they do to the stack is `PushBalanced`.

One more is read off the code and not modelled: the capability flag of a Lua function
argument is not set for `std::optional<Callback>` (`bind.hpp:245`, against `bind.hpp:105`).

## 4. What is proved

Every invariant and every action property of the passing runs is a theorem.
`TaskSchedulerProofs`, `TimersProofs`, `CallbacksProofs`, `ResourcesProofs`, `UserdataProofs` and
`FunctionCallProofs` (what a call of a module function goes through: `Registration`, `Dispatch`,
`DiagnosticContext`) prove that `IInv`, `RInv` or `DInv` of their module is inductive and from it
the safety properties of its run, the refinement `ImplementsAsyncTasks` included;
`SampleTimersProofs` proves those of the composition from the theorems of its parts, and
`ArgumentValuesProofs` those of the conversions, with `VInv` and `FInv`. They hold for
every set of workers, resources, indices, handles, stores, types, VMs, sites, signatures and Lua values and
every bound, from the assumptions named in the modules (`SchedulerAssumption`, `TimersAssumption`,
`CallbackAssumption`, `SampleTimersAssumption`, `ContextAssumption`, `ResourcesAssumption`,
`UserdataAssumption`, `DispatchAssumption`, `ArgumentAssumption`, `ValueAssumption`, `CallAssumption`).
Beyond the properties of the runs they prove `TypeOK`, `DeliveredAtMostOnce`,
`TerminalIsFinal`, `TimerInOnePlace`, `EntryHasOwner`, `NothingOutlivesVM` and `NameRunsItsFunction`.
Each proof has one lemma per action that touches what the invariant relates, and one step per conjunct
below it.

* *Tasks.* `IInv` says where a task can be in each status: a queued one in the deque and in
  `live_tasks`, a running one with exactly one worker, a done one in at most one of `completions`
  and `pump()`'s vector and not delivered while it is there. `CancelSuppresses` follows because an
  acknowledged task is either cancelled, or running with the flag set, and both exclude a
  delivery. `DeliveredToPoster` needs `GenerationInv`: the generation of a resource counts its VMs.
  `NoJobBehindSleeper` is inductive by itself: a post adds one job and owes one notification, a
  worker that takes a job takes one, and every way out of the wait adds a worker at the mutex.
* *The refinement of `AsyncTasks`.* Each action is shown to be one of the contract or a stutter under
  `AbstractOutcome`. Beside `IInv` this needs `RestInv`: `pump()`'s vector is empty between two
  `pump()`s (else the swap would lose completions), nothing finished waits in a stopped scheduler
  (else `start()` would bring it back), a requested cancel is of a task that is running or cancelled,
  and no task is of a generation still to come, so that what is stale once stays stale
  when the resource is started again.
* *Timers.* The vectors are disjoint, and the fires made and left of a limited timer add up
  (one more while it fires). A handle is valid exactly while its timer is in a vector or in `pump()`'s
hands and not cancelled (`HandleInv`), from which `HandleTellsTruth` follows. `DroppedStaysSilent` and `NoFireAcrossRestart` are proved as properties
  of every step from that.
* *Callbacks.* `EntryInv` and `SlotInv` tie the three tables together: a live entry belongs to
  the VM that is up, is owned by exactly one handle, and that handle's function is in the slot.
  It follows that a call finds its own function, that a slot is never freed twice, and that
  `release_all_callbacks()` leaves nothing behind.
* *Timer functions.* `TimersImplemented` and `CallbacksImplemented` show that each step of the module is a
  step of `Timers` and of `Callbacks` or leaves them alone. So the invariants proved of the two hold here:
  `SampleTimersProofs` instantiates `TimersProofs` and `CallbacksProofs` with the module's parameters,
  after proving that these satisfy what the components assume. `LinkInv` is all that is new:
  a timer that some vector holds has its `Callback`, which is of the timer's owner and generation, and
  a Store has the ids of the current VM. From the three follow that a scheduled timer can call its
  function, that nothing stays pinned without a timer, and that a stopped resource runs nothing.
* *Diagnostic context.* `SavedInv` says that every scope has saved what the frame under it is
  attributed to; with it the context is right at any depth and on any number of threads, under the
  hypothesis `LongjmpUnwinds`, without which it is false (`NothingStaleOutside`).
* *Dispatch*, for signatures and calls of any length. `next_index` is the place of the next parameter:
  one more than the parameters read so far that take an argument, so that reading keeps each argument at its
  own parameter. `dispatch` compares numbers, and the properties speak of positions; the lemmas between the
  two count the parameters of a kind in prefixes of the signature. From them follow that the chosen prefix is the longest
  one that can be called, that nothing with a parameter is dropped, that what is blamed is the first fault, and that a
  call by the published metadata is no error.
* *Argument values*, for any values, depth limit and order of `lua_next`. Recursion over data is
  replaced by a set `R` of snapshots (an Argument, the value it stands for, a depth) that is *closed*: with a
  table above the depth limit it has a snapshot of each of its entries. Reading only adds to `R`, a table when its
  parts are in it, in whatever order they came (`Fits`). Pushing builds in the slot of each open call
  `Partial`, the copies of the items before the next one, which after the last is `Whole`, the copy of the
  table by its level (`copy` itself is unfolded one level at a time); `UpTo` gives each result its place. This
  is `VInv`, from which `RoundTrip` follows. It says nothing of the stack where a field cannot be copied, and
  `BalancedWhenCopied` and `EchoWithoutFunctions` show that such a field (or a function as an argument) is the only
  way to the disagreements `PushBalanced` and `EchoKeepsPositions` of section 3. `FInv` is about all calls:
  each open call has its table and at most two operands on the stack, so that `ThreeSlotsPerLevel` and
  `TypeOK` hold also where the fields of a table go wrong.
* *Resources.* `DataInv` and `FreshState` say that a store has a map only for a VM that is up and in its
  generation, or while its own turn in the walk is still to come, which `StaticsInv` (a store is
  subscribed from its construction on) guarantees; ids only grow, so that two maps never share one.
  `ExitInReach` needs two facts: the Hub is the oldest static object, and after the last walk no
  store holds a Callback.
* *Userdata*, under `~SharedNames`. `NamesInv` makes `identity` injective, so that `MetaInv` can
  say that what is made under a type's identity is that type's, with all methods unless the registrar
  has thrown there; `ObjectInv` says that an object has a metatable exactly when its
  constructor has returned, and that it is its type's. A script calls destructors only on what it holds,
which is constructed, and that changes neither object nor metatable: hence `FinalizedOnce`.
* *Registration*, under `OwnHolders` (no two sites share a holder) and, for the metadata,
  `OwnNames`. `ClosuresOwnTheirHolders` shows that `OwnHolders` holds of sites whose functions have types
  of their own, as lambdas have.

`RestInv` and `LinkInv` were model-checked on the instances of the runs `tasks` and `sample_timers` too.
`InitialLimit`, `QueueLimits` and the delays are arbitrary; that every delay is at most `MaxElapsed` is
an assumption about the bound of the modelled clock, not about the code.

Model-checked only: liveness (`QueuedTaskSettles`, `CompletionsDrain`, `StopReturns` and
`ScheduledTimerFires`), because fairness and `ENABLED` are beyond the prover.

## 5. Plan

Done, in this order:

1. Tasks, timers and callbacks with the proofs of their inductive invariants; the timer functions and the
   teardown as a composition; the diagnostic context; arity dispatch; the round trip of Lua values.
2. `Resources`: the walk over the sinks, the stores and their references, the static objects and the
   benchmark callback; `Userdata`; `Registration` and the metadata.
3. The proofs of the refinement of `AsyncTasks`, of `NoJobBehindSleeper`, and of the composition of timers and
   callbacks from the theorems of its parts.
4. The theorems about `Dispatch` for every arity, and about the round trip of Lua values and the slots it takes.

Left, most useful first:

1. A composition of `TaskScheduler` with `Callbacks`, as `SampleTimers` is for timers: a task's completion
   owns a `Callback` too, and `CompletionDiesOnMain` (the finding of run `tasks_worker_frees`) says where
   it may die.
2. Conversions of single scalars and of results (`stack.hpp`), and `Arguments::call`.

## 6. Not modelled

Scripts that assign to the fields of an object's metatable, and `__gc` called on a value that no `Registry`
made. Of a destructor that runs a second time, or a method that runs on what is destroyed, only that it
happens is recorded (`called`): what it does is undefined.

Logging and formatting, the thin wrappers of server calls, the conversion of single scalars and the
layout of results, the build system, the test server and tools, and vendored code. The server, the
Lua VMs and `luaL_ref` are modelled from how the module uses them and are marked external in
`PROJECT.json`.
