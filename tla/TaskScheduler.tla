---------------------------- MODULE TaskScheduler ----------------------------
(***************************************************************************)
(* The background-task half of mta::async::Scheduler                       *)
(* (sdk/runtime/scheduler.cpp, task.hpp): the server's main thread posts   *)
(* tasks, a pool of workers runs them, the main thread delivers their      *)
(* completions in pump(), and resources stop and restart in between.       *)
(*                                                                         *)
(* One action is one critical section of the code (queue_mutex, then       *)
(* state->mutex), one main-thread statement between two of them, or one    *)
(* step of the server.  A task is named by its TaskState::id, handed out   *)
(* in the critical section that pushes the job, so the deque `tasks' is    *)
(* always in increasing id order and is modelled by the set of its ids,    *)
(* its front being the smallest.                                           *)
(***************************************************************************)
EXTENDS Naturals, Sequences, FiniteSets, Functions

CONSTANTS
  Worker,         \* the worker threads start() spawns
  Resource,       \* the server's resources
  NoResource,     \* the empty resource name of an unattributed task
  MaxTask,        \* bound: tasks ever accepted
  MaxGeneration,  \* bound: generations a resource lives through
  InitialLimit,   \* configured_queue_limit()
  QueueLimits     \* the arguments configure() is called with

ASSUME SchedulerAssumption ==
  /\ Worker # {} /\ IsFiniteSet(Worker)
  /\ NoResource \notin Resource
  /\ MaxTask \in Nat /\ MaxGeneration \in Nat
  /\ InitialLimit \in Nat \ {0}
  /\ QueueLimits \subseteq Nat

Task == 1..MaxTask
NoTask == 0
Terminal == {"Done", "Cancelled"}
Status == {"Unposted", "Queued", "Running"} \cup Terminal

VARIABLES
  (* The scheduler (Scheduler::Impl), shared under queue_mutex *)
  tasks,             \* ids of the queued jobs
  completions,       \* finished jobs not yet taken by pump()
  live_tasks,        \* ids in the live_tasks map
  stopping,          \* the atomic flag
  queue_limit,
  next_task_id,
  (* One TaskState and TaskJob per task *)
  status,            \* "Unposted" before post_task()
  cancel_requested,
  job,               \* the owner and its generation; vm is history: the VM that posted it
  (* The threads *)
  thread,            \* each worker: none, ready (at queue_mutex), waiting (in
                     \* queue_signal.wait), working (in job.work()), exited
  running,           \* the job a worker has in hand
  main,              \* main thread: idle, pump, callback (in a completion), joining
  ready,             \* pump()'s local vector of swapped completions
  signal,            \* a notify_one/notify_all main has still to issue
  sweep,             \* resource whose ResourceStopped hook is half done
  (* The server and the Hub *)
  generation,        \* Hub::generations_
  boots,             \* history: VMs ever created for a resource
  up,                \* resources GetResourceFromName finds a VM for
  (* History of what the module promised and did *)
  cancel_acked,      \* tasks for which Task::cancel() returned true
  deliveries,        \* per task, the VM each run of its completion was for
  freed_by_worker    \* tasks whose completion closure died on a worker thread

shared  == <<tasks, completions, live_tasks, stopping, queue_limit, next_task_id>>
states  == <<status, cancel_requested, job>>
threads == <<thread, running, main, ready, signal, sweep>>
server  == <<generation, boots, up>>
history == <<cancel_acked, deliveries, freed_by_worker>>
vars    == <<shared, states, threads, server, history>>

JobType == [resource : Resource \cup {NoResource}, generation : Nat, vm : Nat]
NoJob   == [resource |-> NoResource, generation |-> 0, vm |-> 0]

TypeOK ==
  /\ tasks \subseteq Task
  /\ completions \in Seq(Task) /\ ready \in Seq(Task)
  /\ live_tasks \subseteq Task
  /\ stopping \in BOOLEAN
  /\ queue_limit \in Nat \ {0}
  /\ next_task_id \in 1..MaxTask + 1
  /\ status \in [Task -> Status]
  /\ cancel_requested \in [Task -> BOOLEAN]
  /\ job \in [Task -> JobType]
  /\ thread \in [Worker -> {"none", "ready", "waiting", "working", "exited"}]
  /\ running \in [Worker -> Task \cup {NoTask}]
  /\ main \in {"idle", "pump", "callback", "joining"}
  /\ signal \in {"none", "one", "all"}
  /\ sweep \in Resource \cup {NoResource}
  /\ generation \in [Resource -> Nat \ {0}]
  /\ boots \in [Resource -> Nat]
  /\ up \subseteq Resource
  /\ cancel_acked \subseteq Task
  /\ deliveries \in [Task -> Seq(Nat)]
  /\ freed_by_worker \subseteq Task

Init ==
  /\ tasks = {} /\ completions = <<>> /\ live_tasks = {}
  /\ stopping = FALSE
  /\ queue_limit = InitialLimit
  /\ next_task_id = 1
  /\ status = [t \in Task |-> "Unposted"]
  /\ cancel_requested = [t \in Task |-> FALSE]
  /\ job = [t \in Task |-> NoJob]
  /\ thread = [w \in Worker |-> "none"]
  /\ running = [w \in Worker |-> NoTask]
  /\ main = "idle" /\ ready = <<>> /\ signal = "none" /\ sweep = NoResource
  /\ generation = [r \in Resource |-> 1]
  /\ boots = [r \in Resource |-> 0]
  /\ up = {}
  /\ cancel_acked = {}
  /\ deliveries = [t \in Task |-> <<>>]
  /\ freed_by_worker = {}

-----------------------------------------------------------------------------
(* Main thread: starting, posting, configuring, cancelling.                *)

\* Between two statements: nothing left to notify, no hook half done.
Settled == signal = "none" /\ sweep = NoResource

\* Module functions run when the server calls Lua: outside pump(), or inside
\* a completion that pump() is running.
MainFree == Settled /\ main \in {"idle", "callback"}

NoThreads == \A w \in Worker : thread[w] = "none"

start ==
  /\ Settled /\ main = "idle"
  /\ NoThreads
  /\ stopping' = FALSE
  /\ thread' = [w \in Worker |-> "ready"]
  /\ UNCHANGED <<tasks, completions, live_tasks, queue_limit, next_task_id, states,
                 running, main, ready, signal, sweep, server, history>>

\* run(): the calling resource and its current generation.
Attribution(r) ==
  IF r = NoResource THEN NoJob
  ELSE [resource |-> r, generation |-> generation[r], vm |-> boots[r]]

AcceptsTask == ~stopping /\ Cardinality(tasks) < queue_limit

\* post_task() leaves one waiting worker to be notified.
SignalForPost_Forgotten == "none"
SignalForPost == "one"

post_task(r) ==
  /\ MainFree
  /\ r \in up \cup {NoResource}
  /\ next_task_id \in Task
  /\ AcceptsTask      \* else the caller gets an invalid handle and nothing changes
  /\ status' = [status EXCEPT ![next_task_id] = "Queued"]
  /\ job' = [job EXCEPT ![next_task_id] = Attribution(r)]
  /\ tasks' = tasks \cup {next_task_id}
  /\ live_tasks' = live_tasks \cup {next_task_id}
  /\ next_task_id' = next_task_id + 1
  /\ signal' = SignalForPost
  /\ UNCHANGED <<completions, stopping, queue_limit, cancel_requested, thread, running,
                 main, ready, sweep, server, history>>

ClampLimit(limit) == IF limit = 0 THEN 1 ELSE limit

configure(limit) ==
  /\ MainFree
  /\ queue_limit' = ClampLimit(limit)
  /\ UNCHANGED <<tasks, completions, live_tasks, stopping, next_task_id, states,
                 threads, server, history>>

\* post_task() hands the handle out only after its notify_one().
HandleReturned(t) == t < next_task_id /\ ~(signal = "one" /\ t = next_task_id - 1)

\* Any holder of a handle may cancel at any time: the state has its own mutex.
\* A finished task answers false and nothing changes.
cancel(t) ==
  /\ HandleReturned(t)
  /\ \/ /\ status[t] = "Queued"
        /\ status' = [status EXCEPT ![t] = "Cancelled"]
        /\ UNCHANGED cancel_requested
     \/ /\ status[t] = "Running"
        /\ cancel_requested' = [cancel_requested EXCEPT ![t] = TRUE]
        /\ UNCHANGED status
  /\ cancel_acked' = cancel_acked \cup {t}
  /\ UNCHANGED <<shared, job, threads, server, deliveries, freed_by_worker>>

\* notify_one() and notify_all(), called after the mutex is released.
notify_one ==
  /\ signal = "one"
  /\ signal' = "none"
  /\ \/ \E w \in Worker : thread[w] = "waiting" /\ thread' = [thread EXCEPT ![w] = "ready"]
     \/ (\A w \in Worker : thread[w] # "waiting") /\ UNCHANGED thread
  /\ UNCHANGED <<shared, states, running, main, ready, sweep, server, history>>

notify_all ==
  /\ signal = "all"
  /\ signal' = "none"
  /\ thread' = [w \in Worker |-> IF thread[w] = "waiting" THEN "ready" ELSE thread[w]]
  /\ UNCHANGED <<shared, states, running, main, ready, sweep, server, history>>

-----------------------------------------------------------------------------
(* The worker loop.                                                        *)

worker_wait(w) ==
  /\ thread[w] = "ready"
  /\ ~stopping /\ tasks = {}
  /\ thread' = [thread EXCEPT ![w] = "waiting"]
  /\ UNCHANGED <<shared, states, running, main, ready, signal, sweep, server, history>>

\* std::condition_variable may wake for no reason; the predicate is re-tested.
spurious_wakeup(w) ==
  /\ thread[w] = "waiting"
  /\ thread' = [thread EXCEPT ![w] = "ready"]
  /\ UNCHANGED <<shared, states, running, main, ready, signal, sweep, server, history>>

worker_exit(w) ==
  /\ thread[w] = "ready"
  /\ stopping
  /\ thread' = [thread EXCEPT ![w] = "exited"]
  /\ UNCHANGED <<shared, states, running, main, ready, signal, sweep, server, history>>

\* A popped job is skipped when its task was cancelled while it was queued.
SkipsJob(t) == status[t] = "Cancelled"

\* The critical section that pops the front job.  A skipped job dies here, on
\* the worker, and its completion closure with it.
worker_dequeue(w) ==
  /\ thread[w] = "ready"
  /\ ~stopping
  /\ \E t \in tasks :
       /\ \A u \in tasks : t <= u
       /\ tasks' = tasks \ {t}
       /\ \/ /\ SkipsJob(t)
             /\ live_tasks' = live_tasks \ {t}
             /\ freed_by_worker' = freed_by_worker \cup {t}
             /\ UNCHANGED <<status, thread, running>>
          \/ /\ ~SkipsJob(t)
             /\ status' = [status EXCEPT ![t] = "Running"]
             /\ running' = [running EXCEPT ![w] = t]
             /\ thread' = [thread EXCEPT ![w] = "working"]
             /\ UNCHANGED <<live_tasks, freed_by_worker>>
  /\ UNCHANGED <<completions, stopping, queue_limit, next_task_id, cancel_requested, job,
                 main, ready, signal, sweep, server, cancel_acked, deliveries>>

\* What the critical section after job.work() decides: deliver nothing.
Suppressed_StopOnly(t) == stopping
Suppressed(t) == stopping \/ cancel_requested[t]

\* work() has returned (or thrown: the error travels in the completion).  A
\* suppressed completion goes out of scope on the worker.
worker_finish(w) ==
  /\ thread[w] = "working"
  /\ LET t == running[w] IN
       /\ live_tasks' = live_tasks \ {t}
       /\ \/ /\ Suppressed(t)
             /\ status' = [status EXCEPT ![t] = "Cancelled"]
             /\ freed_by_worker' = freed_by_worker \cup {t}
             /\ UNCHANGED completions
          \/ /\ ~Suppressed(t)
             /\ status' = [status EXCEPT ![t] = "Done"]
             /\ completions' = Append(completions, t)
             /\ UNCHANGED freed_by_worker
  /\ running' = [running EXCEPT ![w] = NoTask]
  /\ thread' = [thread EXCEPT ![w] = "ready"]
  /\ UNCHANGED <<tasks, stopping, queue_limit, next_task_id, cancel_requested, job,
                 main, ready, signal, sweep, server, cancel_acked, deliveries>>

-----------------------------------------------------------------------------
(* Main thread: pump().                                                    *)

\* ready.swap(completions): what is left of completions is the empty vector.
AfterSwap_Copied == completions
AfterSwap == <<>>

pump_swap ==
  /\ Settled /\ main = "idle"
  /\ ready' = completions
  /\ completions' = AfterSwap
  /\ main' = "pump"
  /\ UNCHANGED <<tasks, live_tasks, stopping, queue_limit, next_task_id, states,
                 thread, running, signal, sweep, server, history>>

\* The VM is looked up by name and the generation compared, per completion.
Stale_NameOnly(t) == job[t].resource # NoResource /\ job[t].resource \notin up
Stale(t) ==
  /\ job[t].resource # NoResource
  /\ \/ job[t].resource \notin up
     \/ generation[job[t].resource] # job[t].generation

\* The VM a completion reaches: 0 when the task is not attributed.
ReachedVM(t) == IF job[t].resource = NoResource THEN 0 ELSE boots[job[t].resource]

\* What is left of pump()'s vector after its head, delivered or dropped: the loop
\* goes on to the next one.
AfterHead_StaleEnds == IF Stale(Head(ready)) THEN <<>> ELSE Tail(ready)
AfterHead == Tail(ready)

pump_deliver ==
  /\ main = "pump" /\ ready # <<>>
  /\ ready' = AfterHead
  /\ LET t == Head(ready) IN
       \/ /\ Stale(t)
          /\ UNCHANGED <<main, deliveries>>
       \/ /\ ~Stale(t)
          /\ deliveries' = [deliveries EXCEPT ![t] = Append(@, ReachedVM(t))]
          /\ main' = "callback"
  /\ UNCHANGED <<shared, states, thread, running, signal, sweep, server,
                 cancel_acked, freed_by_worker>>

callback_return ==
  /\ Settled /\ main = "callback"
  /\ main' = "pump"
  /\ UNCHANGED <<shared, states, thread, running, ready, signal, sweep, server, history>>

pump_end ==
  /\ main = "pump" /\ ready = <<>>
  /\ main' = "idle"
  /\ UNCHANGED <<shared, states, thread, running, ready, signal, sweep, server, history>>

-----------------------------------------------------------------------------
(* Main thread: stop(), and the server starting and stopping resources.    *)

StopSweep_None == {}
StopSweep == {t \in live_tasks : status[t] = "Queued"}

SignalForStop_One == "one"
SignalForStop == "all"

stop_begin ==
  /\ Settled /\ main = "idle"
  /\ stopping' = TRUE
  /\ status' = [t \in Task |-> IF t \in StopSweep THEN "Cancelled" ELSE status[t]]
  /\ signal' = SignalForStop
  /\ main' = "joining"
  /\ UNCHANGED <<tasks, completions, live_tasks, queue_limit, next_task_id, cancel_requested,
                 job, thread, running, ready, sweep, server, history>>

stop_join ==
  /\ Settled /\ main = "joining"
  /\ \A w \in Worker : thread[w] \in {"none", "exited"}
  /\ thread' = [w \in Worker |-> "none"]
  /\ tasks' = {} /\ completions' = <<>> /\ live_tasks' = {}
  /\ main' = "idle"
  /\ UNCHANGED <<stopping, queue_limit, next_task_id, states, running, ready, signal,
                 sweep, server, history>>

\* The server gives a resource a fresh VM.
resource_started(r) ==
  /\ MainFree
  /\ r \notin up
  /\ up' = up \cup {r}
  /\ boots' = [boots EXCEPT ![r] = @ + 1]
  /\ UNCHANGED <<shared, states, threads, generation, history>>

\* ResourceStopped, first half: the Hub ends the generation.  Workers go on
\* dequeuing until the second half takes queue_mutex.
resource_stopped(r) ==
  /\ MainFree
  /\ r \in up /\ generation[r] < MaxGeneration
  /\ generation' = [generation EXCEPT ![r] = @ + 1]
  /\ sweep' = r
  /\ UNCHANGED <<shared, states, thread, running, main, ready, signal, boots, up, history>>

\* The jobs handle_resource_stopped() erases from the deque.
ErasedJobs_None(r) == {}
ErasedJobs(r) == {t \in tasks : job[t].resource = r}

\* ResourceStopped, second half; then the server destroys the VM.
handle_resource_stopped ==
  /\ sweep # NoResource
  /\ LET swept == {t \in ErasedJobs(sweep) : status[t] = "Queued"} IN
       /\ status' = [t \in Task |-> IF t \in swept THEN "Cancelled" ELSE status[t]]
       /\ live_tasks' = live_tasks \ swept
       /\ tasks' = tasks \ ErasedJobs(sweep)
  /\ up' = up \ {sweep}
  /\ sweep' = NoResource
  /\ UNCHANGED <<completions, stopping, queue_limit, next_task_id, cancel_requested, job,
                 thread, running, main, ready, signal, generation, boots, history>>

-----------------------------------------------------------------------------
worker_step(w) == worker_wait(w) \/ worker_exit(w) \/ worker_dequeue(w) \/ worker_finish(w)

\* What the main thread does next of its own accord once it is inside a call.
main_step ==
  \/ notify_one \/ notify_all
  \/ pump_deliver \/ callback_return \/ pump_end
  \/ stop_join \/ handle_resource_stopped

Next ==
  \/ start \/ stop_begin \/ pump_swap \/ main_step
  \/ \E r \in Resource \cup {NoResource} : post_task(r)
  \/ \E limit \in QueueLimits : configure(limit)
  \/ \E t \in Task : cancel(t)
  \/ \E r \in Resource : resource_started(r) \/ resource_stopped(r)
  \/ \E w \in Worker : worker_step(w) \/ spurious_wakeup(w)

Spec == Init /\ [][Next]_vars

\* Threads that can run do run, job.work() and completions return, and the
\* server calls DoPulse on every frame, that is again and again as long as its
\* main thread keeps coming back to its loop.  Nobody is obliged to post,
\* cancel, start, stop or configure.
Fairness ==
  /\ \A w \in Worker : WF_vars(worker_step(w))
  /\ WF_vars(main_step)
  /\ SF_vars(pump_swap)

FairSpec == Spec /\ Fairness

-----------------------------------------------------------------------------
(* Safety.                                                                 *)

\* "its completion will never run after this call" (task.hpp:49-51): once
\* cancel() has answered true, whatever the worker, pump() and the resource
\* hooks were doing at that moment, the completion has not run and never does.
CancelSuppresses == \A t \in cancel_acked : deliveries[t] = <<>>

\* A job is handed from the deque to a worker, to completions, to pump()'s
\* vector: no hand-over duplicates it, so its completion runs at most once.
DeliveredAtMostOnce == \A t \in Task : Len(deliveries[t]) <= 1

\* A completion runs for the very VM that posted its task, never for a later
\* VM of a resource with the same name (scheduler.cpp:269-286).
DeliveredToPoster ==
  \A t \in Task : \A i \in DOMAIN deliveries[t] : deliveries[t][i] = job[t].vm

\* No lost wakeup: when some worker sleeps in queue_signal.wait, every queued
\* job has a worker of its own on its way to the deque (or the notification of
\* the job just pushed is still to come), so no job waits behind another one's
\* work() while a worker sleeps.
NoJobBehindSleeper ==
  (\E w \in Worker : thread[w] = "waiting") /\ ~stopping =>
    Cardinality(tasks) <=
      Cardinality({w \in Worker : thread[w] = "ready"}) + (IF signal = "one" THEN 1 ELSE 0)

\* "handles of posted tasks report done()" (scheduler.hpp:48-49): once stop()
\* has returned, no thread is left and every task ever accepted is terminal,
\* the queued, the running and the cancelled ones alike.
StoppedMeansSettled ==
  stopping /\ main # "joining" =>
    NoThreads /\ \A t \in Task : status[t] \in Terminal \cup {"Unposted"}

\* A task leaves Done and Cancelled never again, whoever holds its state: the
\* worker that pops a cancelled job must not set it running.
TerminalIsFinal ==
  [][\A t \in Task : status[t] \in Terminal => status'[t] = status[t]]_vars

\* Once the ResourceStopped hook is through, no worker starts the work of a
\* task of the ended generation (a worker may pop one between its two halves).
NoStaleStart ==
  [][\A t \in Task : status[t] = "Queued" /\ status'[t] = "Running"
       => ~Stale(t) \/ sweep = job[t].resource]_vars

-----------------------------------------------------------------------------
(* The inductive invariant behind the safety properties: where a task can  *)
(* be in each status, and what the owner's generation says about its VM.   *)

\* Ids not handed out yet have no history.
FreshInv == \A t \in Task : t >= next_task_id => status[t] = "Unposted" /\ deliveries[t] = <<>>

\* The deque holds jobs no worker has taken, of a generation still current
\* (or being swept); stop() finds every queued one in live_tasks.
QueueInv ==
  /\ \A t \in tasks :
       /\ status[t] \in {"Queued", "Cancelled"}
       /\ Stale(t) => sweep = job[t].resource
  /\ \A t \in Task : status[t] = "Queued" => t \in tasks /\ t \in live_tasks

\* A worker in job.work() has one job of its own, and only those are running.
WorkerInv ==
  /\ \A w \in Worker : thread[w] = "working" <=> running[w] # NoTask
  /\ \A w \in Worker : running[w] # NoTask => status[running[w]] = "Running"
  /\ \A v, w \in Worker : running[v] = running[w] /\ running[w] # NoTask => v = w
  /\ \A t \in Task : status[t] = "Running" => \E w \in Worker : running[w] = t

\* Completions travel to pump() once each, and none has run before it is taken.
PumpInv ==
  /\ IsInjective(completions) /\ IsInjective(ready)
  /\ Range(completions) \cap Range(ready) = {}
  /\ \A t \in Range(completions) \cup Range(ready) : status[t] = "Done" /\ deliveries[t] = <<>>

DeliveryInv ==
  \A t \in Task : deliveries[t] # <<>> => status[t] = "Done" /\ deliveries[t] = <<job[t].vm>>

CancelInv ==
  \A t \in cancel_acked :
    status[t] = "Cancelled" \/ (status[t] = "Running" /\ cancel_requested[t])

\* The generation of a resource counts its VMs, one ahead while none is up.
GenerationInv ==
  /\ \A r \in Resource :
       generation[r] = IF r \in up /\ sweep # r THEN boots[r] ELSE boots[r] + 1
  /\ sweep # NoResource => sweep \in up /\ main \in {"idle", "callback"}
  /\ \A t \in Task :
       job[t].vm = IF job[t].resource = NoResource THEN 0 ELSE job[t].generation

StopInv ==
  /\ main = "joining" => stopping /\ \A t \in Task : status[t] # "Queued"
  /\ StoppedMeansSettled

IInv ==
  /\ TypeOK /\ FreshInv /\ QueueInv /\ WorkerInv /\ PumpInv
  /\ DeliveryInv /\ CancelInv /\ GenerationInv /\ StopInv

-----------------------------------------------------------------------------
(* Liveness.                                                               *)

\* With workers running, a queued task ends Done or Cancelled.
QueuedTaskSettles ==
  \A t \in Task : status[t] = "Queued" /\ ~NoThreads ~> status[t] \in Terminal

\* A finished job does not stay in completions: pump() takes it and decides on
\* it, or stop() drops it.
CompletionsDrain ==
  \A t \in Task : t \in Range(completions) ~> t \notin Range(completions) \cup Range(ready)

\* stop() returns: no worker sleeps through the shutdown.
StopReturns == main = "joining" ~> main = "idle"

-----------------------------------------------------------------------------
(* What the documentation says and the code does not.                      *)

\* "Done, // completion delivered" (task.hpp:30) and "true when nothing more
\* will happen" (task.hpp:54): the completion of a task that reports done()
\* does not run any more.
DoneMeansSettled ==
  [][\A t \in Task : status[t] \in Terminal => deliveries'[t] = deliveries[t]]_vars

\* "every entry erases itself when the task goes terminal" (scheduler.cpp:106):
\* an entry of live_tasks belongs to a job some queue or worker still holds.
LiveEntryHasJob == \A t \in live_tasks : t \in tasks \/ \E w \in Worker : running[w] = t

\* "Main thread only" (callback.hpp:20): a completion closure, which owns the
\* task's Callback, is destroyed on the main thread.
CompletionDiesOnMain == freed_by_worker = {}

-----------------------------------------------------------------------------
(* The scheduler implements AsyncTasks.                                    *)

InPump(t) == t \in Range(completions) \cup Range(ready)

\* A task is still pending when nothing has decided yet that its completion
\* must not run.
AbstractOutcome(t) ==
  IF status[t] = "Unposted" THEN "unposted"
  ELSE IF deliveries[t] # <<>> THEN "delivered"
  ELSE IF \/ stopping \/ Stale(t)
          \/ status[t] = "Cancelled" \/ cancel_requested[t]
          \/ (status[t] = "Done" /\ ~InPump(t)) THEN "suppressed"
  ELSE "pending"

Abstract == INSTANCE AsyncTasks WITH
  outcome <- [t \in Task |-> AbstractOutcome(t)],
  owner   <- [t \in Task |-> job[t].resource],
  alive   <- up \ {sweep},
  open    <- ~stopping,
  acked   <- cancel_acked

\* Every behaviour of the threads, the queue and pump() is one of AsyncTasks:
\* no completion runs twice, or after its task was cancelled, its generation
\* ended or the scheduler stopped; and a task whose completion may still run
\* loses it only in the step of a cancel() that answers true, in which its
\* resource stops, or in which the scheduler does.
ImplementsAsyncTasks == Abstract!ASpec

=============================================================================
