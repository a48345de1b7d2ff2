------------------------- MODULE TaskSchedulerProofs --------------------------
(***************************************************************************)
(* Proofs about TaskScheduler, for every set of workers and resources and  *)
(* every bound: IInv is inductive, and the safety properties follow.       *)
(***************************************************************************)
EXTENDS TaskScheduler, SequenceTheorems, FiniteSetTheorems, TLAPS

-----------------------------------------------------------------------------
(* Sequences without duplicates, as the completion vectors are.            *)

\* Appending an element that is not in the sequence keeps it free of
\* duplicates and adds just that element: worker_loop's push_back.
LEMMA AppendFresh ==
  ASSUME NEW S, NEW s \in Seq(S), NEW e \in S, IsInjective(s), e \notin Range(s)
  PROVE  /\ Append(s, e) \in Seq(S)
         /\ Range(Append(s, e)) = Range(s) \cup {e}
         /\ IsInjective(Append(s, e))
<1> DEFINE a == Append(s, e)
<1>1. a \in Seq(S) /\ Len(a) = Len(s) + 1 /\ a[Len(s) + 1] = e
      /\ \A i \in 1..Len(s) : a[i] = s[i]
  BY AppendProperties
<1>2. DOMAIN s = 1..Len(s) /\ DOMAIN a = 1..Len(s) + 1 /\ Len(s) \in Nat
  BY <1>1
<1>3. Range(a) = Range(s) \cup {e}
  BY <1>1, <1>2 DEF Range
<1>4. IsInjective(a)
  <2> SUFFICES ASSUME NEW i \in 1..Len(s) + 1, NEW j \in 1..Len(s) + 1, a[i] = a[j]
               PROVE  i = j
    BY <1>2 DEF IsInjective
  <2>1. CASE i \in 1..Len(s) /\ j \in 1..Len(s)
    BY <2>1, <1>1, <1>2 DEF IsInjective
  <2>2. \A k \in 1..Len(s) : a[k] # e
    BY <1>1, <1>2 DEF Range
  <2>3. CASE i = Len(s) + 1 \/ j = Len(s) + 1
    BY <2>2, <2>3, <1>1, <1>2
  <2> QED BY <2>1, <2>3, <1>2
<1> QED BY <1>1, <1>3, <1>4

\* Taking the head off a duplicate-free sequence: pump()'s delivery loop.
LEMMA TailFresh ==
  ASSUME NEW S, NEW s \in Seq(S), s # <<>>, IsInjective(s)
  PROVE  /\ Head(s) \in S /\ Head(s) \in Range(s)
         /\ Tail(s) \in Seq(S) /\ IsInjective(Tail(s))
         /\ Range(Tail(s)) = Range(s) \ {Head(s)}
<1>1. /\ Head(s) \in S /\ Tail(s) \in Seq(S) /\ Len(Tail(s)) = Len(s) - 1
      /\ \A i \in 1..Len(Tail(s)) : Tail(s)[i] = s[i + 1]
  BY HeadTailProperties
<1>2. Head(s) = s[1] /\ Len(s) \in Nat /\ Len(s) >= 1
      /\ DOMAIN s = 1..Len(s) /\ DOMAIN Tail(s) = 1..Len(s) - 1
  BY <1>1, EmptySeq
<1>3. Head(s) \in Range(s)
  BY <1>2 DEF Range
<1>4. IsInjective(Tail(s))
  BY <1>1, <1>2 DEF IsInjective
<1>5. Range(Tail(s)) = Range(s) \ {Head(s)}
  <2>1. ASSUME NEW x \in Range(Tail(s)) PROVE x \in Range(s) \ {Head(s)}
    <3>1. PICK i \in 1..Len(s) - 1 : x = s[i + 1]
      BY <1>1, <1>2 DEF Range
    <3>2. i + 1 \in 1..Len(s) /\ i + 1 # 1
      BY <1>2
    <3> QED BY <3>1, <3>2, <1>2 DEF Range, IsInjective
  <2>2. ASSUME NEW x \in Range(s) \ {Head(s)} PROVE x \in Range(Tail(s))
    <3>1. PICK i \in 1..Len(s) : x = s[i] /\ i # 1
      BY <1>2 DEF Range
    <3>2. i - 1 \in 1..Len(s) - 1 /\ Tail(s)[i - 1] = x
      BY <3>1, <1>1, <1>2
    <3> QED BY <3>2, <1>2 DEF Range
  <2> QED BY <2>1, <2>2
<1> QED BY <1>1, <1>3, <1>4, <1>5

LEMMA EmptyRange == Range(<<>>) = {} /\ IsInjective(<<>>)
BY DEF Range, IsInjective

LEMMA RangeType ==
  ASSUME NEW S, NEW s \in Seq(S)
  PROVE  Range(s) \subseteq S
BY DEF Range

\* Every id in pump()'s hands is a task.
LEMMA PumpedTasks == TypeOK => Range(completions) \subseteq Task /\ Range(ready) \subseteq Task
BY RangeType DEF TypeOK

LEMMA PostTaskStep ==
  ASSUME IInv, NEW r \in Resource \cup {NoResource}, post_task(r)
  PROVE  IInv'
<1> PICK n \in Task : n = next_task_id
  BY DEF post_task
<1>1. n \in Nat /\ status[n] = "Unposted" /\ deliveries[n] = <<>>
  BY DEF IInv, TypeOK, FreshInv, Task
<1>2. /\ n \notin tasks /\ \A w \in Worker : running[w] # n
      /\ n \notin Range(completions) \cup Range(ready)
      /\ n \notin cancel_acked
  <2>1. n \notin tasks
    BY <1>1 DEF IInv, QueueInv
  <2>2. \A w \in Worker : running[w] # n
    BY <1>1 DEF IInv, WorkerInv, NoTask, Task
  <2>3. n \notin Range(completions) \cup Range(ready)
    BY <1>1 DEF IInv, PumpInv
  <2>4. n \notin cancel_acked
    BY <1>1 DEF IInv, CancelInv
  <2> QED BY <2>1, <2>2, <2>3, <2>4
<1>3. /\ Attribution(r) \in JobType
      /\ r \in up \cup {NoResource} /\ signal = "none" /\ sweep = NoResource /\ ~stopping
      /\ Attribution(r).resource = r
      /\ r # NoResource => Attribution(r).generation = generation[r]
      /\ Attribution(r).vm = IF r = NoResource THEN 0 ELSE Attribution(r).generation
  BY DEF IInv, TypeOK, GenerationInv, post_task, MainFree, Settled, AcceptsTask, Attribution,
         NoJob, JobType
<1>4. /\ status' = [status EXCEPT ![n] = "Queued"]
      /\ job' = [job EXCEPT ![n] = Attribution(r)]
      /\ tasks' = tasks \cup {n} /\ live_tasks' = live_tasks \cup {n}
      /\ next_task_id' = n + 1 /\ signal' = "one"
      /\ UNCHANGED <<completions, stopping, queue_limit, cancel_requested, thread, running,
                     main, ready, sweep, generation, boots, up, cancel_acked, deliveries,
                     freed_by_worker>>
  BY DEF post_task, SignalForPost, server, history
<1>5. status \in [Task -> Status] /\ job \in [Task -> JobType]
  BY DEF IInv, TypeOK
<1>6. /\ status'[n] = "Queued" /\ job'[n] = Attribution(r)
      /\ \A t \in Task \ {n} : status'[t] = status[t] /\ job'[t] = job[t]
  BY <1>1, <1>4, <1>5
<1>7. TypeOK'
  <2>1. next_task_id' \in 1..MaxTask + 1
    BY <1>1, <1>4, SchedulerAssumption DEF Task
  <2>2. status' \in [Task -> Status] /\ job' \in [Task -> JobType]
    BY <1>1, <1>3, <1>4, <1>5 DEF Status
  <2> QED BY <1>1, <1>4, <2>1, <2>2 DEF IInv, TypeOK
<1>8. FreshInv'
  BY <1>1, <1>4, <1>6 DEF IInv, FreshInv, Task
<1>9. QueueInv'
  <2>1. \A t \in tasks : Stale(t)' <=> Stale(t)
    BY <1>1, <1>2, <1>4, <1>6 DEF IInv, TypeOK, Stale
  <2>2. ~Stale(n)'
    BY <1>3, <1>4, <1>6 DEF Stale
  <2> QED BY <1>1, <1>2, <1>4, <1>6, <2>1, <2>2 DEF IInv, TypeOK, QueueInv
<1>10. WorkerInv'
  BY <1>1, <1>2, <1>4, <1>6 DEF IInv, TypeOK, WorkerInv, NoTask
<1>11. PumpInv'
  BY <1>2, <1>4, <1>6, PumpedTasks DEF IInv, PumpInv
<1>12. DeliveryInv'
  BY <1>1, <1>4, <1>6 DEF IInv, DeliveryInv
<1>13. CancelInv'
  BY <1>2, <1>4, <1>6 DEF IInv, TypeOK, CancelInv
<1>14. GenerationInv'
  BY <1>3, <1>4, <1>6 DEF IInv, GenerationInv
<1>15. StopInv'
  BY <1>3, <1>4 DEF IInv, StopInv, StoppedMeansSettled, post_task, MainFree
<1> QED BY <1>7, <1>8, <1>9, <1>10, <1>11, <1>12, <1>13, <1>14, <1>15 DEF IInv

LEMMA CancelStep ==
  ASSUME IInv, NEW t \in Task, cancel(t)
  PROVE  IInv'
<1>1. /\ status \in [Task -> Status] /\ cancel_requested \in [Task -> BOOLEAN]
      /\ status[t] \in {"Queued", "Running"}
      /\ cancel_acked' = cancel_acked \cup {t}
      /\ UNCHANGED <<shared, job, threads, server, deliveries, freed_by_worker>>
  BY DEF IInv, TypeOK, cancel
<1>2. /\ status'[t] = IF status[t] = "Queued" THEN "Cancelled" ELSE "Running"
      /\ \A u \in Task \ {t} : status'[u] = status[u]
      /\ status' \in [Task -> Status]
      /\ \A u \in Task : status'[u] = "Running" <=> status[u] = "Running"
  BY <1>1 DEF cancel, Status, Terminal
<1>3. /\ status[t] = "Running" => cancel_requested'[t] = TRUE
      /\ \A u \in Task \ {t} : cancel_requested'[u] = cancel_requested[u]
      /\ cancel_requested' \in [Task -> BOOLEAN]
  BY <1>1 DEF cancel
<1>4. TypeOK'
  BY <1>1, <1>2, <1>3 DEF IInv, TypeOK, shared, threads, server
<1>5. FreshInv'
  BY <1>1, <1>2 DEF IInv, FreshInv, shared
<1>6. QueueInv'
  BY <1>1, <1>2 DEF IInv, TypeOK, QueueInv, Stale, shared, threads, server
<1>7. WorkerInv'
  BY <1>1, <1>2 DEF IInv, TypeOK, WorkerInv, threads
<1>8. PumpInv'
  <2>1. t \notin Range(completions) \cup Range(ready)
    BY <1>1 DEF IInv, PumpInv
  <2> QED BY <1>1, <1>2, <2>1, PumpedTasks DEF IInv, PumpInv, shared, threads
<1>9. DeliveryInv'
  BY <1>1, <1>2 DEF IInv, DeliveryInv
<1>10. CancelInv'
  BY <1>1, <1>2, <1>3 DEF IInv, TypeOK, CancelInv
<1>11. GenerationInv'
  BY <1>1 DEF IInv, GenerationInv, threads, server
<1>12. StopInv'
  BY <1>1, <1>2 DEF IInv, StopInv, StoppedMeansSettled, NoThreads, Terminal, shared, threads
<1> QED BY <1>4, <1>5, <1>6, <1>7, <1>8, <1>9, <1>10, <1>11, <1>12 DEF IInv

LEMMA WorkerDequeueStep ==
  ASSUME IInv, NEW w \in Worker, worker_dequeue(w)
  PROVE  IInv'
<1> PICK t \in tasks : worker_dequeue(w)!3!(t)
  BY DEF worker_dequeue
<1>1. /\ t \in Task /\ status \in [Task -> Status]
      /\ status[t] \in {"Queued", "Cancelled"}
      /\ t \in Task /\ running \in [Worker -> Task \cup {NoTask}] /\ t # NoTask
      /\ thread[w] = "ready" /\ running[w] = NoTask /\ ~stopping
  BY DEF IInv, TypeOK, QueueInv, WorkerInv, NoTask, Task, worker_dequeue
<1>2. /\ tasks' = tasks \ {t}
      /\ UNCHANGED <<completions, stopping, queue_limit, next_task_id, cancel_requested, job,
                     main, ready, signal, sweep, generation, boots, up, cancel_acked, deliveries>>
  BY DEF worker_dequeue, server
<1>3. CASE SkipsJob(t)
  <2>1. /\ status[t] = "Cancelled" /\ live_tasks' = live_tasks \ {t}
        /\ freed_by_worker' = freed_by_worker \cup {t}
        /\ UNCHANGED <<status, thread, running>>
    BY <1>3 DEF SkipsJob
  <2>2. TypeOK'
    BY <1>1, <1>2, <2>1 DEF IInv, TypeOK
  <2>3. QueueInv'
    BY <1>1, <1>2, <2>1 DEF IInv, QueueInv, Stale
  <2>4. (FreshInv /\ WorkerInv /\ PumpInv /\ DeliveryInv /\ CancelInv)'
    BY <1>2, <2>1 DEF IInv, FreshInv, WorkerInv, PumpInv, DeliveryInv, CancelInv
  <2>5. (GenerationInv /\ StopInv)'
    BY <1>2, <2>1 DEF IInv, GenerationInv, StopInv, StoppedMeansSettled, NoThreads
  <2> QED BY <2>2, <2>3, <2>4, <2>5 DEF IInv
<1>4. CASE ~SkipsJob(t)
  <2>1. /\ status[t] = "Queued"
        /\ status' = [status EXCEPT ![t] = "Running"]
        /\ running' = [running EXCEPT ![w] = t]
        /\ thread' = [thread EXCEPT ![w] = "working"]
        /\ UNCHANGED <<live_tasks, freed_by_worker>>
    BY <1>1, <1>4 DEF SkipsJob
  <2>2. /\ status'[t] = "Running" /\ \A u \in Task \ {t} : status'[u] = status[u]
        /\ status' \in [Task -> Status]
        /\ running'[w] = t /\ \A v \in Worker \ {w} : running'[v] = running[v]
        /\ running' \in [Worker -> Task \cup {NoTask}]
    BY <1>1, <2>1 DEF Status
  <2>3. /\ thread'[w] = "working" /\ \A v \in Worker \ {w} : thread'[v] = thread[v]
        /\ thread' \in [Worker -> {"none", "ready", "waiting", "working", "exited"}]
    BY <2>1 DEF IInv, TypeOK
  <2>4. TypeOK'
    BY <1>1, <1>2, <2>1, <2>2, <2>3 DEF IInv, TypeOK
  <2>5. FreshInv'
    BY <1>2, <2>1, <2>2 DEF IInv, FreshInv
  <2>6. QueueInv'
    BY <1>1, <1>2, <2>1, <2>2 DEF IInv, TypeOK, QueueInv, Stale
  <2>7. WorkerInv'
    <3>1. \A v \in Worker : running[v] # t
      BY <1>1, <2>1 DEF IInv, WorkerInv
    <3>2. \A v \in Worker : running'[v] # NoTask => status'[running'[v]] = "Running"
      BY <1>1, <2>2, <3>1 DEF IInv, WorkerInv
    <3>3. \A v \in Worker : thread'[v] = "working" <=> running'[v] # NoTask
      BY <1>1, <2>2, <2>3 DEF IInv, WorkerInv
    <3>4. \A u, v \in Worker : running'[u] = running'[v] /\ running'[v] # NoTask => u = v
      BY <2>2, <3>1 DEF IInv, WorkerInv
    <3>5. \A u \in Task : status'[u] = "Running" => \E v \in Worker : running'[v] = u
      <4>1. ASSUME NEW u \in Task \ {t}, status[u] = "Running"
            PROVE  \E v \in Worker : running'[v] = u
        <5>1. PICK v \in Worker : running[v] = u
          BY <4>1 DEF IInv, WorkerInv
        <5>2. v # w
          BY <1>1, <4>1, <5>1 DEF IInv, TypeOK, NoTask, Task
        <5> QED BY <2>2, <5>1, <5>2
      <4> QED BY <2>2, <4>1
    <3> QED BY <3>2, <3>3, <3>4, <3>5 DEF WorkerInv
  <2>8. PumpInv'
    <3>1. t \notin Range(completions) \cup Range(ready)
      BY <2>1 DEF IInv, PumpInv
    <3> QED BY <1>2, <2>2, <3>1, PumpedTasks DEF IInv, PumpInv
  <2>9. DeliveryInv'
    BY <1>2, <2>1, <2>2 DEF IInv, DeliveryInv
  <2>10. CancelInv'
    BY <1>2, <2>1, <2>2 DEF IInv, TypeOK, CancelInv
  <2>11. (GenerationInv /\ StopInv)'
    BY <1>1, <1>2, <2>1, <2>2 DEF IInv, GenerationInv, StopInv, StoppedMeansSettled
  <2> QED BY <2>4, <2>5, <2>6, <2>7, <2>8, <2>9, <2>10, <2>11 DEF IInv
<1> QED BY <1>3, <1>4

LEMMA WorkerFinishStep ==
  ASSUME IInv, NEW w \in Worker, worker_finish(w)
  PROVE  IInv'
<1> PICK t \in Task : t = running[w]
  BY DEF IInv, TypeOK, WorkerInv, worker_finish
<1>1. /\ t # NoTask /\ status[t] = "Running" /\ status \in [Task -> Status]
      /\ deliveries[t] = <<>>
      /\ running \in [Worker -> Task \cup {NoTask}] /\ thread[w] = "working"
      /\ \A v \in Worker \ {w} : running[v] # t
  BY DEF IInv, TypeOK, WorkerInv, DeliveryInv, NoTask, Task, worker_finish
<1>2. t \notin Range(completions) \cup Range(ready) /\ t \notin tasks
  BY <1>1 DEF IInv, PumpInv, QueueInv
<1>3. /\ live_tasks' = live_tasks \ {t}
      /\ running' = [running EXCEPT ![w] = NoTask]
      /\ thread' = [thread EXCEPT ![w] = "ready"]
      /\ UNCHANGED <<tasks, stopping, queue_limit, next_task_id, cancel_requested, job,
                     main, ready, signal, sweep, generation, boots, up, cancel_acked, deliveries>>
  BY DEF worker_finish, server
<1>4. \/ /\ status' = [status EXCEPT ![t] = "Cancelled"]
         /\ freed_by_worker' = freed_by_worker \cup {t}
         /\ UNCHANGED completions
      \/ /\ status' = [status EXCEPT ![t] = "Done"]
         /\ completions' = Append(completions, t)
         /\ ~stopping /\ ~cancel_requested[t]
         /\ UNCHANGED freed_by_worker
  BY DEF worker_finish, Suppressed
<1>5. /\ status' \in [Task -> Status] /\ status'[t] \in {"Done", "Cancelled"}
      /\ \A u \in Task \ {t} : status'[u] = status[u]
      /\ status'[t] = "Done" => ~stopping /\ ~cancel_requested[t]
  BY <1>1, <1>4 DEF Status, Terminal
<1>6. /\ running'[w] = NoTask /\ \A v \in Worker \ {w} : running'[v] = running[v]
      /\ running' \in [Worker -> Task \cup {NoTask}]
      /\ thread'[w] = "ready" /\ \A v \in Worker \ {w} : thread'[v] = thread[v]
      /\ thread' \in [Worker -> {"none", "ready", "waiting", "working", "exited"}]
  BY <1>1, <1>3 DEF IInv, TypeOK
<1>7. completions' \in Seq(Task) /\ freed_by_worker' \subseteq Task
  <2>1. Append(completions, t) \in Seq(Task)
    BY AppendProperties DEF IInv, TypeOK
  <2> QED BY <1>4, <2>1 DEF IInv, TypeOK
<1>8. TypeOK'
  BY <1>3, <1>5, <1>6, <1>7 DEF IInv, TypeOK
<1>9. FreshInv'
  BY <1>1, <1>3, <1>5 DEF IInv, FreshInv
<1>10. QueueInv'
  BY <1>1, <1>2, <1>3, <1>5 DEF IInv, TypeOK, QueueInv, Stale
<1>11. WorkerInv'
  <2>1. \A v \in Worker : running'[v] # NoTask => status'[running'[v]] = "Running"
    BY <1>1, <1>5, <1>6 DEF IInv, WorkerInv
  <2>2. \A v \in Worker : thread'[v] = "working" <=> running'[v] # NoTask
    BY <1>6 DEF IInv, WorkerInv
  <2>3. \A u, v \in Worker : running'[u] = running'[v] /\ running'[v] # NoTask => u = v
    BY <1>6 DEF IInv, WorkerInv
  <2>4. \A u \in Task : status'[u] = "Running" => \E v \in Worker : running'[v] = u
    BY <1>1, <1>5, <1>6 DEF IInv, WorkerInv
  <2> QED BY <2>1, <2>2, <2>3, <2>4 DEF WorkerInv
<1>12. PumpInv'
  <2>1. CASE UNCHANGED completions
    BY <1>2, <1>3, <1>5, <2>1, PumpedTasks DEF IInv, PumpInv
  <2>2. CASE completions' = Append(completions, t) /\ status'[t] = "Done"
    <3>1. Range(completions') = Range(completions) \cup {t} /\ IsInjective(completions')
      BY <1>2, <2>2, AppendFresh DEF IInv, TypeOK, PumpInv
    <3> QED BY <1>1, <1>2, <1>3, <1>5, <2>2, <3>1, PumpedTasks DEF IInv, PumpInv
  <2> QED BY <1>1, <1>4, <2>1, <2>2
<1>13. DeliveryInv'
  BY <1>1, <1>3, <1>5 DEF IInv, DeliveryInv
<1>14. CancelInv'
  BY <1>1, <1>3, <1>5 DEF IInv, TypeOK, CancelInv
<1>15. (GenerationInv /\ StopInv)'
  <2>1. StopInv'
    BY <1>1, <1>3, <1>5 DEF IInv, StopInv, StoppedMeansSettled, NoThreads
  <2> QED BY <1>3, <2>1 DEF IInv, GenerationInv
<1> QED BY <1>8, <1>9, <1>10, <1>11, <1>12, <1>13, <1>14, <1>15 DEF IInv

LEMMA PumpSwapStep ==
  ASSUME IInv, pump_swap
  PROVE  IInv'
<1>1. /\ ready' = completions /\ completions' = <<>> /\ main' = "pump"
      /\ main = "idle" /\ sweep = NoResource
      /\ UNCHANGED <<tasks, live_tasks, stopping, queue_limit, next_task_id, states,
                     thread, running, signal, sweep, server, history>>
  BY DEF pump_swap, AfterSwap, Settled
<1>2. TypeOK'
  BY <1>1 DEF IInv, TypeOK, states, server, history
<1>3. PumpInv'
  BY <1>1, EmptyRange DEF IInv, PumpInv, states, history
<1>4. (FreshInv /\ DeliveryInv /\ CancelInv /\ WorkerInv)'
  BY <1>1 DEF IInv, FreshInv, DeliveryInv, CancelInv, WorkerInv, states, history
<1>5. QueueInv'
  BY <1>1 DEF IInv, QueueInv, Stale, states, server
<1>6. (GenerationInv /\ StopInv)'
  BY <1>1 DEF IInv, GenerationInv, StopInv, StoppedMeansSettled, NoThreads, states, server
<1> QED BY <1>2, <1>3, <1>4, <1>5, <1>6 DEF IInv

LEMMA PumpDeliverStep ==
  ASSUME IInv, pump_deliver
  PROVE  IInv'
<1> PICK t \in Task : t = Head(ready)
  BY TailFresh DEF IInv, TypeOK, PumpInv, pump_deliver, AfterHead
<1>1. /\ ready' = Tail(ready) /\ main = "pump"
      /\ UNCHANGED <<shared, states, thread, running, signal, sweep, server,
                     cancel_acked, freed_by_worker>>
  BY DEF pump_deliver, AfterHead
<1>2. /\ ready' \in Seq(Task) /\ IsInjective(ready')
      /\ t \in Range(ready) /\ Range(ready') = Range(ready) \ {t}
  BY <1>1, TailFresh DEF IInv, TypeOK, PumpInv, pump_deliver, AfterHead
<1>3. status[t] = "Done" /\ deliveries[t] = <<>> /\ sweep = NoResource
  BY <1>1, <1>2 DEF IInv, PumpInv, GenerationInv
<1>4. \/ main' = main /\ UNCHANGED deliveries
      \/ /\ ~Stale(t) /\ main' = "callback"
         /\ deliveries' = [deliveries EXCEPT ![t] = Append(deliveries[t], ReachedVM(t))]
  BY DEF pump_deliver
\* A completion that passes the staleness test reaches the VM of its poster.
<1>5. ~Stale(t) => ReachedVM(t) = job[t].vm
  BY <1>3 DEF IInv, TypeOK, JobType, GenerationInv, Stale, ReachedVM
<1>6. job[t].vm \in Nat
  BY DEF IInv, TypeOK, JobType
<1>7. /\ deliveries' \in [Task -> Seq(Nat)]
      /\ \A u \in Task \ {t} : deliveries'[u] = deliveries[u]
      /\ deliveries'[t] # <<>> => deliveries'[t] = <<job[t].vm>>
  <2>1. CASE UNCHANGED deliveries
    BY <1>3, <2>1 DEF IInv, TypeOK
  <2>2. CASE ~Stale(t) /\ deliveries' = [deliveries EXCEPT ![t] = Append(deliveries[t], ReachedVM(t))]
    <3>1. Append(deliveries[t], ReachedVM(t)) = <<job[t].vm>> /\ <<job[t].vm>> \in Seq(Nat)
      BY <1>3, <1>5, <1>6, <2>2
    <3> QED BY <2>2, <3>1 DEF IInv, TypeOK
  <2> QED BY <1>4, <2>1, <2>2
<1>8. TypeOK'
  BY <1>1, <1>2, <1>4, <1>7 DEF IInv, TypeOK, shared, states, server
<1>9. FreshInv'
  BY <1>1, <1>3, <1>7 DEF IInv, FreshInv, shared, states
<1>10. QueueInv'
  BY <1>1 DEF IInv, QueueInv, Stale, shared, states, server
<1>11. WorkerInv'
  BY <1>1 DEF IInv, WorkerInv, states
<1>12. PumpInv'
  BY <1>1, <1>2, <1>7, PumpedTasks DEF IInv, PumpInv, shared, states
<1>13. DeliveryInv'
  BY <1>1, <1>3, <1>7 DEF IInv, DeliveryInv, states
<1>14. CancelInv'
  BY <1>1 DEF IInv, CancelInv, states
<1>15. (GenerationInv /\ StopInv)'
  BY <1>1, <1>3, <1>4 DEF IInv, GenerationInv, StopInv, StoppedMeansSettled, NoThreads,
                       shared, states, server
<1> QED BY <1>8, <1>9, <1>10, <1>11, <1>12, <1>13, <1>14, <1>15 DEF IInv

LEMMA StopBeginStep ==
  ASSUME IInv, stop_begin
  PROVE  IInv'
<1>1. /\ stopping' = TRUE /\ signal' = "all" /\ main' = "joining" /\ sweep = NoResource
      /\ status' = [t \in Task |-> IF t \in StopSweep THEN "Cancelled" ELSE status[t]]
      /\ UNCHANGED <<tasks, completions, live_tasks, queue_limit, next_task_id, cancel_requested,
                     job, thread, running, ready, sweep, server, history>>
  BY DEF stop_begin, SignalForStop, Settled
\* live_tasks has every queued task, so the sweep leaves none.
<1>2. /\ \A t \in Task : status'[t] = IF status[t] = "Queued" THEN "Cancelled" ELSE status[t]
      /\ status' \in [Task -> Status]
  BY <1>1 DEF IInv, TypeOK, QueueInv, StopSweep, Status, Terminal
<1>3. TypeOK'
  BY <1>1, <1>2 DEF IInv, TypeOK, server, history
<1>4. (FreshInv /\ DeliveryInv)'
  BY <1>1, <1>2 DEF IInv, FreshInv, DeliveryInv, history
<1>5. QueueInv'
  BY <1>1, <1>2 DEF IInv, TypeOK, QueueInv, Stale, server
<1>6. WorkerInv'
  BY <1>1, <1>2 DEF IInv, TypeOK, WorkerInv, NoTask
<1>7. PumpInv'
  BY <1>1, <1>2, PumpedTasks DEF IInv, PumpInv, history
<1>8. CancelInv'
  BY <1>1, <1>2 DEF IInv, TypeOK, CancelInv, history
<1>9. (GenerationInv /\ StopInv)'
  BY <1>1, <1>2 DEF IInv, GenerationInv, StopInv, StoppedMeansSettled, server
<1> QED BY <1>3, <1>4, <1>5, <1>6, <1>7, <1>8, <1>9 DEF IInv

LEMMA StopJoinStep ==
  ASSUME IInv, stop_join
  PROVE  IInv'
<1>1. /\ thread' = [w \in Worker |-> "none"] /\ main = "joining" /\ main' = "idle"
      /\ \A w \in Worker : thread[w] \in {"none", "exited"}
      /\ tasks' = {} /\ completions' = <<>> /\ live_tasks' = {}
      /\ UNCHANGED <<stopping, queue_limit, next_task_id, states, running, ready, signal,
                     sweep, server, history>>
  BY DEF stop_join
<1>2. \A w \in Worker : running[w] = NoTask
  BY <1>1 DEF IInv, WorkerInv
\* The threads are gone, so nothing is running; the sweep left nothing queued.
<1>3. \A t \in Task : status[t] \in Terminal \cup {"Unposted"}
  <2>1. \A t \in Task : status[t] # "Running"
    BY <1>2 DEF IInv, WorkerInv, NoTask, Task
  <2> QED BY <1>1, <2>1 DEF IInv, TypeOK, StopInv, Status
<1>4. TypeOK'
  BY <1>1 DEF IInv, TypeOK, states, server, history
<1>5. (FreshInv /\ DeliveryInv /\ CancelInv)'
  BY <1>1 DEF IInv, FreshInv, DeliveryInv, CancelInv, states, history
<1>6. QueueInv'
  BY <1>1, <1>3 DEF QueueInv, Terminal, states
<1>7. WorkerInv'
  BY <1>1, <1>2, <1>3 DEF WorkerInv, Terminal, states
<1>8. PumpInv'
  BY <1>1, EmptyRange DEF IInv, PumpInv, states, history
<1>9. (GenerationInv /\ StopInv)'
  BY <1>1, <1>3 DEF IInv, GenerationInv, StopInv, StoppedMeansSettled, NoThreads, states, server
<1> QED BY <1>4, <1>5, <1>6, <1>7, <1>8, <1>9 DEF IInv

LEMMA HandleResourceStoppedStep ==
  ASSUME IInv, handle_resource_stopped
  PROVE  IInv'
<1> DEFINE swept == {t \in ErasedJobs(sweep) : status[t] = "Queued"}
<1>1. /\ sweep \in Resource /\ sweep # NoResource /\ sweep' = NoResource
      /\ status' = [t \in Task |-> IF t \in swept THEN "Cancelled" ELSE status[t]]
      /\ live_tasks' = live_tasks \ swept
      /\ tasks' = tasks \ ErasedJobs(sweep)
      /\ up' = up \ {sweep}
      /\ UNCHANGED <<completions, stopping, queue_limit, next_task_id, cancel_requested, job,
                     thread, running, main, ready, signal, generation, boots, history>>
  BY DEF IInv, TypeOK, handle_resource_stopped
<1>2. /\ status' \in [Task -> Status]
      /\ \A t \in swept : t \in Task /\ status[t] = "Queued" /\ status'[t] = "Cancelled"
      /\ \A t \in Task \ swept : status'[t] = status[t]
  BY <1>1 DEF IInv, TypeOK, ErasedJobs, Status, Terminal
<1>3. TypeOK'
  BY <1>1, <1>2 DEF IInv, TypeOK, history
<1>4. (FreshInv /\ DeliveryInv)'
  BY <1>1, <1>2 DEF IInv, FreshInv, DeliveryInv, history
<1>5. QueueInv'
  BY <1>1, <1>2 DEF IInv, TypeOK, QueueInv, Stale, ErasedJobs
<1>6. WorkerInv'
  BY <1>1, <1>2 DEF IInv, TypeOK, WorkerInv, NoTask
<1>7. PumpInv'
  BY <1>1, <1>2, PumpedTasks DEF IInv, PumpInv, history
<1>8. CancelInv'
  BY <1>1, <1>2 DEF IInv, TypeOK, CancelInv, history
<1>9. GenerationInv'
  BY <1>1, SchedulerAssumption DEF IInv, GenerationInv
<1>10. StopInv'
  BY <1>1, <1>2 DEF IInv, TypeOK, StopInv, StoppedMeansSettled, NoThreads, Terminal
<1> QED BY <1>3, <1>4, <1>5, <1>6, <1>7, <1>8, <1>9, <1>10 DEF IInv

LEMMA ResourceStartedStep ==
  ASSUME IInv, NEW r \in Resource, resource_started(r)
  PROVE  IInv'
<1>1. /\ r \notin up /\ up' = up \cup {r} /\ boots' = [boots EXCEPT ![r] = @ + 1]
      /\ sweep = NoResource
      /\ UNCHANGED <<shared, states, threads, generation, history>>
  BY DEF resource_started, MainFree, Settled
<1>2. TypeOK'
  BY <1>1 DEF IInv, TypeOK, shared, states, threads, history
<1>3. QueueInv'
  BY <1>1 DEF IInv, QueueInv, Stale, shared, states, threads
<1>4. (FreshInv /\ WorkerInv /\ PumpInv /\ DeliveryInv /\ CancelInv)'
  BY <1>1 DEF IInv, FreshInv, WorkerInv, PumpInv, DeliveryInv, CancelInv, shared, states,
              threads, history
<1>5. GenerationInv'
  BY <1>1, SchedulerAssumption DEF IInv, TypeOK, GenerationInv, states, threads
<1>6. StopInv'
  BY <1>1 DEF IInv, StopInv, StoppedMeansSettled, NoThreads, shared, states, threads
<1> QED BY <1>2, <1>3, <1>4, <1>5, <1>6 DEF IInv

LEMMA ResourceStoppedStep ==
  ASSUME IInv, NEW r \in Resource, resource_stopped(r)
  PROVE  IInv'
<1>1. /\ r \in up /\ generation' = [generation EXCEPT ![r] = @ + 1] /\ sweep' = r
      /\ sweep = NoResource /\ main \in {"idle", "callback"}
      /\ UNCHANGED <<shared, states, thread, running, main, ready, signal, boots, up, history>>
  BY DEF resource_stopped, MainFree, Settled
<1>2. /\ generation' \in [Resource -> Nat \ {0}] /\ generation'[r] = generation[r] + 1
      /\ \A q \in Resource \ {r} : generation'[q] = generation[q]
  BY <1>1 DEF IInv, TypeOK
<1>3. TypeOK'
  BY <1>1, <1>2 DEF IInv, TypeOK, shared, states, history
\* Only jobs of r become stale, and r is the resource being swept.
<1>4. QueueInv'
  BY <1>1, <1>2 DEF IInv, TypeOK, JobType, QueueInv, Stale, shared, states
<1>5. (FreshInv /\ WorkerInv /\ PumpInv /\ DeliveryInv /\ CancelInv)'
  BY <1>1 DEF IInv, FreshInv, WorkerInv, PumpInv, DeliveryInv, CancelInv, shared, states, history
<1>6. GenerationInv'
  BY <1>1, <1>2, SchedulerAssumption DEF IInv, GenerationInv, states
<1>7. StopInv'
  BY <1>1 DEF IInv, StopInv, StoppedMeansSettled, NoThreads, shared, states
<1> QED BY <1>3, <1>4, <1>5, <1>6, <1>7 DEF IInv

LEMMA StartStep ==
  ASSUME IInv, start
  PROVE  IInv'
<1>1. /\ main = "idle" /\ stopping' = FALSE /\ thread' = [w \in Worker |-> "ready"]
      /\ \A w \in Worker : thread[w] = "none"
      /\ UNCHANGED <<tasks, completions, live_tasks, queue_limit, next_task_id, states,
                     running, main, ready, signal, sweep, server, history>>
  BY DEF start, NoThreads
<1>2. TypeOK'
  BY <1>1 DEF IInv, TypeOK, states, server, history
<1>3. WorkerInv'
  BY <1>1 DEF IInv, WorkerInv, states
<1>4. (FreshInv /\ QueueInv /\ PumpInv /\ DeliveryInv /\ CancelInv)'
  BY <1>1 DEF IInv, FreshInv, QueueInv, Stale, PumpInv, DeliveryInv, CancelInv, states, server,
              history
<1>5. (GenerationInv /\ StopInv)'
  BY <1>1 DEF IInv, GenerationInv, StopInv, StoppedMeansSettled, states, server
<1> QED BY <1>2, <1>3, <1>4, <1>5 DEF IInv

LEMMA ConfigureStep ==
  ASSUME IInv, NEW limit \in QueueLimits, configure(limit)
  PROVE  IInv'
<1>1. /\ queue_limit' = ClampLimit(limit)
      /\ UNCHANGED <<tasks, completions, live_tasks, stopping, next_task_id, states,
                     threads, server, history>>
  BY DEF configure
<1>2. TypeOK'
  BY <1>1, SchedulerAssumption DEF IInv, TypeOK, ClampLimit, states, threads, server, history
<1>3. (FreshInv /\ QueueInv /\ WorkerInv /\ PumpInv /\ DeliveryInv /\ CancelInv)'
  BY <1>1 DEF IInv, FreshInv, QueueInv, Stale, WorkerInv, PumpInv, DeliveryInv, CancelInv,
              states, threads, server, history
<1>4. (GenerationInv /\ StopInv)'
  BY <1>1 DEF IInv, GenerationInv, StopInv, StoppedMeansSettled, NoThreads, states, threads, server
<1> QED BY <1>2, <1>3, <1>4 DEF IInv

\* The steps that move a thread between ready, waiting and exited, a pending
\* notification, or the main thread around its completion loop.
LEMMA MoveStep ==
  ASSUME IInv,
         UNCHANGED <<shared, states, running, ready, sweep, server, history>>,
         thread' \in [Worker -> {"none", "ready", "waiting", "working", "exited"}],
         \A w \in Worker : /\ thread'[w] = "working" <=> thread[w] = "working"
                           /\ thread[w] = "none" => thread'[w] = "none",
         signal' \in {"none", "one", "all"},
         \/ main' = main
         \/ main = "callback" /\ main' = "pump" /\ sweep = NoResource
         \/ main = "pump" /\ main' = "idle"
  PROVE  IInv'
<1>1. TypeOK'
  BY DEF IInv, TypeOK, shared, states, server, history
<1>2. WorkerInv'
  BY DEF IInv, WorkerInv, states
<1>3. (FreshInv /\ QueueInv /\ PumpInv /\ DeliveryInv /\ CancelInv)'
  BY DEF IInv, FreshInv, QueueInv, Stale, PumpInv, DeliveryInv, CancelInv, shared, states,
         server, history
<1>4. (GenerationInv /\ StopInv)'
  BY DEF IInv, GenerationInv, StopInv, StoppedMeansSettled, NoThreads, shared, states, server
<1> QED BY <1>1, <1>2, <1>3, <1>4 DEF IInv

LEMMA ThreadStep ==
  ASSUME IInv, NEW w \in Worker,
         worker_wait(w) \/ worker_exit(w) \/ spurious_wakeup(w)
  PROVE  IInv'
<1>1. /\ thread[w] \in {"ready", "waiting"}
      /\ \E place \in {"waiting", "exited", "ready"} : thread' = [thread EXCEPT ![w] = place]
      /\ UNCHANGED <<shared, states, running, main, ready, signal, sweep, server, history>>
  BY DEF worker_wait, worker_exit, spurious_wakeup
<1>2. thread \in [Worker -> {"none", "ready", "waiting", "working", "exited"}]
      /\ signal \in {"none", "one", "all"}
  BY DEF IInv, TypeOK
<1>3. /\ thread' \in [Worker -> {"none", "ready", "waiting", "working", "exited"}]
      /\ \A v \in Worker : /\ thread'[v] = "working" <=> thread[v] = "working"
                           /\ thread[v] = "none" => thread'[v] = "none"
  BY <1>1, <1>2
<1> QED BY <1>1, <1>2, <1>3, MoveStep

LEMMA NotifyStep ==
  ASSUME IInv, notify_one \/ notify_all
  PROVE  IInv'
<1>1. thread \in [Worker -> {"none", "ready", "waiting", "working", "exited"}]
  BY DEF IInv, TypeOK
<1>2. /\ signal' = "none"
      /\ UNCHANGED <<shared, states, running, main, ready, sweep, server, history>>
  BY DEF notify_one, notify_all
<1>3. /\ thread' \in [Worker -> {"none", "ready", "waiting", "working", "exited"}]
      /\ \A v \in Worker : /\ thread'[v] = "working" <=> thread[v] = "working"
                           /\ thread[v] = "none" => thread'[v] = "none"
  <2>1. CASE notify_all
    BY <1>1, <2>1 DEF notify_all
  <2>2. CASE UNCHANGED thread
    BY <1>1, <2>2
  <2>3. ASSUME NEW w \in Worker, thread[w] = "waiting", thread' = [thread EXCEPT ![w] = "ready"]
        PROVE  <1>3
    BY <1>1, <2>3
  <2> QED BY <2>1, <2>2, <2>3 DEF notify_one
<1> QED BY <1>2, <1>3, MoveStep

LEMMA LoopStep ==
  ASSUME IInv, callback_return \/ pump_end
  PROVE  IInv'
<1>1. /\ UNCHANGED <<shared, states, thread, running, ready, signal, sweep, server, history>>
      /\ \/ main = "callback" /\ main' = "pump" /\ sweep = NoResource
         \/ main = "pump" /\ main' = "idle"
  BY DEF callback_return, pump_end, Settled
<1>2. thread \in [Worker -> {"none", "ready", "waiting", "working", "exited"}]
      /\ signal \in {"none", "one", "all"}
  BY DEF IInv, TypeOK
<1> QED BY <1>1, <1>2, MoveStep

-----------------------------------------------------------------------------
(* The invariant.                                                          *)

LEMMA InitInvariant == Init => IInv
<1> SUFFICES ASSUME Init PROVE IInv
  OBVIOUS
<1>1. NoJob \in JobType /\ NoJob.resource = NoResource /\ NoJob.vm = 0
  BY SchedulerAssumption DEF NoJob, JobType
<1>2. TypeOK
  <2>1. 1 \in 1..MaxTask + 1 /\ <<>> \in Seq(Task) /\ <<>> \in Seq(Nat)
    BY SchedulerAssumption, EmptySeq
  <2>2. status \in [Task -> Status] /\ job \in [Task -> JobType]
    BY <1>1 DEF Init, Status
  <2>3. deliveries \in [Task -> Seq(Nat)] /\ cancel_requested \in [Task -> BOOLEAN]
    BY <2>1 DEF Init
  <2>4. /\ thread \in [Worker -> {"none", "ready", "waiting", "working", "exited"}]
        /\ running \in [Worker -> Task \cup {NoTask}]
        /\ generation \in [Resource -> Nat \ {0}] /\ boots \in [Resource -> Nat]
    BY DEF Init
  <2> QED BY <2>1, <2>2, <2>3, <2>4, SchedulerAssumption DEF Init, TypeOK
<1>3. PumpInv
  BY EmptyRange DEF Init, PumpInv
<1>4. FreshInv /\ QueueInv /\ WorkerInv /\ DeliveryInv /\ CancelInv
  BY DEF Init, FreshInv, QueueInv, WorkerInv, DeliveryInv, CancelInv
<1>5. GenerationInv /\ StopInv
  BY <1>1 DEF Init, GenerationInv, StopInv, StoppedMeansSettled
<1> QED BY <1>2, <1>3, <1>4, <1>5 DEF IInv

LEMMA NextInvariant == IInv /\ [Next]_vars => IInv'
<1> SUFFICES ASSUME IInv, [Next]_vars PROVE IInv'
  OBVIOUS
<1>1. CASE start
  BY <1>1, StartStep
<1>2. CASE stop_begin
  BY <1>2, StopBeginStep
<1>3. CASE pump_swap
  BY <1>3, PumpSwapStep
<1>4. CASE main_step
  BY <1>4, NotifyStep, PumpDeliverStep, LoopStep, StopJoinStep, HandleResourceStoppedStep
     DEF main_step
<1>5. ASSUME NEW r \in Resource \cup {NoResource}, post_task(r) PROVE IInv'
  BY <1>5, PostTaskStep
<1>6. ASSUME NEW limit \in QueueLimits, configure(limit) PROVE IInv'
  BY <1>6, ConfigureStep
<1>7. ASSUME NEW t \in Task, cancel(t) PROVE IInv'
  BY <1>7, CancelStep
<1>8. ASSUME NEW r \in Resource, resource_started(r) \/ resource_stopped(r) PROVE IInv'
  BY <1>8, ResourceStartedStep, ResourceStoppedStep
<1>9. ASSUME NEW w \in Worker, worker_step(w) \/ spurious_wakeup(w) PROVE IInv'
  BY <1>9, ThreadStep, WorkerDequeueStep, WorkerFinishStep DEF worker_step
<1>10. CASE UNCHANGED vars
  <2>1. UNCHANGED <<shared, states, running, ready, sweep, server, history, thread, signal, main>>
    BY <1>10 DEF vars, threads
  <2>2. thread \in [Worker -> {"none", "ready", "waiting", "working", "exited"}]
        /\ signal \in {"none", "one", "all"}
    BY DEF IInv, TypeOK
  <2> QED BY <2>1, <2>2, MoveStep
<1> QED BY <1>1, <1>2, <1>3, <1>4, <1>5, <1>6, <1>7, <1>8, <1>9, <1>10 DEF Next

\* IInv holds in every state the scheduler can reach.
THEOREM Invariant == Spec => []IInv
<1> QED BY InitInvariant, NextInvariant, PTL DEF Spec

-----------------------------------------------------------------------------
(* What follows from it.                                                   *)

\* Every variable keeps its type: no step takes a handle, a queue or a
\* counter outside its range.
THEOREM TypeCorrect == Spec => []TypeOK
<1>1. IInv => TypeOK
  BY DEF IInv
<1> QED BY <1>1, Invariant, PTL

\* Task::cancel() that answered true suppresses the completion for good, for
\* any number of workers and resources (task.hpp:49-51).
THEOREM CancelIsSafe == Spec => []CancelSuppresses
<1>1. IInv => CancelSuppresses
  BY DEF IInv, TypeOK, CancelInv, DeliveryInv, CancelSuppresses
<1> QED BY <1>1, Invariant, PTL

\* No completion runs twice, whatever the hand-overs between the deque, the
\* workers and pump().
THEOREM DeliveryIsUnique == Spec => []DeliveredAtMostOnce
<1>1. ASSUME IInv, NEW t \in Task PROVE Len(deliveries[t]) <= 1
  <2>1. CASE deliveries[t] = <<>>
    BY <2>1
  <2>2. CASE deliveries[t] = <<job[t].vm>>
    BY <2>2
  <2> QED BY <1>1, <2>1, <2>2 DEF IInv, DeliveryInv
<1>2. IInv => DeliveredAtMostOnce
  BY <1>1 DEF DeliveredAtMostOnce
<1> QED BY <1>2, Invariant, PTL

\* A completion never reaches a later VM of a restarted resource: comparing
\* generations at delivery is enough to tell the VMs apart.
THEOREM DeliveryIsToPoster == Spec => []DeliveredToPoster
<1>1. IInv => DeliveredToPoster
  BY DEF IInv, TypeOK, JobType, DeliveryInv, DeliveredToPoster
<1> QED BY <1>1, Invariant, PTL

\* After stop() every accepted task is terminal and no thread is left.
THEOREM StopSettles == Spec => []StoppedMeansSettled
<1>1. IInv => StoppedMeansSettled
  BY DEF IInv, StopInv
<1> QED BY <1>1, Invariant, PTL

\* Done and Cancelled are final.
THEOREM TerminalStays == Spec => TerminalIsFinal
<1>1. ASSUME IInv, [Next]_vars, NEW t \in Task, status[t] \in Terminal
      PROVE  status'[t] = status[t]
  <2>1. /\ status[t] # "Queued" /\ status[t] # "Running" /\ status[t] # "Unposted"
    BY <1>1 DEF Terminal
  <2>2. CASE UNCHANGED status
    BY <2>2
  <2>3. ASSUME NEW r \in Resource \cup {NoResource}, post_task(r) PROVE status'[t] = status[t]
    BY <1>1, <2>1, <2>3 DEF IInv, TypeOK, FreshInv, post_task
  <2>4. ASSUME NEW u \in Task, cancel(u) PROVE status'[t] = status[t]
    BY <1>1, <2>1, <2>4 DEF IInv, TypeOK, cancel
  <2>5. ASSUME NEW w \in Worker, worker_dequeue(w) PROVE status'[t] = status[t]
    BY <1>1, <2>1, <2>5 DEF IInv, TypeOK, QueueInv, worker_dequeue, SkipsJob
  <2>6. ASSUME NEW w \in Worker, worker_finish(w) PROVE status'[t] = status[t]
    <3>1. running[w] # NoTask /\ status[running[w]] = "Running"
      BY <1>1, <2>6 DEF IInv, WorkerInv, worker_finish
    <3>2. t # running[w]
      BY <2>1, <3>1
    <3> QED BY <1>1, <2>6, <3>2 DEF IInv, TypeOK, worker_finish
  <2>7. CASE stop_begin
    BY <1>1, <2>1, <2>7 DEF stop_begin, StopSweep
  <2>8. CASE handle_resource_stopped
    BY <1>1, <2>1, <2>8 DEF handle_resource_stopped
  <2> QED
    BY <1>1, <2>2, <2>3, <2>4, <2>5, <2>6, <2>7, <2>8
       DEF Next, main_step, worker_step, vars, states, start, pump_swap, notify_one, notify_all,
           pump_deliver, callback_return, pump_end, stop_join, configure, resource_started,
           resource_stopped, worker_wait, worker_exit, spurious_wakeup
<1>2. IInv /\ [Next]_vars => [\A t \in Task : status[t] \in Terminal => status'[t] = status[t]]_vars
  BY <1>1
<1> QED BY <1>2, Invariant, PTL DEF Spec, TerminalIsFinal

\* After the ResourceStopped hook no task of the ended generation is started.
THEOREM StaleNeverStarts == Spec => NoStaleStart
<1> DEFINE Quiet(t) == status[t] = "Queued" /\ status'[t] = "Running"
                         => ~Stale(t) \/ sweep = job[t].resource
<1>1. ASSUME IInv, [Next]_vars, NEW t \in Task PROVE Quiet(t)
  <2>1. status[t] = "Queued" => t \in tasks
    BY <1>1 DEF IInv, QueueInv
  <2> QED BY <1>1, <2>1 DEF IInv, QueueInv
<1>2. IInv /\ [Next]_vars => [\A t \in Task : Quiet(t)]_vars
  BY <1>1
<1> QED BY <1>2, Invariant, PTL DEF Spec, NoStaleStart

-----------------------------------------------------------------------------
(* No lost wakeup.                                                         *)

ReadyWorkers == {w \in Worker : thread[w] = "ready"}

\* Both sides of NoJobBehindSleeper count finite sets.
LEMMA Counted ==
  ASSUME TypeOK
  PROVE  /\ IsFiniteSet(tasks) /\ Cardinality(tasks) \in Nat
         /\ IsFiniteSet(ReadyWorkers) /\ Cardinality(ReadyWorkers) \in Nat
<1>1. IsFiniteSet(1..MaxTask)
  BY SchedulerAssumption, FS_Interval
<1>2. IsFiniteSet(tasks)
  BY <1>1, FS_Subset DEF TypeOK, Task
<1>3. IsFiniteSet(ReadyWorkers)
  BY SchedulerAssumption, FS_Subset DEF ReadyWorkers
<1> QED BY <1>2, <1>3, FS_CardinalityType

\* A worker that leaves a wait, or its job, is one more on its way to the deque.
LEMMA WorkerReadied ==
  ASSUME TypeOK, NEW w \in Worker, thread[w] # "ready",
         thread' = [thread EXCEPT ![w] = "ready"]
  PROVE  Cardinality(ReadyWorkers') = Cardinality(ReadyWorkers) + 1
<1>1. ReadyWorkers' = ReadyWorkers \cup {w} /\ w \notin ReadyWorkers
  BY DEF ReadyWorkers, TypeOK
<1> QED BY <1>1, Counted, FS_AddElement

\* Fewer jobs never make the count worse.
LEMMA FewerJobs ==
  ASSUME TypeOK, tasks' \subseteq tasks
  PROVE  Cardinality(tasks') \in Nat /\ Cardinality(tasks') <= Cardinality(tasks)
BY Counted, FS_Subset, FS_CardinalityType

\* Each post is followed by a notification, and a worker that takes a job takes
\* one job: the two counts move together.
LEMMA NextWakes ==
  ASSUME IInv, NoJobBehindSleeper, [Next]_vars
  PROVE  NoJobBehindSleeper'
<1> DEFINE Waits == \E w \in Worker : thread[w] = "waiting"
           Due == IF signal = "one" THEN 1 ELSE 0
<1>0. /\ TypeOK
      /\ NoJobBehindSleeper <=> (Waits /\ ~stopping => Cardinality(tasks) <= Cardinality(ReadyWorkers) + Due)
      /\ NoJobBehindSleeper' <=>
           (Waits' /\ ~stopping' =>
              Cardinality(tasks') <= Cardinality(ReadyWorkers') + Due')
  BY DEF IInv, NoJobBehindSleeper, ReadyWorkers
<1> HIDE DEF Waits, Due
<1>1. ASSUME UNCHANGED <<thread, tasks, signal, stopping>> PROVE NoJobBehindSleeper'
  BY <1>0, <1>1 DEF Waits, Due, ReadyWorkers
<1>2. ASSUME NEW r \in Resource \cup {NoResource}, post_task(r) PROVE NoJobBehindSleeper'
  <2>1. /\ signal = "none" /\ signal' = "one" /\ UNCHANGED <<thread, stopping>>
        /\ next_task_id \in Task /\ tasks' = tasks \cup {next_task_id}
    BY <1>2 DEF post_task, MainFree, Settled, SignalForPost
  <2>2. Cardinality(tasks') <= Cardinality(tasks) + 1 /\ Cardinality(tasks') \in Nat
    <3>1. IsFiniteSet(tasks) /\ Cardinality(tasks) \in Nat
      BY <1>0, Counted
    <3>2. Cardinality(tasks \cup {next_task_id}) =
            IF next_task_id \in tasks THEN Cardinality(tasks) ELSE Cardinality(tasks) + 1
      BY <3>1, FS_AddElement
    <3> QED BY <2>1, <3>1, <3>2
  <2>3. ReadyWorkers' = ReadyWorkers /\ Waits' = Waits
    BY <2>1 DEF ReadyWorkers, Waits
  <2>4. Due = 0 /\ Due' = 1
    BY <2>1 DEF Due
  <2> QED BY <2>1, <2>2, <2>3, <2>4, <1>0, Counted
<1>3. ASSUME notify_one PROVE NoJobBehindSleeper'
  <2>1. signal = "one" /\ signal' = "none" /\ UNCHANGED <<tasks, stopping>>
    BY <1>3 DEF notify_one, shared
  <2>2. CASE \E w \in Worker : thread[w] = "waiting" /\ thread' = [thread EXCEPT ![w] = "ready"]
    <3>1. Cardinality(ReadyWorkers') = Cardinality(ReadyWorkers) + 1
      BY <2>2, <1>0, WorkerReadied
    <3>2. Waits
      BY <2>2 DEF Waits
    <3>3. Due = 1 /\ Due' = 0
      BY <2>1 DEF Due
    <3> QED BY <3>1, <3>2, <3>3, <2>1, <1>0, Counted
  <2>3. CASE (\A w \in Worker : thread[w] # "waiting") /\ UNCHANGED thread
    BY <2>3, <1>0 DEF Waits
  <2> QED BY <1>3, <2>2, <2>3 DEF notify_one
<1>4. ASSUME \A w \in Worker : thread'[w] # "waiting" PROVE NoJobBehindSleeper'
  BY <1>4, <1>0 DEF Waits
<1>5. ASSUME NEW w \in Worker, spurious_wakeup(w) PROVE NoJobBehindSleeper'
  <2>1. thread[w] = "waiting" /\ UNCHANGED <<tasks, stopping, signal>>
    BY <1>5 DEF spurious_wakeup, shared
  <2>2. Cardinality(ReadyWorkers') = Cardinality(ReadyWorkers) + 1
    BY <1>5, <1>0, WorkerReadied DEF spurious_wakeup
  <2>3. Waits /\ Due' = Due
    BY <2>1 DEF Waits, Due
  <2>4. Due \in Nat
    BY DEF Due
  <2> QED BY <2>1, <2>2, <2>3, <2>4, <1>0, Counted
<1>6. ASSUME NEW w \in Worker, worker_wait(w) PROVE NoJobBehindSleeper'
  <2>1. tasks' = {} /\ UNCHANGED stopping
    BY <1>6 DEF worker_wait, shared
  <2>2. Cardinality(tasks') = 0
    BY <2>1, FS_EmptySet
  <2>3. ReadyWorkers' \subseteq ReadyWorkers
    BY <1>6, <1>0 DEF worker_wait, ReadyWorkers, TypeOK
  <2>4. Cardinality(ReadyWorkers') \in Nat /\ Due' \in Nat
    BY <2>3, <1>0, Counted, FS_Subset, FS_CardinalityType DEF Due
  <2> QED BY <2>2, <2>4, <1>0
<1>7. ASSUME NEW w \in Worker, worker_dequeue(w) PROVE NoJobBehindSleeper'
  <2>1. thread[w] = "ready" /\ UNCHANGED <<stopping, signal>>
    BY <1>7 DEF worker_dequeue
  <2>2. PICK t \in tasks :
          /\ tasks' = tasks \ {t}
          /\ \/ UNCHANGED thread
             \/ thread' = [thread EXCEPT ![w] = "working"]
    BY <1>7 DEF worker_dequeue
  <2>3. Cardinality(tasks') = Cardinality(tasks) - 1
    BY <2>2, <1>0, Counted, FS_RemoveElement
  <2>4. Waits' => Waits
    BY <2>1, <2>2, <1>0 DEF Waits, TypeOK
  <2>5. Due' = Due /\ Due \in Nat
    BY <2>1 DEF Due
  <2>6. CASE UNCHANGED thread
    <3>1. ReadyWorkers' = ReadyWorkers
      BY <2>6 DEF ReadyWorkers
    <3> QED BY <3>1, <2>1, <2>3, <2>4, <2>5, <1>0, Counted
  <2>7. CASE thread' = [thread EXCEPT ![w] = "working"]
    <3>1. ReadyWorkers' = ReadyWorkers \ {w} /\ w \in ReadyWorkers
      BY <2>1, <2>7, <1>0 DEF ReadyWorkers, TypeOK
    <3>2. Cardinality(ReadyWorkers') = Cardinality(ReadyWorkers) - 1
      BY <3>1, <1>0, Counted, FS_RemoveElement
    <3> QED BY <3>2, <2>1, <2>3, <2>4, <2>5, <1>0, Counted
  <2> QED BY <2>2, <2>6, <2>7
<1>8. ASSUME NEW w \in Worker, worker_finish(w) PROVE NoJobBehindSleeper'
  <2>1. thread[w] = "working" /\ thread' = [thread EXCEPT ![w] = "ready"]
        /\ UNCHANGED <<tasks, stopping, signal>>
    BY <1>8 DEF worker_finish
  <2>2. Cardinality(ReadyWorkers') = Cardinality(ReadyWorkers) + 1
    BY <2>1, <1>0, WorkerReadied
  <2>3. Waits' => Waits
    BY <2>1, <1>0 DEF Waits, TypeOK
  <2>4. Due' = Due /\ Due \in Nat
    BY <2>1 DEF Due
  <2> QED BY <2>1, <2>2, <2>3, <2>4, <1>0, Counted
<1>9. ASSUME handle_resource_stopped PROVE NoJobBehindSleeper'
  <2>1. tasks' \subseteq tasks /\ UNCHANGED <<thread, stopping, signal>>
    BY <1>9 DEF handle_resource_stopped
  <2>2. Cardinality(tasks') \in Nat /\ Cardinality(tasks') <= Cardinality(tasks)
    BY <2>1, <1>0, FewerJobs
  <2>3. ReadyWorkers' = ReadyWorkers /\ Waits' = Waits /\ Due' = Due /\ Due \in Nat
    BY <2>1 DEF ReadyWorkers, Waits, Due
  <2> QED BY <2>1, <2>2, <2>3, <1>0, Counted
<1>10. CASE start \/ notify_all \/ stop_join
  <2>1. \A w \in Worker : thread'[w] # "waiting"
    BY <1>10, <1>0 DEF start, notify_all, stop_join, TypeOK
  <2> QED BY <2>1, <1>4
<1>11. CASE stop_begin
  BY <1>11, <1>0 DEF stop_begin
<1>12. ASSUME NEW w \in Worker, worker_exit(w) PROVE NoJobBehindSleeper'
  BY <1>12, <1>0 DEF worker_exit, shared
<1>13. CASE \/ pump_swap \/ pump_deliver \/ callback_return \/ pump_end
            \/ (\E limit \in QueueLimits : configure(limit)) \/ (\E t \in Task : cancel(t))
            \/ (\E r \in Resource : resource_started(r) \/ resource_stopped(r))
            \/ UNCHANGED vars
  BY <1>13, <1>1 DEF pump_swap, pump_deliver, callback_return, pump_end, configure, cancel,
     resource_started, resource_stopped, shared, states, threads, server, history, vars
<1> QED
  BY <1>2, <1>3, <1>5, <1>6, <1>7, <1>8, <1>9, <1>10, <1>11, <1>12, <1>13
  DEF Next, main_step, worker_step

\* However posts, waits, spurious wakeups, resource stops and shutdowns mix, no
\* job is left behind a busy worker while another one sleeps.
THEOREM NoLostWakeup == Spec => []NoJobBehindSleeper
<1>1. Init => NoJobBehindSleeper
  BY DEF Init, NoJobBehindSleeper
<1>2. IInv /\ NoJobBehindSleeper /\ [Next]_vars => NoJobBehindSleeper'
  BY NextWakes
<1> QED BY <1>1, <1>2, Invariant, PTL DEF Spec

-----------------------------------------------------------------------------
(* The scheduler implements AsyncTasks.                                    *)

\* What the mapping needs beside IInv: pump()'s vector is empty between two
\* pump()s, nothing finished waits in a stopped scheduler, a requested cancel is
\* not overtaken by a delivery, and no task is of a generation still to come.
RestInv ==
  /\ main \in {"idle", "joining"} => ready = <<>>
  /\ stopping /\ main # "joining" => completions = <<>> /\ ready = <<>>
  /\ \A t \in Task : cancel_requested[t] => status[t] \in {"Running", "Cancelled"}
  /\ \A t \in Task : job[t].resource # NoResource => job[t].generation <= boots[job[t].resource]

LEMMA InitRest == Init => RestInv
  BY DEF Init, RestInv, NoJob

\* The vectors: what pump(), the workers and stop() leave in them.
LEMMA RestVectors ==
  ASSUME IInv, RestInv, [Next]_vars
  PROVE  /\ main' \in {"idle", "joining"} => ready' = <<>>
         /\ stopping' /\ main' # "joining" => completions' = <<>> /\ ready' = <<>>
<1> DEFINE Goal == /\ main' \in {"idle", "joining"} => ready' = <<>>
                   /\ stopping' /\ main' # "joining" => completions' = <<>> /\ ready' = <<>>
<1>1. CASE start \/ pump_swap \/ pump_end \/ callback_return \/ stop_begin \/ stop_join
  BY <1>1 DEF RestInv, shared, start, pump_swap, AfterSwap, pump_end, callback_return, stop_begin,
              stop_join
<1>2. ASSUME NEW w \in Worker, worker_finish(w) PROVE Goal
  <2>1. stopping => main = "joining"
    BY <1>2 DEF IInv, StopInv, StoppedMeansSettled, NoThreads, worker_finish
  <2>2. UNCHANGED <<main, ready, stopping>>
    BY <1>2 DEF worker_finish
  <2> QED BY <2>1, <2>2 DEF RestInv
<1>3. CASE pump_deliver
  BY <1>3 DEF RestInv, pump_deliver, shared
<1>4. CASE UNCHANGED <<main, ready, stopping, completions>>
  BY <1>4 DEF RestInv
<1> QED
  BY <1>1, <1>2, <1>3, <1>4
     DEF Next, main_step, worker_step, vars, shared, states, threads, notify_one, notify_all,
         post_task, configure, cancel, resource_started, resource_stopped,
         handle_resource_stopped, worker_wait, worker_exit, worker_dequeue, spurious_wakeup

\* A task that is being cancelled is never Done.
LEMMA RestCancel ==
  ASSUME IInv, RestInv, [Next]_vars, NEW t \in Task
  PROVE  cancel_requested'[t] => status'[t] \in {"Running", "Cancelled"}
<1> DEFINE Goal == cancel_requested'[t] => status'[t] \in {"Running", "Cancelled"}
<1> USE DEF IInv, TypeOK
<1>1. CASE UNCHANGED <<status, cancel_requested>>
  BY <1>1 DEF RestInv
<1>2. ASSUME NEW r \in Resource \cup {NoResource}, post_task(r) PROVE Goal
  BY <1>2 DEF RestInv, FreshInv, post_task
<1>3. ASSUME NEW u \in Task, cancel(u) PROVE Goal
  BY <1>3 DEF RestInv, cancel
<1>4. ASSUME NEW w \in Worker, worker_dequeue(w) PROVE Goal
  BY <1>4 DEF RestInv, worker_dequeue
<1>5. ASSUME NEW w \in Worker, worker_finish(w) PROVE Goal
  BY <1>5 DEF RestInv, worker_finish, Suppressed
<1>6. CASE stop_begin
  BY <1>6 DEF RestInv, stop_begin, StopSweep
<1>7. CASE handle_resource_stopped
  BY <1>7 DEF RestInv, handle_resource_stopped
<1> QED
  BY <1>1, <1>2, <1>3, <1>4, <1>5, <1>6, <1>7
     DEF Next, main_step, worker_step, vars, states, start, pump_swap, notify_one, notify_all,
         pump_deliver, callback_return, pump_end, stop_join, configure, resource_started,
         resource_stopped, worker_wait, worker_exit, spurious_wakeup

\* A task belongs to a VM that has been started.
LEMMA RestGeneration ==
  ASSUME IInv, RestInv, [Next]_vars, NEW t \in Task, job'[t].resource # NoResource
  PROVE  job'[t].generation <= boots'[job'[t].resource]
<1> USE DEF IInv, TypeOK, JobType
<1>1. CASE UNCHANGED <<job, boots>>
  BY <1>1 DEF RestInv
<1>2. ASSUME NEW r \in Resource \cup {NoResource}, post_task(r)
      PROVE  job'[t].generation <= boots'[job'[t].resource]
  <2>1. CASE t = next_task_id /\ r \in Resource
    <3>1. job'[t].resource = r /\ job'[t].generation = generation[r] /\ boots' = boots
      BY <1>2, <2>1, SchedulerAssumption DEF post_task, Attribution, server
    <3>2. r \in up /\ sweep = NoResource
      BY <1>2, <2>1, SchedulerAssumption DEF post_task, MainFree, Settled
    <3>3. generation[r] = boots[r]
      BY <3>2, <2>1, SchedulerAssumption DEF GenerationInv
    <3> QED BY <3>1, <3>3, <2>1
  <2>2. CASE t = next_task_id /\ r \notin Resource
    BY <1>2, <2>2 DEF post_task, Attribution, NoJob
  <2>3. CASE t # next_task_id
    BY <1>2, <2>3 DEF RestInv, post_task, server
  <2> QED BY <2>1, <2>2, <2>3
<1>3. ASSUME NEW r \in Resource, resource_started(r)
      PROVE  job'[t].generation <= boots'[job'[t].resource]
  BY <1>3 DEF RestInv, resource_started, states
<1> QED
  BY <1>1, <1>2, <1>3
     DEF Next, main_step, worker_step, vars, states, server, start, stop_begin, pump_swap, notify_one,
         notify_all, pump_deliver, callback_return, pump_end, stop_join, configure, cancel,
         resource_stopped, handle_resource_stopped, worker_wait, worker_exit, worker_dequeue,
         worker_finish, spurious_wakeup

\* RestInv holds in every state that completions, cancels, resource hooks and stop() lead to.
THEOREM RestInvariant == Spec => []RestInv
<1>1. IInv /\ RestInv /\ [Next]_vars => RestInv'
  BY RestVectors, RestCancel, RestGeneration DEF RestInv
<1> QED BY <1>1, InitRest, Invariant, PTL DEF Spec
-----------------------------------------------------------------------------
(* Outcomes.                                                               *)

Own(t) == job[t].resource

\* What an outcome depends on.
LEMMA SameOutcome ==
  ASSUME NEW t \in Task, UNCHANGED <<status[t], deliveries[t], cancel_requested[t], stopping>>,
         Stale(t)' = Stale(t), InPump(t)' = InPump(t)
  PROVE  AbstractOutcome(t)' = AbstractOutcome(t)
  BY DEF AbstractOutcome

LEMMA PendingMeans ==
  ASSUME NEW t \in Task
  PROVE  AbstractOutcome(t) = "pending" <=>
           /\ status[t] # "Unposted" /\ deliveries[t] = <<>>
           /\ ~stopping /\ ~Stale(t)
           /\ status[t] # "Cancelled" /\ ~cancel_requested[t]
           /\ status[t] = "Done" => InPump(t)
  BY DEF AbstractOutcome

LEMMA SuppressedMeans ==
  ASSUME NEW t \in Task
  PROVE  AbstractOutcome(t) = "suppressed" <=>
           /\ status[t] # "Unposted" /\ deliveries[t] = <<>>
           /\ \/ stopping \/ Stale(t) \/ status[t] = "Cancelled" \/ cancel_requested[t]
              \/ status[t] = "Done" /\ ~InPump(t)
  BY DEF AbstractOutcome

LEMMA DeliveredMeans ==
  ASSUME NEW t \in Task
  PROVE  AbstractOutcome(t) = "delivered" <=> status[t] # "Unposted" /\ deliveries[t] # <<>>
  BY DEF AbstractOutcome

LEMMA PrimedMeans ==
  ASSUME NEW t \in Task
  PROVE  /\ AbstractOutcome(t)' = "pending" <=>
              /\ status'[t] # "Unposted" /\ deliveries'[t] = <<>>
              /\ ~stopping' /\ ~Stale(t)'
              /\ status'[t] # "Cancelled" /\ ~cancel_requested'[t]
              /\ status'[t] = "Done" => InPump(t)'
         /\ AbstractOutcome(t)' = "suppressed" <=>
              /\ status'[t] # "Unposted" /\ deliveries'[t] = <<>>
              /\ \/ stopping' \/ Stale(t)' \/ status'[t] = "Cancelled" \/ cancel_requested'[t]
                 \/ status'[t] = "Done" /\ ~InPump(t)'
  BY DEF AbstractOutcome

\* A step that changes no outcome, owner, VM or lifetime is a stutter of AsyncTasks.
LEMMA Stutter ==
  ASSUME \A t \in Task : AbstractOutcome(t)' = AbstractOutcome(t),
         UNCHANGED <<job, stopping, cancel_acked>>, (up \ {sweep})' = up \ {sweep}
  PROVE  UNCHANGED Abstract!avars
  BY DEF Abstract!avars

\* The vectors pass tasks on to one another.
LEMMA SameStale ==
  ASSUME NEW t \in Task, UNCHANGED <<job, up, generation>>
  PROVE  Stale(t)' = Stale(t)
  BY DEF Stale

LEMMA SamePump ==
  ASSUME NEW t \in Task, UNCHANGED <<completions, ready>>
  PROVE  InPump(t)' = InPump(t)
  BY DEF InPump

LEMMA InitRefines == Init => Abstract!AInit
<1> SUFFICES ASSUME Init PROVE Abstract!AInit
  OBVIOUS
<1>1. \A t \in Task : AbstractOutcome(t) = "unposted" /\ job[t].resource = NoResource
  BY DEF Init, AbstractOutcome, NoJob
<1> QED BY <1>1 DEF Abstract!AInit, Init

\* The steps that no outcome depends on.
LEMMA QuietRefines ==
  ASSUME UNCHANGED <<status, deliveries, cancel_acked, cancel_requested, stopping, job, up, sweep, generation,
                     completions, ready>>
  PROVE  UNCHANGED Abstract!avars
<1>1. \A t \in Task : AbstractOutcome(t)' = AbstractOutcome(t)
  BY SameStale, SamePump, SameOutcome
<1> QED BY <1>1, Stutter

\* A stopped scheduler has nothing left to deliver when it is started again.
LEMMA StartRefines ==
  ASSUME IInv, RestInv, start PROVE Abstract!AReopen \/ UNCHANGED Abstract!avars
<1>1. UNCHANGED <<status, deliveries, cancel_acked, cancel_requested, job, up, sweep, generation, completions, ready>>
  BY DEF start, states, server, history
<1>2. CASE ~stopping
  BY <1>1, <1>2, QuietRefines DEF start, IInv, TypeOK
<1>3. CASE stopping
  <2>1. completions = <<>> /\ ready = <<>>
    BY <1>3 DEF RestInv, start
  <2>2. \A t \in Task : status[t] \in Terminal \cup {"Unposted"}
    BY <1>3 DEF IInv, StopInv, StoppedMeansSettled, start
  <2>3. ASSUME NEW t \in Task PROVE AbstractOutcome(t)' = AbstractOutcome(t)
    <3>1. ~InPump(t) /\ ~InPump(t)'
      BY <2>1, <1>1, EmptyRange DEF InPump
    <3>2. Stale(t)' = Stale(t)
      BY <1>1, SameStale
    <3> QED BY <3>1, <3>2, <2>2, <1>1, <1>3 DEF AbstractOutcome, Terminal
  <2> QED BY <2>3, <1>1, <1>3 DEF Abstract!AReopen, start
<1> QED BY <1>2, <1>3

LEMMA PostRefines ==
  ASSUME IInv, RestInv, NEW r \in Resource \cup {NoResource}, post_task(r),
         NEW n \in Task, n = next_task_id
  PROVE  Abstract!APost(n, r)
<1> USE DEF IInv, TypeOK
<1>1. ~stopping /\ ~stopping' /\ sweep = NoResource /\ r \in up \cup {NoResource}
  BY DEF post_task, MainFree, Settled, AcceptsTask
<1>2. UNCHANGED <<deliveries, cancel_acked, cancel_requested, up, sweep, generation, completions, ready>>
  BY DEF post_task, server, history
<1>3. status[n] = "Unposted" /\ deliveries[n] = <<>> /\ ~cancel_requested[n]
  BY DEF FreshInv, RestInv
<1>4. status'[n] = "Queued" /\ job'[n] = Attribution(r)
  BY <1>1 DEF post_task
<1>5. Attribution(r).resource = r /\ (r # NoResource => Attribution(r).generation = generation[r])
  BY DEF Attribution, NoJob
<1>6. ~Stale(n)'
  BY <1>1, <1>2, <1>4, <1>5 DEF Stale
<1>7. AbstractOutcome(n) = "unposted" /\ AbstractOutcome(n)' = "pending"
  BY <1>1, <1>2, <1>3, <1>4, <1>6 DEF AbstractOutcome
<1>8. ASSUME NEW t \in Task, t # n
      PROVE  AbstractOutcome(t)' = AbstractOutcome(t) /\ job'[t] = job[t]
  <2>1. status'[t] = status[t] /\ job'[t] = job[t] /\ stopping' = stopping
    BY <1>1, <1>8 DEF post_task
  <2>2. Stale(t)' = Stale(t)
    BY <2>1, <1>2 DEF Stale
  <2>3. InPump(t)' = InPump(t)
    BY <1>2, SamePump
  <2> QED BY <2>1, <2>2, <2>3, <1>2, SameOutcome
<1>9. [t \in Task |-> AbstractOutcome(t)]' = [[t \in Task |-> AbstractOutcome(t)] EXCEPT ![n] = "pending"]
  BY <1>7, <1>8
<1>10. [t \in Task |-> job[t].resource]' = [[t \in Task |-> job[t].resource] EXCEPT ![n] = r]
  BY <1>4, <1>5, <1>8
<1>11. r \in (up \ {sweep}) \cup {NoResource}
  BY <1>1
<1> QED BY <1>1, <1>2, <1>7, <1>9, <1>10, <1>11 DEF Abstract!APost

\* A cancel that answers true is of a pending task, or of one suppressed already.
LEMMA CancelRefines ==
  ASSUME IInv, RestInv, NEW t \in Task, cancel(t)
  PROVE  Abstract!ACancel(t)
<1> USE DEF IInv, TypeOK
<1>1. UNCHANGED <<deliveries, stopping, job, up, sweep, generation, completions, ready>>
  BY DEF cancel, shared, threads, server
<1>2. status[t] \in {"Queued", "Running"} /\ deliveries[t] = <<>>
  BY DEF cancel, DeliveryInv
<1>3. status'[t] # "Unposted" /\ (status'[t] = "Cancelled" \/ cancel_requested'[t])
  BY <1>2 DEF cancel
<1>4. AbstractOutcome(t)' = "suppressed"
  BY <1>1, <1>2, <1>3 DEF AbstractOutcome
<1>5. AbstractOutcome(t) \in {"pending", "suppressed"}
  BY <1>2 DEF AbstractOutcome
<1>6. ASSUME NEW u \in Task, u # t PROVE AbstractOutcome(u)' = AbstractOutcome(u)
  <2>1. status'[u] = status[u] /\ cancel_requested'[u] = cancel_requested[u]
    BY <1>6 DEF cancel
  <2> QED BY <2>1, <1>1, SameStale, SamePump, SameOutcome
<1>7. [u \in Task |-> AbstractOutcome(u)]' =
        [u \in Task |-> IF u \in {t} /\ [v \in Task |-> AbstractOutcome(v)][u] = "pending"
                        THEN "suppressed" ELSE [v \in Task |-> AbstractOutcome(v)][u]]
  BY <1>4, <1>5, <1>6
<1>8. cancel_acked' = cancel_acked \cup {t}
  BY DEF cancel
<1> QED
  BY <1>1, <1>5, <1>7, <1>8 DEF Abstract!ACancel, Abstract!Pending, Abstract!SuppressAll

\* A task that a worker takes, and one that it finishes, was pending or suppressed
\* and stays what it was.
LEMMA WorkerDequeueRefines ==
  ASSUME IInv, NEW w \in Worker, worker_dequeue(w)
  PROVE  UNCHANGED Abstract!avars
<1> USE DEF IInv, TypeOK
<1>1. UNCHANGED <<deliveries, cancel_acked, cancel_requested, stopping, job, up, sweep, generation, completions, ready>>
  BY DEF worker_dequeue, server
<1>2. PICK t \in tasks : \A u \in Task : status'[u] =
        IF u = t /\ status[t] # "Cancelled" THEN "Running" ELSE status[u]
  BY DEF worker_dequeue, SkipsJob
<1>3. t \in Task /\ status[t] \in {"Queued", "Cancelled"}
  BY DEF QueueInv
<1>4. ASSUME NEW u \in Task PROVE AbstractOutcome(u)' = AbstractOutcome(u)
  <2>1. Stale(u)' = Stale(u) /\ InPump(u)' = InPump(u)
    BY <1>1, SameStale, SamePump
  <2>2. CASE status'[u] = status[u]
    BY <2>1, <2>2, <1>1, SameOutcome
  <2>3. CASE status'[u] # status[u]
    <3>1. status[u] = "Queued" /\ status'[u] = "Running"
      BY <2>3, <1>2, <1>3
    <3> QED BY <3>1, <2>1, <1>1 DEF AbstractOutcome
  <2> QED BY <2>2, <2>3
<1> QED BY <1>1, <1>4, Stutter

LEMMA WorkerFinishRefines ==
  ASSUME IInv, NEW w \in Worker, worker_finish(w)
  PROVE  UNCHANGED Abstract!avars
<1> USE DEF IInv, TypeOK
<1>1. UNCHANGED <<deliveries, cancel_acked, cancel_requested, stopping, job, up, sweep, generation, ready>>
  BY DEF worker_finish, server
<1>2. PICK t \in Task : t = running[w] /\ status[t] = "Running"
  BY DEF worker_finish, WorkerInv
<1>3. \A u \in Task \ {t} : status'[u] = status[u]
  BY <1>2 DEF worker_finish
<1>4. /\ Suppressed(t) => status'[t] = "Cancelled" /\ completions' = completions
      /\ ~Suppressed(t) => status'[t] = "Done" /\ completions' = Append(completions, t)
  BY <1>2 DEF worker_finish
<1>5. t \notin Range(completions)
  BY <1>2 DEF PumpInv
<1>6. Suppressed(t) \/ Range(completions') = Range(completions) \cup {t}
  <2>1. completions \in Seq(Task) /\ IsInjective(completions)
    BY DEF PumpInv
  <2>2. Range(Append(completions, t)) = Range(completions) \cup {t}
    <3> HIDE DEF IInv, TypeOK
    <3> QED BY <2>1, <1>5, AppendFresh
  <2> QED BY <1>4, <2>2
<1>7. ASSUME NEW u \in Task, u # t PROVE AbstractOutcome(u)' = AbstractOutcome(u)
  <2>1. InPump(u)' = InPump(u)
    BY <1>1, <1>4, <1>6, <1>7 DEF InPump
  <2> QED BY <2>1, <1>1, <1>3, <1>7, SameStale, SameOutcome
<1>8. AbstractOutcome(t)' = AbstractOutcome(t)
  <2>1. Stale(t)' = Stale(t)
    BY <1>1, SameStale
  <2>2. Suppressed(t) \/ InPump(t)'
    BY <1>6 DEF InPump
  <2> QED BY <2>1, <2>2, <1>1, <1>2, <1>4 DEF AbstractOutcome, Suppressed
<1> QED BY <1>1, <1>7, <1>8, Stutter

LEMMA PumpSwapRefines ==
  ASSUME IInv, RestInv, pump_swap PROVE UNCHANGED Abstract!avars
<1>1. UNCHANGED <<status, deliveries, cancel_acked, cancel_requested, stopping, job, up, sweep, generation>>
  BY DEF pump_swap, states, server, history
<1>2. ready = <<>> /\ ready' = completions /\ completions' = <<>>
  BY DEF RestInv, pump_swap, AfterSwap
<1>3. \A t \in Task : InPump(t)' = InPump(t)
  BY <1>2, EmptyRange DEF InPump
<1> QED BY <1>1, <1>3, SameStale, SameOutcome, Stutter

\* A completion that runs is that of a pending task; one that is dropped is of a
\* task suppressed when its generation ended.
LEMMA PumpDeliverRefines ==
  ASSUME IInv, RestInv, pump_deliver
  PROVE  (\E t \in Task : Abstract!ADeliver(t)) \/ UNCHANGED Abstract!avars
<1> USE DEF IInv, TypeOK
<1>1. UNCHANGED <<status, cancel_acked, cancel_requested, stopping, job, up, sweep, generation, completions>>
  BY DEF pump_deliver, shared, states, server
<1>2. ready # <<>> /\ ready' = Tail(ready) /\ main = "pump"
  BY DEF pump_deliver, AfterHead
<1>3. PICK t \in Task : t = Head(ready) /\ t \in Range(ready) /\ Range(ready') = Range(ready) \ {t}
  BY <1>2, TailFresh DEF PumpInv
<1>4. status[t] = "Done" /\ deliveries[t] = <<>> /\ ~cancel_requested[t] /\ ~stopping
  BY <1>2, <1>3 DEF PumpInv, RestInv
<1>5. t \notin Range(completions) /\ InPump(t) /\ ~InPump(t)'
  BY <1>1, <1>3 DEF PumpInv, InPump
<1>6. ASSUME NEW u \in Task, u # t PROVE AbstractOutcome(u)' = AbstractOutcome(u)
  <2>1. deliveries'[u] = deliveries[u]
    BY <1>3, <1>6 DEF pump_deliver
  <2>2. InPump(u)' = InPump(u)
    BY <1>1, <1>3, <1>6 DEF InPump
  <2> QED BY <2>1, <2>2, <1>1, SameStale, SameOutcome
<1>7. Stale(t)' = Stale(t)
  BY <1>1, SameStale
<1>8. CASE Stale(t)
  <2>1. deliveries' = deliveries
    BY <1>3, <1>8 DEF pump_deliver
  <2>2. AbstractOutcome(t)' = AbstractOutcome(t)
    BY <2>1, <1>1, <1>4, <1>7, <1>8 DEF AbstractOutcome
  <2> QED BY <2>2, <1>1, <1>6, Stutter
<1>9. CASE ~Stale(t)
  <2>1. deliveries'[t] = Append(deliveries[t], ReachedVM(t))
    BY <1>3, <1>9 DEF pump_deliver
  <2>2. deliveries'[t] # <<>>
    BY <2>1, <1>4
  <2>3. AbstractOutcome(t) = "pending" /\ AbstractOutcome(t)' = "delivered"
    BY <2>2, <1>1, <1>4, <1>5, <1>9 DEF AbstractOutcome
  <2>4. [u \in Task |-> AbstractOutcome(u)]' =
          [[u \in Task |-> AbstractOutcome(u)] EXCEPT ![t] = "delivered"]
    BY <2>3, <1>6
  <2> QED BY <2>3, <2>4, <1>1 DEF Abstract!ADeliver, Abstract!Pending
<1> QED BY <1>8, <1>9

LEMMA StopBeginRefines ==
  ASSUME IInv, stop_begin PROVE Abstract!AShutdown
<1> USE DEF IInv, TypeOK
<1>1. UNCHANGED <<deliveries, cancel_acked, cancel_requested, job, up, sweep, generation, completions, ready>> /\ stopping'
  BY DEF stop_begin, server, history
<1>2. ASSUME NEW t \in Task
      PROVE  AbstractOutcome(t)' =
               IF AbstractOutcome(t) = "pending" THEN "suppressed" ELSE AbstractOutcome(t)
  <2>1. (status'[t] = "Unposted") = (status[t] = "Unposted")
    BY DEF stop_begin, StopSweep
  <2> QED BY <2>1, <1>1 DEF AbstractOutcome
<1>3. [t \in Task |-> AbstractOutcome(t)]' =
        [t \in Task |-> IF t \in Task /\ [u \in Task |-> AbstractOutcome(u)][t] = "pending"
                        THEN "suppressed" ELSE [u \in Task |-> AbstractOutcome(u)][t]]
  BY <1>2
<1> QED BY <1>1, <1>3 DEF Abstract!AShutdown, Abstract!SuppressAll, Abstract!Pending

LEMMA StopJoinRefines ==
  ASSUME IInv, stop_join PROVE UNCHANGED Abstract!avars
<1>1. UNCHANGED <<status, deliveries, cancel_acked, cancel_requested, stopping, job, up, sweep, generation>>
  BY DEF stop_join, states, server, history
<1>2. stopping
  BY DEF IInv, StopInv, stop_join
<1>3. \A t \in Task : AbstractOutcome(t)' = AbstractOutcome(t)
  BY <1>1, <1>2 DEF AbstractOutcome
<1> QED BY <1>1, <1>3, Stutter

\* What the generation of a job says of its VM.
LEMMA OldJob ==
  ASSUME IInv, RestInv, NEW t \in Task, NEW r \in Resource, job[t].resource = r
  PROVE  /\ job[t].generation \in Nat /\ generation[r] \in Nat /\ boots[r] \in Nat
         /\ job[t].generation <= boots[r] /\ boots[r] <= generation[r]
         /\ r \notin up \/ sweep = r => job[t].generation < generation[r]
<1>1. job[t].generation \in Nat /\ generation[r] \in Nat /\ boots[r] \in Nat
  BY DEF IInv, TypeOK, JobType
<1>2. job[t].generation <= boots[r]
  BY SchedulerAssumption DEF RestInv
<1>3. generation[r] = IF r \in up /\ sweep # r THEN boots[r] ELSE boots[r] + 1
  BY DEF IInv, GenerationInv
<1> QED BY <1>1, <1>2, <1>3

LEMMA ResourceStartedRefines ==
  ASSUME IInv, RestInv, NEW r \in Resource, resource_started(r)
  PROVE  Abstract!AStartResource(r)
<1>1. UNCHANGED <<status, deliveries, cancel_acked, cancel_requested, stopping, job, generation, sweep, completions, ready>>
  BY DEF resource_started, shared, states, threads, history
<1>2. r \notin up /\ up' = up \cup {r} /\ sweep = NoResource
  BY DEF resource_started, MainFree, Settled
<1>3. ASSUME NEW t \in Task PROVE Stale(t)' = Stale(t)
  <2>1. CASE job[t].resource = r
    <3>1. job[t].generation # generation[r]
      BY <2>1, <1>2, OldJob
    <3> QED BY <2>1, <3>1, <1>1, <1>2, SchedulerAssumption DEF Stale
  <2>2. CASE job[t].resource # r
    BY <2>2, <1>1, <1>2 DEF Stale
  <2> QED BY <2>1, <2>2
<1>4. \A t \in Task : AbstractOutcome(t)' = AbstractOutcome(t)
  BY <1>1, <1>3, SamePump, SameOutcome
<1>5. r # sweep
  BY <1>2, SchedulerAssumption
<1> QED BY <1>1, <1>2, <1>4, <1>5 DEF Abstract!AStartResource

LEMMA ResourceStoppedRefines ==
  ASSUME IInv, RestInv, NEW r \in Resource, resource_stopped(r)
  PROVE  Abstract!AStopResource(r)
<1>1. UNCHANGED <<status, deliveries, cancel_acked, cancel_requested, stopping, job, up, completions, ready>>
  BY DEF resource_stopped, shared, states, history
<1>2. r \in up /\ sweep = NoResource /\ sweep' = r
  BY DEF resource_stopped, MainFree, Settled
<1>3. generation'[r] = generation[r] + 1 /\ \A q \in Resource \ {r} : generation'[q] = generation[q]
  BY DEF resource_stopped, IInv, TypeOK
<1>4. ASSUME NEW t \in Task
      PROVE  Stale(t)' = (Stale(t) \/ job[t].resource = r)
  <2>1. CASE job[t].resource = r
    <3>1. job[t].generation # generation'[r]
      BY <2>1, <1>3, OldJob
    <3> QED BY <2>1, <3>1, <1>1, SchedulerAssumption DEF Stale
  <2>2. CASE job[t].resource # r
    <3>1. job[t].resource = NoResource \/ generation'[job[t].resource] = generation[job[t].resource]
      BY <2>2, <1>3 DEF IInv, TypeOK, JobType
    <3> QED BY <2>2, <3>1, <1>1 DEF Stale
  <2> QED BY <2>1, <2>2
<1>5. ASSUME NEW t \in Task
      PROVE  AbstractOutcome(t)' =
               IF job[t].resource = r /\ AbstractOutcome(t) = "pending"
               THEN "suppressed" ELSE AbstractOutcome(t)
  BY <1>1, <1>4, SamePump DEF AbstractOutcome
<1>6. [t \in Task |-> AbstractOutcome(t)]' =
        [t \in Task |-> IF /\ t \in {u \in Task : [v \in Task |-> job[v].resource][u] = r}
                           /\ [u \in Task |-> AbstractOutcome(u)][t] = "pending"
                        THEN "suppressed" ELSE [u \in Task |-> AbstractOutcome(u)][t]]
  BY <1>5
<1>7. r \in up \ {sweep} /\ (up \ {sweep})' = (up \ {sweep}) \ {r}
  BY <1>1, <1>2, SchedulerAssumption DEF IInv, TypeOK
<1> QED
  BY <1>1, <1>6, <1>7 DEF Abstract!AStopResource, Abstract!SuppressAll, Abstract!Pending

LEMMA HandleResourceStoppedRefines ==
  ASSUME IInv, RestInv, handle_resource_stopped PROVE UNCHANGED Abstract!avars
<1> USE DEF IInv, TypeOK
<1>1. UNCHANGED <<deliveries, cancel_acked, cancel_requested, stopping, job, generation, completions, ready>>
  BY DEF handle_resource_stopped, history
<1>2. PICK r \in Resource : sweep = r /\ sweep' = NoResource /\ up' = up \ {r}
  BY DEF handle_resource_stopped
<1>3. ASSUME NEW t \in Task, job[t].resource = r PROVE Stale(t) /\ Stale(t)'
  <2> HIDE DEF IInv, TypeOK
  <2>1. /\ job[t].generation \in Nat /\ generation[r] \in Nat
        /\ job[t].generation < generation[r]
    BY <1>2, <1>3, OldJob
  <2>2. job[t].generation # generation[r]
    BY <2>1
  <2> QED BY <2>2, <1>1, <1>3, SchedulerAssumption DEF Stale
<1>4. ASSUME NEW t \in Task, job[t].resource # r
      PROVE  status'[t] = status[t] /\ Stale(t)' = Stale(t)
  BY <1>1, <1>2, <1>4 DEF handle_resource_stopped, ErasedJobs, Stale
<1>5. ASSUME NEW t \in Task PROVE AbstractOutcome(t)' = AbstractOutcome(t)
  <2>1. CASE job[t].resource = r
    <3>1. (status'[t] = "Unposted") = (status[t] = "Unposted")
      BY DEF handle_resource_stopped
    <3> QED BY <3>1, <2>1, <1>1, <1>3 DEF AbstractOutcome
  <2>2. CASE job[t].resource # r
    BY <2>2, <1>1, <1>4, SamePump, SameOutcome
  <2> QED BY <2>1, <2>2
<1>6. (up \ {sweep})' = up \ {sweep}
  BY <1>2, SchedulerAssumption
<1> QED BY <1>1, <1>5, <1>6, Stutter

\* Every step of the threads, the queue and pump() is a step of the contract or
\* none.
LEMMA NextRefines ==
  ASSUME IInv, RestInv, [Next]_vars
  PROVE  [Abstract!ANext]_(Abstract!avars)
<1> DEFINE Goal == Abstract!ANext \/ UNCHANGED Abstract!avars
<1>1. CASE start
  BY <1>1, StartRefines DEF Abstract!ANext
<1>2. CASE stop_begin \/ stop_join
  BY <1>2, StopBeginRefines, StopJoinRefines DEF Abstract!ANext
<1>3. CASE pump_swap \/ pump_deliver
  BY <1>3, PumpSwapRefines, PumpDeliverRefines DEF Abstract!ANext
<1>4. ASSUME NEW r \in Resource \cup {NoResource}, post_task(r) PROVE Goal
  <2>1. next_task_id \in Task
    BY <1>4 DEF post_task
  <2> QED BY <2>1, <1>4, PostRefines DEF Abstract!ANext
<1>5. ASSUME NEW t \in Task, cancel(t) PROVE Goal
  BY <1>5, CancelRefines DEF Abstract!ANext
<1>6. ASSUME NEW r \in Resource, resource_started(r) \/ resource_stopped(r) PROVE Goal
  BY <1>6, ResourceStartedRefines, ResourceStoppedRefines DEF Abstract!ANext
<1>7. CASE handle_resource_stopped
  BY <1>7, HandleResourceStoppedRefines
<1>8. ASSUME NEW w \in Worker, worker_dequeue(w) \/ worker_finish(w) PROVE Goal
  BY <1>8, WorkerDequeueRefines, WorkerFinishRefines
<1>9. CASE UNCHANGED <<status, deliveries, cancel_acked, cancel_requested, stopping, job, up, sweep, generation,
                       completions, ready>>
  BY <1>9, QuietRefines
<1>10. Next \/ UNCHANGED vars
  OBVIOUS
<1> QED
  BY <1>1, <1>2, <1>3, <1>4, <1>5, <1>6, <1>7, <1>8, <1>9, <1>10
     DEF Next, main_step, worker_step, vars, shared, states, threads, server, history, notify_one,
         notify_all, callback_return, pump_end, configure, worker_wait, worker_exit,
         spurious_wakeup

\* The scheduler keeps the contract of its interface: no interleaving of posts,
\* cancels, workers, pump(), resource hooks and shutdown delivers a completion
\* twice or after its task was suppressed, and no step takes a pending completion
\* away but a cancel() that answers true, the stop of its resource or stop().
THEOREM Refinement == Spec => ImplementsAsyncTasks
<1>1. IInv /\ RestInv /\ [Next]_vars => [Abstract!ANext]_(Abstract!avars)
  BY NextRefines
<1> QED
  BY <1>1, InitRefines, Invariant, RestInvariant, PTL DEF Spec, ImplementsAsyncTasks, Abstract!ASpec
====
