----------------------------- MODULE AsyncTasks ------------------------------
(***************************************************************************)
(* What mta::async promises to the code that calls run(): the contract of  *)
(* task.hpp, scheduler.hpp:54-60 and the ownership rules of                *)
(* other/documents/api.md, with no threads, no queue and no pump.          *)
(*                                                                         *)
(* A task that was accepted is pending until its completion runs once      *)
(* ("delivered") or will never run ("suppressed").  Three events suppress  *)
(* it and no others: a cancel, in the step that answers true, the end of   *)
(* the generation of its owner, and the shutdown of the scheduler.  In     *)
(* any other step a pending task stays pending or is delivered.            *)
(***************************************************************************)
CONSTANTS Task, Resource, NoResource

VARIABLES
  outcome,  \* per task: unposted, pending, delivered, suppressed
  owner,    \* per task: the resource it belongs to
  alive,    \* the resources whose generation has not ended
  open,     \* the scheduler has not been shut down
  acked     \* the tasks whose cancel() has answered true

avars == <<outcome, owner, alive, open, acked>>

Pending(t) == outcome[t] = "pending"

AInit ==
  /\ outcome = [t \in Task |-> "unposted"]
  /\ owner = [t \in Task |-> NoResource]
  /\ alive = {}
  /\ open = TRUE
  /\ acked = {}

APost(t, r) ==
  /\ open /\ outcome[t] = "unposted"
  /\ r \in alive \cup {NoResource}
  /\ outcome' = [outcome EXCEPT ![t] = "pending"]
  /\ owner' = [owner EXCEPT ![t] = r]
  /\ UNCHANGED <<alive, open, acked>>

ADeliver(t) ==
  /\ Pending(t)
  /\ outcome' = [outcome EXCEPT ![t] = "delivered"]
  /\ UNCHANGED <<owner, alive, open, acked>>

\* Every pending task of S stops being pending, and no other task changes.
SuppressAll(S) ==
  outcome' = [t \in Task |-> IF t \in S /\ Pending(t) THEN "suppressed" ELSE outcome[t]]

\* Task::cancel() answers true: a task may be cancelled again, or when its
\* generation or the scheduler has ended already, but not after its delivery.
ACancel(t) ==
  /\ Pending(t) \/ outcome[t] = "suppressed"
  /\ acked' = acked \cup {t}
  /\ SuppressAll({t})
  /\ UNCHANGED <<owner, alive, open>>

AStartResource(r) ==
  /\ r \notin alive
  /\ alive' = alive \cup {r}
  /\ UNCHANGED <<outcome, owner, open, acked>>

\* The generation ends and takes all the pending tasks of the resource along.
AStopResource(r) ==
  /\ r \in alive
  /\ alive' = alive \ {r}
  /\ SuppressAll({t \in Task : owner[t] = r})
  /\ UNCHANGED <<owner, open, acked>>

AShutdown ==
  /\ open' = FALSE
  /\ SuppressAll(Task)
  /\ UNCHANGED <<owner, alive, acked>>

AReopen ==
  /\ ~open /\ open' = TRUE
  /\ UNCHANGED <<outcome, owner, alive, acked>>

ANext ==
  \/ \E t \in Task, r \in Resource \cup {NoResource} : APost(t, r)
  \/ \E t \in Task : ADeliver(t) \/ ACancel(t)
  \/ \E r \in Resource : AStartResource(r) \/ AStopResource(r)
  \/ AShutdown \/ AReopen

ASpec == AInit /\ [][ANext]_avars
=============================================================================
