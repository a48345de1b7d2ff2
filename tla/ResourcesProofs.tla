--------------------------- MODULE ResourcesProofs ---------------------------
(***************************************************************************)
(* Proofs about Resources, for any number of resources, stores, watchers,  *)
(* ids and generations.                                                    *)
(*                                                                         *)
(* The argument: during a notification of a stop the store's map of the    *)
(* resource is one generation behind and its turn is still to come, and    *)
(* when no turn is left no such map is; everywhere else a map belongs to   *)
(* the current generation of a VM that is up.  That the stores are in the  *)
(* copy of the sinks follows from their being subscribed from their        *)
(* construction to the exit.                                               *)
(***************************************************************************)
EXTENDS Resources, SequenceTheorems, TLAPS

\* Appending to a sequence keeps its first element, and puts nothing but the new
\* element into it.
LEMMA AppendFacts ==
  ASSUME NEW S, NEW q \in Seq(S), NEW x \in S
  PROVE  /\ Append(q, x) \in Seq(S) /\ Len(Append(q, x)) = Len(q) + 1
         /\ Append(q, x)[Len(q) + 1] = x
         /\ \A i \in 1..Len(q) : Append(q, x)[i] = q[i]
OBVIOUS

\* Taking the last element off a sequence leaves the others where they are.
LEMMA FrontFacts ==
  ASSUME NEW S, NEW q \in Seq(S), q # <<>>
  PROVE  /\ SubSeq(q, 1, Len(q) - 1) \in Seq(S)
         /\ Len(q) \in Nat \ {0}
         /\ Len(SubSeq(q, 1, Len(q) - 1)) = Len(q) - 1
         /\ \A i \in 1..Len(q) - 1 : SubSeq(q, 1, Len(q) - 1)[i] = q[i]
<1>1. PICK n \in Nat \ {0} : n = Len(q) /\ \A i \in 1..n : q[i] \in S
  BY EmptySeq, LenProperties
<1>2. \A i \in 1..n - 1 : q[i] \in S
  BY <1>1
<1>3. /\ SubSeq(q, 1, n - 1) \in Seq(S)
      /\ Len(SubSeq(q, 1, n - 1)) = IF 1 <= n - 1 THEN (n - 1) - 1 + 1 ELSE 0
      /\ \A i \in 1..(n - 1) - 1 + 1 : SubSeq(q, 1, n - 1)[i] = q[1 + i - 1]
  BY <1>1, <1>2, SubSeqProperties
<1> QED BY <1>1, <1>3

\* A static that is constructed on first use joins the statics behind the others.
LEMMA WithFacts ==
  ASSUME TypeOK, StaticsInv, statics # <<>>, NEW x \in Static
  PROVE  /\ With(x) \in Seq(Static) /\ Len(With(x)) > 0 /\ With(x)[1] = "hub"
         /\ With(x) # <<>>
<1>1. /\ statics \in Seq(Static) /\ Len(statics) \in Nat /\ Len(statics) > 0
      /\ statics[1] = "hub"
  BY DEF TypeOK, StaticsInv
<1>2. CASE x \in Constructed
  BY <1>1, <1>2 DEF With
<1>3. CASE x \notin Constructed
  <2>1. With(x) = Append(statics, x)
    BY <1>3 DEF With
  <2> QED BY <1>1, <2>1, AppendFacts
<1> QED BY <1>2, <1>3

-----------------------------------------------------------------------------
(* The steps.  Each lemma takes one part of the invariant through Next.     *)

\* Next preserves the types.
LEMMA TypeStep ==
  ASSUME IInv, [Next]_vars
  PROVE  TypeOK'
<1> USE ResourcesAssumption
<1> USE DEF TypeOK, HandleMap, Absent, Id, Sink, Static
<1>0. TypeOK /\ StaticsInv /\ WalkInv /\ generation \in [Resource -> Nat]
  BY DEF IInv
<1>1. ASSUME NEW s \in Store, construct_store(s) PROVE TypeOK'
  <2>1. statics' \in Seq(Static)
    <3>1. statics \in Seq(Static) /\ s \in Static /\ "hub" \in Static
      BY <1>0
    <3>2. Append(statics, s) \in Seq(Static)
      BY <3>1, AppendFacts
    <3>3. <<"hub", s>> \in Seq(Static)
      BY <3>1
    <3> QED BY <1>1, <3>2, <3>3 DEF construct_store
  <2> QED BY <1>0, <1>1, <2>1 DEF construct_store, storeVars, walkVars
<1>2. ASSUME destroy_static PROVE TypeOK'
  <2>1. statics' \in Seq(Static)
    BY <1>0, <1>2, FrontFacts DEF destroy_static
  <2> DEFINE last == statics[Len(statics)]
  <2>2. CASE last \in Store
    <3>1. [r \in Resource |-> Absent] \in [Resource -> HandleMap]
      OBVIOUS
    <3>2. /\ data' = [data EXCEPT ![last] = [r \in Resource |-> Absent]]
          /\ sinks' = sinks \ {last}
          /\ late' = (late \/ ~(Reaches(last) \subseteq Constructed))
      BY <1>2, <2>2 DEF destroy_static
    <3>3. data' \in [Store -> [Resource -> HandleMap]]
      BY <1>0, <3>1, <3>2
    <3>4. late' \in BOOLEAN
      BY <3>2, Zenon
    <3> HIDE DEF last
    <3>5. phase' = "exit" /\ UNCHANGED <<generation, up, next_id, issued, walkVars>>
      BY <1>2 DEF destroy_static
    <3> QED BY <1>0, <2>1, <3>2, <3>3, <3>4, <3>5 DEF walkVars
  <2>3. CASE last \notin Store
    BY <1>0, <1>2, <2>1, <2>3 DEF destroy_static, walkVars
  <2> QED BY <2>2, <2>3
<1>3. ASSUME NEW s \in Store, NEW r \in Resource, hold(s, r) PROVE TypeOK'
  <2>1. statics' \in Seq(Static)
    BY <1>0, <1>3, WithFacts DEF hold, Callable, StaticsInv
  <2>2. for_state(s, r) \in HandleMap
    BY <1>0 DEF for_state, Empty
  <2>3. data' \in [Store -> [Resource -> HandleMap]]
    BY <1>0, <1>3, <2>2 DEF hold
  <2>4. next_id' \in 1..MaxId + 1
    BY <1>0, <1>3 DEF hold, after
  <2> QED BY <1>0, <1>3, <2>1, <2>3, <2>4 DEF hold, walkVars
<1>4. ASSUME NEW s \in Store, NEW r \in Resource, NEW id \in Id, release(s, r, id)
      PROVE  TypeOK'
  <2>1. for_state(s, r) \in HandleMap
    BY <1>0 DEF for_state, Empty
  <2> QED BY <1>0, <1>4, <2>1 DEF release, walkVars
<1>5. ASSUME NEW w \in Watcher, add(w) \/ remove(w) PROVE TypeOK'
  BY <1>0, <1>5 DEF add, remove, storeVars, walkVars
<1>6. ASSUME NEW s \in Store, notify_store(s) PROVE TypeOK'
  <2>1. Told(s) \in [Resource -> HandleMap]
    BY <1>0 DEF Told
  <2> QED BY <1>0, <1>6, <2>1 DEF notify_store
<1>7. ASSUME NEW w \in Watcher, notify_watcher(w) PROVE TypeOK'
  BY <1>0, <1>7 DEF notify_watcher, storeVars
<1>8. ASSUME initialize PROVE TypeOK'
  <2>1. statics' \in Seq(Static)
    BY <1>0, <1>8, WithFacts DEF initialize, StaticsInv
  <2> QED BY <1>0, <1>8, <2>1 DEF initialize, storeVars, walkVars
<1>9. ASSUME NEW r \in Resource, register_functions(r) PROVE TypeOK'
  BY <1>0, <1>9 DEF register_functions, storeVars, walkVars
<1>10. ASSUME NEW r \in Resource, resource_stopping(r) PROVE TypeOK'
  BY <1>0, <1>10 DEF resource_stopping, Notify, storeVars
<1>11. ASSUME NEW r \in Resource, resource_stopped(r) PROVE TypeOK'
  BY <1>0, <1>11 DEF resource_stopped, bump_generation, Notify, storeVars
<1>12. ASSUME notified PROVE TypeOK'
  <2>1. statics' \in Seq(Static)
    BY <1>0, <1>12, WithFacts DEF notified, StaticsInv, WalkInv
  <2> QED BY <1>0, <1>12, <2>1 DEF notified, storeVars
<1>13. ASSUME shutdown PROVE TypeOK'
  <2>1. statics' \in Seq(Static)
    BY <1>0, <1>13, WithFacts DEF shutdown, StaticsInv
  <2> QED BY <1>0, <1>13, <2>1 DEF shutdown, Released, Notify, storeVars
<1>14. ASSUME shutdown_end PROVE TypeOK'
  BY <1>0, <1>14 DEF shutdown_end, storeVars
<1>15. ASSUME UNCHANGED vars PROVE TypeOK'
  BY <1>0, <1>15 DEF vars, storeVars, walkVars
<1> QED BY <1>1, <1>2, <1>3, <1>4, <1>5, <1>6, <1>7, <1>8, <1>9, <1>10, <1>11, <1>12,
           <1>13, <1>14, <1>15 DEF Next, IInv

\* What a step does to the static objects and to the subscriptions of the stores.
LEMMA StaticsStep ==
  ASSUME IInv, [Next]_vars
  PROVE  StaticsInv'
<1> USE ResourcesAssumption
<1>0. TypeOK /\ StaticsInv /\ WalkInv
  BY DEF IInv
<1>1. ASSUME NEW s \in Store, construct_store(s) PROVE StaticsInv'
  <2>1. statics \in Seq(Static) /\ s \in Static /\ "hub" \in Static
    BY <1>0 DEF TypeOK, Static
  <2>2. /\ phase = "loading" /\ sinks' = sinks \cup {s}
        /\ phase' = IF Store \subseteq Constructed \cup {s} THEN "loaded" ELSE "loading"
    BY <1>1 DEF construct_store
  <2>3. Store \cap Constructed \subseteq sinks
    BY <1>0, <2>2 DEF StaticsInv
  <2>4. CASE "hub" \in Constructed
    <3>1. statics' = Append(statics, s)
      BY <1>1, <2>4 DEF construct_store
    <3>2. Len(statics) \in Nat /\ Len(statics) > 0
      BY <2>1, <2>4 DEF Constructed
    <3>3. statics' # <<>> /\ statics'[1] = "hub"
      BY <1>0, <2>1, <3>1, <3>2, AppendFacts DEF StaticsInv
    <3>4. Constructed' \subseteq Constructed \cup {s}
      BY <2>1, <3>1, <3>2, AppendFacts DEF Constructed
    <3> QED BY <2>2, <2>3, <3>3, <3>4 DEF StaticsInv
  <2>5. CASE "hub" \notin Constructed
    <3>1. statics' = <<"hub", s>>
      BY <1>1, <2>5 DEF construct_store
    <3>2. Constructed' = {"hub", s}
      BY <3>1 DEF Constructed
    <3>3. Store \cap Constructed' \subseteq sinks'
      BY <2>2, <3>2
    <3>4. Constructed = {}
      <4>1. CASE statics = <<>>
        BY <4>1 DEF Constructed
      <4>2. CASE statics # <<>>
        <5>1. Len(statics) \in Nat /\ Len(statics) > 0
          BY <2>1, <4>2
        <5> QED BY <1>0, <2>5, <5>1 DEF StaticsInv, Constructed
      <4> QED BY <4>1, <4>2
    <3> QED BY <2>2, <3>1, <3>3, <3>4 DEF StaticsInv
  <2> QED BY <2>4, <2>5
<1>2. ASSUME destroy_static PROVE StaticsInv'
  <2>1. /\ statics \in Seq(Static) /\ statics # <<>> /\ phase' = "exit"
        /\ statics' = SubSeq(statics, 1, Len(statics) - 1)
    BY <1>0, <1>2 DEF destroy_static, TypeOK
  <2>2. Len(statics') > 0 => statics'[1] = "hub"
    BY <1>0, <2>1, FrontFacts DEF StaticsInv
  <2> QED BY <2>1, <2>2 DEF StaticsInv
<1>3. ASSUME NEW x \in Static, statics' = With(x), sinks' = sinks,
             phase \notin {"loading", "exit"}, phase' \notin {"loading", "exit"}
      PROVE  StaticsInv'
  BY <1>0, <1>3, WithFacts DEF StaticsInv
<1>4. ASSUME NEW s \in Store, NEW r \in Resource, hold(s, r) PROVE StaticsInv'
  BY <1>3, <1>4 DEF hold, Callable, Static
<1>5. ASSUME initialize PROVE StaticsInv'
  BY <1>3, <1>5 DEF initialize, Static
<1>6. ASSUME shutdown PROVE StaticsInv'
  BY <1>3, <1>6 DEF shutdown, Static
<1>7. ASSUME notified PROVE StaticsInv'
  <2>1. phase = "running" /\ phase' = phase /\ sinks' = sinks
    BY <1>0, <1>7 DEF notified, WalkInv
  <2>2. CASE statics' = statics
    BY <1>0, <2>1, <2>2 DEF StaticsInv, Constructed
  <2>3. CASE statics' = With("refs")
    BY <1>3, <2>1, <2>3 DEF Static
  <2> QED BY <1>7, <2>2, <2>3 DEF notified
<1>8. ASSUME UNCHANGED <<statics, phase>>, sinks \cap Store \subseteq sinks'
      PROVE  StaticsInv'
  BY <1>0, <1>8 DEF StaticsInv, Constructed
<1>9. ASSUME NEW s \in Store, NEW r \in Resource, NEW id \in Id, release(s, r, id)
      PROVE  StaticsInv'
  BY <1>8, <1>9 DEF release
<1>10. ASSUME NEW w \in Watcher, add(w) \/ remove(w) \/ notify_watcher(w) PROVE StaticsInv'
  BY <1>8, <1>10 DEF add, remove, notify_watcher
<1>11. ASSUME NEW s \in Store, notify_store(s) PROVE StaticsInv'
  BY <1>8, <1>11 DEF notify_store
<1>12. ASSUME NEW r \in Resource,
              register_functions(r) \/ resource_stopping(r) \/ resource_stopped(r)
       PROVE  StaticsInv'
  BY <1>8, <1>12 DEF register_functions, resource_stopping, resource_stopped
<1>13. ASSUME shutdown_end PROVE StaticsInv'
  <2>1. phase = "running" /\ phase' = "unloaded" /\ UNCHANGED <<statics, sinks>>
    BY <1>0, <1>13 DEF shutdown_end, WalkInv
  <2> QED BY <1>0, <2>1 DEF StaticsInv
<1>14. ASSUME UNCHANGED vars PROVE StaticsInv'
  BY <1>8, <1>14 DEF vars
<1> QED BY <1>1, <1>2, <1>4, <1>5, <1>6, <1>7, <1>9, <1>10, <1>11, <1>12, <1>13, <1>14
        DEF Next

\* The notification in progress.
LEMMA WalkStep ==
  ASSUME IInv, [Next]_vars
  PROVE  WalkInv'
<1>0. TypeOK /\ WalkInv
  BY DEF IInv
<1>1. ASSUME NEW s \in Store,
             \/ construct_store(s) \/ notify_store(s)
             \/ \E r \in Resource : hold(s, r)
             \/ \E r \in Resource, id \in Id : release(s, r, id)
      PROVE  WalkInv'
  BY <1>0, <1>1 DEF WalkInv, construct_store, notify_store, hold, release, walkVars
<1>2. ASSUME NEW w \in Watcher, add(w) \/ remove(w) \/ notify_watcher(w) PROVE WalkInv'
  BY <1>0, <1>2 DEF WalkInv, add, remove, notify_watcher, walkVars
<1>3. ASSUME NEW r \in Resource,
             register_functions(r) \/ resource_stopping(r) \/ resource_stopped(r)
      PROVE  WalkInv'
  BY <1>0, <1>3 DEF WalkInv, register_functions, resource_stopping, resource_stopped, Callable,
    Notify, walkVars
<1>4. ASSUME initialize \/ notified \/ shutdown \/ shutdown_end \/ destroy_static PROVE WalkInv'
  BY <1>0, <1>4 DEF WalkInv, initialize, notified, shutdown, Released, Notify, shutdown_end,
    destroy_static, walkVars
<1>5. ASSUME UNCHANGED vars PROVE WalkInv'
  BY <1>0, <1>5 DEF WalkInv, vars, walkVars
<1> QED BY <1>1, <1>2, <1>3, <1>4, <1>5 DEF Next

\* The maps when store s has the handles hs for resource r.
Stored(s, r, hs) == [data EXCEPT ![s][r] = [for_state(s, r) EXCEPT !.handles = hs]]

\* A store that gains a map, or changes one, does it for the caller and in the
\* caller's generation.
LEMMA StoreFacts ==
  ASSUME IInv, NEW s \in Store, NEW r \in Resource, Callable(r), NEW hs,
         data' = Stored(s, r, hs)
  PROVE  /\ data'[s][r] = [made |-> generation[r], handles |-> hs]
         /\ \A t \in Store, q \in Resource : t # s \/ q # r => data'[t][q] = data[t][q]
         /\ for_state(s, r).made = generation[r]
         /\ for_state(s, r).handles \subseteq data[s][r].handles
<1>1. /\ data \in [Store -> [Resource -> HandleMap]] /\ generation \in [Resource -> Nat \ {0}]
      /\ FreshState /\ notice = "none"
  BY DEF IInv, TypeOK, Callable
<1>2. for_state(s, r) = IF data[s][r] = Absent THEN [made |-> generation[r], handles |-> {}]
                        ELSE data[s][r]
  BY DEF for_state, Empty
<1>3. data[s][r] # Absent => data[s][r].made = generation[r]
  BY <1>1 DEF FreshState
<1>4. data[s][r] \in HandleMap
  BY <1>1
<1>5. /\ for_state(s, r) = [made |-> for_state(s, r).made, handles |-> for_state(s, r).handles]
      /\ for_state(s, r).made = generation[r]
      /\ for_state(s, r).handles \subseteq data[s][r].handles
  BY <1>2, <1>3, <1>4 DEF HandleMap, Absent
<1>6. [for_state(s, r) EXCEPT !.handles = hs] = [made |-> generation[r], handles |-> hs]
  BY <1>5
<1>7. data' = [data EXCEPT ![s][r] = [made |-> generation[r], handles |-> hs]]
  BY <1>6 DEF Stored
<1> QED BY <1>1, <1>5, <1>7

\* What has no turn to come stays clear, and ids stay below the counter.
LEMMA DataStep ==
  ASSUME IInv, [Next]_vars
  PROVE  DataInv'
<1>0. TypeOK /\ StaticsInv /\ WalkInv /\ DataInv /\ FreshState
  BY DEF IInv
<1> USE ResourcesAssumption DEF DataInv
<1>1. ASSUME NEW s \in Store, NEW r \in Resource, hold(s, r) PROVE DataInv'
  <2> DEFINE hs == for_state(s, r).handles \cup {next_id}
  <2>1. /\ Callable(r) /\ phase' = phase /\ notice' = notice /\ phase = "running"
        /\ notice = "none" /\ next_id' = next_id + 1 /\ next_id \in Nat
        /\ data' = Stored(s, r, hs)
    BY <1>0, <1>1 DEF hold, Callable, after, walkVars, TypeOK, Stored
  <2>2. /\ data'[s][r].handles = hs
        /\ \A t \in Store, q \in Resource : t # s \/ q # r => data'[t][q] = data[t][q]
        /\ for_state(s, r).handles \subseteq data[s][r].handles
    <3> HIDE DEF hs
    <3>1. /\ data'[s][r] = [made |-> generation[r], handles |-> hs]
          /\ \A t \in Store, q \in Resource : t # s \/ q # r => data'[t][q] = data[t][q]
          /\ for_state(s, r).handles \subseteq data[s][r].handles
      BY <2>1, StoreFacts
    <3> QED BY <3>1
  <2>3. ASSUME NEW t \in Store, NEW q \in Resource, NEW id \in data'[t][q].handles
        PROVE  id < next_id'
    <3>1. CASE id = next_id
      BY <2>1, <3>1
    <3>2. CASE id # next_id
      <4>1. id \in data[t][q].handles
        BY <2>2, <2>3, <3>2
      <4>2. id < next_id /\ id \in Id
        BY <1>0, <4>1 DEF TypeOK, HandleMap
      <4> QED BY <2>1, <4>2 DEF Id
    <3> QED BY <3>1, <3>2
  <2> QED BY <2>1, <2>3
<1>2. ASSUME NEW s \in Store, NEW r \in Resource, NEW id \in Id, release(s, r, id)
      PROVE  DataInv'
  <2> DEFINE hs == for_state(s, r).handles \ {id}
  <2>1. /\ Callable(r) /\ phase' = phase /\ notice' = notice /\ phase = "running"
        /\ notice = "none" /\ next_id' = next_id
        /\ data' = Stored(s, r, hs)
    BY <1>2 DEF release, Callable, walkVars, Stored
  <2>2. /\ data'[s][r].handles = hs
        /\ \A t \in Store, q \in Resource : t # s \/ q # r => data'[t][q] = data[t][q]
        /\ for_state(s, r).handles \subseteq data[s][r].handles
    <3> HIDE DEF hs
    <3>1. /\ data'[s][r] = [made |-> generation[r], handles |-> hs]
          /\ \A t \in Store, q \in Resource : t # s \/ q # r => data'[t][q] = data[t][q]
          /\ for_state(s, r).handles \subseteq data[s][r].handles
      BY <2>1, StoreFacts
    <3> QED BY <3>1
  <2> QED BY <1>0, <2>1, <2>2
<1>3. ASSUME NEW s \in Store, notify_store(s) PROVE DataInv'
  <2>1. /\ s \in todo /\ todo' = todo \ {s} /\ UNCHANGED <<phase, notice, hooked, next_id>>
        /\ data' = [data EXCEPT ![s] = Told(s)] /\ data \in [Store -> [Resource -> HandleMap]]
    BY <1>0, <1>3 DEF notify_store, TypeOK
  <2>2. /\ \A t \in Store \ {s} : data'[t] = data[t]
        /\ \A r \in Resource : data'[s][r] = IF notice = "released" \/
             (notice = "stopped" /\ r = hooked) THEN Absent ELSE data[s][r]
    BY <2>1 DEF Told
  <2>3. \A t \in Store, r \in Resource : data'[t][r] = data[t][r] \/ data'[t][r] = Absent
    BY <2>2
  <2>4. Absent.handles = {}
    BY DEF Absent
  <2>5. phase = "running"
    BY <1>0, <2>1 DEF WalkInv
  <2>6. ASSUME notice' = "released", NEW t \in Store, NEW r \in Resource, t \notin todo'
        PROVE  data'[t][r] = Absent
    BY <1>0, <2>1, <2>2, <2>6
  <2>7. \A t \in Store, r \in Resource : \A id \in data'[t][r].handles : id < next_id'
    BY <1>0, <2>1, <2>3, <2>4
  <2> QED BY <2>1, <2>5, <2>6, <2>7
<1>4. ASSUME destroy_static PROVE DataInv'
  <2>1. /\ phase \in {"unloaded", "exit"} /\ notice' = "none" /\ next_id' = next_id
        /\ \A t \in Store, r \in Resource : data[t][r] = Absent
        /\ data \in [Store -> [Resource -> HandleMap]]
    BY <1>0, <1>4 DEF destroy_static, walkVars, TypeOK
  <2>2. \/ data' = data
        \/ \E x \in Store : data' = [data EXCEPT ![x] = [r \in Resource |-> Absent]]
    BY <1>4 DEF destroy_static
  <2>3. \A t \in Store, r \in Resource : data'[t][r] = Absent
    <3>1. CASE data' = data
      BY <2>1, <3>1
    <3>2. ASSUME NEW x \in Store, data' = [data EXCEPT ![x] = [r \in Resource |-> Absent]]
          PROVE  \A t \in Store, r \in Resource : data'[t][r] = Absent
      BY <2>1, <3>2
    <3> QED BY <2>2, <3>1, <3>2
  <2>4. Absent.handles = {}
    BY DEF Absent
  <2> QED BY <2>1, <2>3, <2>4
<1>5. ASSUME shutdown PROVE DataInv'
  <2>1. /\ UNCHANGED <<data, next_id, phase>> /\ phase = "running" /\ notice' = "released"
        /\ Store \subseteq todo'
    BY <1>0, <1>5 DEF shutdown, Released, Notify, storeVars, StaticsInv
  <2> QED BY <1>0, <2>1
<1>6. ASSUME shutdown_end PROVE DataInv'
  <2>1. /\ UNCHANGED <<data, next_id>> /\ notice = "released" /\ todo = {} /\ notice' = "none"
    BY <1>6 DEF shutdown_end, storeVars
  <2> QED BY <1>0, <2>1
<1>7. ASSUME UNCHANGED <<data, next_id>>, phase' \notin {"unloaded", "exit"},
             notice' # "released" \/ (notice' = notice /\ todo \cap Store \subseteq todo')
      PROVE  DataInv'
  BY <1>0, <1>7
<1>8. ASSUME NEW s \in Store, construct_store(s) PROVE DataInv'
  BY <1>7, <1>8 DEF construct_store, storeVars, walkVars
<1>9. ASSUME NEW w \in Watcher, add(w) \/ remove(w) \/ notify_watcher(w) PROVE DataInv'
  BY <1>0, <1>7, <1>9 DEF add, remove, notify_watcher, storeVars, walkVars, WalkInv
<1>10. ASSUME NEW r \in Resource,
              register_functions(r) \/ resource_stopping(r) \/ resource_stopped(r)
       PROVE  DataInv'
  BY <1>7, <1>10 DEF register_functions, resource_stopping, resource_stopped, Callable, Notify,
    storeVars, walkVars
<1>11. ASSUME initialize \/ notified PROVE DataInv'
  BY <1>0, <1>7, <1>11 DEF initialize, notified, storeVars, walkVars, WalkInv
<1>12. ASSUME UNCHANGED vars PROVE DataInv'
  BY <1>0, <1>12 DEF vars, storeVars, walkVars
<1> QED BY <1>1, <1>2, <1>3, <1>4, <1>5, <1>6, <1>8, <1>9, <1>10, <1>11, <1>12 DEF Next

\* Maps belong to the running generation, but for the turns to come.
LEMMA FreshStep ==
  ASSUME IInv, [Next]_vars
  PROVE  FreshState'
<1>0. TypeOK /\ StaticsInv /\ WalkInv /\ DataInv /\ FreshState
  BY DEF IInv
<1> USE DEF FreshState
<1>1. ASSUME NEW s \in Store, NEW r \in Resource, NEW hs, Callable(r),
             UNCHANGED <<generation, up, notice, hooked, todo>>,
             data' = Stored(s, r, hs)
      PROVE  FreshState'
  <2>1. /\ data'[s][r] = [made |-> generation[r], handles |-> hs]
        /\ \A t \in Store, q \in Resource : t # s \/ q # r => data'[t][q] = data[t][q]
    BY <1>1, StoreFacts
  <2> QED BY <1>0, <1>1, <2>1 DEF Callable
<1>2. ASSUME NEW s \in Store, NEW r \in Resource, hold(s, r) PROVE FreshState'
  BY <1>1, <1>2 DEF hold, walkVars, Stored
<1>3. ASSUME NEW s \in Store, NEW r \in Resource, NEW id \in Id, release(s, r, id)
      PROVE  FreshState'
  BY <1>1, <1>3 DEF release, walkVars, Stored
<1>4. ASSUME NEW s \in Store, notify_store(s) PROVE FreshState'
  <2>1. /\ s \in todo /\ todo' = todo \ {s} /\ UNCHANGED <<generation, up, notice, hooked>>
        /\ data' = [data EXCEPT ![s] = Told(s)] /\ data \in [Store -> [Resource -> HandleMap]]
    BY <1>0, <1>4 DEF notify_store, TypeOK
  <2>2. /\ \A t \in Store \ {s} : data'[t] = data[t]
        /\ \A r \in Resource : data'[s][r] = IF notice = "released" \/
             (notice = "stopped" /\ r = hooked) THEN Absent ELSE data[s][r]
    BY <2>1 DEF Told
  <2> QED BY <1>0, <2>1, <2>2
<1>5. ASSUME destroy_static PROVE FreshState'
  <2>1. /\ \A t \in Store, r \in Resource : data[t][r] = Absent
        /\ data \in [Store -> [Resource -> HandleMap]]
    BY <1>0, <1>5 DEF destroy_static, DataInv, TypeOK
  <2>2. \/ data' = data
        \/ \E x \in Store : data' = [data EXCEPT ![x] = [r \in Resource |-> Absent]]
    BY <1>5 DEF destroy_static
  <2> QED BY <2>1, <2>2
<1>6. ASSUME NEW r \in Resource, resource_stopped(r) PROVE FreshState'
  <2>1. /\ notice = "none" /\ notice' = "stopped" /\ hooked' = r /\ UNCHANGED <<data, up>>
        /\ Store \subseteq todo' /\ generation' = [generation EXCEPT ![r] = generation[r] + 1]
        /\ generation \in [Resource -> Nat \ {0}]
    BY <1>0, <1>6 DEF resource_stopped, Callable, bump_generation, Notify, storeVars,
      StaticsInv, TypeOK
  <2>2. \A t \in Store, q \in Resource : data[t][q] # Absent =>
          q \in up /\ data[t][q].made = generation[q]
    BY <1>0, <2>1
  <2> QED BY <2>1, <2>2
<1>7. ASSUME notified PROVE FreshState'
  <2>1. /\ notice \in {"stopping", "stopped"} /\ todo = {} /\ notice' = "none"
        /\ UNCHANGED <<data, generation>>
        /\ \/ notice = "stopping" /\ up' = up
           \/ notice = "stopped" /\ up' = up \ {hooked}
    BY <1>7 DEF notified, storeVars
  <2>2. \A t \in Store, q \in Resource : data[t][q] # Absent =>
          /\ ~(notice = "stopped" /\ q = hooked)
          /\ q \in up /\ data[t][q].made = generation[q]
    BY <1>0, <2>1
  <2> QED BY <2>1, <2>2
<1>8. ASSUME UNCHANGED <<data, generation>>, up \subseteq up',
             \/ UNCHANGED <<notice, hooked>> /\ todo \cap Store \subseteq todo'
             \/ notice # "stopped" /\ notice' # "stopped"
      PROVE  FreshState'
  BY <1>0, <1>8
<1>9. ASSUME NEW s \in Store, construct_store(s) PROVE FreshState'
  BY <1>8, <1>9 DEF construct_store, storeVars, walkVars
<1>10. ASSUME NEW w \in Watcher, add(w) \/ remove(w) \/ notify_watcher(w) PROVE FreshState'
  BY <1>8, <1>10, ResourcesAssumption DEF add, remove, notify_watcher, storeVars, walkVars
<1>11. ASSUME NEW r \in Resource, register_functions(r) \/ resource_stopping(r)
       PROVE  FreshState'
  BY <1>8, <1>11 DEF register_functions, resource_stopping, Callable, Notify, storeVars, walkVars
<1>12. ASSUME initialize \/ shutdown \/ shutdown_end PROVE FreshState'
  BY <1>8, <1>12 DEF initialize, shutdown, Released, Notify, shutdown_end, storeVars, walkVars
<1>13. ASSUME UNCHANGED vars PROVE FreshState'
  BY <1>8, <1>13 DEF vars, storeVars, walkVars
<1> QED BY <1>2, <1>3, <1>4, <1>5, <1>6, <1>7, <1>9, <1>10, <1>11, <1>12, <1>13 DEF Next

\* Ids stay with the VM and the generation they were handed to.
LEMMA OwnStep ==
  ASSUME IInv, [Next]_vars
  PROVE  HandlesAreOwn'
<1>0. TypeOK /\ DataInv /\ FreshState /\ HandlesAreOwn
  BY DEF IInv
<1> USE DEF HandlesAreOwn
<1>1. ASSUME NEW s \in Store, NEW r \in Resource, hold(s, r) PROVE HandlesAreOwn'
  <2> DEFINE hs == for_state(s, r).handles \cup {next_id}
  <2>1. /\ Callable(r) /\ next_id \in Id /\ issued \in [Id -> [resource : Resource \cup {NoResource},
                                                             generation : Nat]]
        /\ issued' = [issued EXCEPT ![next_id] =
                        [resource |-> r, generation |-> generation[r]]]
        /\ data' = Stored(s, r, hs)
    BY <1>0, <1>1 DEF hold, TypeOK, Stored
  <2>2. /\ data'[s][r] = [made |-> generation[r], handles |-> hs]
        /\ \A t \in Store, q \in Resource : t # s \/ q # r => data'[t][q] = data[t][q]
        /\ for_state(s, r).handles \subseteq data[s][r].handles
    <3> HIDE DEF hs
    <3> QED BY <2>1, StoreFacts
  <2>3. \A t \in Store, q \in Resource : \A id \in data[t][q].handles :
          id \in Id /\ id # next_id /\ issued'[id] = issued[id]
    <3>1. \A t \in Store, q \in Resource : \A id \in data[t][q].handles : id \in Id /\ id < next_id
      BY <1>0 DEF TypeOK, HandleMap, DataInv
    <3>2. \A id \in Id : id < next_id => id # next_id
      BY <2>1, ResourcesAssumption DEF Id
    <3> QED BY <2>1, <3>1, <3>2
  <2>4. \A id \in data[s][r].handles : data[s][r].made = generation[r]
    <3>1. data[s][r].handles # {} => data[s][r] # Absent
      BY DEF Absent
    <3> QED BY <1>0, <2>1, <3>1 DEF FreshState, Callable
  <2>5. issued'[next_id] = [resource |-> r, generation |-> generation[r]]
    BY <2>1
  <2> QED BY <1>0, <2>2, <2>3, <2>4, <2>5
<1>2. ASSUME NEW s \in Store, NEW r \in Resource, NEW id \in Id, release(s, r, id)
      PROVE  HandlesAreOwn'
  <2> DEFINE hs == for_state(s, r).handles \ {id}
  <2>1. /\ Callable(r) /\ issued' = issued
        /\ data' = Stored(s, r, hs)
    BY <1>2 DEF release, Stored
  <2>2. /\ data'[s][r] = [made |-> generation[r], handles |-> hs]
        /\ \A t \in Store, q \in Resource : t # s \/ q # r => data'[t][q] = data[t][q]
        /\ for_state(s, r).handles \subseteq data[s][r].handles
    <3> HIDE DEF hs
    <3> QED BY <2>1, StoreFacts
  <2>3. data[s][r].handles # {} => data[s][r].made = generation[r]
    BY <1>0, <2>1 DEF FreshState, Callable, Absent
  <2>4. \A i \in hs : issued'[i] = [resource |-> r, generation |-> generation[r]]
    BY <1>0, <2>1, <2>2, <2>3
  <2> HIDE DEF hs
  <2>5. ASSUME NEW t \in Store, NEW q \in Resource, NEW i \in data'[t][q].handles
        PROVE  issued'[i] = [resource |-> q, generation |-> data'[t][q].made]
    <3>1. CASE t = s /\ q = r
      BY <2>2, <2>4, <2>5, <3>1
    <3>2. CASE t # s \/ q # r
      BY <1>0, <2>1, <2>2, <2>5, <3>2
    <3> QED BY <3>1, <3>2
  <2> QED BY <2>5
<1>3. ASSUME issued' = issued,
             \A t \in Store, q \in Resource : data'[t][q] = data[t][q] \/ data'[t][q] = Absent
      PROVE  HandlesAreOwn'
  BY <1>0, <1>3 DEF Absent
<1>4. ASSUME NEW s \in Store, notify_store(s) PROVE HandlesAreOwn'
  <2>1. /\ issued' = issued /\ data' = [data EXCEPT ![s] = Told(s)]
        /\ data \in [Store -> [Resource -> HandleMap]]
    BY <1>0, <1>4 DEF notify_store, TypeOK
  <2> QED BY <1>3, <2>1 DEF Told
<1>5. ASSUME destroy_static PROVE HandlesAreOwn'
  <2>1. issued' = issued /\ data \in [Store -> [Resource -> HandleMap]]
    BY <1>0, <1>5 DEF destroy_static, TypeOK
  <2>2. \/ data' = data
        \/ \E x \in Store : data' = [data EXCEPT ![x] = [r \in Resource |-> Absent]]
    BY <1>5 DEF destroy_static
  <2> QED BY <1>3, <2>1, <2>2
<1>6. ASSUME UNCHANGED <<data, issued>> PROVE HandlesAreOwn'
  BY <1>3, <1>6
<1>7. ASSUME NEW s \in Store, construct_store(s) PROVE HandlesAreOwn'
  BY <1>6, <1>7 DEF construct_store, storeVars
<1>8. ASSUME NEW w \in Watcher, add(w) \/ remove(w) \/ notify_watcher(w) PROVE HandlesAreOwn'
  BY <1>6, <1>8 DEF add, remove, notify_watcher, storeVars
<1>9. ASSUME NEW r \in Resource,
             register_functions(r) \/ resource_stopping(r) \/ resource_stopped(r)
      PROVE  HandlesAreOwn'
  BY <1>6, <1>9 DEF register_functions, resource_stopping, resource_stopped, storeVars
<1>10. ASSUME initialize \/ notified \/ shutdown \/ shutdown_end PROVE HandlesAreOwn'
  BY <1>6, <1>10 DEF initialize, notified, shutdown, shutdown_end, storeVars
<1>11. ASSUME UNCHANGED vars PROVE HandlesAreOwn'
  BY <1>6, <1>11 DEF vars, storeVars
<1> QED BY <1>1, <1>2, <1>4, <1>5, <1>7, <1>8, <1>9, <1>10, <1>11 DEF Next

\* No destructor comes too late: the stores are empty, and the Hub goes last.
LEMMA ExitStep ==
  ASSUME IInv, [Next]_vars
  PROVE  ExitInReach'
<1>0. TypeOK /\ StaticsInv /\ DataInv /\ ExitInReach
  BY DEF IInv
<1>1. ASSUME destroy_static PROVE ExitInReach'
  <2> DEFINE last == statics[Len(statics)]
  <2>1. /\ statics \in Seq(Static) /\ statics # <<>> /\ phase \in {"unloaded", "exit"}
    BY <1>0, <1>1 DEF destroy_static, TypeOK
  <2>2. "hub" \in Constructed
    <3>1. Len(statics) \in Nat \ {0}
      BY <2>1, FrontFacts
    <3> QED BY <1>0, <3>1 DEF StaticsInv, Constructed
  <2>3. ASSUME last \in Store PROVE Reaches(last) = {"hub"}
    BY <1>0, <2>1, <2>3 DEF Reaches, DataInv, Absent
  <2>4. CASE last \in Store
    <3>1. late' = (late \/ ~(Reaches(last) \subseteq Constructed))
      BY <1>1, <2>4 DEF destroy_static
    <3>2. Reaches(last) \subseteq Constructed
      BY <2>2, <2>3, <2>4
    <3> HIDE DEF last
    <3> QED BY <1>0, <3>1, <3>2 DEF ExitInReach
  <2>5. CASE last \notin Store
    BY <1>0, <1>1, <2>5 DEF destroy_static, ExitInReach
  <2> QED BY <2>4, <2>5
<1>2. ASSUME late' = late PROVE ExitInReach'
  BY <1>0, <1>2 DEF ExitInReach
<1>3. ASSUME NEW s \in Store,
             \/ construct_store(s) \/ notify_store(s)
             \/ \E r \in Resource : hold(s, r)
             \/ \E r \in Resource, id \in Id : release(s, r, id)
      PROVE  ExitInReach'
  BY <1>2, <1>3 DEF construct_store, notify_store, hold, release
<1>4. ASSUME NEW w \in Watcher, add(w) \/ remove(w) \/ notify_watcher(w) PROVE ExitInReach'
  BY <1>2, <1>4 DEF add, remove, notify_watcher
<1>5. ASSUME NEW r \in Resource,
             register_functions(r) \/ resource_stopping(r) \/ resource_stopped(r)
      PROVE  ExitInReach'
  BY <1>2, <1>5 DEF register_functions, resource_stopping, resource_stopped
<1>6. ASSUME initialize \/ notified \/ shutdown \/ shutdown_end PROVE ExitInReach'
  BY <1>2, <1>6 DEF initialize, notified, shutdown, shutdown_end
<1>7. ASSUME UNCHANGED vars PROVE ExitInReach'
  BY <1>2, <1>7 DEF vars
<1> QED BY <1>1, <1>3, <1>4, <1>5, <1>6, <1>7 DEF Next

-----------------------------------------------------------------------------
(* The theorems.                                                            *)

\* The inductive invariant of the Hub, the stores and the static objects.
THEOREM Invariant == Spec => []IInv
<1>1. ASSUME Init PROVE IInv
  <2> USE <1>1 DEF Init
  <2>1. TypeOK
    <3>1. next_id \in 1..MaxId + 1 /\ statics \in Seq(Static)
      BY ResourcesAssumption
    <3>2. data \in [Store -> [Resource -> HandleMap]]
      BY DEF HandleMap, Absent
    <3>3. issued \in [Id -> [resource : Resource \cup {NoResource}, generation : Nat]]
      BY DEF Nobody
    <3>4. /\ generation \in [Resource -> Nat \ {0}] /\ sinks \subseteq Sink /\ up \subseteq Resource
          /\ todo \subseteq Sink /\ hooked \in Resource \cup {NoResource}
      OBVIOUS
    <3> QED BY <3>1, <3>2, <3>3, <3>4 DEF TypeOK
  <2>2. StaticsInv
    BY DEF StaticsInv, Constructed
  <2>3. WalkInv
    BY DEF WalkInv
  <2>4. \A s \in Store, r \in Resource : data[s][r] = Absent /\ data[s][r].handles = {}
    BY DEF Absent
  <2>5. DataInv /\ FreshState /\ HandlesAreOwn
    BY <2>4 DEF DataInv, FreshState, HandlesAreOwn
  <2>6. ExitInReach
    BY DEF ExitInReach
  <2> QED BY <2>1, <2>2, <2>3, <2>5, <2>6 DEF IInv
<1>2. IInv /\ [Next]_vars => IInv'
  BY TypeStep, StaticsStep, WalkStep, DataStep, FreshStep, OwnStep, ExitStep DEF IInv
<1> QED BY <1>1, <1>2, PTL DEF Spec

\* Stores hold data only for running VMs, in the generation that made it, up to
\* their turn in the notification: "the store clears itself when the resource stops".
THEOREM StoresAreFresh == Spec => []FreshState
BY Invariant, PTL DEF IInv

\* An id is found only by the VM and the generation that it was handed to.
THEOREM HandlesStayOwn == Spec => []HandlesAreOwn
BY Invariant, PTL DEF IInv

\* The destruction of the static objects reaches none that is gone.
THEOREM ExitIsSafe == Spec => []ExitInReach
BY Invariant, PTL DEF IInv

=============================================================================
