---------------------------- MODULE CallbacksProofs ----------------------------
(***************************************************************************)
(* Proofs about Callbacks, for every set of resources, indices and objects *)
(* and every bound: IInv is inductive, and the safety properties follow.   *)
(***************************************************************************)
EXTENDS Callbacks, TLAPS

LEMMA HeldAreHandles == TypeOK => Held \subseteq Handle
BY DEF TypeOK, Held, Empty

LEMMA HandleFields ==
  ASSUME NEW h \in Handle
  PROVE  /\ h.resource \in Resource /\ h.ref \in Ref /\ h.generation \in Nat \ {0}
         /\ h.function \in Function /\ h.function # NoFunction
         /\ h # EmptyHandle
BY CallbackAssumption DEF Handle, EmptyHandle, Function, NoFunction

LEMMA InitInvariant == Init => IInv
<1> SUFFICES ASSUME Init PROVE IInv
  OBVIOUS
<1>1. TypeOK
  BY CallbackAssumption DEF Init, TypeOK, NoSlots, TrackedRef, NoEntry, Phase
<1>2. Held = {}
  BY DEF Init, Held, Empty
<1>3. HeldInv
  BY <1>2 DEF Init, HeldInv, Empty
<1>4. EntryInv
  BY <1>2 DEF Init, EntryInv, NoEntry
<1>5. SlotInv
  BY <1>2 DEF Init, SlotInv, NoSlots
<1> QED BY <1>1, <1>3, <1>4, <1>5 DEF Init, IInv, HookInv, CallRunsOwnFunction, UnrefOnce

\* Taking a handle out of its object through untrack_ref() keeps the invariant:
\* the entry and the slot it touches are nobody else's.
LEMMA UntrackStep ==
  ASSUME IInv, NEW h \in Held, untrack_ref(h),
         callback' \in [Callback -> Handle \cup {EmptyHandle}],
         Held' = Held \ {h},
         \A c, d \in Callback : callback'[c] = callback'[d] /\ callback'[c] # EmptyHandle => c = d,
         UNCHANGED <<generation, up, phase, hooked, next_function, last_call>>
  PROVE  IInv'
<1> PICK r \in Resource, ref \in Ref : r = h.resource /\ ref = h.ref
  BY HeldAreHandles, HandleFields DEF IInv
<1> DEFINE entry == tracked[r][ref]
           touches == entry.generation = h.generation
           frees == touches /\ ~entry.dead /\ phase # "unloaded" /\ r \in up
<1>1. /\ h \in Handle /\ h.generation \in Nat \ {0} /\ Held \subseteq Handle
      /\ tracked \in [Resource -> [Ref -> TrackedRef]]
      /\ registry \in [Resource -> [Ref -> Function \cup {NoFunction}]]
      /\ NoEntry \in TrackedRef /\ NoEntry.dead /\ NoEntry.generation = 0
  BY HeldAreHandles, HandleFields DEF IInv, TypeOK, TrackedRef, NoEntry
<1>2. /\ tracked' = IF touches THEN [tracked EXCEPT ![r][ref] = NoEntry] ELSE tracked
      /\ frees => /\ registry' = [registry EXCEPT ![r][ref] = NoFunction]
                  /\ registry[r][ref] = h.function => misfreed' = misfreed
      /\ ~frees => UNCHANGED <<registry, misfreed>>
  BY DEF untrack_ref, OwnsEntry, Unrefs, Entry, Slot, Manager
<1>3. frees => registry[r][ref] = h.function
  BY DEF IInv, SlotInv, OwnsEntry, Entry, Slot
<1>4. \A s \in Resource, i \in Ref :
        /\ tracked'[s][i] = IF touches /\ s = r /\ i = ref THEN NoEntry ELSE tracked[s][i]
        /\ registry'[s][i] = IF frees /\ s = r /\ i = ref THEN NoFunction ELSE registry[s][i]
  BY <1>1, <1>2
<1>5. TypeOK'
  <2>1. tracked' \in [Resource -> [Ref -> TrackedRef]]
    BY <1>1, <1>2
  <2>2. registry' \in [Resource -> [Ref -> Function \cup {NoFunction}]]
    <3> DEFINE emptied == [registry EXCEPT ![r][ref] = NoFunction]
    <3>1. emptied \in [Resource -> [Ref -> Function \cup {NoFunction}]]
      BY <1>1
    <3>2. registry' = emptied \/ registry' = registry
      BY <1>2
    <3> QED BY <1>1, <3>1, <3>2
  <2>3. misfreed' = misfreed
    BY <1>2, <1>3
  <2> QED BY <2>1, <2>2, <2>3 DEF IInv, TypeOK
<1>6. HeldInv'
  BY DEF IInv, HeldInv, Empty
<1>7. \A g \in Held' : /\ g.resource \in Resource /\ g.ref \in Ref /\ g.function \in Function
                       /\ g \in Held /\ g # h /\ g.generation # 0
                       /\ ~(g.resource = r /\ g.ref = ref /\ g.generation = h.generation)
                       /\ g.function # h.function
  BY <1>1, HandleFields DEF IInv, HeldInv
<1>8. EntryInv'
  <2> SUFFICES ASSUME NEW s \in Resource, NEW i \in Ref
               PROVE  LET e == tracked'[s][i] IN
                        /\ e.generation = 0 => e.dead
                        /\ e # NoEntry => \E g \in Held' :
                             g.resource = s /\ g.ref = i /\ g.generation = e.generation
                        /\ ~e.dead =>
                             /\ s \in up /\ phase \notin {"released", "unloaded"}
                             /\ IF s = hooked
                                THEN phase = "stopping" /\ e.generation + 1 = generation[s]
                                ELSE e.generation = generation[s]
    BY DEF EntryInv
  <2>1. CASE touches /\ s = r /\ i = ref
    BY <2>1, <1>1, <1>4
  <2>2. CASE ~(touches /\ s = r /\ i = ref)
    <3>1. tracked'[s][i] = tracked[s][i]
      BY <2>2, <1>4
    <3>2. tracked[s][i] # NoEntry => \E g \in Held \ {h} :
            g.resource = s /\ g.ref = i /\ g.generation = tracked[s][i].generation
      BY <2>2 DEF IInv, EntryInv
    <3> QED BY <3>1, <3>2 DEF IInv, EntryInv
  <2> QED BY <2>1, <2>2
<1>9. SlotInv'
  <2>1. ASSUME NEW g \in Held'
        PROVE  /\ tracked'[g.resource][g.ref].generation = g.generation =>
                    /\ tracked'[g.resource][g.ref] = tracked[g.resource][g.ref]
                    /\ registry'[g.resource][g.ref] = registry[g.resource][g.ref]
               /\ tracked[g.resource][g.ref].generation = g.generation =>
                    tracked'[g.resource][g.ref] = tracked[g.resource][g.ref]
    BY <1>1, <1>4, <1>7
  <2>2. ASSUME NEW g \in Held', OwnsEntry(g)', ~Entry(g).dead'
        PROVE  (Slot(g) = g.function)'
    BY <1>7, <2>1, <2>2 DEF IInv, SlotInv, OwnsEntry, Entry, Slot
  <2>3. ASSUME NEW g \in Held', phase \notin {"released", "unloaded"}, g.resource \in up,
               g.generation = generation[g.resource]
        PROVE  OwnsEntry(g)' /\ ~Entry(g).dead'
    BY <1>7, <2>1, <2>3 DEF IInv, SlotInv, OwnsEntry, Entry
  <2>4. ASSUME NEW s \in Resource, NEW i \in Ref, registry'[s][i] # NoFunction
        PROVE  /\ s \in up
               /\ ~(phase = "closing" /\ s = hooked) => \E g \in Held' :
                    /\ g.resource = s /\ g.ref = i /\ g.function = registry'[s][i]
                    /\ OwnsEntry(g)' /\ ~Entry(g).dead'
    <3>1. registry[s][i] # NoFunction /\ registry'[s][i] = registry[s][i]
      BY <1>4, <2>4
    <3>2. CASE phase = "closing" /\ s = hooked
      BY <3>1, <3>2 DEF IInv, SlotInv
    <3>3. CASE ~(phase = "closing" /\ s = hooked)
      <4>1. PICK g \in Held : /\ g.resource = s /\ g.ref = i /\ g.function = registry[s][i]
                              /\ OwnsEntry(g) /\ ~Entry(g).dead
        BY <3>1, <3>3 DEF IInv, SlotInv
      <4>2. s \in up /\ phase # "unloaded"
        BY <4>1 DEF IInv, EntryInv, Entry
      <4>3. g # h
        BY <1>4, <2>4, <4>1, <4>2 DEF OwnsEntry, Entry
      <4>4. g \in Held' /\ tracked'[s][i] = tracked[s][i]
        BY <4>1, <4>3, <2>1 DEF OwnsEntry, Entry
      <4> QED BY <3>1, <4>1, <4>2, <4>4 DEF OwnsEntry, Entry
    <3> QED BY <3>2, <3>3
  <2> QED BY <2>2, <2>3, <2>4 DEF SlotInv
<1> QED BY <1>2, <1>3, <1>5, <1>6, <1>8, <1>9
        DEF IInv, HookInv, CallRunsOwnFunction, UnrefOnce

\* Handing a handle on to an empty object changes nothing else.
LEMMA HandOverStep ==
  ASSUME IInv,
         callback' \in [Callback -> Handle \cup {EmptyHandle}],
         Held' = Held,
         \A c, d \in Callback : callback'[c] = callback'[d] /\ callback'[c] # EmptyHandle => c = d,
         UNCHANGED <<tracked, registry, misfreed, generation, up, phase, hooked, next_function,
                     last_call>>
  PROVE  IInv'
<1>1. TypeOK' /\ HeldInv'
  BY DEF IInv, TypeOK, HeldInv, Empty
<1>2. EntryInv'
  BY DEF IInv, EntryInv
<1>3. SlotInv'
  BY DEF IInv, SlotInv, OwnsEntry, Entry, Slot
<1> QED BY <1>1, <1>2, <1>3 DEF IInv, HookInv, CallRunsOwnFunction, UnrefOnce

LEMMA DestroyStep == ASSUME IInv, NEW c \in Callback, destroy(c) PROVE IInv'
<1>1. callback' = [callback EXCEPT ![c] = EmptyHandle] /\ callback[c] \in Held
  BY DEF destroy, Held, Empty
<1>2. /\ callback \in [Callback -> Handle \cup {EmptyHandle}]
      /\ \A b, d \in Callback : callback[b] = callback[d] /\ ~Empty(b) => b = d
  BY DEF IInv, TypeOK, HeldInv
<1>3. Held' = Held \ {callback[c]}
  BY <1>1, <1>2 DEF Held, Empty
<1>4. callback' \in [Callback -> Handle \cup {EmptyHandle}]
  BY <1>1, <1>2
<1>5. \A b, d \in Callback : callback'[b] = callback'[d] /\ callback'[b] # EmptyHandle => b = d
  BY <1>1, <1>2 DEF Empty
<1> QED BY <1>1, <1>3, <1>4, <1>5, UntrackStep DEF destroy, release

LEMMA MoveStep == ASSUME IInv, NEW c \in Callback, NEW d \in Callback, move(c, d) PROVE IInv'
<1>1. /\ callback' = [callback EXCEPT ![d] = callback[c], ![c] = EmptyHandle]
      /\ c # d /\ ~Empty(c)
  BY DEF move, MovedFrom
<1>2. /\ callback \in [Callback -> Handle \cup {EmptyHandle}]
      /\ \A a, b \in Callback : callback[a] = callback[b] /\ ~Empty(a) => a = b
  BY DEF IInv, TypeOK, HeldInv
<1>3. /\ callback'[c] = EmptyHandle /\ callback'[d] = callback[c]
      /\ \A b \in Callback \ {c, d} : callback'[b] = callback[b]
  BY <1>1, <1>2
<1>4. callback' \in [Callback -> Handle \cup {EmptyHandle}]
  BY <1>1, <1>2
<1>5. \A a, b \in Callback : callback'[a] = callback'[b] /\ callback'[a] # EmptyHandle => a = b
  BY <1>1, <1>2, <1>3 DEF Empty
<1>6. CASE Empty(d)
  <2>1. Held' = Held
    BY <1>1, <1>2, <1>3, <1>6 DEF Held, Empty
  <2> QED BY <1>4, <1>5, <1>6, <2>1, HandOverStep DEF move, release
<1>7. CASE ~Empty(d)
  <2>1. Held' = Held \ {callback[d]} /\ callback[d] \in Held
    BY <1>1, <1>2, <1>3, <1>7 DEF Held, Empty
  <2> QED BY <1>4, <1>5, <1>7, <2>1, UntrackStep DEF move, release
<1> QED BY <1>6, <1>7

LEMMA CallStep == ASSUME IInv, NEW c \in Callback, call(c) PROVE IInv'
<1>1. callback[c] \in Held /\ callback[c] \in Handle
  BY HeldAreHandles DEF IInv, call, Held
<1>2. Slot(callback[c]) = callback[c].function
  BY <1>1 DEF IInv, SlotInv, call, MayCall, RefIsDead, OwnsEntry
<1>3. last_call' \in (Function \cup {NoFunction}) \X (Function \cup {NoFunction})
  BY <1>1, <1>2, HandleFields DEF call
<1>4. last_call'[1] = last_call'[2]
  BY <1>2 DEF call
<1>5. UNCHANGED <<callback, tracked, registry, generation, up, phase, hooked, next_function,
                  misfreed>>
  BY DEF call
<1>6. Held' = Held
  BY <1>5 DEF Held, Empty
<1>7. TypeOK' /\ HeldInv'
  BY <1>3, <1>5, <1>6 DEF IInv, TypeOK, HeldInv, Empty
<1>8. EntryInv' /\ SlotInv'
  BY <1>5, <1>6 DEF IInv, EntryInv, SlotInv, OwnsEntry, Entry, Slot
<1> QED BY <1>4, <1>5, <1>7, <1>8 DEF IInv, HookInv, CallRunsOwnFunction, UnrefOnce

\* The function bound now is new, and so is the index in this generation: a
\* holder of the same index and generation would have something in the slot.
LEMMA FromStackStep ==
  ASSUME IInv, NEW c \in Callback, NEW r \in Resource, from_stack(c, r)
  PROVE  IInv'
<1> PICK ref \in Ref :
      /\ registry[r][ref] = NoFunction
      /\ registry' = [registry EXCEPT ![r][ref] = next_function]
      /\ tracked' = [tracked EXCEPT ![r][ref] =
                        [dead |-> FALSE, generation |-> generation[r]]]
      /\ callback' = [callback EXCEPT ![c] =
                         [resource |-> r, ref |-> ref, generation |-> generation[r],
                          function |-> next_function]]
  BY DEF from_stack
<1> DEFINE bound == [resource |-> r, ref |-> ref, generation |-> generation[r],
                     function |-> next_function]
           made == [dead |-> FALSE, generation |-> generation[r]]
<1>1. /\ phase = "running" /\ callback[c] = EmptyHandle /\ r \in up
      /\ next_function \in Function /\ next_function' = next_function + 1
      /\ UNCHANGED <<generation, up, phase, hooked, last_call, misfreed>>
  BY DEF from_stack, Empty
<1>2. /\ callback \in [Callback -> Handle \cup {EmptyHandle}]
      /\ tracked \in [Resource -> [Ref -> TrackedRef]]
      /\ registry \in [Resource -> [Ref -> Function \cup {NoFunction}]]
      /\ generation[r] \in Nat \ {0} /\ generation \in [Resource -> Nat \ {0}]
      /\ hooked = NoResource /\ next_function \in Nat /\ Held \subseteq Handle
  BY <1>1, HeldAreHandles DEF IInv, TypeOK, HookInv, Function
<1>3. bound \in Handle /\ bound # EmptyHandle /\ made \in TrackedRef
  BY <1>1, <1>2, HandleFields DEF Handle, TrackedRef
<1>4. /\ \A s \in Resource, i \in Ref :
           /\ tracked'[s][i] = IF s = r /\ i = ref THEN made ELSE tracked[s][i]
           /\ registry'[s][i] = IF s = r /\ i = ref THEN next_function ELSE registry[s][i]
      /\ \A d \in Callback : callback'[d] = IF d = c THEN bound ELSE callback[d]
  BY <1>2
<1>5. Held' = Held \cup {bound}
  BY <1>1, <1>3, <1>4 DEF Held, Empty
<1>6. \A g \in Held : /\ g \in Handle /\ g.resource \in Resource /\ g.ref \in Ref
                      /\ g.generation \in Nat \ {0} /\ g.function \in Nat /\ g.function # NoFunction
                      /\ g.function < next_function
                      /\ ~(g.resource = r /\ g.ref = ref /\ g.generation = generation[r])
  <2> TAKE g \in Held
  <2>1. g \in Handle /\ g.function # NoFunction
    BY <1>2, HandleFields
  <2>2. g.resource = r /\ g.generation = generation[r] => Slot(g) = g.function
    BY <1>1 DEF IInv, SlotInv
  <2> QED BY <2>1, <2>2, HandleFields DEF IInv, HeldInv, Slot, Function
<1>7. TypeOK'
  <2>1. callback' \in [Callback -> Handle \cup {EmptyHandle}]
    BY <1>2, <1>3
  <2>2. tracked' \in [Resource -> [Ref -> TrackedRef]]
    BY <1>2, <1>3
  <2>3. registry' \in [Resource -> [Ref -> Function \cup {NoFunction}]]
    BY <1>1, <1>2
  <2>4. next_function' \in 1..MaxBind + 1
    BY <1>1, CallbackAssumption DEF Function
  <2> QED BY <1>1, <2>1, <2>2, <2>3, <2>4 DEF IInv, TypeOK
<1>8. HeldInv'
  <2>1. \A a, b \in Callback : callback'[a] = callback'[b] /\ callback'[a] # EmptyHandle => a = b
    <3>1. \A a \in Callback : callback[a] # bound
      BY <1>3, <1>6 DEF Held, Empty
    <3> QED BY <1>4, <3>1 DEF IInv, HeldInv, Empty
  <2>2. \A h \in Held' : h.function < next_function' /\ h.generation <= generation[h.resource]
    BY <1>1, <1>2, <1>5, <1>6 DEF IInv, HeldInv
  <2>3. \A h \in Held' : h.resource \notin up \/ h.resource = hooked =>
          h.generation < generation[h.resource]
    BY <1>1, <1>2, <1>5, CallbackAssumption DEF IInv, HeldInv
  <2>4. \A g, h \in Held' :
          g.function = h.function
            \/ (g.resource = h.resource /\ g.ref = h.ref /\ g.generation = h.generation)
          => g = h
    BY <1>2, <1>5, <1>6 DEF IInv, HeldInv
  <2> QED BY <1>1, <2>1, <2>2, <2>3, <2>4 DEF HeldInv, Empty
<1>9. EntryInv'
  <2> SUFFICES ASSUME NEW s \in Resource, NEW i \in Ref
               PROVE  LET e == tracked'[s][i] IN
                        /\ e.generation = 0 => e.dead
                        /\ e # NoEntry => \E g \in Held' :
                             g.resource = s /\ g.ref = i /\ g.generation = e.generation
                        /\ ~e.dead =>
                             /\ s \in up /\ phase \notin {"released", "unloaded"}
                             /\ IF s = hooked
                                THEN phase = "stopping" /\ e.generation + 1 = generation[s]
                                ELSE e.generation = generation[s]
    BY <1>1 DEF EntryInv
  <2>1. CASE s = r /\ i = ref
    BY <2>1, <1>1, <1>2, <1>4, <1>5, CallbackAssumption
  <2>2. CASE ~(s = r /\ i = ref)
    BY <2>2, <1>4, <1>5 DEF IInv, EntryInv
  <2> QED BY <2>1, <2>2
<1>10. \A g \in Held : tracked'[g.resource][g.ref].generation = g.generation =>
         /\ tracked'[g.resource][g.ref] = tracked[g.resource][g.ref]
         /\ registry'[g.resource][g.ref] = registry[g.resource][g.ref]
  BY <1>4, <1>6
<1>11. \A g \in Held : tracked[g.resource][g.ref].generation = g.generation
                       /\ ~tracked[g.resource][g.ref].dead =>
         /\ ~(g.resource = r /\ g.ref = ref)
         /\ tracked'[g.resource][g.ref] = tracked[g.resource][g.ref]
         /\ registry'[g.resource][g.ref] = registry[g.resource][g.ref]
  <2>1. \A g \in Held : tracked[g.resource][g.ref].generation = g.generation
                        /\ ~tracked[g.resource][g.ref].dead =>
          registry[g.resource][g.ref] = g.function
    BY DEF IInv, SlotInv, OwnsEntry, Entry, Slot
  <2> QED BY <1>4, <1>6, <2>1
<1>12. SlotInv'
  <2>1. ASSUME NEW g \in Held', OwnsEntry(g)', ~Entry(g).dead'
        PROVE  (Slot(g) = g.function)'
    <3>1. CASE g = bound
      BY <3>1, <1>4 DEF Slot
    <3>2. CASE g \in Held
      BY <3>2, <2>1, <1>10 DEF IInv, SlotInv, OwnsEntry, Entry, Slot
    <3> QED BY <3>1, <3>2, <1>5
  <2>2. ASSUME NEW g \in Held', g.resource \in up, g.generation = generation[g.resource]
        PROVE  OwnsEntry(g)' /\ ~Entry(g).dead'
    <3>1. CASE g = bound
      BY <3>1, <1>4 DEF OwnsEntry, Entry
    <3>2. CASE g \in Held
      <4>1. OwnsEntry(g) /\ ~Entry(g).dead
        BY <3>2, <2>2, <1>1 DEF IInv, SlotInv
      <4> QED BY <3>2, <4>1, <1>11 DEF OwnsEntry, Entry
    <3> QED BY <3>1, <3>2, <1>5
  <2>3. ASSUME NEW s \in Resource, NEW i \in Ref, registry'[s][i] # NoFunction
        PROVE  /\ s \in up
               /\ \E g \in Held' : /\ g.resource = s /\ g.ref = i /\ g.function = registry'[s][i]
                                   /\ OwnsEntry(g)' /\ ~Entry(g).dead'
    <3>1. CASE s = r /\ i = ref
      BY <3>1, <1>1, <1>4, <1>5 DEF OwnsEntry, Entry
    <3>2. CASE ~(s = r /\ i = ref)
      <4>1. registry'[s][i] = registry[s][i]
        BY <3>2, <1>4
      <4>2. s \in up /\ \E g \in Held :
              /\ g.resource = s /\ g.ref = i /\ g.function = registry[s][i]
              /\ OwnsEntry(g) /\ ~Entry(g).dead
        BY <1>1, <2>3, <4>1 DEF IInv, SlotInv
      <4> QED BY <1>5, <1>11, <4>1, <4>2 DEF OwnsEntry, Entry
    <3> QED BY <3>1, <3>2
  <2> QED BY <1>1, <2>1, <2>2, <2>3 DEF SlotInv
<1> QED BY <1>1, <1>2, <1>7, <1>8, <1>9, <1>12
        DEF IInv, HookInv, CallRunsOwnFunction, UnrefOnce

\* The steps of the server and of the hooks leave the objects alone.
LEMMA StartedStep == ASSUME IInv, NEW r \in Resource, resource_started(r) PROVE IInv'
<1>1. /\ phase = "running" /\ r \notin up /\ up' = up \cup {r} /\ hooked = NoResource
      /\ UNCHANGED <<callback, tracked, registry, generation, phase, hooked, next_function,
                     last_call, misfreed>>
  BY DEF resource_started, IInv, HookInv
<1>2. Held' = Held /\ Held \subseteq Handle
  BY <1>1, HeldAreHandles DEF Held, Empty, IInv
<1>3. \A h \in Held : /\ h.resource \in Resource /\ h.resource = r => h.generation < generation[r]
                      /\ h.generation \in Nat /\ generation[h.resource] \in Nat
  BY <1>1, <1>2, HandleFields DEF IInv, HeldInv, TypeOK
<1>4. TypeOK' /\ HeldInv'
  BY <1>1, <1>2 DEF IInv, TypeOK, HeldInv, Empty
<1>5. EntryInv'
  BY <1>1, <1>2 DEF IInv, EntryInv
<1>6. SlotInv'
  <2>1. \A h \in Held : h.resource \in up' /\ h.generation = generation[h.resource] =>
          h.resource \in up
    BY <1>1, <1>3
  <2> QED BY <1>1, <1>2, <2>1 DEF IInv, SlotInv, OwnsEntry, Entry, Slot
<1> QED BY <1>1, <1>4, <1>5, <1>6 DEF IInv, HookInv, CallRunsOwnFunction, UnrefOnce

LEMMA StoppedStep == ASSUME IInv, NEW r \in Resource, resource_stopped(r) PROVE IInv'
<1>1. /\ phase = "running" /\ r \in up /\ hooked = NoResource /\ phase' = "stopping" /\ hooked' = r
      /\ generation' = [generation EXCEPT ![r] = @ + 1]
      /\ UNCHANGED <<callback, tracked, registry, up, next_function, last_call, misfreed>>
  BY DEF resource_stopped, IInv, HookInv
<1>2. Held' = Held /\ Held \subseteq Handle
  BY <1>1, HeldAreHandles DEF Held, Empty, IInv
<1>3. /\ generation \in [Resource -> Nat \ {0}]
      /\ \A s \in Resource : generation'[s] = IF s = r THEN generation[r] + 1 ELSE generation[s]
  BY <1>1 DEF IInv, TypeOK
<1>4. \A h \in Held : /\ h.resource \in Resource /\ h.generation \in Nat
                      /\ h.generation <= generation[h.resource]
                      /\ h.resource \notin up => h.generation < generation[h.resource]
  BY <1>2, HandleFields DEF IInv, HeldInv
<1>5. TypeOK'
  BY <1>1, <1>3 DEF IInv, TypeOK, Phase
<1>6. HeldInv'
  <2>1. \A h \in Held : h.function < next_function /\ h.generation <= generation'[h.resource]
    BY <1>3, <1>4 DEF IInv, HeldInv
  <2>2. \A h \in Held : h.resource \notin up \/ h.resource = r =>
          h.generation < generation'[h.resource]
    BY <1>1, <1>3, <1>4
  <2> QED BY <1>1, <1>2, <2>1, <2>2 DEF IInv, HeldInv, Empty
<1>7. EntryInv'
  BY <1>1, <1>2, <1>3, CallbackAssumption DEF IInv, EntryInv
<1>8. SlotInv'
  <2>1. \A h \in Held : h.generation = generation'[h.resource] =>
          h.generation = generation[h.resource]
    BY <1>3, <1>4
  <2> QED BY <1>1, <1>2, <2>1 DEF IInv, SlotInv, OwnsEntry, Entry, Slot
<1> QED BY <1>1, <1>5, <1>6, <1>7, <1>8 DEF IInv, HookInv, CallRunsOwnFunction, UnrefOnce

LEMMA InvalidateStep == ASSUME IInv, invalidate_resource_callbacks PROVE IInv'
<1>1. /\ phase = "stopping" /\ phase' = "closing" /\ hooked \in up /\ hooked \in Resource
      /\ tracked' = [tracked EXCEPT ![hooked] = [ref \in Ref |-> Invalidated(tracked[hooked][ref])]]
      /\ UNCHANGED <<callback, registry, generation, up, hooked, next_function, last_call,
                     misfreed>>
  BY DEF invalidate_resource_callbacks, IInv, HookInv, TypeOK
<1>2. Held' = Held /\ Held \subseteq Handle
  BY <1>1, HeldAreHandles DEF Held, Empty, IInv
<1>3. tracked \in [Resource -> [Ref -> TrackedRef]]
  BY DEF IInv, TypeOK
<1>4. ASSUME NEW e \in TrackedRef
      PROVE  /\ Invalidated(e) \in TrackedRef /\ Invalidated(e).dead
             /\ Invalidated(e).generation = e.generation
             /\ e = NoEntry => Invalidated(e) = NoEntry
  BY DEF Invalidated, TrackedRef, NoEntry
<1>5. \A s \in Resource, i \in Ref :
        tracked'[s][i] = IF s = hooked THEN Invalidated(tracked[s][i]) ELSE tracked[s][i]
  BY <1>1, <1>3
<1>6. TypeOK'
  <2>1. tracked' \in [Resource -> [Ref -> TrackedRef]]
    <3>1. [ref \in Ref |-> Invalidated(tracked[hooked][ref])] \in [Ref -> TrackedRef]
      BY <1>1, <1>3, <1>4
    <3> QED BY <1>1, <1>3, <3>1
  <2> QED BY <1>1, <2>1 DEF IInv, TypeOK, Phase
<1>7. HeldInv'
  BY <1>1, <1>2 DEF IInv, HeldInv, Empty
<1>8. EntryInv'
  BY <1>1, <1>2, <1>3, <1>4, <1>5 DEF IInv, EntryInv
<1>9. \A h \in Held : /\ h.resource \in Resource /\ h.ref \in Ref /\ h.generation \in Nat
                      /\ h.resource = hooked => h.generation # generation[h.resource]
  BY <1>1, <1>2, HandleFields DEF IInv, HeldInv, TypeOK
<1>10. SlotInv'
  <2>1. ASSUME NEW h \in Held, ~tracked'[h.resource][h.ref].dead
        PROVE  tracked'[h.resource][h.ref] = tracked[h.resource][h.ref]
    BY <1>3, <1>4, <1>5, <1>9, <2>1
  <2>2. ASSUME NEW h \in Held, h.resource # hooked
        PROVE  tracked'[h.resource][h.ref] = tracked[h.resource][h.ref]
    BY <1>5, <1>9, <2>2
  <2> QED BY <1>1, <1>2, <1>9, <2>1, <2>2 DEF IInv, SlotInv, OwnsEntry, Entry, Slot
<1> QED BY <1>1, <1>6, <1>7, <1>8, <1>10 DEF IInv, HookInv, CallRunsOwnFunction, UnrefOnce

LEMMA ClosedStep == ASSUME IInv, vm_closed PROVE IInv'
<1>1. /\ phase = "closing" /\ phase' = "running" /\ hooked \in up /\ hooked \in Resource
      /\ up' = up \ {hooked} /\ hooked' = NoResource
      /\ registry' = [registry EXCEPT ![hooked] = NoSlots]
      /\ UNCHANGED <<callback, tracked, generation, next_function, last_call, misfreed>>
  BY DEF vm_closed, IInv, HookInv, TypeOK
<1>2. Held' = Held /\ Held \subseteq Handle
  BY <1>1, HeldAreHandles DEF Held, Empty, IInv
<1>3. /\ registry \in [Resource -> [Ref -> Function \cup {NoFunction}]]
      /\ \A s \in Resource, i \in Ref :
           registry'[s][i] = IF s = hooked THEN NoFunction ELSE registry[s][i]
  BY <1>1 DEF IInv, TypeOK, NoSlots
<1>4. TypeOK'
  <2>1. registry' \in [Resource -> [Ref -> Function \cup {NoFunction}]]
    BY <1>1, <1>3 DEF NoSlots
  <2> QED BY <1>1, <2>1 DEF IInv, TypeOK, Phase
<1>5. \A h \in Held : h.resource \in Resource /\ h.ref \in Ref
  BY <1>2, HandleFields
<1>6. HeldInv'
  BY <1>1, <1>2, <1>5, CallbackAssumption DEF IInv, HeldInv, Empty
<1>7. \A s \in Resource, i \in Ref : ~tracked[s][i].dead => s # hooked
  BY <1>1 DEF IInv, EntryInv
<1>8. EntryInv'
  BY <1>1, <1>2, <1>7, CallbackAssumption DEF IInv, EntryInv
<1>9. SlotInv'
  BY <1>1, <1>2, <1>3, <1>5, <1>7 DEF IInv, SlotInv, OwnsEntry, Entry, Slot
<1> QED BY <1>1, <1>4, <1>6, <1>8, <1>9 DEF IInv, HookInv, CallRunsOwnFunction, UnrefOnce

LEMMA StopStep == ASSUME IInv, stop PROVE IInv'
<1>1. /\ phase = "running" /\ phase' = "shutdown" /\ hooked = NoResource
      /\ UNCHANGED <<callback, tracked, registry, generation, up, hooked, next_function,
                     last_call, misfreed>>
  BY DEF stop, IInv, HookInv
<1>2. Held' = Held
  BY <1>1 DEF Held, Empty
<1>3. TypeOK' /\ HeldInv' /\ EntryInv'
  BY <1>1, <1>2, CallbackAssumption DEF IInv, TypeOK, Phase, HeldInv, EntryInv, Empty
<1>4. SlotInv'
  BY <1>1, <1>2 DEF IInv, SlotInv, OwnsEntry, Entry, Slot
<1> QED BY <1>1, <1>3, <1>4 DEF IInv, HookInv, CallRunsOwnFunction, UnrefOnce

\* Everything that is pinned has a live entry of the current generation, so
\* nothing stays pinned; and what is freed was pinned.
LEMMA ReleaseAllStep == ASSUME IInv, release_all_callbacks PROVE IInv'
<1>1. /\ phase = "shutdown" /\ phase' = "released" /\ hooked = NoResource
      /\ registry' = [r \in Resource |-> [ref \in Ref |->
                        IF Reachable(r, ref) THEN NoFunction ELSE registry[r][ref]]]
      /\ misfreed' = misfreed \cup {slot \in Resource \X Ref :
                         Reachable(slot[1], slot[2]) /\ registry[slot[1]][slot[2]] = NoFunction}
      /\ tracked' = [r \in Resource |-> [ref \in Ref |-> NoEntry]]
      /\ UNCHANGED <<callback, generation, up, hooked, next_function, last_call>>
  BY DEF release_all_callbacks, IInv, HookInv
<1>2. Held' = Held /\ Held \subseteq Handle
  BY <1>1, HeldAreHandles DEF Held, Empty, IInv
<1>3. \A h \in Held : h.resource \in Resource /\ h.ref \in Ref /\ h.function # NoFunction
  BY <1>2, HandleFields
<1>4. ASSUME NEW r \in Resource, NEW ref \in Ref, Reachable(r, ref)
      PROVE  registry[r][ref] # NoFunction
  <2>1. tracked[r][ref] # NoEntry /\ ~tracked[r][ref].dead
    BY <1>4 DEF Reachable, NoEntry
  <2>2. PICK h \in Held : h.resource = r /\ h.ref = ref /\ h.generation = tracked[r][ref].generation
    BY <2>1 DEF IInv, EntryInv
  <2>3. Slot(h) = h.function
    BY <2>1, <2>2 DEF IInv, SlotInv, OwnsEntry, Entry
  <2> QED BY <1>3, <2>2, <2>3 DEF Slot
<1>5. misfreed' = misfreed
  <2>1. \A slot \in Resource \X Ref :
          ~(Reachable(slot[1], slot[2]) /\ registry[slot[1]][slot[2]] = NoFunction)
    BY <1>4
  <2> QED BY <1>1, <2>1
<1>6. ASSUME NEW r \in Resource, NEW ref \in Ref
      PROVE  registry'[r][ref] = NoFunction
  <2>1. SUFFICES ASSUME registry[r][ref] # NoFunction PROVE Reachable(r, ref)
    BY <1>1
  <2>2. r \in up /\ ~tracked[r][ref].dead
    BY <1>1, <2>1 DEF IInv, SlotInv, Entry
  <2>3. tracked[r][ref].generation = generation[r]
    BY <1>1, <2>2, CallbackAssumption DEF IInv, EntryInv
  <2> QED BY <2>2, <2>3 DEF Reachable
<1>7. TypeOK'
  <2>1. tracked' \in [Resource -> [Ref -> TrackedRef]]
    BY <1>1 DEF TrackedRef, NoEntry
  <2>2. registry' \in [Resource -> [Ref -> Function \cup {NoFunction}]]
    BY <1>1, <1>6
  <2> QED BY <1>1, <1>5, <2>1, <2>2 DEF IInv, TypeOK, Phase
<1>8. \A r \in Resource, ref \in Ref : tracked'[r][ref] = NoEntry
  BY <1>1
<1>9. HeldInv' /\ EntryInv'
  BY <1>1, <1>2, <1>8 DEF IInv, HeldInv, EntryInv, Empty, NoEntry
<1>10. SlotInv'
  BY <1>1, <1>2, <1>3, <1>6, <1>8 DEF SlotInv, OwnsEntry, Entry, Slot, NoEntry
<1> QED BY <1>1, <1>5, <1>7, <1>9, <1>10 DEF IInv, HookInv, CallRunsOwnFunction, UnrefOnce

LEMMA UnloadStep == ASSUME IInv, unload PROVE IInv'
<1>1. /\ phase = "released" /\ phase' = "unloaded" /\ hooked = NoResource
      /\ UNCHANGED <<callback, tracked, registry, generation, up, hooked, next_function,
                     last_call, misfreed>>
  BY DEF unload, IInv, HookInv
<1>2. Held' = Held
  BY <1>1 DEF Held, Empty
<1>3. TypeOK' /\ HeldInv' /\ EntryInv'
  BY <1>1, <1>2 DEF IInv, TypeOK, Phase, HeldInv, EntryInv, Empty
<1>4. SlotInv'
  BY <1>1, <1>2 DEF IInv, SlotInv, OwnsEntry, Entry, Slot
<1> QED BY <1>1, <1>3, <1>4 DEF IInv, HookInv, CallRunsOwnFunction, UnrefOnce

LEMMA NextInvariant == IInv /\ [Next]_vars => IInv'
<1>1. IInv /\ Next => IInv'
  BY FromStackStep, MoveStep, DestroyStep, CallStep, StartedStep, StoppedStep, InvalidateStep,
     ClosedStep, StopStep, ReleaseAllStep, UnloadStep DEF Next
<1>2. ASSUME IInv, UNCHANGED vars PROVE IInv'
  <2>1. Held' = Held
    BY <1>2 DEF vars, Held, Empty
  <2>2. TypeOK' /\ HeldInv' /\ EntryInv' /\ HookInv'
    BY <1>2, <2>1 DEF vars, IInv, TypeOK, HeldInv, EntryInv, HookInv, Empty
  <2>3. SlotInv'
    BY <1>2, <2>1 DEF vars, IInv, SlotInv, OwnsEntry, Entry, Slot
  <2> QED BY <1>2, <2>2, <2>3 DEF vars, IInv, CallRunsOwnFunction, UnrefOnce
<1> QED BY <1>1, <1>2

\* The bookkeeping of callback.cpp: IInv holds in every reachable state.
THEOREM Invariant == Spec => []IInv
BY InitInvariant, NextInvariant, PTL DEF Spec

-----------------------------------------------------------------------------
(* The safety properties the runs check.                                   *)

\* All variables keep the types of callback.cpp and of the registry.
THEOREM TypeCorrect == Spec => []TypeOK
<1>1. IInv => TypeOK
  BY DEF IInv
<1> QED BY <1>1, Invariant, PTL

\* call() never runs a function other than the one from_stack() pinned, though
\* a fresh VM hands out the same index again.
THEOREM CallIsTrue == Spec => []CallRunsOwnFunction
<1>1. IInv => CallRunsOwnFunction
  BY DEF IInv
<1> QED BY <1>1, Invariant, PTL

\* luaL_unref never frees a slot that is empty or somebody else's.
THEOREM UnrefIsSafe == Spec => []UnrefOnce
<1>1. IInv => UnrefOnce
  BY DEF IInv
<1> QED BY <1>1, Invariant, PTL

\* A Callback bound in the VM that runs passes the checks of call(), and the
\* slot holds its function.
THEOREM LiveWorks == Spec => []LiveCallbackWorks
<1>1. ASSUME IInv PROVE LiveCallbackWorks
  BY <1>1 DEF IInv, SlotInv, LiveCallbackWorks, MayCall, RefIsDead, Manager, OwnsEntry
<1> QED BY <1>1, Invariant, PTL

\* What is pinned in a running VM has a Callback that will free it.
THEOREM NoSlotLeaks == Spec => []SlotHasOwner
<1>1. ASSUME IInv PROVE SlotHasOwner
  BY <1>1 DEF IInv, TypeOK, SlotInv, SlotHasOwner
<1> QED BY <1>1, Invariant, PTL

\* What is tracked has a Callback that will untrack it.
THEOREM NoEntryLeaks == Spec => []EntryHasOwner
<1>1. ASSUME IInv PROVE EntryHasOwner
  BY <1>1 DEF IInv, EntryInv, EntryHasOwner
<1> QED BY <1>1, Invariant, PTL

\* After release_all_callbacks() no running VM holds a function for the module.
THEOREM ShutdownIsClean == Spec => []ShutdownFreesAll
<1>1. ASSUME IInv, phase \in {"released", "unloaded"}, NEW r \in up
      PROVE  registry[r] = NoSlots
  <2>1. r \in Resource /\ registry[r] \in [Ref -> Function \cup {NoFunction}]
    BY <1>1 DEF IInv, TypeOK
  <2>2. \A ref \in Ref : registry[r][ref] = NoFunction
    BY <1>1, <2>1 DEF IInv, SlotInv, EntryInv, Entry
  <2> QED BY <2>1, <2>2 DEF NoSlots
<1>2. IInv => ShutdownFreesAll
  BY <1>1 DEF ShutdownFreesAll
<1> QED BY <1>2, Invariant, PTL

=============================================================================
