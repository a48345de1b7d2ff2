---------------------------- MODULE UserdataProofs ----------------------------
(***************************************************************************)
(* Proofs about Userdata, for any number of types, methods, VMs and        *)
(* objects, when no two types are declared under one name.                 *)
(*                                                                         *)
(* The argument: then a type's identity is its own, so that the metatable  *)
(* under it, once there, is the one the type has made; a constructed       *)
(* object carries it until its memory goes, and a metatable stays as long  *)
(* as its VM.  Scripts can call destructors out of turn, but only on what  *)
(* they hold, and that changes neither an object nor a metatable.          *)
(***************************************************************************)
EXTENDS Userdata, TLAPS

\* Identities are never the "no metatable" of raw memory, and belong to one type.
LEMMA IdentityFacts ==
  ASSUME TypeOK, NamesInv
  PROVE  /\ \A t \in Type : identity(t) \in Identity /\ identity(t) # NoName
         /\ \A t, u \in Type : identity(t) = identity(u) => t = u
BY UserdataAssumption DEF TypeOK, NamesInv, identity, Identity

\* What ensure() makes under the identity of its type, and that it touches no other.
LEMMA EnsureFacts ==
  ASSUME TypeOK, NamesInv, NEW v \in VM, NEW t \in Type, NEW ms \in SUBSET Method
  PROVE  /\ ensure(v, t, ms) \in [VM -> [Identity -> Metatable]]
         /\ \A w \in VM, i \in Identity :
              w # v \/ i # identity(t) => ensure(v, t, ms)[w][i] = metatable[w][i]
         /\ Made(v, t) => ensure(v, t, ms) = metatable
         /\ ~Made(v, t) => /\ ensure(v, t, ms)[v][identity(t)].gc = t
                           /\ \A m \in ms : ensure(v, t, ms)[v][identity(t)].index[m] = t
         /\ ensure(v, t, ms)[v][identity(t)] # Absent
<1>1. identity(t) \in Identity /\ metatable \in [VM -> [Identity -> Metatable]]
  BY IdentityFacts DEF TypeOK
<1>2. CASE Made(v, t)
  <2>1. ensure(v, t, ms) = metatable
    BY <1>2 DEF ensure
  <2> QED BY <1>1, <1>2, <2>1 DEF Made
<1>3. CASE ~Made(v, t)
  <2> DEFINE new == [gc |-> t, index |-> add_method(Absent.index, t, ms)]
  <2>1. ensure(v, t, ms) = [metatable EXCEPT ![v][identity(t)] = new]
    BY <1>3 DEF ensure
  <2>2. \A m \in Method : Absent.index[m] = NoType
    BY DEF Absent
  <2>3. add_method(Absent.index, t, ms) \in [Method -> Type \cup {NoType}]
    BY <2>2 DEF add_method
  <2>4. \A m \in ms : add_method(Absent.index, t, ms)[m] = t
    BY DEF add_method
  <2>5. /\ new \in Metatable /\ new.gc = t
        /\ new.index = add_method(Absent.index, t, ms)
    BY <2>3 DEF Metatable
  <2>6. new # Absent
    BY <2>5, UserdataAssumption DEF Absent
  <2> HIDE DEF new
  <2>7. ensure(v, t, ms)[v][identity(t)] = new
    BY <1>1, <2>1
  <2>8. \A m \in ms : new.index[m] = t
    BY <2>4, <2>5
  <2>9. ensure(v, t, ms) \in [VM -> [Identity -> Metatable]]
    BY <1>1, <2>1, <2>5
  <2>10. \A w \in VM, i \in Identity :
           w # v \/ i # identity(t) => ensure(v, t, ms)[w][i] = metatable[w][i]
    BY <1>1, <2>1
  <2> QED BY <1>3, <2>5, <2>6, <2>7, <2>8, <2>9, <2>10
<1> QED BY <1>2, <1>3

-----------------------------------------------------------------------------
(* The steps.  Each lemma takes one part of the invariant through Next.     *)

\* The userdata that the steps make are userdata.
LEMMA NewObjects ==
  ASSUME TypeOK, NamesInv, NEW v \in VM, NEW t \in Type
  PROVE  Boxed(v, t) \in Userdata /\ Raw(v, t) \in Userdata
<1>1. identity(t) \in Identity
  BY IdentityFacts
<1> QED BY <1>1 DEF Boxed, Raw, Userdata

\* Freeing a userdata changes nothing but its state.
LEMMA FreedFacts ==
  ASSUME NEW u \in Userdata
  PROVE  /\ [u EXCEPT !.state = "freed"] \in Userdata
         /\ [u EXCEPT !.state = "freed"] =
              [state |-> "freed", vm |-> u.vm, type |-> u.type, built |-> u.built, meta |-> u.meta]
<1>1. /\ u.vm \in VM \cup {NoVM} /\ u.type \in Type \cup {NoType} /\ u.built \in BOOLEAN
      /\ u.meta \in Identity \cup {NoName}
  BY DEF Userdata
<1>2. [u EXCEPT !.state = "freed"] =
        [state |-> "freed", vm |-> u.vm, type |-> u.type, built |-> u.built, meta |-> u.meta]
  BY DEF Userdata
<1>3. [state |-> "freed", vm |-> u.vm, type |-> u.type, built |-> u.built, meta |-> u.meta]
        \in Userdata
  BY <1>1 DEF Userdata
<1> QED BY <1>2, <1>3

\* What a finalizer is called with.
LEMMA GcFacts ==
  ASSUME TypeOK, NEW o \in Object, object[o].vm \in VM
  PROVE  gc_metamethod(o) \in Seq(Type \cup {NoType})
<1>1. gone[o] \in Seq(Type \cup {NoType}) /\ object[o].meta \in Identity \cup {NoName}
  BY DEF TypeOK, Userdata
<1>2. CASE object[o].meta = NoName
  BY <1>1, <1>2 DEF gc_metamethod
<1>3. CASE object[o].meta # NoName
  <2>1. metatable[object[o].vm][object[o].meta] \in Metatable
    BY <1>1, <1>3 DEF TypeOK
  <2>2. metatable[object[o].vm][object[o].meta].gc \in Type \cup {NoType}
    BY <2>1 DEF Metatable
  <2> QED BY <1>1, <1>3, <2>2 DEF gc_metamethod
<1> QED BY <1>2, <1>3

\* Next preserves the types.
LEMMA TypeStep ==
  ASSUME IInv, [Next]_vars
  PROVE  TypeOK'
<1>0. TypeOK /\ NamesInv /\ ObjectInv
  BY DEF IInv
<1> USE DEF TypeOK
<1>1. ASSUME NEW t \in Type, NEW n \in Name, set_type_name(t, n) PROVE TypeOK'
  <2>1. UNCHANGED <<loaded, registrar_, methods_, vmVars, last>>
    BY <1>1 DEF set_type_name
  <2>2. Append(object_types, t) \in Seq(Type)
    BY <1>0
  <2>3. type_name_' \in [Type -> Name \cup {NoName}] /\ object_types' \in Seq(Type)
    BY <1>0, <1>1, <2>2 DEF set_type_name
  <2> QED BY <1>0, <2>1, <2>3 DEF vmVars
<1>2. ASSUME NEW t \in Type, set_methods(t) PROVE TypeOK'
  BY <1>0, <1>2 DEF set_methods, vmVars
<1>3. ASSUME NEW v \in VM, open_vm(v) PROVE TypeOK'
  BY <1>0, <1>3 DEF open_vm
<1>4. ASSUME NEW o \in Object, collect(o) PROVE TypeOK'
  <2>1. object[o].vm \in VM
    BY <1>0, <1>4 DEF collect, ObjectInv
  <2>2. gone' \in [Object -> Seq(Type \cup {NoType})]
    BY <1>0, <1>4, <2>1, GcFacts DEF collect
  <2>3. object' \in [Object -> Userdata]
    BY <1>0, <1>4, FreedFacts DEF collect
  <2> QED BY <1>0, <1>4, <2>2, <2>3 DEF collect, staticVars
<1>5. ASSUME NEW v \in VM, close_vm(v) PROVE TypeOK'
  <2> DEFINE Left == {o \in Object : Allocated(o) /\ object[o].vm = v}
  <2>1. /\ gone' = [o \in Object |-> IF o \in Left THEN gc_metamethod(o) ELSE gone[o]]
        /\ object' = [o \in Object |->
             IF o \in Left THEN [object[o] EXCEPT !.state = "freed"] ELSE object[o]]
        /\ metatable' = [metatable EXCEPT ![v] = [i \in Identity |-> Absent]]
        /\ open' = open \ {v} /\ half' = half \ ({v} \X Type)
        /\ UNCHANGED <<loaded, type_name_, registrar_, object_types, methods_, called, last>>
    BY <1>5 DEF close_vm, staticVars
  <2>2. \A o \in Left : gc_metamethod(o) \in Seq(Type \cup {NoType})
    <3>1. ASSUME NEW o \in Left PROVE gc_metamethod(o) \in Seq(Type \cup {NoType})
      BY <1>0, <1>5, <3>1, GcFacts
    <3> QED BY <3>1
  <2>3. \A o \in Object : [object[o] EXCEPT !.state = "freed"] \in Userdata
    BY <1>0, FreedFacts
  <2>4. [i \in Identity |-> Absent] \in [Identity -> Metatable]
    BY DEF Absent, Metatable
  <2> HIDE DEF Left
  <2>5. gone' \in [Object -> Seq(Type \cup {NoType})]
    BY <1>0, <2>1, <2>2
  <2>6. object' \in [Object -> Userdata]
    BY <1>0, <2>1, <2>3
  <2>7. metatable' \in [VM -> [Identity -> Metatable]]
    BY <1>0, <2>1, <2>4
  <2> QED BY <1>0, <2>1, <2>5, <2>6, <2>7
<1>6. ASSUME NEW v \in VM, NEW t \in Type, NEW ms \in SUBSET Method
      PROVE  /\ ensure(v, t, ms) \in [VM -> [Identity -> Metatable]]
             /\ record_method(v, t, ms) \in [Type -> SUBSET Method]
  BY <1>0, <1>6, EnsureFacts DEF record_method
<1>7. ASSUME NEW v \in VM, NEW t \in Type, materialize(v, t) PROVE TypeOK'
  BY <1>0, <1>6, <1>7 DEF materialize, staticVars, Registered
<1>8. ASSUME NEW v \in VM, NEW t \in Type, NEW ms \in SUBSET Method, registrar_throws(v, t, ms)
      PROVE  TypeOK'
  BY <1>0, <1>6, <1>8 DEF registrar_throws, staticVars
<1>9. ASSUME NEW v \in VM, NEW t \in Type, NEW o \in Object, create(v, t, o) PROVE TypeOK'
  <2>1. PICK u \in {Boxed(v, t), Raw(v, t)} : object' = [object EXCEPT ![o] = u]
    BY <1>9 DEF create
  <2>2. u \in Userdata
    BY <1>0, <2>1, NewObjects
  <2>3. object' \in [Object -> Userdata]
    BY <1>0, <2>1, <2>2
  <2>4. Registered(t) \in SUBSET Method
    BY DEF Registered
  <2> QED BY <1>0, <1>6, <1>9, <2>3, <2>4 DEF create, staticVars
<1>10. ASSUME NEW v \in VM, NEW t \in Type, NEW x \in Object \cup Foreign, call(v, t, x)
       PROVE  TypeOK'
  <2>1. PICK result \in check(t, x) : last' = [type |-> t, self |-> x, result |-> result]
    BY <1>10 DEF call
  <2>2. result \in Result
    <3>1. CASE x \in Object
      BY <2>1, <3>1, UserdataAssumption DEF check, Foreign, Result
    <3>2. CASE x \in Foreign
      BY <2>1, <3>2 DEF check, Foreign, Result
    <3> QED BY <3>1, <3>2
  <2> QED BY <1>0, <1>10, <2>1, <2>2 DEF call, staticVars, vmVars
<1>11. ASSUME NEW v \in VM, NEW t \in Type, NEW x \in Object, call_gc(v, t, x) PROVE TypeOK'
  <2>1. called' = [called EXCEPT ![x] = @ \cup {t}]
    BY <1>11 DEF call_gc
  <2>2. called' \in [Object -> SUBSET Type]
    BY <1>0, <2>1
  <2> QED BY <1>0, <1>11, <2>2 DEF call_gc, staticVars
<1>12. ASSUME UNCHANGED vars PROVE TypeOK'
  BY <1>0, <1>12 DEF vars
<1> QED BY <1>1, <1>2, <1>3, <1>4, <1>5, <1>7, <1>8, <1>9, <1>10, <1>11, <1>12 DEF Next

\* Names are given once, before everything else, each to one type.
LEMMA NamesStep ==
  ASSUME ~SharedNames, IInv, [Next]_vars
  PROVE  NamesInv'
<1>0. TypeOK /\ NamesInv
  BY DEF IInv
<1>1. ASSUME NEW t \in Type, NEW n \in Name, set_type_name(t, n) PROVE NamesInv'
  <2>1. \A u \in Type \ {t} : type_name_[u] # n
    BY <1>1 DEF set_type_name
  <2>2. type_name_' = type_name_ \/ type_name_' = [type_name_ EXCEPT ![t] = n]
    BY <1>1 DEF set_type_name
  <2>3. CASE type_name_' = type_name_
    BY <1>0, <2>3 DEF NamesInv
  <2>4. CASE type_name_' = [type_name_ EXCEPT ![t] = n]
    BY <1>0, <2>1, <2>4 DEF NamesInv, TypeOK
  <2> QED BY <2>2, <2>3, <2>4
<1>2. ASSUME type_name_' = type_name_ PROVE NamesInv'
  BY <1>0, <1>2 DEF NamesInv
<1>3. ASSUME NEW t \in Type, set_methods(t) PROVE NamesInv'
  BY <1>2, <1>3 DEF set_methods
<1>4. ASSUME NEW v \in VM, open_vm(v) \/ close_vm(v) PROVE NamesInv'
  BY <1>2, <1>4 DEF open_vm, close_vm, staticVars
<1>5. ASSUME NEW o \in Object, collect(o) PROVE NamesInv'
  BY <1>2, <1>5 DEF collect, staticVars
<1>6. ASSUME NEW v \in VM, NEW t \in Type,
             \/ materialize(v, t)
             \/ \E ms \in SUBSET Method : registrar_throws(v, t, ms)
             \/ \E o \in Object : create(v, t, o) \/ call_gc(v, t, o)
             \/ \E x \in Object \cup Foreign : call(v, t, x)
      PROVE  NamesInv'
  BY <1>2, <1>6 DEF materialize, registrar_throws, create, call, call_gc, staticVars
<1>7. ASSUME UNCHANGED vars PROVE NamesInv'
  BY <1>2, <1>7 DEF vars
<1> QED BY <1>1, <1>3, <1>4, <1>5, <1>6, <1>7 DEF Next

\* A call of ensure() in a VM: what was made stays as it was, and what is new has
\* all the methods or is on record.
LEMMA EnsureStep ==
  ASSUME IInv, NEW v \in open, NEW t \in Type, NEW ms \in SUBSET Method,
         metatable' = ensure(v, t, ms),
         UNCHANGED <<loaded, type_name_, registrar_, open>>,
         half \subseteq half', ms = Registered(t) \/ <<v, t>> \in half'
  PROVE  /\ MetaInv'
         /\ \A w \in VM, u \in Type : Made(w, u) => Made(w, u)'
         /\ Made(v, t)'
<1>0. TypeOK /\ NamesInv /\ MetaInv /\ v \in VM
  BY DEF IInv, TypeOK
<1>1. /\ \A u \in Type : identity(u) \in Identity /\ identity(u)' = identity(u)
      /\ \A u \in Type : identity(u) = identity(t) => u = t
  BY <1>0, IdentityFacts DEF identity
<1>2. /\ \A w \in VM, i \in Identity :
           w # v \/ i # identity(t) => metatable'[w][i] = metatable[w][i]
      /\ Made(v, t) => metatable' = metatable
      /\ ~Made(v, t) => /\ metatable'[v][identity(t)].gc = t
                        /\ \A m \in ms : metatable'[v][identity(t)].index[m] = t
      /\ metatable'[v][identity(t)] # Absent
  BY <1>0, EnsureFacts
<1>3. Made(v, t)'
  BY <1>1, <1>2 DEF Made
<1>4. ASSUME NEW w \in VM, NEW u \in Type, w # v \/ u # t
      PROVE  metatable'[w][identity(u)'] = metatable[w][identity(u)]
  BY <1>1, <1>2, <1>4
<1>5. \A w \in VM, u \in Type : Made(w, u) => Made(w, u)'
  <2>1. ASSUME NEW w \in VM, NEW u \in Type, Made(w, u) PROVE Made(w, u)'
    <3>1. CASE w = v /\ u = t
      BY <1>3, <3>1
    <3>2. CASE w # v \/ u # t
      BY <1>4, <2>1, <3>2 DEF Made
    <3> QED BY <3>1, <3>2
  <2> QED BY <2>1
<1>6. loaded' /\ \A w \in VM \ open', i \in Identity : metatable'[w][i] = Absent
  BY <1>0, <1>2 DEF MetaInv
<1>7. ASSUME NEW w \in VM, NEW u \in Type, Made(w, u)'
      PROVE  /\ metatable'[w][identity(u)'].gc = u
             /\ u \in registrar_' /\ <<w, u>> \notin half' =>
                  \A m \in Method : metatable'[w][identity(u)'].index[m] = u
  <2>1. CASE w # v \/ u # t \/ Made(v, t)
    <3>1. metatable'[w][identity(u)'] = metatable[w][identity(u)]
      BY <1>1, <1>2, <1>4, <2>1
    <3> QED BY <1>0, <1>7, <3>1 DEF MetaInv, Made
  <2>2. CASE w = v /\ u = t /\ ~Made(v, t)
    BY <1>1, <1>2, <2>2 DEF Registered
  <2> QED BY <2>1, <2>2
<1>8. MetaInv'
  BY <1>6, <1>7 DEF MetaInv
<1> QED BY <1>3, <1>5, <1>8

\* The metatables.
LEMMA MetaStep ==
  ASSUME ~SharedNames, IInv, [Next]_vars
  PROVE  MetaInv'
<1>0. TypeOK /\ NamesInv /\ MetaInv
  BY DEF IInv
<1>1. ASSUME ~loaded, UNCHANGED <<metatable, open, loaded>>,
             type_name_' \in [Type -> Name \cup {NoName}]
      PROVE  MetaInv'
  <2>1. \A v \in VM, i \in Identity : metatable'[v][i] = Absent
    BY <1>0, <1>1 DEF MetaInv
  <2>2. \A t \in Type : identity(t)' \in Identity
    BY <1>1 DEF identity, Identity
  <2> QED BY <1>0, <1>1, <2>1, <2>2 DEF MetaInv, Made
<1>2. ASSUME NEW t \in Type, NEW n \in Name, set_type_name(t, n) PROVE MetaInv'
  BY <1>0, <1>1, <1>2 DEF set_type_name, vmVars, TypeOK
<1>3. ASSUME NEW t \in Type, set_methods(t) PROVE MetaInv'
  BY <1>0, <1>1, <1>3 DEF set_methods, vmVars, TypeOK
<1>5. ASSUME NEW v \in VM, open_vm(v) PROVE MetaInv'
  <2>1. loaded' /\ open \subseteq open' /\ UNCHANGED <<metatable, type_name_, registrar_, half>>
    BY <1>5 DEF open_vm
  <2> QED BY <1>0, <2>1 DEF MetaInv, Made, identity
<1>6. ASSUME NEW v \in VM, close_vm(v) PROVE MetaInv'
  <2>1. /\ v \in open /\ metatable' = [metatable EXCEPT ![v] = [i \in Identity |-> Absent]]
        /\ open' = open \ {v} /\ half' = half \ ({v} \X Type)
        /\ UNCHANGED <<loaded, type_name_, registrar_>>
    BY <1>6 DEF close_vm, staticVars
  <2>2. \A i \in Identity : metatable'[v][i] = Absent
    BY <1>0, <2>1 DEF TypeOK
  <2>3. \A w \in VM \ {v} : metatable'[w] = metatable[w]
    BY <1>0, <2>1 DEF TypeOK
  <2>4. \A u \in Type : identity(u)' = identity(u) /\ identity(u) \in Identity
    BY <1>0, <2>1, IdentityFacts DEF identity
  <2>5. \A w \in VM \ {v}, u \in Type : <<w, u>> \notin half' => <<w, u>> \notin half
    BY <2>1
  <2>6. loaded'
    BY <1>0, <2>1 DEF MetaInv
  <2>7. \A w \in VM \ open', i \in Identity : metatable'[w][i] = Absent
    BY <1>0, <2>1, <2>2, <2>3 DEF MetaInv
  <2>8. ASSUME NEW w \in VM, NEW u \in Type, Made(w, u)'
        PROVE  /\ metatable'[w][identity(u)'].gc = u
               /\ u \in registrar_' /\ <<w, u>> \notin half' =>
                    \A m \in Method : metatable'[w][identity(u)'].index[m] = u
    <3>1. w # v
      BY <2>2, <2>4, <2>8 DEF Made
    <3>2. metatable'[w][identity(u)'] = metatable[w][identity(u)] /\ Made(w, u)
      BY <2>3, <2>4, <2>8, <3>1 DEF Made
    <3> QED BY <1>0, <2>1, <2>5, <3>1, <3>2 DEF MetaInv
  <2> QED BY <2>6, <2>7, <2>8 DEF MetaInv
<1>7. ASSUME NEW v \in VM, NEW t \in Type, materialize(v, t) PROVE MetaInv'
  <2>1. /\ v \in open /\ metatable' = ensure(v, t, Registered(t))
        /\ UNCHANGED <<loaded, type_name_, registrar_, open>> /\ half' = half
    BY <1>7 DEF materialize, staticVars
  <2>2. Registered(t) \in SUBSET Method
    BY DEF Registered
  <2> QED BY <2>1, <2>2, EnsureStep
<1>8. ASSUME NEW v \in VM, NEW t \in Type, NEW ms \in SUBSET Method, registrar_throws(v, t, ms)
      PROVE  MetaInv'
  <2>1. /\ v \in open /\ metatable' = ensure(v, t, ms)
        /\ UNCHANGED <<loaded, type_name_, registrar_, open>>
        /\ half \subseteq half' /\ <<v, t>> \in half'
    BY <1>8 DEF registrar_throws, staticVars
  <2> QED BY <2>1, EnsureStep
<1>9. ASSUME NEW v \in VM, NEW t \in Type, NEW o \in Object, create(v, t, o) PROVE MetaInv'
  <2>1. /\ v \in open /\ metatable' = ensure(v, t, Registered(t))
        /\ UNCHANGED <<loaded, type_name_, registrar_, open>> /\ half' = half
    BY <1>9 DEF create, staticVars
  <2>2. Registered(t) \in SUBSET Method
    BY DEF Registered
  <2> QED BY <2>1, <2>2, EnsureStep
<1>10. ASSUME UNCHANGED <<loaded, type_name_, registrar_, open, metatable, half>> PROVE MetaInv'
  BY <1>0, <1>10 DEF MetaInv, Made, identity
<1>11. ASSUME NEW o \in Object, collect(o) PROVE MetaInv'
  BY <1>10, <1>11 DEF collect, staticVars
<1>12. ASSUME NEW v \in VM, NEW t \in Type, NEW x \in Object \cup Foreign, call(v, t, x)
       PROVE  MetaInv'
  BY <1>10, <1>12 DEF call, staticVars, vmVars
<1>13. ASSUME NEW v \in VM, NEW t \in Type, NEW x \in Object, call_gc(v, t, x) PROVE MetaInv'
  BY <1>10, <1>13 DEF call_gc, staticVars
<1>14. ASSUME UNCHANGED vars PROVE MetaInv'
  BY <1>10, <1>14 DEF vars
<1> QED BY <1>2, <1>3, <1>5, <1>6, <1>7, <1>8, <1>9, <1>11, <1>12, <1>13, <1>14 DEF Next

\* A userdata that is there keeps its type and what its constructor has done.
LEMMA ObjectsStay ==
  ASSUME IInv, [Next]_vars, NEW o \in Object, object[o].state # "none"
  PROVE  /\ object'[o].state # "none"
         /\ object'[o].type = object[o].type /\ object'[o].built = object[o].built
<1>0. object \in [Object -> Userdata]
  BY DEF IInv, TypeOK
<1>1. CASE object' = object
  BY <1>1
<1>2. ASSUME NEW p \in Object, collect(p)
      PROVE  /\ object'[o].state # "none"
             /\ object'[o].type = object[o].type /\ object'[o].built = object[o].built
  <2>1. object' = [object EXCEPT ![p].state = "freed"]
    BY <1>2 DEF collect
  <2>2. CASE p = o
    <3>1. object'[o] = [object[o] EXCEPT !.state = "freed"]
      BY <1>0, <2>1, <2>2
    <3> QED BY <1>0, <3>1, FreedFacts
  <2>3. CASE p # o
    BY <1>0, <2>1, <2>3
  <2> QED BY <2>2, <2>3
<1>3. ASSUME NEW v \in VM, close_vm(v)
      PROVE  /\ object'[o].state # "none"
             /\ object'[o].type = object[o].type /\ object'[o].built = object[o].built
  <2>1. object'[o] = object[o] \/ object'[o] = [object[o] EXCEPT !.state = "freed"]
    BY <1>3 DEF close_vm
  <2>2. CASE object'[o] = [object[o] EXCEPT !.state = "freed"]
    BY <1>0, <2>2, FreedFacts
  <2> QED BY <2>1, <2>2
<1>4. ASSUME NEW v \in VM, NEW t \in Type, NEW p \in Object, create(v, t, p)
      PROVE  object'[o] = object[o]
  BY <1>0, <1>4 DEF create
<1>5. ASSUME NEW t \in Type, set_methods(t) \/ \E n \in Name : set_type_name(t, n)
      PROVE  object' = object
  BY <1>5 DEF set_methods, set_type_name, vmVars
<1>6. ASSUME NEW v \in VM, open_vm(v) PROVE object' = object
  BY <1>6 DEF open_vm
<1>7. ASSUME NEW v \in VM, NEW t \in Type,
             \/ materialize(v, t)
             \/ \E ms \in SUBSET Method : registrar_throws(v, t, ms)
             \/ \E x \in Object : call_gc(v, t, x)
             \/ \E x \in Object \cup Foreign : call(v, t, x)
      PROVE  object' = object
  BY <1>7 DEF materialize, registrar_throws, call, call_gc, vmVars
<1>8. ASSUME UNCHANGED vars PROVE object' = object
  BY <1>8 DEF vars
<1> QED BY <1>1, <1>2, <1>3, <1>4, <1>5, <1>6, <1>7, <1>8 DEF Next

\* The objects.
LEMMA ObjectStep ==
  ASSUME ~SharedNames, IInv, [Next]_vars
  PROVE  ObjectInv'
<1>0. TypeOK /\ NamesInv /\ MetaInv /\ ObjectInv
  BY DEF IInv
<1> USE DEF Allocated
<1>1. ASSUME ~loaded, object' = object PROVE ObjectInv'
  BY <1>0, <1>1 DEF ObjectInv
<1>2. ASSUME NEW t \in Type, set_methods(t) \/ \E n \in Name : set_type_name(t, n)
      PROVE  ObjectInv'
  BY <1>1, <1>2 DEF set_methods, set_type_name, vmVars
<1>3. ASSUME NEW o \in Object, object'[o] = object[o], loaded => loaded',
             Allocated(o) => object[o].vm \in open' /\ UNCHANGED type_name_ /\
               (Made(object[o].vm, object[o].type) => Made(object[o].vm, object[o].type)')
      PROVE  /\ ~loaded' => object'[o].state = "none"
             /\ object'[o].state = "none" => ~object'[o].built
             /\ object'[o].state = "held" => object'[o].built
             /\ Allocated(o)' =>
                  /\ object'[o].vm \in open' /\ object'[o].type \in Type
                  /\ ~object'[o].built => object'[o].meta = NoName
                  /\ object'[o].built =>
                       /\ object'[o].meta = identity(object[o].type)'
                       /\ Made(object[o].vm, object[o].type)'
  BY <1>0, <1>3 DEF ObjectInv, identity
<1>4. ASSUME object' = object, open \subseteq open', loaded => loaded', UNCHANGED type_name_,
             \A w \in VM, u \in Type : Made(w, u) => Made(w, u)'
      PROVE  ObjectInv'
  BY <1>0, <1>3, <1>4 DEF ObjectInv, TypeOK
<1>5. ASSUME NEW v \in VM, open_vm(v) PROVE ObjectInv'
  BY <1>4, <1>5 DEF open_vm, Made, identity
<1>6. ASSUME NEW v \in VM, NEW t \in Type, NEW x \in Object \cup Foreign, call(v, t, x)
      PROVE  ObjectInv'
  BY <1>4, <1>6 DEF call, staticVars, vmVars, Made, identity
<1>7. ASSUME NEW v \in VM, NEW t \in Type, materialize(v, t) PROVE ObjectInv'
  <2>1. /\ v \in open /\ metatable' = ensure(v, t, Registered(t)) /\ object' = object
        /\ UNCHANGED <<loaded, type_name_, registrar_, open>> /\ half' = half
    BY <1>7 DEF materialize, staticVars
  <2>2. Registered(t) \in SUBSET Method
    BY DEF Registered
  <2> QED BY <1>4, <2>1, <2>2, EnsureStep
<1>8. ASSUME NEW v \in VM, NEW t \in Type, NEW ms \in SUBSET Method, registrar_throws(v, t, ms)
      PROVE  ObjectInv'
  <2>1. /\ v \in open /\ metatable' = ensure(v, t, ms) /\ object' = object
        /\ UNCHANGED <<loaded, type_name_, registrar_, open>>
        /\ half \subseteq half' /\ <<v, t>> \in half'
    BY <1>8 DEF registrar_throws, staticVars
  <2> QED BY <1>4, <2>1, EnsureStep
<1>9. ASSUME NEW v \in VM, NEW t \in Type, NEW o \in Object, create(v, t, o) PROVE ObjectInv'
  <2>1. /\ v \in open /\ metatable' = ensure(v, t, Registered(t))
        /\ UNCHANGED <<loaded, type_name_, registrar_, open>> /\ half' = half
        /\ object' = [object EXCEPT ![o] = Boxed(v, t)] \/ object' = [object EXCEPT ![o] = Raw(v, t)]
    BY <1>9 DEF create, staticVars
  <2>2. Registered(t) \in SUBSET Method
    BY DEF Registered
  <2>3. Made(v, t)' /\ \A w \in VM, u \in Type : Made(w, u) => Made(w, u)'
    BY <2>1, <2>2, EnsureStep
  <2>4. /\ object'[o] = Boxed(v, t) \/ object'[o] = Raw(v, t)
        /\ \A p \in Object \ {o} : object'[p] = object[p]
    BY <1>0, <2>1 DEF TypeOK
  <2>5. loaded /\ loaded'
    BY <1>0, <2>1 DEF MetaInv
  <2>6. ASSUME NEW p \in Object \ {o}, Allocated(p)
        PROVE  object[p].vm \in VM /\ object[p].type \in Type /\ object[p].vm \in open
    BY <1>0, <2>6 DEF ObjectInv, TypeOK
  <2>7. identity(t)' = identity(t)
    BY <2>1 DEF identity
  <2>8. CASE object'[o] = Boxed(v, t)
    BY <1>0, <1>3, <2>1, <2>3, <2>4, <2>5, <2>6, <2>7, <2>8 DEF ObjectInv, Boxed
  <2>9. CASE object'[o] = Raw(v, t)
    BY <1>0, <1>3, <2>1, <2>3, <2>4, <2>5, <2>6, <2>7, <2>9 DEF ObjectInv, Raw
  <2> QED BY <2>4, <2>8, <2>9
<1>10. ASSUME NEW o \in Object, collect(o) PROVE ObjectInv'
  <2>1. /\ Allocated(o) /\ object' = [object EXCEPT ![o].state = "freed"]
        /\ UNCHANGED <<loaded, type_name_, open, metatable>>
    BY <1>10 DEF collect, staticVars
  <2>2. object'[o].state = "freed" /\ loaded
    BY <1>0, <2>1, FreedFacts DEF TypeOK, ObjectInv
  <2>3. \A p \in Object \ {o} : object'[p] = object[p]
    BY <1>0, <2>1 DEF TypeOK
  <2> QED BY <1>0, <1>3, <2>1, <2>2, <2>3 DEF ObjectInv, Made, identity
<1>11. ASSUME NEW v \in VM, close_vm(v) PROVE ObjectInv'
  <2>1. /\ v \in open /\ metatable' = [metatable EXCEPT ![v] = [i \in Identity |-> Absent]]
        /\ open' = open \ {v} /\ UNCHANGED <<loaded, type_name_>>
    BY <1>11 DEF close_vm, staticVars
  <2>2. \A p \in Object : IF Allocated(p) /\ object[p].vm = v
                          THEN object'[p].state = "freed" ELSE object'[p] = object[p]
    BY <1>0, <1>11, FreedFacts DEF close_vm, TypeOK
  <2>3. loaded
    BY <1>0, <2>1 DEF MetaInv
  <2>4. \A w \in VM \ {v}, u \in Type : Made(w, u) => Made(w, u)'
    BY <1>0, <2>1, IdentityFacts DEF Made, identity, TypeOK
  <2>5. \A p \in Object : Allocated(p) => object[p].vm \in VM /\ object[p].type \in Type
    BY <1>0 DEF ObjectInv, TypeOK
  <2> QED BY <1>0, <1>3, <2>1, <2>2, <2>3, <2>4, <2>5 DEF ObjectInv
<1>12. ASSUME NEW v \in VM, NEW t \in Type, NEW x \in Object, call_gc(v, t, x) PROVE ObjectInv'
  BY <1>4, <1>12 DEF call_gc, staticVars, Made, identity
<1>13. ASSUME UNCHANGED vars PROVE ObjectInv'
  BY <1>4, <1>13 DEF vars, Made, identity
<1> QED BY <1>2, <1>5, <1>6, <1>7, <1>8, <1>9, <1>10, <1>11, <1>12, <1>13 DEF Next

\* Own finalizers: what __gc runs for a userdata.
LEMMA GcOwn ==
  ASSUME IInv, NEW o \in Object, Allocated(o)
  PROVE  gc_metamethod(o) = IF object[o].built THEN <<object[o].type>> ELSE <<>>
<1>1. /\ TypeOK /\ NamesInv /\ MetaInv /\ ObjectInv /\ gone[o] = <<>>
  BY DEF IInv, FinalizedOnce, Allocated
<1>2. /\ object[o].vm \in VM /\ object[o].type \in Type
      /\ ~object[o].built => object[o].meta = NoName
      /\ object[o].built => /\ object[o].meta = identity(object[o].type)
                            /\ Made(object[o].vm, object[o].type)
  BY <1>1 DEF ObjectInv, TypeOK
<1>3. CASE object[o].built
  <2>1. object[o].meta = identity(object[o].type) /\ Made(object[o].vm, object[o].type)
    BY <1>2, <1>3
  <2>2. metatable[object[o].vm][identity(object[o].type)].gc = object[o].type
    BY <1>1, <1>2, <2>1 DEF MetaInv
  <2>3. identity(object[o].type) # NoName
    BY <1>1, <1>2, IdentityFacts
  <2>4. gc_metamethod(o) = Append(gone[o], object[o].type)
    BY <2>1, <2>2, <2>3 DEF gc_metamethod
  <2> QED BY <1>1, <1>3, <2>4
<1>4. CASE ~object[o].built
  BY <1>1, <1>2, <1>4 DEF gc_metamethod
<1> QED BY <1>3, <1>4

\* Destructors: a step that runs finalizers runs the right ones, and only objects that
\* a script holds, constructed ones, have their destructor called by it.
LEMMA FinalizedStep ==
  ASSUME IInv, [Next]_vars
  PROVE  FinalizedOnce'
<1>0. TypeOK /\ ObjectInv /\ FinalizedOnce
  BY DEF IInv
<1>1. ASSUME UNCHANGED <<object, gone, called>> PROVE FinalizedOnce'
  BY <1>0, <1>1 DEF FinalizedOnce
<1>2. ASSUME NEW p \in Object, Allocated(p), gone'[p] = gc_metamethod(p), called' = called,
             object'[p] = [object[p] EXCEPT !.state = "freed"]
      PROVE  /\ gone'[p] = IF object'[p].state = "freed" /\ object'[p].built
                           THEN <<object'[p].type>> ELSE <<>>
             /\ ~object'[p].built => called'[p] = {}
  <2>1. object'[p].state = "freed" /\ object'[p].type = object[p].type
        /\ object'[p].built = object[p].built
    BY <1>0, <1>2, FreedFacts DEF TypeOK
  <2>2. ~object[p].built => called[p] = {}
    BY <1>0 DEF FinalizedOnce
  <2> QED BY <1>2, <2>1, <2>2, GcOwn
<1>3. ASSUME NEW o \in Object, collect(o) PROVE FinalizedOnce'
  <2>1. /\ Allocated(o) /\ object' = [object EXCEPT ![o].state = "freed"]
        /\ gone' = [gone EXCEPT ![o] = gc_metamethod(o)] /\ called' = called
    BY <1>3 DEF collect
  <2>2. /\ object'[o] = [object[o] EXCEPT !.state = "freed"] /\ gone'[o] = gc_metamethod(o)
        /\ \A p \in Object \ {o} : object'[p] = object[p] /\ gone'[p] = gone[p]
    BY <1>0, <2>1 DEF TypeOK
  <2> QED BY <1>0, <1>2, <2>1, <2>2 DEF FinalizedOnce
<1>4. ASSUME NEW v \in VM, close_vm(v) PROVE FinalizedOnce'
  <2>1. \A p \in Object :
          IF Allocated(p) /\ object[p].vm = v
          THEN object'[p] = [object[p] EXCEPT !.state = "freed"] /\ gone'[p] = gc_metamethod(p)
          ELSE object'[p] = object[p] /\ gone'[p] = gone[p]
    BY <1>4 DEF close_vm
  <2>2. called' = called
    BY <1>4 DEF close_vm
  <2> QED BY <1>0, <1>2, <2>1, <2>2 DEF FinalizedOnce
<1>5. ASSUME NEW v \in VM, NEW t \in Type, NEW o \in Object, create(v, t, o) PROVE FinalizedOnce'
  <2>1. /\ object[o].state = "none" /\ gone' = gone /\ called' = called
        /\ object' = [object EXCEPT ![o] = Boxed(v, t)] \/ object' = [object EXCEPT ![o] = Raw(v, t)]
    BY <1>5 DEF create
  <2>2. object'[o].state # "freed" /\ \A p \in Object \ {o} : object'[p] = object[p]
    BY <1>0, <2>1 DEF TypeOK, Boxed, Raw
  <2>3. gone[o] = <<>> /\ called[o] = {}
    BY <1>0, <2>1 DEF FinalizedOnce, ObjectInv
  <2> QED BY <1>0, <2>1, <2>2, <2>3 DEF FinalizedOnce
<1>6. ASSUME NEW v \in VM, NEW t \in Type, NEW x \in Object, call_gc(v, t, x)
      PROVE  FinalizedOnce'
  <2>1. /\ object[x].state = "held" /\ object' = object /\ gone' = gone
        /\ called' = [called EXCEPT ![x] = @ \cup {t}]
    BY <1>6 DEF call_gc, Held
  <2>2. object[x].built
    BY <1>0, <2>1 DEF ObjectInv
  <2>3. \A p \in Object \ {x} : called'[p] = called[p]
    BY <1>0, <2>1 DEF TypeOK
  <2> QED BY <1>0, <2>1, <2>2, <2>3 DEF FinalizedOnce
<1>7. ASSUME NEW t \in Type, set_methods(t) \/ \E n \in Name : set_type_name(t, n)
      PROVE  FinalizedOnce'
  BY <1>1, <1>7 DEF set_methods, set_type_name, vmVars
<1>8. ASSUME NEW v \in VM, open_vm(v) PROVE FinalizedOnce'
  BY <1>1, <1>8 DEF open_vm
<1>9. ASSUME NEW v \in VM, NEW t \in Type,
             \/ materialize(v, t)
             \/ \E ms \in SUBSET Method : registrar_throws(v, t, ms)
             \/ \E x \in Object \cup Foreign : call(v, t, x)
      PROVE  FinalizedOnce'
  BY <1>1, <1>9 DEF materialize, registrar_throws, call, vmVars
<1>10. ASSUME UNCHANGED vars PROVE FinalizedOnce'
  BY <1>1, <1>10 DEF vars
<1> QED BY <1>3, <1>4, <1>5, <1>6, <1>7, <1>8, <1>9, <1>10 DEF Next

\* What the last call has seen.
LEMMA LastStep ==
  ASSUME IInv, [Next]_vars
  PROVE  LastInv' /\ OwnTypeOnly'
<1>0. TypeOK /\ NamesInv /\ MetaInv /\ ObjectInv /\ LastInv /\ OwnTypeOnly
  BY DEF IInv
<1>1. ASSUME last' = last PROVE LastInv' /\ OwnTypeOnly'
  BY <1>0, <1>1, ObjectsStay DEF LastInv, OwnTypeOnly
<1>2. ASSUME NEW v \in VM, NEW t \in Type, NEW x \in Object \cup Foreign, call(v, t, x)
      PROVE  LastInv' /\ OwnTypeOnly'
  <2>1. /\ x \in Held(v) \cup Foreign /\ object' = object
        /\ \E result \in check(t, x) : last' = [type |-> t, self |-> x, result |-> result]
    BY <1>2 DEF call, vmVars
  <2>2. PICK result \in check(t, x) : last' = [type |-> t, self |-> x, result |-> result]
    BY <2>1
  <2>3. last'.type = t /\ last'.self = x /\ last'.result = result
    BY <2>2
  <2>4. CASE x \in Object
    <3>1. object[x].state = "held" /\ object[x].built
      BY <1>0, <2>1, <2>4, UserdataAssumption DEF Held, ObjectInv
    <3>2. /\ object[x].type \in Type /\ object[x].meta = identity(object[x].type)
          /\ Made(object[x].vm, object[x].type)
      BY <1>0, <2>4, <3>1 DEF ObjectInv, Allocated
    <3>3. matches(x, t) <=> object[x].type = t
      BY <1>0, <3>2, IdentityFacts DEF matches
    <3>4. check(t, x) = IF matches(x, t) THEN {"ran", "bad argument"} ELSE {"other type"}
      BY <2>4, UserdataAssumption DEF check, Foreign
    <3>5. result \in {"ran", "bad argument"} <=> object[x].type = t
      BY <2>2, <3>3, <3>4
    <3> QED BY <2>1, <2>3, <2>4, <3>1, <3>5 DEF LastInv, OwnTypeOnly
  <2>5. CASE x \notin Object
    BY <2>3, <2>5 DEF LastInv, OwnTypeOnly
  <2> QED BY <2>4, <2>5
<1>3. ASSUME NEW t \in Type, set_methods(t) \/ \E n \in Name : set_type_name(t, n)
      PROVE  last' = last
  BY <1>3 DEF set_methods, set_type_name
<1>4. ASSUME NEW v \in VM, open_vm(v) \/ close_vm(v) PROVE last' = last
  BY <1>4 DEF open_vm, close_vm
<1>5. ASSUME NEW o \in Object, collect(o) PROVE last' = last
  BY <1>5 DEF collect
<1>6. ASSUME NEW v \in VM, NEW t \in Type,
             \/ materialize(v, t)
             \/ \E ms \in SUBSET Method : registrar_throws(v, t, ms)
             \/ \E o \in Object : create(v, t, o) \/ call_gc(v, t, o)
      PROVE  last' = last
  BY <1>6 DEF materialize, registrar_throws, create, call_gc
<1>7. ASSUME UNCHANGED vars PROVE last' = last
  BY <1>7 DEF vars
<1> QED BY <1>1, <1>2, <1>3, <1>4, <1>5, <1>6, <1>7 DEF Next

-----------------------------------------------------------------------------
(* The theorems.                                                            *)

\* The inductive invariant of types, metatables and objects.
THEOREM Invariant == ASSUME ~SharedNames PROVE Spec => []IInv
<1>1. ASSUME Init PROVE IInv
  <2> USE <1>1 DEF Init
  <2>1. TypeOK
    <3>1. last \in [type : Type \cup {NoType}, self : Object \cup Foreign, result : Result]
      BY DEF Foreign, Result
    <3>2. object \in [Object -> Userdata]
      BY DEF Userdata
    <3>3. metatable \in [VM -> [Identity -> Metatable]]
      BY DEF Metatable, Absent
    <3>4. gone \in [Object -> Seq(Type \cup {NoType})] /\ object_types \in Seq(Type)
      OBVIOUS
    <3>5. /\ type_name_ \in [Type -> Name \cup {NoName}] /\ methods_ \in [Type -> SUBSET Method]
          /\ loaded \in BOOLEAN /\ registrar_ \subseteq Type /\ open \subseteq VM
          /\ half \subseteq VM \X Type /\ called \in [Object -> SUBSET Type]
      OBVIOUS
    <3> QED BY <3>1, <3>2, <3>3, <3>4, <3>5 DEF TypeOK
  <2>2. NamesInv
    BY DEF NamesInv
  <2>3. MetaInv
    <3>1. \A v \in VM, i \in Identity : metatable[v][i] = Absent
      OBVIOUS
    <3>2. \A t \in Type : identity(t) \in Identity
      BY DEF identity, Identity
    <3> QED BY <3>1, <3>2 DEF MetaInv, Made
  <2>4. \A o \in Object : object[o].state = "none" /\ ~object[o].built /\ gone[o] = <<>>
                        /\ called[o] = {}
    OBVIOUS
  <2>5. ObjectInv /\ FinalizedOnce
    BY <2>4 DEF ObjectInv, FinalizedOnce, Allocated
  <2>6. LastInv /\ OwnTypeOnly
    BY UserdataAssumption DEF LastInv, OwnTypeOnly, Foreign
  <2> QED BY <2>1, <2>2, <2>3, <2>5, <2>6 DEF IInv
<1>2. ASSUME IInv, [Next]_vars PROVE IInv'
  BY <1>2, TypeStep, NamesStep, MetaStep, ObjectStep, FinalizedStep, LastStep DEF IInv
<1> QED BY <1>1, <1>2, PTL DEF Spec

\* A method runs on the objects of its own type, all of them and no others: what a
\* comparison of metatables decides is the C++ type.
THEOREM MethodsAreSafe == ASSUME ~SharedNames PROVE Spec => []OwnTypeOnly
<1>1. IInv => OwnTypeOnly
  BY DEF IInv
<1> QED BY <1>1, Invariant, PTL

\* The collector runs the destructor of every constructed object once and no other,
\* whatever scripts have called with a __gc they took; raw memory is destroyed by
\* nobody.  (That nobody else destroys an object is what the documentation says and is
\* not so: DestroyedOnce.)
THEOREM FinalizersRunOnce == ASSUME ~SharedNames PROVE Spec => []FinalizedOnce
<1>1. IInv => FinalizedOnce
  BY DEF IInv
<1> QED BY <1>1, Invariant, PTL

\* Objects have all their methods wherever no registrar has thrown.
THEOREM MethodsAreComplete == ASSUME ~SharedNames PROVE Spec => []MethodsComplete
<1>1. ASSUME IInv PROVE MethodsComplete
  <2>1. MetaInv /\ ObjectInv /\ TypeOK
    BY <1>1 DEF IInv
  <2>2. ASSUME NEW o \in Object, object[o].state = "held"
        PROVE  /\ object[o].vm \in VM /\ object[o].type \in Type
               /\ object[o].meta = identity(object[o].type)
               /\ Made(object[o].vm, object[o].type)
    BY <2>1, <2>2 DEF ObjectInv, Allocated, TypeOK
  <2> QED BY <2>1, <2>2 DEF MethodsComplete, MetaInv
<1> QED BY <1>1, Invariant, PTL

\* No userdata outlives its VM.
THEOREM ObjectsGoWithVM == ASSUME ~SharedNames PROVE Spec => []NothingOutlivesVM
<1>1. IInv => NothingOutlivesVM
  BY DEF IInv, ObjectInv, NothingOutlivesVM
<1> QED BY <1>1, Invariant, PTL

=============================================================================
