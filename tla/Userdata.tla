------------------------------- MODULE Userdata -------------------------------
(***************************************************************************)
(* Objects with methods (sdk/objects/userdata.hpp): Registry<T> of every   *)
(* type T, the metatables it makes in each VM and the life of the boxed    *)
(* objects.                                                                *)
(*                                                                         *)
(* Types are named by static initializers, before any VM is there.  A      *)
(* script may take a method from one object and apply it to any value, and *)
(* a destructor: ensure() sets no __metatable, so getmetatable(c).__gc is  *)
(* there to be called, on any object and any number of times.  Scripts do  *)
(* not assign to the fields of a metatable.  Garbage collection is         *)
(* external: it takes any object at any moment, and whatever is left when  *)
(* its VM is closed.                                                       *)
(***************************************************************************)
EXTENDS Naturals, Sequences, FiniteSets

CONSTANTS
  Type, NoType,
  Name, NoName,     \* the names that MTA_OBJECT declares
  Method,           \* method names; every registrar registers all of them
  VM, NoVM,
  Object,           \* bound: the userdata that are ever allocated
  SharedNames       \* two types may be declared under one name

\* What a script may pass that no Registry made: not a userdata at all, and a
\* userdata without a metatable.
Foreign == {"plain", "proxy"}

ASSUME UserdataAssumption ==
  /\ NoType \notin Type /\ NoName \notin Name
  /\ Name \cap Type = {} /\ NoName \notin Type
  /\ NoVM \notin VM /\ Object \cap Foreign = {}
  /\ SharedNames \in BOOLEAN

VARIABLES
  loaded,        \* the static initializers have run
  type_name_,    \* type -> its declared name
  registrar_,    \* the types whose registrar is set
  object_types,  \* the types that are listed, in registration order
  methods_,      \* type -> the methods recorded for tooling
  open,          \* the VMs there are
  metatable,     \* VM -> identity -> [gc, index]: luaL_newmetatable's table
  object,        \* the userdata
  gone,          \* history: the destructors the collector has run on each
  called,        \* history: the types whose destructor a script has run on each
  half,          \* history: where a registrar has thrown half-way: <<VM, type>>
  last           \* the last call of a method

vars == <<loaded, type_name_, registrar_, object_types, methods_, open, metatable, object,
          gone, called, half, last>>

staticVars == <<loaded, type_name_, registrar_, object_types>>
vmVars == <<open, metatable, object, gone, called, half>>

\* "mta.<module>.<name>", or the compiler's name of the type.
Identity == Name \cup Type
identity(t) == IF type_name_[t] # NoName THEN type_name_[t] ELSE t

\* A metatable: the type whose destructor is __gc, and for each method the type
\* whose trampoline __index holds.
Metatable == [gc : Type \cup {NoType}, index : [Method -> Type \cup {NoType}]]
Absent == [gc |-> NoType, index |-> [m \in Method |-> NoType]]

\* A userdata: free, held by the script, dropped from the stack before any script
\* saw it, or freed; whether its constructor has finished; its metatable's identity.
Userdata ==
  [state : {"none", "held", "dropped", "freed"}, vm : VM \cup {NoVM},
   type : Type \cup {NoType}, built : BOOLEAN, meta : Identity \cup {NoName}]

Allocated(o) == object[o].state \in {"held", "dropped"}
Held(v) == {o \in Object : object[o].state = "held" /\ object[o].vm = v}

Result == {"none", "ran", "bad argument", "not userdata", "no metatable", "other type"}

TypeOK ==
  /\ loaded \in BOOLEAN
  /\ type_name_ \in [Type -> Name \cup {NoName}]
  /\ registrar_ \subseteq Type
  /\ object_types \in Seq(Type)
  /\ methods_ \in [Type -> SUBSET Method]
  /\ open \subseteq VM
  /\ metatable \in [VM -> [Identity -> Metatable]]
  /\ object \in [Object -> Userdata]
  /\ gone \in [Object -> Seq(Type \cup {NoType})]
  /\ called \in [Object -> SUBSET Type]
  /\ half \subseteq VM \X Type
  /\ last \in [type : Type \cup {NoType}, self : Object \cup Foreign, result : Result]

Init ==
  /\ loaded = FALSE
  /\ type_name_ = [t \in Type |-> NoName]
  /\ registrar_ = {} /\ object_types = <<>>
  /\ methods_ = [t \in Type |-> {}]
  /\ open = {}
  /\ metatable = [v \in VM |-> [i \in Identity |-> Absent]]
  /\ object = [o \in Object |->
       [state |-> "none", vm |-> NoVM, type |-> NoType, built |-> FALSE, meta |-> NoName]]
  /\ gone = [o \in Object |-> <<>>]
  /\ called = [o \in Object |-> {}]
  /\ half = {}
  /\ last = [type |-> NoType, self |-> "plain", result |-> "none"]

-----------------------------------------------------------------------------
(* Static initializers: MTA_OBJECT and set_methods().                      *)

\* "The first call wins; later conflicting calls are ... ignored with a log."
set_type_name(t, n) ==
  /\ ~loaded
  /\ SharedNames \/ \A u \in Type \ {t} : type_name_[u] # n
  /\ \/ /\ type_name_[t] = NoName
        /\ type_name_' = [type_name_ EXCEPT ![t] = n]
        /\ object_types' = Append(object_types, t)
     \/ type_name_[t] # NoName /\ UNCHANGED <<type_name_, object_types>>
  /\ UNCHANGED <<loaded, registrar_, methods_, vmVars, last>>

set_methods(t) ==
  /\ ~loaded
  /\ registrar_' = registrar_ \cup {t}
  /\ UNCHANGED <<loaded, type_name_, object_types, methods_, vmVars, last>>

-----------------------------------------------------------------------------
(* VMs: one per running resource, and the scratch VM of tools/docgen.cpp.   *)

open_vm(v) ==
  /\ v \notin open
  /\ loaded' = TRUE /\ open' = open \cup {v}
  /\ UNCHANGED <<type_name_, registrar_, object_types, methods_, metatable, object, gone,
                 called, half, last>>

\* The collector runs the __gc of the object's metatable, if it has one: the
\* gc_metamethod of the type that made it.  It neither knows nor asks what scripts
\* have called.
gc_metamethod(o) ==
  IF object[o].meta = NoName THEN gone[o]
  ELSE Append(gone[o], metatable[object[o].vm][object[o].meta].gc)

collect(o) ==
  /\ Allocated(o)
  /\ gone' = [gone EXCEPT ![o] = gc_metamethod(o)]
  /\ object' = [object EXCEPT ![o].state = "freed"]
  /\ UNCHANGED <<staticVars, methods_, open, metatable, called, half, last>>

\* lua_close() runs the finalizers of everything that is left.
close_vm(v) ==
  /\ v \in open
  /\ LET Left == {o \in Object : Allocated(o) /\ object[o].vm = v} IN
       /\ gone' = [o \in Object |-> IF o \in Left THEN gc_metamethod(o) ELSE gone[o]]
       /\ object' = [o \in Object |->
            IF o \in Left THEN [object[o] EXCEPT !.state = "freed"] ELSE object[o]]
  /\ metatable' = [metatable EXCEPT ![v] = [i \in Identity |-> Absent]]
  /\ open' = open \ {v}
  /\ half' = half \ ({v} \X Type)
  /\ UNCHANGED <<staticVars, methods_, called, last>>

-----------------------------------------------------------------------------
(* The metatable of a type in a VM.                                        *)

Made(v, t) == metatable[v][identity(t)] # Absent

\* add_method() for each of ms: the trampolines go into __index.
add_method(index, t, ms) == [m \in Method |-> IF m \in ms THEN t ELSE index[m]]

\* ensure() when the registrar gets as far as ms: the metatable is there first, so
\* the calls of ensure() by add_method() return at once.
ensure_Once(v, t, ms) ==
  IF Made(v, t) THEN metatable
  ELSE [metatable EXCEPT ![v][identity(t)] =
          [gc |-> t,
           index |-> IF methods_[t] = {} THEN add_method(Absent.index, t, ms) ELSE Absent.index]]
ensure(v, t, ms) ==
  IF Made(v, t) THEN metatable
  ELSE [metatable EXCEPT ![v][identity(t)] =
          [gc |-> t, index |-> add_method(Absent.index, t, ms)]]

\* record_method(): deduplicated by name, whatever VM it is called for.
record_method(v, t, ms) ==
  IF Made(v, t) THEN methods_ ELSE [methods_ EXCEPT ![t] = @ \cup ms]

Registered(t) == IF t \in registrar_ THEN Method ELSE {}

\* ObjectTypeInfo::materialize, called by the docs generator.
materialize(v, t) ==
  /\ v \in open /\ \E i \in 1..Len(object_types) : object_types[i] = t
  /\ metatable' = ensure(v, t, Registered(t))
  /\ methods_' = record_method(v, t, Registered(t))
  /\ UNCHANGED <<staticVars, open, object, gone, called, half, last>>

\* A registrar that throws: what it has registered stays, and create() or
\* materialize() goes no further.
registrar_throws(v, t, ms) ==
  /\ v \in open
  /\ ~Made(v, t) /\ t \in registrar_ /\ ms # Method
  /\ metatable' = ensure(v, t, ms)
  /\ methods_' = record_method(v, t, ms)
  /\ half' = half \cup {<<v, t>>}
  /\ UNCHANGED <<staticVars, open, object, gone, called, last>>

-----------------------------------------------------------------------------
(* Objects.                                                                *)

Boxed(v, t) == [state |-> "held", vm |-> v, type |-> t, built |-> TRUE, meta |-> identity(t)]

\* "remove raw userdata before re-throwing": no metatable is set yet.
Raw_WithMetatable(v, t) ==
  [state |-> "dropped", vm |-> v, type |-> t, built |-> FALSE, meta |-> identity(t)]
Raw(v, t) == [state |-> "dropped", vm |-> v, type |-> t, built |-> FALSE, meta |-> NoName]

\* create(): the constructor returns or throws.
create(v, t, o) ==
  /\ v \in open /\ object[o].state = "none"
  /\ metatable' = ensure(v, t, Registered(t))
  /\ methods_' = record_method(v, t, Registered(t))
  /\ \E u \in {Boxed(v, t), Raw(v, t)} : object' = [object EXCEPT ![o] = u]
  /\ UNCHANGED <<staticVars, open, gone, called, half, last>>

\* The comparison of metatables in check().
matches_Any(o, t) == object[o].meta # NoName
matches(o, t) == object[o].meta = identity(t) /\ Made(object[o].vm, t)

\* check() of t on a value of the script; then the arguments are pulled, and the
\* method runs.
check(t, x) ==
  CASE x = "plain" -> {"not userdata"}
    [] x = "proxy" -> {"no metatable"}
    [] x \in Object -> IF matches(x, t) THEN {"ran", "bad argument"} ELSE {"other type"}

\* The trampoline of a method of t, found in some __index of the VM, applied to x.
call(v, t, x) ==
  /\ v \in open /\ x \in Held(v) \cup Foreign
  /\ \E i \in Identity, m \in Method : metatable[v][i].index[m] = t
  /\ \E result \in check(t, x) : last' = [type |-> t, self |-> x, result |-> result]
  /\ UNCHANGED <<staticVars, methods_, vmVars>>

\* __gc of t, found in some metatable of the VM, called by a script on the object x:
\* gc_metamethod() checks nothing, so ~T() runs on memory of any type, live or
\* destroyed.  Nothing records it: the script keeps x, methods still accept it, and
\* the collector will run its destructor as ever.  (On a value that no Registry has
\* made, and for what the second ~T() does, the code is undefined.)
call_gc(v, t, x) ==
  /\ v \in open /\ x \in Held(v)
  /\ \E i \in Identity : metatable[v][i].gc = t
  /\ called' = [called EXCEPT ![x] = @ \cup {t}]
  /\ UNCHANGED <<staticVars, methods_, open, metatable, object, gone, half, last>>

Next ==
  \/ \E t \in Type, n \in Name : set_type_name(t, n)
  \/ \E t \in Type : set_methods(t)
  \/ \E v \in VM : open_vm(v) \/ close_vm(v)
  \/ \E o \in Object : collect(o)
  \/ \E v \in VM, t \in Type :
       \/ materialize(v, t)
       \/ \E ms \in SUBSET Method : registrar_throws(v, t, ms)
       \/ \E o \in Object : create(v, t, o) \/ call_gc(v, t, o)
       \/ \E x \in Object \cup Foreign : call(v, t, x)

Spec == Init /\ [][Next]_vars

-----------------------------------------------------------------------------
(* Safety.                                                                 *)

\* A method runs on objects of its own type only, and is refused no object of its
\* own type, in whatever order types, VMs and metatables came: check() compares
\* metatables, never the C++ types.  (Nor does it ask whether a script has destroyed the
\* object: MethodsOnLiveObjects.)
OwnTypeOnly ==
  last.self \in Object =>
    /\ last.result \in {"ran", "bad argument"} <=> object[last.self].type = last.type
    /\ object[last.self].built

\* Whatever scripts have called: the collector runs the destructor of each object that
\* was constructed once, its own type's, when its memory goes, at the latest with its
\* VM; and memory whose constructor threw is destroyed by nobody, neither by the
\* collector nor through a __gc that a script has taken from another object.
FinalizedOnce ==
  \A o \in Object :
    /\ gone[o] = IF object[o].state = "freed" /\ object[o].built
                 THEN <<object[o].type>> ELSE <<>>
    /\ ~object[o].built => called[o] = {}

NothingOutlivesVM == \A o \in Object : Allocated(o) => object[o].vm \in open

\* An object in a script's hands has every method of its type, in every VM and
\* after every restart, unless the registrar has thrown in that VM before.
MethodsComplete ==
  \A o \in Object, m \in Method :
    /\ object[o].state = "held" /\ object[o].type \in registrar_
    /\ <<object[o].vm, object[o].type>> \notin half
    => metatable[object[o].vm][object[o].meta].index[m] = object[o].type

-----------------------------------------------------------------------------
(* What the documentation says and the code does not.                      *)

\* "c = nil -- __gc calls ~Counter()" (userdata.hpp:35; api.md:486): the destructor of an
\* object runs once, and it is its own.  A script that calls getmetatable(c).__gc(c)
\* has it run again when c is collected; __gc of another type runs the wrong one.
DestroyedOnce ==
  /\ FinalizedOnce
  /\ \A o \in Object :
       /\ called[o] \subseteq {object[o].type}
       /\ called[o] = {} \/ gone[o] = <<>>

\* "check(L, index) extracts T* from userdata with a type check" (GUIDES.md:256): a T
\* that is there.  A script's call of __gc may have destroyed it: check() compares
\* metatables, and these stay.
MethodsOnLiveObjects ==
  [][last' # last /\ last'.self \in Object /\ last'.result = "ran" =>
       called[last'.self] = {}]_vars

\* MethodsComplete without its exception: the metatable that a failed attempt has left
\* is never completed, and later create()s of that VM hand out its objects.
MethodsAlways ==
  \A o \in Object, m \in Method :
    object[o].state = "held" /\ object[o].type \in registrar_ =>
      metatable[object[o].vm][object[o].meta].index[m] = object[o].type

-----------------------------------------------------------------------------
(* The inductive invariant, when no two types share a name.                *)

\* Types have identities of their own.
NamesInv ==
  \A t, u \in Type : type_name_[t] # NoName /\ type_name_[t] = type_name_[u] => t = u

\* Nothing is made before the static initializers have run, or in a VM that is not
\* there; what is made under an identity is its type's.
MetaInv ==
  /\ ~loaded => open = {}
  /\ \A v \in VM \ open, i \in Identity : metatable[v][i] = Absent
  /\ \A v \in VM, t \in Type : Made(v, t) =>
       /\ metatable[v][identity(t)].gc = t
       /\ t \in registrar_ /\ <<v, t>> \notin half =>
            \A m \in Method : metatable[v][identity(t)].index[m] = t

ObjectInv ==
  \A o \in Object :
    /\ ~loaded => object[o].state = "none"
    /\ object[o].state = "none" => ~object[o].built
    /\ object[o].state = "held" => object[o].built
    /\ Allocated(o) =>
         /\ object[o].vm \in open /\ object[o].type \in Type
         /\ ~object[o].built => object[o].meta = NoName
         /\ object[o].built =>
              /\ object[o].meta = identity(object[o].type)
              /\ Made(object[o].vm, object[o].type)

LastInv ==
  last.self \in Object => object[last.self].state # "none" /\ last.type \in Type

IInv ==
  /\ TypeOK /\ NamesInv /\ MetaInv /\ ObjectInv /\ LastInv
  /\ OwnTypeOnly /\ FinalizedOnce

=============================================================================
