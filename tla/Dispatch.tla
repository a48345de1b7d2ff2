------------------------------- MODULE Dispatch -------------------------------
(***************************************************************************)
(* The typed binder (sdk/bind/bind.hpp): how a call from Lua finds the     *)
(* number of parameters to pass, reads them off the stack one by one, and  *)
(* calls the C++ function or reports an argument error.                    *)
(*                                                                         *)
(* A signature is what the templates see: the parameters' classes, and how *)
(* many of the last ones have a C++ default.  A Lua argument is what the   *)
(* reader of its parameter tells apart.  Any signature and any call are    *)
(* tried; the templates are pure, so the parameters of a run are its       *)
(* initial state.                                                          *)
(***************************************************************************)
EXTENDS Integers, Sequences, FiniteSets

CONSTANTS
  MaxArity,   \* bound: parameters of a function
  MaxArgs     \* bound: arguments of a call

ASSUME DispatchAssumption == MaxArity \in Nat /\ MaxArgs \in Nat

\* A scalar, Table or Callback; an Argument; std::optional; rest_args; context.
Parameter == {"typed", "any", "optional", "rest", "context"}

\* Of the declared type, nil, of another type.
LuaArgument == {"fits", "nil", "other"}

UpTo(S, n) == UNION {[1..k -> S] : k \in 0..n}

\* C++ wants defaults on every parameter after the first that has one, and the
\* binder wants rest_args last.
Signature ==
  {s \in [params : UpTo(Parameter, MaxArity), defaults : 0..MaxArity] :
     /\ s.defaults <= Len(s.params)
     /\ \A i \in 1..Len(s.params) : s.params[i] = "rest" => i = Len(s.params)}

VARIABLES
  signature, stack,   \* the function and the call
  step,               \* "dispatch", "pull", "called" or "error"
  count,              \* how many parameters are being read
  probing,            \* reading only to find the error
  given,              \* what the parameters read so far have received
  index,              \* next_index
  error               \* the argument error raised

dvars == <<signature, stack, step, count, probing, given, index, error>>

params == signature.params
arity == Len(params)
top == Len(stack)

\* is_required_param_v
Required_Optional(p) == p \in {"typed", "any", "optional"}
Required(p) == p \in {"typed", "any"}

\* required_counts
required_counts(j) == Cardinality({i \in 1..j : Required(params[i])})

\* prefix_invocable_v: the compiler fills in the rest from the defaults.
invocable(j) == j >= arity - signature.defaults

\* fill_argument_info(): what the metadata says of a parameter that takes one Lua
\* argument.
fill_argument_info_NilFits(p) ==
  [type |-> IF p = "any" THEN "any" ELSE "own", optional |-> p # "typed"]
fill_argument_info(p) ==
  [type |-> IF p = "any" THEN "any" ELSE "own", optional |-> p = "optional"]

\* signature_of<F>(): context is not part of it, rest_args is a flag.
listed == {i \in 1..arity : params[i] \notin {"context", "rest"}}
signature_of ==
  [arguments |-> [n \in 1..Cardinality(listed) |->
     fill_argument_info(params[CHOOSE i \in listed : Cardinality(listed \cap (1..i)) = n])],
   variadic |-> \E i \in 1..arity : params[i] = "rest"]

\* What a parameter is left with when Lua has nothing for it.
Absent == 0
NoError == [kind |-> "none", at |-> 0]

DTypeOK ==
  /\ signature \in Signature
  /\ stack \in UpTo(LuaArgument, MaxArgs)
  /\ step \in {"dispatch", "pull", "called", "error"}
  /\ count \in 0..arity /\ probing \in BOOLEAN
  /\ given \in UpTo(0..arity, count)
  /\ index \in 1..MaxArity + 1
  /\ error \in [kind : {"none", "missing", "type", "count"}, at : 0..MaxArity]

DInit ==
  /\ signature \in Signature
  /\ stack \in UpTo(LuaArgument, MaxArgs)
  /\ step = "dispatch" /\ count = 0 /\ probing = FALSE
  /\ given = <<>> /\ index = 1 /\ error = NoError

-----------------------------------------------------------------------------
Selectable(j) == invocable(j) /\ required_counts(j) <= top

\* The loop of dispatch() runs from the longest prefix down.
Preferred_Shortest(i, j) == i <= j
Preferred(i, j) == i >= j

\* holder::dispatch
dispatch ==
  /\ step = "dispatch"
  /\ \/ \E j \in 0..arity :
          /\ Selectable(j)
          /\ \A i \in 0..arity : Selectable(i) => Preferred(j, i)
          /\ count' = j /\ probing' = FALSE
     \/ /\ \A j \in 0..arity : ~Selectable(j)
        /\ count' = arity /\ probing' = TRUE
  /\ step' = "pull"
  /\ UNCHANGED <<signature, stack, given, index, error>>

\* lua_type at the next index.
Argument == IF index <= top THEN stack[index] ELSE "absent"

\* What pull_arg() makes of it: what the parameter receives, or an error.
Received(p) ==
  CASE p = "context" -> Absent
    [] p = "rest" -> index
    [] p = "optional" /\ Argument = "nil" -> Absent
    [] OTHER -> IF Argument = "absent" THEN Absent ELSE index

Refusal(p) ==
  CASE p = "typed" /\ Argument = "absent" -> "missing"
    [] p = "typed" /\ Argument \notin {"fits", "absent"} -> "type"
    [] p = "optional" /\ Argument = "other" -> "type"
    [] OTHER -> "none"

\* context takes no Lua argument.
Advance_Always(p) == 1
Advance(p) == IF p = "context" THEN 0 ELSE 1

\* pull_param, for the next parameter in order.
pull_param ==
  /\ step = "pull" /\ Len(given) < count
  /\ LET p == params[Len(given) + 1] IN
       \/ /\ Refusal(p) = "none"
          /\ given' = Append(given, Received(p))
          /\ index' = index + Advance(p)
          /\ UNCHANGED <<step, error>>
       \/ /\ Refusal(p) # "none"
          /\ step' = "error"
          /\ error' = [kind |-> Refusal(p), at |-> index]
          /\ UNCHANGED <<given, index>>
  /\ UNCHANGED <<signature, stack, count, probing>>

\* The end of invoke_prefix: the function is called.
invoke_prefix ==
  /\ step = "pull" /\ Len(given) = count /\ ~probing
  /\ step' = "called"
  /\ UNCHANGED <<signature, stack, count, probing, given, index, error>>

\* The end of error_probe: nothing was wrong with any single argument.
error_probe ==
  /\ step = "pull" /\ Len(given) = count /\ probing
  /\ step' = "error"
  /\ error' = [kind |-> "count", at |-> 0]
  /\ UNCHANGED <<signature, stack, count, probing, given, index>>

DNext == dispatch \/ pull_param \/ invoke_prefix \/ error_probe

DSpec == DInit /\ [][DNext]_dvars

-----------------------------------------------------------------------------
(* Properties.  The reference is the position of a parameter in the call.  *)

Position(i) == Cardinality({h \in 1..i : params[h] # "context"})
TakesLua(i) == params[i] # "context"

Given(i) == IF Position(i) <= top THEN stack[Position(i)] ELSE "absent"

\* What the documentation promises to accept for parameter i (api.md:101).
Accepts(i) ==
  CASE params[i] = "typed" -> Given(i) = "fits"
    [] params[i] = "any" -> Given(i) # "absent"
    [] params[i] = "optional" -> Given(i) # "other"
    [] OTHER -> TRUE

\* What parameter i is to receive: its own argument, unless there is none.
Due(i) ==
  IF ~TakesLua(i) \/ (params[i] # "rest" /\ Given(i) = "absent")
       \/ (params[i] = "optional" /\ Given(i) = "nil")
  THEN Absent ELSE Position(i)

Delivered(i) == given[i] = Due(i) /\ (Accepts(i) \/ params[i] = "any")

\* A function is called with what the script passed, each argument at its own
\* parameter whatever contexts and optionals stand before it, and never with an
\* argument of the wrong type.  (An Argument reads nothing as Type::None: the
\* count of required parameters lets it be absent behind an optional.)
CalledWithItsArguments ==
  step = "called" => \A i \in 1..count : Delivered(i)

\* No argument is silently lost to a default: what the script passes and the
\* signature has a parameter for reaches it.
NothingDropped ==
  step = "called" => \A i \in 1..arity :
    TakesLua(i) /\ Position(i) <= top => i <= count

\* "bad argument #N" names the first argument that is wrong, by its place in
\* the call and not in the signature.  "bad argument count" is the last resort:
\* nothing is wrong but that a value that could have had any type is missing.
ErrorNamesTheFault ==
  step = "error" =>
    IF error.kind = "count"
    THEN /\ \E i \in 1..arity : params[i] = "any" /\ Given(i) = "absent"
         /\ \A i \in 1..arity : params[i] # "any" => Accepts(i)
    ELSE \E i \in 1..arity :
           /\ Position(i) = error.at /\ TakesLua(i) /\ ~Accepts(i)
           /\ (error.kind = "missing") = (Given(i) = "absent")
           /\ \A h \in 1..i - 1 : params[h] # "any" => Accepts(h)

\* A script gives argument n of the metadata what the metadata asks for.
Follows(n) ==
  LET info == signature_of.arguments[n]
  IN \/ n <= top /\ stack[n] = "fits"
     \/ n <= top /\ info.type = "any"
     \/ info.optional /\ (n > top \/ stack[n] = "nil")

\* The published metadata (module_signature, the generated reference) is what the
\* dispatch does: a script that passes each listed argument its type, and leaves
\* out only what is marked optional, gets its call and every argument through.
SignatureIsHonest ==
  LET info == signature_of.arguments
  IN (\A n \in 1..Len(info) : Follows(n)) =>
       /\ step # "error"
       /\ step = "called" =>
            {given[i] : i \in {j \in 1..count : given[j] # Absent}} =
              {n \in 1..top : n <= Len(info) /\ (stack[n] # "nil" \/ info[n].type = "any")}
                \cup (IF signature_of.variadic THEN {Len(info) + 1} ELSE {})

\* "missing trailing arguments synthesize nullopt/empty rest values and the
\* compiler applies the defaults" (api.md:129): a call that gives every
\* parameter without a default what it accepts, and the others either that or
\* nothing, is no error.
DefaultsApply ==
  (\A i \in 1..arity : Accepts(i) \/ (i > arity - signature.defaults /\ Given(i) = "absent"))
    => step # "error"

-----------------------------------------------------------------------------
(* The inductive invariant.                                                *)

\* Reading keeps place: what has been read was delivered, and next_index is the
\* place behind it.
ReadInv ==
  /\ index = Position(Len(given)) + 1
  /\ \A i \in 1..Len(given) : Delivered(i)

\* The prefix is the longest that could be called, or none could and all is read.
ChosenInv ==
  CASE step = "dispatch" -> count = 0
    [] step # "dispatch" /\ probing -> count = arity /\ \A j \in 0..arity : ~Selectable(j)
    [] OTHER -> Selectable(count) /\ \A j \in count + 1..arity : ~Selectable(j)

\* A call is made when all is read, an error of a parameter when it is its turn.
FaultAt(i) ==
  /\ i <= count /\ TakesLua(i) /\ ~Accepts(i)
  /\ error.at = Position(i)
  /\ (error.kind = "missing") = (Given(i) = "absent")

EndInv ==
  /\ step = "called" => Len(given) = count /\ ~probing
  /\ step = "error" => IF error.kind = "count" THEN Len(given) = count /\ probing
                                               ELSE FaultAt(Len(given) + 1)

DInv == DTypeOK /\ ReadInv /\ ChosenInv /\ EndInv

=============================================================================
