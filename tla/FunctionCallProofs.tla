-------------------------- MODULE FunctionCallProofs --------------------------
(***************************************************************************)
(* Proofs about the three parts of a call of a module function: which      *)
(* function a name runs (Registration), for any translation units, macros, *)
(* names and VMs; how its parameters are found (Dispatch), for any         *)
(* signature and any call; and what log lines and errors are attributed to *)
(* meanwhile (DiagnosticContext), for any threads, functions, resources    *)
(* and ids at any depth of nesting.                                        *)
(*                                                                         *)
(* Registration: with a holder for each site, a holder keeps what its site *)
(* has put there, so that the holder of a Spec leads back to the Spec.     *)
(*                                                                         *)
(* Dispatch: next_index is the place of the next parameter, because every  *)
(* parameter but a context takes one place; the rest counts parameters of  *)
(* one kind or another in prefixes of the signature.                       *)
(*                                                                         *)
(* DiagnosticContext: where a longjmp unwinds the C++ stack, every scope   *)
(* has saved what the frame under it is attributed to.                     *)
(***************************************************************************)
EXTENDS Registration, Dispatch, DiagnosticContext, SequenceTheorems, FiniteSetTheorems, TLAPS

-----------------------------------------------------------------------------
(* Registration: the steps.                                                 *)

\* A new Spec goes behind the others.
LEMMA AppendFacts ==
  ASSUME NEW q \in Seq(Site), NEW x \in Site
  PROVE  /\ Append(q, x) \in Seq(Site) /\ Len(Append(q, x)) = Len(q) + 1
         /\ Append(q, x)[Len(q) + 1] = x
         /\ \A i \in 1..Len(q) : Append(q, x)[i] = q[i]
OBVIOUS

\* Next preserves the types.
LEMMA RegistrationTypes ==
  ASSUME RTypeOK, [RNext]_rvars
  PROVE  RTypeOK'
<1> USE DEF RTypeOK
<1>1. ASSUME NEW s \in Site, register_typed(s) PROVE RTypeOK'
  <2>1. /\ functions_' \in Seq(Site) /\ Len(functions_') = Len(functions_) + 1
    BY <1>1, AppendFacts DEF register_typed
  <2>2. \A v \in VM : walked'[v] \in 0..Len(functions_')
    BY <1>1, <2>1 DEF register_typed
  <2> QED BY <1>1, <2>1, <2>2 DEF register_typed
<1>2. ASSUME NEW v \in VM, register_next(v) PROVE RTypeOK'
  <2>1. functions_[walked[v] + 1] \in Site
    BY <1>2 DEF register_next
  <2>2. walked' \in [VM -> 0..Len(functions_)]
    BY <1>2 DEF register_next
  <2>3. globals' \in [VM -> [Name -> {holder(s) : s \in Site} \cup {None}]]
    BY <1>2, <2>1 DEF register_next
  <2> QED BY <1>2, <2>2, <2>3 DEF register_next
<1>3. ASSUME NEW v \in VM, close(v) PROVE RTypeOK'
  BY <1>3 DEF close, Unbound
<1>4. ASSUME UNCHANGED rvars PROVE RTypeOK'
  BY <1>4 DEF rvars
<1> QED BY <1>1, <1>2, <1>3, <1>4 DEF RNext

\* A holder is written by its own site only, when the site is listed.
LEMMA ListedStep ==
  ASSUME OwnHolders, RTypeOK, ListedInv, [RNext]_rvars
  PROVE  ListedInv' /\ Registered \subseteq Registered'
<1>1. ASSUME NEW s \in Site, register_typed(s)
      PROVE  ListedInv' /\ Registered \subseteq Registered'
  <2>1. /\ functions_ \in Seq(Site) /\ functions_' = Append(functions_, s)
        /\ s \notin Registered /\ stored' = [stored EXCEPT ![holder(s)] = s]
    BY <1>1 DEF register_typed, RTypeOK
  <2>2. Registered' = Registered \cup {s}
    BY <2>1, AppendFacts DEF Registered
  <2>3. \A i, j \in 1..Len(functions_') : functions_'[i] = functions_'[j] => i = j
    <3>1. ASSUME NEW i \in 1..Len(functions_'), NEW j \in 1..Len(functions_'),
                 functions_'[i] = functions_'[j]
          PROVE  i = j
      <4>1. CASE i \in 1..Len(functions_) /\ j \in 1..Len(functions_)
        BY <2>1, <3>1, <4>1, AppendFacts DEF ListedInv
      <4>2. CASE i = Len(functions_) + 1 \/ j = Len(functions_) + 1
        BY <2>1, <3>1, <4>2, AppendFacts DEF Registered
      <4>3. Len(functions_') = Len(functions_) + 1 /\ Len(functions_) \in Nat
        BY <2>1, AppendFacts
      <4> QED BY <4>1, <4>2, <4>3
    <3> QED BY <3>1
  <2>4. Registered \subseteq Site
    BY <2>1 DEF Registered
  <2>5. stored'[holder(s)] = s
    BY <2>1 DEF RTypeOK
  <2>6. \A t \in Registered : holder(t) # holder(s)
    BY <2>1, <2>4 DEF OwnHolders
  <2>7. \A t \in Registered : stored'[holder(t)] = t
    BY <2>1, <2>4, <2>6 DEF RTypeOK, ListedInv
  <2>8. \A t \in Registered' : stored'[holder(t)'] = t
    BY <2>2, <2>5, <2>7 DEF holder, Macro, Tag
  <2> QED BY <2>2, <2>3, <2>8 DEF ListedInv
<1>2. ASSUME UNCHANGED <<functions_, stored>>
      PROVE  ListedInv' /\ Registered \subseteq Registered'
  BY <1>2 DEF ListedInv, Registered
<1>3. ASSUME NEW v \in VM, register_next(v) \/ close(v) PROVE UNCHANGED <<functions_, stored>>
  BY <1>3 DEF register_next, close
<1>4. ASSUME UNCHANGED rvars PROVE UNCHANGED <<functions_, stored>>
  BY <1>4 DEF rvars
<1> QED BY <1>1, <1>2, <1>3, <1>4 DEF RNext

\* A name is bound by the turn of one of its own Specs.
LEMMA BoundStep ==
  ASSUME RTypeOK, BoundInv, [RNext]_rvars, Registered \subseteq Registered'
  PROVE  BoundInv'
<1>1. ASSUME NEW v \in VM, NEW n \in Name,
             globals'[v][n] # None => globals'[v][n] = globals[v][n]
      PROVE  globals'[v][n] # None =>
               \E s \in Registered' : globals'[v][n] = holder(s) /\ Macro(s).name = n
  BY <1>1 DEF BoundInv
<1>2. ASSUME NEW s \in Site, register_typed(s) PROVE BoundInv'
  BY <1>1, <1>2 DEF register_typed, BoundInv
<1>3. ASSUME NEW w \in VM, register_next(w) PROVE BoundInv'
  <2> DEFINE spec == functions_[walked[w] + 1]
  <2>1. spec \in Registered'
    BY <1>3 DEF register_next, RTypeOK, Registered
  <2>2. ASSUME NEW v \in VM, NEW n \in Name
        PROVE  \/ globals'[v][n] = globals[v][n]
               \/ n = Macro(spec).name /\ globals'[v][n] = holder(spec)
    BY <1>3 DEF register_next, RTypeOK
  <2> HIDE DEF spec
  <2> QED BY <1>1, <2>1, <2>2 DEF BoundInv
<1>4. ASSUME NEW w \in VM, close(w) PROVE BoundInv'
  <2>1. \A v \in VM, n \in Name : globals'[v][n] # None => globals'[v][n] = globals[v][n]
    BY <1>4 DEF close, Unbound, RTypeOK
  <2> QED BY <1>1, <2>1 DEF BoundInv
<1>5. ASSUME UNCHANGED rvars PROVE BoundInv'
  BY <1>1, <1>5 DEF rvars, BoundInv
<1> QED BY <1>2, <1>3, <1>4, <1>5 DEF RNext

-----------------------------------------------------------------------------
(* Registration: the theorems.                                              *)

\* The inductive invariant of the registry, its holders and the names.
THEOREM RegistrationInvariant == ASSUME OwnHolders PROVE RSpec => []RInv
<1>1. ASSUME RInit PROVE RInv
  <2>1. RTypeOK
    BY <1>1 DEF RInit, RTypeOK, Unbound
  <2>2. Registered = {}
    BY <1>1 DEF RInit, Registered
  <2>3. ListedInv
    BY <1>1, <2>2 DEF RInit, ListedInv
  <2>4. BoundInv
    BY <1>1 DEF RInit, Unbound, BoundInv
  <2> QED BY <2>1, <2>3, <2>4 DEF RInv
<1>2. ASSUME RInv, [RNext]_rvars PROVE RInv'
  BY <1>2, RegistrationTypes, ListedStep, BoundStep DEF RInv
<1> QED BY <1>1, <1>2, PTL DEF RSpec

\* With a holder for each site, a call of a name runs a function that was
\* registered under that name.
THEOREM NamesRunTheirFunctions == ASSUME OwnHolders PROVE RSpec => []NameRunsItsFunction
<1>1. RInv => NameRunsItsFunction
  BY DEF RInv, ListedInv, BoundInv, NameRunsItsFunction, Called
<1> QED BY <1>1, RegistrationInvariant, PTL

\* Closures have a type each: whatever the tags, their holders are their own.
THEOREM ClosuresOwnTheirHolders ==
  (\A s, t \in Site : Macro(s).type = Macro(t).type => s = t) => OwnHolders
BY DEF OwnHolders, holder

\* When each name has one site besides, module_signature() describes the function
\* that a call runs.
THEOREM SignaturesAreHonest ==
  ASSUME OwnHolders, OwnNames PROVE RSpec => []SignatureDescribesCallee
<1>1. ASSUME RInv PROVE SignatureDescribesCallee
  <2>1. SUFFICES ASSUME NEW v \in VM, NEW n \in Name, globals[v][n] # None
                 PROVE  module_signature(n) = Called(v, n)
    BY DEF SignatureDescribesCallee
  <2>2. PICK s \in Registered : globals[v][n] = holder(s) /\ Macro(s).name = n
    BY <1>1, <2>1 DEF RInv, BoundInv
  <2>3. Called(v, n) = s
    BY <1>1, <2>2 DEF RInv, ListedInv, Called
  <2>4. PICK i \in 1..Len(functions_) : functions_[i] = s
    BY <2>2 DEF Registered
  <2>5. \A j \in 1..Len(functions_) : Macro(functions_[j]).name = n => j = i
    <3>1. \A j \in 1..Len(functions_) : functions_[j] \in Site
      BY <1>1 DEF RInv, RTypeOK
    <3> QED BY <1>1, <2>2, <2>4, <3>1 DEF RInv, ListedInv, OwnNames
  <2>6. Len(functions_) \in Nat
    BY <1>1 DEF RInv, RTypeOK
  <2>7. \A j \in 1..i - 1 : Macro(functions_[j]).name # n
    BY <2>4, <2>5, <2>6
  <2>8. First(n) = i
    BY <2>2, <2>4, <2>5, <2>7 DEF First
  <2> QED BY <2>3, <2>4, <2>8 DEF module_signature
<1> QED BY <1>1, RegistrationInvariant, PTL

-----------------------------------------------------------------------------
(* Dispatch: counting in prefixes.                                          *)

\* A set of numbers has a least one.
LEMMA Least ==
  ASSUME NEW T \in SUBSET Nat, T # {}
  PROVE  \E m \in T : \A k \in T : m <= k
<1> DEFINE R == OpToRel(<, Nat)
<1>1. IsWellFoundedOn(R, Nat)
  BY NatLessThanWellFounded
<1>2. \A k, m \in Nat : <<k, m>> \in R <=> k < m
  BY DEF OpToRel
<1> HIDE DEF R
<1>3. PICK m \in T : \A k \in T : <<k, m>> \notin R
  BY <1>1, WFMin
<1>4. m \in Nat /\ \A k \in T : k \in Nat /\ ~(k < m)
  BY <1>2, <1>3
<1> QED BY <1>4

\* How many members of D are among the first k numbers.
Below(D, k) == Cardinality(D \cap (1..k))

\* It grows by one at each member.
LEMMA BelowStep ==
  ASSUME NEW D, NEW k \in Nat
  PROVE  /\ IsFiniteSet(D \cap (1..k)) /\ Below(D, k) \in Nat
         /\ Below(D, k) <= k /\ Below(D, 0) = 0
         /\ Below(D, k + 1) = IF k + 1 \in D THEN Below(D, k) + 1 ELSE Below(D, k)
<1>1. IsFiniteSet(1..k) /\ Cardinality(1..k) = k
  BY FS_Interval
<1>2. IsFiniteSet(D \cap (1..k)) /\ Cardinality(D \cap (1..k)) <= k
  BY <1>1, FS_Subset
<1>3. Cardinality(D \cap (1..k)) \in Nat
  BY <1>2, FS_CardinalityType
<1>4. D \cap (1..0) = {}
  OBVIOUS
<1>5. Below(D, 0) = 0
  BY <1>4, FS_EmptySet DEF Below
<1>6. CASE k + 1 \in D
  <2>1. D \cap (1..k + 1) = (D \cap (1..k)) \cup {k + 1}
    BY <1>6
  <2>2. k + 1 \notin D \cap (1..k)
    OBVIOUS
  <2> QED BY <1>2, <1>3, <1>5, <1>6, <2>1, <2>2, FS_AddElement DEF Below
<1>7. CASE k + 1 \notin D
  <2>1. D \cap (1..k + 1) = D \cap (1..k)
    BY <1>7
  <2> QED BY <1>2, <1>3, <1>5, <1>7, <2>1 DEF Below
<1> QED BY <1>6, <1>7

\* It never shrinks, and is larger behind a further member.
LEMMA BelowMonotone ==
  ASSUME NEW D, NEW i \in Nat, NEW j \in Nat, i <= j
  PROVE  /\ Below(D, i) <= Below(D, j)
         /\ i < j /\ j \in D => Below(D, i) < Below(D, j)
<1>1. ASSUME NEW k \in Nat, i <= k PROVE Below(D, i) <= Below(D, k)
  <2>1. D \cap (1..i) \subseteq D \cap (1..k)
    BY <1>1
  <2> QED BY <2>1, BelowStep, FS_Subset DEF Below
<1>2. CASE i < j /\ j \in D
  <2>1. j - 1 \in Nat /\ i <= j - 1 /\ (j - 1) + 1 = j
    BY <1>2
  <2>2. Below(D, (j - 1) + 1) = IF (j - 1) + 1 \in D THEN Below(D, j - 1) + 1 ELSE Below(D, j - 1)
    BY <2>1, BelowStep
  <2>3. Below(D, j - 1) \in Nat /\ Below(D, i) \in Nat
    BY <2>1, BelowStep
  <2> QED BY <1>1, <1>2, <2>1, <2>2, <2>3
<1> QED BY <1>1, <1>2

\* The n-th member is where the count comes to n.
LEMMA Nth ==
  ASSUME NEW D, NEW k \in Nat, NEW n \in 1..Below(D, k)
  PROVE  \E i \in D \cap (1..k) : Below(D, i) = n
<1> DEFINE T == {m \in Nat : n <= Below(D, m)}
<1>1. k \in T
  BY BelowStep
<1>2. PICK m \in T : \A l \in T : m <= l
  BY <1>1, Least
<1>3. Below(D, 0) = 0 /\ \A l \in Nat : Below(D, l) \in Nat
  BY BelowStep
<1>4. m \in Nat /\ n <= Below(D, m)
  BY <1>2
<1>5. m - 1 \in Nat /\ (m - 1) + 1 = m
  BY <1>3, <1>4
<1>6. m - 1 \notin T
  BY <1>2, <1>5
<1>7. Below(D, m - 1) < n
  BY <1>3, <1>5, <1>6
<1>8. Below(D, (m - 1) + 1) = IF (m - 1) + 1 \in D THEN Below(D, m - 1) + 1 ELSE Below(D, m - 1)
  BY <1>5, BelowStep
<1>9. m \in D /\ Below(D, m) = n
  BY <1>3, <1>4, <1>5, <1>7, <1>8
<1>10. m <= k
  BY <1>1, <1>2
<1> QED BY <1>4, <1>5, <1>9, <1>10

\* A larger set counts at least as much.
LEMMA BelowSubset ==
  ASSUME NEW E, NEW D \in SUBSET E, NEW k \in Nat
  PROVE  Below(D, k) <= Below(E, k)
<1>1. D \cap (1..k) \subseteq E \cap (1..k)
  OBVIOUS
<1> QED BY <1>1, BelowStep, FS_Subset DEF Below

-----------------------------------------------------------------------------
(* Dispatch: signatures and calls.                                          *)

LEMMA UpToSeq ==
  ASSUME NEW S, NEW n \in Nat, NEW s
  PROVE  s \in UpTo(S, n) <=> s \in Seq(S) /\ Len(s) <= n
<1>1. ASSUME s \in UpTo(S, n) PROVE s \in Seq(S) /\ Len(s) <= n
  <2>1. PICK k \in 0..n : s \in [1..k -> S]
    BY <1>1 DEF UpTo
  <2> QED BY <2>1, SeqDef
<1>2. ASSUME s \in Seq(S), Len(s) <= n PROVE s \in UpTo(S, n)
  <2>1. Len(s) \in 0..n /\ s \in [1..Len(s) -> S]
    BY <1>2, LenProperties
  <2> QED BY <2>1 DEF UpTo
<1> QED BY <1>1, <1>2

\* What the model knows of a signature and of a call.
LEMMA SignatureFacts ==
  ASSUME signature \in Signature
  PROVE  /\ arity \in 0..MaxArity /\ params \in Seq(Parameter)
         /\ signature.defaults \in 0..arity
         /\ \A i \in 1..arity : params[i] \in Parameter
         /\ \A i \in 1..arity : params[i] = "rest" => i = arity
<1>1. params \in UpTo(Parameter, MaxArity) /\ MaxArity \in Nat
  BY DispatchAssumption DEF Signature, params
<1>2. params \in Seq(Parameter) /\ Len(params) <= MaxArity
  BY <1>1, UpToSeq
<1>3. Len(params) \in Nat /\ \A i \in 1..Len(params) : params[i] \in Parameter
  BY <1>2
<1>4. /\ signature.defaults \in 0..MaxArity /\ signature.defaults <= Len(params)
      /\ \A i \in 1..Len(params) : params[i] = "rest" => i = Len(params)
  BY DEF Signature, params
<1> QED BY <1>1, <1>2, <1>3, <1>4 DEF arity

LEMMA StackFacts ==
  ASSUME stack \in UpTo(LuaArgument, MaxArgs)
  PROVE  top \in 0..MaxArgs /\ \A n \in 1..top : stack[n] \in LuaArgument
<1>1. stack \in Seq(LuaArgument) /\ Len(stack) <= MaxArgs
  BY UpToSeq, DispatchAssumption
<1> QED BY <1>1, DispatchAssumption DEF top

\* The parameters that take a place in the call, and those that must have one.
LuaPlaces == {i \in 1..arity : params[i] # "context"}
RequiredPlaces == {i \in 1..arity : Required(params[i])}

\* Each parameter but a context takes the next place, and those that are required
\* are among them.
LEMMA Places ==
  ASSUME signature \in Signature, NEW i \in 0..arity
  PROVE  /\ Position(i) = Below(LuaPlaces, i) /\ Position(i) \in 0..i
         /\ required_counts(i) = Below(RequiredPlaces, i)
         /\ required_counts(i) \in Nat /\ required_counts(i) <= Position(i)
         /\ Position(0) = 0
         /\ i > 0 => Position(i) = Position(i - 1) + Advance(params[i])
<1> USE SignatureFacts
<1>0. i \in Nat /\ i <= arity /\ arity \in Nat
  BY DispatchAssumption
<1>1. ASSUME NEW k \in 0..arity PROVE Position(k) = Below(LuaPlaces, k)
  <2>1. {h \in 1..k : params[h] # "context"} = LuaPlaces \cap (1..k)
    BY DEF LuaPlaces
  <2> QED BY <2>1 DEF Position, Below
<1>2. required_counts(i) = Below(RequiredPlaces, i)
  <2>1. {h \in 1..i : Required(params[h])} = RequiredPlaces \cap (1..i)
    BY DEF RequiredPlaces
  <2> QED BY <2>1 DEF required_counts, Below
<1>3. RequiredPlaces \subseteq LuaPlaces
  BY DEF RequiredPlaces, LuaPlaces, Required
<1>4. Below(RequiredPlaces, i) <= Below(LuaPlaces, i)
  BY <1>3, BelowSubset
<1>5. /\ Below(LuaPlaces, i) \in Nat /\ Below(LuaPlaces, i) <= i /\ Below(LuaPlaces, 0) = 0
      /\ Below(RequiredPlaces, i) \in Nat
  BY <1>0, BelowStep
<1>6. ASSUME i > 0 PROVE Position(i) = Position(i - 1) + Advance(params[i])
  <2>1. i - 1 \in Nat /\ i - 1 \in 0..arity /\ (i - 1) + 1 = i
    BY <1>0, <1>6
  <2>2. Below(LuaPlaces, (i - 1) + 1) =
          IF (i - 1) + 1 \in LuaPlaces THEN Below(LuaPlaces, i - 1) + 1
                                       ELSE Below(LuaPlaces, i - 1)
    BY <2>1, BelowStep
  <2>3. i \in LuaPlaces <=> params[i] # "context"
    BY <1>6 DEF LuaPlaces
  <2>4. Below(LuaPlaces, i - 1) \in Nat
    BY <2>1, BelowStep
  <2> QED BY <1>1, <2>1, <2>2, <2>3, <2>4 DEF Advance
<1> QED BY <1>1, <1>2, <1>4, <1>5, <1>6

-----------------------------------------------------------------------------
(* Dispatch: the steps.                                                     *)

\* The signature and the call stay as they are.
LEMMA Same ==
  ASSUME UNCHANGED <<signature, stack>>, NEW i
  PROVE  /\ arity' = arity /\ params' = params /\ top' = top
         /\ Position(i)' = Position(i) /\ Due(i)' = Due(i) /\ Given(i)' = Given(i)
         /\ TakesLua(i)' <=> TakesLua(i)
         /\ Accepts(i)' <=> Accepts(i)
         /\ Selectable(i)' <=> Selectable(i)
BY DEF arity, params, top, Position, Due, Given, TakesLua, Accepts, Selectable, invocable,
       required_counts, Required, Absent

\* Where next_index is the place behind the parameters before i, what pull_arg
\* sees is what the call gives parameter i.
LEMMA PullFacts ==
  ASSUME signature \in Signature, NEW i \in 1..arity, index = Position(i - 1) + 1
  PROVE  /\ index + Advance(params[i]) = Position(i) + 1
         /\ Received(params[i]) \in 0..arity
         /\ Refusal(params[i]) = "none" =>
              Received(params[i]) = Due(i) /\ (Accepts(i) \/ params[i] = "any")
         /\ Refusal(params[i]) # "none" =>
              /\ TakesLua(i) /\ ~Accepts(i) /\ index = Position(i)
              /\ Refusal(params[i]) \in {"missing", "type"}
              /\ (Refusal(params[i]) = "missing") = (Given(i) = "absent")
<1>1. /\ i \in 0..arity /\ i - 1 \in 0..arity /\ i > 0 /\ arity \in Nat
      /\ params[i] \in Parameter
  BY SignatureFacts, DispatchAssumption
<1>2. /\ Position(i) \in 0..i /\ Position(i - 1) \in 0..i - 1
      /\ Position(i) = Position(i - 1) + Advance(params[i])
  BY <1>1, Places
<1>3. index + Advance(params[i]) = Position(i) + 1
  BY <1>2 DEF Advance
<1>4. TakesLua(i) => index = Position(i) /\ Argument = Given(i)
  BY <1>2 DEF Advance, TakesLua, Argument, Given
<1>5. Received(params[i]) \in 0..arity
  BY <1>1, <1>2, <1>4 DEF Received, Absent, TakesLua
<1>6. ASSUME Refusal(params[i]) = "none"
      PROVE  Received(params[i]) = Due(i) /\ (Accepts(i) \/ params[i] = "any")
  BY <1>1, <1>4, <1>6 DEF Refusal, Received, Due, Accepts, TakesLua, Parameter
<1>7. ASSUME Refusal(params[i]) # "none"
      PROVE  /\ TakesLua(i) /\ ~Accepts(i)
             /\ Refusal(params[i]) \in {"missing", "type"}
             /\ (Refusal(params[i]) = "missing") = (Given(i) = "absent")
  <2>1. \/ params[i] = "typed" /\ Given(i) = "absent" /\ Refusal(params[i]) = "missing"
        \/ params[i] = "typed" /\ Given(i) \notin {"absent", "fits"} /\ Refusal(params[i]) = "type"
        \/ params[i] = "optional" /\ Given(i) = "other" /\ Refusal(params[i]) = "type"
    BY <1>1, <1>4, <1>7 DEF Refusal, TakesLua, Parameter
  <2>2. TakesLua(i) /\ ~Accepts(i)
    BY <2>1 DEF Accepts, TakesLua
  <2>3. (Refusal(params[i]) = "missing") = (Given(i) = "absent")
    BY <2>1
  <2> QED BY <2>1, <2>2, <2>3
<1> QED BY <1>3, <1>4, <1>5, <1>6, <1>7

\* dispatch chooses a prefix and reads nothing.
LEMMA DispatchStep ==
  ASSUME DInv, dispatch
  PROVE  DInv'
<1>1. /\ signature \in Signature /\ stack \in UpTo(LuaArgument, MaxArgs)
      /\ UNCHANGED <<signature, stack, given, index, error>> /\ step' = "pull"
      /\ count = 0 /\ given \in UpTo(0..arity, count)
  BY DEF DInv, DTypeOK, ChosenInv, dispatch
<1>2. arity \in Nat /\ top \in Nat
  BY <1>1, SignatureFacts, StackFacts, DispatchAssumption
<1>3. arity' = arity /\ \A i : (Delivered(i)' <=> Delivered(i)) /\ (Selectable(i)' <=> Selectable(i))
  BY <1>1, Same DEF Delivered
<1>4. given \in Seq(0..arity) /\ Len(given) = 0
  BY <1>1, UpToSeq
<1>5. count' \in 0..arity /\ probing' \in BOOLEAN
  <2>1. count' \in 0..arity
    BY <1>2 DEF dispatch
  <2>2. probing' \in BOOLEAN
    BY Zenon DEF dispatch
  <2> QED BY <2>1, <2>2
<1>6. given' \in UpTo(0..arity, count')
  BY <1>1, <1>4, <1>5, UpToSeq
<1>7. DTypeOK'
  BY <1>1, <1>3, <1>5, <1>6 DEF DInv, DTypeOK
<1>8. ReadInv'
  BY <1>1, <1>3, <1>4, Same DEF DInv, ReadInv
<1>9. ChosenInv'
  BY <1>1, <1>2, <1>3, Same DEF dispatch, ChosenInv, Preferred
<1>10. EndInv'
  BY <1>1 DEF EndInv
<1> QED BY <1>7, <1>8, <1>9, <1>10 DEF DInv

\* pull_param reads the next parameter at its place, or raises its error.
LEMMA PullStep ==
  ASSUME DInv, pull_param
  PROVE  DInv'
<1>0. PICK i : i = Len(given) + 1
  OBVIOUS
<1> DEFINE p == params[i]
<1>1. /\ signature \in Signature /\ stack \in UpTo(LuaArgument, MaxArgs)
      /\ UNCHANGED <<signature, stack, count, probing>>
      /\ step = "pull" /\ given \in UpTo(0..arity, count) /\ count \in 0..arity
  BY DEF DInv, DTypeOK, pull_param
<1>2. arity \in Nat /\ top \in Nat /\ arity <= MaxArity
  BY <1>1, SignatureFacts, StackFacts, DispatchAssumption
<1>3. given \in Seq(0..arity) /\ Len(given) \in Nat /\ i <= count
  BY <1>0, <1>1, <1>2, UpToSeq DEF pull_param
<1>4. i \in 1..arity /\ i - 1 = Len(given)
  BY <1>0, <1>1, <1>2, <1>3
<1>5. index = Position(i - 1) + 1
  BY <1>4 DEF DInv, ReadInv
<1> DEFINE Pulled ==
             /\ index + Advance(p) = Position(i) + 1
             /\ Received(p) \in 0..arity
             /\ Refusal(p) = "none" => Received(p) = Due(i) /\ (Accepts(i) \/ params[i] = "any")
             /\ Refusal(p) # "none" =>
                  /\ TakesLua(i) /\ ~Accepts(i) /\ index = Position(i)
                  /\ Refusal(p) \in {"missing", "type"}
                  /\ (Refusal(p) = "missing") = (Given(i) = "absent")
<1>6. Pulled
  BY <1>1, <1>4, <1>5, PullFacts
<1>7. Position(i) \in 0..i
  <2>1. i \in 0..arity
    BY <1>2, <1>4
  <2> QED BY <1>1, <2>1, Places
<1>8. arity' = arity /\ params' = params
      /\ \A k : /\ Position(k)' = Position(k) /\ Due(k)' = Due(k) /\ Given(k)' = Given(k)
                /\ (TakesLua(k)' <=> TakesLua(k)) /\ (Accepts(k)' <=> Accepts(k))
                /\ (Selectable(k)' <=> Selectable(k))
  BY <1>1, Same
<1>9. ChosenInv' <=> (step' = "dispatch" /\ count = 0) \/ (step' # "dispatch" /\ ChosenInv)
  BY <1>1, <1>8 DEF ChosenInv
<1>10. CASE Refusal(p) = "none"
  <2> HIDE DEF p
  <2>1. given' = Append(given, Received(p)) /\ index' = index + Advance(p)
        /\ UNCHANGED <<step, error>>
    BY <1>0, <1>10 DEF pull_param, p
  <2>2. Received(p) \in 0..arity
    BY <1>6
  <2>3. /\ given' \in Seq(0..arity) /\ Len(given') = i
        /\ given'[i] = Received(p) /\ \A k \in 1..i - 1 : given'[k] = given[k]
    BY <1>0, <1>3, <2>1, <2>2
  <2>4. DTypeOK'
    <3>1. given' \in UpTo(0..arity, count)
      BY <1>1, <1>2, <1>3, <2>3, UpToSeq
    <3>2. index' \in 1..MaxArity + 1
      BY <1>2, <1>4, <1>6, <1>7, <2>1, DispatchAssumption
    <3> QED BY <1>1, <1>8, <2>1, <3>1, <3>2 DEF DInv, DTypeOK
  <2>5. ReadInv'
    <3>1. \A k \in 1..i - 1 : Delivered(k)
      BY <1>4 DEF DInv, ReadInv
    <3>2. ASSUME NEW k \in 1..i PROVE Delivered(k)'
      <4>1. CASE k = i
        BY <1>6, <1>8, <1>10, <2>3, <4>1 DEF Delivered, p
      <4>2. CASE k # i
        <5>1. k \in 1..i - 1
          BY <1>4, <4>2
        <5> QED BY <1>8, <2>3, <3>1, <5>1 DEF Delivered
      <4> QED BY <4>1, <4>2
    <3>3. index' = Position(i) + 1
      BY <1>6, <2>1
    <3>4. Position(Len(given))' = Position(i)
      BY <1>8, <2>3 DEF Position
    <3> QED BY <2>3, <3>2, <3>3, <3>4 DEF ReadInv
  <2>6. ChosenInv'
    BY <1>1, <1>9, <2>1 DEF DInv
  <2>7. EndInv'
    BY <1>1, <2>1 DEF EndInv
  <2> QED BY <2>4, <2>5, <2>6, <2>7 DEF DInv
<1>11. CASE Refusal(p) # "none"
  <2> HIDE DEF p
  <2>1. UNCHANGED <<given, index>> /\ step' = "error" /\ error' = [kind |-> Refusal(p), at |-> index]
    BY <1>0, <1>11 DEF pull_param, p
  <2>2. DTypeOK'
    <3>1. index \in 0..MaxArity
      BY <1>2, <1>4, <1>6, <1>7, <1>11, DispatchAssumption
    <3>2. error' \in [kind : {"none", "missing", "type", "count"}, at : 0..MaxArity]
      BY <1>6, <1>11, <2>1, <3>1
    <3> QED BY <1>1, <1>8, <2>1, <3>2 DEF DInv, DTypeOK
  <2>3. ReadInv'
    BY <1>8, <2>1 DEF DInv, ReadInv, Delivered
  <2>4. ChosenInv'
    BY <1>1, <1>9, <2>1 DEF DInv
  <2>5. EndInv'
    <3>1. FaultAt(i)'
      BY <1>1, <1>3, <1>6, <1>8, <1>11, <2>1 DEF FaultAt
    <3>2. error'.kind # "count"
      BY <1>6, <1>11, <2>1
    <3> QED BY <1>0, <2>1, <3>1, <3>2 DEF EndInv
  <2> QED BY <2>2, <2>3, <2>4, <2>5 DEF DInv
<1> QED BY <1>10, <1>11

\* The two ends change nothing that has been read.
LEMMA EndStep ==
  ASSUME DInv, invoke_prefix \/ error_probe
  PROVE  DInv'
<1>1. /\ UNCHANGED <<signature, stack, count, probing, given, index>>
      /\ step = "pull" /\ step' \in {"called", "error"} /\ Len(given) = count
      /\ step' = "called" => ~probing /\ UNCHANGED error
      /\ step' = "error" => probing /\ error' = [kind |-> "count", at |-> 0]
  BY DEF invoke_prefix, error_probe
<1>2. arity' = arity /\ \A i : /\ Position(i)' = Position(i) /\ (Delivered(i)' <=> Delivered(i))
                              /\ (Selectable(i)' <=> Selectable(i))
  BY <1>1, Same DEF Delivered
<1>3. DTypeOK'
  BY <1>1, <1>2, DispatchAssumption DEF DInv, DTypeOK
<1>4. ReadInv'
  BY <1>1, <1>2 DEF DInv, ReadInv
<1>5. ChosenInv'
  BY <1>1, <1>2 DEF DInv, ChosenInv
<1>6. EndInv'
  BY <1>1 DEF EndInv
<1> QED BY <1>3, <1>4, <1>5, <1>6 DEF DInv

LEMMA StutterStep ==
  ASSUME DInv, UNCHANGED dvars
  PROVE  DInv'
<1>1. UNCHANGED <<signature, stack>> /\ UNCHANGED <<step, count, probing, given, index, error>>
  BY DEF dvars
<1>2. arity' = arity /\ \A i : /\ Position(i)' = Position(i) /\ (Delivered(i)' <=> Delivered(i))
                              /\ (Selectable(i)' <=> Selectable(i)) /\ (FaultAt(i)' <=> FaultAt(i))
  BY <1>1, Same DEF Delivered, FaultAt
<1> QED BY <1>1, <1>2 DEF DInv, DTypeOK, ReadInv, ChosenInv, EndInv

-----------------------------------------------------------------------------
(* Dispatch: the theorems.                                                  *)

\* The inductive invariant of a call, whatever the signature and the arguments.
THEOREM DispatchInvariant == DSpec => []DInv
<1>1. ASSUME DInit PROVE DInv
  <2>1. /\ signature \in Signature /\ stack \in UpTo(LuaArgument, MaxArgs)
        /\ step = "dispatch" /\ count = 0 /\ given = <<>> /\ index = 1
        /\ error = [kind |-> "none", at |-> 0]
    BY <1>1 DEF DInit, NoError
  <2>2. arity \in Nat
    BY <2>1, SignatureFacts, DispatchAssumption
  <2>3. Len(given) = 0 /\ given \in UpTo(0..arity, count)
    <3>1. given \in Seq(0..arity) /\ Len(given) = 0 /\ 0 \in Nat /\ Len(given) <= 0
      BY <2>1, EmptySeq
    <3>2. given \in UpTo(0..arity, 0)
      BY <3>1, UpToSeq
    <3> QED BY <2>1, <3>1, <3>2
  <2>4. probing \in BOOLEAN
    BY <1>1, Zenon DEF DInit
  <2>5. DTypeOK
    BY <2>1, <2>2, <2>3, <2>4, DispatchAssumption DEF DTypeOK
  <2>6. ReadInv
    <3>1. Position(0) = 0
      BY <2>1, <2>2, Places
    <3> QED BY <2>1, <2>3, <3>1 DEF ReadInv
  <2> QED BY <2>1, <2>5, <2>6 DEF DInv, ChosenInv, EndInv
<1>2. ASSUME DInv, [DNext]_dvars PROVE DInv'
  BY <1>2, DispatchStep, PullStep, EndStep, StutterStep DEF DNext
<1> QED BY <1>1, <1>2, PTL DEF DSpec

\* The types of the variables, for every signature and call.
THEOREM DispatchTypes == DSpec => []DTypeOK
<1>1. DInv => DTypeOK
  BY DEF DInv
<1> QED BY <1>1, DispatchInvariant, PTL

\* A function that is called has, at every parameter that was read, the argument
\* that stands at the parameter's place.
THEOREM ArgumentsReachParameters == DSpec => []CalledWithItsArguments
<1>1. DInv => CalledWithItsArguments
  BY DEF DInv, EndInv, ReadInv, CalledWithItsArguments
<1> QED BY <1>1, DispatchInvariant, PTL

\* Where every required parameter has an argument, the whole signature can be
\* called: the last required one is at no earlier place than their number.
LEMMA FullPrefix ==
  ASSUME signature \in Signature, stack \in UpTo(LuaArgument, MaxArgs),
         \A i \in 1..arity : Required(params[i]) => Position(i) <= top
  PROVE  Selectable(arity)
<1>1. arity \in Nat /\ top \in Nat /\ signature.defaults \in 0..arity
  BY SignatureFacts, StackFacts, DispatchAssumption
<1>2. invocable(arity)
  BY <1>1 DEF invocable
<1>3. required_counts(arity) = Below(RequiredPlaces, arity) /\ required_counts(arity) \in Nat
  BY <1>1, Places
<1>4. CASE required_counts(arity) # 0
  <2>1. required_counts(arity) \in 1..Below(RequiredPlaces, arity)
    BY <1>3, <1>4
  <2>2. PICK i \in RequiredPlaces \cap (1..arity) : Below(RequiredPlaces, i) = required_counts(arity)
    BY <1>1, <2>1, Nth
  <2>3. i \in 0..arity /\ Required(params[i])
    BY <1>1, <2>2 DEF RequiredPlaces
  <2>4. required_counts(arity) <= Position(i) /\ Position(i) <= top /\ Position(i) \in 0..i
    BY <2>2, <2>3, Places
  <2> QED BY <1>1, <1>2, <1>3, <2>4 DEF Selectable
<1>5. CASE required_counts(arity) = 0
  BY <1>1, <1>2, <1>5 DEF Selectable
<1> QED BY <1>4, <1>5

\* No argument that has a parameter is lost to a default: the prefix that ends with
\* that parameter could be called, so the one that is called is no shorter.
THEOREM NothingIsDropped == DSpec => []NothingDropped
<1>1. ASSUME DInv, step = "called", NEW i \in 1..arity, Position(i) <= top, i > count PROVE FALSE
  <2>1. /\ signature \in Signature /\ stack \in UpTo(LuaArgument, MaxArgs) /\ count \in 0..arity
        /\ Selectable(count) /\ \A j \in count + 1..arity : ~Selectable(j)
    BY <1>1 DEF DInv, DTypeOK, ChosenInv, EndInv
  <2>2. arity \in Nat /\ top \in Nat /\ signature.defaults \in 0..arity /\ i \in 0..arity
    BY <2>1, SignatureFacts, StackFacts, DispatchAssumption
  <2>3. required_counts(i) <= Position(i) /\ required_counts(i) \in Nat /\ Position(i) \in 0..i
    BY <2>1, <2>2, Places
  <2>4. Selectable(i)
    BY <1>1, <2>1, <2>2, <2>3 DEF Selectable, invocable
  <2> QED BY <1>1, <2>1, <2>2, <2>4
<1>2. ASSUME DInv PROVE NothingDropped
  <2>1. count \in 0..arity /\ arity \in Nat
    BY <1>2, SignatureFacts, DispatchAssumption DEF DInv, DTypeOK
  <2>2. ASSUME NEW i \in 1..arity, step = "called", Position(i) <= top PROVE i <= count
    BY <1>1, <1>2, <2>1, <2>2
  <2> QED BY <2>2 DEF NothingDropped
<1> QED BY <1>2, DispatchInvariant, PTL

\* An error names the first argument that is wrong; that the count is wrong is said
\* only where a value of any type is missing and nothing else is the matter.
LEMMA ErrorsAreRight == DInv => ErrorNamesTheFault
<1>1. SUFFICES ASSUME DInv, step = "error" PROVE ErrorNamesTheFault
  BY DEF ErrorNamesTheFault
<1>2. /\ signature \in Signature /\ stack \in UpTo(LuaArgument, MaxArgs)
      /\ given \in UpTo(0..arity, count) /\ count \in 0..arity
  BY <1>1 DEF DInv, DTypeOK
<1>3. arity \in Nat /\ top \in Nat /\ \A i \in 1..arity : params[i] \in Parameter
  BY <1>2, SignatureFacts, StackFacts, DispatchAssumption
<1>4. Len(given) \in Nat /\ Len(given) <= count
  BY <1>2, <1>3, UpToSeq
<1>5. \A i \in 1..Len(given) : params[i] # "any" => Accepts(i)
  BY <1>1 DEF DInv, ReadInv, Delivered
<1>6. CASE error.kind = "count"
  <2>1. Len(given) = arity /\ ~Selectable(arity)
    BY <1>1, <1>3, <1>6 DEF DInv, ChosenInv, EndInv
  <2>2. \A i \in 1..arity : params[i] # "any" => Accepts(i)
    BY <1>5, <2>1
  <2>3. PICK i \in 1..arity : Required(params[i]) /\ ~(Position(i) <= top)
    BY <1>2, <2>1, FullPrefix
  <2>4. Given(i) = "absent"
    BY <2>3 DEF Given
  <2>5. params[i] = "any"
    BY <2>2, <2>3, <2>4 DEF Required, Accepts
  <2> QED BY <1>6, <2>2, <2>4, <2>5 DEF ErrorNamesTheFault
<1>7. CASE error.kind # "count"
  <2>1. PICK i : i = Len(given) + 1
    OBVIOUS
  <2>2. /\ i <= count /\ TakesLua(i) /\ ~Accepts(i) /\ error.at = Position(i)
        /\ (error.kind = "missing") = (Given(i) = "absent")
    BY <1>1, <1>7, <2>1 DEF DInv, EndInv, FaultAt
  <2>3. i \in 1..arity /\ i - 1 = Len(given)
    BY <1>2, <1>3, <1>4, <2>1, <2>2
  <2> QED BY <1>5, <1>7, <2>2, <2>3 DEF ErrorNamesTheFault
<1> QED BY <1>6, <1>7

THEOREM ErrorsNameTheFault == DSpec => []ErrorNamesTheFault
BY ErrorsAreRight, DispatchInvariant, PTL

\* In the metadata, the parameter at place n is argument n, and a rest stands behind.
LEMMA Metadata ==
  ASSUME signature \in Signature
  PROVE  /\ Cardinality(listed) \in Nat
         /\ DOMAIN signature_of.arguments = 1..Cardinality(listed)
         /\ Len(signature_of.arguments) = Cardinality(listed)
         /\ \A i \in listed : /\ Position(i) \in 1..Cardinality(listed)
                              /\ signature_of.arguments[Position(i)] = fill_argument_info(params[i])
         /\ \A n \in 1..Cardinality(listed) : \E i \in listed : Position(i) = n
         /\ \A i \in 1..arity : params[i] = "rest" => Position(i) = Cardinality(listed) + 1
<1> DEFINE L == Cardinality(listed)
<1>1. arity \in Nat /\ \A i \in 1..arity : params[i] = "rest" => i = arity
  BY SignatureFacts, DispatchAssumption
<1>2. listed \cap (1..arity) = listed
  BY DEF listed
<1>3. L = Below(listed, arity) /\ L \in Nat
  BY <1>1, <1>2, BelowStep DEF Below
<1>4. ASSUME NEW i \in 0..arity, i = 0 \/ params[i] # "rest" PROVE Position(i) = Below(listed, i)
  <2>1. \A h \in 1..i : params[h] # "rest"
    BY <1>1, <1>4
  <2>2. listed \cap (1..i) = LuaPlaces \cap (1..i)
    BY <1>1, <2>1 DEF listed, LuaPlaces
  <2>3. Position(i) = Below(LuaPlaces, i)
    BY Places
  <2> QED BY <2>2, <2>3 DEF Below
<1>5. ASSUME NEW i \in listed
      PROVE  i \in 1..arity /\ Position(i) = Below(listed, i) /\ Position(i) \in 1..L
  <2>1. i \in 1..arity /\ i \in 0..arity /\ params[i] # "rest" /\ i - 1 \in Nat
    BY <1>1 DEF listed
  <2>2. Position(i) = Below(listed, i)
    BY <1>4, <2>1
  <2>3. i \in Nat /\ 0 \in Nat /\ 0 <= i /\ 0 < i /\ i <= arity
    BY <1>1, <2>1
  <2>4. Below(listed, 0) = 0 /\ Below(listed, i) \in Nat
    BY <2>3, BelowStep
  <2>5. Below(listed, 0) < Below(listed, i)
    BY <2>3, BelowMonotone
  <2>6. Below(listed, i) <= Below(listed, arity)
    BY <1>1, <2>3, BelowMonotone
  <2> QED BY <1>3, <2>1, <2>2, <2>4, <2>5, <2>6
<1>6. ASSUME NEW i \in listed, NEW h \in listed, Below(listed, h) = Below(listed, i) PROVE h = i
  <2>1. i \in Nat /\ h \in Nat
    BY <1>5
  <2>2. /\ h < i => Below(listed, h) < Below(listed, i)
        /\ i < h => Below(listed, i) < Below(listed, h)
    BY <2>1, BelowMonotone
  <2>3. Below(listed, i) \in Nat
    BY <2>1, BelowStep
  <2> QED BY <1>6, <2>1, <2>2, <2>3
<1>7. signature_of.arguments =
        [n \in 1..L |-> fill_argument_info(params[CHOOSE i \in listed : Below(listed, i) = n])]
  BY DEF signature_of, Below
<1>8. ASSUME NEW i \in listed
      PROVE  signature_of.arguments[Position(i)] = fill_argument_info(params[i])
  <2>1. (CHOOSE h \in listed : Below(listed, h) = Position(i)) = i
    BY <1>5, <1>6
  <2> HIDE DEF L
  <2> QED BY <1>5, <1>7, <2>1
<1>9. ASSUME NEW n \in 1..L PROVE \E i \in listed : Position(i) = n
  <2>1. PICK i \in listed \cap (1..arity) : Below(listed, i) = n
    BY <1>1, <1>3, Nth
  <2> QED BY <1>5, <2>1
<1>10. ASSUME NEW i \in 1..arity, params[i] = "rest" PROVE Position(i) = L + 1
  <2>1. i = arity /\ i \in 0..arity /\ i > 0 /\ i - 1 \in 0..arity /\ i - 1 \in Nat /\ (i - 1) + 1 = i
    BY <1>1, <1>10
  <2>2. i - 1 = 0 \/ params[i - 1] # "rest"
    BY <1>1, <2>1
  <2>3. Position(i - 1) = Below(listed, i - 1)
    BY <1>4, <2>1, <2>2
  <2>4. Below(listed, (i - 1) + 1) =
          IF (i - 1) + 1 \in listed THEN Below(listed, i - 1) + 1 ELSE Below(listed, i - 1)
    BY <2>1, BelowStep
  <2>5. i \notin listed
    BY <1>10 DEF listed
  <2>6. Position(i) = Position(i - 1) + Advance(params[i])
    BY <2>1, Places
  <2> QED BY <1>3, <1>10, <2>1, <2>3, <2>4, <2>5, <2>6 DEF Advance
<1>11. DOMAIN signature_of.arguments = 1..L /\ Len(signature_of.arguments) = L
  BY <1>3, <1>7
<1> QED BY <1>3, <1>5, <1>8, <1>9, <1>10, <1>11

\* The metadata of a parameter by the parameter's class.
LEMMA InfoFacts ==
  ASSUME NEW p
  PROVE  /\ fill_argument_info(p).type = "any" <=> p = "any"
         /\ fill_argument_info(p).optional <=> p = "optional"
<1>1. fill_argument_info(p).optional = (p = "optional")
  BY Zenon DEF fill_argument_info
<1>2. fill_argument_info(p).type = IF p = "any" THEN "any" ELSE "own"
  BY DEF fill_argument_info
<1> QED BY <1>1, <1>2

\* A script that follows the metadata gives each parameter what it accepts.
LEMMA FollowingIsAccepted ==
  ASSUME signature \in Signature, stack \in UpTo(LuaArgument, MaxArgs),
         \A n \in 1..Len(signature_of.arguments) : Follows(n),
         NEW i \in 1..arity
  PROVE  Accepts(i) /\ (Required(params[i]) => Position(i) <= top)
<1>1. arity \in Nat /\ top \in Nat /\ params[i] \in Parameter
  BY SignatureFacts, StackFacts, DispatchAssumption
<1>2. CASE i \in listed
  <2>1. /\ Position(i) \in 1..Len(signature_of.arguments)
        /\ signature_of.arguments[Position(i)] = fill_argument_info(params[i])
    BY <1>2, Metadata
  <2>2. Follows(Position(i))
    BY <2>1
  <2>3. \/ Position(i) <= top /\ stack[Position(i)] = "fits"
        \/ Position(i) <= top /\ params[i] = "any"
        \/ params[i] = "optional" /\ (Position(i) > top \/ stack[Position(i)] = "nil")
    BY <2>1, <2>2, InfoFacts DEF Follows
  <2>4. Position(i) <= top => stack[Position(i)] \in LuaArgument
    BY <2>1, StackFacts, Metadata
  <2>5. Position(i) \in Nat
    BY <2>1, Metadata
  <2> QED BY <1>1, <2>3, <2>4, <2>5 DEF Accepts, Given, Required, LuaArgument
<1>3. CASE i \notin listed
  BY <1>3 DEF listed, Accepts, Required
<1> QED BY <1>2, <1>3

\* A call that follows the metadata is made with every parameter read, so that each
\* argument of the call that is listed and not left out is found at its parameter.
LEMMA FollowingIsCalled ==
  ASSUME DInv, \A n \in 1..Len(signature_of.arguments) : Follows(n), step = "called"
  PROVE  {given[i] : i \in {j \in 1..count : given[j] # Absent}} =
           {n \in 1..top : n <= Len(signature_of.arguments)
                             /\ (stack[n] # "nil" \/ signature_of.arguments[n].type = "any")}
             \cup (IF signature_of.variadic THEN {Len(signature_of.arguments) + 1} ELSE {})
<1> DEFINE info == signature_of.arguments
           L == Cardinality(listed)
           Got == {given[i] : i \in {j \in 1..count : given[j] # Absent}}
           Passed == {n \in 1..top : n <= L /\ (stack[n] # "nil" \/ info[n].type = "any")}
           Rest == IF signature_of.variadic THEN {L + 1} ELSE {}
<1>1. /\ signature \in Signature /\ stack \in UpTo(LuaArgument, MaxArgs) /\ count \in 0..arity
      /\ \A j \in count + 1..arity : ~Selectable(j)
  BY DEF DInv, DTypeOK, ChosenInv, EndInv
<1>2. /\ arity \in Nat /\ top \in Nat /\ \A i \in 1..arity : params[i] \in Parameter
      /\ \A n \in 1..top : stack[n] \in LuaArgument
  BY <1>1, SignatureFacts, StackFacts, DispatchAssumption
<1>3. L \in Nat /\ Len(info) = L
  BY <1>1, Metadata
<1>4. count = arity
  BY <1>1, <1>2, FollowingIsAccepted, FullPrefix
<1>5. \A i \in 1..arity : given[i] = Due(i) /\ Accepts(i)
  BY <1>1, <1>4, FollowingIsAccepted DEF DInv, EndInv, ReadInv, Delivered
<1>6. \A i \in listed : /\ i \in 1..arity /\ Position(i) \in 1..L
                        /\ info[Position(i)] = fill_argument_info(params[i])
  BY <1>1, Metadata DEF listed
<1>7. signature_of.variadic <=> \E i \in 1..arity : params[i] = "rest"
  BY DEF signature_of
<1>8. \A i \in 1..arity : params[i] = "rest" => Position(i) = L + 1
  BY <1>1, Metadata
<1>9. ASSUME NEW i \in 1..count, given[i] # Absent PROVE given[i] \in Passed \cup Rest
  <2>1. /\ i \in 1..arity /\ TakesLua(i) /\ given[i] = Position(i)
        /\ params[i] # "rest" => Given(i) # "absent"
        /\ params[i] = "optional" => Given(i) # "nil"
    BY <1>4, <1>5, <1>9 DEF Due
  <2>2. CASE params[i] = "rest"
    BY <1>7, <1>8, <2>1, <2>2
  <2>3. CASE params[i] # "rest"
    <3>1. i \in listed
      BY <2>1, <2>3 DEF listed, TakesLua
    <3>2. Position(i) \in 1..top /\ stack[Position(i)] = Given(i) /\ Position(i) \in 1..L
      BY <1>2, <1>3, <1>6, <2>1, <2>3, <3>1 DEF Given
    <3>3. params[i] = "any" => info[Position(i)].type = "any"
      BY <1>6, <3>1, InfoFacts
    <3>4. params[i] = "typed" => Given(i) = "fits"
      BY <1>5, <2>1 DEF Accepts
    <3> QED BY <1>2, <2>1, <2>3, <3>2, <3>3, <3>4 DEF TakesLua, Parameter
  <2> QED BY <2>2, <2>3
<1>10. ASSUME NEW n \in Passed PROVE n \in Got
  <2>1. n \in 1..L /\ n \in 1..top /\ (stack[n] # "nil" \/ info[n].type = "any")
    BY <1>3
  <2>2. PICK i \in listed : Position(i) = n
    BY <1>1, <2>1, Metadata
  <2>3. Given(i) = stack[n] /\ Given(i) # "absent"
    BY <1>2, <2>1, <2>2 DEF Given, LuaArgument
  <2>4. params[i] = "optional" => Given(i) # "nil"
    BY <1>6, <2>1, <2>2, <2>3, InfoFacts
  <2>5. given[i] = n
    BY <1>5, <1>6, <2>2, <2>3, <2>4 DEF Due, TakesLua, listed
  <2>6. i \in 1..count /\ given[i] # Absent
    BY <1>4, <1>6, <2>1, <2>2, <2>5 DEF Absent
  <2> QED BY <2>5, <2>6
<1>11. ASSUME NEW n \in Rest PROVE n \in Got
  <2>1. PICK i \in 1..arity : params[i] = "rest" /\ n = L + 1 /\ Position(i) = L + 1
    BY <1>7, <1>8, <1>11
  <2>2. given[i] = L + 1 /\ i \in 1..count /\ given[i] # Absent
    BY <1>3, <1>4, <1>5, <2>1 DEF Due, TakesLua, Absent
  <2> QED BY <2>1, <2>2
<1>12. Got = Passed \cup Rest
  BY <1>9, <1>10, <1>11
<1> QED BY <1>3, <1>12

\* What the metadata of a function asks for is what the dispatch accepts and delivers.
THEOREM MetadataIsHonest == DSpec => []SignatureIsHonest
<1>1. ASSUME DInv, \A n \in 1..Len(signature_of.arguments) : Follows(n) PROVE step # "error"
  <2>1. signature \in Signature /\ stack \in UpTo(LuaArgument, MaxArgs)
    BY <1>1 DEF DInv, DTypeOK
  <2>2. \A i \in 1..arity : Accepts(i)
    BY <1>1, <2>1, FollowingIsAccepted
  <2>3. \A i \in 1..arity : ~(params[i] = "any" /\ Given(i) = "absent")
    BY <2>2 DEF Accepts
  <2> QED BY <1>1, <2>2, <2>3, ErrorsAreRight DEF ErrorNamesTheFault
<1>2. DInv => SignatureIsHonest
  BY <1>1, FollowingIsCalled DEF SignatureIsHonest
<1> QED BY <1>2, DispatchInvariant, PTL

-----------------------------------------------------------------------------
(* DiagnosticContext.                                                       *)

LEMMA NoContextIsContext == NoContext \in DiagnosticContext
BY ContextAssumption DEF NoContext, DiagnosticContext

LEMMA ContextInit == Init => IInv
<1> SUFFICES ASSUME Init PROVE IInv
  OBVIOUS
<1>1. TypeOK
  BY NoContextIsContext, EmptySeq DEF Init, TypeOK
<1>2. SavedInv /\ ContextIsCurrent
  BY DEF Init, SavedInv, ContextIsCurrent, Attribution
<1> QED BY <1>1, <1>2 DEF IInv

\* A scope is constructed: it saves what the frame under it is attributed to.
LEMMA EnterStep ==
  ASSUME IInv, NEW t \in Thread, NEW own \in DiagnosticContext, own.resource \in Resource,
         NEW kind \in {"function", "callback", "dispatch"},
         enter(t, kind, own)
  PROVE  IInv'
<1> DEFINE n == Len(frames[t])
           scope == [kind |-> kind, vm |-> own.resource, own |-> own, saved |-> context[t]]
<1>1. /\ frames \in [Thread -> Seq(Frame)] /\ context \in [Thread -> DiagnosticContext]
      /\ frames[t] \in Seq(Frame) /\ n \in Nat
  BY DEF IInv, TypeOK
<1>2. scope \in Frame
  BY <1>1 DEF Frame
<1>3. /\ frames' = [frames EXCEPT ![t] = Append(frames[t], scope)]
      /\ context' = [context EXCEPT ![t] = own]
      /\ UNCHANGED terminated
  BY DEF enter, Slot
<1>4. /\ frames'[t] \in Seq(Frame) /\ Len(frames'[t]) = n + 1
      /\ frames'[t][n + 1] = scope
      /\ \A i \in 1..n : frames'[t][i] = frames[t][i]
  BY <1>1, <1>2, <1>3, AppendProperties
<1>5. \A u \in Thread \ {t} : frames'[u] = frames[u] /\ context'[u] = context[u]
  BY <1>1, <1>3
<1>6. context[t] = IF n = 0 THEN NoContext ELSE frames[t][n].own
  BY <1>1, EmptySeq DEF IInv, ContextIsCurrent, Attribution, Top
<1>7. TypeOK'
  BY <1>1, <1>3, <1>4, <1>5 DEF IInv, TypeOK
<1>8. SavedInv'
  <2> SUFFICES ASSUME NEW u \in Thread, NEW i \in 1..Len(frames'[u])
               PROVE  /\ frames'[u][i].saved =
                           IF i = 1 THEN NoContext ELSE frames'[u][i - 1].own
                      /\ frames'[u][i].kind = "handler" =>
                           i = 1 /\ frames'[u][i].own = NoContext
    BY DEF SavedInv
  <2>1. CASE u # t
    BY <1>5, <2>1 DEF IInv, SavedInv
  <2>2. CASE u = t /\ i = n + 1
    <3>1. frames'[u][i].saved = context[t] /\ frames'[u][i].kind # "handler"
      BY <1>4, <2>2
    <3>2. n > 0 => frames'[u][i - 1] = frames[t][n]
      BY <1>1, <1>4, <2>2
    <3> QED BY <1>1, <1>6, <2>2, <3>1, <3>2
  <2>3. CASE u = t /\ i # n + 1
    <3>1. i \in 1..n /\ frames'[u][i] = frames[t][i]
      BY <1>1, <1>4, <2>3
    <3>2. i > 1 => frames'[u][i - 1] = frames[t][i - 1]
      BY <1>1, <1>4, <2>3, <3>1
    <3> QED BY <2>3, <3>1, <3>2 DEF IInv, SavedInv
  <2> QED BY <2>1, <2>2, <2>3
<1>9. ContextIsCurrent'
  <2> SUFFICES ASSUME NEW u \in Thread PROVE context'[u] = Attribution(u)'
    BY DEF ContextIsCurrent
  <2>1. CASE u # t
    BY <1>5, <2>1 DEF IInv, ContextIsCurrent, Attribution, Top
  <2>2. CASE u = t
    <3>1. context'[t] = own /\ scope.own = own
      BY <1>1, <1>3
    <3>2. frames'[t] # <<>> /\ Top(t)' = scope
      BY <1>1, <1>4 DEF Top
    <3> QED BY <2>2, <3>1, <3>2 DEF Attribution
  <2> QED BY <2>1, <2>2
<1> QED BY <1>7, <1>8, <1>9 DEF IInv

\* The innermost frame goes, and its scope puts back what it had saved; a
\* handler, which owns none, has nothing above it that could have changed it.
LEMMA PopStep ==
  ASSUME IInv, NEW t \in Thread, frames[t] # <<>>,
         frames' = popped(t), UNCHANGED terminated,
         \/ context' = restored(t)
         \/ Top(t).kind = "handler" /\ context' = context
  PROVE  IInv'
<1>0. frames[t] \in Seq(Frame)
  BY DEF IInv, TypeOK
<1> PICK n \in Nat : n = Len(frames[t])
  BY <1>0
<1>1. /\ frames \in [Thread -> Seq(Frame)] /\ context \in [Thread -> DiagnosticContext]
      /\ frames[t] \in Seq(Frame) /\ n \in Nat /\ n > 0 /\ n = Len(frames[t])
  BY <1>0, EmptySeq DEF IInv, TypeOK
<1>2. /\ frames'[t] = SubSeq(frames[t], 1, n - 1)
      /\ frames' \in [Thread -> Seq(Frame)]
  <2>1. \A i \in 1..(n - 1) : frames[t][i] \in Frame
    BY <1>1, ElementOfSeq
  <2>2. SubSeq(frames[t], 1, n - 1) \in Seq(Frame)
    BY <1>1, <2>1, SubSeqProperties
  <2> QED BY <1>1, <2>2 DEF popped
<1>3. /\ Len(frames'[t]) = n - 1
      /\ \A i \in 1..(n - 1) : frames'[t][i] = frames[t][i]
  <2>1. \A i \in 1..(n - 1) : frames[t][i] \in Frame
    BY <1>1, ElementOfSeq
  <2>2. /\ Len(SubSeq(frames[t], 1, n - 1)) = IF 1 <= n - 1 THEN (n - 1) - 1 + 1 ELSE 0
        /\ \A i \in 1..(n - 1) - 1 + 1 : SubSeq(frames[t], 1, n - 1)[i] = frames[t][1 + i - 1]
    BY <1>1, <2>1, SubSeqProperties
  <2> QED BY <1>1, <1>2, <2>2
<1>4. \A u \in Thread \ {t} : frames'[u] = frames[u] /\ context'[u] = context[u]
  BY <1>1 DEF popped, restored, Slot
<1>5. frames[t][n] \in Frame /\ frames[t][n] = Top(t)
  BY <1>1, ElementOfSeq DEF Top
<1>6. /\ frames[t][n].saved = IF n = 1 THEN NoContext ELSE frames[t][n - 1].own
      /\ frames[t][n].kind = "handler" => n = 1 /\ frames[t][n].own = NoContext
  <2>1. n \in 1..Len(frames[t])
    BY <1>1
  <2> QED BY <2>1 DEF IInv, SavedInv
<1>7. context[t] = frames[t][n].own
  BY <1>1, <1>5 DEF IInv, ContextIsCurrent, Attribution
<1>8. context'[t] = IF n = 1 THEN NoContext ELSE frames[t][n - 1].own
  BY <1>1, <1>5, <1>6, <1>7 DEF restored, Slot
<1>9. TypeOK'
  BY <1>1, <1>2, <1>5 DEF IInv, TypeOK, Frame, restored, Slot
<1>10. SavedInv'
  <2> SUFFICES ASSUME NEW u \in Thread, NEW i \in 1..Len(frames'[u])
               PROVE  /\ frames'[u][i].saved =
                           IF i = 1 THEN NoContext ELSE frames'[u][i - 1].own
                      /\ frames'[u][i].kind = "handler" =>
                           i = 1 /\ frames'[u][i].own = NoContext
    BY DEF SavedInv
  <2>1. CASE u # t
    BY <1>4, <2>1 DEF IInv, SavedInv
  <2>2. CASE u = t
    <3>1. i \in 1..(n - 1) /\ i \in 1..n /\ frames'[u][i] = frames[t][i]
      BY <1>1, <1>3, <2>2
    <3>2. i > 1 => frames'[u][i - 1] = frames[t][i - 1]
      <4>1. i > 1 => i - 1 \in 1..(n - 1)
        BY <3>1
      <4> QED BY <1>3, <2>2, <4>1
    <3> QED BY <1>1, <2>2, <3>1, <3>2 DEF IInv, SavedInv
  <2> QED BY <2>1, <2>2
<1>11. ContextIsCurrent'
  <2> SUFFICES ASSUME NEW u \in Thread PROVE context'[u] = Attribution(u)'
    BY DEF ContextIsCurrent
  <2>1. CASE u # t
    BY <1>4, <2>1 DEF IInv, ContextIsCurrent, Attribution, Top
  <2>2. CASE u = t /\ n = 1
    <3>1. frames'[t] = <<>>
      <4>1. frames'[t] \in Seq(Frame) /\ Len(frames'[t]) = 0
        BY <1>1, <1>2, <1>3, <2>2
      <4> QED BY <4>1, EmptySeq
    <3> QED BY <1>8, <2>2, <3>1 DEF Attribution
  <2>3. CASE u = t /\ n > 1
    <3>1. Len(frames'[t]) = n - 1 /\ n - 1 \in 1..(n - 1)
      BY <1>1, <1>3, <2>3
    <3>2. Top(t)' = frames'[t][n - 1]
      BY <3>1 DEF Top
    <3>3. frames'[t] # <<>> /\ Top(t)' = frames[t][n - 1]
      BY <1>3, <3>1, <3>2, EmptySeq
    <3>4. context'[t] = frames[t][n - 1].own
      BY <1>1, <1>8, <2>3
    <3> QED BY <2>3, <3>3, <3>4 DEF Attribution
  <2>4. n = 1 \/ n > 1
    BY <1>1
  <2> QED BY <2>1, <2>2, <2>3, <2>4
<1> QED BY <1>9, <1>10, <1>11 DEF IInv

\* The server calls into Lua with nothing of the module on the stack.
LEMMA HandlerStep ==
  ASSUME IInv, NEW r \in Resource, handler_called(r)
  PROVE  IInv'
<1> DEFINE handler == [kind |-> "handler", vm |-> r, own |-> NoContext, saved |-> NoContext]
<1>1. Main \in Thread /\ frames \in [Thread -> Seq(Frame)]
  BY DEF Thread, IInv, TypeOK
<1>2. handler \in Frame
  BY NoContextIsContext DEF Frame
<1>3. /\ frames' = [frames EXCEPT ![Main] = <<handler>>]
      /\ frames[Main] = <<>>
      /\ UNCHANGED <<context, terminated>>
  BY DEF handler_called
<1>4. TypeOK'
  BY <1>1, <1>2, <1>3 DEF IInv, TypeOK
<1>5. SavedInv'
  BY <1>1, <1>3 DEF IInv, SavedInv
<1>6. ContextIsCurrent'
  BY <1>1, <1>3 DEF IInv, ContextIsCurrent, Attribution, Top
<1> QED BY <1>4, <1>5, <1>6 DEF IInv

LEMMA ContextStep == LongjmpUnwinds /\ IInv /\ [Next]_vars => IInv'
<1> SUFFICES ASSUME LongjmpUnwinds, IInv, [Next]_vars PROVE IInv'
  OBVIOUS
<1> Main \in Thread /\ Worker \subseteq Thread
  BY DEF Thread
<1>1. ASSUME NEW r \in Resource, handler_called(r) PROVE IInv'
  BY <1>1, HandlerStep
<1>2. ASSUME NEW r \in Resource, call(r) PROVE IInv'
  <2> DEFINE own == [NoContext EXCEPT !.resource = r]
  <2>1. own \in DiagnosticContext /\ own.resource \in Resource
    BY NoContextIsContext DEF DiagnosticContext, NoContext
  <2>2. enter(Main, "callback", own)
    BY <1>2 DEF call
  <2> QED BY <2>1, <2>2, EnterStep
<1>3. ASSUME handler_returned PROVE IInv'
  BY <1>3, PopStep DEF handler_returned
<1>4. ASSUME NEW f \in Function, protected_call_named(f) PROVE IInv'
  <2> DEFINE own == [NoContext EXCEPT !.function = f, !.resource = Top(Main).vm]
  <2>1. Top(Main) \in Frame
    <3>1. frames[Main] # <<>> /\ frames[Main] \in Seq(Frame)
      BY <1>4 DEF protected_call_named, RunsLua, IInv, TypeOK
    <3>2. Len(frames[Main]) \in 1..Len(frames[Main])
      BY <3>1, EmptySeq
    <3> QED BY <3>1, <3>2, ElementOfSeq DEF Top
  <2>2. own \in DiagnosticContext /\ own.resource \in Resource
    BY <2>1, NoContextIsContext DEF DiagnosticContext, NoContext, Frame
  <2>3. enter(Main, "function", own)
    BY <1>4 DEF protected_call_named
  <2> QED BY <2>2, <2>3, EnterStep
<1>5. ASSUME NEW r \in Resource, NEW id \in Id, NEW t \in Thread,
             \/ enter(t, "dispatch", [NoContext EXCEPT !.resource = r, !.task_id = id])
             \/ enter(t, "dispatch", [NoContext EXCEPT !.resource = r, !.timer_id = id])
      PROVE IInv'
  <2> DEFINE task == [NoContext EXCEPT !.resource = r, !.task_id = id]
             timer == [NoContext EXCEPT !.resource = r, !.timer_id = id]
  <2>1. /\ task \in DiagnosticContext /\ task.resource \in Resource
        /\ timer \in DiagnosticContext /\ timer.resource \in Resource
    BY NoContextIsContext DEF DiagnosticContext, NoContext
  <2>2. enter(t, "dispatch", task) \/ enter(t, "dispatch", timer)
    BY <1>5
  <2> QED BY <2>1, <2>2, EnterStep
<1>6. ASSUME NEW t \in Thread, leave(t) PROVE IInv'
  BY <1>6, PopStep DEF leave
<1>7. ASSUME protected_call_error PROVE IInv'
  <2>1. CASE MayLeave(Top(Main).own.function) /\ context' = restored(Main)
               /\ frames' = popped(Main) /\ UNCHANGED terminated
    <3>1. frames[Main] # <<>>
      BY <1>7 DEF protected_call_error
    <3> QED BY <2>1, <3>1, PopStep
  <2>2. CASE terminated' = TRUE /\ UNCHANGED <<context, frames>>
    BY <2>2 DEF IInv, TypeOK, SavedInv, ContextIsCurrent, Attribution, Top
  <2> QED BY <1>7, <2>1, <2>2 DEF protected_call_error
<1>8. ASSUME UNCHANGED vars PROVE IInv'
  BY <1>8 DEF vars, IInv, TypeOK, SavedInv, ContextIsCurrent, Attribution, Top
<1> QED BY <1>1, <1>2, <1>3, <1>4, <1>5, <1>6, <1>7, <1>8
        DEF Next, pump_task, pump_timer, worker_loop

\* The scopes and the frames they belong to stay in step (protect.hpp:66-115).
THEOREM ContextInvariant == ASSUME LongjmpUnwinds PROVE Spec => []IInv
<1>1. IInv /\ [Next]_vars => IInv'
  BY ContextStep
<1> QED BY ContextInit, <1>1, PTL DEF Spec

\* Whatever is logged or reported is attributed to what runs, on every thread
\* and at every depth of calls, callbacks and errors (protect.hpp:16-22).
THEOREM ContextIsRight == ASSUME LongjmpUnwinds PROVE Spec => []ContextIsCurrent
<1>1. IInv => ContextIsCurrent
  BY DEF IInv
<1> QED BY ContextInvariant, <1>1, PTL

=============================================================================
