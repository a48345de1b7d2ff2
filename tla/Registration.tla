----------------------------- MODULE Registration -----------------------------
(***************************************************************************)
(* The function registry (sdk/registry) and the storage of the typed       *)
(* binder (holder in sdk/bind/bind.hpp): from the registration macros in   *)
(* the translation units to the function a script's call by name runs.     *)
(*                                                                         *)
(* A registration site is a macro in a source file.  The macros of a file  *)
(* run in the order they are written, the files in any order, all before   *)
(* the server makes a VM.                                                  *)
(***************************************************************************)
EXTENDS Naturals, Sequences

CONSTANTS
  Unit,     \* translation units
  Source,   \* unit -> its macros: the name, and the type of the function
  Name,
  Type,     \* function types: closures have one each, pointers share theirs
  VM

Site == UNION {{<<u, i>> : i \in 1..Len(Source[u])} : u \in Unit}
Macro(site) == Source[site[1]][site[2]]

None == <<>>

\* holder<Tag, F>: __COUNTER__ counts anew in every translation unit, while a
\* static member of a template is one object in the whole program.
Tag(site) == site[2]
holder_TagOnly(site) == <<Tag(site)>>
holder(site) == <<Tag(site), Macro(site).type>>

VARIABLES
  functions_,   \* Registry::functions_: a Spec is its site
  stored,       \* holder -> the site whose function and name it keeps
  walked,       \* VM -> the Specs that register_all() has come past
  globals       \* VM -> name -> the holder whose entry the name is bound to

rvars == <<functions_, stored, walked, globals>>

Unbound == [n \in Name |-> None]

RInit ==
  /\ functions_ = <<>>
  /\ stored = [h \in {holder(s) : s \in Site} |-> None]
  /\ walked = [v \in VM |-> 0]
  /\ globals = [v \in VM |-> Unbound]

Registered == {functions_[i] : i \in 1..Len(functions_)}

\* register_typed(): the function and its name go to the holder, the Spec with
\* the holder's entry to the end of the registry.
register_typed(site) ==
  /\ site \notin Registered
  /\ \A j \in 1..site[2] - 1 : <<site[1], j>> \in Registered
  /\ stored' = [stored EXCEPT ![holder(site)] = site]
  /\ functions_' = Append(functions_, site)
  /\ UNCHANGED <<walked, globals>>

\* One turn of register_all(): the server binds the name, to whatever it was bound
\* before, or refuses, and the loop goes on.
register_next(v) ==
  /\ Registered = Site /\ walked[v] < Len(functions_)
  /\ \A w \in VM \ {v} : walked[w] \in {0, Len(functions_)}
  /\ walked' = [walked EXCEPT ![v] = @ + 1]
  /\ LET spec == functions_[walked[v] + 1] IN
       \/ globals' = [globals EXCEPT ![v][Macro(spec).name] = holder(spec)]
       \/ UNCHANGED globals
  /\ UNCHANGED <<functions_, stored>>

\* The resource stops: its VM goes.
close(v) ==
  /\ walked[v] = Len(functions_) /\ walked[v] > 0
  /\ walked' = [walked EXCEPT ![v] = 0]
  /\ globals' = [globals EXCEPT ![v] = Unbound]
  /\ UNCHANGED <<functions_, stored>>

RNext ==
  \/ \E site \in Site : register_typed(site)
  \/ \E v \in VM : register_next(v) \/ close(v)

RSpec == RInit /\ [][RNext]_rvars

-----------------------------------------------------------------------------
(* Properties.                                                             *)

\* The site whose function runs when the script of a VM calls n.
Called(v, n) == stored[globals[v][n]]

\* module_signature(n) describes the first Spec of the name.
First(n) ==
  CHOOSE i \in 1..Len(functions_) :
    /\ Macro(functions_[i]).name = n
    /\ \A j \in 1..i - 1 : Macro(functions_[j]).name # n

module_signature(n) == functions_[First(n)]

\* "Tag is a unique number per call site" (bind.hpp:721), and "the function is
\* registered under EXACTLY the given name" (registry.hpp:96): a call of a name runs a
\* function that was registered under that name.
NameRunsItsFunction ==
  \A v \in VM, n \in Name : globals[v][n] # None => Macro(Called(v, n)).name = n

\* module_signature() describes the function that a call runs.
SignatureDescribesCallee ==
  \A v \in VM, n \in Name : globals[v][n] # None => module_signature(n) = Called(v, n)

\* What the two need of the sources: a holder for each site, a site for each name.
OwnHolders == \A s, t \in Site : holder(s) = holder(t) => s = t
OwnNames == \A s, t \in Site : Macro(s).name = Macro(t).name => s = t

-----------------------------------------------------------------------------
(* The inductive invariant, when the holders are the sites' own.           *)

RTypeOK ==
  /\ functions_ \in Seq(Site)
  /\ stored \in [{holder(s) : s \in Site} -> Site \cup {None}]
  /\ walked \in [VM -> 0..Len(functions_)]
  /\ globals \in [VM -> [Name -> {holder(s) : s \in Site} \cup {None}]]

\* A site is listed once, and what is listed is in its holder.
ListedInv ==
  /\ \A i, j \in 1..Len(functions_) : functions_[i] = functions_[j] => i = j
  /\ \A s \in Registered : stored[holder(s)] = s

\* Where a name is bound, it is to one of its own sites.
BoundInv ==
  \A v \in VM, n \in Name : globals[v][n] # None =>
    \E s \in Registered : globals[v][n] = holder(s) /\ Macro(s).name = n

RInv == RTypeOK /\ ListedInv /\ BoundInv

=============================================================================
