--------------------------- MODULE MCArgumentValues ---------------------------
(***************************************************************************)
(* TLC instances of ArgumentValues: tables of at most three entries whose  *)
(* positions leave holes, nested past the depth limit, and calls with two  *)
(* arguments.                                                              *)
(***************************************************************************)
EXTENDS ArgumentValues

Scalar(n) == [kind |-> IF n = 1 THEN "string" ELSE "number", of |-> n]
Function == [kind |-> "function"]

Keys == {<<"position", 1>>, <<"position", 2>>, <<"position", 3>>,
         <<"name", "name">>, <<"name", "hp">>, <<"odd", 1>>}

\* The tables of at most n entries over a set of values.
Tables(n, values) ==
  UNION {{LuaTable(f) : f \in [ks -> values]} :
           ks \in {s \in SUBSET Keys : Cardinality(s) <= n}}

Leaves == {Scalar(1), Scalar(2), Function}
Flat == Tables(3, Leaves)
Nested == Tables(2, {Scalar(1), Function} \cup Tables(1, {Scalar(1), Function}))
Deep == Tables(1, Tables(1, Tables(1, {Scalar(1)}) \cup {Scalar(1)}))

AnyTwo == {Nil} \cup Leaves \cup Tables(1, {Scalar(1)})

Named == {WithEntry(t, <<"name", "name">>, Scalar(1)) : t \in Flat}

Occurring ==
  {Nil, DefaultOf.name, DefaultOf.hp} \cup Leaves \cup Flat \cup Nested \cup Deep \cup Named
    \cup Tables(1, Tables(1, {Scalar(1)}) \cup {Scalar(1), Function, LuaTable(NoEntries)})

\* The same as an enumerated set, which TLC searches faster than a union.
AllValues == {v \in Occurring : TRUE}

Call(function, values) == [function |-> function, values |-> values]

Calls ==
  {Call("echo", <<>>)} \cup {Call("echo", <<v>>) : v \in Flat \cup Nested \cup Deep}
    \cup {Call("echo", <<v, w>>) : v \in AnyTwo, w \in AnyTwo}
    \cup {Call("table_set", <<t, Scalar(1)>>) : t \in Flat}
    \cup {Call("table_get", <<t>>) : t \in Flat \cup Tables(1, {LuaTable(NoEntries)})}
=============================================================================
