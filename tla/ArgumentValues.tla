---------------------------- MODULE ArgumentValues ----------------------------
(***************************************************************************)
(* Snapshots of Lua values (sdk/lua/argument.cpp, arguments.cpp) and their *)
(* fields (sdk/lua/table_helpers.hpp), as sample_echo(), sample_table_set() *)
(* and sample_table_get() use them: every argument of a call is read off   *)
(* the stack into an Argument, tables recursively; the function computes   *)
(* its results from them, and they are pushed back.                        *)
(*                                                                         *)
(* The recursion is explicit: `reading` and `pushing` are the calls of     *)
(* Argument::read and Argument::push that are inside a table, outermost    *)
(* first.  lua_next visits the keys of a table in any order.  The stack    *)
(* holds Lua values; a table that is being built is changed in its slot.   *)
(***************************************************************************)
EXTENDS Naturals, Sequences, FiniteSets

CONSTANTS
  MaxTableDepth,   \* max_table_depth
  MinStack,        \* LUA_MINSTACK: slots a C function has beyond its arguments
  Value,           \* the Lua values of an instance, with what its tables hold
  Inputs           \* the calls: [function, values], the values well typed for it

ASSUME ArgumentAssumption == MaxTableDepth \in Nat \ {0} /\ MinStack \in Nat

\* Lua values.  Strings and numbers stand for every scalar; functions, full userdata
\* and threads are "function".  The keys of a table are <<"position", n>>,
\* <<"name", n>> and <<"odd", n>> for every other key.
Nil == [kind |-> "nil"]
LuaTable(entries) == [kind |-> "table", entries |-> entries]

IsKey(k) ==
  /\ k = <<k[1], k[2]>>
  /\ k[1] \in {"position", "name", "odd"}
  /\ k[1] = "position" => k[2] \in Nat \ {0}

ASSUME ValueAssumption ==
  \A v \in Value :
    /\ v.kind \in {"nil", "string", "number", "function", "table"}
    /\ v.kind = "nil" => v = Nil
    /\ v.kind = "table" => \A k \in DOMAIN v.entries : IsKey(k) /\ v.entries[k] \in Value \ {Nil}

\* nil as a value removes the entry.
WithEntry(t, key, value) ==
  LET kept == (DOMAIN t.entries \ {key}) \cup (IF value = Nil THEN {} ELSE {key})
  IN LuaTable([k \in kept |-> IF k = key THEN value ELSE t.entries[k]])

\* The fields "name", a string, and "hp", a number, and their defaults.
DefaultOf == [name |-> [kind |-> "string", of |-> 0], hp |-> [kind |-> "number", of |-> 0]]

\* The trampolines check the arguments before the functions run.
ASSUME CallAssumption ==
  /\ DefaultOf.name \in Value /\ DefaultOf.hp \in Value
  /\ \A call \in Inputs :
       /\ call.values \in Seq(Value)
       /\ \/ call.function = "echo"
          \/ /\ call.function = "table_set" /\ Len(call.values) = 2
             /\ call.values[1].kind = "table" /\ call.values[2].kind = "string"
             /\ WithEntry(call.values[1], <<"name", "name">>, call.values[2]) \in Value
          \/ /\ call.function = "table_get" /\ Len(call.values) = 1
             /\ call.values[1].kind = "table"

\* What an Argument holds: Nil, a scalar, None or a Table.
None == [kind |-> "none"]
NoEntries == [k \in {} |-> Nil]
Table(array, fields) == [kind |-> "table", array |-> array, fields |-> fields]

VARIABLES
  called,      \* the function: "echo", "table_set" or "table_get"
  input,       \* the arguments of the call
  phase,       \* "read", "push", "done" or "error"
  arguments,   \* Arguments::arguments_
  reading,     \* [of, left, key, array, fields] per nested Argument::read
  stack,       \* the Lua stack from lua_settop(L, 0) on
  pushing,     \* [of, at, next, pending] per nested Argument::push
  sent,        \* how many arguments push() has looked at
  returned     \* the count push() returns

vars == <<called, input, phase, arguments, reading, stack, pushing, sent, returned>>

readVars == <<called, input, arguments, reading>>
pushVars == <<stack, pushing, sent, returned>>

Top(seq) == seq[Len(seq)]
Front(seq) == SubSeq(seq, 1, Len(seq) - 1)

TypeOK ==
  /\ phase \in {"read", "push", "done", "error"}
  /\ \A i \in 1..Len(arguments) : arguments[i].kind \in {"none", "nil", "string", "number", "table"}
  /\ Len(reading) <= MaxTableDepth /\ Len(pushing) <= MaxTableDepth
  /\ \A i \in 1..Len(stack) : stack[i].kind \in {"nil", "string", "number", "table", "name"}
  /\ sent \in 0..Len(arguments) /\ returned \in Nat

Init ==
  /\ \E call \in Inputs : called = call.function /\ input = call.values
  /\ phase = "read" /\ arguments = <<>> /\ reading = <<>>
  /\ stack = <<>> /\ pushing = <<>> /\ sent = 0 /\ returned = 0

-----------------------------------------------------------------------------
(* Argument::read                                                          *)

\* A value read without going into it: the depth is exhausted, or no table.
ReadFlat(v) ==
  CASE v.kind = "table" -> Table(<<>>, <<>>)
    [] v.kind = "function" -> None
    [] OTHER -> v

\* The nested read has depth `depth`.
TooDeep_Late(depth) == depth > MaxTableDepth
TooDeep(depth) == depth >= MaxTableDepth
IsOpened(v, depth) == v.kind = "table" /\ ~TooDeep(depth)

Opened(v) ==
  [of |-> v, left |-> DOMAIN v.entries, key |-> <<"none", 0>>,
   array |-> <<>>, fields |-> <<>>]

store_sequence_value_Back(array, position, value) == Append(array, value)
store_sequence_value(array, position, value) ==
  [i \in 1..(IF position > Len(array) THEN position ELSE Len(array)) |->
     IF i = position THEN value ELSE IF i <= Len(array) THEN array[i] ELSE Nil]

\* The end of the loop's body: the value goes where its key says.
Stored(frame, key, value) ==
  CASE key[1] = "position" ->
         [frame EXCEPT !.array = store_sequence_value(@, key[2], value)]
    [] key[1] = "name" -> [frame EXCEPT !.fields = Append(@, <<key[2], value>>)]
    [] OTHER -> frame

\* One argument of Arguments::read, which opens a table or is done.
read_argument ==
  /\ phase = "read" /\ reading = <<>> /\ Len(arguments) < Len(input)
  /\ LET v == input[Len(arguments) + 1] IN
       IF IsOpened(v, 0)
       THEN reading' = <<Opened(v)>> /\ UNCHANGED arguments
       ELSE arguments' = Append(arguments, ReadFlat(v)) /\ UNCHANGED reading
  /\ UNCHANGED <<called, input, phase, pushVars>>

\* One turn of the lua_next loop.
read_entry ==
  /\ reading # <<>>
  /\ \E k \in Top(reading).left :
       LET v == Top(reading).of.entries[k]
           frame == [Top(reading) EXCEPT !.left = @ \ {k}, !.key = k]
       IN reading' =
            Front(reading) \o
              (IF k[1] # "odd" /\ IsOpened(v, Len(reading))
               THEN <<frame, Opened(v)>>
               ELSE <<Stored(frame, k, ReadFlat(v))>>)
  /\ UNCHANGED <<called, input, phase, arguments, pushVars>>

\* lua_next has returned 0: the table goes to the call that asked for it.
read_table_end ==
  /\ reading # <<>> /\ Top(reading).left = {}
  /\ LET value == Table(Top(reading).array, Top(reading).fields)
         outer == Front(reading)
     IN IF outer = <<>>
        THEN arguments' = Append(arguments, value) /\ reading' = <<>>
        ELSE /\ reading' = Front(outer) \o <<Stored(Top(outer), Top(outer).key, value)>>
             /\ UNCHANGED arguments
  /\ UNCHANGED <<called, input, phase, pushVars>>

AllRead == phase = "read" /\ reading = <<>> /\ Len(arguments) = Len(input)

\* sample_echo after Arguments::read.
settop ==
  /\ called = "echo" /\ AllRead
  /\ IF arguments = <<>>
     THEN phase' = "done" /\ stack' = <<Nil>> /\ returned' = 1
     ELSE phase' = "push" /\ UNCHANGED <<stack, returned>>
  /\ UNCHANGED <<readVars, pushing, sent>>

-----------------------------------------------------------------------------
(* The fields of a table.                                                  *)

\* find_field(): the first entry with the key.
HasField(table, key) == \E i \in 1..Len(table.fields) : table.fields[i][1] = key
find_field(table, key) ==
  CHOOSE i \in 1..Len(table.fields) :
    /\ table.fields[i][1] = key
    /\ \A j \in 1..i - 1 : table.fields[j][1] # key

\* get_field() with a default, and convert(), which throws on any other type.
get_field(table, key) ==
  IF HasField(table, key) THEN table.fields[find_field(table, key)][2] ELSE DefaultOf[key]
Converts(value, key) == value.kind = DefaultOf[key].kind

set_field(table, key, value) ==
  IF HasField(table, key)
  THEN Table(table.array, [table.fields EXCEPT ![find_field(table, key)] = <<key, value>>])
  ELSE Table(table.array, Append(table.fields, <<key, value>>))

sample_table_set ==
  /\ called = "table_set" /\ AllRead
  /\ arguments' = <<set_field(arguments[1], "name", arguments[2])>>
  /\ phase' = "push"
  /\ UNCHANGED <<called, input, reading, pushVars>>

sample_table_get ==
  /\ called = "table_get" /\ AllRead
  /\ LET results == <<get_field(arguments[1], "name"), get_field(arguments[1], "hp")>> IN
       IF Converts(results[1], "name") /\ Converts(results[2], "hp")
       THEN arguments' = results /\ phase' = "push"
       ELSE phase' = "error" /\ UNCHANGED arguments
  /\ UNCHANGED <<called, input, reading, pushVars>>

-----------------------------------------------------------------------------
(* Argument::push                                                          *)

Building(value, at) == [of |-> value, at |-> at, next |-> 1, pending |-> FALSE]
Items(value) == Len(value.array) + Len(value.fields)
InArray(frame) == frame.next <= Len(frame.of.array)

\* What a push at this depth leaves on the stack, a table still empty.
PushedSlots(value, depth) ==
  CASE value.kind = "none" -> <<>>
    [] value.kind = "table" -> IF TooDeep(depth) THEN <<Nil>> ELSE <<LuaTable(NoEntries)>>
    [] OTHER -> <<value>>

\* One argument of Arguments::push; no value is no result.
push_argument ==
  /\ phase = "push" /\ pushing = <<>> /\ sent < Len(arguments)
  /\ LET value == arguments[sent + 1] IN
       /\ stack' = stack \o PushedSlots(value, 0)
       /\ pushing' = IF value.kind = "table" THEN <<Building(value, Len(stack'))>> ELSE <<>>
       /\ returned' = IF value.kind = "none" THEN returned ELSE returned + 1
  /\ sent' = sent + 1
  /\ UNCHANGED <<readVars, phase>>

\* The value of an element, and a field's key before it.  Only an element that
\* is no value is pushed as nil.
KeepsHole(frame) == InArray(frame)

push_item ==
  /\ pushing # <<>>
  /\ LET frame == Top(pushing)
         entry == frame.of.fields[frame.next - Len(frame.of.array)]
         value == IF InArray(frame) THEN frame.of.array[frame.next] ELSE entry[2]
         key == IF InArray(frame) THEN <<>> ELSE <<[kind |-> "name", of |-> entry[1]]>>
         slots == IF value = None /\ KeepsHole(frame) THEN <<Nil>>
                  ELSE PushedSlots(value, Len(pushing))
     IN /\ ~frame.pending /\ frame.next <= Items(frame.of)
        /\ stack' = stack \o key \o slots
        /\ pushing' =
             Front(pushing) \o <<[frame EXCEPT !.pending = TRUE]>> \o
               (IF value.kind = "table" /\ ~TooDeep(Len(pushing))
                THEN <<Building(value, Len(stack'))>> ELSE <<>>)
  /\ UNCHANGED <<readVars, phase, sent, returned>>

\* lua_rawseti or lua_rawset takes its operands off the top of the stack,
\* whatever they are.  With the key or the table itself for an operand, or
\* something else than a table in the table's slot, what becomes of the table
\* is not modelled: it is left as it is, or the call stops here.
set_item ==
  /\ pushing # <<>> /\ Top(pushing).pending
  /\ LET frame == Top(pushing)
         operands == IF InArray(frame) THEN 1 ELSE 2
         rest == SubSeq(stack, 1, Len(stack) - operands)
         value == Top(stack)
         key == IF InArray(frame) THEN <<"position", frame.next>>
                ELSE <<"name", stack[Len(stack) - 1].of>>
     IN /\ Len(stack) >= frame.at /\ stack[frame.at].kind = "table"
        /\ stack' = IF Len(rest) >= frame.at
                    THEN [rest EXCEPT ![frame.at] = WithEntry(@, key, value)] ELSE rest
        /\ pushing' = Front(pushing) \o
             <<[frame EXCEPT !.pending = FALSE, !.next = @ + 1]>>
  /\ UNCHANGED <<readVars, phase, sent, returned>>

push_table_end ==
  /\ pushing # <<>> /\ ~Top(pushing).pending /\ Top(pushing).next > Items(Top(pushing).of)
  /\ pushing' = Front(pushing)
  /\ UNCHANGED <<readVars, phase, stack, sent, returned>>

push_end ==
  /\ phase = "push" /\ pushing = <<>> /\ sent = Len(arguments)
  /\ phase' = "done"
  /\ UNCHANGED <<readVars, pushVars>>

Next ==
  \/ read_argument \/ read_entry \/ read_table_end
  \/ settop \/ sample_table_set \/ sample_table_get
  \/ push_argument \/ push_item \/ set_item \/ push_table_end \/ push_end

Spec == Init /\ [][Next]_vars

-----------------------------------------------------------------------------
(* Properties.  The reference is what the documents promise of a copy.     *)

\* Where a field cannot be copied no promise is kept: see PushBalanced.
Opaque == [kind |-> "opaque"]

\* What comes back of a value when n levels of tables are left: positions and
\* names are kept, every other key and every value that cannot be copied are dropped.
copy[n \in 0..MaxTableDepth] ==
  [v \in Value |->
     CASE v.kind = "function" -> Nil
       [] v.kind = "table" ->
            IF n = 0 THEN Nil
            ELSE LET kept == {k \in DOMAIN v.entries :
                                k[1] # "odd" /\ copy[n - 1][v.entries[k]] # Nil}
                 IN IF \E k \in DOMAIN v.entries :
                         \/ k[1] = "name" /\ v.entries[k].kind = "function"
                         \/ k \in kept /\ copy[n - 1][v.entries[k]] = Opaque
                    THEN Opaque
                    ELSE LuaTable([k \in kept |-> copy[n - 1][v.entries[k]]])
       [] OTHER -> v]

Copy(v) == copy[MaxTableDepth][v]

\* A field of the table that was passed, or what stands in for it.
Field(t, key) ==
  IF <<"name", key>> \in DOMAIN t.entries THEN t.entries[<<"name", key>>] ELSE DefaultOf[key]

\* The values whose copies are the results.
Meant ==
  CASE called = "echo" -> input
    [] called = "table_set" -> <<WithEntry(input[1], <<"name", "name">>, input[2])>>
    [] called = "table_get" -> <<Field(input[1], "name"), Field(input[1], "hp")>>

\* Those that can be copied come back in their order.
Returned == {i \in 1..Len(Meant) : Meant[i].kind # "function"}
Place(i) == Cardinality(Returned \cap (1..i))

\* The round trip of sample_echo and bench_table_roundtrip, and the fields that
\* sample_table_set and sample_table_get change and read: whatever order lua_next
\* takes in each table, holes stay where they are, no element shifts, no field is
\* lost, nothing below the depth limit comes back, and a default hides
\* no field of the wrong type.
RoundTrip ==
  /\ phase = "done" /\ input = <<>> => stack = <<Nil>>
  /\ phase = "done" /\ input # <<>> /\ (\A i \in Returned : Copy(Meant[i]) # Opaque) =>
       /\ Len(stack) = Cardinality(Returned)
       /\ \A i \in Returned : stack[Place(i)] = Copy(Meant[i])
  /\ called = "table_get" /\ phase \in {"push", "error"} =>
       (phase = "error") =
         (Field(input[1], "name").kind # "string" \/ Field(input[1], "hp").kind # "number")

\* "Pushes the value onto the top of the stack" (argument.hpp:68): when an
\* argument has been pushed the stack holds the results counted so far.
PushBalanced ==
  phase # "read" /\ pushing = <<>> => Len(stack) = returned

\* "Returns all arguments unchanged" (echo.cpp:6): an argument that can be
\* copied comes back at its own position.
EchoKeepsPositions ==
  phase = "done" => \A i \in 1..Len(input) :
    called = "echo" /\ input[i].kind \in {"nil", "string", "number"} => i <= Len(stack) /\ stack[i] = input[i]

\* Only sample_echo takes its arguments off the stack before it pushes.
Below == IF called = "echo" THEN 0 ELSE Len(input)

\* The slots in use: a table that is being read holds its copy, a key and,
\* unless it is the innermost and between two entries, a value.
Height ==
  IF phase = "read"
  THEN Len(input) + (IF reading = <<>> THEN 0 ELSE 3 * Len(reading) - 1)
  ELSE Below + Len(stack)

\* The depth limit bounds what a conversion needs: at most three slots for each
\* level, also where the fields of a table go wrong.
ThreeSlotsPerLevel == Height <= Len(input) + 3 * MaxTableDepth

\* A conversion stays within the slots a C function may use without
\* lua_checkstack, whatever the nesting of the values.
StackReserved == Height <= Len(input) + MinStack

=============================================================================
