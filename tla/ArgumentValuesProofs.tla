------------------------- MODULE ArgumentValuesProofs -------------------------
(***************************************************************************)
(* Proofs about ArgumentValues, for any Lua values, calls and depth limit, *)
(* and any order in which lua_next visits the keys of each table.          *)
(*                                                                         *)
(* The argument: a set R of snapshots [argument, value, depth] that is     *)
(* closed under going into tables stands for what has been read.  Reading  *)
(* only adds to it, when a table is complete and its parts are in it; and  *)
(* pushing an argument of R builds, slot by slot, the copy of its value.   *)
(***************************************************************************)
EXTENDS ArgumentValues, SequenceTheorems, FiniteSetTheorems, TLAPS

-----------------------------------------------------------------------------
(* The reference, level by level.                                           *)

\* A set of numbers has a least one.
LEMMA Least ==
  ASSUME NEW T \in SUBSET Nat, T # {}
  PROVE  \E m \in T : \A k \in T : m <= k
<1> DEFINE R == OpToRel(<, Nat)
<1>1. IsWellFoundedOn(R, Nat)
  BY NatLessThanWellFounded
<1>2. \A k, m \in Nat : <<k, m>> \in R <=> k < m
  BY DEF OpToRel
<1> HIDE DEF R
<1>3. PICK m \in T : \A k \in T : <<k, m>> \notin R
  BY <1>1, WFMin
<1>4. m \in Nat /\ \A k \in T : k \in Nat /\ ~(k < m)
  BY <1>2, <1>3
<1> QED BY <1>4

\* One level of copy, from the level below.
Level(n, below) ==
  [v \in Value |->
     CASE v.kind = "function" -> Nil
       [] v.kind = "table" ->
            IF n = 0 THEN Nil
            ELSE LET kept == {k \in DOMAIN v.entries :
                                k[1] # "odd" /\ below[v.entries[k]] # Nil}
                 IN IF \E k \in DOMAIN v.entries :
                         \/ k[1] = "name" /\ v.entries[k].kind = "function"
                         \/ k \in kept /\ below[v.entries[k]] = Opaque
                    THEN Opaque
                    ELSE LuaTable([k \in kept |-> below[v.entries[k]]])
       [] OTHER -> v]

\* The lowest level does not look below itself.
LEMMA LowestLevel == \A f, g : Level(0, f) = Level(0, g)
BY DEF Level

\* The levels exist, one on top of the other.
LEMMA LevelsExist ==
  ASSUME NEW n \in Nat
  PROVE  \E f : f = [m \in 0..n |-> Level(m, f[m - 1])]
<1> DEFINE Built(l, f) == f = [m \in 0..l |-> Level(m, f[m - 1])]
           T == {l \in Nat : ~\E f : Built(l, f)}
<1>1. SUFFICES ASSUME T # {} PROVE FALSE
  OBVIOUS
<1>2. PICK l \in T : \A k \in T : l <= k
  BY <1>1, Least
<1>3. CASE l = 0
  <2> DEFINE f == [m \in 0..0 |-> Level(0, 0)]
  <2>1. f = [m \in 0..0 |-> Level(m, f[m - 1])]
    <3>1. \A m \in 0..0 : m = 0 /\ Level(m, f[m - 1]) = Level(0, 0)
      BY LowestLevel
    <3> QED BY <3>1
  <2> QED BY <1>2, <1>3, <2>1
<1>4. CASE l # 0
  <2>1. l \in Nat /\ l - 1 \in Nat /\ l - 1 \notin T
    BY <1>2, <1>4
  <2>2. PICK g : Built(l - 1, g)
    BY <2>1
  <2> DEFINE f == [m \in 0..l |-> IF m = l THEN Level(l, g[l - 1]) ELSE g[m]]
  <2>3. ASSUME NEW m \in 0..l PROVE f[m] = Level(m, f[m - 1])
    <3>1. CASE m = l
      <4>1. f[m - 1] = g[l - 1]
        BY <2>1, <3>1
      <4> QED BY <3>1, <4>1
    <3>2. CASE m # l /\ m = 0
      <4>1. g[m] = Level(0, g[m - 1])
        BY <2>1, <2>2, <3>2
      <4> QED BY <3>2, <4>1, LowestLevel
    <3>3. CASE m # l /\ m # 0
      <4>1. m - 1 \in 0..l /\ m - 1 # l /\ m \in 0..l - 1
        BY <2>1, <3>3
      <4>2. g[m] = Level(m, g[m - 1]) /\ f[m - 1] = g[m - 1] /\ f[m] = g[m]
        BY <2>2, <3>3, <4>1
      <4> QED BY <4>2
    <3> QED BY <3>1, <3>2, <3>3
  <2>4. f = [m \in 0..l |-> f[m]]
    OBVIOUS
  <2> HIDE DEF f
  <2>5. Built(l, f)
    BY <2>3, <2>4
  <2> QED BY <1>2, <2>5
<1> QED BY <1>3, <1>4

LEMMA CopyLevels ==
  ASSUME NEW n \in 0..MaxTableDepth
  PROVE  copy[n] = Level(n, copy[n - 1])
<1>1. MaxTableDepth \in Nat
  BY ArgumentAssumption
<1>2. \E f : f = [m \in 0..MaxTableDepth |-> Level(m, f[m - 1])]
  BY <1>1, LevelsExist
<1>3. copy = [m \in 0..MaxTableDepth |-> Level(m, copy[m - 1])]
  BY <1>2 DEF copy, Level
<1> QED BY <1>3

-----------------------------------------------------------------------------
(* Sequences, whatever they hold.                                           *)

IsSeq(q) == \E S : q \in Seq(S)

LEMMA SeqFacts ==
  ASSUME NEW q, IsSeq(q)
  PROVE  Len(q) \in Nat /\ DOMAIN q = 1..Len(q) /\ (q = <<>> <=> Len(q) = 0)
BY DEF IsSeq

LEMMA AppendFacts ==
  ASSUME NEW q, NEW a, IsSeq(q)
  PROVE  /\ IsSeq(Append(q, a)) /\ Len(Append(q, a)) = Len(q) + 1
         /\ Append(q, a)[Len(q) + 1] = a
         /\ \A i \in 1..Len(q) : Append(q, a)[i] = q[i]
<1>1. PICK S : q \in Seq(S)
  BY DEF IsSeq
<1>2. q \in Seq(S \cup {a}) /\ a \in S \cup {a}
  BY <1>1
<1>3. Append(q, a) \in Seq(S \cup {a})
  BY <1>2
<1>4. /\ Len(Append(q, a)) = Len(q) + 1 /\ Append(q, a)[Len(q) + 1] = a
      /\ \A i \in 1..Len(q) : Append(q, a)[i] = q[i]
  BY <1>2
<1> QED BY <1>3, <1>4 DEF IsSeq

LEMMA OneAndTwo ==
  ASSUME NEW a, NEW b
  PROVE  /\ IsSeq(<<>>) /\ IsSeq(<<a>>) /\ IsSeq(<<a, b>>)
         /\ Len(<<>>) = 0 /\ Len(<<a>>) = 1 /\ Len(<<a, b>>) = 2
         /\ <<a>>[1] = a /\ <<a, b>>[1] = a /\ <<a, b>>[2] = b
<1>1. <<a>> \in Seq({a, b}) /\ <<a, b>> \in Seq({a, b}) /\ <<>> \in Seq({a, b})
  OBVIOUS
<1> QED BY <1>1 DEF IsSeq

\* r is p and then q.
IsJoin(r, p, q) ==
  /\ IsSeq(r) /\ Len(r) = Len(p) + Len(q)
  /\ \A i \in 1..Len(p) : r[i] = p[i]
  /\ \A i \in 1..Len(q) : r[Len(p) + i] = q[i]

LEMMA ConcatFacts ==
  ASSUME NEW p, NEW q, IsSeq(p), IsSeq(q)
  PROVE  IsJoin(p \o q, p, q)
<1>1. PICK S, T : p \in Seq(S) /\ q \in Seq(T)
  BY DEF IsSeq
<1>2. p \in Seq(S \cup T) /\ q \in Seq(S \cup T)
  BY <1>1
<1>3. p \o q \in Seq(S \cup T)
  BY <1>2
<1>4. /\ Len(p \o q) = Len(p) + Len(q)
      /\ \A i \in 1..Len(p) : (p \o q)[i] = p[i]
      /\ \A i \in 1..Len(q) : (p \o q)[Len(p) + i] = q[i]
  BY <1>2
<1> QED BY <1>3, <1>4 DEF IsSeq, IsJoin

\* The first n elements.
LEMMA PrefixFacts ==
  ASSUME NEW q, IsSeq(q), NEW n \in 0..Len(q)
  PROVE  /\ IsSeq(SubSeq(q, 1, n)) /\ Len(SubSeq(q, 1, n)) = n
         /\ \A i \in 1..n : SubSeq(q, 1, n)[i] = q[i]
<1>1. PICK S : q \in Seq(S)
  BY DEF IsSeq
<1>2. SubSeq(q, 1, n) \in Seq(S)
  BY <1>1
<1>3. Len(SubSeq(q, 1, n)) = n /\ \A i \in 1..n : SubSeq(q, 1, n)[i] = q[i]
  BY <1>1
<1> QED BY <1>2, <1>3 DEF IsSeq

LEMMA FrontFacts ==
  ASSUME NEW q, IsSeq(q), q # <<>>
  PROVE  /\ IsSeq(Front(q)) /\ Len(Front(q)) = Len(q) - 1
         /\ \A i \in 1..Len(q) - 1 : Front(q)[i] = q[i]
<1>1. Len(q) - 1 \in 0..Len(q)
  BY SeqFacts
<1> QED BY <1>1, PrefixFacts DEF Front

\* The innermost call replaced.
Replaced(q, a) == Front(q) \o <<a>>

IsReplaced(r, q, a) ==
  /\ IsSeq(r) /\ Len(r) = Len(q) /\ r[Len(q)] = a
  /\ \A i \in 1..Len(q) - 1 : r[i] = q[i]

LEMMA ReplaceTop ==
  ASSUME NEW q, NEW a, IsSeq(q), q # <<>>
  PROVE  IsReplaced(Replaced(q, a), q, a)
<1>1. PICK h : h = Front(q)
  OBVIOUS
<1>2. /\ IsSeq(h) /\ Len(h) = Len(q) - 1 /\ Len(q) \in Nat \ {0}
      /\ \A i \in 1..Len(q) - 1 : h[i] = q[i]
  BY <1>1, FrontFacts, SeqFacts
<1>3. PICK p : p = <<a>>
  OBVIOUS
<1>4. IsSeq(p) /\ Len(p) = 1 /\ p[1] = a
  BY <1>3, OneAndTwo
<1>5. PICK r : r = h \o p
  OBVIOUS
<1>6. IsJoin(r, h, p)
  BY <1>2, <1>4, <1>5, ConcatFacts
<1>7. IsReplaced(r, q, a)
  BY <1>2, <1>4, <1>6 DEF IsJoin, IsReplaced
<1> QED BY <1>1, <1>3, <1>5, <1>7 DEF Replaced

\* The innermost call replaced, and another one inside it.
Nested(q, a, b) == Front(q) \o <<a, b>>

IsNested(r, q, a, b) ==
  /\ IsSeq(r) /\ Len(r) = Len(q) + 1 /\ r[Len(q)] = a /\ r[Len(q) + 1] = b
  /\ \A i \in 1..Len(q) - 1 : r[i] = q[i]

LEMMA ReplaceAndNest ==
  ASSUME NEW q, NEW a, NEW b, IsSeq(q), q # <<>>
  PROVE  IsNested(Nested(q, a, b), q, a, b)
<1>1. PICK h : h = Front(q)
  OBVIOUS
<1>2. /\ IsSeq(h) /\ Len(h) = Len(q) - 1 /\ Len(q) \in Nat \ {0}
      /\ \A i \in 1..Len(q) - 1 : h[i] = q[i]
  BY <1>1, FrontFacts, SeqFacts
<1>3. PICK p : p = <<a, b>>
  OBVIOUS
<1>4. IsSeq(p) /\ Len(p) = 2 /\ p[1] = a /\ p[2] = b
  BY <1>3, OneAndTwo
<1>5. PICK r : r = h \o p
  OBVIOUS
<1>6. IsJoin(r, h, p)
  BY <1>2, <1>4, <1>5, ConcatFacts
<1>7. r[Len(h) + 1] = p[1] /\ r[Len(h) + 2] = p[2]
  BY <1>4, <1>6 DEF IsJoin
<1>8. IsNested(r, q, a, b)
  BY <1>2, <1>4, <1>6, <1>7 DEF IsJoin, IsNested
<1> QED BY <1>1, <1>3, <1>5, <1>8 DEF Nested

-----------------------------------------------------------------------------
(* Snapshots: which Argument stands for which value at which depth.         *)

\* The array and the fields hold, of the entries of t at the keys `done`, every
\* position and every name once, and Nil at every position between.  Their depth is e.
Fits(array, fields, t, done, e, R) ==
  /\ IsSeq(array) /\ IsSeq(fields)
  /\ \A n : <<"position", n>> \in done =>
       n \in 1..Len(array) /\ <<array[n], t.entries[<<"position", n>>], e>> \in R
  /\ \A n \in 1..Len(array) : <<"position", n>> \notin done => array[n] = Nil
  /\ \A i \in 1..Len(fields) :
       /\ fields[i] = <<fields[i][1], fields[i][2]>>
       /\ <<"name", fields[i][1]>> \in done
       /\ <<fields[i][2], t.entries[<<"name", fields[i][1]>>], e>> \in R
  /\ \A i, j \in 1..Len(fields) : fields[i][1] = fields[j][1] => i = j
  /\ \A n : <<"name", n>> \in done => \E i \in 1..Len(fields) : fields[i][1] = n

Snapshot(a, v, d, R) ==
  /\ v \in Value /\ d \in 0..MaxTableDepth
  /\ v.kind = "function" => a = None
  /\ v.kind = "table" =>
       /\ a = Table(a.array, a.fields)
       /\ d < MaxTableDepth => Fits(a.array, a.fields, v, DOMAIN v.entries, d + 1, R)
  /\ v.kind \notin {"function", "table"} => a = v

\* R holds nothing but snapshots, and what they have inside.
Closed(R) == \A a, v, d : <<a, v, d>> \in R => Snapshot(a, v, d, R)

LEMMA Grow ==
  ASSUME NEW R, NEW Q, R \subseteq Q
  PROVE  /\ \A array, fields, t, done, d :
              Fits(array, fields, t, done, d, R) => Fits(array, fields, t, done, d, Q)
         /\ \A a, v, d : Snapshot(a, v, d, R) => Snapshot(a, v, d, Q)
<1>1. \A array, fields, t, done, d :
        Fits(array, fields, t, done, d, R) => Fits(array, fields, t, done, d, Q)
  BY DEF Fits
<1> QED BY <1>1 DEF Snapshot

\* One more snapshot.
LEMMA OneMore ==
  ASSUME NEW R, Closed(R), NEW a, NEW v, NEW d, NEW Q, Q = R \cup {<<a, v, d>>},
         Snapshot(a, v, d, R)
  PROVE  Closed(Q) /\ R \subseteq Q /\ <<a, v, d>> \in Q
<1>1. R \subseteq Q /\ <<a, v, d>> \in Q
  OBVIOUS
<1>2. ASSUME NEW b, NEW w, NEW e, <<b, w, e>> \in Q PROVE Snapshot(b, w, e, R)
  BY <1>2 DEF Closed
<1> QED BY <1>1, <1>2, Grow DEF Closed

\* A value that is not opened is a snapshot by itself.
LEMMA FlatSnapshot ==
  ASSUME NEW v \in Value, NEW d \in 0..MaxTableDepth, ~IsOpened(v, d), NEW R
  PROVE  Snapshot(ReadFlat(v), v, d, R)
<1>1. MaxTableDepth \in Nat
  BY ArgumentAssumption
<1>2. CASE v.kind = "table"
  <2>1. ~(d < MaxTableDepth)
    BY <1>1, <1>2 DEF IsOpened, TooDeep
  <2>2. ReadFlat(v) = Table(<<>>, <<>>)
    BY <1>2 DEF ReadFlat
  <2>3. ReadFlat(v) = Table(ReadFlat(v).array, ReadFlat(v).fields)
    BY <2>2 DEF Table
  <2> QED BY <1>2, <2>1, <2>3 DEF Snapshot
<1>3. CASE v.kind # "table"
  BY <1>3 DEF Snapshot, ReadFlat
<1> QED BY <1>2, <1>3

\* The entries of a table.
LEMMA EntryFacts ==
  ASSUME NEW v \in Value, v.kind = "table", NEW k \in DOMAIN v.entries
  PROVE  /\ v.entries[k] \in Value /\ v.entries[k] # Nil /\ IsKey(k)
         /\ v.entries[k].kind \in {"nil", "string", "number", "function", "table"}
         /\ v.entries[k].kind # "nil"
BY ValueAssumption

\* The array after a store: as long as it has to be, with Nil in between.
LEMMA StoreFacts ==
  ASSUME NEW array, NEW n \in Nat \ {0}, NEW x, IsSeq(array)
  PROVE  LET r == store_sequence_value(array, n, x)
         IN /\ IsSeq(r) /\ Len(r) \in Nat /\ Len(r) >= n /\ Len(r) >= Len(array)
            /\ r[n] = x
            /\ \A i \in 1..Len(r) : i # n => r[i] = IF i <= Len(array) THEN array[i] ELSE Nil
<1>0. PICK r : r = store_sequence_value(array, n, x)
  OBVIOUS
<1> DEFINE l == IF n > Len(array) THEN n ELSE Len(array)
           cell(i) == IF i = n THEN x ELSE IF i <= Len(array) THEN array[i] ELSE Nil
           S == {cell(i) : i \in 1..l}
<1>1. Len(array) \in Nat /\ l \in Nat /\ l >= n /\ l >= Len(array)
  BY SeqFacts
<1>2. r = [i \in 1..l |-> cell(i)]
  BY <1>0 DEF store_sequence_value
<1> HIDE DEF l
<1>3. r \in [1..l -> S]
  BY <1>2
<1> HIDE DEF S
<1>4. r \in Seq(S) /\ Len(r) = l
  BY <1>1, <1>3
<1>5. IsSeq(r)
  BY <1>4 DEF IsSeq
<1>6. \A i \in 1..l : r[i] = cell(i)
  BY <1>2
<1>7. /\ IsSeq(r) /\ Len(r) \in Nat /\ Len(r) >= n /\ Len(r) >= Len(array)
      /\ r[n] = x
      /\ \A i \in 1..Len(r) : i # n => r[i] = IF i <= Len(array) THEN array[i] ELSE Nil
  BY <1>1, <1>4, <1>5, <1>6
<1> QED BY <1>0, <1>7

IsReading(f) ==
  f = [of |-> f.of, left |-> f.left, key |-> f.key, array |-> f.array, fields |-> f.fields]

\* Keys that are neither a position nor a name are passed over.
Storable(k, x, v, e, R) == k[1] = "odd" \/ <<x, v, e>> \in R

\* g is f with the entries of t at `done` stored.
StoredIn(g, f, t, done, e, R) ==
  /\ IsReading(g) /\ g.of = f.of /\ g.left = f.left /\ g.key = f.key
  /\ Fits(g.array, g.fields, t, done, e, R)

\* A store adds one entry to those the table that is read holds.
LEMMA StoredFits ==
  ASSUME NEW f, NEW t, NEW done, NEW e, NEW R, NEW k, NEW x,
         IsReading(f), t \in Value, t.kind = "table", done \subseteq DOMAIN t.entries,
         Fits(f.array, f.fields, t, done, e, R),
         k \in DOMAIN t.entries, k \notin done, Storable(k, x, t.entries[k], e, R)
  PROVE  StoredIn(Stored(f, k, x), f, t, done \cup {k}, e, R)
<1> PICK g : g = Stored(f, k, x)
  OBVIOUS
<1> SUFFICES /\ IsReading(g) /\ g.of = f.of /\ g.left = f.left /\ g.key = f.key
             /\ Fits(g.array, g.fields, t, done \cup {k}, e, R)
  BY DEF StoredIn
<1>0. IsKey(k) /\ \A l \in done : IsKey(l)
  BY EntryFacts
<1>1. k = <<k[1], k[2]>> /\ k[1] \in {"position", "name", "odd"}
      /\ (k[1] = "position" => k[2] \in Nat \ {0})
  BY <1>0 DEF IsKey
<1>2. CASE k[1] = "position"
  <2>1. g = [f EXCEPT !.array = store_sequence_value(f.array, k[2], x)]
    BY <1>2 DEF Stored
  <2>2. g = [of |-> f.of, left |-> f.left, key |-> f.key,
             array |-> store_sequence_value(f.array, k[2], x), fields |-> f.fields]
    BY <2>1 DEF IsReading
  <2>3. PICK r : r = store_sequence_value(f.array, k[2], x)
    OBVIOUS
  <2>4. IsReading(g) /\ g.of = f.of /\ g.left = f.left /\ g.key = f.key
        /\ g.fields = f.fields /\ g.array = r
    BY <2>2, <2>3 DEF IsReading
  <2>5. PICK p \in Nat \ {0} : p = k[2] /\ k = <<"position", p>>
    BY <1>1, <1>2
  <2>6. IsSeq(f.array) /\ Len(f.array) \in Nat
    BY SeqFacts DEF Fits
  <2>7. /\ IsSeq(r) /\ Len(r) \in Nat /\ Len(r) >= p /\ Len(r) >= Len(f.array) /\ r[p] = x
        /\ \A i \in 1..Len(r) : i # p => r[i] = IF i <= Len(f.array) THEN f.array[i] ELSE Nil
    BY <2>3, <2>5, <2>6, StoreFacts
  <2>8. ASSUME NEW n, <<"position", n>> \in done \cup {k}
        PROVE  n \in 1..Len(r) /\ <<r[n], t.entries[<<"position", n>>], e>> \in R
    <3>1. CASE n = p
      BY <2>5, <2>7, <3>1, <1>2 DEF Storable
    <3>2. CASE n # p
      <4>1. <<"position", n>> \in done
        BY <2>8, <3>2, <2>5
      <4>2. n \in 1..Len(f.array) /\ <<f.array[n], t.entries[<<"position", n>>], e>> \in R
        BY <4>1 DEF Fits
      <4> QED BY <4>2, <3>2, <2>6, <2>7
    <3> QED BY <3>1, <3>2
  <2>9. ASSUME NEW n \in 1..Len(r), <<"position", n>> \notin done \cup {k}
        PROVE  r[n] = Nil
    <3>1. n # p /\ <<"position", n>> \notin done
      BY <2>5, <2>9
    <3>2. n <= Len(f.array) => n \in 1..Len(f.array) /\ f.array[n] = Nil
      BY <3>1, <2>6, <2>7 DEF Fits
    <3> QED BY <3>1, <3>2, <2>7
  <2>10. \A n : <<"name", n>> \in done \cup {k} => <<"name", n>> \in done
    BY <2>5
  <2>11. /\ \A i \in 1..Len(f.fields) :
              /\ f.fields[i] = <<f.fields[i][1], f.fields[i][2]>>
              /\ <<"name", f.fields[i][1]>> \in done
              /\ <<f.fields[i][2], t.entries[<<"name", f.fields[i][1]>>], e>> \in R
         /\ \A i, j \in 1..Len(f.fields) : f.fields[i][1] = f.fields[j][1] => i = j
         /\ \A n : <<"name", n>> \in done => \E i \in 1..Len(f.fields) : f.fields[i][1] = n
         /\ IsSeq(f.fields)
    BY DEF Fits
  <2>12. Fits(r, f.fields, t, done \cup {k}, e, R)
    BY <2>7, <2>8, <2>9, <2>10, <2>11 DEF Fits
  <2> QED BY <2>4, <2>12
<1>3. CASE k[1] = "name"
  <2>1. g = [f EXCEPT !.fields = Append(f.fields, <<k[2], x>>)]
    BY <1>3 DEF Stored
  <2>2. g = [of |-> f.of, left |-> f.left, key |-> f.key, array |-> f.array,
             fields |-> Append(f.fields, <<k[2], x>>)]
    BY <2>1 DEF IsReading
  <2>3. PICK r : r = Append(f.fields, <<k[2], x>>)
    OBVIOUS
  <2>4. IsReading(g) /\ g.of = f.of /\ g.left = f.left /\ g.key = f.key
        /\ g.array = f.array /\ g.fields = r
    BY <2>2, <2>3 DEF IsReading
  <2>5. PICK m : m = k[2] /\ k = <<"name", m>>
    BY <1>1, <1>3
  <2>6. IsSeq(f.fields) /\ Len(f.fields) \in Nat
    BY SeqFacts DEF Fits
  <2>7. /\ IsSeq(r) /\ Len(r) = Len(f.fields) + 1 /\ r[Len(r)] = <<m, x>>
        /\ \A i \in 1..Len(f.fields) : r[i] = f.fields[i]
    BY <2>3, <2>5, <2>6, AppendFacts
  <2>8. \A i \in 1..Len(f.fields) : f.fields[i][1] # m
    <3>1. \A i \in 1..Len(f.fields) : <<"name", f.fields[i][1]>> \in done
      BY DEF Fits
    <3> QED BY <3>1, <2>5
  <2>9. \A n : <<"position", n>> \in done \cup {k} <=> <<"position", n>> \in done
    BY <2>5
  <2>10. ASSUME NEW i \in 1..Len(r)
         PROVE  /\ r[i] = <<r[i][1], r[i][2]>>
                /\ <<"name", r[i][1]>> \in done \cup {k}
                /\ <<r[i][2], t.entries[<<"name", r[i][1]>>], e>> \in R
    <3>1. CASE i = Len(r)
      BY <3>1, <2>5, <2>7, <1>3 DEF Storable
    <3>2. CASE i # Len(r)
      <4>1. i \in 1..Len(f.fields)
        BY <3>2, <2>6, <2>7
      <4> QED BY <4>1, <2>7 DEF Fits
    <3> QED BY <3>1, <3>2
  <2>11. \A i, j \in 1..Len(r) : r[i][1] = r[j][1] => i = j
    <3>1. \A i \in 1..Len(r) : i # Len(r) => i \in 1..Len(f.fields)
      BY <2>6, <2>7
    <3>2. r[Len(r)][1] = m
      BY <2>7
    <3>3. \A i, j \in 1..Len(f.fields) : f.fields[i][1] = f.fields[j][1] => i = j
      BY DEF Fits
    <3> QED BY <3>1, <3>2, <3>3, <2>7, <2>8
  <2>12. ASSUME NEW n, <<"name", n>> \in done \cup {k}
         PROVE  \E i \in 1..Len(r) : r[i][1] = n
    <3>1. CASE n = m
      <4>1. Len(r) \in 1..Len(r) /\ r[Len(r)][1] = n
        BY <2>6, <2>7, <3>1
      <4> QED BY <4>1
    <3>2. CASE n # m
      <4>1. <<"name", n>> \in done
        BY <2>12, <3>2, <2>5
      <4>2. PICK i \in 1..Len(f.fields) : f.fields[i][1] = n
        BY <4>1 DEF Fits
      <4>3. i \in 1..Len(r) /\ r[i][1] = n
        BY <4>2, <2>6, <2>7
      <4> QED BY <4>3
    <3> QED BY <3>1, <3>2
  <2> QED BY <2>4, <2>7, <2>9, <2>10, <2>11, <2>12 DEF Fits
<1>4. CASE k[1] = "odd"
  <2>1. g = f
    BY <1>4 DEF Stored
  <2>2. \A n : /\ <<"position", n>> \in done \cup {k} <=> <<"position", n>> \in done
               /\ <<"name", n>> \in done \cup {k} <=> <<"name", n>> \in done
    BY <1>4
  <2> QED BY <2>1, <2>2 DEF Fits
<1> QED BY <1>1, <1>2, <1>3, <1>4

-----------------------------------------------------------------------------
(* Reading.                                                                 *)

\* The innermost call has stored the entries it has visited, in a table whose
\* parts have depth e.
InnerFrame(f, e, R) ==
  /\ IsReading(f) /\ f.of \in Value /\ f.of.kind = "table"
  /\ f.left \subseteq DOMAIN f.of.entries
  /\ Fits(f.array, f.fields, f.of, DOMAIN f.of.entries \ f.left, e, R)

\* Every other one waits for the table at its key, which is `inner`.
OuterFrame(f, inner, e, R) ==
  /\ IsReading(f) /\ f.of \in Value /\ f.of.kind = "table"
  /\ f.left \subseteq DOMAIN f.of.entries
  /\ f.key \in DOMAIN f.of.entries \ f.left /\ f.key[1] # "odd" /\ inner = f.of.entries[f.key]
  /\ Fits(f.array, f.fields, f.of, (DOMAIN f.of.entries \ f.left) \ {f.key}, e, R)

\* The arguments read so far are snapshots of theirs, and the next one is open.
Reads(q, read, in, R) ==
  /\ IsSeq(q) /\ IsSeq(read) /\ Len(q) <= MaxTableDepth /\ Len(read) <= Len(in)
  /\ \A i \in 1..Len(read) : <<read[i], in[i], 0>> \in R
  /\ \A i \in 1..Len(q) - 1 : OuterFrame(q[i], q[i + 1].of, i, R)
  /\ q # <<>> => /\ InnerFrame(q[Len(q)], Len(q), R)
                 /\ Len(read) < Len(in) /\ q[1].of = in[Len(read) + 1]

LEMMA FramesGrow ==
  ASSUME NEW R, NEW Q, R \subseteq Q
  PROVE  /\ \A f, e : InnerFrame(f, e, R) => InnerFrame(f, e, Q)
         /\ \A f, inner, e : OuterFrame(f, inner, e, R) => OuterFrame(f, inner, e, Q)
BY Grow DEF InnerFrame, OuterFrame

LEMMA OpenedFrame ==
  ASSUME NEW v \in Value, v.kind = "table", NEW e, NEW R, NEW f, f = Opened(v)
  PROVE  InnerFrame(f, e, R) /\ f.of = v
<1>1. IsReading(f) /\ f.of = v /\ f.left = DOMAIN v.entries /\ f.array = <<>> /\ f.fields = <<>>
  BY DEF Opened, IsReading
<1>2. IsSeq(<<>>) /\ Len(<<>>) = 0
  BY OneAndTwo
<1>3. Fits(f.array, f.fields, f.of, DOMAIN f.of.entries \ f.left, e, R)
  BY <1>1, <1>2 DEF Fits
<1> QED BY <1>1, <1>3 DEF InnerFrame

\* One more argument has been read.
LEMMA ArgumentRead ==
  ASSUME NEW read, NEW in, NEW R, Reads(<<>>, read, in, R), Len(in) \in Nat, Len(read) < Len(in),
         NEW Q, R \subseteq Q, NEW a, <<a, in[Len(read) + 1], 0>> \in Q
  PROVE  Reads(<<>>, Append(read, a), in, Q)
<1>1. PICK r : r = Append(read, a)
  OBVIOUS
<1>2. IsSeq(read) /\ Len(read) \in Nat
  BY SeqFacts DEF Reads
<1>3. /\ IsSeq(r) /\ Len(r) = Len(read) + 1 /\ r[Len(read) + 1] = a
      /\ \A i \in 1..Len(read) : r[i] = read[i]
  BY <1>1, <1>2, AppendFacts
<1>4. ASSUME NEW i \in 1..Len(r) PROVE <<r[i], in[i], 0>> \in Q
  <2>1. CASE i = Len(read) + 1
    BY <2>1, <1>3
  <2>2. CASE i # Len(read) + 1
    <3>1. i \in 1..Len(read)
      BY <2>2, <1>2, <1>3
    <3>2. <<read[i], in[i], 0>> \in R
      BY <3>1 DEF Reads
    <3> QED BY <3>1, <3>2, <1>3
  <2> QED BY <2>1, <2>2
<1>5. IsSeq(<<>>) /\ Len(<<>>) = 0 /\ MaxTableDepth \in Nat
  BY OneAndTwo, ArgumentAssumption
<1>6. Reads(<<>>, r, in, Q)
  BY <1>2, <1>3, <1>4, <1>5 DEF Reads
<1> QED BY <1>1, <1>6

\* The first call goes into the table that is the next argument.
LEMMA ArgumentOpened ==
  ASSUME NEW read, NEW in, NEW R, Reads(<<>>, read, in, R), Len(in) \in Nat, Len(read) < Len(in),
         NEW v \in Value, v = in[Len(read) + 1], IsOpened(v, 0)
  PROVE  Reads(<<Opened(v)>>, read, in, R)
<1>1. PICK f : f = Opened(v)
  OBVIOUS
<1>2. PICK q : q = <<f>>
  OBVIOUS
<1>3. IsSeq(q) /\ Len(q) = 1 /\ q[1] = f /\ q # <<>>
  BY <1>2, OneAndTwo
<1>4. MaxTableDepth \in Nat \ {0} /\ v.kind = "table"
  BY ArgumentAssumption DEF IsOpened
<1>5. InnerFrame(f, 1, R) /\ f.of = v
  BY <1>1, <1>4, OpenedFrame
<1>6. InnerFrame(q[Len(q)], Len(q), R) /\ q[1].of = in[Len(read) + 1]
  BY <1>3, <1>5
<1>7. Reads(q, read, in, R)
  BY <1>3, <1>4, <1>6 DEF Reads
<1> QED BY <1>1, <1>2, <1>7

\* A turn of the loop that goes into a table.
LEMMA EntryNested ==
  ASSUME NEW q, NEW read, NEW in, NEW R, Reads(q, read, in, R), q # <<>>,
         NEW f, f = q[Len(q)], NEW k \in f.left, k[1] # "odd",
         NEW v, v = f.of.entries[k], IsOpened(v, Len(q)),
         NEW g, g = [f EXCEPT !.left = f.left \ {k}, !.key = k],
         NEW r, r = Nested(q, g, Opened(v))
  PROVE  Reads(r, read, in, R)
<1>1. PICK o : o = Opened(v)
  OBVIOUS
<1>2. IsSeq(q) /\ r = Nested(q, g, o)
  BY <1>1 DEF Reads
<1>3. PICK n \in Nat \ {0} : n = Len(q)
  BY <1>2, SeqFacts
<1>4. /\ IsSeq(r) /\ Len(r) = n + 1 /\ r[n] = g /\ r[n + 1] = o
      /\ \A i \in 1..n - 1 : r[i] = q[i]
  <2>1. IsNested(r, q, g, o)
    BY <1>2, ReplaceAndNest
  <2> QED BY <2>1, <1>3 DEF IsNested
<1>5. MaxTableDepth \in Nat /\ n < MaxTableDepth /\ v.kind = "table"
  BY <1>3, ArgumentAssumption DEF IsOpened, TooDeep
<1>6. InnerFrame(f, n, R)
  BY <1>3 DEF Reads
<1>7. /\ IsReading(f) /\ f.of \in Value /\ f.of.kind = "table"
      /\ f.left \subseteq DOMAIN f.of.entries
      /\ Fits(f.array, f.fields, f.of, DOMAIN f.of.entries \ f.left, n, R)
  BY <1>6 DEF InnerFrame
<1>8. /\ IsReading(g) /\ g.of = f.of /\ g.left = f.left \ {k} /\ g.key = k
      /\ g.array = f.array /\ g.fields = f.fields
  BY <1>7 DEF IsReading
<1>9. v \in Value
  BY <1>7, EntryFacts
<1>10. InnerFrame(o, n + 1, R) /\ o.of = v
  BY <1>1, <1>5, <1>9, OpenedFrame
<1>11. OuterFrame(g, v, n, R)
  <2>1. /\ k \in DOMAIN g.of.entries \ g.left /\ g.left \subseteq DOMAIN g.of.entries
        /\ (DOMAIN g.of.entries \ g.left) \ {k} = DOMAIN f.of.entries \ f.left
    BY <1>7, <1>8
  <2> QED BY <1>7, <1>8, <2>1 DEF OuterFrame
<1>12. ASSUME NEW i \in 1..n PROVE OuterFrame(r[i], r[i + 1].of, i, R)
  <2>1. CASE i = n
    BY <2>1, <1>4, <1>10, <1>11
  <2>2. CASE i # n
    <3>1. OuterFrame(q[i], q[i + 1].of, i, R)
      BY <2>2, <1>3 DEF Reads
    <3>2. r[i] = q[i]
      <4>1. i \in 1..n - 1
        BY <2>2
      <4> QED BY <4>1, <1>4
    <3>3. r[i + 1].of = q[i + 1].of
      <4>1. CASE i + 1 = n
        BY <4>1, <1>3, <1>4, <1>8
      <4>2. CASE i + 1 # n
        BY <4>2, <2>2, <1>3, <1>4
      <4> QED BY <4>1, <4>2
    <3> QED BY <3>1, <3>2, <3>3
  <2> QED BY <2>1, <2>2
<1>13. r[1].of = q[1].of
  <2>1. CASE n = 1
    BY <2>1, <1>3, <1>4, <1>8
  <2>2. CASE n # 1
    <3>1. 1 \in 1..n - 1
      BY <2>2
    <3> QED BY <3>1, <1>4
  <2> QED BY <2>1, <2>2
<1>14. InnerFrame(r[Len(r)], Len(r), R) /\ Len(r) <= MaxTableDepth /\ Len(r) - 1 = n
  BY <1>4, <1>5, <1>10
<1> QED BY <1>4, <1>12, <1>13, <1>14 DEF Reads

\* Call n has become the innermost one and has stored one more entry.
LEMMA TopStored ==
  ASSUME NEW q, NEW read, NEW in, NEW R, Reads(q, read, in, R),
         NEW n \in 1..Len(q), NEW p, IsSeq(p), p # <<>>, Len(p) = n,
         \A i \in 1..n - 1 : p[i] = q[i],
         NEW Q, R \subseteq Q,
         NEW g, g.of = q[n].of, InnerFrame(g, n, Q),
         NEW r, r = Replaced(p, g)
  PROVE  Reads(r, read, in, Q)
<1>1. Len(q) \in Nat /\ MaxTableDepth \in Nat /\ q # <<>>
  BY SeqFacts, ArgumentAssumption DEF Reads
<1>2. IsReplaced(r, p, g)
  BY ReplaceTop
<1>3. IsSeq(r) /\ Len(r) = n /\ r[n] = g /\ \A i \in 1..n - 1 : r[i] = q[i]
  BY <1>2 DEF IsReplaced
<1>4. ASSUME NEW i \in 1..n - 1 PROVE OuterFrame(r[i], r[i + 1].of, i, Q)
  <2>1. i \in 1..Len(q) - 1
    BY <1>1
  <2>2. OuterFrame(q[i], q[i + 1].of, i, R)
    BY <2>1 DEF Reads
  <2>3. OuterFrame(q[i], q[i + 1].of, i, Q)
    BY <2>2, FramesGrow
  <2>4. r[i + 1].of = q[i + 1].of
    <3>1. CASE i + 1 = n
      BY <3>1, <1>3
    <3>2. CASE i + 1 # n
      BY <3>2, <1>1, <1>3
    <3> QED BY <3>1, <3>2
  <2> QED BY <2>3, <2>4, <1>3
<1>5. r[1].of = q[1].of
  <2>1. CASE n = 1
    BY <2>1, <1>3
  <2>2. CASE n # 1
    <3>1. 1 \in 1..n - 1
      BY <2>2, <1>1
    <3> QED BY <3>1, <1>3
  <2> QED BY <2>1, <2>2
<1>6. Len(r) <= MaxTableDepth /\ InnerFrame(r[Len(r)], Len(r), Q)
  BY <1>1, <1>3 DEF Reads
<1>7. /\ IsSeq(read) /\ Len(read) <= Len(in) /\ Len(read) < Len(in)
      /\ r[1].of = in[Len(read) + 1]
      /\ \A i \in 1..Len(read) : <<read[i], in[i], 0>> \in Q
  BY <1>1, <1>5 DEF Reads
<1>8. \A i \in 1..Len(r) - 1 : OuterFrame(r[i], r[i + 1].of, i, Q)
  BY <1>3, <1>4
<1> QED BY <1>3, <1>6, <1>7, <1>8 DEF Reads

\* A turn of the loop that stores a value.
LEMMA EntryStored ==
  ASSUME NEW q, NEW read, NEW in, NEW R, Reads(q, read, in, R), q # <<>>,
         NEW f, f = q[Len(q)], NEW k \in f.left, NEW Q, R \subseteq Q,
         NEW x, Storable(k, x, f.of.entries[k], Len(q), Q),
         NEW g, g = [f EXCEPT !.left = f.left \ {k}, !.key = k],
         NEW r, r = Replaced(q, Stored(g, k, x))
  PROVE  Reads(r, read, in, Q)
<1>1. PICK s : s = Stored(g, k, x)
  OBVIOUS
<1>2. IsSeq(q) /\ r = Replaced(q, s)
  BY <1>1 DEF Reads
<1>3. PICK n \in Nat \ {0} : n = Len(q)
  BY <1>2, SeqFacts
<1>4. InnerFrame(f, n, Q)
  BY <1>3, FramesGrow DEF Reads
<1>5. /\ IsReading(f) /\ f.of \in Value /\ f.of.kind = "table"
      /\ f.left \subseteq DOMAIN f.of.entries
      /\ Fits(f.array, f.fields, f.of, DOMAIN f.of.entries \ f.left, n, Q)
  BY <1>4 DEF InnerFrame
<1>6. /\ IsReading(g) /\ g.of = f.of /\ g.left = f.left \ {k}
      /\ g.array = f.array /\ g.fields = f.fields
  BY <1>5 DEF IsReading
<1>7. PICK t \in Value : t = f.of /\ t.kind = "table"
  BY <1>5
<1>8. PICK done : done = DOMAIN t.entries \ f.left /\ done \subseteq DOMAIN t.entries
  OBVIOUS
<1>9. k \in DOMAIN t.entries /\ k \notin done /\ done \cup {k} = DOMAIN t.entries \ g.left
  BY <1>5, <1>6, <1>7, <1>8
<1>10. /\ Storable(k, x, t.entries[k], n, Q)
       /\ Fits(g.array, g.fields, t, done, n, Q)
  BY <1>3, <1>5, <1>6, <1>7, <1>8
<1>11. /\ IsReading(s) /\ s.of = g.of /\ s.left = g.left
       /\ Fits(s.array, s.fields, t, done \cup {k}, n, Q)
  <2>1. /\ IsReading(g) /\ t \in Value /\ t.kind = "table" /\ done \subseteq DOMAIN t.entries
        /\ k \in DOMAIN t.entries /\ k \notin done
    BY <1>6, <1>7, <1>8, <1>9
  <2>2. StoredIn(s, g, t, done \cup {k}, n, Q)
    BY <1>1, <1>10, <2>1, StoredFits
  <2> QED BY <2>2 DEF StoredIn
<1>12. InnerFrame(s, n, Q) /\ s.of = q[n].of
  BY <1>3, <1>5, <1>6, <1>7, <1>9, <1>11 DEF InnerFrame
<1>13. n \in 1..Len(q) /\ Len(q) = n
  BY <1>3
<1> QED BY <1>2, <1>12, <1>13, TopStored

\* A table that has been read to its end is a snapshot.
LEMMA TableRead ==
  ASSUME NEW q, NEW read, NEW in, NEW R, Reads(q, read, in, R), q # <<>>,
         NEW f, f = q[Len(q)], f.left = {},
         NEW a, a = Table(f.array, f.fields)
  PROVE  Snapshot(a, f.of, Len(q) - 1, R)
<1>1. PICK n \in Nat \ {0} : n = Len(q)
  BY SeqFacts DEF Reads
<1>2. PICK d : d = n - 1 /\ d \in Nat /\ d + 1 = n
  BY <1>1
<1>3. MaxTableDepth \in Nat /\ n <= MaxTableDepth
  BY <1>1, ArgumentAssumption DEF Reads
<1>4. d \in 0..MaxTableDepth
  BY <1>1, <1>2, <1>3
<1>5. InnerFrame(f, n, R)
  BY <1>1 DEF Reads
<1>6. DOMAIN f.of.entries \ f.left = DOMAIN f.of.entries
  OBVIOUS
<1>7. /\ f.of \in Value /\ f.of.kind = "table"
      /\ Fits(f.array, f.fields, f.of, DOMAIN f.of.entries, d + 1, R)
  BY <1>2, <1>5, <1>6 DEF InnerFrame
<1>8. a.array = f.array /\ a.fields = f.fields /\ a = Table(a.array, a.fields)
  BY DEF Table
<1>9. Snapshot(a, f.of, d, R)
  BY <1>4, <1>7, <1>8 DEF Snapshot
<1> QED BY <1>1, <1>2, <1>9

\* A nested call returns its table to the one that made it.
LEMMA NestedEnd ==
  ASSUME NEW q, NEW read, NEW in, NEW R, Reads(q, read, in, R), q # <<>>, Front(q) # <<>>,
         NEW f, f = q[Len(q)], NEW h, h = Front(q), NEW o, o = h[Len(h)],
         NEW Q, R \subseteq Q, NEW a, <<a, f.of, Len(q) - 1>> \in Q,
         NEW r, r = Replaced(h, Stored(o, o.key, a))
  PROVE  Reads(r, read, in, Q)
<1>1. PICK s : s = Stored(o, o.key, a)
  OBVIOUS
<1>2. IsSeq(q)
  BY DEF Reads
<1>3. IsSeq(h) /\ Len(h) = Len(q) - 1 /\ \A i \in 1..Len(q) - 1 : h[i] = q[i]
  BY <1>2, FrontFacts
<1>4. PICK n \in Nat \ {0} : n = Len(h)
  BY <1>3, SeqFacts
<1>5. Len(q) = n + 1 /\ o = q[n] /\ n \in 1..Len(q) - 1 /\ n \in 1..Len(q)
      /\ \A i \in 1..n - 1 : h[i] = q[i]
  BY <1>2, <1>3, <1>4, SeqFacts
<1>6. OuterFrame(q[n], q[n + 1].of, n, R)
  BY <1>5 DEF Reads
<1>7. OuterFrame(o, f.of, n, Q)
  BY <1>5, <1>6, FramesGrow
<1>8. /\ IsReading(o) /\ o.of \in Value /\ o.of.kind = "table"
      /\ o.left \subseteq DOMAIN o.of.entries
      /\ o.key \in DOMAIN o.of.entries \ o.left /\ f.of = o.of.entries[o.key]
      /\ Fits(o.array, o.fields, o.of, (DOMAIN o.of.entries \ o.left) \ {o.key}, n, Q)
  BY <1>7 DEF OuterFrame
<1>9. PICK k : k = o.key
  OBVIOUS
<1>10. PICK t : t = o.of
  OBVIOUS
<1>11. PICK done : done = (DOMAIN t.entries \ o.left) \ {k}
  OBVIOUS
<1>12. /\ t \in Value /\ t.kind = "table" /\ done \subseteq DOMAIN t.entries
       /\ k \in DOMAIN t.entries /\ k \notin done /\ done \cup {k} = DOMAIN t.entries \ o.left
       /\ Fits(o.array, o.fields, t, done, n, Q)
  BY <1>8, <1>9, <1>10, <1>11
<1>13. Storable(k, a, t.entries[k], n, Q)
  BY <1>5, <1>8, <1>9, <1>10 DEF Storable
<1>14. StoredIn(s, o, t, done \cup {k}, n, Q)
  BY <1>1, <1>8, <1>9, <1>12, <1>13, StoredFits
<1>15. InnerFrame(s, n, Q) /\ s.of = q[n].of
  BY <1>5, <1>8, <1>10, <1>12, <1>14 DEF InnerFrame, StoredIn
<1>16. h # <<>> /\ r = Replaced(h, s) /\ Len(h) = n
  BY <1>1, <1>4
<1> QED BY <1>3, <1>5, <1>15, <1>16, TopStored

\* The outermost call returns its table: an argument has been read.
LEMMA OutermostEnd ==
  ASSUME NEW q, NEW read, NEW in, NEW R, Reads(q, read, in, R), q # <<>>, Front(q) = <<>>,
         Len(in) \in Nat, NEW Q, R \subseteq Q,
         NEW a, <<a, q[Len(q)].of, Len(q) - 1>> \in Q
  PROVE  Reads(<<>>, Append(read, a), in, Q)
<1>1. IsSeq(q) /\ IsSeq(<<>>) /\ Len(<<>>) = 0
  BY OneAndTwo DEF Reads
<1>2. Len(q) = 1
  <2>1. Len(Front(q)) = Len(q) - 1 /\ Len(q) \in Nat
    BY <1>1, FrontFacts, SeqFacts
  <2> QED BY <1>1, <2>1
<1>3. q[Len(q)].of = in[Len(read) + 1] /\ Len(read) < Len(in) /\ Len(q) - 1 = 0
  BY <1>2 DEF Reads
<1>4. <<a, in[Len(read) + 1], 0>> \in Q
  BY <1>3
<1>5. Reads(<<>>, read, in, R)
  BY <1>1, ArgumentAssumption DEF Reads
<1> QED BY <1>3, <1>4, <1>5, ArgumentRead

\* The call that is made.
CallInv == \E call \in Inputs : called = call.function /\ input = call.values

LEMMA CallFacts ==
  ASSUME CallInv
  PROVE  /\ input \in Seq(Value) /\ Len(input) \in Nat /\ IsSeq(input)
         /\ \A i \in 1..Len(input) : input[i] \in Value
         /\ \/ called = "echo"
            \/ /\ called = "table_set" /\ Len(input) = 2
               /\ input[1].kind = "table" /\ input[2].kind = "string"
               /\ WithEntry(input[1], <<"name", "name">>, input[2]) \in Value
            \/ called = "table_get" /\ Len(input) = 1 /\ input[1].kind = "table"
<1>1. PICK call \in Inputs : called = call.function /\ input = call.values
  BY DEF CallInv
<1>2. input \in Seq(Value)
  BY <1>1, CallAssumption
<1>3. Len(input) \in Nat /\ IsSeq(input) /\ \A i \in 1..Len(input) : input[i] \in Value
  BY <1>2 DEF IsSeq
<1>4. \/ called = "echo"
      \/ /\ called = "table_set" /\ Len(input) = 2
         /\ input[1].kind = "table" /\ input[2].kind = "string"
         /\ WithEntry(input[1], <<"name", "name">>, input[2]) \in Value
      \/ called = "table_get" /\ Len(input) = 1 /\ input[1].kind = "table"
  BY <1>1, CallAssumption
<1> QED BY <1>2, <1>3, <1>4

\* Whatever key lua_next returns, reading goes on from snapshots to snapshots.
LEMMA ReadStep ==
  ASSUME CallInv, NEW R, Closed(R), Reads(reading, arguments, input, R),
         read_argument \/ read_entry \/ read_table_end
  PROVE  \E Q : Closed(Q) /\ R \subseteq Q /\ Reads(reading', arguments', input, Q)
<1>1. IsSeq(reading) /\ MaxTableDepth \in Nat \ {0} /\ Len(input) \in Nat
  BY CallFacts, ArgumentAssumption DEF Reads
<1>2. ASSUME read_argument
      PROVE  \E Q : Closed(Q) /\ R \subseteq Q /\ Reads(reading', arguments', input, Q)
  <2>1. Reads(<<>>, arguments, input, R) /\ Len(arguments) < Len(input)
    BY <1>2 DEF read_argument
  <2>2. PICK v : v = input[Len(arguments) + 1]
    OBVIOUS
  <2>3. v \in Value
    <3>1. IsSeq(arguments)
      BY <2>1 DEF Reads
    <3>2. Len(arguments) + 1 \in 1..Len(input)
      BY <1>1, <2>1, <3>1, SeqFacts
    <3> QED BY <2>2, <3>2, CallFacts
  <2>4. CASE IsOpened(v, 0)
    <3>1. reading' = <<Opened(v)>> /\ arguments' = arguments
      BY <1>2, <2>2, <2>4 DEF read_argument
    <3>2. Reads(<<Opened(v)>>, arguments, input, R)
      BY <1>1, <2>1, <2>2, <2>3, <2>4, ArgumentOpened
    <3>3. Reads(reading', arguments', input, R)
      BY <3>1, <3>2
    <3> QED BY <3>3
  <2>5. CASE ~IsOpened(v, 0)
    <3>1. reading' = <<>> /\ arguments' = Append(arguments, ReadFlat(v))
      BY <1>2, <2>2, <2>5 DEF read_argument
    <3>2. PICK a : a = ReadFlat(v)
      OBVIOUS
    <3>3. 0 \in 0..MaxTableDepth
      BY <1>1
    <3>4. Snapshot(a, v, 0, R)
      BY <2>3, <2>5, <3>2, <3>3, FlatSnapshot
    <3>5. PICK Q : Q = R \cup {<<a, v, 0>>}
      OBVIOUS
    <3>6. Closed(Q) /\ R \subseteq Q /\ <<a, v, 0>> \in Q
      BY <3>4, <3>5, OneMore
    <3>7. Reads(<<>>, Append(arguments, a), input, Q)
      BY <1>1, <2>1, <2>2, <3>6, ArgumentRead
    <3> QED BY <3>1, <3>2, <3>6, <3>7
  <2> QED BY <2>4, <2>5
<1>3. ASSUME read_entry
      PROVE  \E Q : Closed(Q) /\ R \subseteq Q /\ Reads(reading', arguments', input, Q)
  <2>1. PICK f : f = reading[Len(reading)] /\ f = Top(reading)
    BY DEF Top
  <2>2. reading # <<>> /\ arguments' = arguments
    BY <1>3 DEF read_entry
  <2>3. PICK k \in f.left :
          LET v == f.of.entries[k]
              g == [f EXCEPT !.left = f.left \ {k}, !.key = k]
          IN reading' =
               Front(reading) \o
                 (IF k[1] # "odd" /\ IsOpened(v, Len(reading))
                  THEN <<g, Opened(v)>> ELSE <<Stored(g, k, ReadFlat(v))>>)
    BY <1>3, <2>1 DEF read_entry
  <2>4. PICK v : v = f.of.entries[k]
    OBVIOUS
  <2>5. PICK g : g = [f EXCEPT !.left = f.left \ {k}, !.key = k]
    OBVIOUS
  <2>6. CASE k[1] # "odd" /\ IsOpened(v, Len(reading))
    <3>1. reading' = Nested(reading, g, Opened(v))
      BY <2>3, <2>4, <2>5, <2>6 DEF Nested
    <3>2. Reads(reading', arguments, input, R)
      BY <2>1, <2>2, <2>4, <2>5, <2>6, <3>1, EntryNested
    <3> QED BY <2>2, <3>2
  <2>7. CASE ~(k[1] # "odd" /\ IsOpened(v, Len(reading)))
    <3>1. PICK x : x = ReadFlat(v)
      OBVIOUS
    <3>2. reading' = Replaced(reading, Stored(g, k, x))
      BY <2>3, <2>4, <2>5, <2>7, <3>1 DEF Replaced
    <3>3. PICK Q : Closed(Q) /\ R \subseteq Q /\ Storable(k, x, v, Len(reading), Q)
      <4>1. CASE k[1] = "odd"
        BY <4>1 DEF Storable
      <4>2. CASE k[1] # "odd"
        <5>1. InnerFrame(f, Len(reading), R)
          BY <2>1, <2>2 DEF Reads
        <5>2. v \in Value
          BY <5>1, <2>4, EntryFacts DEF InnerFrame
        <5>3. Len(reading) \in 0..MaxTableDepth
          BY <1>1, SeqFacts DEF Reads
        <5>4. PICK n : n = Len(reading)
          OBVIOUS
        <5>5. Snapshot(x, v, n, R)
          BY <2>7, <3>1, <4>2, <5>2, <5>3, <5>4, FlatSnapshot
        <5>6. PICK Q : Q = R \cup {<<x, v, n>>}
          OBVIOUS
        <5>7. Closed(Q) /\ R \subseteq Q /\ <<x, v, n>> \in Q
          BY <5>5, <5>6, OneMore
        <5> QED BY <5>4, <5>7 DEF Storable
      <4> QED BY <4>1, <4>2
    <3>4. Reads(reading', arguments, input, Q)
      BY <2>1, <2>2, <2>4, <2>5, <3>2, <3>3, EntryStored
    <3> QED BY <2>2, <3>3, <3>4
  <2> QED BY <2>6, <2>7
<1>4. ASSUME read_table_end
      PROVE  \E Q : Closed(Q) /\ R \subseteq Q /\ Reads(reading', arguments', input, Q)
  <2>1. PICK f : f = reading[Len(reading)] /\ f = Top(reading)
    BY DEF Top
  <2>2. PICK a : a = Table(f.array, f.fields)
    OBVIOUS
  <2>3. reading # <<>> /\ f.left = {}
    BY <1>4, <2>1 DEF read_table_end
  <2>4. Snapshot(a, f.of, Len(reading) - 1, R)
    BY <2>1, <2>2, <2>3, TableRead
  <2>5. PICK Q : Q = R \cup {<<a, f.of, Len(reading) - 1>>}
    OBVIOUS
  <2>6. Closed(Q) /\ R \subseteq Q /\ <<a, f.of, Len(reading) - 1>> \in Q
    BY <2>4, <2>5, OneMore
  <2>7. CASE Front(reading) = <<>>
    <3>1. arguments' = Append(arguments, a) /\ reading' = <<>>
      BY <1>4, <2>1, <2>2, <2>7 DEF read_table_end
    <3>2. Reads(<<>>, Append(arguments, a), input, Q)
      BY <1>1, <2>1, <2>3, <2>6, <2>7, OutermostEnd
    <3> QED BY <2>6, <3>1, <3>2
  <2>8. CASE Front(reading) # <<>>
    <3>1. PICK h : h = Front(reading)
      OBVIOUS
    <3>2. PICK o : o = h[Len(h)] /\ o = Top(h)
      BY DEF Top
    <3>3. arguments' = arguments /\ reading' = Replaced(h, Stored(o, o.key, a))
      BY <1>4, <2>1, <2>2, <2>8, <3>1, <3>2 DEF read_table_end, Replaced
    <3>4. Reads(reading', arguments, input, Q)
      BY <2>1, <2>3, <2>6, <2>8, <3>1, <3>2, <3>3, NestedEnd
    <3> QED BY <2>6, <3>3, <3>4
  <2> QED BY <2>7, <2>8
<1> QED BY <1>2, <1>3, <1>4

-----------------------------------------------------------------------------
(* The results: snapshots of the values that are meant.                     *)

\* What an argument that was read at the outermost level holds of a table.
LEMMA TableFacts ==
  ASSUME NEW R, Closed(R), NEW a, NEW t, <<a, t, 0>> \in R, t.kind = "table"
  PROVE  /\ t \in Value /\ a = Table(a.array, a.fields)
         /\ Fits(a.array, a.fields, t, DOMAIN t.entries, 1, R)
         /\ Len(a.fields) \in Nat /\ IsSeq(a.fields)
<1>1. Snapshot(a, t, 0, R)
  BY DEF Closed
<1>2. 0 < MaxTableDepth /\ 0 + 1 = 1
  BY ArgumentAssumption
<1>3. /\ t \in Value /\ a = Table(a.array, a.fields)
      /\ Fits(a.array, a.fields, t, DOMAIN t.entries, 1, R)
  BY <1>1, <1>2 DEF Snapshot
<1> QED BY <1>3, SeqFacts DEF Fits

\* A name is found at its only place.
LEMMA FindField ==
  ASSUME NEW a, NEW t, NEW R, Fits(a.array, a.fields, t, DOMAIN t.entries, 1, R),
         NEW key
  PROVE  /\ HasField(a, key) <=> <<"name", key>> \in DOMAIN t.entries
         /\ HasField(a, key) => /\ find_field(a, key) \in 1..Len(a.fields)
                                /\ a.fields[find_field(a, key)][1] = key
<1>1. HasField(a, key) <=> <<"name", key>> \in DOMAIN t.entries
  <2>1. ASSUME HasField(a, key) PROVE <<"name", key>> \in DOMAIN t.entries
    <3>1. PICK i \in 1..Len(a.fields) : a.fields[i][1] = key
      BY <2>1 DEF HasField
    <3>2. <<"name", a.fields[i][1]>> \in DOMAIN t.entries
      BY DEF Fits
    <3> QED BY <3>1, <3>2
  <2>2. ASSUME <<"name", key>> \in DOMAIN t.entries PROVE HasField(a, key)
    BY <2>2 DEF Fits, HasField
  <2> QED BY <2>1, <2>2
<1>2. ASSUME HasField(a, key)
      PROVE  find_field(a, key) \in 1..Len(a.fields) /\ a.fields[find_field(a, key)][1] = key
  <2>1. PICK i \in 1..Len(a.fields) : a.fields[i][1] = key
    BY <1>2 DEF HasField
  <2>2. \A j \in 1..Len(a.fields) : a.fields[j][1] = key => j = i
    BY <2>1 DEF Fits
  <2>3. Len(a.fields) \in Nat
    BY SeqFacts DEF Fits
  <2>4. \A j \in 1..i - 1 : a.fields[j][1] # key
    BY <2>1, <2>2, <2>3
  <2>5. \E l \in 1..Len(a.fields) :
          a.fields[l][1] = key /\ \A j \in 1..l - 1 : a.fields[j][1] # key
    BY <2>1, <2>4
  <2> QED BY <2>5 DEF find_field
<1> QED BY <1>1, <1>2

\* A field that is read is that of the table, or the default where it has none.
LEMMA GetField ==
  ASSUME NEW R, Closed(R), NEW a, NEW t, <<a, t, 0>> \in R, t.kind = "table",
         NEW key, DefaultOf[key] \in Value, DefaultOf[key].kind \in {"string", "number"},
         NEW g, g = get_field(a, key), NEW m, m = Field(t, key)
  PROVE  /\ Converts(g, key) <=> m.kind = DefaultOf[key].kind
         /\ Converts(g, key) => Snapshot(g, m, 0, R)
<1>1. /\ t \in Value /\ Fits(a.array, a.fields, t, DOMAIN t.entries, 1, R)
  BY TableFacts
<1>2. MaxTableDepth \in Nat
  BY ArgumentAssumption
<1>3. CASE HasField(a, key)
  <2>1. PICK i \in 1..Len(a.fields) : i = find_field(a, key) /\ a.fields[i][1] = key
    BY <1>1, <1>3, FindField
  <2>2. <<"name", key>> \in DOMAIN t.entries
    BY <1>1, <1>3, FindField
  <2>3. g = a.fields[i][2] /\ m = t.entries[<<"name", key>>]
    BY <1>3, <2>1, <2>2 DEF get_field, Field
  <2>4. <<a.fields[i][2], t.entries[<<"name", a.fields[i][1]>>], 1>> \in R
    BY <1>1 DEF Fits
  <2>5. <<g, m, 1>> \in R
    BY <2>1, <2>3, <2>4
  <2>6. Snapshot(g, m, 1, R)
    BY <2>5 DEF Closed
  <2>7. m \in Value
    BY <2>6 DEF Snapshot
  <2>8. CASE m.kind = "function"
    <3>1. g = None
      BY <2>6, <2>8 DEF Snapshot
    <3>2. g.kind = "none"
      BY <3>1 DEF None
    <3> QED BY <2>8, <3>2 DEF Converts
  <2>9. CASE m.kind = "table"
    <3>1. g = Table(g.array, g.fields)
      BY <2>6, <2>9 DEF Snapshot
    <3>2. g.kind = "table"
      BY <3>1 DEF Table
    <3> QED BY <2>9, <3>2 DEF Converts
  <2>10. CASE m.kind \notin {"function", "table"}
    <3>1. g = m
      BY <2>6, <2>10 DEF Snapshot
    <3>2. Snapshot(g, m, 0, R)
      BY <1>2, <2>7, <2>10, <3>1 DEF Snapshot
    <3> QED BY <3>1, <3>2 DEF Converts
  <2> QED BY <2>8, <2>9, <2>10
<1>4. CASE ~HasField(a, key)
  <2>1. <<"name", key>> \notin DOMAIN t.entries
    BY <1>1, <1>4, FindField
  <2>2. g = DefaultOf[key] /\ m = DefaultOf[key]
    BY <1>4, <2>1 DEF get_field, Field
  <2>3. Snapshot(g, m, 0, R)
    BY <1>2, <2>2 DEF Snapshot
  <2> QED BY <2>2, <2>3 DEF Converts
<1> QED BY <1>3, <1>4

\* What a table holds when one entry is set.
LEMMA WithEntryFacts ==
  ASSUME NEW t, NEW key, NEW value
  PROVE  LET w == WithEntry(t, key, value)
         IN /\ w.kind = "table"
            /\ DOMAIN w.entries = (DOMAIN t.entries \ {key}) \cup (IF value = Nil THEN {} ELSE {key})
            /\ \A k \in DOMAIN w.entries :
                 w.entries[k] = IF k = key THEN value ELSE t.entries[k]
BY DEF WithEntry, LuaTable

\* A name is set in the snapshot as in the table.
LEMMA SetField ==
  ASSUME NEW R, Closed(R), NEW a, NEW t, <<a, t, 0>> \in R, t.kind = "table",
         NEW x, NEW u, <<x, u, 0>> \in R, u.kind = "string",
         NEW w, w = WithEntry(t, <<"name", "name">>, u), w \in Value
  PROVE  \E Q : Closed(Q) /\ R \subseteq Q /\ <<set_field(a, "name", x), w, 0>> \in Q
<1>1. /\ t \in Value /\ a = Table(a.array, a.fields)
      /\ Fits(a.array, a.fields, t, DOMAIN t.entries, 1, R)
      /\ Len(a.fields) \in Nat /\ IsSeq(a.fields)
  BY TableFacts
<1>2. MaxTableDepth \in Nat \ {0} /\ 0 \in 0..MaxTableDepth /\ 1 \in 0..MaxTableDepth
  BY ArgumentAssumption
<1>3. x = u /\ u \in Value
  <2>1. Snapshot(x, u, 0, R)
    BY DEF Closed
  <2> QED BY <2>1 DEF Snapshot
<1>4. PICK P : P = R \cup {<<x, u, 1>>}
  OBVIOUS
<1>5. Closed(P) /\ R \subseteq P /\ <<x, u, 1>> \in P
  <2>1. Snapshot(x, u, 1, R)
    BY <1>2, <1>3 DEF Snapshot
  <2> QED BY <1>4, <2>1, OneMore
<1>6. PICK K : K = <<"name", "name">>
  OBVIOUS
<1>7. /\ w.kind = "table" /\ DOMAIN w.entries = DOMAIN t.entries \cup {K}
      /\ \A k \in DOMAIN w.entries : w.entries[k] = IF k = K THEN u ELSE t.entries[k]
  <2>1. w = WithEntry(t, K, u)
    BY <1>6
  <2>2. u # Nil
    BY DEF Nil
  <2>3. /\ w.kind = "table"
        /\ DOMAIN w.entries = (DOMAIN t.entries \ {K}) \cup (IF u = Nil THEN {} ELSE {K})
        /\ \A k \in DOMAIN w.entries : w.entries[k] = IF k = K THEN u ELSE t.entries[k]
    BY <2>1, WithEntryFacts
  <2> QED BY <2>2, <2>3
<1>8. /\ \A n : <<"position", n>> \in DOMAIN w.entries <=> <<"position", n>> \in DOMAIN t.entries
      /\ \A n : <<"position", n>> \in DOMAIN t.entries =>
                  w.entries[<<"position", n>>] = t.entries[<<"position", n>>]
      /\ \A n : <<"name", n>> \in DOMAIN w.entries <=>
                  n = "name" \/ <<"name", n>> \in DOMAIN t.entries
      /\ \A n : <<"name", n>> \in DOMAIN t.entries /\ n # "name" =>
                  w.entries[<<"name", n>>] = t.entries[<<"name", n>>]
      /\ w.entries[<<"name", "name">>] = u
  BY <1>6, <1>7
<1>9. PICK fields :
        /\ set_field(a, "name", x) = Table(a.array, fields)
        /\ Fits(a.array, fields, w, DOMAIN w.entries, 1, P)
  <2>1. /\ IsSeq(a.array)
        /\ \A n : <<"position", n>> \in DOMAIN w.entries =>
             n \in 1..Len(a.array) /\ <<a.array[n], w.entries[<<"position", n>>], 1>> \in P
        /\ \A n \in 1..Len(a.array) : <<"position", n>> \notin DOMAIN w.entries => a.array[n] = Nil
    <3>1. /\ IsSeq(a.array)
          /\ \A n : <<"position", n>> \in DOMAIN t.entries =>
               n \in 1..Len(a.array) /\ <<a.array[n], t.entries[<<"position", n>>], 1>> \in P
          /\ \A n \in 1..Len(a.array) : <<"position", n>> \notin DOMAIN t.entries => a.array[n] = Nil
      BY <1>1, <1>5 DEF Fits
    <3> QED BY <3>1, <1>8
  <2>2. /\ \A i \in 1..Len(a.fields) :
             /\ a.fields[i] = <<a.fields[i][1], a.fields[i][2]>>
             /\ <<"name", a.fields[i][1]>> \in DOMAIN t.entries
             /\ <<a.fields[i][2], t.entries[<<"name", a.fields[i][1]>>], 1>> \in P
        /\ \A i, j \in 1..Len(a.fields) : a.fields[i][1] = a.fields[j][1] => i = j
        /\ \A n : <<"name", n>> \in DOMAIN t.entries =>
             \E i \in 1..Len(a.fields) : a.fields[i][1] = n
    BY <1>1, <1>5 DEF Fits
  <2>3. PICK fields, l :
          /\ set_field(a, "name", x) = Table(a.array, fields)
          /\ IsSeq(fields) /\ l \in 1..Len(fields) /\ fields[l] = <<"name", x>>
          /\ \A i \in 1..Len(fields) :
               i # l => i \in 1..Len(a.fields) /\ fields[i] = a.fields[i] /\ fields[i][1] # "name"
          /\ \A i \in 1..Len(a.fields) : i \in 1..Len(fields)
          /\ l \in 1..Len(a.fields) => a.fields[l][1] = "name"
    <3>1. CASE HasField(a, "name")
      <4>1. PICK l \in 1..Len(a.fields) : l = find_field(a, "name") /\ a.fields[l][1] = "name"
        BY <1>1, <3>1, FindField
      <4>2. PICK fields : fields = [a.fields EXCEPT ![l] = <<"name", x>>]
        OBVIOUS
      <4>3. set_field(a, "name", x) = Table(a.array, fields)
        BY <3>1, <4>1, <4>2 DEF set_field
      <4>4. PICK S : a.fields \in Seq(S)
        BY <1>1 DEF IsSeq
      <4>5. fields \in Seq(S \cup {<<"name", x>>}) /\ Len(fields) = Len(a.fields)
        BY <4>1, <4>2, <4>4
      <4>6. fields[l] = <<"name", x>> /\ \A i \in 1..Len(a.fields) : i # l => fields[i] = a.fields[i]
        BY <4>1, <4>2, <4>4
      <4>7. \A i \in 1..Len(a.fields) : i # l => a.fields[i][1] # "name"
        BY <2>2, <4>1
      <4> QED BY <4>1, <4>3, <4>5, <4>6, <4>7 DEF IsSeq
    <3>2. CASE ~HasField(a, "name")
      <4>1. PICK fields : fields = Append(a.fields, <<"name", x>>)
        OBVIOUS
      <4>2. set_field(a, "name", x) = Table(a.array, fields)
        BY <3>2, <4>1 DEF set_field
      <4>3. /\ IsSeq(fields) /\ Len(fields) = Len(a.fields) + 1
            /\ fields[Len(a.fields) + 1] = <<"name", x>>
            /\ \A i \in 1..Len(a.fields) : fields[i] = a.fields[i]
        BY <1>1, <4>1, AppendFacts
      <4>4. PICK l : l = Len(a.fields) + 1
        OBVIOUS
      <4>5. \A i \in 1..Len(a.fields) : a.fields[i][1] # "name"
        BY <3>2 DEF HasField
      <4>6. l \in 1..Len(fields) /\ l \notin 1..Len(a.fields)
        BY <1>1, <4>3, <4>4
      <4>7. \A i \in 1..Len(fields) : i # l => i \in 1..Len(a.fields)
        BY <1>1, <4>3, <4>4
      <4>8. \A i \in 1..Len(a.fields) : i \in 1..Len(fields)
        BY <1>1, <4>3
      <4> QED BY <4>2, <4>3, <4>4, <4>5, <4>6, <4>7, <4>8
    <3> QED BY <3>1, <3>2
  <2>4. fields[l][1] = "name" /\ fields[l][2] = x
    BY <2>3
  <2>5. ASSUME NEW i \in 1..Len(fields)
        PROVE  /\ fields[i] = <<fields[i][1], fields[i][2]>>
               /\ <<"name", fields[i][1]>> \in DOMAIN w.entries
               /\ <<fields[i][2], w.entries[<<"name", fields[i][1]>>], 1>> \in P
    <3>1. CASE i = l
      BY <1>3, <1>5, <1>8, <2>3, <2>4, <3>1
    <3>2. CASE i # l
      <4>1. PICK m, y : m = fields[i][1] /\ y = fields[i][2]
        OBVIOUS
      <4>2. i \in 1..Len(a.fields) /\ fields[i] = a.fields[i] /\ m # "name"
        BY <2>3, <3>2, <4>1
      <4>3. /\ fields[i] = <<m, y>> /\ <<"name", m>> \in DOMAIN t.entries
            /\ <<y, t.entries[<<"name", m>>], 1>> \in P
        BY <2>2, <4>1, <4>2
      <4>4. /\ <<"name", m>> \in DOMAIN w.entries
            /\ w.entries[<<"name", m>>] = t.entries[<<"name", m>>]
        BY <1>8, <4>2, <4>3
      <4> QED BY <4>1, <4>3, <4>4
    <3> QED BY <3>1, <3>2
  <2>6. \A i, j \in 1..Len(fields) : fields[i][1] = fields[j][1] => i = j
    BY <2>2, <2>3, <2>4
  <2>7. ASSUME NEW n, <<"name", n>> \in DOMAIN w.entries
        PROVE  \E i \in 1..Len(fields) : fields[i][1] = n
    <3>1. CASE n = "name"
      BY <2>3, <2>4, <3>1
    <3>2. CASE n # "name"
      <4>1. PICK i \in 1..Len(a.fields) : a.fields[i][1] = n
        BY <1>8, <2>2, <2>7, <3>2
      <4>2. i # l /\ i \in 1..Len(fields)
        BY <2>3, <3>2, <4>1
      <4> QED BY <2>3, <4>1, <4>2
    <3> QED BY <3>1, <3>2
  <2>8. Fits(a.array, fields, w, DOMAIN w.entries, 1, P)
    BY <2>1, <2>3, <2>5, <2>6, <2>7 DEF Fits
  <2> QED BY <2>3, <2>8
<1>10. PICK b : b = set_field(a, "name", x)
  OBVIOUS
<1>11. b = Table(b.array, b.fields) /\ b.array = a.array /\ b.fields = fields
  BY <1>9, <1>10 DEF Table
<1>12. Fits(b.array, b.fields, w, DOMAIN w.entries, 0 + 1, P)
  BY <1>9, <1>11
<1>13. Snapshot(b, w, 0, P)
  BY <1>2, <1>7, <1>11, <1>12 DEF Snapshot
<1>14. PICK Q : Q = P \cup {<<b, w, 0>>}
  OBVIOUS
<1>15. Closed(Q) /\ P \subseteq Q /\ <<b, w, 0>> \in Q
  BY <1>5, <1>13, <1>14, OneMore
<1> QED BY <1>5, <1>10, <1>15

Ready(results, meant, R) ==
  /\ IsSeq(results) /\ Len(results) = Len(meant)
  /\ \A i \in 1..Len(results) : <<results[i], meant[i], 0>> \in R

Mismatch == Field(input[1], "name").kind # "string" \/ Field(input[1], "hp").kind # "number"

ErrorInv ==
  called = "table_get" /\ phase \in {"push", "error"} => (phase = "error" <=> Mismatch)

\* The functions compute snapshots of what is meant, or find the wrong type.
LEMMA AnswerStep ==
  ASSUME CallInv, NEW R, Closed(R), Reads(reading, arguments, input, R), phase = "read",
         settop \/ sample_table_set \/ sample_table_get
  PROVE  /\ ErrorInv'
         /\ \E Q : Closed(Q) /\ (phase' \in {"push", "done"} => Ready(arguments', Meant', Q))
<1>1. /\ called' = called /\ input' = input
      /\ IsSeq(arguments) /\ Len(arguments) = Len(input)
      /\ \A i \in 1..Len(arguments) : <<arguments[i], input[i], 0>> \in R
  BY DEF settop, sample_table_set, sample_table_get, readVars, AllRead, Reads
<1>2. ASSUME settop PROVE ErrorInv' /\ Ready(arguments', Meant', R)
  <2>1. called = "echo" /\ arguments' = arguments
    BY <1>2 DEF settop, readVars
  <2>2. Meant' = input
    BY <1>1, <2>1 DEF Meant
  <2> QED BY <1>1, <2>1, <2>2 DEF Ready, ErrorInv
<1>3. ASSUME sample_table_set
      PROVE  ErrorInv' /\ \E Q : Closed(Q) /\ Ready(arguments', Meant', Q)
  <2>1. called = "table_set" /\ arguments' = <<set_field(arguments[1], "name", arguments[2])>>
    BY <1>3 DEF sample_table_set
  <2>2. PICK w : w = WithEntry(input[1], <<"name", "name">>, input[2])
    OBVIOUS
  <2>3. /\ Len(input) = 2 /\ input[1].kind = "table" /\ input[2].kind = "string"
        /\ w \in Value
    BY <2>1, <2>2, CallFacts
  <2>4. <<arguments[1], input[1], 0>> \in R /\ <<arguments[2], input[2], 0>> \in R
    BY <1>1, <2>3
  <2>5. PICK b : b = set_field(arguments[1], "name", arguments[2])
    OBVIOUS
  <2>6. PICK Q : Closed(Q) /\ <<b, w, 0>> \in Q
    <3>1. PICK a, t : a = arguments[1] /\ t = input[1]
      OBVIOUS
    <3>2. PICK x, u : x = arguments[2] /\ u = input[2]
      OBVIOUS
    <3>3. /\ <<a, t, 0>> \in R /\ t.kind = "table" /\ <<x, u, 0>> \in R /\ u.kind = "string"
          /\ w = WithEntry(t, <<"name", "name">>, u)
      BY <2>2, <2>3, <2>4, <3>1, <3>2
    <3>4. \E Q : Closed(Q) /\ R \subseteq Q /\ <<set_field(a, "name", x), w, 0>> \in Q
      BY <2>3, <3>3, SetField
    <3> QED BY <2>5, <3>1, <3>2, <3>4
  <2>7. Meant' = <<w>>
    BY <1>1, <2>1, <2>2 DEF Meant
  <2>8. arguments' = <<b>>
    BY <2>1, <2>5
  <2>9. Ready(<<b>>, <<w>>, Q)
    <3>1. PICK p, q : p = <<b>> /\ q = <<w>>
      OBVIOUS
    <3>2. IsSeq(p) /\ Len(p) = 1 /\ Len(q) = 1 /\ p[1] = b /\ q[1] = w
      BY <3>1, OneAndTwo
    <3>3. Ready(p, q, Q)
      BY <2>6, <3>2 DEF Ready
    <3> QED BY <3>1, <3>3
  <2>10. ErrorInv'
    BY <1>1, <2>1 DEF ErrorInv
  <2> QED BY <2>6, <2>7, <2>8, <2>9, <2>10
<1>4. ASSUME sample_table_get
      PROVE  /\ ErrorInv'
             /\ \E Q : Closed(Q) /\ (phase' \in {"push", "done"} => Ready(arguments', Meant', Q))
  <2>1. called = "table_get"
    BY <1>4 DEF sample_table_get
  <2>2. PICK g, h : g = get_field(arguments[1], "name") /\ h = get_field(arguments[1], "hp")
    OBVIOUS
  <2>3. PICK m, n : m = Field(input[1], "name") /\ n = Field(input[1], "hp")
    OBVIOUS
  <2>4. PICK a, t : a = arguments[1] /\ t = input[1]
    OBVIOUS
  <2>5. Len(input) = 1 /\ t.kind = "table" /\ <<a, t, 0>> \in R
    BY <1>1, <2>1, <2>4, CallFacts
  <2>6. /\ DefaultOf["name"] \in Value /\ DefaultOf["name"].kind = "string"
        /\ DefaultOf["hp"] \in Value /\ DefaultOf["hp"].kind = "number"
    BY CallAssumption DEF DefaultOf
  <2>7. /\ Converts(g, "name") <=> m.kind = "string"
        /\ Converts(g, "name") => Snapshot(g, m, 0, R)
    BY <2>2, <2>3, <2>4, <2>5, <2>6, GetField
  <2>8. /\ Converts(h, "hp") <=> n.kind = "number"
        /\ Converts(h, "hp") => Snapshot(h, n, 0, R)
    BY <2>2, <2>3, <2>4, <2>5, <2>6, GetField
  <2>9. Mismatch' <=> m.kind # "string" \/ n.kind # "number"
    BY <1>1, <2>3 DEF Mismatch
  <2>10. CASE Converts(g, "name") /\ Converts(h, "hp")
    <3>1. arguments' = <<g, h>> /\ phase' = "push"
      BY <1>4, <2>2, <2>10 DEF sample_table_get
    <3>2. PICK P : P = R \cup {<<g, m, 0>>}
      OBVIOUS
    <3>3. Closed(P) /\ R \subseteq P /\ <<g, m, 0>> \in P
      BY <2>7, <2>10, <3>2, OneMore
    <3>4. Snapshot(h, n, 0, P)
      BY <2>8, <2>10, <3>3, Grow
    <3>5. PICK Q : Q = P \cup {<<h, n, 0>>}
      OBVIOUS
    <3>6. Closed(Q) /\ P \subseteq Q /\ <<h, n, 0>> \in Q
      BY <3>3, <3>4, <3>5, OneMore
    <3>7. Meant' = <<m, n>>
      BY <1>1, <2>1, <2>3 DEF Meant
    <3>8. Ready(<<g, h>>, <<m, n>>, Q)
      <4>1. PICK p, q : p = <<g, h>> /\ q = <<m, n>>
        OBVIOUS
      <4>2. /\ IsSeq(p) /\ Len(p) = 2 /\ Len(q) = 2
            /\ p[1] = g /\ p[2] = h /\ q[1] = m /\ q[2] = n
        BY <4>1, OneAndTwo
      <4>3. \A i \in 1..2 : i = 1 \/ i = 2
        OBVIOUS
      <4>4. Ready(p, q, Q)
        BY <3>3, <3>6, <4>2, <4>3 DEF Ready
      <4> QED BY <4>1, <4>4
    <3>9. ErrorInv'
      BY <2>7, <2>8, <2>9, <2>10, <3>1 DEF ErrorInv
    <3> QED BY <3>1, <3>6, <3>7, <3>8, <3>9
  <2>11. CASE ~(Converts(g, "name") /\ Converts(h, "hp"))
    <3>1. phase' = "error"
      BY <1>4, <2>2, <2>11 DEF sample_table_get
    <3>2. ErrorInv'
      BY <2>7, <2>8, <2>9, <2>11, <3>1 DEF ErrorInv
    <3> QED BY <3>1, <3>2
  <2> QED BY <2>10, <2>11
<1> QED BY <1>2, <1>3, <1>4

-----------------------------------------------------------------------------
(* The place of a result: how many of D there are up to it.                 *)

UpTo(D, i) == Cardinality(D \cap (1..i))

LEMMA UpToStep ==
  ASSUME NEW D, NEW i \in Nat
  PROVE  /\ UpTo(D, i) \in Nat /\ UpTo(D, 0) = 0
         /\ UpTo(D, i + 1) = IF i + 1 \in D THEN UpTo(D, i) + 1 ELSE UpTo(D, i)
<1>1. IsFiniteSet(1..i) /\ D \cap (1..i) \subseteq 1..i
  BY FS_Interval
<1>2. IsFiniteSet(D \cap (1..i))
  BY <1>1, FS_Subset
<1>3. UpTo(D, i) \in Nat
  BY <1>2, FS_CardinalityType DEF UpTo
<1>4. UpTo(D, 0) = 0
  <2>1. D \cap (1..0) = {}
    OBVIOUS
  <2> QED BY <2>1, FS_EmptySet DEF UpTo
<1>5. CASE i + 1 \in D
  <2>1. D \cap (1..i + 1) = (D \cap (1..i)) \cup {i + 1} /\ i + 1 \notin D \cap (1..i)
    BY <1>5
  <2>2. Cardinality((D \cap (1..i)) \cup {i + 1}) = Cardinality(D \cap (1..i)) + 1
    BY <1>2, <2>1, FS_AddElement
  <2> QED BY <1>3, <1>4, <1>5, <2>1, <2>2 DEF UpTo
<1>6. CASE i + 1 \notin D
  <2>1. D \cap (1..i + 1) = D \cap (1..i)
    BY <1>6
  <2> QED BY <1>3, <1>4, <1>6, <2>1 DEF UpTo
<1> QED BY <1>5, <1>6

LEMMA UpToMonotone ==
  ASSUME NEW D, NEW i \in Nat, NEW j \in Nat, i <= j
  PROVE  UpTo(D, i) <= UpTo(D, j)
<1>1. IsFiniteSet(1..j) /\ D \cap (1..j) \subseteq 1..j
  BY FS_Interval
<1>2. IsFiniteSet(D \cap (1..j))
  BY <1>1, FS_Subset
<1>3. D \cap (1..i) \subseteq D \cap (1..j)
  OBVIOUS
<1> QED BY <1>2, <1>3, FS_Subset DEF UpTo

\* Places are numbers from 1 on, and come in the order of the results.
LEMMA PlaceFacts ==
  ASSUME NEW D, NEW i \in Nat \ {0}, i \in D
  PROVE  /\ UpTo(D, i) \in Nat \ {0}
         /\ UpTo(D, i) = UpTo(D, i - 1) + 1
         /\ \A j \in Nat : i <= j => UpTo(D, i) <= UpTo(D, j)
         /\ \A j \in Nat \ {0} : i < j /\ j \in D => UpTo(D, i) < UpTo(D, j)
<1>1. PICK h \in Nat : h = i - 1 /\ h + 1 = i
  OBVIOUS
<1>2. UpTo(D, h) \in Nat /\ UpTo(D, i) = UpTo(D, h) + 1
  BY <1>1, UpToStep
<1>3. \A j \in Nat : i <= j => UpTo(D, i) <= UpTo(D, j)
  BY UpToMonotone
<1>4. ASSUME NEW j \in Nat \ {0}, i < j, j \in D PROVE UpTo(D, i) < UpTo(D, j)
  <2>1. PICK l \in Nat : l = j - 1 /\ l + 1 = j /\ i <= l
    BY <1>4
  <2>2. UpTo(D, l) \in Nat /\ UpTo(D, j) = UpTo(D, l) + 1
    BY <1>4, <2>1, UpToStep
  <2>3. UpTo(D, i) <= UpTo(D, l)
    BY <1>3, <2>1
  <2> QED BY <1>2, <2>2, <2>3
<1> QED BY <1>1, <1>2, <1>3, <1>4

-----------------------------------------------------------------------------
(* The copy of a table, whole and in the making.                            *)

\* What is kept of a table whose parts are copied by `below`.
Kept(v, below) == {k \in DOMAIN v.entries : k[1] # "odd" /\ below[v.entries[k]] # Nil}
Whole(v, below) == LuaTable([k \in Kept(v, below) |-> below[v.entries[k]]])

\* A table with nothing in it that is not copied where it would leave a gap.
Sound(v, below) ==
  /\ v \in Value /\ v.kind = "table"
  /\ \A k \in DOMAIN v.entries :
       /\ k[1] = "name" => v.entries[k].kind # "function"
       /\ k[1] # "odd" => below[v.entries[k]] # Opaque

LEMMA CopyTable ==
  ASSUME NEW n \in 0..MaxTableDepth, n # 0, NEW v \in Value, v.kind = "table",
         copy[n][v] # Opaque
  PROVE  Sound(v, copy[n - 1]) /\ copy[n][v] = Whole(v, copy[n - 1])
<1>1. PICK below : below = copy[n - 1]
  OBVIOUS
<1>2. copy[n] = Level(n, below)
  BY <1>1, CopyLevels
<1>3. copy[n][v] =
        IF \E k \in DOMAIN v.entries :
             \/ k[1] = "name" /\ v.entries[k].kind = "function"
             \/ k \in Kept(v, below) /\ below[v.entries[k]] = Opaque
        THEN Opaque ELSE Whole(v, below)
  BY <1>2 DEF Level, Kept, Whole
<1>4. Opaque # Nil
  BY DEF Opaque, Nil
<1>5. ~\E k \in DOMAIN v.entries :
         \/ k[1] = "name" /\ v.entries[k].kind = "function"
         \/ k \in Kept(v, below) /\ below[v.entries[k]] = Opaque
  BY <1>3
<1>6. \A k \in DOMAIN v.entries :
        /\ k[1] = "name" => v.entries[k].kind # "function"
        /\ k[1] # "odd" => below[v.entries[k]] # Opaque
  BY <1>4, <1>5 DEF Kept
<1> QED BY <1>1, <1>3, <1>5, <1>6 DEF Sound

LEMMA CopyOthers ==
  ASSUME NEW n \in 0..MaxTableDepth, NEW v \in Value
  PROVE  /\ v.kind = "function" => copy[n][v] = Nil
         /\ v.kind = "table" /\ n = 0 => copy[n][v] = Nil
         /\ v.kind \notin {"function", "table"} => copy[n][v] = v
<1>1. PICK below : below = copy[n - 1]
  OBVIOUS
<1>2. copy[n] = Level(n, below)
  BY <1>1, CopyLevels
<1> QED BY <1>2 DEF Level

\* The key and the value that item n of an Argument stands for.
ItemKey(a, n) ==
  IF n <= Len(a.array) THEN <<"position", n>> ELSE <<"name", a.fields[n - Len(a.array)][1]>>
ItemCopy(v, below, k) == IF k \in DOMAIN v.entries THEN below[v.entries[k]] ELSE Nil

\* The items before n have been set.
Partial(v, below, a, n) ==
  LuaTable([k \in {k \in {ItemKey(a, m) : m \in 1..n - 1} : ItemCopy(v, below, k) # Nil} |->
              ItemCopy(v, below, k)])

LEMMA PartialStart ==
  ASSUME NEW v, NEW below, NEW a
  PROVE  Partial(v, below, a, 1) = LuaTable(NoEntries)
<1>1. {k \in {ItemKey(a, m) : m \in 1..1 - 1} : ItemCopy(v, below, k) # Nil} = {}
  OBVIOUS
<1> QED BY <1>1 DEF Partial, NoEntries

LEMMA PartialStep ==
  ASSUME NEW v, NEW below, NEW a, NEW n \in Nat \ {0}
  PROVE  WithEntry(Partial(v, below, a, n), ItemKey(a, n), ItemCopy(v, below, ItemKey(a, n)))
           = Partial(v, below, a, n + 1)
<1>1. PICK key : key = ItemKey(a, n)
  OBVIOUS
<1>2. PICK D : D = {k \in {ItemKey(a, m) : m \in 1..n - 1} : ItemCopy(v, below, k) # Nil}
  OBVIOUS
<1>3. PICK E : E = {k \in {ItemKey(a, m) : m \in 1..(n + 1) - 1} : ItemCopy(v, below, k) # Nil}
  OBVIOUS
<1>4. {ItemKey(a, m) : m \in 1..(n + 1) - 1} = {ItemKey(a, m) : m \in 1..n - 1} \cup {key}
  <2>1. 1..(n + 1) - 1 = (1..n - 1) \cup {n}
    OBVIOUS
  <2> QED BY <1>1, <2>1
<1>5. E = (D \ {key}) \cup (IF ItemCopy(v, below, key) = Nil THEN {} ELSE {key})
  BY <1>2, <1>3, <1>4
<1>6. PICK t : t = Partial(v, below, a, n)
  OBVIOUS
<1>7. t.entries = [k \in D |-> ItemCopy(v, below, k)]
  BY <1>2, <1>6 DEF Partial, LuaTable
<1>8. DOMAIN t.entries = D /\ \A k \in D : t.entries[k] = ItemCopy(v, below, k)
  BY <1>7
<1>9. [k \in E |-> IF k = key THEN ItemCopy(v, below, key) ELSE t.entries[k]]
        = [k \in E |-> ItemCopy(v, below, k)]
  BY <1>5, <1>8
<1>10. WithEntry(t, key, ItemCopy(v, below, key))
         = LuaTable([k \in E |-> IF k = key THEN ItemCopy(v, below, key) ELSE t.entries[k]])
  BY <1>5, <1>8 DEF WithEntry
<1> QED BY <1>1, <1>3, <1>6, <1>9, <1>10 DEF Partial

\* All items have been set: the copy is whole.
LEMMA PartialEnd ==
  ASSUME NEW v \in Value, v.kind = "table", NEW below, NEW a, NEW e, NEW R,
         Fits(a.array, a.fields, v, DOMAIN v.entries, e, R)
  PROVE  Partial(v, below, a, Items(a) + 1) = Whole(v, below)
<1>1. PICK D :
        D = {k \in {ItemKey(a, m) : m \in 1..(Items(a) + 1) - 1} : ItemCopy(v, below, k) # Nil}
  OBVIOUS
<1>2. PICK l \in Nat : l = Len(a.array)
  BY SeqFacts DEF Fits
<1>3. PICK h \in Nat : h = Len(a.fields)
  BY SeqFacts DEF Fits
<1>4. PICK c \in Nat : c = Items(a) /\ c = l + h
  <2>1. Items(a) = l + h
    BY <1>2, <1>3 DEF Items
  <2> QED BY <2>1
<1>5. ASSUME NEW k \in D PROVE k \in Kept(v, below)
  <2>1. PICK m : k = ItemKey(a, m)
    BY <1>1
  <2>2. k[1] # "odd"
    BY <2>1 DEF ItemKey
  <2>3. ItemCopy(v, below, k) # Nil
    BY <1>1
  <2>4. k \in DOMAIN v.entries /\ below[v.entries[k]] # Nil
    BY <2>3 DEF ItemCopy
  <2> QED BY <2>2, <2>4 DEF Kept
<1>6. ASSUME NEW k \in Kept(v, below) PROVE k \in D
  <2>1. k \in DOMAIN v.entries /\ k[1] # "odd" /\ below[v.entries[k]] # Nil /\ IsKey(k)
    BY EntryFacts DEF Kept
  <2>2. ItemCopy(v, below, k) # Nil
    BY <2>1 DEF ItemCopy
  <2>3. \E m \in 1..Items(a) : k = ItemKey(a, m)
    <3>1. CASE k[1] = "position"
      <4>1. PICK n \in Nat \ {0} : k = <<"position", n>>
        BY <2>1, <3>1 DEF IsKey
      <4>2. n \in 1..Len(a.array)
        BY <2>1, <4>1 DEF Fits
      <4>3. n <= l /\ n \in 1..l
        BY <1>2, <4>2
      <4>4. k = ItemKey(a, n)
        BY <1>2, <4>1, <4>3 DEF ItemKey
      <4>5. n \in 1..Items(a)
        BY <1>4, <4>3
      <4> QED BY <4>4, <4>5
    <3>2. CASE k[1] = "name"
      <4>1. PICK n : k = <<"name", n>>
        BY <2>1, <3>2 DEF IsKey
      <4>2. PICK i \in 1..Len(a.fields) : a.fields[i][1] = n
        BY <2>1, <4>1 DEF Fits
      <4>3. PICK m : m = l + i
        OBVIOUS
      <4>4. i \in 1..h
        BY <1>3
      <4>5. ~(m <= l) /\ m - l = i /\ m \in 1..c
        BY <1>4, <4>3, <4>4
      <4>6. k = ItemKey(a, m)
        BY <1>2, <4>1, <4>2, <4>5 DEF ItemKey
      <4> QED BY <1>4, <4>5, <4>6
    <3> QED BY <2>1, <3>1, <3>2 DEF IsKey
  <2>4. 1..(Items(a) + 1) - 1 = 1..Items(a)
    BY <1>4
  <2> QED BY <1>1, <2>2, <2>3, <2>4
<1>7. D = Kept(v, below)
  BY <1>5, <1>6
<1>8. \A k \in D : ItemCopy(v, below, k) = below[v.entries[k]]
  BY <1>7 DEF ItemCopy, Kept
<1>9. [k \in D |-> ItemCopy(v, below, k)] = [k \in Kept(v, below) |-> below[v.entries[k]]]
  BY <1>7, <1>8
<1> QED BY <1>1, <1>9 DEF Partial, Whole

-----------------------------------------------------------------------------
(* Pushing.  Call e of Argument::push, of those that are inside a table,    *)
(* builds the copy of vs[e]; its parts are copied by Parts(e).              *)

Parts(e) == copy[MaxTableDepth - e]
Operands(f) == IF InArray(f) THEN 1 ELSE 2
NameCell(f) == [kind |-> "name", of |-> ItemKey(f.of, f.next)[2]]

\* The table is in its slot, with the items before the next one.
Builds(f, v, e, s, R) ==
  /\ f = [of |-> f.of, at |-> f.at, next |-> f.next, pending |-> f.pending]
  /\ Sound(v, Parts(e)) /\ Fits(f.of.array, f.of.fields, v, DOMAIN v.entries, e, R)
  /\ f.next \in 1..Items(f.of) + 1
  /\ f.at \in Nat \ {0} /\ f.at <= Len(s)
  /\ s[f.at] = Partial(v, Parts(e), f.of, f.next)

\* An outer call waits for the table w, which is built in the slot `at`.
Waits(f, v, at, w, s) ==
  /\ f.pending /\ f.next <= Items(f.of)
  /\ ItemKey(f.of, f.next) \in DOMAIN v.entries /\ w = v.entries[ItemKey(f.of, f.next)]
  /\ at = f.at + Operands(f)
  /\ ~InArray(f) => s[f.at + 1] = NameCell(f)

\* The innermost call is between two items, or has an item's operands on top.
Works(f, v, e, s) ==
  \/ ~f.pending /\ Len(s) = f.at
  \/ /\ f.pending /\ f.next <= Items(f.of)
     /\ Len(s) = f.at + Operands(f)
     /\ s[Len(s)] = ItemCopy(v, Parts(e), ItemKey(f.of, f.next))
     /\ ~InArray(f) => s[f.at + 1] = NameCell(f)

Stacked(q, vs, s, R) ==
  /\ IsSeq(q) /\ Len(q) \in 1..MaxTableDepth /\ IsSeq(s)
  /\ \A e \in 1..Len(q) : Builds(q[e], vs[e], e, s, R)
  /\ \A e \in 1..Len(q) - 1 : Waits(q[e], vs[e], q[e + 1].at, vs[e + 1], s)
  /\ \A d, e \in 1..Len(q) : d < e => q[d].at + Operands(q[d]) <= q[e].at

Pushes(q, vs, s, R) == Stacked(q, vs, s, R) /\ Works(q[Len(q)], vs[Len(q)], Len(q), s)

\* The outermost call builds the copy of w.
PushesFor(q, w, s, R) == \E vs : Pushes(q, vs, s, R) /\ vs[1] = w

LEMMA OperandsFacts == \A f : Operands(f) \in {1, 2} /\ (~InArray(f) => Operands(f) = 2)
BY DEF Operands

\* What happens above a table's slot does not change it.
LEMMA BuildsKept ==
  ASSUME NEW f, NEW v, NEW e, NEW s, NEW R, NEW r,
         Builds(f, v, e, s, R), f.at <= Len(r), r[f.at] = s[f.at]
  PROVE  Builds(f, v, e, r, R)
BY DEF Builds

\* Call n becomes or stays the innermost one and changes nothing below its slot.
LEMMA TopChanged ==
  ASSUME NEW q, NEW vs, NEW s, NEW R, NEW n, NEW p, NEW r,
         Stacked(q, vs, s, R), n \in 1..Len(q),
         IsSeq(p), Len(p) = n, \A e \in 1..n - 1 : p[e] = q[e], p[n].at = q[n].at,
         IsSeq(r), \A i \in 1..p[n].at - 1 : r[i] = s[i],
         Builds(p[n], vs[n], n, r, R)
  PROVE  Stacked(p, vs, r, R)
<1>1. PICK a \in Nat \ {0} : a = p[n].at /\ a = q[n].at /\ a <= Len(r)
  BY DEF Builds
<1>2. PICK l \in Nat \ {0} : l = Len(q) /\ l <= MaxTableDepth
  BY SeqFacts DEF Stacked
<1>3. n \in Nat \ {0} /\ n <= l /\ MaxTableDepth \in Nat /\ n \in 1..MaxTableDepth
  BY <1>2, ArgumentAssumption
<1>4. Len(r) \in Nat
  BY SeqFacts
<1>5. ASSUME NEW e \in 1..n - 1
      PROVE  /\ Builds(q[e], vs[e], e, s, R) /\ Waits(q[e], vs[e], q[e + 1].at, vs[e + 1], s)
             /\ q[e].at \in Nat \ {0} /\ q[e].at + Operands(q[e]) <= a
  <2>1. e \in 1..Len(q) /\ e \in 1..Len(q) - 1 /\ n \in 1..Len(q) /\ e < n
    BY <1>2, <1>3
  <2>2. Builds(q[e], vs[e], e, s, R)
    BY <2>1 DEF Stacked
  <2>3. Waits(q[e], vs[e], q[e + 1].at, vs[e + 1], s)
    BY <2>1 DEF Stacked
  <2>4. q[e].at + Operands(q[e]) <= q[n].at
    BY <2>1 DEF Stacked
  <2>5. q[e].at \in Nat \ {0}
    BY <2>2 DEF Builds
  <2> QED BY <1>1, <2>2, <2>3, <2>4, <2>5
<1>6. ASSUME NEW e \in 1..n PROVE Builds(p[e], vs[e], e, r, R)
  <2>1. CASE e = n
    BY <2>1
  <2>2. CASE e # n
    <3>1. e \in 1..n - 1
      BY <1>3, <2>2
    <3>2. PICK b \in Nat \ {0} : b = q[e].at /\ b < a
      <4>1. PICK o \in {1, 2} : o = Operands(q[e])
        BY OperandsFacts
      <4>2. PICK b \in Nat \ {0} : b = q[e].at /\ b + o <= a
        BY <1>5, <3>1, <4>1
      <4> QED BY <1>1, <4>1, <4>2
    <3>3. r[b] = s[b] /\ b <= Len(r)
      BY <1>1, <1>4, <3>2
    <3>4. Builds(q[e], vs[e], e, r, R)
      BY <1>5, <3>1, <3>2, <3>3, BuildsKept
    <3> QED BY <3>1, <3>4
  <2> QED BY <2>1, <2>2
<1>7. ASSUME NEW e \in 1..n - 1 PROVE Waits(p[e], vs[e], p[e + 1].at, vs[e + 1], r)
  <2>1. Waits(q[e], vs[e], q[e + 1].at, vs[e + 1], s)
    BY <1>5
  <2>2. p[e] = q[e]
    OBVIOUS
  <2>3. p[e + 1].at = q[e + 1].at
    <3>1. CASE e + 1 = n
      BY <3>1
    <3>2. CASE e + 1 # n
      <4>1. e + 1 \in 1..n - 1
        BY <1>3, <3>2
      <4> QED BY <4>1
    <3> QED BY <3>1, <3>2
  <2>4. ~InArray(q[e]) => r[q[e].at + 1] = s[q[e].at + 1]
    <3>1. PICK b \in Nat \ {0} : b = q[e].at /\ b + Operands(q[e]) <= a
      BY <1>5
    <3>2. ~InArray(q[e]) => b + 1 \in 1..a - 1
      BY <1>1, <3>1, OperandsFacts
    <3> QED BY <1>1, <3>1, <3>2
  <2> QED BY <2>1, <2>2, <2>3, <2>4 DEF Waits
<1>8. ASSUME NEW d \in 1..n, NEW e \in 1..n, d < e PROVE p[d].at + Operands(p[d]) <= p[e].at
  <2>1. d \in 1..n - 1 /\ d \in 1..Len(q) /\ e \in 1..Len(q)
    BY <1>2, <1>3, <1>8
  <2>2. q[d].at + Operands(q[d]) <= q[e].at
    BY <1>8, <2>1 DEF Stacked
  <2>3. p[d] = q[d]
    BY <2>1
  <2>4. p[e].at = q[e].at
    <3>1. CASE e = n
      BY <3>1
    <3>2. CASE e # n
      <4>1. e \in 1..n - 1
        BY <1>3, <3>2
      <4> QED BY <4>1
    <3> QED BY <3>1, <3>2
  <2> QED BY <2>2, <2>3, <2>4
<1> QED BY <1>3, <1>6, <1>7, <1>8 DEF Stacked

\* One more call, for the table that the innermost one waits for.
LEMMA OneInside ==
  ASSUME NEW q, NEW vs, NEW s, NEW R, NEW n, NEW p, NEW c,
         Stacked(q, vs, s, R), n = Len(q), n < MaxTableDepth,
         IsSeq(p), Len(p) = n + 1, \A e \in 1..n : p[e] = q[e],
         Waits(q[n], vs[n], p[n + 1].at, c, s),
         Builds(p[n + 1], c, n + 1, s, R), Works(p[n + 1], c, n + 1, s)
  PROVE  PushesFor(p, vs[1], s, R)
<1>1. n \in Nat \ {0} /\ MaxTableDepth \in Nat /\ n + 1 \in 1..MaxTableDepth
  BY SeqFacts, ArgumentAssumption DEF Stacked
<1>2. PICK us : us = [e \in 1..n + 1 |-> IF e = n + 1 THEN c ELSE vs[e]]
  OBVIOUS
<1>3. us[n + 1] = c /\ us[1] = vs[1] /\ \A e \in 1..n : us[e] = vs[e]
  BY <1>1, <1>2
<1>4. ASSUME NEW e \in 1..n + 1 PROVE Builds(p[e], us[e], e, s, R)
  <2>1. CASE e = n + 1
    BY <1>3, <2>1
  <2>2. CASE e # n + 1
    <3>1. e \in 1..n
      BY <1>1, <2>2
    <3>2. Builds(q[e], vs[e], e, s, R)
      BY <3>1 DEF Stacked
    <3> QED BY <1>3, <3>1, <3>2
  <2> QED BY <2>1, <2>2
<1>5. ASSUME NEW e \in 1..n PROVE Waits(p[e], us[e], p[e + 1].at, us[e + 1], s)
  <2>1. CASE e = n
    BY <1>1, <1>3, <2>1
  <2>2. CASE e # n
    <3>1. e \in 1..n - 1 /\ e + 1 \in 1..n
      BY <1>1, <2>2
    <3>2. Waits(q[e], vs[e], q[e + 1].at, vs[e + 1], s)
      BY <3>1 DEF Stacked
    <3> QED BY <1>3, <3>1, <3>2
  <2> QED BY <2>1, <2>2
<1>6. ASSUME NEW d \in 1..n + 1, NEW e \in 1..n + 1, d < e
      PROVE  p[d].at + Operands(p[d]) <= p[e].at
  <2>1. d \in 1..n /\ n \in 1..n
    BY <1>1, <1>6
  <2>2. CASE e # n + 1
    <3>1. e \in 1..n
      BY <1>1, <2>2
    <3>2. q[d].at + Operands(q[d]) <= q[e].at
      BY <1>6, <2>1, <3>1 DEF Stacked
    <3> QED BY <2>1, <3>1, <3>2
  <2>3. CASE e = n + 1
    <3>1. p[n + 1].at = q[n].at + Operands(q[n])
      BY DEF Waits
    <3>2. CASE d = n
      <4>1. p[n + 1].at \in Nat
        BY <1>4, <1>1 DEF Builds
      <4> QED BY <2>1, <2>3, <3>1, <3>2, <4>1
    <3>3. CASE d # n
      <4>1. d < n
        BY <1>1, <2>1, <3>3
      <4>2. q[d].at + Operands(q[d]) <= q[n].at
        BY <2>1, <4>1 DEF Stacked
      <4>3. PICK o \in {1, 2}, h \in {1, 2} : o = Operands(q[n]) /\ h = Operands(q[d])
        BY OperandsFacts
      <4>4. Builds(q[d], vs[d], d, s, R) /\ Builds(q[n], vs[n], n, s, R)
        BY <2>1 DEF Stacked
      <4>5. PICK a \in Nat, b \in Nat : a = q[n].at /\ b = q[d].at
        BY <4>4 DEF Builds
      <4>6. b + h <= a + o
        BY <4>2, <4>3, <4>5
      <4> QED BY <2>1, <2>3, <3>1, <4>3, <4>5, <4>6
    <3> QED BY <3>2, <3>3
  <2> QED BY <2>2, <2>3
<1>7. \A e \in 1..Len(p) - 1 : e \in 1..n
  BY <1>1
<1>8. Stacked(p, us, s, R)
  BY <1>1, <1>4, <1>5, <1>6, <1>7 DEF Stacked
<1>9. Works(p[Len(p)], us[Len(p)], Len(p), s)
  BY <1>3
<1> QED BY <1>3, <1>8, <1>9 DEF Pushes, PushesFor

\* The snapshot of a table at depth e that is not empty for being too deep.
LEMMA InnerTable ==
  ASSUME NEW R, Closed(R), NEW x, NEW c, NEW e, <<x, c, e>> \in R, c.kind = "table",
         e < MaxTableDepth
  PROVE  Fits(x.array, x.fields, c, DOMAIN c.entries, e + 1, R)
<1>1. Snapshot(x, c, e, R)
  BY DEF Closed
<1> QED BY <1>1 DEF Snapshot

ItemValue(a, n) == IF n <= Len(a.array) THEN a.array[n] ELSE a.fields[n - Len(a.array)][2]

\* The items of a snapshot can be counted.
LEMMA ItemsFacts ==
  ASSUME NEW R, NEW v, NEW a, NEW e, NEW D, Fits(a.array, a.fields, v, D, e, R)
  PROVE  Items(a) \in Nat
<1>1. PICK l \in Nat : l = Len(a.array)
  BY SeqFacts DEF Fits
<1>2. PICK h \in Nat : h = Len(a.fields)
  BY SeqFacts DEF Fits
<1>3. Items(a) = l + h
  BY <1>1, <1>2 DEF Items
<1> QED BY <1>3

\* An item is a snapshot of the entry at its key, or a hole.
IsItem(x, k, inArray, v, e, R) ==
  /\ k[1] # "odd" /\ (~inArray => k[1] = "name")
  /\ \/ k \in DOMAIN v.entries /\ <<x, v.entries[k], e>> \in R
     \/ k \notin DOMAIN v.entries /\ x = Nil /\ inArray

LEMMA ItemFacts ==
  ASSUME NEW R, NEW v, NEW a, NEW e,
         Fits(a.array, a.fields, v, DOMAIN v.entries, e, R), NEW n \in 1..Items(a)
  PROVE  n \in Nat \ {0} /\ IsItem(ItemValue(a, n), ItemKey(a, n), n <= Len(a.array), v, e, R)
<1> PICK k : k = ItemKey(a, n)
  OBVIOUS
<1> SUFFICES
      /\ n \in Nat \ {0} /\ k[1] # "odd" /\ (~(n <= Len(a.array)) => k[1] = "name")
      /\ \/ k \in DOMAIN v.entries /\ <<ItemValue(a, n), v.entries[k], e>> \in R
         \/ k \notin DOMAIN v.entries /\ ItemValue(a, n) = Nil /\ n <= Len(a.array)
  BY DEF IsItem
<1>1. PICK l \in Nat : l = Len(a.array)
  BY SeqFacts DEF Fits
<1>2. PICK h \in Nat : h = Len(a.fields)
  BY SeqFacts DEF Fits
<1>3. PICK c \in Nat : c = Items(a) /\ c = l + h
  <2>1. Items(a) = l + h
    BY <1>1, <1>2 DEF Items
  <2> QED BY <2>1
<1>4. n \in Nat \ {0} /\ n <= l + h
  BY <1>3
<1>5. CASE n <= l
  <2>1. k = <<"position", n>> /\ ItemValue(a, n) = a.array[n]
    BY <1>1, <1>5 DEF ItemKey, ItemValue
  <2>2. n \in 1..Len(a.array)
    BY <1>1, <1>4, <1>5
  <2>3. k \in DOMAIN v.entries => <<a.array[n], v.entries[k], e>> \in R
    BY <2>1 DEF Fits
  <2>4. k \notin DOMAIN v.entries => a.array[n] = Nil
    BY <2>1, <2>2 DEF Fits
  <2> QED BY <1>1, <1>4, <1>5, <2>1, <2>3, <2>4
<1>6. CASE ~(n <= l)
  <2>1. PICK i : i = n - l /\ i \in 1..h
    BY <1>4, <1>6
  <2>2. k = <<"name", a.fields[i][1]>> /\ ItemValue(a, n) = a.fields[i][2]
    BY <1>1, <1>6, <2>1 DEF ItemKey, ItemValue
  <2>3. /\ <<"name", a.fields[i][1]>> \in DOMAIN v.entries
        /\ <<a.fields[i][2], v.entries[<<"name", a.fields[i][1]>>], e>> \in R
    BY <1>2, <2>1 DEF Fits
  <2> QED BY <1>1, <1>4, <1>6, <2>2, <2>3
<1> QED BY <1>5, <1>6

\* What a push leaves of an item that is no table to go into: its copy.
LEMMA FlatItem ==
  ASSUME NEW R, Closed(R), NEW v, NEW a, NEW e \in 1..MaxTableDepth, Sound(v, Parts(e)),
         Fits(a.array, a.fields, v, DOMAIN v.entries, e, R), NEW n \in 1..Items(a),
         NEW x, x = ItemValue(a, n), ~(x.kind = "table" /\ ~TooDeep(e))
  PROVE  (IF x = None /\ n <= Len(a.array) THEN <<Nil>> ELSE PushedSlots(x, e))
           = <<ItemCopy(v, Parts(e), ItemKey(a, n))>>
<1>1. PICK k : k = ItemKey(a, n)
  OBVIOUS
<1>2. /\ k[1] # "odd" /\ (~(n <= Len(a.array)) => k[1] = "name")
      /\ \/ k \in DOMAIN v.entries /\ <<x, v.entries[k], e>> \in R
         \/ k \notin DOMAIN v.entries /\ x = Nil /\ n <= Len(a.array)
  <2>1. IsItem(x, k, n <= Len(a.array), v, e, R)
    BY <1>1, ItemFacts
  <2> QED BY <2>1 DEF IsItem
<1>3. PICK m \in 0..MaxTableDepth : m = MaxTableDepth - e /\ copy[m] = Parts(e)
  BY ArgumentAssumption DEF Parts
<1>4. CASE k \notin DOMAIN v.entries
  <2>1. x = Nil /\ x.kind = "nil" /\ x # None
    BY <1>2, <1>4 DEF Nil, None
  <2>2. PushedSlots(x, e) = <<Nil>>
    BY <2>1 DEF PushedSlots
  <2>3. ItemCopy(v, Parts(e), k) = Nil
    BY <1>4 DEF ItemCopy
  <2> QED BY <1>1, <2>1, <2>2, <2>3
<1>5. CASE k \in DOMAIN v.entries
  <2>1. PICK c \in Value : c = v.entries[k] /\ ItemCopy(v, Parts(e), k) = copy[m][c]
    BY <1>3, <1>5, EntryFacts DEF Sound, ItemCopy
  <2>2. Snapshot(x, c, e, R)
    BY <1>2, <1>5, <2>1 DEF Closed
  <2>3. CASE c.kind = "function"
    <3>1. x = None /\ x.kind = "none"
      BY <2>2, <2>3 DEF Snapshot, None
    <3>2. n <= Len(a.array)
      BY <1>2, <1>5, <2>1, <2>3 DEF Sound
    <3>3. copy[m][c] = Nil
      BY <2>3, CopyOthers
    <3> QED BY <1>1, <2>1, <3>1, <3>2, <3>3
  <2>4. CASE c.kind = "table"
    <3>1. x = Table(x.array, x.fields)
      BY <2>2, <2>4 DEF Snapshot
    <3>2. x.kind = "table" /\ x # None
      BY <3>1 DEF Table, None
    <3>3. TooDeep(e)
      BY <3>2
    <3>4. PushedSlots(x, e) = <<Nil>>
      BY <3>2, <3>3 DEF PushedSlots
    <3>5. m = 0
      BY <1>3, <3>3, ArgumentAssumption DEF TooDeep
    <3>6. copy[m][c] = Nil
      BY <2>4, <3>5, CopyOthers
    <3> QED BY <1>1, <2>1, <3>2, <3>4, <3>6
  <2>5. CASE c.kind \notin {"function", "table"}
    <3>1. x = c
      BY <2>2, <2>5 DEF Snapshot
    <3>2. c.kind \in {"nil", "string", "number"}
      BY <2>5, ValueAssumption
    <3>3. x # None /\ PushedSlots(x, e) = <<x>>
      BY <3>1, <3>2 DEF PushedSlots, None
    <3>4. copy[m][c] = c
      BY <2>5, CopyOthers
    <3> QED BY <1>1, <2>1, <3>1, <3>3, <3>4
  <2> QED BY <2>3, <2>4, <2>5
<1> QED BY <1>4, <1>5

\* The copy of a part that is a table, from the copies of its own parts.
LEMMA PartTable ==
  ASSUME NEW e \in 1..MaxTableDepth, e < MaxTableDepth, NEW c \in Value, c.kind = "table",
         Parts(e)[c] # Opaque
  PROVE  Sound(c, Parts(e + 1)) /\ Parts(e)[c] = Whole(c, Parts(e + 1))
<1>1. PICK m \in 0..MaxTableDepth :
        m # 0 /\ copy[m] = Parts(e) /\ copy[m - 1] = Parts(e + 1)
  <2>1. PICK m \in 0..MaxTableDepth : m = MaxTableDepth - e
    BY ArgumentAssumption
  <2>2. m # 0 /\ m - 1 = MaxTableDepth - (e + 1)
    BY <2>1, ArgumentAssumption
  <2> QED BY <2>1, <2>2 DEF Parts
<1>2. copy[m][c] # Opaque
  BY <1>1
<1>3. Sound(c, copy[m - 1]) /\ copy[m][c] = Whole(c, copy[m - 1])
  BY <1>1, <1>2, CopyTable
<1> QED BY <1>1, <1>3

\* An item that is a table to go into: what is to be built inside it.
LEMMA TableItem ==
  ASSUME NEW R, Closed(R), NEW v, NEW a, NEW e \in 1..MaxTableDepth, Sound(v, Parts(e)),
         Fits(a.array, a.fields, v, DOMAIN v.entries, e, R), NEW n \in 1..Items(a),
         NEW x, x = ItemValue(a, n), x.kind = "table", ~TooDeep(e),
         NEW k, k = ItemKey(a, n), NEW c, c = v.entries[k]
  PROVE  /\ e < MaxTableDepth /\ k \in DOMAIN v.entries
         /\ Fits(x.array, x.fields, c, DOMAIN c.entries, e + 1, R)
         /\ Sound(c, Parts(e + 1)) /\ Parts(e)[c] = Whole(c, Parts(e + 1))
<1>1. MaxTableDepth \in Nat /\ e < MaxTableDepth
  BY ArgumentAssumption DEF TooDeep
<1>2. /\ k[1] # "odd"
      /\ \/ k \in DOMAIN v.entries /\ <<x, v.entries[k], e>> \in R
         \/ k \notin DOMAIN v.entries /\ x = Nil
  <2>1. IsItem(x, k, n <= Len(a.array), v, e, R)
    BY ItemFacts
  <2> QED BY <2>1 DEF IsItem
<1>3. Nil.kind = "nil"
  BY DEF Nil
<1>4. k \in DOMAIN v.entries /\ <<x, c, e>> \in R
  BY <1>2, <1>3
<1>5. Snapshot(x, c, e, R) /\ c \in Value
  BY <1>4 DEF Closed, Snapshot
<1>6. c.kind = "table"
  <2>1. CASE c.kind = "function"
    <3>1. x = None
      BY <1>5, <2>1 DEF Snapshot
    <3> QED BY <3>1 DEF None
  <2>2. CASE c.kind \notin {"function", "table"}
    <3>1. x = c
      BY <1>5, <2>2 DEF Snapshot
    <3> QED BY <3>1
  <2> QED BY <2>1, <2>2
<1>7. Fits(x.array, x.fields, c, DOMAIN c.entries, e + 1, R)
  BY <1>1, <1>4, <1>6, InnerTable
<1>8. Parts(e)[c] # Opaque
  BY <1>2, <1>4 DEF Sound
<1>9. Sound(c, Parts(e + 1)) /\ Parts(e)[c] = Whole(c, Parts(e + 1))
  BY <1>1, <1>5, <1>6, <1>8, PartTable
<1> QED BY <1>1, <1>4, <1>7, <1>9

\* The operands of an item on top of the table it goes into.
KeyCells(f) == IF InArray(f) THEN <<>> ELSE <<NameCell(f)>>

IsOnTop(r, s, f, x) ==
  /\ IsSeq(r) /\ Len(r) = Len(s) + Operands(f) /\ r[Len(r)] = x
  /\ \A i \in 1..Len(s) : r[i] = s[i]
  /\ ~InArray(f) => r[Len(s) + 1] = NameCell(f)

LEMMA OnTop ==
  ASSUME NEW s, IsSeq(s), NEW f, NEW x
  PROVE  IsOnTop(s \o KeyCells(f) \o <<x>>, s, f, x)
<1>1. PICK k : k = KeyCells(f)
  OBVIOUS
<1>2. PICK p : p = <<x>>
  OBVIOUS
<1>3. IsSeq(p) /\ Len(p) = 1 /\ p[1] = x
  BY <1>2, OneAndTwo
<1>4. PICK l \in Nat : l = Len(s)
  BY SeqFacts
<1>5. CASE InArray(f)
  <2>1. k = <<>> /\ IsSeq(k) /\ Len(k) = 0 /\ Operands(f) = 1
    BY <1>1, <1>5, OneAndTwo DEF KeyCells, Operands
  <2>2. PICK h : h = s \o k
    OBVIOUS
  <2>3. IsJoin(h, s, k)
    BY <2>1, <2>2, ConcatFacts
  <2>4. IsSeq(h) /\ Len(h) = l /\ \A i \in 1..l : h[i] = s[i]
    BY <1>4, <2>1, <2>3 DEF IsJoin
  <2>5. PICK r : r = h \o p
    OBVIOUS
  <2>6. IsJoin(r, h, p)
    BY <1>3, <2>4, <2>5, ConcatFacts
  <2>7. IsSeq(r) /\ Len(r) = l + 1 /\ r[l + 1] = p[1] /\ \A i \in 1..l : r[i] = s[i]
    BY <1>3, <1>4, <2>4, <2>6 DEF IsJoin
  <2>8. IsOnTop(r, s, f, x)
    BY <1>3, <1>4, <1>5, <2>1, <2>7 DEF IsOnTop
  <2> QED BY <1>1, <1>2, <2>2, <2>5, <2>8
<1>6. CASE ~InArray(f)
  <2>1. k = <<NameCell(f)>> /\ Operands(f) = 2
    BY <1>1, <1>6 DEF KeyCells, Operands
  <2>2. IsSeq(k) /\ Len(k) = 1 /\ k[1] = NameCell(f)
    BY <2>1, OneAndTwo
  <2>3. PICK h : h = s \o k
    OBVIOUS
  <2>4. IsJoin(h, s, k)
    BY <2>2, <2>3, ConcatFacts
  <2>5. IsSeq(h) /\ Len(h) = l + 1 /\ h[l + 1] = NameCell(f) /\ \A i \in 1..l : h[i] = s[i]
    BY <1>4, <2>2, <2>4 DEF IsJoin
  <2>6. PICK r : r = h \o p
    OBVIOUS
  <2>7. IsJoin(r, h, p)
    BY <1>3, <2>5, <2>6, ConcatFacts
  <2>8. /\ IsSeq(r) /\ Len(r) = l + 2 /\ r[l + 2] = p[1]
        /\ \A i \in 1..l + 1 : r[i] = h[i]
    BY <1>3, <1>4, <2>5, <2>7 DEF IsJoin
  <2>9. r[l + 1] = NameCell(f) /\ \A i \in 1..l : r[i] = s[i]
    BY <1>4, <2>5, <2>8
  <2>10. IsOnTop(r, s, f, x)
    BY <1>3, <1>4, <2>1, <2>8, <2>9 DEF IsOnTop
  <2> QED BY <1>1, <1>2, <2>3, <2>6, <2>10
<1> QED BY <1>5, <1>6

\* The frame of a call.
LEMMA TopFacts ==
  ASSUME NEW q, NEW vs, NEW s, NEW R, Pushes(q, vs, s, R),
         NEW n, n = Len(q), NEW f, f = q[n]
  PROVE  /\ n \in 1..MaxTableDepth /\ n \in 1..Len(q) /\ IsSeq(q) /\ q # <<>> /\ IsSeq(s)
         /\ Builds(f, vs[n], n, s, R) /\ Works(f, vs[n], n, s)
<1>1. n \in 1..MaxTableDepth /\ IsSeq(q) /\ IsSeq(s)
  BY DEF Pushes, Stacked
<1>2. n \in 1..Len(q) /\ q # <<>>
  BY <1>1, SeqFacts
<1> QED BY <1>1, <1>2 DEF Pushes, Stacked

LEMMA ItemPushed ==
  ASSUME NEW q, NEW vs, NEW s, NEW R, Pushes(q, vs, s, R), Closed(R),
         NEW n, n = Len(q), NEW f, f = q[n], ~f.pending, f.next <= Items(f.of),
         NEW x, x = ItemValue(f.of, f.next), ~(x.kind = "table" /\ ~TooDeep(n)),
         NEW g, g = [f EXCEPT !.pending = TRUE],
         NEW y, y = ItemCopy(vs[n], Parts(n), ItemKey(f.of, f.next)),
         NEW r, IsOnTop(r, s, f, y)
  PROVE  Pushes(Replaced(q, g), vs, r, R)
<1>1. /\ n \in 1..MaxTableDepth /\ n \in 1..Len(q) /\ IsSeq(q) /\ q # <<>> /\ IsSeq(s)
      /\ Builds(f, vs[n], n, s, R) /\ Works(f, vs[n], n, s)
  BY TopFacts
<1>2. PICK a \in Nat \ {0} : a = f.at /\ a = Len(s)
  BY <1>1 DEF Builds, Works
<1>3. /\ g.of = f.of /\ g.at = f.at /\ g.next = f.next /\ g.pending
      /\ g = [of |-> g.of, at |-> g.at, next |-> g.next, pending |-> g.pending]
  BY <1>1 DEF Builds
<1>4. PICK o \in {1, 2} : o = Operands(f) /\ o = Operands(g)
  BY <1>3, OperandsFacts DEF Operands, InArray
<1>5. /\ IsSeq(r) /\ Len(r) = a + o /\ r[Len(r)] = y /\ \A i \in 1..a : r[i] = s[i]
      /\ ~InArray(f) => r[a + 1] = NameCell(f)
  BY <1>2, <1>4 DEF IsOnTop
<1>6. PICK p : p = Replaced(q, g)
  OBVIOUS
<1>7. IsReplaced(p, q, g)
  BY <1>1, <1>6, ReplaceTop
<1>8. IsSeq(p) /\ Len(p) = n /\ p[n] = g /\ \A e \in 1..n - 1 : p[e] = q[e]
  BY <1>7 DEF IsReplaced
<1>9. Builds(g, vs[n], n, r, R)
  <2>1. a \in 1..a /\ a <= a + o
    BY <1>4
  <2>2. a <= Len(r) /\ r[a] = s[a]
    BY <1>5, <2>1
  <2> QED BY <1>1, <1>2, <1>3, <2>2 DEF Builds
<1>10. Works(g, vs[n], n, r)
  <2>1. InArray(g) = InArray(f) /\ NameCell(g) = NameCell(f)
    BY <1>3 DEF InArray, NameCell
  <2> QED BY <1>2, <1>3, <1>4, <1>5, <2>1 DEF Works
<1>11. Stacked(p, vs, r, R)
  <2>1. p[n].at = q[n].at /\ \A i \in 1..p[n].at - 1 : r[i] = s[i]
    BY <1>2, <1>3, <1>5, <1>8
  <2>2. Stacked(q, vs, s, R) /\ Builds(p[n], vs[n], n, r, R)
    BY <1>8, <1>9 DEF Pushes
  <2> QED BY <1>1, <1>5, <1>8, <2>1, <2>2, TopChanged
<1> QED BY <1>6, <1>8, <1>10, <1>11 DEF Pushes

\* An item that is a table: a call inside this one begins to build it on top.
LEMMA ItemOpened ==
  ASSUME NEW q, NEW vs, NEW s, NEW R, Pushes(q, vs, s, R), Closed(R),
         NEW n, n = Len(q), NEW f, f = q[n], ~f.pending, f.next <= Items(f.of),
         NEW x, x = ItemValue(f.of, f.next), x.kind = "table", ~TooDeep(n),
         NEW g, g = [f EXCEPT !.pending = TRUE],
         NEW r, IsOnTop(r, s, f, LuaTable(NoEntries)),
         NEW b, b = Building(x, Len(r))
  PROVE  PushesFor(Nested(q, g, b), vs[1], r, R)
<1>1. /\ n \in 1..MaxTableDepth /\ n \in 1..Len(q) /\ IsSeq(q) /\ q # <<>> /\ IsSeq(s)
      /\ Builds(f, vs[n], n, s, R) /\ Works(f, vs[n], n, s)
  BY TopFacts
<1>2. PICK a \in Nat \ {0} : a = f.at /\ a = Len(s)
  BY <1>1 DEF Builds, Works
<1>3. /\ g.of = f.of /\ g.at = f.at /\ g.next = f.next /\ g.pending
      /\ g = [of |-> g.of, at |-> g.at, next |-> g.next, pending |-> g.pending]
  BY <1>1 DEF Builds
<1>4. PICK o \in {1, 2} : o = Operands(f) /\ o = Operands(g)
  BY <1>3, OperandsFacts DEF Operands, InArray
<1>5. /\ IsSeq(r) /\ Len(r) = a + o /\ r[Len(r)] = LuaTable(NoEntries)
      /\ \A i \in 1..a : r[i] = s[i]
      /\ ~InArray(f) => r[a + 1] = NameCell(f)
  BY <1>2, <1>4 DEF IsOnTop
<1>6. PICK p : p = Nested(q, g, b)
  OBVIOUS
<1>7. IsNested(p, q, g, b)
  BY <1>1, <1>6, ReplaceAndNest
<1>8. /\ IsSeq(p) /\ Len(p) = n + 1 /\ p[n] = g /\ p[n + 1] = b
      /\ \A e \in 1..n - 1 : p[e] = q[e]
  BY <1>7 DEF IsNested
<1>9. PICK h : h = Replaced(q, g)
  OBVIOUS
<1>10. IsReplaced(h, q, g)
  BY <1>1, <1>9, ReplaceTop
<1>11. IsSeq(h) /\ Len(h) = n /\ h[n] = g /\ \A e \in 1..n - 1 : h[e] = q[e]
  BY <1>10 DEF IsReplaced
<1>12. Builds(g, vs[n], n, r, R)
  <2>1. a \in 1..a /\ a <= a + o
    BY <1>4
  <2>2. a <= Len(r) /\ r[a] = s[a]
    BY <1>5, <2>1
  <2> QED BY <1>1, <1>2, <1>3, <2>2 DEF Builds
<1>13. Stacked(h, vs, r, R)
  <2>1. h[n].at = q[n].at /\ \A i \in 1..h[n].at - 1 : r[i] = s[i]
    BY <1>2, <1>3, <1>5, <1>11
  <2>2. Stacked(q, vs, s, R) /\ Builds(h[n], vs[n], n, r, R)
    BY <1>11, <1>12 DEF Pushes
  <2> QED BY <1>1, <1>5, <1>11, <2>1, <2>2, TopChanged
<1>14. PICK k, c : k = ItemKey(f.of, f.next) /\ c = vs[n].entries[k]
  OBVIOUS
<1>15. f.next \in 1..Items(f.of) /\ Sound(vs[n], Parts(n))
       /\ Fits(f.of.array, f.of.fields, vs[n], DOMAIN vs[n].entries, n, R)
  <2>1. f.next \in 1..Items(f.of) + 1 /\ Sound(vs[n], Parts(n))
        /\ Fits(f.of.array, f.of.fields, vs[n], DOMAIN vs[n].entries, n, R)
    BY <1>1 DEF Builds
  <2>2. PICK m \in Nat : m = Items(f.of)
    BY <2>1, ItemsFacts
  <2> QED BY <2>1, <2>2
<1>16. /\ n < MaxTableDepth /\ k \in DOMAIN vs[n].entries
       /\ Fits(x.array, x.fields, c, DOMAIN c.entries, n + 1, R)
       /\ Sound(c, Parts(n + 1)) /\ Parts(n)[c] = Whole(c, Parts(n + 1))
  BY <1>1, <1>14, <1>15, TableItem
<1>17. Waits(h[n], vs[n], p[n + 1].at, c, r)
  <2>1. InArray(g) = InArray(f) /\ NameCell(g) = NameCell(f)
    BY <1>3 DEF InArray, NameCell
  <2>2. b.at = g.at + Operands(g)
    BY <1>2, <1>3, <1>4, <1>5 DEF Building
  <2>3. ItemKey(g.of, g.next) = k /\ g.next <= Items(g.of)
    BY <1>3, <1>14
  <2>4. ~InArray(g) => r[g.at + 1] = NameCell(g)
    BY <1>2, <1>3, <1>5, <2>1
  <2>5. Waits(g, vs[n], b.at, c, r)
    BY <1>3, <1>14, <1>16, <2>2, <2>3, <2>4 DEF Waits
  <2> QED BY <1>8, <1>11, <2>5
<1>18. Builds(b, c, n + 1, r, R) /\ Works(b, c, n + 1, r)
  <2>1. /\ b.of = x /\ b.at = Len(r) /\ b.next = 1 /\ ~b.pending
        /\ b = [of |-> b.of, at |-> b.at, next |-> b.next, pending |-> b.pending]
    BY DEF Building
  <2>2. 1 \in 1..Items(x) + 1
    <3>1. PICK m \in Nat : m = Items(x)
      BY <1>16, ItemsFacts
    <3> QED BY <3>1
  <2>3. Len(r) \in Nat \ {0} /\ Len(r) <= Len(r)
    BY <1>4, <1>5
  <2>4. r[Len(r)] = Partial(c, Parts(n + 1), x, 1)
    BY <1>5, PartialStart
  <2>5. Builds(b, c, n + 1, r, R)
    BY <1>16, <2>1, <2>2, <2>3, <2>4 DEF Builds
  <2> QED BY <2>1, <2>5 DEF Works
<1>19. \A e \in 1..n : p[e] = h[e]
  BY <1>1, <1>8, <1>11
<1>20. Builds(p[n + 1], c, n + 1, r, R) /\ Works(p[n + 1], c, n + 1, r)
  BY <1>8, <1>18
<1>21. n = Len(h) /\ n < MaxTableDepth /\ IsSeq(p) /\ Len(p) = n + 1
  BY <1>8, <1>11, <1>16
<1>22. PushesFor(p, vs[1], r, R)
  BY <1>13, <1>17, <1>19, <1>20, <1>21, OneInside
<1> QED BY <1>6, <1>22

\* One cell of the stack changed.
IsUpdated(r, s, i, x) ==
  /\ IsSeq(r) /\ Len(r) = Len(s) /\ r[i] = x
  /\ \A j \in 1..Len(s) : j # i => r[j] = s[j]

LEMMA UpdateFacts ==
  ASSUME NEW s, IsSeq(s), NEW i \in 1..Len(s), NEW x
  PROVE  IsUpdated([s EXCEPT ![i] = x], s, i, x)
<1>1. PICK S : s \in Seq(S)
  BY DEF IsSeq
<1>2. PICK r : r = [s EXCEPT ![i] = x]
  OBVIOUS
<1>3. r \in Seq(S \cup {x}) /\ Len(r) = Len(s)
  BY <1>1, <1>2
<1>4. r[i] = x /\ \A j \in 1..Len(s) : j # i => r[j] = s[j]
  BY <1>1, <1>2
<1> QED BY <1>2, <1>3, <1>4 DEF IsSeq, IsUpdated

\* The operands are gone, and x is in the slot below them.
IsTaken(r, s, a, x) ==
  /\ IsSeq(r) /\ Len(r) = a /\ r[a] = x
  /\ \A i \in 1..a - 1 : r[i] = s[i]

IsPrefix(r, s, a) == IsSeq(r) /\ Len(r) = a /\ \A i \in 1..a : r[i] = s[i]

LEMMA OperandsTaken ==
  ASSUME NEW rest, NEW s, NEW a \in Nat \ {0}, NEW x, IsPrefix(rest, s, a)
  PROVE  IsTaken([rest EXCEPT ![a] = x], s, a, x)
<1>1. IsSeq(rest) /\ Len(rest) = a /\ \A i \in 1..a : rest[i] = s[i]
  BY DEF IsPrefix
<1>2. a \in 1..Len(rest)
  BY <1>1
<1>3. PICK r : r = [rest EXCEPT ![a] = x]
  OBVIOUS
<1>4. IsUpdated(r, rest, a, x)
  BY <1>1, <1>2, <1>3, UpdateFacts
<1>5. IsTaken(r, s, a, x)
  <2>1. IsSeq(r) /\ Len(r) = a /\ r[a] = x
    BY <1>1, <1>4 DEF IsUpdated
  <2>2. ASSUME NEW i \in 1..a - 1 PROVE r[i] = s[i]
    <3>1. i \in 1..a /\ i # a
      OBVIOUS
    <3>2. r[i] = rest[i]
      BY <1>1, <1>4, <3>1 DEF IsUpdated
    <3> QED BY <1>1, <3>1, <3>2
  <2> QED BY <2>1, <2>2 DEF IsTaken
<1> QED BY <1>3, <1>5

\* The frame of a call whose item has been set.
ItemDone(f) == [f EXCEPT !.pending = FALSE, !.next = @ + 1]

\* What an item becomes in the table of its call.
WithItem(f, v, e, s) ==
  WithEntry(s[f.at], ItemKey(f.of, f.next), ItemCopy(v, Parts(e), ItemKey(f.of, f.next)))

\* The operands of an item go into the table below them.
LEMMA ItemSet ==
  ASSUME NEW q, NEW vs, NEW s, NEW R, Pushes(q, vs, s, R),
         NEW n, n = Len(q), NEW f, f = q[n], f.pending,
         NEW r, IsTaken(r, s, f.at, WithItem(f, vs[n], n, s))
  PROVE  Pushes(Replaced(q, ItemDone(f)), vs, r, R)
<1>1. /\ n \in 1..MaxTableDepth /\ n \in 1..Len(q) /\ IsSeq(q) /\ q # <<>> /\ IsSeq(s)
      /\ Builds(f, vs[n], n, s, R) /\ Works(f, vs[n], n, s)
  BY TopFacts
<1>2. PICK a \in Nat \ {0} : a = f.at
  BY <1>1 DEF Builds
<1>3. PICK g : g = ItemDone(f)
  OBVIOUS
<1>4. /\ g.of = f.of /\ g.at = f.at /\ g.next = f.next + 1 /\ ~g.pending
      /\ g = [of |-> g.of, at |-> g.at, next |-> g.next, pending |-> g.pending]
  <2>1. f = [of |-> f.of, at |-> f.at, next |-> f.next, pending |-> f.pending]
    BY <1>1 DEF Builds
  <2> QED BY <1>3, <2>1 DEF ItemDone
<1>5. PICK below, t : below = Parts(n) /\ t = s[a]
  OBVIOUS
<1>6. PICK k, y : k = ItemKey(f.of, f.next) /\ y = ItemCopy(vs[n], below, k)
  OBVIOUS
<1>7. f.next <= Items(f.of)
  BY <1>1 DEF Works
<1>11. PICK z : z = WithEntry(t, k, y)
  OBVIOUS
<1>14. IsSeq(r) /\ Len(r) = a /\ r[a] = z /\ \A i \in 1..a - 1 : r[i] = s[i]
  BY <1>2, <1>5, <1>6, <1>11 DEF IsTaken, WithItem
<1>15. Builds(g, vs[n], n, r, R)
  <2>1. PICK m \in Nat \ {0} : m = f.next /\ t = Partial(vs[n], below, f.of, m)
    BY <1>1, <1>2, <1>5 DEF Builds
  <2>2. z = Partial(vs[n], below, f.of, m + 1)
    BY <1>6, <1>11, <2>1, PartialStep
  <2>3. m + 1 \in 1..Items(f.of) + 1
    <3>1. PICK c \in Nat : c = Items(f.of)
      BY <1>1, ItemsFacts DEF Builds
    <3> QED BY <1>7, <2>1, <3>1
  <2>4. /\ Sound(vs[n], Parts(n))
        /\ Fits(f.of.array, f.of.fields, vs[n], DOMAIN vs[n].entries, n, R)
    BY <1>1 DEF Builds
  <2>5. g.at \in Nat \ {0} /\ g.at <= Len(r) /\ r[g.at] = z
    BY <1>2, <1>4, <1>14
  <2> QED BY <1>4, <1>5, <2>1, <2>2, <2>3, <2>4, <2>5 DEF Builds
<1>16. PICK p : p = Replaced(q, g)
  OBVIOUS
<1>17. IsReplaced(p, q, g)
  BY <1>1, <1>16, ReplaceTop
<1>18. IsSeq(p) /\ Len(p) = n /\ p[n] = g /\ \A e \in 1..n - 1 : p[e] = q[e]
  BY <1>17 DEF IsReplaced
<1>19. Stacked(p, vs, r, R)
  <2>1. p[n].at = q[n].at /\ \A i \in 1..p[n].at - 1 : r[i] = s[i]
    BY <1>2, <1>4, <1>14, <1>18
  <2>2. Stacked(q, vs, s, R) /\ Builds(p[n], vs[n], n, r, R)
    BY <1>15, <1>18 DEF Pushes
  <2> QED BY <1>1, <1>14, <1>18, <2>1, <2>2, TopChanged
<1>20. Works(g, vs[n], n, r)
  BY <1>2, <1>4, <1>14 DEF Works
<1> QED BY <1>3, <1>16, <1>18, <1>19, <1>20 DEF Pushes

\* A finished table is the whole copy, and the item of the call around it.
Finishes(q, vs, s, R, n, f) ==
  /\ Len(s) = f.at /\ s[f.at] = Whole(vs[n], Parts(n))
  /\ n = 1 => Front(q) = <<>>
  /\ n # 1 => Front(q) # <<>> /\ Pushes(Front(q), vs, s, R)

LEMMA TableFinished ==
  ASSUME NEW q, NEW vs, NEW s, NEW R, Pushes(q, vs, s, R),
         NEW n, n = Len(q), NEW f, f = q[n], ~f.pending, f.next > Items(f.of)
  PROVE  Finishes(q, vs, s, R, n, f)
<1>1. /\ n \in 1..MaxTableDepth /\ n \in 1..Len(q) /\ IsSeq(q) /\ q # <<>> /\ IsSeq(s)
      /\ Builds(f, vs[n], n, s, R) /\ Works(f, vs[n], n, s)
  BY TopFacts
<1>2. PICK a \in Nat \ {0} : a = f.at /\ a = Len(s)
  BY <1>1 DEF Builds, Works
<1>3. Sound(vs[n], Parts(n)) /\ vs[n] \in Value /\ vs[n].kind = "table"
      /\ Fits(f.of.array, f.of.fields, vs[n], DOMAIN vs[n].entries, n, R)
  BY <1>1 DEF Builds, Sound
<1>4. s[a] = Whole(vs[n], Parts(n))
  <2>1. PICK m \in Nat : m = Items(f.of)
    BY <1>3, ItemsFacts
  <2>2. f.next = Items(f.of) + 1
    <3>1. f.next \in 1..Items(f.of) + 1
      BY <1>1 DEF Builds
    <3> QED BY <2>1, <3>1
  <2>3. s[a] = Partial(vs[n], Parts(n), f.of, f.next)
    BY <1>1, <1>2 DEF Builds
  <2>4. Partial(vs[n], Parts(n), f.of, Items(f.of) + 1) = Whole(vs[n], Parts(n))
    BY <1>3, PartialEnd
  <2> QED BY <2>2, <2>3, <2>4
<1>5. PICK h : h = Front(q)
  OBVIOUS
<1>6. IsSeq(h) /\ Len(h) = n - 1 /\ \A e \in 1..n - 1 : h[e] = q[e]
  BY <1>1, <1>5, FrontFacts
<1>7. n \in Nat \ {0}
  BY <1>1
<1>8. ASSUME n = 1 PROVE h = <<>>
  <2>1. Len(h) = 0
    BY <1>6, <1>8
  <2> QED BY <1>6, <2>1, SeqFacts
<1>9. ASSUME n # 1 PROVE h # <<>> /\ Pushes(h, vs, s, R)
  <2>1. PICK m \in Nat \ {0} : m = n - 1 /\ n = m + 1 /\ m \in 1..n - 1
    BY <1>7, <1>9
  <2>2. PICK u, w : u = q[m] /\ w = vs[m]
    OBVIOUS
  <2>3. Stacked(q, vs, s, R)
    BY DEF Pushes
  <2>4. m \in 1..Len(q) /\ m \in 1..Len(q) - 1
    BY <2>1
  <2>5. Builds(u, w, m, s, R)
    BY <2>2, <2>3, <2>4 DEF Stacked
  <2>6. Waits(u, w, f.at, vs[n], s)
    BY <2>1, <2>2, <2>3, <2>4 DEF Stacked
  <2>7. h[m] = u /\ h[m].at = q[m].at /\ Len(h) = m
    BY <1>6, <2>1, <2>2
  <2>8. Stacked(h, vs, s, R)
    <3>1. \A e \in 1..m - 1 : h[e] = q[e]
      BY <1>6, <2>1
    <3>2. Builds(h[m], vs[m], m, s, R) /\ \A i \in 1..h[m].at - 1 : s[i] = s[i]
      BY <2>2, <2>5, <2>7
    <3> QED BY <1>1, <1>6, <2>3, <2>4, <2>7, <3>1, <3>2, TopChanged
  <2>9. PICK k : k = ItemKey(u.of, u.next)
    OBVIOUS
  <2>10. /\ u.pending /\ u.next <= Items(u.of) /\ k \in DOMAIN w.entries
         /\ vs[n] = w.entries[k] /\ a = u.at + Operands(u)
         /\ ~InArray(u) => s[u.at + 1] = NameCell(u)
    BY <1>2, <2>6, <2>9 DEF Waits
  <2>11. s[a] = ItemCopy(w, Parts(m), k)
    <3>1. k[1] # "odd"
      BY <2>9 DEF ItemKey
    <3>2. Parts(m)[vs[n]] # Opaque
      BY <2>5, <2>10, <3>1 DEF Builds, Sound
    <3>3. m \in 1..MaxTableDepth /\ m < MaxTableDepth
      BY <1>1, <2>1, ArgumentAssumption
    <3>4. Parts(m)[vs[n]] = Whole(vs[n], Parts(m + 1))
      BY <1>3, <3>2, <3>3, PartTable
    <3>5. ItemCopy(w, Parts(m), k) = Parts(m)[vs[n]]
      BY <2>10 DEF ItemCopy
    <3> QED BY <1>4, <2>1, <3>4, <3>5
  <2>12. Works(u, w, m, s)
    BY <1>2, <2>9, <2>10, <2>11 DEF Works
  <2>13. h # <<>>
    BY <1>6, <2>7, SeqFacts
  <2> QED BY <2>2, <2>7, <2>8, <2>12, <2>13 DEF Pushes
<1> QED BY <1>2, <1>4, <1>5, <1>8, <1>9 DEF Finishes

-----------------------------------------------------------------------------
(* The steps of the calls inside a table.                                   *)

\* The outermost table is the lowest.
LEMMA Bottom ==
  ASSUME NEW q, NEW vs, NEW s, NEW R, Pushes(q, vs, s, R), NEW n, n = Len(q)
  PROVE  /\ q # <<>> /\ IsSeq(s)
         /\ q[1].at \in Nat \ {0} /\ q[n].at \in Nat \ {0} /\ q[1].at <= q[n].at
         /\ q[n].at <= Len(s)
<1>1. n \in 1..MaxTableDepth /\ n \in 1..Len(q) /\ q # <<>> /\ IsSeq(s)
  BY TopFacts
<1>2. n \in Nat \ {0}
  BY <1>1
<1>3. Stacked(q, vs, s, R)
  BY DEF Pushes
<1>4. Builds(q[n], vs[n], n, s, R)
  BY <1>1, <1>3 DEF Stacked
<1>5. PICK a \in Nat \ {0} : a = q[n].at /\ a <= Len(s)
  BY <1>4 DEF Builds
<1>6. CASE n = 1
  BY <1>1, <1>5, <1>6
<1>7. CASE n # 1
  <2>1. 1 \in 1..Len(q) /\ 1 < n
    BY <1>1, <1>2, <1>7
  <2>2. q[1].at + Operands(q[1]) <= q[n].at
    BY <1>1, <1>3, <2>1 DEF Stacked
  <2>3. Builds(q[1], vs[1], 1, s, R)
    BY <1>3, <2>1 DEF Stacked
  <2>4. PICK b \in Nat \ {0} : b = q[1].at
    BY <2>3 DEF Builds
  <2>5. PICK o \in {1, 2} : o = Operands(q[1])
    BY OperandsFacts
  <2>6. b + o <= a
    BY <1>5, <2>2, <2>4, <2>5
  <2>7. b <= a
    BY <2>5, <2>6
  <2> QED BY <1>1, <1>5, <2>4, <2>7
<1> QED BY <1>6, <1>7

LEMMA FirstTable ==
  ASSUME NEW q, NEW vs, NEW s, NEW R, Pushes(q, vs, s, R)
  PROVE  vs[1] \in Value /\ vs[1].kind = "table"
<1>1. PICK n : n = Len(q)
  OBVIOUS
<1>2. n \in 1..Len(q)
  BY <1>1, TopFacts
<1>3. 1 \in 1..Len(q)
  BY <1>1, <1>2
<1>4. Builds(q[1], vs[1], 1, s, R)
  BY <1>3 DEF Pushes, Stacked
<1> QED BY <1>4 DEF Builds, Sound

\* A step inside a table leaves the slots below it alone.
Goes(q, s, p, r, w, R) ==
  /\ PushesFor(p, w, r, R) /\ p # <<>> /\ p[1].at = q[1].at
  /\ IsSeq(r) /\ q[1].at <= Len(r)
  /\ \A i \in 1..q[1].at - 1 : r[i] = s[i]

LEMMA GoesOn ==
  ASSUME NEW q, NEW vs, NEW s, NEW R, Pushes(q, vs, s, R), NEW n, n = Len(q),
         NEW p, NEW r, PushesFor(p, vs[1], r, R), p[n].at = q[n].at,
         \A e \in 1..n - 1 : p[e] = q[e],
         \A i \in 1..q[n].at - 1 : r[i] = s[i]
  PROVE  Goes(q, s, p, r, vs[1], R)
<1>1. PICK a \in Nat, b \in Nat : a = q[1].at /\ b = q[n].at /\ a <= b
  BY Bottom
<1>2. n \in Nat \ {0}
  BY TopFacts
<1>3. p[1].at = q[1].at
  <2>1. CASE n = 1
    BY <2>1
  <2>2. CASE n # 1
    <3>1. 1 \in 1..n - 1
      BY <1>2, <2>2
    <3> QED BY <3>1
  <2> QED BY <2>1, <2>2
<1>4. \A i \in 1..a - 1 : r[i] = s[i]
  <2>1. \A i \in 1..a - 1 : i \in 1..b - 1
    BY <1>1
  <2> QED BY <1>1, <2>1
<1>5. PICK us : Pushes(p, us, r, R)
  BY DEF PushesFor
<1>6. PICK m : m = Len(p)
  OBVIOUS
<1>7. /\ p # <<>> /\ IsSeq(r) /\ p[1].at \in Nat /\ p[m].at \in Nat
      /\ p[1].at <= p[m].at /\ p[m].at <= Len(r)
  BY <1>5, <1>6, Bottom
<1>8. Len(r) \in Nat
  BY <1>7, SeqFacts
<1>9. q[1].at <= Len(r)
  BY <1>3, <1>7, <1>8
<1> QED BY <1>1, <1>3, <1>4, <1>7, <1>9 DEF Goes

\* The next item, if there is one.
LEMMA NextItem ==
  ASSUME NEW f, NEW v, NEW e, NEW s, NEW R, Builds(f, v, e, s, R), f.next <= Items(f.of)
  PROVE  /\ f.next \in 1..Items(f.of) /\ Sound(v, Parts(e))
         /\ Fits(f.of.array, f.of.fields, v, DOMAIN v.entries, e, R)
<1>1. /\ f.next \in 1..Items(f.of) + 1 /\ Sound(v, Parts(e))
      /\ Fits(f.of.array, f.of.fields, v, DOMAIN v.entries, e, R)
  BY DEF Builds
<1>2. PICK m \in Nat : m = Items(f.of)
  BY <1>1, ItemsFacts
<1> QED BY <1>1, <1>2

\* Joins of short sequences.
LEMMA TwoMore ==
  ASSUME NEW q, IsSeq(q), q # <<>>, NEW a, NEW b
  PROVE  Front(q) \o <<a>> \o <<b>> = Nested(q, a, b)
<1>1. PICK S : q \in Seq(S)
  BY DEF IsSeq
<1>2. PICK h : h = Front(q)
  OBVIOUS
<1>3. IsSeq(h)
  BY <1>2, FrontFacts
<1>4. PICK T : h \in Seq(T)
  BY <1>3 DEF IsSeq
<1>5. PICK U : U = T \cup {a, b}
  OBVIOUS
<1>6. h \in Seq(U) /\ <<a>> \in Seq(U) /\ <<b>> \in Seq(U)
  BY <1>4, <1>5
<1>7. h \o <<a>> \o <<b>> = h \o (<<a>> \o <<b>>)
  BY <1>6, ConcatAssociative
<1>8. <<a>> \o <<b>> = <<a, b>>
  <2>1. PICK p : p = <<a>> \o <<b>>
    OBVIOUS
  <2>2. p \in Seq(U) /\ Len(p) = 2 /\ p[1] = a /\ p[2] = b
    BY <1>6, <2>1
  <2>3. <<a, b>> \in Seq(U) /\ Len(<<a, b>>) = 2
    BY <1>5
  <2>4. \A i \in 1..2 : p[i] = <<a, b>>[i]
    BY <2>2
  <2> QED BY <2>1, <2>2, <2>3, <2>4, SeqEqual
<1> QED BY <1>2, <1>7, <1>8 DEF Nested

LEMMA NoneMore ==
  ASSUME NEW q, IsSeq(q), q # <<>>, NEW a
  PROVE  Front(q) \o <<a>> \o <<>> = Replaced(q, a)
<1>1. PICK h : h = Replaced(q, a)
  OBVIOUS
<1>2. IsReplaced(h, q, a)
  BY <1>1, ReplaceTop
<1>3. PICK S : h \in Seq(S)
  BY <1>2 DEF IsReplaced, IsSeq
<1>4. h \o <<>> = h
  BY <1>3, ConcatEmptySeq
<1> QED BY <1>1, <1>4 DEF Replaced

LEMMA PushItemStep ==
  ASSUME NEW w, NEW R, PushesFor(pushing, w, stack, R), Closed(R), push_item
  PROVE  Goes(pushing, stack, pushing', stack', w, R)
<1>1. PICK q, s : q = pushing /\ s = stack
  OBVIOUS
<1>2. PICK p, r : p = pushing' /\ r = stack'
  OBVIOUS
<1>3. PICK vs : Pushes(q, vs, s, R) /\ vs[1] = w
  BY <1>1 DEF PushesFor
<1>4. PICK n, f : n = Len(q) /\ f = q[n] /\ f = Top(q)
  BY DEF Top
<1>5. PICK x, k : x = ItemValue(f.of, f.next) /\ k = KeyCells(f)
  OBVIOUS
<1>6. PICK slots : slots = IF x = None /\ InArray(f) THEN <<Nil>> ELSE PushedSlots(x, n)
  OBVIOUS
<1>7. PICK opens \in BOOLEAN : opens <=> x.kind = "table" /\ ~TooDeep(n)
  OBVIOUS
<1>8. PICK g : g = [f EXCEPT !.pending = TRUE]
  OBVIOUS
<1>9. /\ ~f.pending /\ f.next <= Items(f.of)
      /\ r = s \o k \o slots
      /\ p = Front(q) \o <<g>> \o (IF opens THEN <<Building(x, Len(r))>> ELSE <<>>)
  <2>1. PICK entry : entry = f.of.fields[f.next - Len(f.of.array)]
    OBVIOUS
  <2>2. x = IF InArray(f) THEN f.of.array[f.next] ELSE entry[2]
    BY <1>5, <2>1 DEF ItemValue, InArray
  <2>3. k = IF InArray(f) THEN <<>> ELSE <<[kind |-> "name", of |-> entry[1]]>>
    BY <1>5, <2>1 DEF KeyCells, NameCell, ItemKey, InArray
  <2>4. /\ ~f.pending /\ f.next <= Items(f.of)
        /\ r = s \o k \o slots
    BY <1>1, <1>2, <1>4, <1>6, <2>1, <2>2, <2>3 DEF push_item, KeepsHole
  <2>5. p = Front(q) \o <<g>> \o (IF opens THEN <<Building(x, Len(r))>> ELSE <<>>)
    BY <1>1, <1>2, <1>4, <1>7, <1>8, <2>1, <2>2 DEF push_item
  <2> QED BY <2>4, <2>5
<1>10. /\ n \in 1..MaxTableDepth /\ IsSeq(q) /\ q # <<>> /\ IsSeq(s)
       /\ Builds(f, vs[n], n, s, R) /\ Works(f, vs[n], n, s)
  BY <1>3, <1>4, TopFacts
<1>11. PICK a \in Nat \ {0} : a = f.at /\ a = Len(s)
  BY <1>9, <1>10 DEF Builds, Works
<1>12. g.at = f.at
  BY <1>8, <1>10 DEF Builds
<1>13. CASE opens
  <2>1. slots = <<LuaTable(NoEntries)>>
    BY <1>6, <1>7, <1>13 DEF PushedSlots, None
  <2>2. r = s \o KeyCells(f) \o <<LuaTable(NoEntries)>>
    BY <1>5, <1>9, <2>1
  <2>3. IsOnTop(r, s, f, LuaTable(NoEntries))
    BY <1>10, <2>2, OnTop
  <2>4. PICK b : b = Building(x, Len(r))
    OBVIOUS
  <2>5. PushesFor(Nested(q, g, b), vs[1], r, R)
    BY <1>3, <1>4, <1>5, <1>7, <1>8, <1>9, <1>13, <2>3, <2>4, ItemOpened
  <2>6. p = Nested(q, g, b)
    BY <1>9, <1>10, <1>13, <2>4, TwoMore
  <2>7. IsNested(p, q, g, b)
    BY <1>10, <2>6, ReplaceAndNest
  <2>8. p[n].at = q[n].at /\ \A e \in 1..n - 1 : p[e] = q[e]
    BY <1>4, <1>12, <2>7 DEF IsNested
  <2>9. \A i \in 1..q[n].at - 1 : r[i] = s[i]
    BY <1>4, <1>11, <2>3 DEF IsOnTop
  <2>10. Goes(q, s, p, r, vs[1], R)
    BY <1>3, <1>4, <2>5, <2>6, <2>8, <2>9, GoesOn
  <2> QED BY <1>1, <1>2, <1>3, <2>10
<1>14. CASE ~opens
  <2>1. PICK y : y = ItemCopy(vs[n], Parts(n), ItemKey(f.of, f.next))
    OBVIOUS
  <2>2. /\ f.next \in 1..Items(f.of) /\ Sound(vs[n], Parts(n))
        /\ Fits(f.of.array, f.of.fields, vs[n], DOMAIN vs[n].entries, n, R)
    BY <1>9, <1>10, NextItem
  <2>3. slots = <<y>>
    <3>1. (IF x = None /\ f.next <= Len(f.of.array) THEN <<Nil>> ELSE PushedSlots(x, n)) = <<y>>
      BY <1>5, <1>7, <1>10, <1>14, <2>1, <2>2, FlatItem
    <3> QED BY <1>6, <3>1 DEF InArray
  <2>4. r = s \o KeyCells(f) \o <<y>>
    BY <1>5, <1>9, <2>3
  <2>5. IsOnTop(r, s, f, y)
    BY <1>10, <2>4, OnTop
  <2>6. Pushes(Replaced(q, g), vs, r, R)
    BY <1>3, <1>4, <1>5, <1>7, <1>8, <1>9, <1>14, <2>1, <2>5, ItemPushed
  <2>7. p = Replaced(q, g)
    BY <1>9, <1>10, <1>14, NoneMore
  <2>8. IsReplaced(p, q, g)
    BY <1>10, <2>7, ReplaceTop
  <2>9. p[n].at = q[n].at /\ \A e \in 1..n - 1 : p[e] = q[e]
    BY <1>4, <1>12, <2>8 DEF IsReplaced
  <2>10. \A i \in 1..q[n].at - 1 : r[i] = s[i]
    BY <1>4, <1>11, <2>5 DEF IsOnTop
  <2>11. PushesFor(p, vs[1], r, R)
    BY <2>6, <2>7 DEF PushesFor
  <2>12. Goes(q, s, p, r, vs[1], R)
    BY <1>3, <1>4, <2>9, <2>10, <2>11, GoesOn
  <2> QED BY <1>1, <1>2, <1>3, <2>12
<1> QED BY <1>13, <1>14

LEMMA SetItemStep ==
  ASSUME NEW w, NEW R, PushesFor(pushing, w, stack, R), set_item
  PROVE  Goes(pushing, stack, pushing', stack', w, R)
<1>1. PICK q, s : q = pushing /\ s = stack
  OBVIOUS
<1>2. PICK p, r : p = pushing' /\ r = stack'
  OBVIOUS
<1>3. PICK vs : Pushes(q, vs, s, R) /\ vs[1] = w
  BY <1>1 DEF PushesFor
<1>4. PICK n, f : n = Len(q) /\ f = q[n] /\ f = Top(q)
  BY DEF Top
<1>5. PICK rest, key : /\ rest = SubSeq(s, 1, Len(s) - Operands(f))
                       /\ key = IF InArray(f) THEN <<"position", f.next>>
                                ELSE <<"name", s[Len(s) - 1].of>>
  OBVIOUS
<1>6. /\ f.pending
      /\ r = IF Len(rest) >= f.at
             THEN [rest EXCEPT ![f.at] = WithEntry(rest[f.at], key, Top(s))] ELSE rest
      /\ p = Replaced(q, ItemDone(f))
  BY <1>1, <1>2, <1>4, <1>5 DEF set_item, Operands, ItemDone, Replaced
<1>7. /\ n \in 1..MaxTableDepth /\ n \in 1..Len(q) /\ IsSeq(q) /\ q # <<>> /\ IsSeq(s)
      /\ Builds(f, vs[n], n, s, R) /\ Works(f, vs[n], n, s)
  BY <1>3, <1>4, TopFacts
<1>8. PICK a \in Nat \ {0} : a = f.at
  BY <1>7 DEF Builds
<1>9. PICK o \in {1, 2} : o = Operands(f) /\ (~InArray(f) => o = 2)
  BY OperandsFacts
<1>10. PICK k, y : k = ItemKey(f.of, f.next) /\ y = ItemCopy(vs[n], Parts(n), k)
  OBVIOUS
<1>11. /\ Len(s) = a + o /\ s[Len(s)] = y
       /\ ~InArray(f) => s[a + 1] = NameCell(f)
  BY <1>6, <1>7, <1>8, <1>9, <1>10 DEF Works
<1>12. key = k
  <2>1. CASE InArray(f)
    BY <1>5, <1>10, <2>1 DEF InArray, ItemKey
  <2>2. CASE ~InArray(f)
    <3>1. Len(s) - 1 = a + 1
      BY <1>9, <1>11, <2>2
    <3>2. s[Len(s) - 1].of = k[2]
      BY <1>10, <1>11, <2>2, <3>1 DEF NameCell
    <3>3. k = <<"name", k[2]>>
      BY <1>10, <2>2 DEF InArray, ItemKey
    <3> QED BY <1>5, <2>2, <3>2, <3>3
  <2> QED BY <2>1, <2>2
<1>13. PICK z : z = WithItem(f, vs[n], n, s)
  OBVIOUS
<1>14. z = WithEntry(s[a], k, y)
  BY <1>8, <1>10, <1>13 DEF WithItem
<1>15. Len(rest) = a /\ rest[a] = s[a] /\ IsTaken([rest EXCEPT ![a] = z], s, a, z)
  <2>1. Len(s) - Operands(f) = a /\ a \in 0..Len(s)
    BY <1>9, <1>11
  <2>2. IsSeq(rest) /\ Len(rest) = a /\ \A i \in 1..a : rest[i] = s[i]
    BY <1>5, <1>7, <2>1, PrefixFacts
  <2>3. IsPrefix(rest, s, a) /\ a \in 1..a
    BY <2>2 DEF IsPrefix
  <2>4. IsTaken([rest EXCEPT ![a] = z], s, a, z)
    BY <2>3, OperandsTaken
  <2> QED BY <2>2, <2>3, <2>4
<1>16. r = [rest EXCEPT ![a] = z]
  <2>1. Top(s) = y
    BY <1>11 DEF Top
  <2> QED BY <1>6, <1>8, <1>12, <1>14, <1>15, <2>1
<1>17. IsTaken(r, s, f.at, WithItem(f, vs[n], n, s))
  BY <1>8, <1>13, <1>15, <1>16
<1>18. Pushes(p, vs, r, R)
  BY <1>3, <1>4, <1>6, <1>17, ItemSet
<1>19. IsReplaced(p, q, ItemDone(f))
  BY <1>6, <1>7, ReplaceTop
<1>20. ItemDone(f).at = f.at
  BY <1>7 DEF ItemDone, Builds
<1>21. p[n].at = q[n].at /\ \A e \in 1..n - 1 : p[e] = q[e]
  BY <1>4, <1>19, <1>20 DEF IsReplaced
<1>22. \A i \in 1..q[n].at - 1 : r[i] = s[i]
  BY <1>4, <1>17 DEF IsTaken
<1>23. PushesFor(p, vs[1], r, R)
  BY <1>18 DEF PushesFor
<1>24. Goes(q, s, p, r, vs[1], R)
  BY <1>3, <1>4, <1>21, <1>22, <1>23, GoesOn
<1> QED BY <1>1, <1>2, <1>3, <1>24

\* The end of a table: the call around it goes on, or the copy is on top.
LEMMA TableEndStep ==
  ASSUME NEW w \in Value, NEW R, PushesFor(pushing, w, stack, R), push_table_end,
         w.kind = "table", Copy(w) # Opaque
  PROVE  /\ pushing' = <<>> => Len(stack) = pushing[1].at /\ stack[Len(stack)] = Copy(w)
         /\ pushing' # <<>> => Goes(pushing, stack, pushing', stack', w, R)
<1>1. PICK q, s : q = pushing /\ s = stack
  OBVIOUS
<1>2. PICK vs : Pushes(q, vs, s, R) /\ vs[1] = w
  BY <1>1 DEF PushesFor
<1>3. PICK n, f : n = Len(q) /\ f = q[n] /\ f = Top(q)
  BY DEF Top
<1>4. ~f.pending /\ f.next > Items(f.of) /\ pushing' = Front(q) /\ stack' = s
  BY <1>1, <1>3 DEF push_table_end
<1>5. /\ Len(s) = f.at /\ s[f.at] = Whole(vs[n], Parts(n))
      /\ n = 1 => Front(q) = <<>>
      /\ n # 1 => Front(q) # <<>> /\ Pushes(Front(q), vs, s, R)
  <2>1. Finishes(q, vs, s, R, n, f)
    BY <1>2, <1>3, <1>4, TableFinished
  <2> QED BY <2>1 DEF Finishes
<1>6. CASE n = 1
  <2>1. Copy(w) = Whole(w, Parts(1))
    <3>1. MaxTableDepth \in 0..MaxTableDepth /\ MaxTableDepth # 0
      BY ArgumentAssumption
    <3>2. copy[MaxTableDepth][w] # Opaque
      BY DEF Copy
    <3>3. copy[MaxTableDepth][w] = Whole(w, copy[MaxTableDepth - 1])
      BY <3>1, <3>2, CopyTable
    <3> QED BY <3>3 DEF Copy, Parts
  <2> QED BY <1>1, <1>2, <1>3, <1>4, <1>5, <1>6, <2>1
<1>7. CASE n # 1
  <2>1. PICK p : p = Front(q)
    OBVIOUS
  <2>2. p # <<>> /\ PushesFor(p, vs[1], s, R)
    BY <1>5, <1>7, <2>1 DEF PushesFor
  <2>3. n \in Nat \ {0} /\ IsSeq(q) /\ q # <<>>
    BY <1>2, <1>3, TopFacts
  <2>4. p[1] = q[1]
    <3>1. 1 \in 1..n - 1
      BY <1>7, <2>3
    <3> QED BY <1>3, <2>1, <2>3, <3>1, FrontFacts
  <2>5. PICK us : Pushes(p, us, s, R)
    BY <2>2 DEF PushesFor
  <2>6. PICK m : m = Len(p)
    OBVIOUS
  <2>7. /\ IsSeq(s) /\ p[1].at \in Nat /\ p[m].at \in Nat
        /\ p[1].at <= p[m].at /\ p[m].at <= Len(s)
    BY <2>5, <2>6, Bottom
  <2>8. p[1].at <= Len(s)
    BY <2>7, SeqFacts
  <2>9. Goes(q, s, p, s, w, R)
    BY <1>2, <2>2, <2>4, <2>7, <2>8 DEF Goes
  <2> QED BY <1>1, <1>4, <2>1, <2>2, <2>9
<1> QED BY <1>6, <1>7

-----------------------------------------------------------------------------
(* The results of a call, on the stack.                                     *)

\* After k arguments `args`, snapshots of m: the copies of those that come back, D,
\* are in their places; the last one may still be built by the calls q.
Results(D, m, args, k, c, q, s, R) ==
  /\ k \in 0..Len(args) /\ c = UpTo(D, k) /\ IsSeq(s)
  /\ \A i \in D : i < k \/ (i = k /\ q = <<>>) =>
       UpTo(D, i) <= Len(s) /\ s[UpTo(D, i)] = Copy(m[i])
  /\ q = <<>> => Len(s) = UpTo(D, k)
  /\ q # <<>> => k \in D /\ q[1].at = UpTo(D, k) /\ PushesFor(q, m[k], s, R)

\* D are the indices of what comes back, and all of it can be copied.
Comes(D, m) ==
  /\ Len(m) \in Nat
  /\ \A i \in D : i \in 1..Len(m) /\ m[i].kind # "function" /\ Copy(m[i]) # Opaque
  /\ \A i \in 1..Len(m) : m[i].kind # "function" => i \in D

LEMMA ResultsStart ==
  ASSUME NEW D, NEW m, Comes(D, m), NEW args, IsSeq(args), NEW R
  PROVE  Results(D, m, args, 0, 0, <<>>, <<>>, R)
<1>1. \A i \in D : i \in Nat \ {0}
  BY DEF Comes
<1>2. UpTo(D, 0) = 0
  BY UpToStep
<1>3. IsSeq(<<>>) /\ Len(<<>>) = 0
  BY OneAndTwo
<1>4. 0 \in 0..Len(args)
  BY SeqFacts
<1>5. \A i \in D : ~(i < 0) /\ i # 0
  BY <1>1
<1> QED BY <1>2, <1>3, <1>4, <1>5 DEF Results

\* A step inside a table.
LEMMA ResultsGoOn ==
  ASSUME NEW D, NEW m, Comes(D, m), NEW args, IsSeq(args), NEW k, NEW c, NEW q, NEW s, NEW R,
         Results(D, m, args, k, c, q, s, R), q # <<>>,
         NEW p, NEW r, Goes(q, s, p, r, m[k], R)
  PROVE  Results(D, m, args, k, c, p, r, R)
<1>1. PICK a : a = q[1].at
  OBVIOUS
<1>2. /\ k \in 0..Len(args) /\ c = UpTo(D, k) /\ k \in D /\ a = UpTo(D, k)
      /\ \A i \in D : i < k => UpTo(D, i) <= Len(s) /\ s[UpTo(D, i)] = Copy(m[i])
  BY <1>1 DEF Results
<1>3. /\ PushesFor(p, m[k], r, R) /\ p # <<>> /\ p[1].at = a
      /\ IsSeq(r) /\ a <= Len(r) /\ \A i \in 1..a - 1 : r[i] = s[i]
  BY <1>1 DEF Goes
<1>4. k \in Nat \ {0} /\ \A i \in D : i \in Nat \ {0}
  BY <1>2 DEF Comes
<1>5. Len(r) \in Nat
  BY <1>3, SeqFacts
<1>6. ASSUME NEW i \in D, i < k
      PROVE  UpTo(D, i) <= Len(r) /\ r[UpTo(D, i)] = Copy(m[i])
  <2>1. PICK h \in Nat \ {0} : h = UpTo(D, i)
    BY <1>4, PlaceFacts
  <2>2. UpTo(D, k) \in Nat \ {0}
    BY <1>2, <1>4, PlaceFacts
  <2>3. h < a
    BY <1>2, <1>4, <1>6, <2>1, PlaceFacts
  <2>4. h \in 1..a - 1 /\ h <= Len(r)
    BY <1>2, <1>3, <1>5, <2>1, <2>2, <2>3
  <2> QED BY <1>2, <1>3, <1>6, <2>1, <2>4
<1> QED BY <1>2, <1>3, <1>6 DEF Results

\* The end of an outermost table.
LEMMA ResultsTableEnd ==
  ASSUME NEW D, NEW m, Comes(D, m), NEW args, IsSeq(args), NEW k, NEW c, NEW q, NEW s, NEW R,
         Results(D, m, args, k, c, q, s, R), q # <<>>,
         Len(s) = q[1].at, s[Len(s)] = Copy(m[k])
  PROVE  Results(D, m, args, k, c, <<>>, s, R)
<1>1. /\ k \in 0..Len(args) /\ c = UpTo(D, k) /\ k \in D /\ IsSeq(s)
      /\ Len(s) = UpTo(D, k)
      /\ \A i \in D : i < k => UpTo(D, i) <= Len(s) /\ s[UpTo(D, i)] = Copy(m[i])
  BY DEF Results
<1>2. Len(s) <= Len(s)
  BY <1>1, SeqFacts
<1>3. ASSUME NEW i \in D, i < k \/ i = k
      PROVE  UpTo(D, i) <= Len(s) /\ s[UpTo(D, i)] = Copy(m[i])
  BY <1>1, <1>2, <1>3
<1> QED BY <1>1, <1>3 DEF Results

\* A call that is alone.
LEMMA OneCall ==
  ASSUME NEW p, IsSeq(p), Len(p) = 1, NEW b, p[1] = b, NEW v, NEW s, IsSeq(s), NEW R,
         Builds(b, v, 1, s, R), Works(b, v, 1, s), MaxTableDepth \in Nat \ {0}
  PROVE  PushesFor(p, v, s, R)
<1>1. PICK vs : vs = [e \in {1} |-> v]
  OBVIOUS
<1>2. vs[1] = v
  BY <1>1
<1>3. 1 \in 1..MaxTableDepth /\ (\A e \in 1..1 : e = 1) /\ \A e \in 1..1 - 1 : FALSE
  OBVIOUS
<1>4. \A e \in 1..Len(p) : Builds(p[e], vs[e], e, s, R)
  BY <1>2, <1>3
<1>5. \A e \in 1..Len(p) - 1 : FALSE
  BY <1>3
<1>6. \A d, e \in 1..Len(p) : ~(d < e)
  OBVIOUS
<1>7. Stacked(p, vs, s, R)
  BY <1>3, <1>4, <1>5, <1>6 DEF Stacked
<1> QED BY <1>2, <1>7 DEF Pushes, PushesFor

\* One argument pushed.
LEMMA ResultsPushed ==
  ASSUME NEW D, NEW m, Comes(D, m), NEW args, IsSeq(args), NEW k, NEW c, NEW s,
         NEW R, Closed(R), Results(D, m, args, k, c, <<>>, s, R), k < Len(args),
         NEW x, <<x, m[k + 1], 0>> \in R, Len(args) = Len(m),
         NEW r, r = s \o PushedSlots(x, 0),
         NEW d, d = (IF x.kind = "none" THEN c ELSE c + 1),
         NEW p, p = (IF x.kind = "table" THEN <<Building(x, Len(r))>> ELSE <<>>)
  PROVE  Results(D, m, args, k + 1, d, p, r, R)
<1>1. /\ k \in 0..Len(args) /\ c = UpTo(D, k) /\ IsSeq(s) /\ Len(s) = c
      /\ \A i \in D : i < k \/ i = k => UpTo(D, i) <= Len(s) /\ s[UpTo(D, i)] = Copy(m[i])
  BY DEF Results
<1>2. PICK l \in Nat : l = Len(args) /\ l = Len(m)
  BY SeqFacts
<1>3. k \in Nat /\ k + 1 \in 0..Len(args) /\ k + 1 \in 1..Len(m)
  BY <1>1, <1>2
<1>4. c \in Nat /\ UpTo(D, k + 1) = IF k + 1 \in D THEN c + 1 ELSE c
  <2>1. k \in Nat
    BY <1>3
  <2>2. /\ UpTo(D, k) \in Nat
        /\ UpTo(D, k + 1) = IF k + 1 \in D THEN UpTo(D, k) + 1 ELSE UpTo(D, k)
    BY <2>1, UpToStep
  <2> QED BY <1>1, <2>2
<1>5. PICK v : v = m[k + 1]
  OBVIOUS
<1>6. Snapshot(x, v, 0, R) /\ v \in Value
  BY <1>5 DEF Closed, Snapshot
<1>7. MaxTableDepth \in Nat \ {0} /\ ~TooDeep(0)
  BY ArgumentAssumption DEF TooDeep
<1>8. \A i \in D : i \in Nat \ {0}
  BY DEF Comes
<1>9. CASE v.kind = "function"
  <2>1. k + 1 \notin D
    BY <1>5, <1>9 DEF Comes
  <2>2. x = None /\ x.kind = "none"
    BY <1>6, <1>9 DEF Snapshot, None
  <2>3. r = s
    <3>1. PushedSlots(x, 0) = <<>>
      BY <2>2 DEF PushedSlots
    <3>2. PICK S : s \in Seq(S)
      BY <1>1 DEF IsSeq
    <3>3. s \o <<>> = s
      BY <3>2, ConcatEmptySeq
    <3> QED BY <3>1, <3>3
  <2>4. p = <<>> /\ d = c
    BY <2>2
  <2>5. \A i \in D : i < k + 1 \/ i = k + 1 => i < k \/ i = k
    BY <1>3, <1>8, <2>1
  <2> QED BY <1>1, <1>3, <1>4, <2>1, <2>3, <2>4, <2>5 DEF Results
<1>10. CASE v.kind # "function"
  <2>1. k + 1 \in D /\ Copy(v) # Opaque
    BY <1>3, <1>5, <1>10 DEF Comes
  <2>2. PICK y : PushedSlots(x, 0) = <<y>> /\ x.kind # "none"
                 /\ (v.kind = "table" => x.kind = "table" /\ y = LuaTable(NoEntries))
                 /\ (v.kind # "table" => x.kind # "table" /\ y = Copy(v))
    <3>1. CASE v.kind = "table"
      <4>1. x.kind = "table"
        BY <1>6, <3>1 DEF Snapshot, Table
      <4>2. PushedSlots(x, 0) = <<LuaTable(NoEntries)>>
        BY <1>7, <4>1 DEF PushedSlots
      <4> QED BY <3>1, <4>1, <4>2
    <3>2. CASE v.kind # "table"
      <4>1. x = v
        BY <1>6, <1>10, <3>2 DEF Snapshot
      <4>2. v.kind # "none"
        BY <1>6, ValueAssumption
      <4>3. PushedSlots(x, 0) = <<x>>
        BY <3>2, <4>1, <4>2 DEF PushedSlots
      <4>4. Copy(v) = v
        BY <1>6, <1>7, <1>10, <3>2, CopyOthers DEF Copy
      <4> QED BY <3>2, <4>1, <4>2, <4>3, <4>4
    <3> QED BY <3>1, <3>2
  <2>3. IsSeq(r) /\ Len(r) = c + 1 /\ r[c + 1] = y /\ \A i \in 1..c : r[i] = s[i]
    <3>1. PICK z : z = <<y>>
      OBVIOUS
    <3>2. IsSeq(z) /\ Len(z) = 1 /\ z[1] = y
      BY <3>1, OneAndTwo
    <3>3. r = s \o z
      BY <2>2, <3>1
    <3>4. IsJoin(r, s, z)
      BY <1>1, <3>2, <3>3, ConcatFacts
    <3> QED BY <1>1, <1>4, <3>2, <3>4 DEF IsJoin
  <2>4. d = c + 1 /\ UpTo(D, k + 1) = c + 1
    BY <1>4, <2>1, <2>2
  <2>5. ASSUME NEW i \in D, i < k + 1
        PROVE  UpTo(D, i) <= Len(r) /\ r[UpTo(D, i)] = Copy(m[i])
    <3>1. i < k \/ i = k
      BY <1>3, <1>8, <2>5
    <3>2. PICK h \in Nat \ {0} : h = UpTo(D, i)
      BY <1>8, PlaceFacts
    <3>3. h <= c /\ s[h] = Copy(m[i])
      BY <1>1, <3>1, <3>2
    <3>4. h \in 1..c /\ h <= c + 1
      BY <1>4, <3>2, <3>3
    <3> QED BY <2>3, <3>2, <3>3, <3>4
  <2>6. CASE v.kind = "table"
    <3>1. PICK b : b = Building(x, Len(r))
      OBVIOUS
    <3>2. p = <<b>>
      BY <2>2, <2>6, <3>1
    <3>3. p # <<>> /\ IsSeq(p) /\ Len(p) = 1 /\ p[1] = b
      <4>1. IsSeq(<<b>>) /\ Len(<<b>>) = 1 /\ <<b>>[1] = b
        BY OneAndTwo
      <4>2. IsSeq(p) /\ Len(p) = 1 /\ p[1] = b
        BY <3>2, <4>1
      <4> QED BY <4>2, SeqFacts
    <3>4. /\ b.of = x /\ b.at = c + 1 /\ b.next = 1 /\ ~b.pending
          /\ b = [of |-> b.of, at |-> b.at, next |-> b.next, pending |-> b.pending]
      BY <2>3, <3>1 DEF Building
    <3>5. Sound(v, Parts(1))
      <4>1. MaxTableDepth \in 0..MaxTableDepth /\ MaxTableDepth # 0
        BY <1>7
      <4>2. copy[MaxTableDepth][v] # Opaque
        BY <2>1 DEF Copy
      <4> QED BY <1>6, <2>6, <4>1, <4>2, CopyTable DEF Parts
    <3>6. Fits(x.array, x.fields, v, DOMAIN v.entries, 1, R)
      <4>1. 0 < MaxTableDepth
        BY <1>7
      <4>2. Fits(x.array, x.fields, v, DOMAIN v.entries, 0 + 1, R)
        BY <1>6, <2>6, <4>1 DEF Snapshot
      <4> QED BY <4>2
    <3>7. r[b.at] = Partial(v, Parts(1), b.of, b.next) /\ b.at \in Nat \ {0} /\ b.at <= Len(r)
      BY <1>4, <2>2, <2>3, <2>6, <3>4, PartialStart
    <3>8. b.next \in 1..Items(b.of) + 1
      <4>1. PICK n \in Nat : n = Items(x)
        BY <3>6, ItemsFacts
      <4> QED BY <3>4, <4>1
    <3>9. Builds(b, v, 1, r, R)
      BY <3>4, <3>5, <3>6, <3>7, <3>8 DEF Builds
    <3>10. Works(b, v, 1, r)
      BY <2>3, <3>4 DEF Works
    <3>11. PushesFor(p, v, r, R)
      BY <1>7, <2>3, <3>3, <3>9, <3>10, OneCall
    <3>12. p[1].at = UpTo(D, k + 1)
      BY <2>4, <3>3, <3>4
    <3> QED BY <1>3, <1>5, <2>1, <2>3, <2>4, <2>5, <3>3, <3>11, <3>12 DEF Results
  <2>7. CASE v.kind # "table"
    <3>1. p = <<>>
      BY <2>2, <2>7
    <3>2. UpTo(D, k + 1) <= Len(r) /\ r[UpTo(D, k + 1)] = Copy(m[k + 1])
      BY <1>4, <1>5, <2>2, <2>3, <2>4, <2>7
    <3>3. Len(r) = UpTo(D, k + 1)
      BY <2>3, <2>4
    <3> QED BY <1>3, <2>3, <2>4, <2>5, <3>1, <3>2, <3>3 DEF Results
  <2> QED BY <2>6, <2>7
<1> QED BY <1>9, <1>10

-----------------------------------------------------------------------------
(* The inductive invariant.                                                 *)

Clean == \A i \in Returned : Copy(Meant[i]) # Opaque

Phases ==
  /\ phase \in {"read", "push", "done", "error"}
  /\ phase # "read" => reading = <<>>
  /\ phase \in {"read", "error"} => pushing = <<>> /\ stack = <<>> /\ sent = 0 /\ returned = 0
  /\ phase = "push" => input # <<>>
  /\ phase = "done" => pushing = <<>> /\ sent = Len(arguments)
  /\ phase = "done" /\ input = <<>> => stack = <<Nil>> /\ returned = 1

\* What has been read, what is to be pushed and what has been pushed, in snapshots of R.
Holds(R) ==
  /\ Closed(R)
  /\ phase = "read" => Reads(reading, arguments, input, R)
  /\ phase \in {"push", "done"} => Ready(arguments, Meant, R)
  /\ phase \in {"push", "done"} /\ input # <<>> /\ Clean =>
       Results(Returned, Meant, arguments, sent, returned, pushing, stack, R)

VInv == CallInv /\ Phases /\ ErrorInv /\ \E R : Holds(R)

LEMMA Same ==
  ASSUME called' = called, input' = input
  PROVE  /\ Meant' = Meant /\ Returned' = Returned /\ (Clean' <=> Clean)
         /\ (Mismatch' <=> Mismatch) /\ (CallInv' <=> CallInv)
<1>1. Meant' = Meant
  BY DEF Meant
<1>2. Returned' = Returned
  BY <1>1 DEF Returned
<1>3. Clean' <=> Clean
  BY <1>1, <1>2 DEF Clean
<1>4. Mismatch' <=> Mismatch
  BY DEF Mismatch
<1> QED BY <1>1, <1>2, <1>3, <1>4 DEF CallInv

LEMMA ComesBack ==
  ASSUME CallInv, Clean
  PROVE  Comes(Returned, Meant)
<1>1. Len(Meant) \in Nat
  <2>1. CASE called = "echo"
    <3>1. Meant = input
      BY <2>1 DEF Meant
    <3> QED BY <3>1, CallFacts
  <2>2. CASE called = "table_set"
    <3>1. PICK w : Meant = <<w>>
      BY <2>2 DEF Meant
    <3> QED BY <3>1, OneAndTwo
  <2>3. CASE called = "table_get"
    <3>1. PICK v, w : Meant = <<v, w>>
      BY <2>3 DEF Meant
    <3> QED BY <3>1, OneAndTwo
  <2> QED BY <2>1, <2>2, <2>3, CallFacts
<1> QED BY <1>1 DEF Comes, Clean, Returned

LEMMA VInvInit == Init => VInv
<1> SUFFICES ASSUME Init PROVE VInv
  OBVIOUS
<1>1. CallInv
  BY DEF Init, CallInv
<1>2. /\ phase = "read" /\ arguments = <<>> /\ reading = <<>>
      /\ stack = <<>> /\ pushing = <<>> /\ sent = 0 /\ returned = 0
  BY DEF Init
<1>3. Phases /\ ErrorInv
  BY <1>2 DEF Phases, ErrorInv
<1>4. PICK q : q = <<>> /\ IsSeq(q) /\ Len(q) = 0
  BY OneAndTwo
<1>5. Reads(q, q, input, {})
  <2>1. Len(input) \in Nat /\ MaxTableDepth \in Nat
    BY <1>1, CallFacts, ArgumentAssumption
  <2>2. (\A i \in 1..Len(q) : FALSE) /\ \A i \in 1..Len(q) - 1 : FALSE
    BY <1>4
  <2> QED BY <1>4, <2>1, <2>2 DEF Reads
<1>6. Closed({})
  BY DEF Closed
<1>7. Holds({})
  BY <1>2, <1>4, <1>5, <1>6 DEF Holds
<1> QED BY <1>1, <1>3, <1>7 DEF VInv

LEMMA VInvRead ==
  ASSUME VInv, read_argument \/ read_entry \/ read_table_end
  PROVE  VInv'
<1>1. /\ called' = called /\ input' = input /\ phase' = phase
      /\ stack' = stack /\ pushing' = pushing /\ sent' = sent /\ returned' = returned
  BY DEF read_argument, read_entry, read_table_end, pushVars
<1>2. phase = "read"
  BY DEF read_argument, read_entry, read_table_end, VInv, Phases
<1>3. CallInv' /\ Phases' /\ ErrorInv'
  BY <1>1, <1>2, Same DEF VInv, Phases, ErrorInv
<1>4. PICK R : Closed(R) /\ Reads(reading, arguments, input, R)
  BY <1>2 DEF VInv, Holds
<1>5. PICK Q : Closed(Q) /\ Reads(reading', arguments', input, Q)
  BY <1>4, ReadStep DEF VInv
<1>6. Holds(Q)'
  BY <1>1, <1>2, <1>5 DEF Holds
<1> QED BY <1>3, <1>6 DEF VInv

LEMMA VInvAnswer ==
  ASSUME VInv, settop \/ sample_table_set \/ sample_table_get
  PROVE  VInv'
<1>1. called' = called /\ input' = input /\ reading' = reading
  BY DEF settop, sample_table_set, sample_table_get, readVars
<1>2. phase = "read" /\ reading = <<>> /\ Len(arguments) = Len(input)
  BY DEF settop, sample_table_set, sample_table_get, AllRead
<1>3. pushing = <<>> /\ stack = <<>> /\ sent = 0 /\ returned = 0 /\ CallInv
  BY <1>2 DEF VInv, Phases
<1>4. PICK R : Closed(R) /\ Reads(reading, arguments, input, R)
  BY <1>2 DEF VInv, Holds
<1>5. IsSeq(arguments) /\ IsSeq(input)
  BY <1>3, <1>4, CallFacts DEF Reads
<1>6. ErrorInv' /\ \E Q : Closed(Q) /\ (phase' \in {"push", "done"} => Ready(arguments', Meant', Q))
  BY <1>2, <1>3, <1>4, AnswerStep
<1>7. PICK Q : Closed(Q) /\ (phase' \in {"push", "done"} => Ready(arguments', Meant', Q))
  BY <1>6
<1>8. /\ pushing' = <<>> /\ sent' = 0
      /\ \/ /\ phase' = "done" /\ arguments' = <<>> /\ stack' = <<Nil>> /\ returned' = 1
            /\ input = <<>>
         \/ /\ phase' \in {"push", "error"} /\ stack' = <<>> /\ returned' = 0
            /\ (phase' = "push" => input # <<>>)
  <2>1. CASE settop
    <3>1. arguments = <<>> <=> input = <<>>
      BY <1>2, <1>5, SeqFacts
    <3> QED BY <1>3, <2>1, <3>1 DEF settop, readVars
  <2>2. CASE sample_table_set \/ sample_table_get
    <3>1. called \in {"table_set", "table_get"}
      BY <2>2 DEF sample_table_set, sample_table_get
    <3>2. Len(input) # 0
      BY <1>3, <3>1, CallFacts
    <3>3. input # <<>>
      BY <1>5, <3>2, SeqFacts
    <3> QED BY <1>3, <2>2, <3>3 DEF sample_table_set, sample_table_get, pushVars
  <2> QED BY <2>1, <2>2
<1>9. CallInv'
  BY <1>1, <1>3, Same
<1>10. Phases'
  <2>1. arguments' = <<>> => Len(arguments') = 0
    BY OneAndTwo
  <2> QED BY <1>1, <1>2, <1>3, <1>8, <2>1 DEF Phases
<1>11. Holds(Q)'
  <2>1. ASSUME phase' \in {"push", "done"}, input' # <<>>, Clean'
        PROVE  Results(Returned', Meant', arguments', sent', returned', pushing', stack', Q)
    <3>1. pushing' = <<>> /\ sent' = 0 /\ stack' = <<>> /\ returned' = 0
      BY <1>1, <1>8, <2>1
    <3>2. IsSeq(arguments')
      BY <1>7, <2>1 DEF Ready
    <3>3. Comes(Returned, Meant)
      BY <1>1, <1>3, <2>1, Same, ComesBack
    <3>4. Comes(Returned', Meant')
      BY <1>1, <3>3, Same
    <3> QED BY <3>1, <3>2, <3>4, ResultsStart
  <2> QED BY <1>2, <1>7, <1>8, <2>1 DEF Holds
<1> QED BY <1>6, <1>9, <1>10, <1>11 DEF VInv

\* The steps that push leave what is pushed alone.
LEMMA VInvKept ==
  ASSUME VInv, called' = called, input' = input, arguments' = arguments, reading' = reading,
         phase \in {"push", "done"}, phase' \in {"push", "done"},
         phase' = "push" => phase = "push",
         phase' = "done" => input # <<>> /\ pushing' = <<>> /\ sent' = Len(arguments),
         \A R : /\ Holds(R) /\ Comes(Returned, Meant) /\ Clean
                /\ Results(Returned, Meant, arguments, sent, returned, pushing, stack, R)
                => Results(Returned, Meant, arguments, sent', returned', pushing', stack', R)
  PROVE  VInv'
<1>1. CallInv /\ Phases /\ ErrorInv
  BY DEF VInv
<1>2. PICK R : Holds(R)
  BY DEF VInv
<1>3. /\ Meant' = Meant /\ Returned' = Returned /\ (Clean' <=> Clean)
      /\ (Mismatch' <=> Mismatch) /\ (CallInv' <=> CallInv)
  BY Same
<1>4. Phases'
  BY <1>1 DEF Phases
<1>5. ErrorInv'
  <2>1. CASE phase = "push"
    BY <1>1, <1>3, <2>1 DEF ErrorInv
  <2>2. CASE phase = "done"
    <3>1. phase' = "done"
      BY <2>2
    <3> QED BY <3>1 DEF ErrorInv
  <2> QED BY <2>1, <2>2
<1>6. phase' \in {"push", "done"} /\ input # <<>> /\ Clean =>
        Results(Returned, Meant, arguments, sent', returned', pushing', stack', R)
  <2> SUFFICES ASSUME input # <<>>, Clean
               PROVE  Results(Returned, Meant, arguments, sent', returned', pushing', stack', R)
    OBVIOUS
  <2>1. Comes(Returned, Meant)
    BY <1>1, ComesBack
  <2>2. Results(Returned, Meant, arguments, sent, returned, pushing, stack, R)
    BY <1>2 DEF Holds
  <2>3. Holds(R) /\ Clean
    BY <1>2
  <2> QED BY <2>1, <2>2, <2>3
<1>7. Closed(R) /\ Ready(arguments, Meant, R)
  BY <1>2 DEF Holds
<1>8. Holds(R)'
  <2>1. Ready(arguments', Meant', R)
    BY <1>3, <1>7
  <2>2. phase' # "read"
    OBVIOUS
  <2>3. input' # <<>> /\ Clean' =>
          Results(Returned', Meant', arguments', sent', returned', pushing', stack', R)
    BY <1>3, <1>6
  <2> QED BY <1>7, <2>1, <2>2, <2>3 DEF Holds
<1> QED BY <1>1, <1>3, <1>4, <1>5, <1>8 DEF VInv

LEMMA VInvArgument ==
  ASSUME VInv, push_argument
  PROVE  VInv'
<1>1. /\ called' = called /\ input' = input /\ arguments' = arguments /\ reading' = reading
      /\ phase = "push" /\ phase' = "push" /\ pushing = <<>> /\ sent < Len(arguments)
      /\ sent' = sent + 1
  BY DEF push_argument, readVars
<1>2. ASSUME NEW R, Holds(R), Comes(Returned, Meant), Clean,
             Results(Returned, Meant, arguments, sent, returned, pushing, stack, R)
      PROVE  Results(Returned, Meant, arguments, sent', returned', pushing', stack', R)
  <2>1. PICK x, r : x = arguments[sent + 1] /\ r = stack'
    OBVIOUS
  <2>2. PICK d, p : d = returned' /\ p = pushing'
    OBVIOUS
  <2>3. /\ r = stack \o PushedSlots(x, 0)
        /\ d = (IF x.kind = "none" THEN returned ELSE returned + 1)
        /\ p = (IF x.kind = "table" THEN <<Building(x, Len(r))>> ELSE <<>>)
    BY <2>1, <2>2 DEF push_argument
  <2>4. Closed(R) /\ Ready(arguments, Meant, R)
    BY <1>1, <1>2 DEF Holds
  <2>5. IsSeq(arguments) /\ Len(arguments) = Len(Meant) /\ Len(arguments) \in Nat
    BY <2>4, SeqFacts DEF Ready
  <2>6. sent + 1 \in 1..Len(arguments)
    <3>1. sent \in 0..Len(arguments)
      BY <1>2 DEF Results
    <3> QED BY <1>1, <2>5, <3>1
  <2>7. <<x, Meant[sent + 1], 0>> \in R
    BY <2>1, <2>4, <2>6 DEF Ready
  <2>8. PICK k, c : k = sent /\ c = returned
    OBVIOUS
  <2>9. PICK m, D : m = Meant /\ D = Returned
    OBVIOUS
  <2>10. PICK args, s : args = arguments /\ s = stack
    OBVIOUS
  <2>11. Results(D, m, args, k, c, <<>>, s, R) /\ Comes(D, m) /\ IsSeq(args)
         /\ Len(args) = Len(m) /\ k < Len(args) /\ <<x, m[k + 1], 0>> \in R
    BY <1>1, <1>2, <2>5, <2>7, <2>8, <2>9, <2>10
  <2>12. Results(D, m, args, k + 1, d, p, r, R)
    BY <2>3, <2>4, <2>8, <2>10, <2>11, ResultsPushed
  <2> QED BY <1>1, <2>1, <2>2, <2>8, <2>9, <2>10, <2>12
<1> QED BY <1>1, <1>2, VInvKept

LEMMA VInvItem ==
  ASSUME VInv, push_item \/ set_item \/ push_table_end
  PROVE  VInv'
<1>1. /\ called' = called /\ input' = input /\ arguments' = arguments /\ reading' = reading
      /\ phase' = phase /\ pushing # <<>> /\ sent' = sent /\ returned' = returned
  BY DEF push_item, set_item, push_table_end, readVars
<1>2. phase = "push"
  BY <1>1 DEF VInv, Phases
<1>3. ASSUME NEW R, Holds(R), Comes(Returned, Meant), Clean,
             Results(Returned, Meant, arguments, sent, returned, pushing, stack, R)
      PROVE  Results(Returned, Meant, arguments, sent', returned', pushing', stack', R)
  <2>1. Closed(R) /\ Ready(arguments, Meant, R) /\ IsSeq(arguments)
    BY <1>2, <1>3 DEF Holds, Ready
  <2>2. PICK w : w = Meant[sent]
    OBVIOUS
  <2>3. sent \in Returned /\ PushesFor(pushing, w, stack, R)
    BY <1>1, <1>3, <2>2 DEF Results
  <2>4. CASE push_item \/ set_item
    <3>1. Goes(pushing, stack, pushing', stack', w, R)
      BY <2>1, <2>3, <2>4, PushItemStep, SetItemStep
    <3>2. Results(Returned, Meant, arguments, sent, returned, pushing', stack', R)
      BY <1>1, <1>3, <2>1, <2>2, <3>1, ResultsGoOn
    <3> QED BY <1>1, <3>2
  <2>5. CASE push_table_end
    <3>1. stack' = stack
      BY <2>5 DEF push_table_end
    <3>2. w \in Value /\ w.kind = "table" /\ Copy(w) # Opaque
      <4>1. PICK vs : Pushes(pushing, vs, stack, R) /\ vs[1] = w
        BY <2>3 DEF PushesFor
      <4>2. w \in Value /\ w.kind = "table"
        BY <4>1, FirstTable
      <4> QED BY <1>3, <2>2, <2>3, <4>2 DEF Comes
    <3>3. /\ pushing' = <<>> => Len(stack) = pushing[1].at /\ stack[Len(stack)] = Copy(w)
          /\ pushing' # <<>> => Goes(pushing, stack, pushing', stack', w, R)
      BY <2>3, <2>5, <3>2, TableEndStep
    <3>4. CASE pushing' = <<>>
      <4>1. Results(Returned, Meant, arguments, sent, returned, <<>>, stack, R)
        BY <1>1, <1>3, <2>1, <2>2, <3>3, <3>4, ResultsTableEnd
      <4> QED BY <1>1, <3>1, <3>4, <4>1
    <3>5. CASE pushing' # <<>>
      <4>1. Results(Returned, Meant, arguments, sent, returned, pushing', stack', R)
        BY <1>1, <1>3, <2>1, <2>2, <3>3, <3>5, ResultsGoOn
      <4> QED BY <1>1, <4>1
    <3> QED BY <3>4, <3>5
  <2> QED BY <2>4, <2>5
<1> QED BY <1>1, <1>2, <1>3, VInvKept

LEMMA VInvStep == VInv /\ [Next]_vars => VInv'
<1> SUFFICES ASSUME VInv, [Next]_vars PROVE VInv'
  OBVIOUS
<1>1. CASE read_argument \/ read_entry \/ read_table_end
  BY <1>1, VInvRead
<1>2. CASE settop \/ sample_table_set \/ sample_table_get
  BY <1>2, VInvAnswer
<1>3. CASE push_argument
  BY <1>3, VInvArgument
<1>4. CASE push_item \/ set_item \/ push_table_end
  BY <1>4, VInvItem
<1>5. CASE push_end
  <2>1. /\ called' = called /\ input' = input /\ arguments' = arguments /\ reading' = reading
        /\ phase = "push" /\ phase' = "done" /\ pushing = <<>> /\ sent = Len(arguments)
        /\ stack' = stack /\ pushing' = pushing /\ sent' = sent /\ returned' = returned
    BY <1>5 DEF push_end, readVars, pushVars
  <2>2. input # <<>>
    BY <2>1 DEF VInv, Phases
  <2>3. ASSUME NEW R, Holds(R), Comes(Returned, Meant), Clean,
               Results(Returned, Meant, arguments, sent, returned, pushing, stack, R)
        PROVE  Results(Returned, Meant, arguments, sent', returned', pushing', stack', R)
    BY <2>1, <2>3
  <2> QED BY <2>1, <2>2, <2>3, VInvKept
<1>6. CASE UNCHANGED vars
  <2>1. /\ called' = called /\ input' = input /\ arguments' = arguments /\ reading' = reading
        /\ phase' = phase /\ stack' = stack /\ pushing' = pushing /\ sent' = sent
        /\ returned' = returned
    BY <1>6 DEF vars
  <2>2. CallInv' /\ (Mismatch' <=> Mismatch) /\ CallInv /\ Phases /\ ErrorInv
    BY <2>1, Same DEF VInv
  <2>3. Phases'
    BY <2>1, <2>2 DEF Phases
  <2>4. ErrorInv'
    BY <2>1, <2>2 DEF ErrorInv
  <2>5. PICK R : Holds(R)
    BY DEF VInv
  <2>6. Holds(R)'
    BY <2>1, <2>5, Same DEF Holds
  <2> QED BY <2>2, <2>3, <2>4, <2>6 DEF VInv
<1> QED BY <1>1, <1>2, <1>3, <1>4, <1>5, <1>6 DEF Next

\* When all that was pushed has come back it is what RoundTrip promises.
LEMMA VInvRoundTrip == VInv => RoundTrip
<1> SUFFICES ASSUME VInv PROVE RoundTrip
  OBVIOUS
<1>1. CallInv /\ Phases /\ ErrorInv
  BY DEF VInv
<1>2. PICK R : Holds(R)
  BY DEF VInv
<1>3. phase = "done" /\ input = <<>> => stack = <<Nil>>
  BY <1>1 DEF Phases
<1>4. ASSUME phase = "done", input # <<>>, \A i \in Returned : Copy(Meant[i]) # Opaque
      PROVE  /\ Len(stack) = Cardinality(Returned)
             /\ \A i \in Returned : stack[Place(i)] = Copy(Meant[i])
  <2>1. Clean
    BY <1>4 DEF Clean
  <2>2. pushing = <<>> /\ sent = Len(arguments)
    BY <1>1, <1>4 DEF Phases
  <2>3. Len(arguments) = Len(Meant) /\ Len(Meant) \in Nat
    <3>1. IsSeq(arguments) /\ Len(arguments) = Len(Meant)
      BY <1>2, <1>4 DEF Holds, Ready
    <3> QED BY <3>1, SeqFacts
  <2>4. /\ Len(stack) = UpTo(Returned, sent)
        /\ \A i \in Returned : i < sent \/ i = sent => stack[UpTo(Returned, i)] = Copy(Meant[i])
    BY <1>2, <1>4, <2>1, <2>2 DEF Holds, Results
  <2>5. Returned \cap (1..sent) = Returned
    BY <2>2, <2>3 DEF Returned
  <2>6. Len(stack) = Cardinality(Returned)
    BY <2>4, <2>5 DEF UpTo
  <2>7. \A i \in Returned : i < sent \/ i = sent
    BY <2>2, <2>3 DEF Returned
  <2>8. \A i \in Returned : stack[Place(i)] = Copy(Meant[i])
    BY <2>4, <2>7 DEF Place, UpTo
  <2> QED BY <2>6, <2>8
<1>5. called = "table_get" /\ phase \in {"push", "error"} =>
        (phase = "error") =
          (Field(input[1], "name").kind # "string" \/ Field(input[1], "hp").kind # "number")
  BY <1>1 DEF ErrorInv, Mismatch
<1> QED BY <1>3, <1>4, <1>5 DEF RoundTrip

\* sample_echo, sample_table_set and sample_table_get return the copies of what is
\* meant, in its order, whatever their arguments hold and however lua_next walks
\* the tables (argument.cpp:73-220, arguments.cpp:78-139).
THEOREM ArgumentsRoundTrip == Spec => []RoundTrip
<1>1. Spec => []VInv
  BY VInvInit, VInvStep, PTL DEF Spec
<1> QED BY <1>1, VInvRoundTrip, PTL

LEMMA VInvBalanced == VInv => (Clean => PushBalanced)
<1> SUFFICES ASSUME VInv, Clean, phase # "read", pushing = <<>>
             PROVE  Len(stack) = returned
  BY DEF PushBalanced
<1>1. Phases
  BY DEF VInv
<1>2. CASE phase = "error"
  <2>1. stack = <<>> /\ returned = 0
    BY <1>1, <1>2 DEF Phases
  <2> QED BY <2>1, OneAndTwo
<1>3. CASE input = <<>> /\ phase # "error"
  <2>1. stack = <<Nil>> /\ returned = 1
    BY <1>1, <1>3 DEF Phases
  <2> QED BY <2>1, OneAndTwo
<1>4. CASE input # <<>> /\ phase # "error"
  <2>1. phase \in {"push", "done"}
    BY <1>1, <1>4 DEF Phases
  <2>2. PICK R : Holds(R)
    BY DEF VInv
  <2> QED BY <1>4, <2>1, <2>2 DEF Holds, Results
<1> QED BY <1>2, <1>3, <1>4

\* The only calls whose count of results is wrong are those in which a field of a
\* table cannot be copied: "pushes the value onto the top of the stack"
\* (argument.hpp:68) holds of every other call.
THEOREM BalancedWhenCopied == Spec => [](Clean => PushBalanced)
<1>1. Spec => []VInv
  BY VInvInit, VInvStep, PTL DEF Spec
<1> QED BY <1>1, VInvBalanced, PTL

LEMMA VInvPositions ==
  ASSUME VInv, Clean, \A i \in 1..Len(input) : input[i].kind # "function"
  PROVE  EchoKeepsPositions
<1> SUFFICES ASSUME phase = "done", NEW i \in 1..Len(input), called = "echo",
                    input[i].kind \in {"nil", "string", "number"}
             PROVE  i <= Len(stack) /\ stack[i] = input[i]
  BY DEF EchoKeepsPositions
<1>1. Meant = input /\ Len(input) \in Nat /\ IsSeq(input) /\ input[i] \in Value
  BY CallFacts DEF VInv, Meant
<1>2. Returned = 1..Len(input)
  BY <1>1 DEF Returned
<1>3. input # <<>>
  BY <1>1, SeqFacts
<1>4. PICK n \in Nat : n = Len(input) /\ i \in 1..n /\ Returned = 1..n
  BY <1>1, <1>2
<1>5. Returned \cap (1..i) = 1..i /\ Returned \cap (1..n) = 1..n
  BY <1>4
<1>6. Cardinality(1..i) = i
  <2>1. i \in Nat
    BY <1>4
  <2> QED BY <2>1, FS_Interval
<1>7. RoundTrip
  BY VInvRoundTrip
<1>8. Len(stack) = Cardinality(Returned) /\ stack[Place(i)] = Copy(Meant[i])
  BY <1>3, <1>4, <1>7 DEF RoundTrip, Clean
<1>9. Place(i) = i
  BY <1>5, <1>6 DEF Place
<1>10. Cardinality(1..n) = n
  BY FS_Interval
<1>11. i <= Len(stack)
  BY <1>4, <1>5, <1>8, <1>10
<1>12. Copy(input[i]) = input[i]
  BY <1>1, CopyOthers, ArgumentAssumption DEF Copy
<1> QED BY <1>1, <1>8, <1>9, <1>11, <1>12

\* "Returns all arguments unchanged" (echo.cpp:6): without a function among the
\* arguments, and with nothing inside that cannot be copied, every scalar comes
\* back at its own position.
THEOREM EchoWithoutFunctions ==
  Spec => [](Clean /\ (\A i \in 1..Len(input) : input[i].kind # "function")
               => EchoKeepsPositions)
<1>1. Spec => []VInv
  BY VInvInit, VInvStep, PTL DEF Spec
<1>2. VInv => (Clean /\ (\A i \in 1..Len(input) : input[i].kind # "function")
                 => EchoKeepsPositions)
  BY VInvPositions
<1> QED BY <1>1, <1>2, PTL

-----------------------------------------------------------------------------
(* Types and slots, also of calls with fields that cannot be copied.        *)

Kinds(args) == \A i \in 1..Len(args) : args[i].kind \in {"none", "nil", "string", "number", "table"}
Cells(s) == \A i \in 1..Len(s) : s[i].kind \in {"nil", "string", "number", "table", "name"}

\* A call at depth e goes through the snapshot of a table.
IsFrame(f, e, R) ==
  /\ f = [of |-> f.of, at |-> f.at, next |-> f.next, pending |-> f.pending]
  /\ f.at \in Nat /\ f.next \in Nat \ {0}
  /\ \E v : v.kind = "table" /\ <<f.of, v, e - 1>> \in R

\* The slots that the operands of an item may take above the table.
Room(f) == IF f.pending THEN Operands(f) ELSE 0

\* Every call has its table and at most two operands on the stack, whatever is in them.
Framed(q, s, k, R) ==
  /\ IsSeq(q) /\ Len(q) <= MaxTableDepth /\ IsSeq(s) /\ Cells(s) /\ k \in Nat
  /\ \A e \in 1..Len(q) : IsFrame(q[e], e, R) /\ q[e].at <= k + 2 * (e - 1)
  /\ \A e \in 1..Len(q) - 1 : q[e].pending /\ q[e + 1].at <= q[e].at + Operands(q[e])
  /\ IF q = <<>> THEN Len(s) <= k ELSE Len(s) <= q[Len(q)].at + Room(q[Len(q)])

LEMMA SnapshotKind ==
  ASSUME NEW R, Closed(R), NEW x, NEW c, NEW d, <<x, c, d>> \in R
  PROVE  /\ x.kind \in {"none", "nil", "string", "number", "table"}
         /\ x.kind = "none" => x = None
         /\ x.kind = "table" => c.kind = "table"
<1>1. Snapshot(x, c, d, R)
  BY DEF Closed
<1>2. c \in Value /\ c.kind \in {"nil", "string", "number", "function", "table"}
  BY <1>1, ValueAssumption DEF Snapshot
<1>3. CASE c.kind = "function"
  BY <1>1, <1>3 DEF Snapshot, None
<1>4. CASE c.kind = "table"
  BY <1>1, <1>4 DEF Snapshot, Table
<1>5. CASE c.kind \notin {"function", "table"}
  BY <1>1, <1>2, <1>5 DEF Snapshot
<1> QED BY <1>3, <1>4, <1>5

\* The next item of a call.
LEMMA FrameItem ==
  ASSUME NEW R, Closed(R), NEW f, NEW e \in 1..MaxTableDepth, IsFrame(f, e, R),
         f.next <= Items(f.of), NEW x, x = ItemValue(f.of, f.next)
  PROVE  /\ x.kind \in {"none", "nil", "string", "number", "table"}
         /\ x.kind = "table" => \E c : c.kind = "table" /\ <<x, c, e>> \in R
<1>1. PICK v : v.kind = "table" /\ <<f.of, v, e - 1>> \in R
  BY DEF IsFrame
<1>2. PICK n \in Nat \ {0} : n = f.next /\ n <= Items(f.of)
  BY DEF IsFrame
<1>3. PICK d : d = e - 1 /\ d < MaxTableDepth /\ d + 1 = e
  BY ArgumentAssumption
<1>4. Fits(f.of.array, f.of.fields, v, DOMAIN v.entries, e, R)
  <2>1. Fits(f.of.array, f.of.fields, v, DOMAIN v.entries, d + 1, R)
    BY <1>1, <1>3, InnerTable
  <2> QED BY <1>3, <2>1
<1>5. n \in 1..Items(f.of)
  <2>1. PICK m \in Nat : m = Items(f.of)
    BY <1>4, ItemsFacts
  <2> QED BY <1>2, <2>1
<1>6. PICK k : k = ItemKey(f.of, n)
  OBVIOUS
<1>7. IsItem(x, k, n <= Len(f.of.array), v, e, R)
  BY <1>2, <1>4, <1>5, <1>6, ItemFacts
<1>8. \/ <<x, v.entries[k], e>> \in R
      \/ x = Nil
  BY <1>7 DEF IsItem
<1>9. CASE <<x, v.entries[k], e>> \in R
  BY <1>9, SnapshotKind
<1>10. CASE x = Nil
  BY <1>10 DEF Nil
<1> QED BY <1>8, <1>9, <1>10

LEMMA FramedTop ==
  ASSUME NEW q, NEW s, NEW k, NEW R, Framed(q, s, k, R), q # <<>>, NEW n, n = Len(q)
  PROVE  /\ n \in 1..MaxTableDepth /\ n \in Nat \ {0} /\ IsSeq(q) /\ IsSeq(s) /\ Cells(s)
         /\ Len(s) \in Nat /\ k \in Nat
         /\ IsFrame(q[n], n, R) /\ q[n].at <= k + 2 * (n - 1)
         /\ Len(s) <= q[n].at + Room(q[n])
<1>1. n \in Nat \ {0} /\ n <= MaxTableDepth /\ IsSeq(q) /\ IsSeq(s) /\ Cells(s) /\ k \in Nat
  BY SeqFacts DEF Framed
<1>2. n \in 1..Len(q) /\ n \in 1..MaxTableDepth /\ Len(s) \in Nat
  BY <1>1, SeqFacts, ArgumentAssumption
<1>3. IsFrame(q[n], n, R) /\ q[n].at <= k + 2 * (n - 1)
  BY <1>2 DEF Framed
<1> QED BY <1>1, <1>2, <1>3 DEF Framed

\* The innermost call takes a step of its own.
LEMMA FramedReplaced ==
  ASSUME NEW q, NEW s, NEW k, NEW R, Framed(q, s, k, R), q # <<>>, NEW n, n = Len(q),
         NEW g, IsFrame(g, n, R), g.at = q[n].at,
         NEW r, IsSeq(r), Cells(r), Len(r) <= g.at + Room(g)
  PROVE  Framed(Replaced(q, g), r, k, R)
<1>1. /\ n \in 1..MaxTableDepth /\ n \in Nat \ {0} /\ IsSeq(q) /\ k \in Nat
      /\ q[n].at <= k + 2 * (n - 1)
  BY FramedTop
<1>2. PICK p : p = Replaced(q, g)
  OBVIOUS
<1>3. IsReplaced(p, q, g)
  BY <1>1, <1>2, ReplaceTop
<1>4. IsSeq(p) /\ Len(p) = n /\ p[n] = g /\ \A e \in 1..n - 1 : p[e] = q[e]
  BY <1>3 DEF IsReplaced
<1>5. p # <<>> /\ Len(p) <= MaxTableDepth
  BY <1>1, <1>4, SeqFacts
<1>6. ASSUME NEW e \in 1..n PROVE IsFrame(p[e], e, R) /\ p[e].at <= k + 2 * (e - 1)
  <2>1. CASE e = n
    BY <1>1, <1>4, <2>1
  <2>2. CASE e # n
    <3>1. e \in 1..n - 1 /\ e \in 1..Len(q)
      BY <1>1, <2>2
    <3> QED BY <1>4, <3>1 DEF Framed
  <2> QED BY <2>1, <2>2
<1>7. ASSUME NEW e \in 1..n - 1
      PROVE  p[e].pending /\ p[e + 1].at <= p[e].at + Operands(p[e])
  <2>1. q[e].pending /\ q[e + 1].at <= q[e].at + Operands(q[e])
    BY DEF Framed
  <2>2. p[e + 1].at = q[e + 1].at
    <3>1. CASE e + 1 = n
      BY <1>4, <3>1
    <3>2. CASE e + 1 # n
      <4>1. e + 1 \in 1..n - 1
        BY <1>1, <3>2
      <4> QED BY <1>4, <4>1
    <3> QED BY <3>1, <3>2
  <2> QED BY <1>4, <2>1, <2>2
<1> QED BY <1>1, <1>2, <1>4, <1>5, <1>6, <1>7 DEF Framed

\* The innermost call goes into a table.
LEMMA FramedNested ==
  ASSUME NEW q, NEW s, NEW k, NEW R, Framed(q, s, k, R), q # <<>>,
         NEW n, n = Len(q), n < MaxTableDepth,
         NEW g, IsFrame(g, n, R), g.at = q[n].at, g.pending,
         NEW b, IsFrame(b, n + 1, R), ~b.pending, b.at <= g.at + Operands(g),
         NEW r, IsSeq(r), Cells(r), Len(r) <= b.at
  PROVE  Framed(Nested(q, g, b), r, k, R)
<1>1. /\ n \in 1..MaxTableDepth /\ n \in Nat \ {0} /\ IsSeq(q) /\ k \in Nat
      /\ q[n].at <= k + 2 * (n - 1)
  BY FramedTop
<1>2. PICK p : p = Nested(q, g, b)
  OBVIOUS
<1>3. IsNested(p, q, g, b)
  BY <1>1, <1>2, ReplaceAndNest
<1>4. IsSeq(p) /\ Len(p) = n + 1 /\ p[n] = g /\ p[n + 1] = b /\ \A e \in 1..n - 1 : p[e] = q[e]
  BY <1>3 DEF IsNested
<1>5. p # <<>> /\ n + 1 <= MaxTableDepth
  BY <1>1, <1>4, SeqFacts, ArgumentAssumption
<1>6. b.at <= k + 2 * n
  <2>1. PICK a, c \in Nat : a = g.at /\ c = b.at
    BY DEF IsFrame
  <2>2. PICK o \in {1, 2} : o = Operands(g)
    BY OperandsFacts
  <2> QED BY <1>1, <2>1, <2>2
<1>7. ASSUME NEW e \in 1..n + 1 PROVE IsFrame(p[e], e, R) /\ p[e].at <= k + 2 * (e - 1)
  <2>1. CASE e = n + 1
    BY <1>1, <1>4, <1>6, <2>1
  <2>2. CASE e = n
    BY <1>1, <1>4, <2>2
  <2>3. CASE e \in 1..n - 1
    <3>1. e \in 1..Len(q)
      BY <1>1, <2>3
    <3> QED BY <1>4, <2>3, <3>1 DEF Framed
  <2> QED BY <1>1, <2>1, <2>2, <2>3
<1>8. ASSUME NEW e \in 1..n
      PROVE  p[e].pending /\ p[e + 1].at <= p[e].at + Operands(p[e])
  <2>1. CASE e = n
    BY <1>4, <2>1
  <2>2. CASE e # n
    <3>1. e \in 1..n - 1 /\ p[e] = q[e]
      BY <1>1, <1>4, <2>2
    <3>2. q[e].pending /\ q[e + 1].at <= q[e].at + Operands(q[e])
      BY <3>1 DEF Framed
    <3>3. p[e + 1].at = q[e + 1].at
      <4>1. CASE e + 1 = n
        BY <1>4, <4>1
      <4>2. CASE e + 1 # n
        <5>1. e + 1 \in 1..n - 1
          BY <1>1, <3>1, <4>2
        <5> QED BY <1>4, <5>1
      <4> QED BY <4>1, <4>2
    <3> QED BY <3>1, <3>2, <3>3
  <2> QED BY <2>1, <2>2
<1>9. Len(r) <= p[Len(p)].at + Room(p[Len(p)])
  <2>1. p[Len(p)] = b /\ Room(b) = 0
    BY <1>4 DEF Room
  <2>2. b.at \in Nat
    BY DEF IsFrame
  <2> QED BY <2>1, <2>2
<1>10. Len(p) - 1 = n
  BY <1>1, <1>4
<1>11. Framed(p, r, k, R)
  BY <1>1, <1>4, <1>5, <1>7, <1>8, <1>9, <1>10 DEF Framed
<1> QED BY <1>2, <1>11

\* The innermost call returns.
LEMMA FramedFront ==
  ASSUME NEW q, NEW s, NEW k, NEW R, Framed(q, s, k, R), q # <<>>, ~q[Len(q)].pending
  PROVE  Framed(Front(q), s, k, R)
<1>1. PICK n : n = Len(q)
  OBVIOUS
<1>2. /\ n \in 1..MaxTableDepth /\ n \in Nat \ {0} /\ IsSeq(q) /\ IsSeq(s) /\ Cells(s)
      /\ Len(s) \in Nat /\ k \in Nat
      /\ IsFrame(q[n], n, R) /\ q[n].at <= k + 2 * (n - 1)
      /\ Len(s) <= q[n].at + Room(q[n])
  BY <1>1, FramedTop
<1>3. PICK p : p = Front(q)
  OBVIOUS
<1>4. IsSeq(p) /\ Len(p) = n - 1 /\ \A e \in 1..n - 1 : p[e] = q[e]
  BY <1>1, <1>2, <1>3, FrontFacts
<1>5. PICK a \in Nat : a = q[n].at /\ Len(s) <= a
  <2>1. q[n].at \in Nat /\ Room(q[n]) = 0
    BY <1>1, <1>2 DEF IsFrame, Room
  <2> QED BY <1>2, <2>1
<1>6. \A e \in 1..n - 1 : IsFrame(p[e], e, R) /\ p[e].at <= k + 2 * (e - 1)
  <2>1. \A e \in 1..n - 1 : e \in 1..Len(q)
    BY <1>1, <1>2
  <2> QED BY <1>4, <2>1 DEF Framed
<1>7. \A e \in 1..n - 2 : p[e].pending /\ p[e + 1].at <= p[e].at + Operands(p[e])
  <2>1. \A e \in 1..n - 2 : e \in 1..Len(q) - 1 /\ p[e] = q[e] /\ p[e + 1] = q[e + 1]
    <3>1. \A e \in 1..n - 2 : e \in 1..n - 1 /\ e + 1 \in 1..n - 1
      BY <1>2
    <3> QED BY <1>1, <1>4, <3>1
  <2> QED BY <2>1 DEF Framed
<1>8. IF p = <<>> THEN Len(s) <= k ELSE Len(s) <= p[Len(p)].at + Room(p[Len(p)])
  <2>1. CASE n = 1
    <3>1. p = <<>> /\ a <= k
      BY <1>2, <1>4, <1>5, <2>1, SeqFacts
    <3> QED BY <1>2, <1>5, <3>1
  <2>2. CASE n # 1
    <3>1. PICK m : m = n - 1 /\ m \in 1..n - 1 /\ m + 1 = n
      BY <1>2, <2>2
    <3>2. q[m].pending /\ a <= q[m].at + Operands(q[m])
      BY <1>1, <1>5, <3>1 DEF Framed
    <3>3. p # <<>> /\ p[Len(p)] = q[m]
      BY <1>2, <1>4, <3>1, SeqFacts
    <3>4. Room(q[m]) = Operands(q[m])
      BY <3>2 DEF Room
    <3>5. q[m].at \in Nat
      BY <1>4, <1>6, <3>1 DEF IsFrame
    <3>6. Operands(q[m]) \in {1, 2}
      BY OperandsFacts
    <3>7. PICK o, c \in Nat : o = Operands(q[m]) /\ c = q[m].at
      BY <3>5, <3>6
    <3>8. Len(s) <= c + o
      BY <1>2, <1>5, <3>2, <3>7
    <3> QED BY <3>3, <3>4, <3>7, <3>8
  <2> QED BY <2>1, <2>2
<1>9. Len(p) - 1 = n - 2 /\ Len(p) <= MaxTableDepth
  BY <1>2, <1>4, ArgumentAssumption
<1>10. Framed(p, s, k, R)
  BY <1>2, <1>4, <1>6, <1>7, <1>8, <1>9 DEF Framed
<1> QED BY <1>3, <1>10

\* The slots of all calls together.
LEMMA FramedHeight ==
  ASSUME NEW q, NEW s, NEW k, NEW R, Framed(q, s, k, R)
  PROVE  Len(s) \in Nat /\ Len(s) <= k + 2 * MaxTableDepth
<1>1. k \in Nat /\ MaxTableDepth \in Nat /\ Len(s) \in Nat
  BY SeqFacts, ArgumentAssumption DEF Framed
<1>2. CASE q = <<>>
  BY <1>1, <1>2 DEF Framed
<1>3. CASE q # <<>>
  <2>1. PICK n : n = Len(q)
    OBVIOUS
  <2>2. /\ n \in 1..MaxTableDepth /\ IsFrame(q[n], n, R) /\ q[n].at <= k + 2 * (n - 1)
        /\ Len(s) <= q[n].at + Room(q[n])
    BY <1>3, <2>1, FramedTop
  <2>3. PICK a \in Nat : a = q[n].at
    BY <2>2 DEF IsFrame
  <2>4. PICK o \in 0..2 : o = Room(q[n])
    BY OperandsFacts DEF Room
  <2> QED BY <1>1, <2>2, <2>3, <2>4
<1> QED BY <1>2, <1>3

LEMMA JoinCells ==
  ASSUME NEW s, NEW t, IsSeq(s), IsSeq(t), Cells(s), Cells(t), NEW r, r = s \o t
  PROVE  IsSeq(r) /\ Cells(r) /\ Len(r) = Len(s) + Len(t) /\ Len(s) \in Nat /\ Len(t) \in Nat
<1>1. IsJoin(r, s, t)
  BY ConcatFacts
<1>2. Len(s) \in Nat /\ Len(t) \in Nat
  BY SeqFacts
<1>3. PICK l, m \in Nat : l = Len(s) /\ m = Len(t)
  BY <1>2
<1>4. ASSUME NEW i \in 1..l + m PROVE r[i].kind \in {"nil", "string", "number", "table", "name"}
  <2>1. CASE i <= l
    <3>1. i \in 1..l
      BY <1>3, <2>1
    <3>2. r[i] = s[i]
      BY <1>1, <1>3, <3>1 DEF IsJoin
    <3>3. s[i].kind \in {"nil", "string", "number", "table", "name"}
      BY <1>3, <3>1 DEF Cells
    <3> QED BY <3>2, <3>3
  <2>2. CASE ~(i <= l)
    <3>1. PICK j \in 1..m : i = l + j
      <4>1. i - l \in 1..m /\ i = l + (i - l)
        BY <1>3, <2>2
      <4> QED BY <4>1
    <3>2. r[i] = t[j]
      BY <1>1, <1>3, <3>1 DEF IsJoin
    <3>3. t[j].kind \in {"nil", "string", "number", "table", "name"}
      BY <1>3, <3>1 DEF Cells
    <3> QED BY <3>2, <3>3
  <2> QED BY <2>1, <2>2
<1>5. IsSeq(r) /\ Len(r) = l + m
  BY <1>1, <1>3 DEF IsJoin
<1>6. Cells(r)
  BY <1>4, <1>5 DEF Cells
<1> QED BY <1>2, <1>3, <1>5, <1>6

\* An Argument takes at most one slot, and a table exactly one.
LEMMA SlotsFacts ==
  ASSUME NEW x, x.kind \in {"none", "nil", "string", "number", "table"}, NEW d, NEW slots,
         slots = PushedSlots(x, d) \/ slots = <<Nil>>
  PROVE  IsSeq(slots) /\ Cells(slots) /\ Len(slots) \in 0..1
<1>1. PICK y : /\ y.kind \in {"nil", "string", "number", "table"}
               /\ slots = <<>> \/ slots = <<y>>
  <2>1. CASE slots = <<Nil>>
    BY <2>1 DEF Nil
  <2>2. CASE slots = PushedSlots(x, d)
    BY <2>2 DEF PushedSlots, Nil, LuaTable
  <2> QED BY <2>1, <2>2
<1>2. CASE slots = <<>>
  <2>1. IsSeq(slots) /\ Len(slots) = 0
    BY <1>2, OneAndTwo
  <2> QED BY <2>1 DEF Cells
<1>3. CASE slots = <<y>>
  <2>1. IsSeq(slots) /\ Len(slots) = 1 /\ slots[1] = y
    BY <1>3, OneAndTwo
  <2> QED BY <1>1, <2>1 DEF Cells
<1> QED BY <1>1, <1>2, <1>3

\* A table has been pushed empty, in slot l.
IsStart(f, e, l, R) == IsFrame(f, e, R) /\ f.at = l /\ ~f.pending

LEMMA BuildingFrame ==
  ASSUME NEW x, NEW c, NEW e \in Nat, NEW d \in Nat, d = e - 1, NEW R,
         <<x, c, d>> \in R, c.kind = "table",
         NEW l \in Nat, NEW f, f = Building(x, l)
  PROVE  IsStart(f, e, l, R)
<1>1. f.of = x /\ f.at = l /\ f.next = 1 /\ f.pending = FALSE
  BY DEF Building
<1>2. f = [of |-> f.of, at |-> f.at, next |-> f.next, pending |-> f.pending]
  BY <1>1 DEF Building
<1> QED BY <1>1, <1>2 DEF IsFrame, IsStart

\* The next argument, x, is pushed.
IsPushed(p, r, s, x) ==
  /\ r = s \o PushedSlots(x, 0)
  /\ p = IF x.kind = "table" THEN <<Building(x, Len(r))>> ELSE <<>>

LEMMA FramedArgument ==
  ASSUME NEW q, NEW s, NEW k, NEW R, Framed(q, s, k, R), q = <<>>, Closed(R),
         NEW x, NEW v, <<x, v, 0>> \in R, NEW p, NEW r, IsPushed(p, r, s, x)
  PROVE  Framed(p, r, k + 1, R)
<1>1. /\ IsSeq(s) /\ Cells(s) /\ k \in Nat /\ Len(s) <= k /\ MaxTableDepth \in Nat \ {0}
      /\ r = s \o PushedSlots(x, 0)
      /\ p = IF x.kind = "table" THEN <<Building(x, Len(r))>> ELSE <<>>
  BY ArgumentAssumption DEF Framed, IsPushed
<1>2. /\ x.kind \in {"none", "nil", "string", "number", "table"}
      /\ x.kind = "table" => v.kind = "table"
  BY SnapshotKind
<1>3. PICK slots : slots = PushedSlots(x, 0)
  OBVIOUS
<1>4. IsSeq(slots) /\ Cells(slots) /\ Len(slots) \in 0..1
  BY <1>2, <1>3, SlotsFacts
<1>5. IsSeq(r) /\ Cells(r) /\ Len(r) = Len(s) + Len(slots) /\ Len(s) \in Nat /\ Len(slots) \in Nat
  BY <1>1, <1>3, <1>4, JoinCells
<1>6. Len(r) \in Nat /\ Len(r) <= k + 1 /\ k + 1 \in Nat
  BY <1>1, <1>4, <1>5
<1>7. CASE x.kind = "table"
  <2>1. PICK f : f = Building(x, Len(r))
    OBVIOUS
  <2>2. PICK d, l, e \in Nat : d = 0 /\ e = 1 /\ d = e - 1 /\ l = Len(r)
    BY <1>6
  <2>3. <<x, v, d>> \in R /\ v.kind = "table" /\ f = Building(x, l)
    BY <1>2, <1>6, <1>7, <2>1, <2>2
  <2>8. IsStart(f, e, l, R)
    BY <2>2, <2>3, BuildingFrame
  <2>9. IsFrame(f, 1, R) /\ f.at = Len(r) /\ ~f.pending
    BY <2>2, <2>8 DEF IsStart
  <2>4. IsSeq(p) /\ Len(p) = 1 /\ p[1] = f
    BY <1>1, <1>7, <2>1, OneAndTwo
  <2>5. p # <<>> /\ Room(p[Len(p)]) = 0
    BY <2>9, <2>4, SeqFacts DEF Room
  <2>6. \A i \in 1..Len(p) : IsFrame(p[i], i, R) /\ p[i].at <= (k + 1) + 2 * (i - 1)
    BY <1>6, <2>9, <2>4
  <2>7. \A i \in 1..Len(p) - 1 : FALSE
    BY <2>4
  <2> QED BY <1>1, <1>5, <1>6, <2>9, <2>4, <2>5, <2>6, <2>7 DEF Framed
<1>8. CASE x.kind # "table"
  <2>1. p = <<>> /\ IsSeq(p) /\ Len(p) = 0
    BY <1>1, <1>8, OneAndTwo
  <2>2. (\A e \in 1..Len(p) : FALSE) /\ \A e \in 1..Len(p) - 1 : FALSE
    BY <2>1
  <2> QED BY <1>1, <1>5, <1>6, <2>1, <2>2 DEF Framed
<1> QED BY <1>7, <1>8

LEMMA KeyFacts ==
  ASSUME NEW f
  PROVE  IsSeq(KeyCells(f)) /\ Cells(KeyCells(f)) /\ Len(KeyCells(f)) + 1 = Operands(f)
<1>1. PICK h : h = KeyCells(f)
  OBVIOUS
<1>2. CASE InArray(f)
  <2>1. h = <<>> /\ Operands(f) = 1
    BY <1>1, <1>2 DEF KeyCells, Operands
  <2>2. IsSeq(h) /\ Len(h) = 0
    BY <2>1, OneAndTwo
  <2> QED BY <1>1, <2>1, <2>2 DEF Cells
<1>3. CASE ~InArray(f)
  <2>1. PICK y : y = NameCell(f)
    OBVIOUS
  <2>2. h = <<y>> /\ Operands(f) = 2 /\ y.kind = "name"
    BY <1>1, <1>3, <2>1 DEF KeyCells, Operands, NameCell
  <2>3. IsSeq(h) /\ Len(h) = 1 /\ h[1] = y
    BY <2>2, OneAndTwo
  <2> QED BY <1>1, <2>2, <2>3 DEF Cells
<1> QED BY <1>2, <1>3

LEMMA FramedPushItem ==
  ASSUME NEW k, NEW R, Framed(pushing, stack, k, R), Closed(R), push_item
  PROVE  Framed(pushing', stack', k, R)
<1>1. PICK q, s : q = pushing /\ s = stack
  OBVIOUS
<1>2. PICK p, r : p = pushing' /\ r = stack'
  OBVIOUS
<1>3. Framed(q, s, k, R) /\ q # <<>>
  BY <1>1 DEF push_item
<1>4. PICK n, f : n = Len(q) /\ f = q[n] /\ f = Top(q)
  BY DEF Top
<1>5. PICK x, h : x = ItemValue(f.of, f.next) /\ h = KeyCells(f)
  OBVIOUS
<1>6. PICK slots : slots = IF x = None /\ InArray(f) THEN <<Nil>> ELSE PushedSlots(x, n)
  OBVIOUS
<1>7. PICK opens \in BOOLEAN : opens <=> x.kind = "table" /\ ~TooDeep(n)
  OBVIOUS
<1>8. PICK g : g = [f EXCEPT !.pending = TRUE]
  OBVIOUS
<1>9. /\ ~f.pending /\ f.next <= Items(f.of)
      /\ r = s \o h \o slots
      /\ p = Front(q) \o <<g>> \o (IF opens THEN <<Building(x, Len(r))>> ELSE <<>>)
  <2>1. PICK entry : entry = f.of.fields[f.next - Len(f.of.array)]
    OBVIOUS
  <2>2. x = IF InArray(f) THEN f.of.array[f.next] ELSE entry[2]
    BY <1>5, <2>1 DEF ItemValue, InArray
  <2>3. h = IF InArray(f) THEN <<>> ELSE <<[kind |-> "name", of |-> entry[1]]>>
    BY <1>5, <2>1 DEF KeyCells, NameCell, ItemKey, InArray
  <2>4. /\ ~f.pending /\ f.next <= Items(f.of)
        /\ r = s \o h \o slots
    BY <1>1, <1>2, <1>4, <1>6, <2>1, <2>2, <2>3 DEF push_item, KeepsHole
  <2>5. p = Front(q) \o <<g>> \o (IF opens THEN <<Building(x, Len(r))>> ELSE <<>>)
    BY <1>1, <1>2, <1>4, <1>7, <1>8, <2>1, <2>2 DEF push_item
  <2> QED BY <2>4, <2>5
<1>10. /\ n \in 1..MaxTableDepth /\ n \in Nat \ {0} /\ IsSeq(q) /\ IsSeq(s) /\ Cells(s)
       /\ Len(s) \in Nat /\ k \in Nat
       /\ IsFrame(f, n, R) /\ Len(s) <= f.at + Room(f)
  BY <1>3, <1>4, FramedTop
<1>11. PICK a \in Nat : a = f.at /\ Len(s) <= a
  <2>1. f.at \in Nat /\ Room(f) = 0
    BY <1>9, <1>10 DEF IsFrame, Room
  <2> QED BY <1>10, <2>1
<1>12. PICK o \in {1, 2} : o = Operands(f)
  BY OperandsFacts
<1>13. /\ g.of = f.of /\ g.at = f.at /\ g.next = f.next /\ g.pending
       /\ g = [of |-> g.of, at |-> g.at, next |-> g.next, pending |-> g.pending]
  <2>1. f = [of |-> f.of, at |-> f.at, next |-> f.next, pending |-> f.pending]
    BY <1>10 DEF IsFrame
  <2> QED BY <1>8, <2>1
<1>14. IsFrame(g, n, R) /\ g.at = q[n].at /\ Operands(g) = o /\ Room(g) = o
  <2>1. Operands(g) = o
    BY <1>12, <1>13 DEF Operands, InArray
  <2> QED BY <1>4, <1>10, <1>13, <2>1 DEF IsFrame, Room
<1>15. /\ x.kind \in {"none", "nil", "string", "number", "table"}
       /\ x.kind = "table" => \E c : c.kind = "table" /\ <<x, c, n>> \in R
  BY <1>5, <1>9, <1>10, FrameItem
<1>16. IsSeq(r) /\ Cells(r) /\ Len(r) \in Nat /\ Len(r) <= a + o
  <2>1. IsSeq(h) /\ Cells(h) /\ Len(h) + 1 = o
    BY <1>5, <1>12, KeyFacts
  <2>2. IsSeq(slots) /\ Cells(slots) /\ Len(slots) \in 0..1
    BY <1>6, <1>15, SlotsFacts
  <2>3. PICK t : t = s \o h
    OBVIOUS
  <2>4. IsSeq(t) /\ Cells(t) /\ Len(t) = Len(s) + Len(h) /\ Len(h) \in Nat /\ Len(t) \in Nat
    BY <1>10, <2>1, <2>3, JoinCells, SeqFacts
  <2>5. r = t \o slots
    BY <1>9, <2>3
  <2>6. IsSeq(r) /\ Cells(r) /\ Len(r) = Len(t) + Len(slots)
    BY <2>2, <2>4, <2>5, JoinCells
  <2>7. PICK i, j, m, l : i = Len(s) /\ j = Len(h) /\ m = Len(slots) /\ l = Len(r)
    OBVIOUS
  <2>8. i \in Nat /\ i <= a
    BY <1>10, <1>11, <2>7
  <2>9. j \in Nat /\ j + 1 = o
    BY <2>1, <2>4, <2>7
  <2>10. m \in Nat /\ m <= 1
    BY <2>2, <2>7
  <2>11. l = i + j + m
    BY <2>4, <2>6, <2>7
  <2>12. l \in Nat /\ l <= a + o
    BY <2>8, <2>9, <2>10, <2>11
  <2> QED BY <2>6, <2>7, <2>12
<1>17. CASE opens
  <2>1. PICK b, l : b = Building(x, Len(r)) /\ l = Len(r)
    OBVIOUS
  <2>2. n < MaxTableDepth
    BY <1>7, <1>10, <1>17, ArgumentAssumption DEF TooDeep
  <2>3. PICK c : c.kind = "table" /\ <<x, c, n>> \in R
    BY <1>7, <1>15, <1>17
  <2>4. PICK e \in Nat : e = n + 1 /\ n = e - 1
    BY <1>10
  <2>5. IsStart(b, e, l, R)
    BY <1>10, <1>16, <2>1, <2>3, <2>4, BuildingFrame
  <2>6. IsFrame(b, n + 1, R) /\ ~b.pending /\ b.at = Len(r)
    BY <2>1, <2>4, <2>5 DEF IsStart
  <2>7. b.at <= g.at + Operands(g)
    BY <1>11, <1>13, <1>14, <1>16, <2>6
  <2>8. p = Nested(q, g, b)
    BY <1>3, <1>9, <1>10, <1>17, <2>1, TwoMore
  <2>9. Len(r) <= b.at
    BY <1>16, <2>6
  <2>10. Framed(Nested(q, g, b), r, k, R)
    BY <1>3, <1>4, <1>13, <1>14, <1>16, <2>2, <2>6, <2>7, <2>9, FramedNested
  <2> QED BY <1>2, <2>8, <2>10
<1>18. CASE ~opens
  <2>1. p = Replaced(q, g)
    BY <1>3, <1>9, <1>10, <1>18, NoneMore
  <2>2. Len(r) <= g.at + Room(g)
    BY <1>11, <1>13, <1>14, <1>16
  <2>3. Framed(Replaced(q, g), r, k, R)
    BY <1>3, <1>4, <1>14, <1>16, <2>2, FramedReplaced
  <2> QED BY <1>2, <2>1, <2>3
<1> QED BY <1>17, <1>18

\* Cells taken off the top of the stack.
LEMMA RestFacts ==
  ASSUME NEW s, IsSeq(s), Cells(s), NEW o \in {1, 2}, NEW rest, rest = SubSeq(s, 1, Len(s) - o)
  PROVE  IsSeq(rest) /\ Cells(rest) /\ Len(rest) \in Nat /\ (Len(rest) > 0 => Len(rest) + o = Len(s))
<1>1. PICK l \in Nat : l = Len(s)
  BY SeqFacts
<1>2. CASE l >= o
  <2>1. PICK m \in Nat : m = Len(s) - o /\ m \in 0..Len(s)
    BY <1>1, <1>2
  <2>2. IsSeq(rest) /\ Len(rest) = m /\ \A i \in 1..m : rest[i] = s[i]
    BY <2>1, PrefixFacts
  <2>3. \A i \in 1..m : i \in 1..Len(s)
    BY <1>1, <2>1
  <2>4. Cells(rest)
    BY <2>2, <2>3 DEF Cells
  <2> QED BY <1>1, <2>1, <2>2, <2>4
<1>3. CASE ~(l >= o)
  <2>1. PICK S : s \in Seq(S)
    BY DEF IsSeq
  <2>2. Len(s) - o \in Int /\ Len(s) - o < 1
    BY <1>1, <1>3
  <2>3. rest = <<>>
    BY <2>1, <2>2, SubSeqEmpty
  <2>4. IsSeq(rest) /\ Len(rest) = 0
    BY <2>3, OneAndTwo
  <2> QED BY <2>4 DEF Cells
<1> QED BY <1>2, <1>3

\* The operands go wherever they go: the table is still a table.
LEMMA FramedSetItem ==
  ASSUME NEW k, NEW R, Framed(pushing, stack, k, R), set_item
  PROVE  Framed(pushing', stack', k, R)
<1>1. PICK q, s : q = pushing /\ s = stack
  OBVIOUS
<1>2. PICK p, r : p = pushing' /\ r = stack'
  OBVIOUS
<1>3. Framed(q, s, k, R) /\ q # <<>>
  BY <1>1 DEF set_item
<1>4. PICK n, f : n = Len(q) /\ f = q[n] /\ f = Top(q)
  BY DEF Top
<1>5. PICK rest, z : /\ rest = SubSeq(s, 1, Len(s) - Operands(f))
                     /\ z = WithEntry(rest[f.at], IF InArray(f) THEN <<"position", f.next>>
                                                  ELSE <<"name", s[Len(s) - 1].of>>, Top(s))
  OBVIOUS
<1>6. /\ f.pending
      /\ r = IF Len(rest) >= f.at THEN [rest EXCEPT ![f.at] = z] ELSE rest
      /\ p = Replaced(q, ItemDone(f))
      /\ Len(s) >= f.at /\ s[f.at].kind = "table"
  BY <1>1, <1>2, <1>4, <1>5 DEF set_item, Operands, ItemDone, Replaced
<1>7. /\ n \in 1..MaxTableDepth /\ n \in Nat \ {0} /\ IsSeq(q) /\ IsSeq(s) /\ Cells(s)
      /\ Len(s) \in Nat /\ k \in Nat
      /\ IsFrame(f, n, R) /\ Len(s) <= f.at + Room(f)
  BY <1>3, <1>4, FramedTop
<1>8. PICK a \in Nat : a = f.at
  BY <1>7 DEF IsFrame
<1>9. PICK o \in {1, 2} : o = Operands(f)
  BY OperandsFacts
<1>10. Len(s) <= a + o
  <2>1. Room(f) = o
    BY <1>6, <1>9 DEF Room
  <2> QED BY <1>7, <1>8, <2>1
<1>11. IsSeq(rest) /\ Cells(rest) /\ Len(rest) \in Nat /\ (Len(rest) > 0 => Len(rest) + o = Len(s))
  <2>1. rest = SubSeq(s, 1, Len(s) - o)
    BY <1>5, <1>9
  <2> QED BY <1>7, <2>1, RestFacts
<1>12. Len(rest) <= a
  BY <1>7, <1>8, <1>10, <1>11
<1>13. PICK g : g = ItemDone(f)
  OBVIOUS
<1>14. IsFrame(g, n, R) /\ g.at = a /\ Room(g) = 0
  <2>1. f = [of |-> f.of, at |-> f.at, next |-> f.next, pending |-> f.pending] /\ f.next \in Nat
    BY <1>7 DEF IsFrame
  <2>2. /\ g.of = f.of /\ g.at = f.at /\ g.next = f.next + 1 /\ ~g.pending
        /\ g = [of |-> g.of, at |-> g.at, next |-> g.next, pending |-> g.pending]
    BY <1>13, <2>1 DEF ItemDone
  <2>3. f.next + 1 \in Nat \ {0}
    BY <2>1
  <2> QED BY <1>7, <1>8, <2>2, <2>3 DEF IsFrame, Room
<1>15. IsSeq(r) /\ Cells(r) /\ Len(r) = Len(rest)
  <2>1. CASE Len(rest) >= a /\ a # 0
    <3>1. a \in 1..Len(rest)
      BY <1>11, <2>1
    <3>2. r = [rest EXCEPT ![a] = z]
      BY <1>6, <1>8, <2>1
    <3>3. IsUpdated(r, rest, a, z)
      BY <1>11, <3>1, <3>2, UpdateFacts
    <3>4. IsSeq(r) /\ Len(r) = Len(rest) /\ r[a] = z /\ \A j \in 1..Len(rest) : j # a => r[j] = rest[j]
      BY <3>3 DEF IsUpdated
    <3>5. z.kind = "table"
      BY <1>5 DEF WithEntry, LuaTable
    <3>6. Cells(r)
      BY <1>11, <3>4, <3>5 DEF Cells
    <3> QED BY <3>4, <3>6
  <2>2. CASE Len(rest) >= a /\ a = 0
    <3>1. Len(rest) = 0
      BY <1>11, <1>12, <2>2
    <3>2. rest = <<>>
      BY <1>11, <3>1, SeqFacts
    <3>3. [rest EXCEPT ![a] = z] = rest
      <4>1. DOMAIN rest = {}
        BY <3>2
      <4> QED BY <4>1
    <3> QED BY <1>6, <1>8, <1>11, <2>2, <3>3
  <2>3. CASE ~(Len(rest) >= a)
    BY <1>6, <1>8, <1>11, <2>3
  <2> QED BY <2>1, <2>2, <2>3
<1>16. Len(r) <= g.at + Room(g)
  BY <1>8, <1>11, <1>12, <1>14, <1>15
<1>17. g.at = q[n].at
  BY <1>4, <1>8, <1>14
<1>18. Framed(Replaced(q, g), r, k, R)
  BY <1>3, <1>4, <1>14, <1>15, <1>16, <1>17, FramedReplaced
<1> QED BY <1>2, <1>6, <1>13, <1>18

\* What the calls of a push have on the stack, for snapshots of R.  The fields that
\* sample_table_get returns are no tables.
Framing(R) ==
  /\ Closed(R) /\ Ready(arguments, Meant, R)
  /\ sent \in 0..Len(arguments) /\ returned \in Nat
  /\ Framed(pushing, stack, sent, R)
  /\ called = "table_get" => pushing = <<>>

FInv ==
  /\ phase = "error" => IsSeq(arguments) /\ Kinds(arguments)
  /\ phase \in {"push", "done"} /\ input # <<>> => \E R : Framing(R)

LEMMA NothingFramed == \A R : Framed(<<>>, <<>>, 0, R)
<1>1. PICK q : q = <<>> /\ IsSeq(q) /\ Len(q) = 0
  BY OneAndTwo
<1>2. /\ \A e \in 1..Len(q) : FALSE
      /\ \A e \in 1..Len(q) - 1 : FALSE
      /\ \A i \in 1..Len(q) : FALSE
  BY <1>1
<1>3. MaxTableDepth \in Nat
  BY ArgumentAssumption
<1> QED BY <1>1, <1>2, <1>3 DEF Framed, Cells

\* Arguments that are snapshots have the kinds of Arguments.
LEMMA SnapshotKinds ==
  ASSUME NEW R, Closed(R), NEW args, NEW vs, \A i \in 1..Len(args) : <<args[i], vs[i], 0>> \in R
  PROVE  Kinds(args)
BY SnapshotKind DEF Kinds

LEMMA FInvAnswer ==
  ASSUME VInv, settop \/ sample_table_set \/ sample_table_get
  PROVE  FInv'
<1>1. called' = called /\ input' = input /\ reading' = reading
  BY DEF settop, sample_table_set, sample_table_get, readVars
<1>2. phase = "read" /\ reading = <<>> /\ Len(arguments) = Len(input)
  BY DEF settop, sample_table_set, sample_table_get, AllRead
<1>3. pushing = <<>> /\ stack = <<>> /\ sent = 0 /\ returned = 0 /\ CallInv
  BY <1>2 DEF VInv, Phases
<1>4. PICK R : Closed(R) /\ Reads(reading, arguments, input, R)
  BY <1>2 DEF VInv, Holds
<1>5. PICK Q : Closed(Q) /\ (phase' \in {"push", "done"} => Ready(arguments', Meant', Q))
  BY <1>2, <1>3, <1>4, AnswerStep
<1>6. ASSUME phase' = "error" PROVE IsSeq(arguments') /\ Kinds(arguments')
  <2>1. arguments' = arguments
    BY <1>6 DEF settop, sample_table_set, sample_table_get
  <2>2. IsSeq(arguments) /\ \A i \in 1..Len(arguments) : <<arguments[i], input[i], 0>> \in R
    BY <1>4 DEF Reads
  <2>3. Kinds(arguments)
    BY <1>4, <2>2, SnapshotKinds
  <2> QED BY <2>1, <2>2, <2>3
<1>7. ASSUME phase' \in {"push", "done"}, input' # <<>> PROVE Framing(Q)'
  <2>1. Ready(arguments', Meant', Q)
    BY <1>5, <1>7
  <2>2. pushing' = <<>> /\ stack' = <<>> /\ sent' = 0 /\ returned' = 0
    <3>1. CASE settop
      <4>1. arguments # <<>>
        <5>1. IsSeq(arguments) /\ IsSeq(input)
          BY <1>3, <1>4, CallFacts DEF Reads
        <5> QED BY <1>1, <1>2, <1>7, <5>1, SeqFacts
      <4> QED BY <1>3, <3>1, <4>1 DEF settop
    <3>2. CASE sample_table_set \/ sample_table_get
      BY <1>3, <3>2 DEF sample_table_set, sample_table_get, pushVars
    <3> QED BY <3>1, <3>2
  <2>3. Framed(pushing', stack', sent', Q)
    BY <2>2, NothingFramed
  <2>4. sent' \in 0..Len(arguments') /\ returned' \in Nat
    <3>1. Len(arguments') \in Nat
      BY <2>1, SeqFacts DEF Ready
    <3> QED BY <2>2, <3>1
  <2> QED BY <1>5, <2>1, <2>2, <2>3, <2>4 DEF Framing
<1> QED BY <1>6, <1>7 DEF FInv

\* The steps that push keep the snapshots.
LEMMA FInvPush ==
  ASSUME VInv, FInv, push_argument \/ push_item \/ set_item \/ push_table_end \/ push_end
  PROVE  FInv'
<1>1. /\ called' = called /\ input' = input /\ arguments' = arguments
      /\ phase = "push" /\ phase' \in {"push", "done"} /\ input # <<>>
  <2>1. /\ called' = called /\ input' = input /\ arguments' = arguments
        /\ phase' = phase \/ phase' = "done"
    BY DEF push_argument, push_item, set_item, push_table_end, push_end, readVars, pushVars
  <2>2. phase = "push" /\ input # <<>>
    BY DEF push_argument, push_item, set_item, push_table_end, push_end, VInv, Phases
  <2> QED BY <2>1, <2>2
<1>2. PICK R : Framing(R)
  BY <1>1 DEF FInv
<1>3. /\ Closed(R) /\ Ready(arguments, Meant, R) /\ sent \in 0..Len(arguments)
      /\ returned \in Nat /\ Framed(pushing, stack, sent, R)
      /\ called = "table_get" => pushing = <<>>
  BY <1>2 DEF Framing
<1>4. Meant' = Meant
  BY <1>1, Same
<1>5. sent' \in 0..Len(arguments) /\ returned' \in Nat /\ Framed(pushing', stack', sent', R)
  <2>1. CASE push_argument
    <3>1. PICK x, r : x = arguments[sent + 1] /\ r = stack'
      OBVIOUS
    <3>2. PICK p, k : p = pushing' /\ k = sent
      OBVIOUS
    <3>3. /\ r = stack \o PushedSlots(x, 0)
          /\ p = IF x.kind = "table" THEN <<Building(x, Len(r))>> ELSE <<>>
          /\ pushing = <<>> /\ sent' = k + 1 /\ sent < Len(arguments)
      BY <2>1, <3>1, <3>2 DEF push_argument
    <3>4. returned' \in {returned, returned + 1}
      BY <2>1 DEF push_argument
    <3>5. Len(arguments) \in Nat
      BY <1>3, SeqFacts DEF Ready
    <3>6. sent + 1 \in 1..Len(arguments) /\ sent + 1 \in 0..Len(arguments)
      BY <1>3, <3>3, <3>5
    <3>7. PICK v : <<x, v, 0>> \in R
      BY <1>3, <3>1, <3>6 DEF Ready
    <3>8. PICK q, s : q = pushing /\ s = stack
      OBVIOUS
    <3>9. Framed(q, s, k, R) /\ q = <<>> /\ Closed(R) /\ <<x, v, 0>> \in R
      BY <1>3, <3>2, <3>3, <3>7, <3>8
    <3>11. IsPushed(p, r, s, x)
      BY <3>3, <3>8 DEF IsPushed
    <3>12. Framed(p, r, k + 1, R)
      BY <3>9, <3>11, FramedArgument
    <3>10. returned' \in Nat
      BY <1>3, <3>4
    <3> QED BY <3>1, <3>2, <3>3, <3>6, <3>10, <3>12
  <2>2. CASE push_item
    <3>1. sent' = sent /\ returned' = returned
      BY <2>2 DEF push_item
    <3> QED BY <1>3, <2>2, <3>1, FramedPushItem
  <2>3. CASE set_item
    <3>1. sent' = sent /\ returned' = returned
      BY <2>3 DEF set_item
    <3> QED BY <1>3, <2>3, <3>1, FramedSetItem
  <2>4. CASE push_table_end
    <3>1. /\ sent' = sent /\ returned' = returned /\ stack' = stack /\ pushing' = Front(pushing)
          /\ pushing # <<>> /\ ~pushing[Len(pushing)].pending
      BY <2>4 DEF push_table_end, Top
    <3>2. Framed(Front(pushing), stack, sent, R)
      BY <1>3, <3>1, FramedFront
    <3> QED BY <1>3, <3>1, <3>2
  <2>5. CASE push_end
    <3>1. sent' = sent /\ returned' = returned /\ stack' = stack /\ pushing' = pushing
      BY <2>5 DEF push_end, pushVars
    <3> QED BY <1>3, <3>1
  <2> QED BY <2>1, <2>2, <2>3, <2>4, <2>5
<1>6. ASSUME called = "table_get" PROVE pushing' = <<>>
  <2>1. pushing = <<>>
    BY <1>3, <1>6
  <2>2. CASE push_argument
    <3>1. PICK x, p : x = arguments[sent + 1] /\ p = pushing'
      OBVIOUS
    <3>2. sent \in 0..Len(arguments) /\ sent < Len(arguments) /\ Len(arguments) \in Nat
      BY <1>3, <2>2, SeqFacts DEF push_argument, Ready
    <3>3. sent + 1 \in 1..Len(arguments)
      BY <3>2
    <3>4. <<x, Meant[sent + 1], 0>> \in R /\ Len(arguments) = Len(Meant)
      BY <1>3, <3>1, <3>3 DEF Ready
    <3>5. Meant[sent + 1].kind \in {"string", "number"}
      <4>1. PICK v, w : v = Field(input[1], "name") /\ w = Field(input[1], "hp")
        OBVIOUS
      <4>2. v.kind = "string" /\ w.kind = "number"
        BY <1>1, <1>6, <4>1 DEF VInv, ErrorInv, Mismatch
      <4>3. Meant = <<v, w>>
        BY <1>6, <4>1 DEF Meant
      <4>4. Len(Meant) = 2 /\ Meant[1] = v /\ Meant[2] = w
        BY <4>3, OneAndTwo
      <4>5. sent + 1 \in {1, 2}
        BY <3>3, <3>4, <4>4
      <4> QED BY <4>2, <4>4, <4>5
    <3>6. x.kind # "table"
      BY <1>3, <3>4, <3>5, SnapshotKind
    <3>7. p = <<>>
      BY <2>2, <3>1, <3>6 DEF push_argument
    <3> QED BY <3>1, <3>7
  <2>3. CASE push_end
    BY <2>1, <2>3 DEF push_end, pushVars
  <2>4. CASE push_item \/ set_item \/ push_table_end
    BY <2>1, <2>4 DEF push_item, set_item, push_table_end
  <2> QED BY <2>2, <2>3, <2>4
<1>7. Framing(R)'
  BY <1>1, <1>3, <1>4, <1>5, <1>6 DEF Framing
<1> QED BY <1>1, <1>7 DEF FInv

LEMMA FInvStep == VInv /\ FInv /\ [Next]_vars => FInv'
<1> SUFFICES ASSUME VInv, FInv, [Next]_vars PROVE FInv'
  OBVIOUS
<1>1. CASE read_argument \/ read_entry \/ read_table_end
  <2>1. phase' = phase /\ phase = "read"
    BY <1>1 DEF read_argument, read_entry, read_table_end, VInv, Phases
  <2> QED BY <2>1 DEF FInv
<1>2. CASE settop \/ sample_table_set \/ sample_table_get
  BY <1>2, FInvAnswer
<1>3. CASE push_argument \/ push_item \/ set_item \/ push_table_end \/ push_end
  BY <1>3, FInvPush
<1>4. CASE UNCHANGED vars
  <2>1. /\ called' = called /\ input' = input /\ arguments' = arguments /\ phase' = phase
        /\ stack' = stack /\ pushing' = pushing /\ sent' = sent /\ returned' = returned
    BY <1>4 DEF vars
  <2>2. Meant' = Meant
    BY <2>1, Same
  <2>3. \A R : Framing(R)' <=> Framing(R)
    BY <2>1, <2>2 DEF Framing
  <2> QED BY <2>1, <2>3 DEF FInv
<1> QED BY <1>1, <1>2, <1>3, <1>4 DEF Next

\* The results and what lies below them: at most one slot more than the arguments, or the
\* arguments and two scalars.
LEMMA MeantLength ==
  ASSUME CallInv
  PROVE  /\ Len(Meant) \in Nat /\ Below \in Nat
         /\ called \in {"echo", "table_set"} => Below + Len(Meant) <= Len(input) + 1
         /\ called = "table_get" => Len(Meant) = 2 /\ Below = Len(input)
<1>1. PICK i \in Nat : i = Len(input)
  BY CallFacts
<1>2. CASE called = "echo"
  <2>1. Meant = input /\ Below = 0
    BY <1>2 DEF Meant, Below
  <2> QED BY <1>1, <1>2, <2>1
<1>3. CASE called = "table_set"
  <2>1. PICK w : Meant = <<w>>
    BY <1>3 DEF Meant
  <2>2. Len(Meant) = 1 /\ Below = i
    BY <1>1, <1>3, <2>1, OneAndTwo DEF Below
  <2> QED BY <1>1, <1>3, <2>2
<1>4. CASE called = "table_get"
  <2>1. PICK v, w : Meant = <<v, w>>
    BY <1>4 DEF Meant
  <2>2. Len(Meant) = 2 /\ Below = i
    BY <1>1, <1>4, <2>1, OneAndTwo DEF Below
  <2> QED BY <1>1, <1>4, <2>2
<1> QED BY <1>2, <1>3, <1>4, CallFacts

\* Every phase has its arguments, its calls and its slots.
LEMMA FInvShape ==
  ASSUME VInv, FInv
  PROVE  /\ Kinds(arguments) /\ Cells(stack) /\ sent \in 0..Len(arguments) /\ returned \in Nat
         /\ Len(reading) \in 0..MaxTableDepth /\ Len(pushing) <= MaxTableDepth
         /\ phase # "read" => Below + Len(stack) <= Len(input) + 3 * MaxTableDepth
<1>1. CallInv /\ Phases /\ MaxTableDepth \in Nat \ {0} /\ Len(input) \in Nat
  BY CallFacts, ArgumentAssumption DEF VInv
<1>2. PICK none : none = <<>> /\ Len(none) = 0
  BY OneAndTwo
<1>3. CASE phase = "read"
  <2>1. PICK R : Closed(R) /\ Reads(reading, arguments, input, R)
    BY <1>3 DEF VInv, Holds
  <2>2. /\ IsSeq(reading) /\ IsSeq(arguments) /\ Len(reading) <= MaxTableDepth
        /\ \A i \in 1..Len(arguments) : <<arguments[i], input[i], 0>> \in R
    BY <2>1 DEF Reads
  <2>3. Kinds(arguments)
    BY <2>1, <2>2, SnapshotKinds
  <2>4. Len(reading) \in 0..MaxTableDepth
    <3>1. Len(reading) \in Nat
      BY <2>2, SeqFacts
    <3> QED BY <1>1, <2>2, <3>1
  <2>5. pushing = none /\ stack = none /\ sent = 0 /\ returned = 0
    BY <1>1, <1>2, <1>3 DEF Phases
  <2>6. Len(arguments) \in Nat
    BY <2>2, SeqFacts
  <2>7. Cells(stack) /\ Len(pushing) <= MaxTableDepth
    BY <1>1, <1>2, <2>5 DEF Cells
  <2> QED BY <1>3, <2>3, <2>4, <2>5, <2>6, <2>7
<1>4. ASSUME phase # "read" PROVE Len(reading) \in 0..MaxTableDepth
  <2>1. reading = none
    BY <1>1, <1>2, <1>4 DEF Phases
  <2> QED BY <1>1, <1>2, <2>1
<1>5. CASE phase = "error"
  <2>1. pushing = none /\ stack = none /\ sent = 0 /\ returned = 0
    BY <1>1, <1>2, <1>5 DEF Phases
  <2>2. Kinds(arguments)
    BY <1>5 DEF FInv
  <2>3. Len(arguments) \in Nat
    BY <1>5, SeqFacts DEF FInv
  <2>4. Cells(stack) /\ Len(pushing) <= MaxTableDepth /\ Len(stack) = 0
    BY <1>1, <1>2, <2>1 DEF Cells
  <2>5. Below \in {0, Len(input)}
    BY DEF Below
  <2>6. Below + Len(stack) <= Len(input) + 3 * MaxTableDepth
    BY <1>1, <2>4, <2>5
  <2> QED BY <1>4, <1>5, <2>1, <2>2, <2>3, <2>4, <2>6
<1>6. CASE phase \in {"push", "done"} /\ input # <<>>
  <2>1. PICK R : /\ Closed(R) /\ Ready(arguments, Meant, R)
                 /\ sent \in 0..Len(arguments) /\ returned \in Nat
                 /\ Framed(pushing, stack, sent, R)
                 /\ called = "table_get" => pushing = <<>>
    BY <1>6 DEF FInv, Framing
  <2>2. Kinds(arguments)
    BY <2>1, SnapshotKinds DEF Ready
  <2>3. Cells(stack) /\ Len(pushing) <= MaxTableDepth
    BY <2>1 DEF Framed
  <2>4. PICK l : l = Len(stack)
    OBVIOUS
  <2>5. l \in Nat /\ l <= sent + 2 * MaxTableDepth
    BY <2>1, <2>4, FramedHeight
  <2>6. PICK m \in Nat : m = Len(Meant)
    BY <1>1, MeantLength
  <2>7. sent \in Nat /\ sent <= m
    BY <2>1, <2>6 DEF Ready
  <2>8. ASSUME called \in {"echo", "table_set"}
        PROVE  Below + Len(stack) <= Len(input) + 3 * MaxTableDepth
    <3>1. Below + m <= Len(input) + 1 /\ Below \in Nat
      BY <1>1, <2>6, <2>8, MeantLength
    <3>2. Below + l <= Len(input) + 3 * MaxTableDepth
      BY <1>1, <2>5, <2>7, <3>1
    <3> QED BY <2>4, <3>2
  <2>9. ASSUME called = "table_get"
        PROVE  Below + Len(stack) <= Len(input) + 3 * MaxTableDepth
    <3>1. pushing = none /\ m = 2 /\ Below = Len(input)
      BY <1>1, <1>2, <2>1, <2>6, <2>9, MeantLength
    <3>2. l <= sent
      BY <1>2, <2>1, <2>4, <3>1 DEF Framed
    <3>3. Below + l <= Len(input) + 3 * MaxTableDepth
      BY <1>1, <2>5, <2>7, <3>1, <3>2
    <3> QED BY <2>4, <3>3
  <2>10. called \in {"echo", "table_set", "table_get"}
    BY <1>1, CallFacts
  <2> QED BY <1>4, <1>6, <2>1, <2>2, <2>3, <2>8, <2>9, <2>10
<1>7. CASE phase = "done" /\ input = <<>>
  <2>1. pushing = none /\ sent = Len(arguments) /\ stack = <<Nil>> /\ returned = 1
    BY <1>1, <1>2, <1>7 DEF Phases
  <2>2. PICK R : Closed(R) /\ Ready(arguments, Meant, R)
    BY <1>7 DEF VInv, Holds
  <2>3. Kinds(arguments) /\ Len(arguments) \in Nat
    BY <2>2, SnapshotKinds, SeqFacts DEF Ready
  <2>4. Len(stack) = 1 /\ stack[1] = Nil
    BY <2>1, OneAndTwo
  <2>5. Cells(stack) /\ Len(pushing) <= MaxTableDepth
    BY <1>1, <1>2, <2>1, <2>4 DEF Cells, Nil
  <2>6. Below + Len(stack) <= Len(input) + 3 * MaxTableDepth
    <3>1. Below \in {0, Len(input)} /\ Len(input) = 0
      BY <1>2, <1>7 DEF Below
    <3> QED BY <1>1, <2>4, <3>1
  <2> QED BY <1>4, <1>7, <2>1, <2>3, <2>4, <2>5, <2>6
<1> QED BY <1>1, <1>3, <1>5, <1>6, <1>7 DEF Phases

LEMMA FramesHold == Spec => [](VInv /\ FInv)
<1>1. Init => VInv /\ FInv
  <2>1. Init => phase = "read"
    BY DEF Init
  <2> QED BY <2>1, VInvInit DEF FInv
<1>2. VInv /\ FInv /\ [Next]_vars => VInv' /\ FInv'
  BY VInvStep, FInvStep
<1> QED BY <1>1, <1>2, PTL DEF Spec

\* Arguments and stack cells have their kinds, the nested calls of read() and push() are
\* no more than the depth limit, and push() has looked at no more than was read.
THEOREM TypesOfValues == Spec => []TypeOK
<1>1. VInv /\ FInv => TypeOK
  <2> SUFFICES ASSUME VInv, FInv PROVE TypeOK
    OBVIOUS
  <2>1. phase \in {"read", "push", "done", "error"}
    BY DEF VInv, Phases
  <2>2. /\ Kinds(arguments) /\ Cells(stack) /\ sent \in 0..Len(arguments) /\ returned \in Nat
        /\ Len(reading) \in 0..MaxTableDepth /\ Len(pushing) <= MaxTableDepth
    BY FInvShape
  <2>3. Len(reading) <= MaxTableDepth
    BY <2>2, ArgumentAssumption
  <2> QED BY <2>1, <2>2, <2>3 DEF TypeOK, Kinds, Cells
<1> QED BY <1>1, FramesHold, PTL

\* A conversion needs at most three slots of the Lua stack for each level of tables, whatever
\* the tables hold and in whatever order they are read: the depth limit bounds the stack,
\* also where a field goes wrong, and a check of that many slots would be enough.
THEOREM SlotsAreBounded == Spec => []ThreeSlotsPerLevel
<1>1. VInv /\ FInv => ThreeSlotsPerLevel
  <2> SUFFICES ASSUME VInv, FInv PROVE ThreeSlotsPerLevel
    OBVIOUS
  <2>1. MaxTableDepth \in Nat \ {0} /\ Len(input) \in Nat
    BY CallFacts, ArgumentAssumption DEF VInv
  <2>2. /\ Len(reading) \in 0..MaxTableDepth
        /\ phase # "read" => Below + Len(stack) <= Len(input) + 3 * MaxTableDepth
    BY FInvShape
  <2>3. CASE phase = "read"
    <3>1. PICK l \in 0..MaxTableDepth : l = Len(reading)
      BY <2>2
    <3>2. Height = Len(input) + (IF reading = <<>> THEN 0 ELSE 3 * l - 1)
      BY <2>3, <3>1 DEF Height
    <3> QED BY <2>1, <3>1, <3>2 DEF ThreeSlotsPerLevel
  <2>4. CASE phase # "read"
    BY <2>2, <2>4 DEF ThreeSlotsPerLevel, Height
  <2> QED BY <2>3, <2>4
<1> QED BY <1>1, FramesHold, PTL

=============================================================================
