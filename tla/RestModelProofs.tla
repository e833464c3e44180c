---------------------------- MODULE RestModelProofs ----------------------------
(***************************************************************************)
(* Theorems about RestModel, for all tables and requests that satisfy its    *)
(* assumptions, any number of rows and of stops of the server: the rows form *)
(* a tree whose keys and ids agree, every row is alone under its keys, new   *)
(* entries come last, and no container stays behind empty.                  *)
(***************************************************************************)
EXTENDS RestModel, TLAPS, FiniteSetTheorems, SequenceTheorems, WellFoundedInduction

KeyValues == Nat \cup {Null} \cup UNION {{q.keys[i] : i \in 1..Level(q.table)} : q \in Requests}
Row == [table : Tables, id : Nat, parent : Nat, keys : Seq(KeyValues),
        attr : {NoAttr} \cup {q.attr : q \in Requests}]

-------------------------------------------------------------------------------
\* The inductive invariant. What every row is by itself:
RowsInv ==
  /\ IsFiniteSet(rows) /\ rows \subseteq Row
  /\ \A r \in rows : /\ Len(r.keys) = Level(r.table)
                     /\ r.table \in Keyless \ Sequenced => r.keys[Level(r.table)] = NoKey
  /\ \E N \in Nat : \A r \in rows : r.table \in Sequenced => r.keys[Level(r.table)] \in 1..N

\* The table of the level above.
Above == Heritage[request.table][level - 1]

\* A number that the server chooses is behind the level.
Chosen == \E j \in AutoLevels(request.table) : j < level /\ asked.keys[j] = Null

\* The request that makes rows: the numbers behind the level are chosen, the row
\* of the level above is there, and has nothing below if it follows a number.
GetInv ==
  pc = "get" =>
    /\ asked \in Requests /\ asked.verb # "DELETE"
    /\ request = [asked EXCEPT !.keys = request.keys]
    /\ request.keys \in Seq(KeyValues) /\ Len(request.keys) = Level(request.table)
    /\ level \in 1..(Level(request.table) + 1) /\ at \in Nat
    /\ \A i \in 1..Level(request.table) :
         \/ request.keys[i] = asked.keys[i] /\ (i < level /\ i \in AutoLevels(request.table) => asked.keys[i] # Null)
         \/ i < level /\ i \in AutoLevels(request.table) /\ request.keys[i] \in Nat
    /\ level > 1 =>
         /\ \E p \in rows : /\ p.table = Above /\ p.id = at
                            /\ p.keys = SubSeq(request.keys, 1, level - 1)
         /\ Chosen => \A r \in rows : Level(r.table) = level /\ Parent(r.table) = Above => r.parent # at

\* No request, or the one that destroys a row.
FindInv ==
  /\ pc = "idle" => at = 0 /\ level = 1
  /\ pc = "find" => request \in Requests
  /\ pc = "upon" => /\ request \in Requests /\ at \in Nat
                    /\ level \in 1..Level(request.table)

Childless(p) == p.table \in Swept /\ Children(p) = {}

\* While a request is in progress only the row it is at may have nothing below.
Accounted ==
  stops = 0 => \A p \in rows : Childless(p) =>
    \/ pc = "get" /\ level > 1 /\ p.table = Above /\ p.id = at
    \/ pc = "upon" /\ p.table = Table /\ p.id = at

ModelInv ==
  /\ pc \in {"idle", "get", "find", "upon"}
  /\ RowsInv /\ NoOrphan /\ RowsDistinct /\ GetInv /\ FindInv
  /\ stops \in Nat

-------------------------------------------------------------------------------
(***************************************************************************)
(* Tables, numbers and ids                                                  *)
(***************************************************************************)
\* What the assumption says of a table and of the tables above it.
LEMMA TableFacts ==
  ASSUME NEW t \in Tables
  PROVE  /\ Heritage[t] \in Seq(Tables) /\ Level(t) \in Nat /\ Level(t) >= 1
         /\ DOMAIN Heritage[t] = 1..Level(t) /\ Heritage[t][Level(t)] = t
         /\ \A i \in 1..Level(t) :
              /\ Heritage[t][i] \in Tables /\ Level(Heritage[t][i]) = i
              /\ \A k \in 1..i : Heritage[Heritage[t][i]][k] = Heritage[t][k]
         /\ Level(t) > 1 => Parent(t) \in Tables /\ Level(Parent(t)) = Level(t) - 1
<1>1. Heritage[t] \in Seq(Tables) /\ Level(t) > 0 /\ Heritage[t][Level(t)] = t
  BY TableAssumption DEF TableAssumption
<1>2. Level(t) \in Nat /\ Level(t) >= 1 /\ DOMAIN Heritage[t] = 1..Level(t)
  BY <1>1 DEF Level
<1>3. ASSUME NEW i \in 1..Level(t)
      PROVE  /\ Heritage[t][i] \in Tables /\ Level(Heritage[t][i]) = i
             /\ \A k \in 1..i : Heritage[Heritage[t][i]][k] = Heritage[t][k]
  <2>1. Heritage[Heritage[t][i]] = SubSeq(Heritage[t], 1, i)
    BY TableAssumption DEF TableAssumption
  <2>2. \A k \in 1..i : Heritage[t][k] \in Tables
    BY <1>1, <1>2 DEF Level
  <2>3. Len(SubSeq(Heritage[t], 1, i)) = i /\ \A k \in 1..i : SubSeq(Heritage[t], 1, i)[k] = Heritage[t][k]
    BY <1>1, <1>2, <2>2, SubSeqProperties DEF Level
  <2> QED BY <1>2, <2>1, <2>2, <2>3 DEF Level
<1>4. Level(t) > 1 => Parent(t) \in Tables /\ Level(Parent(t)) = Level(t) - 1
  BY <1>2, <1>3 DEF Parent
<1> QED BY <1>1, <1>2, <1>3, <1>4

\* The table at level i of a path, its parent, and the numbers on its path.
LEMMA LevelFacts ==
  ASSUME NEW t \in Tables, NEW i \in 1..Level(t)
  PROVE  /\ Heritage[t][i] \in Tables /\ Level(Heritage[t][i]) = i
         /\ i > 1 => Parent(Heritage[t][i]) = Heritage[t][i - 1]
         /\ AutoLevels(Heritage[t][i]) = {j \in AutoLevels(t) : j <= i}
<1>1. /\ Level(t) \in Nat /\ Heritage[t][i] \in Tables /\ Level(Heritage[t][i]) = i
      /\ \A k \in 1..i : Heritage[Heritage[t][i]][k] = Heritage[t][k]
      /\ DOMAIN Heritage[t] = 1..Level(t)
  BY TableFacts
<1>2. DOMAIN Heritage[Heritage[t][i]] = 1..i
  BY <1>1, TableFacts
<1>3. i > 1 => Parent(Heritage[t][i]) = Heritage[t][i - 1]
  BY <1>1 DEF Parent
<1>4. AutoLevels(Heritage[t][i]) = {j \in AutoLevels(t) : j <= i}
  BY <1>1, <1>2 DEF AutoLevels
<1> QED BY <1>1, <1>3, <1>4

LEMMA RequestFacts ==
  ASSUME NEW q \in Requests
  PROVE  /\ q = [verb |-> q.verb, table |-> q.table, keys |-> q.keys, attr |-> q.attr]
         /\ q.verb \in {"PUT", "POST", "DELETE"} /\ q.table \in Tables
         /\ q.keys \in Seq(KeyValues) /\ Len(q.keys) = Level(q.table)
<1>1. /\ q = [verb |-> q.verb, table |-> q.table, keys |-> q.keys, attr |-> q.attr]
      /\ q.verb \in {"PUT", "POST", "DELETE"} /\ q.table \in Tables
      /\ q.keys = [i \in 1..Level(q.table) |-> q.keys[i]]
  BY RequestAssumption DEF RequestAssumption
<1>2. Level(q.table) \in Nat
  BY <1>1, TableFacts
<1>3. \A i \in 1..Level(q.table) : q.keys[i] \in KeyValues
  BY DEF KeyValues
<1>4. q.keys \in [1..Level(q.table) -> KeyValues]
  <2> DEFINE n == Level(q.table)
             s == q.keys
  <2>1. s = [i \in 1..n |-> s[i]] /\ \A i \in 1..n : s[i] \in KeyValues
    BY <1>1, <1>3
  <2> HIDE DEF n, s
  <2>2. s \in [1..n -> KeyValues]
    BY <2>1
  <2> QED BY <2>2 DEF n, s
<1>5. q.keys \in Seq(KeyValues)
  BY <1>2, <1>4, SeqDef
<1>6. Len(q.keys) = Level(q.table)
  BY <1>2, <1>4, <1>5, LenProperties
<1> QED BY <1>1, <1>5, <1>6

\* What the commands that make rows leave to the server.
LEMMA MakerFacts ==
  ASSUME NEW q \in Requests, q.verb # "DELETE"
  PROVE  /\ q.table \notin Sequenced \cup Swept
         /\ \A i \in AutoLevels(q.table) : q.keys[i] = Null
         /\ \A i \in 1..Level(q.table) :
              /\ Heritage[q.table][i] \in Keyless => q.keys[i] = NoKey
              /\ Heritage[q.table][i] \in HasOne \cup Keyless =>
                   \/ Heritage[q.table][i] \in Keyless /\ AutoLevels(Heritage[q.table][i]) = {}
                   \/ \E j \in AutoLevels(q.table) : j < i /\ q.keys[j] = Null
BY RequestAssumption DEF RequestAssumption

\* An id that no row has is found among one more than there are rows.
LEMMA FreshIdFresh ==
  ASSUME IsFiniteSet(rows)
  PROVE  FreshId \in Nat /\ \A r \in rows : r.id # FreshId
<1> DEFINE n   == Cardinality(rows)
           ids == {r.id : r \in rows}
           f   == [r \in rows |-> r.id]
<1>1. n \in Nat
  BY FS_CardinalityType
<1>2. f \in Surjection(rows, ids)
  BY DEF Surjection
<1> HIDE DEF f
<1>3. IsFiniteSet(ids) /\ Cardinality(ids) <= n
  BY <1>2, FS_Surjection
<1>4. IsFiniteSet(1..(n + 1)) /\ Cardinality(1..(n + 1)) = n + 1
  BY <1>1, FS_Interval
<1>5. \E i \in 1..(n + 1) : i \notin ids
  <2> SUFFICES ASSUME 1..(n + 1) \subseteq ids PROVE FALSE
    OBVIOUS
  <2> HIDE DEF ids
  <2>1. Cardinality(1..(n + 1)) <= Cardinality(ids)
    BY <1>3, FS_Subset
  <2>2. Cardinality(ids) \in Nat
    BY <1>3, FS_CardinalityType
  <2> QED BY <1>1, <1>3, <1>4, <2>1, <2>2
<1>6. \E i \in 1..(n + 1) : \A r \in rows : r.id # i
  BY <1>5
<1>7. FreshId \in 1..(n + 1) /\ \A r \in rows : r.id # FreshId
  BY <1>6 DEF FreshId
<1> QED BY <1>1, <1>7

\* A set of numbers below N has a greatest one.
LEMMA Greatest ==
  ASSUME NEW N \in Nat, NEW T, T \subseteq 1..N, T # {}
  PROVE  \E m \in T : \A k \in T : k <= m
<1> DEFINE R == OpToRel(<, Nat)
           D == {N - k : k \in T}
<1>1. IsWellFoundedOn(R, Nat)
  BY NatLessThanWellFounded
<1>2. \A k \in T : k \in Nat /\ N - k \in Nat /\ N - k \in D
  OBVIOUS
<1>3. D \subseteq Nat /\ D # {}
  BY <1>2
<1>4. \A a, b \in D : a < b => <<a, b>> \in R
  BY <1>3 DEF OpToRel
<1> HIDE DEF R
<1>5. PICK d \in D : \A a \in D : ~(<<a, d>> \in R)
  BY <1>1, <1>3, WFMin
<1>6. \A a \in D : a \in Nat /\ (a < d \/ d <= a)
  BY <1>3
<1>7. \A a \in D : d <= a
  BY <1>4, <1>5, <1>6
<1>8. PICK m \in T : d = N - m
  OBVIOUS
<1>9. \A k \in T : N - m <= N - k
  BY <1>2, <1>7, <1>8
<1> QED BY <1>2, <1>9

\* The next multiple of the step is greater.
LEMMA NextMultiple ==
  ASSUME NEW a \in Nat
  PROVE  (a \div Step + 1) * Step \in Nat /\ (a \div Step + 1) * Step > a
<1>1. Step \in Nat /\ Step > 0
  BY TableAssumption DEF TableAssumption
<1>2. a \div Step \in Nat
  BY <1>1
<1> QED BY <1>1, <1>2

-------------------------------------------------------------------------------
(***************************************************************************)
(* The row a request is at, and the row it makes below                      *)
(***************************************************************************)
LEMMA RowFacts ==
  ASSUME RowsInv, NEW r \in rows
  PROVE  /\ r \in Row /\ r.table \in Tables /\ r.id \in Nat /\ r.parent \in Nat
         /\ r.keys \in Seq(KeyValues) /\ Len(r.keys) = Level(r.table)
         /\ Level(r.table) \in Nat /\ Level(r.table) >= 1
<1>1. r \in Row /\ Len(r.keys) = Level(r.table)
  BY DEF RowsInv
<1>2. r.table \in Tables /\ r.id \in Nat /\ r.parent \in Nat /\ r.keys \in Seq(KeyValues)
  BY <1>1 DEF Row
<1> QED BY <1>1, <1>2, TableFacts

\* The number set_next chooses is greater than those of all rows of the list.
LEMMA NumberLast ==
  ASSUME RowsInv, NEW t \in Tables \cap Sequenced, NEW keys \in Seq(KeyValues), Len(keys) = Level(t)
  PROVE  /\ NextNumber(t, keys) \in Nat /\ NextNumber(t, keys) >= 1
         /\ \A q \in rows :
              q.table = t /\ (\A i \in 1..(Level(t) - 1) : q.keys[i] = keys[i])
                => q.keys[Level(t)] \in Nat /\ q.keys[Level(t)] < NextNumber(t, keys)
<1> DEFINE n    == Level(t)
           any  == [keys EXCEPT ![n] = Null]
           list == {r.keys[n] : r \in Matching(t, any)}
           last == IF list = {} THEN 0 ELSE CHOOSE m \in list : \A k \in list : k <= m
<1>1. n \in Nat /\ n >= 1 /\ n \in AutoLevels(t) /\ DOMAIN keys = 1..n
  <2>1. /\ Level(t) \in Nat /\ Level(t) >= 1 /\ DOMAIN Heritage[t] = 1..Level(t)
        /\ Heritage[t][Level(t)] = t
    BY TableFacts
  <2>2. Level(t) \in AutoLevels(t)
    BY <2>1 DEF AutoLevels
  <2> QED BY <2>1, <2>2, LenProperties
<1>2. PICK N \in Nat : \A r \in rows : r.table \in Sequenced => r.keys[Level(r.table)] \in 1..N
  BY DEF RowsInv
<1>3. list \subseteq 1..N
  BY <1>2 DEF Matching
<1> HIDE DEF list
<1>4. last \in Nat /\ \A k \in list : k \in Nat /\ k <= last
  <2>1. CASE list = {}
    BY <2>1
  <2>2. CASE list # {}
    <3>1. \E m \in list : \A k \in list : k <= m
      BY <1>2, <1>3, <2>2, Greatest
    <3>2. last \in list /\ \A k \in list : k <= last
      BY <2>2, <3>1
    <3>3. \A k \in list : k \in Nat
      BY <1>3
    <3> QED BY <3>2, <3>3
  <2> QED BY <2>1, <2>2
<1>5. NextNumber(t, keys) = (last \div Step + 1) * Step
  BY DEF NextNumber, list
<1> HIDE DEF last
<1>6. NextNumber(t, keys) \in Nat /\ NextNumber(t, keys) > last
  BY <1>4, <1>5, NextMultiple
<1>7. ASSUME NEW q \in rows, q.table = t, \A i \in 1..(n - 1) : q.keys[i] = keys[i]
      PROVE  q.keys[n] \in list
  <2>1. DOMAIN q.keys = 1..n
    BY <1>1, <1>7, RowFacts, LenProperties
  <2>2. any[n] = Null /\ \A i \in 1..(n - 1) : any[i] = keys[i]
    BY <1>1
  <2>3. \A i \in 1..n : i \in 1..(n - 1) \/ i = n
    BY <1>1
  <2>4. q \in Matching(t, any)
    BY <1>1, <1>7, <2>1, <2>2, <2>3 DEF Matching
  <2> QED BY <2>4 DEF list
<1> QED BY <1>4, <1>6, <1>7

\* A row that belongs to p carries the keys of p.
LEMMA Attached ==
  ASSUME NoOrphan, RowsDistinct, NEW r \in rows, Level(r.table) > 1,
         NEW p \in rows, p.table = Parent(r.table), p.id = r.parent
  PROVE  p.keys = SubSeq(r.keys, 1, Level(p.table))
<1>1. PICK o \in rows : r \in Children(o) /\ o.keys = SubSeq(r.keys, 1, Level(o.table))
  BY DEF NoOrphan
<1>2. o.table = Parent(r.table) /\ o.id = r.parent
  BY <1>1 DEF Children
<1>3. o = p
  BY <1>2 DEF RowsDistinct
<1> QED BY <1>1, <1>3

\* What the request's path is at a level that it has.
LEMMA PathFacts ==
  ASSUME ModelInv, pc = "get", level <= Level(request.table)
  PROVE  /\ request.table = asked.table /\ request.table \in Tables /\ asked \in Requests
         /\ level \in Nat /\ level \in 1..Level(request.table)
         /\ Level(request.table) \in Nat
         /\ request.keys \in Seq(KeyValues) /\ Len(request.keys) = Level(request.table)
         /\ Table \in Tables /\ Level(Table) = level /\ at \in Nat
         /\ level > 1 => Parent(Table) = Above
         /\ AutoLevels(Table) = {j \in AutoLevels(request.table) : j <= level}
         /\ Path \in Seq(KeyValues) /\ Len(Path) = level /\ DOMAIN Path = 1..level
         /\ \A i \in 1..level : Path[i] = request.keys[i]
         /\ \A i \in AutoLevels(Table) : i < level => request.keys[i] # Null
<1>1. /\ asked \in Requests /\ request = [asked EXCEPT !.keys = request.keys]
      /\ request.keys \in Seq(KeyValues) /\ Len(request.keys) = Level(request.table)
      /\ level \in 1..(Level(request.table) + 1) /\ at \in Nat
      /\ \A i \in 1..Level(request.table) :
           \/ request.keys[i] = asked.keys[i] /\ (i < level /\ i \in AutoLevels(request.table) => asked.keys[i] # Null)
           \/ i < level /\ i \in AutoLevels(request.table) /\ request.keys[i] \in Nat
  BY DEF ModelInv, GetInv
<1>2. asked = [verb |-> asked.verb, table |-> asked.table, keys |-> asked.keys, attr |-> asked.attr]
      /\ asked.table \in Tables
  BY <1>1, RequestFacts
<1>3. request.table = asked.table
  BY <1>1, <1>2
<1>4. Level(request.table) \in Nat /\ level \in Nat /\ level \in 1..Level(request.table)
  BY <1>1, <1>2, <1>3, TableFacts
<1>5. /\ Table \in Tables /\ Level(Table) = level
      /\ level > 1 => Parent(Table) = Above
      /\ AutoLevels(Table) = {j \in AutoLevels(request.table) : j <= level}
  BY <1>2, <1>3, <1>4, LevelFacts DEF Table, Above
<1>6. \A i \in 1..level : request.keys[i] \in KeyValues
  BY <1>1, <1>4
<1>7. /\ Path \in Seq(KeyValues) /\ Len(Path) = level
      /\ \A i \in 1..level : Path[i] = request.keys[i]
  BY <1>1, <1>4, <1>6, SubSeqProperties DEF Path
<1>8. DOMAIN Path = 1..level
  BY <1>7, LenProperties
<1>9. ASSUME NEW i \in AutoLevels(Table), i < level PROVE request.keys[i] # Null
  <2>1. i \in AutoLevels(request.table)
    BY <1>5, <1>9
  <2>2. i \in 1..Level(request.table)
    BY <1>2, <1>3, <2>1, TableFacts DEF AutoLevels
  <2> QED BY <1>1, <1>9, <2>1, <2>2, TableAssumption DEF TableAssumption
<1> QED BY <1>1, <1>2, <1>3, <1>4, <1>5, <1>7, <1>8, <1>9

\* The rows of the table below the row the request is at are those with its path.
LEMMA BelowAt ==
  ASSUME ModelInv, pc = "get", level <= Level(request.table), level > 1,
         NEW q \in rows, q.table = Table
  PROVE  q.parent = at <=> \A i \in 1..(level - 1) : q.keys[i] = request.keys[i]
<1>1. /\ level \in Nat /\ Level(Table) = level /\ Parent(Table) = Above
      /\ request.table \in Tables /\ level - 1 \in 1..Level(request.table)
      /\ request.keys \in Seq(KeyValues) /\ Len(request.keys) = Level(request.table)
  BY PathFacts
<1>2. /\ q.keys \in Seq(KeyValues) /\ Len(q.keys) = level
      /\ RowsInv /\ NoOrphan /\ RowsDistinct
  BY <1>1, RowFacts DEF ModelInv
<1>3. PICK p \in rows : /\ p.table = Above /\ p.id = at
                        /\ p.keys = SubSeq(request.keys, 1, level - 1)
  BY DEF ModelInv, GetInv
<1>4. PICK o \in rows : q \in Children(o) /\ o.keys = SubSeq(q.keys, 1, Level(o.table))
  BY <1>1, <1>2 DEF NoOrphan
<1>5. o.table = Above /\ o.id = q.parent /\ Level(o.table) = level - 1
  <2>1. o.table = Parent(q.table) /\ o.id = q.parent
    BY <1>4 DEF Children
  <2> QED BY <1>1, <2>1, LevelFacts DEF Above
<1>6. \A i \in 1..(level - 1) : q.keys[i] \in KeyValues /\ request.keys[i] \in KeyValues
  BY <1>1, <1>2
<1>7. /\ o.keys \in Seq(KeyValues) /\ Len(o.keys) = level - 1
      /\ \A i \in 1..(level - 1) : o.keys[i] = q.keys[i]
  BY <1>1, <1>2, <1>4, <1>5, <1>6, SubSeqProperties
<1>8. /\ p.keys \in Seq(KeyValues) /\ Len(p.keys) = level - 1
      /\ \A i \in 1..(level - 1) : p.keys[i] = request.keys[i]
  BY <1>1, <1>3, <1>6, SubSeqProperties
<1>9. ASSUME q.parent = at PROVE o = p
  BY <1>2, <1>3, <1>5, <1>9 DEF RowsDistinct
<1>10. ASSUME \A i \in 1..(level - 1) : q.keys[i] = request.keys[i] PROVE o = p
  <2>1. \A i \in 1..Len(o.keys) : o.keys[i] = p.keys[i]
    BY <1>7, <1>8, <1>10
  <2>2. o.keys = p.keys
    BY <1>7, <1>8, <2>1, SeqEqual
  <2> QED BY <1>2, <1>3, <1>5, <2>2 DEF RowsDistinct
<1> QED BY <1>3, <1>5, <1>7, <1>8, <1>9, <1>10

\* Behind a number that the server chose nothing is below the row it is at.
LEMMA NothingBelow ==
  ASSUME ModelInv, pc = "get", level <= Level(request.table), Chosen, NEW q \in rows, q.table = Table
  PROVE  q.parent # at
<1>1. /\ level \in Nat /\ Level(Table) = level /\ (level > 1 => Parent(Table) = Above)
      /\ request.table \in Tables
  BY PathFacts
<1>2. level > 1
  <2>1. PICK j \in AutoLevels(request.table) : j < level
    BY DEF Chosen
  <2>2. j \in Nat /\ j >= 1
    BY <1>1, <2>1, TableFacts DEF AutoLevels
  <2> QED BY <1>1, <2>1, <2>2
<1> QED BY <1>1, <1>2 DEF ModelInv, GetInv

\* The row that Create makes.
LEMMA NewRowFacts ==
  ASSUME ModelInv, pc = "get", level <= Level(request.table)
  PROVE  /\ NewRow \in Row /\ NewRow.table = Table /\ NewRow.parent = at /\ NewRow.id = FreshId
         /\ NewRow.keys = SubSeq(Numbered, 1, level) /\ Len(NewRow.keys) = level
         /\ Numbered \in Seq(KeyValues) /\ Len(Numbered) = Level(request.table)
         /\ \A i \in 1..Level(request.table) : i # level => Numbered[i] = request.keys[i]
         /\ Table \in Sequenced => /\ Numbered[level] = NextNumber(Table, Path)
                                   /\ Numbered[level] \in Nat /\ Numbered[level] >= 1
         /\ Table \notin Sequenced => Numbered = request.keys
         /\ \A i \in 1..level : NewRow.keys[i] = Numbered[i]
         /\ Table \in Keyless \ Sequenced => NewRow.keys[level] = NoKey
<1>1. /\ level \in Nat /\ level \in 1..Level(request.table) /\ Level(request.table) \in Nat
      /\ request.table = asked.table
      /\ request.keys \in Seq(KeyValues) /\ Len(request.keys) = Level(request.table)
      /\ Table \in Tables /\ Level(Table) = level /\ at \in Nat
      /\ Path \in Seq(KeyValues) /\ Len(Path) = level
  BY PathFacts
<1>2. Table \in Sequenced => NextNumber(Table, Path) \in Nat /\ NextNumber(Table, Path) >= 1
  BY <1>1, NumberLast DEF ModelInv
<1>3. /\ Numbered \in Seq(KeyValues) /\ Len(Numbered) = Level(request.table)
      /\ \A i \in 1..Level(request.table) : i # level => Numbered[i] = request.keys[i]
      /\ Table \in Sequenced => /\ Numbered[level] = NextNumber(Table, Path)
                                /\ Numbered[level] \in Nat /\ Numbered[level] >= 1
      /\ Table \notin Sequenced => Numbered = request.keys
  <2>1. CASE Table \in Sequenced
    <3>1. Numbered = [request.keys EXCEPT ![level] = NextNumber(Table, Path)]
      BY <2>1 DEF Numbered
    <3>2. NextNumber(Table, Path) \in KeyValues
      BY <1>2, <2>1 DEF KeyValues
    <3> QED BY <1>1, <1>2, <2>1, <3>1, <3>2, ExceptSeq
  <2>2. CASE Table \notin Sequenced
    BY <1>1, <2>2 DEF Numbered
  <2> QED BY <2>1, <2>2
<1>4. \A i \in 1..level : Numbered[i] \in KeyValues
  BY <1>1, <1>3
<1>5. /\ SubSeq(Numbered, 1, level) \in Seq(KeyValues) /\ Len(SubSeq(Numbered, 1, level)) = level
      /\ \A i \in 1..level : SubSeq(Numbered, 1, level)[i] = Numbered[i]
  BY <1>1, <1>3, <1>4, SubSeqProperties
<1>6. FreshId \in Nat
  BY FreshIdFresh DEF ModelInv, RowsInv
<1>7. NewRow \in Row
  BY <1>1, <1>5, <1>6 DEF NewRow, Row
<1>8. Table \in Keyless => request.keys[level] = NoKey
  <2>1. /\ asked \in Requests /\ asked.verb # "DELETE" /\ level \in 1..Level(asked.table)
        /\ Table = Heritage[asked.table][level]
    BY <1>1 DEF ModelInv, GetInv, Table
  <2>2. request.keys[level] = asked.keys[level]
    BY <1>1 DEF ModelInv, GetInv
  <2> QED BY <1>1, <2>1, <2>2, MakerFacts
<1> QED BY <1>1, <1>3, <1>5, <1>7, <1>8 DEF NewRow

\* get_by_params looks before it creates, and numbers what it does not look for:
\* the new row is alone under its keys, and where a row has only one below it.
LEMMA NewRowAlone ==
  ASSUME ModelInv, pc = "get", level <= Level(request.table),
         ~(Looks(Table, Path) /\ Matching(Table, Path) # {}),
         NEW q \in rows, q.table = Table
  PROVE  /\ q.keys # NewRow.keys
         /\ Table \in HasOne => q.parent # at
         /\ Table \in Sequenced /\ q.parent = at => q.keys[level] < NewRow.keys[level]
<1>1. /\ request.table = asked.table /\ asked \in Requests
      /\ level \in Nat /\ level \in 1..Level(request.table)
      /\ Level(request.table) \in Nat /\ request.table \in Tables
      /\ Table \in Tables /\ Level(Table) = level
      /\ AutoLevels(Table) = {j \in AutoLevels(request.table) : j <= level}
      /\ Path \in Seq(KeyValues) /\ Len(Path) = level /\ DOMAIN Path = 1..level
      /\ \A i \in 1..level : Path[i] = request.keys[i]
      /\ \A i \in AutoLevels(Table) : i < level => request.keys[i] # Null
  BY PathFacts
<1>2. /\ NewRow.keys = SubSeq(Numbered, 1, level) /\ Len(NewRow.keys) = level
      /\ \A i \in 1..Level(request.table) : i # level => Numbered[i] = request.keys[i]
      /\ Table \in Sequenced => Numbered[level] = NextNumber(Table, Path)
      /\ Table \notin Sequenced => Numbered = request.keys
      /\ \A i \in 1..level : NewRow.keys[i] = Numbered[i]
  BY NewRowFacts
<1>3. /\ q.keys \in Seq(KeyValues) /\ Len(q.keys) = level /\ DOMAIN q.keys = 1..level
  BY <1>1, RowFacts, LenProperties DEF ModelInv
<1>4. (\A i \in 1..(level - 1) : q.keys[i] = request.keys[i]) => ~Chosen
  <2> SUFFICES ASSUME \A i \in 1..(level - 1) : q.keys[i] = request.keys[i], Chosen PROVE FALSE
    OBVIOUS
  <2>1. level > 1
    <3>1. PICK j \in AutoLevels(request.table) : j < level
      BY DEF Chosen
    <3>2. j \in Nat /\ j >= 1
      BY <1>1, <3>1, TableFacts DEF AutoLevels
    <3> QED BY <1>1, <3>1, <3>2
  <2>2. q.parent = at
    BY <1>1, <2>1, BelowAt
  <2> QED BY <2>2, NothingBelow
<1>5. Table \in HasOne \cup Keyless => (Table \in Keyless /\ AutoLevels(Table) = {}) \/ Chosen
  <2>1. asked.verb # "DELETE" /\ level \in 1..Level(asked.table) /\ Table = Heritage[asked.table][level]
    BY <1>1 DEF ModelInv, GetInv, Table
  <2>2. Table \in HasOne \cup Keyless =>
           \/ Table \in Keyless /\ AutoLevels(Table) = {}
           \/ \E j \in AutoLevels(asked.table) : j < level /\ asked.keys[j] = Null
    BY <1>1, <2>1, MakerFacts
  <2> QED BY <1>1, <2>2 DEF Chosen
<1>6. Table \in Keyless \ Sequenced => NewRow.keys[level] = NoKey
  BY NewRowFacts
<1>7. Table \in Sequenced /\ (\A i \in 1..(level - 1) : q.keys[i] = request.keys[i])
        => q.keys[level] \in Nat /\ q.keys[level] < NewRow.keys[level]
  <2> SUFFICES ASSUME Table \in Sequenced, \A i \in 1..(level - 1) : q.keys[i] = request.keys[i]
               PROVE  q.keys[level] \in Nat /\ q.keys[level] < NewRow.keys[level]
    OBVIOUS
  <2>1. \A i \in 1..(level - 1) : q.keys[i] = Path[i]
    BY <1>1
  <2>2. q.keys[level] \in Nat /\ q.keys[level] < NextNumber(Table, Path)
    BY <1>1, <2>1, NumberLast DEF ModelInv
  <2> QED BY <1>1, <1>2, <2>2
<1>8. q.keys # NewRow.keys
  <2> SUFFICES ASSUME q.keys = NewRow.keys PROVE FALSE
    OBVIOUS
  <2>1. \A i \in 1..(level - 1) : q.keys[i] = request.keys[i]
    BY <1>1, <1>2
  <2>2. ~Chosen
    BY <1>4, <2>1
  <2>3. Table \notin Sequenced
    BY <1>7, <2>1
  <2>4. q \in Matching(Table, Path)
    BY <1>1, <1>2, <1>3, <2>3 DEF Matching
  <2>5. Table \in Keyless => AutoLevels(Table) = {}
    BY <1>5, <2>2
  <2>6. \A i \in AutoLevels(Table) : i < level
    <3>1. /\ Heritage[Table][level] = Table /\ DOMAIN Heritage[Table] = 1..level
      BY <1>1, TableFacts
    <3> QED BY <1>1, <2>3, <3>1 DEF AutoLevels
  <2>7. \A i \in AutoLevels(Table) : Path[i] # Null
    <3> SUFFICES ASSUME NEW i \in AutoLevels(Table) PROVE Path[i] # Null
      OBVIOUS
    <3>1. i < level /\ request.keys[i] # Null
      BY <1>1, <2>6
    <3>2. i \in 1..level
      BY <1>1, TableFacts DEF AutoLevels
    <3> QED BY <1>1, <3>1, <3>2
  <2>8. Looks(Table, Path)
    BY <2>5, <2>7 DEF Looks
  <2> QED BY <2>4, <2>8
<1>9. ASSUME Table \in HasOne PROVE q.parent # at
  <2> SUFFICES ASSUME q.parent = at PROVE FALSE
    OBVIOUS
  <2>1. level > 1
    BY <1>1, <1>9, TableAssumption DEF TableAssumption
  <2>2. \A i \in 1..(level - 1) : q.keys[i] = request.keys[i]
    BY <1>1, <2>1, BelowAt
  <2>3. Table \in Keyless /\ AutoLevels(Table) = {}
    BY <1>4, <1>5, <1>9, <2>2
  <2>4. Table \notin Sequenced
    BY <1>1, <2>3, TableFacts DEF AutoLevels
  <2>5. q.keys[level] = NoKey /\ NewRow.keys[level] = NoKey
    BY <1>1, <1>2, <1>6, <2>3, <2>4 DEF ModelInv, RowsInv
  <2>6. \A i \in 1..level : q.keys[i] = NewRow.keys[i]
    BY <1>1, <1>2, <2>2, <2>4, <2>5
  <2>7. NewRow.keys \in Seq(KeyValues)
    BY NewRowFacts DEF Row
  <2>8. q.keys = NewRow.keys
    BY <1>2, <1>3, <2>6, <2>7, SeqEqual
  <2> QED BY <1>8, <2>8
<1>10. ASSUME Table \in Sequenced, q.parent = at PROVE q.keys[level] < NewRow.keys[level]
  <2>1. \A i \in 1..(level - 1) : q.keys[i] = request.keys[i]
    <3>1. CASE level > 1
      BY <1>10, <3>1, BelowAt
    <3>2. CASE level = 1
      BY <3>2
    <3> QED BY <1>1, <3>1, <3>2
  <2> QED BY <1>7, <1>10, <2>1
<1> QED BY <1>8, <1>9, <1>10

-------------------------------------------------------------------------------
(***************************************************************************)
(* What one statement leaves of the tree                                    *)
(***************************************************************************)
TreeInv == RowsInv /\ NoOrphan /\ RowsDistinct

\* Rows that go with everything below them leave a tree.
LEMMA RowsGo ==
  ASSUME TreeInv, rows' \subseteq rows, refused' = refused,
         \A p \in rows \ rows' : \A x \in Children(p) : x \notin rows'
  PROVE  TreeInv'
<1>1. RowsInv'
  <2>1. IsFiniteSet(rows)
    BY DEF TreeInv, RowsInv
  <2>2. IsFiniteSet(rows')
    BY <2>1, FS_Subset
  <2>3. \E N \in Nat : \A r \in rows' : r.table \in Sequenced => r.keys[Level(r.table)] \in 1..N
    BY DEF TreeInv, RowsInv
  <2>4. /\ rows' \subseteq Row
        /\ \A r \in rows' : /\ Len(r.keys) = Level(r.table)
                            /\ r.table \in Keyless \ Sequenced => r.keys[Level(r.table)] = NoKey
    BY DEF TreeInv, RowsInv
  <2> QED BY <2>2, <2>3, <2>4 DEF RowsInv
<1>2. NoOrphan'
  <2> SUFFICES ASSUME NEW r \in rows', Level(r.table) > 1
               PROVE  \E p \in rows' : r \in Children(p)' /\ p.keys = SubSeq(r.keys, 1, Level(p.table))
    BY DEF NoOrphan
  <2>1. PICK p \in rows : r \in Children(p) /\ p.keys = SubSeq(r.keys, 1, Level(p.table))
    BY DEF TreeInv, NoOrphan
  <2>2. p \in rows' /\ r \in Children(p)'
    BY <2>1 DEF Children
  <2> QED BY <2>1, <2>2
<1>3. RowsDistinct'
  BY DEF TreeInv, RowsDistinct
<1> QED BY <1>1, <1>2, <1>3 DEF TreeInv

\* What belongs to r or to a row below it is below r.
LEMMA ChildBelow ==
  ASSUME TreeInv, NEW r \in rows, NEW p \in rows, NEW x \in Children(p),
         p = r \/ (Level(p.table) > Level(r.table) /\ Heritage[p.table][Level(r.table)] = r.table)
  PROVE  x \in rows /\ Level(x.table) > Level(r.table) /\ Heritage[x.table][Level(r.table)] = r.table
<1>1. /\ x \in rows /\ x.table \in Tables /\ Level(x.table) > 1 /\ p.table = Parent(x.table)
  BY RowFacts DEF Children, TreeInv
<1>2. /\ Level(x.table) \in Nat /\ Level(p.table) = Level(x.table) - 1
      /\ Level(r.table) \in Nat /\ Level(r.table) >= 1 /\ r.table \in Tables
  BY <1>1, TableFacts, RowFacts DEF TreeInv
<1>3. Level(r.table) <= Level(p.table) /\ Heritage[p.table][Level(r.table)] = r.table
  BY <1>2, TableFacts
<1>4. Heritage[x.table][Level(r.table)] = Heritage[p.table][Level(r.table)]
  <2>1. Level(p.table) \in 1..Level(x.table) /\ Heritage[x.table][Level(p.table)] = p.table
    BY <1>1, <1>2, <1>3 DEF Parent
  <2>2. Level(r.table) \in 1..Level(p.table)
    BY <1>2, <1>3
  <2> QED BY <1>1, <2>1, <2>2, TableFacts
<1> QED BY <1>1, <1>2, <1>3, <1>4

\* Of every row in it the cascade takes along all that belong to it: dependent:
\* :destroy of a has_one loads one row, and there is only one.
LEMMA CascadeDown ==
  ASSUME TreeInv, NEW r \in rows, NEW p \in Cascade(r), NEW x \in Children(p)
  PROVE  p \in rows /\ x \in Cascade(r)
<1> DEFINE lower  == {q \in rows : Level(q.table) > Level(r.table) /\ Heritage[q.table][Level(r.table)] = r.table}
           below  == [o \in lower \cup {r} |-> Dependents(o)]
           closed == {set \in SUBSET lower : \A o \in set \cup {r} : below[o] \subseteq set}
<1>1. Cascade(r) = {r} \cup {q \in lower : \A set \in closed : q \in set}
  BY DEF Cascade
<1>2. p \in lower \cup {r} /\ p \in rows
  BY <1>1
<1>3. /\ x \in rows /\ x.table \in Tables /\ Level(x.table) > 1 /\ p.table = Parent(x.table)
      /\ x.parent = p.id
  BY RowFacts DEF Children, TreeInv
<1>4. x \in Dependents(p)
  <2> SUFFICES ASSUME x.table \in HasOne, NEW q \in Children(p), q.table = x.table
               PROVE  x.id <= q.id
    BY DEF Dependents
  <2>1. q \in rows /\ q.parent = x.parent
    BY <1>3 DEF Children
  <2>2. q = x
    BY <1>3, <2>1 DEF TreeInv, RowsDistinct
  <2> QED BY <1>3, <2>2, RowFacts DEF TreeInv
<1>5. x \in lower
  BY <1>2, ChildBelow
<1>6. ASSUME NEW set \in closed PROVE x \in set
  <2>1. p \in set \cup {r}
    BY <1>1
  <2>2. below[p] = Dependents(p)
    BY <1>2
  <2>3. below[p] \subseteq set
    BY <2>1
  <2> QED BY <1>4, <2>2, <2>3
<1> QED BY <1>1, <1>2, <1>5, <1>6

\* And it takes nothing else: what goes belongs to r, or to something that goes.
LEMMA CascadeUp ==
  ASSUME TreeInv, NEW r \in rows, NEW x \in Cascade(r), x # r, NEW p \in rows, x \in Children(p)
  PROVE  p \in Cascade(r)
<1> DEFINE lower  == {q \in rows : Level(q.table) > Level(r.table) /\ Heritage[q.table][Level(r.table)] = r.table}
           below  == [o \in lower \cup {r} |-> Dependents(o)]
           closed == {set \in SUBSET lower : \A o \in set \cup {r} : below[o] \subseteq set}
           least  == {q \in lower : \A set \in closed : q \in set}
           rest   == least \ {x}
<1>1. Cascade(r) = {r} \cup least
  BY DEF Cascade
<1>2. \A o \in lower \cup {r} : below[o] = Dependents(o) /\ Dependents(o) \subseteq Children(o)
  BY DEF Dependents
<1>3. \A o \in lower \cup {r} : below[o] \subseteq lower
  <2> SUFFICES ASSUME NEW o \in lower \cup {r}, NEW c \in Children(o) PROVE c \in lower
    BY <1>2
  <2> QED BY ChildBelow
<1>4. lower \in closed
  BY <1>3
<1> HIDE DEF below
<1>5. \A o \in least \cup {r} : below[o] \subseteq least
  <2> SUFFICES ASSUME NEW o \in least \cup {r}, NEW c \in below[o] PROVE c \in least
    OBVIOUS
  <2>1. c \in lower
    BY <1>3
  <2>2. \A set \in closed : c \in set
    OBVIOUS
  <2> QED BY <2>1, <2>2
<1>6. SUFFICES ASSUME p \notin Cascade(r) PROVE FALSE
  OBVIOUS
<1>7. \A o \in rest \cup {r} : below[o] \subseteq rest
  <2> SUFFICES ASSUME NEW o \in rest \cup {r}, x \in below[o] PROVE FALSE
    BY <1>5
  <2>1. o \in lower \cup {r} /\ o \in rows /\ o \in Cascade(r)
    BY <1>1
  <2>2. x \in Children(o)
    BY <1>2, <2>1
  <2>3. o.table = p.table /\ o.id = p.id
    BY <2>2 DEF Children
  <2>4. o = p
    BY <2>1, <2>3 DEF TreeInv, RowsDistinct
  <2> QED BY <1>6, <2>1, <2>4
<1>8. rest \in closed
  BY <1>7
<1>9. x \in least
  BY <1>1
<1> QED BY <1>8, <1>9

-------------------------------------------------------------------------------
(***************************************************************************)
(* The steps                                                                *)
(***************************************************************************)
LEMMA ModelInit == Init => ModelInv
<1> SUFFICES ASSUME Init PROVE ModelInv
  OBVIOUS
<1>1. rows = {} /\ pc = "idle" /\ stops = 0 /\ refused = FALSE /\ at = 0 /\ level = 1
  BY DEF Init
<1>2. RowsInv
  <2>1. IsFiniteSet({})
    BY FS_EmptySet
  <2>2. 0 \in Nat
    OBVIOUS
  <2> QED BY <1>1, <2>1, <2>2 DEF RowsInv
<1> QED BY <1>1, <1>2 DEF ModelInv, NoOrphan, RowsDistinct, GetInv, FindInv

LEMMA ArriveStep == ModelInv /\ (\E q \in Requests : Arrive(q)) => ModelInv'
<1> SUFFICES ASSUME ModelInv, NEW q \in Requests, Arrive(q) PROVE ModelInv'
  OBVIOUS
<1>1. /\ pc = "idle" /\ pc' = IF q.verb = "DELETE" THEN "find" ELSE "get"
      /\ request' = q /\ asked' = q
      /\ UNCHANGED <<rows, at, level, stops, refused>>
  BY DEF Arrive
<1>2. /\ q = [verb |-> q.verb, table |-> q.table, keys |-> q.keys, attr |-> q.attr]
      /\ q.table \in Tables /\ q.keys \in Seq(KeyValues) /\ Len(q.keys) = Level(q.table)
      /\ Level(q.table) \in Nat /\ Level(q.table) >= 1
  BY RequestFacts, TableFacts
<1>3. at = 0 /\ level = 1
  BY <1>1 DEF ModelInv, FindInv
<1>4. GetInv'
  <2> SUFFICES ASSUME q.verb # "DELETE" PROVE GetInv'
    BY <1>1 DEF GetInv
  <2>1. q = [q EXCEPT !.keys = q.keys]
    BY <1>2
  <2> QED BY <1>1, <1>2, <1>3, <2>1 DEF GetInv
<1>5. FindInv'
  BY <1>1 DEF FindInv
<1>6. RowsInv' /\ NoOrphan' /\ RowsDistinct'
  BY <1>1 DEF ModelInv, RowsInv, NoOrphan, Children, RowsDistinct
<1> QED BY <1>1, <1>4, <1>5, <1>6 DEF ModelInv

\* A request that is over, at whichever statement, leaves the tree as it is.
LEMMA DoneStep ==
  ASSUME ModelInv, Done, TreeInv', stops' \in Nat
  PROVE  ModelInv'
BY DEF Done, TreeInv, ModelInv, GetInv, FindInv

LEMMA GetStep == ModelInv /\ Get => ModelInv'
<1> SUFFICES ASSUME ModelInv, Get PROVE ModelInv'
  OBVIOUS
<1>1. /\ pc = "get" /\ level <= Level(request.table) /\ Looks(Table, Path)
      /\ level' = level + 1
      /\ UNCHANGED <<rows, pc, request, asked, stops, refused>>
  BY DEF Get
<1>2. PICK r \in Matching(Table, Path) : at' = r.id
  BY DEF Get
<1>3. /\ request.table = asked.table /\ request.table \in Tables /\ asked \in Requests
      /\ level \in Nat /\ level \in 1..Level(request.table) /\ Level(request.table) \in Nat
      /\ request.keys \in Seq(KeyValues) /\ Len(request.keys) = Level(request.table)
      /\ Table \in Tables /\ Level(Table) = level
      /\ level > 1 => Parent(Table) = Above
      /\ AutoLevels(Table) = {j \in AutoLevels(request.table) : j <= level}
      /\ Path \in Seq(KeyValues) /\ Len(Path) = level
      /\ \A i \in 1..level : Path[i] = request.keys[i]
  BY <1>1, PathFacts
<1>4. /\ r \in rows /\ r.table = Table /\ r.id \in Nat
      /\ r.keys \in Seq(KeyValues) /\ Len(r.keys) = level /\ DOMAIN r.keys = 1..level
      /\ \A i \in DOMAIN r.keys : r.keys[i] = Path[i] \/ (i \in AutoLevels(Table) /\ Path[i] = Null)
  <2>1. r \in rows /\ r.table = Table
    BY DEF Matching
  <2> QED BY <1>3, <2>1, RowFacts, LenProperties DEF Matching, ModelInv
<1>5. \A i \in AutoLevels(Table) : Path[i] # Null
  BY <1>1 DEF Looks
<1>6. \A i \in 1..level : r.keys[i] = Path[i]
  BY <1>4, <1>5
<1>7. r.keys = SubSeq(request.keys, 1, level)
  BY <1>3, <1>4, <1>6, SeqEqual DEF Path
<1>8. \A i \in 1..(level - 1) : r.keys[i] = request.keys[i]
  BY <1>3, <1>6
<1>9. ~Chosen
  <2> SUFFICES ASSUME Chosen PROVE FALSE
    OBVIOUS
  <2>1. level > 1
    <3>1. PICK j \in AutoLevels(request.table) : j < level
      BY DEF Chosen
    <3>2. j \in Nat /\ j >= 1
      BY <1>3, <3>1, TableFacts DEF AutoLevels
    <3> QED BY <1>3, <3>1, <3>2
  <2>2. r.parent = at
    BY <1>1, <1>4, <1>8, <2>1, BelowAt
  <2> QED BY <1>1, <1>4, <2>2, NothingBelow
<1>10. request.keys[level] = asked.keys[level]
  BY <1>1, <1>3 DEF ModelInv, GetInv
<1>11. level \in AutoLevels(request.table) => asked.keys[level] # Null
  BY <1>3, <1>5, <1>10
<1>12. ~Chosen'
  <2> SUFFICES ASSUME NEW j \in AutoLevels(request.table), j < level + 1, asked.keys[j] = Null
               PROVE  FALSE
    BY <1>1 DEF Chosen
  <2>1. j \in Nat
    BY <1>3, TableFacts DEF AutoLevels
  <2>2. j < level \/ j = level
    BY <1>3, <2>1
  <2> QED BY <1>9, <1>11, <2>2 DEF Chosen
<1>13. GetInv'
  <2>1. Above' = Table
    BY <1>1, <1>3 DEF Above, Table
  <2>2. \E p \in rows' : p.table = Above' /\ p.id = at' /\ p.keys = SubSeq(request'.keys, 1, level' - 1)
    BY <1>1, <1>2, <1>3, <1>4, <1>7, <2>1
  <2>3. at' \in Nat /\ level' \in 1..(Level(request.table) + 1)
    BY <1>1, <1>2, <1>3, <1>4
  <2>4. \A i \in 1..Level(request.table) :
          \/ request.keys[i] = asked.keys[i] /\ (i < level' /\ i \in AutoLevels(request.table) => asked.keys[i] # Null)
          \/ i < level' /\ i \in AutoLevels(request.table) /\ request.keys[i] \in Nat
    <3> SUFFICES ASSUME NEW i \in 1..Level(request.table)
                 PROVE  \/ request.keys[i] = asked.keys[i] /\ (i < level' /\ i \in AutoLevels(request.table) => asked.keys[i] # Null)
                        \/ i < level' /\ i \in AutoLevels(request.table) /\ request.keys[i] \in Nat
      OBVIOUS
    <3>1. \/ request.keys[i] = asked.keys[i] /\ (i < level /\ i \in AutoLevels(request.table) => asked.keys[i] # Null)
          \/ i < level /\ i \in AutoLevels(request.table) /\ request.keys[i] \in Nat
      BY <1>1 DEF ModelInv, GetInv
    <3>2. i < level' => i < level \/ i = level
      BY <1>1, <1>3
    <3>3. i < level => i < level'
      BY <1>1, <1>3
    <3> QED BY <1>11, <3>1, <3>2, <3>3
  <2>5. asked \in Requests /\ asked.verb # "DELETE" /\ request = [asked EXCEPT !.keys = request.keys]
    BY <1>1 DEF ModelInv, GetInv
  <2> QED BY <1>1, <1>3, <1>12, <2>2, <2>3, <2>4, <2>5 DEF GetInv
<1>14. FindInv'
  BY <1>1 DEF FindInv
<1>15. RowsInv' /\ NoOrphan' /\ RowsDistinct'
  BY <1>1 DEF ModelInv, RowsInv, NoOrphan, Children, RowsDistinct
<1> QED BY <1>1, <1>13, <1>14, <1>15 DEF ModelInv

\* No request meets the unique index.
LEMMA Created ==
  ASSUME ModelInv, Create
  PROVE  /\ pc = "get" /\ level <= Level(request.table)
         /\ ~(Looks(Table, Path) /\ Matching(Table, Path) # {})
         /\ rows' = rows \cup {NewRow} /\ request' = [request EXCEPT !.keys = Numbered]
         /\ at' = NewRow.id /\ level' = level + 1
         /\ UNCHANGED <<pc, asked, stops, refused>>
<1>1. /\ pc = "get" /\ level <= Level(request.table)
      /\ ~(Looks(Table, Path) /\ Matching(Table, Path) # {})
  BY DEF Create
<1>2. \A r \in rows : r.table = Table => r.keys # NewRow.keys
  BY <1>1, NewRowAlone
<1>3. ~(\E r \in rows : r.table = Table /\ r.keys = NewRow.keys /\ Table \notin Keyless)
  BY <1>2
<1> QED BY <1>1, <1>3 DEF Create

LEMMA CreateStep == ModelInv /\ Create => ModelInv'
<1> SUFFICES ASSUME ModelInv, Create PROVE ModelInv'
  OBVIOUS
<1>1. /\ pc = "get" /\ level <= Level(request.table)
      /\ ~(Looks(Table, Path) /\ Matching(Table, Path) # {})
      /\ rows' = rows \cup {NewRow} /\ request' = [request EXCEPT !.keys = Numbered]
      /\ at' = NewRow.id /\ level' = level + 1
      /\ UNCHANGED <<pc, asked, stops, refused>>
  BY Created
<1>2. /\ request.table = asked.table /\ request.table \in Tables /\ asked \in Requests
      /\ level \in Nat /\ level \in 1..Level(request.table) /\ Level(request.table) \in Nat
      /\ request.keys \in Seq(KeyValues) /\ Len(request.keys) = Level(request.table)
      /\ Table \in Tables /\ Level(Table) = level
      /\ level > 1 => Parent(Table) = Above
      /\ AutoLevels(Table) = {j \in AutoLevels(request.table) : j <= level}
  BY <1>1, PathFacts
<1>3. /\ NewRow \in Row /\ NewRow.table = Table /\ NewRow.parent = at /\ NewRow.id = FreshId
      /\ NewRow.keys = SubSeq(Numbered, 1, level) /\ Len(NewRow.keys) = level
      /\ Numbered \in Seq(KeyValues) /\ Len(Numbered) = Level(request.table)
      /\ \A i \in 1..Level(request.table) : i # level => Numbered[i] = request.keys[i]
      /\ Table \in Sequenced => Numbered[level] \in Nat /\ Numbered[level] >= 1
      /\ Table \notin Sequenced => Numbered = request.keys
      /\ \A i \in 1..level : NewRow.keys[i] = Numbered[i]
      /\ Table \in Keyless \ Sequenced => NewRow.keys[level] = NoKey
  BY <1>1, NewRowFacts
<1>4. FreshId \in Nat /\ \A r \in rows : r.id # FreshId
  BY FreshIdFresh DEF ModelInv, RowsInv
<1>5. RowsInv'
  <2>1. IsFiniteSet(rows') /\ rows' \subseteq Row
    BY <1>1, <1>3, FS_AddElement DEF ModelInv, RowsInv
  <2>2. \A r \in rows' : /\ Len(r.keys) = Level(r.table)
                         /\ r.table \in Keyless \ Sequenced => r.keys[Level(r.table)] = NoKey
    BY <1>1, <1>2, <1>3 DEF ModelInv, RowsInv
  <2>3. PICK N \in Nat : \A r \in rows : r.table \in Sequenced => r.keys[Level(r.table)] \in 1..N
    BY DEF ModelInv, RowsInv
  <2>4. CASE Table \notin Sequenced
    <3>1. \A r \in rows' : r.table \in Sequenced => r.keys[Level(r.table)] \in 1..N
      BY <1>1, <1>3, <2>3, <2>4
    <3> QED BY <2>1, <2>2, <3>1 DEF RowsInv
  <2>5. CASE Table \in Sequenced
    <3> DEFINE M == N + Numbered[level]
    <3>1. M \in Nat /\ 1..N \subseteq 1..M /\ Numbered[level] \in 1..M
      BY <1>3, <2>5
    <3>2. NewRow.keys[Level(NewRow.table)] = Numbered[level]
      BY <1>2, <1>3
    <3> HIDE DEF M
    <3>3. \A r \in rows' : r.table \in Sequenced => r.keys[Level(r.table)] \in 1..M
      BY <1>1, <2>3, <3>1, <3>2
    <3> QED BY <2>1, <2>2, <3>1, <3>3 DEF RowsInv
  <2> QED BY <2>4, <2>5
<1>6. NoOrphan'
  <2> SUFFICES ASSUME NEW r \in rows', Level(r.table) > 1
               PROVE  \E p \in rows' : r \in Children(p)' /\ p.keys = SubSeq(r.keys, 1, Level(p.table))
    BY DEF NoOrphan
  <2>1. CASE r \in rows
    <3>1. PICK p \in rows : r \in Children(p) /\ p.keys = SubSeq(r.keys, 1, Level(p.table))
      BY <2>1 DEF ModelInv, NoOrphan
    <3>2. p \in rows' /\ r \in Children(p)'
      BY <1>1, <3>1 DEF Children
    <3> QED BY <3>1, <3>2
  <2>2. CASE r = NewRow
    <3>1. level > 1
      BY <1>2, <1>3, <2>2
    <3>2. PICK p \in rows : /\ p.table = Above /\ p.id = at
                            /\ p.keys = SubSeq(request.keys, 1, level - 1)
      BY <1>1, <3>1 DEF ModelInv, GetInv
    <3>3. Level(p.table) = level - 1
      BY <1>2, <3>1, <3>2, LevelFacts DEF Above
    <3>4. r \in Children(p)'
      BY <1>1, <1>2, <1>3, <2>2, <3>1, <3>2 DEF Children
    <3>5. \A i \in 1..(level - 1) : r.keys[i] = request.keys[i]
      BY <1>2, <1>3, <2>2
    <3>6. p.keys = SubSeq(r.keys, 1, level - 1)
      <4>1. /\ r.keys \in Seq(KeyValues) /\ Len(r.keys) = level
            /\ \A i \in 1..(level - 1) : r.keys[i] \in KeyValues /\ request.keys[i] \in KeyValues
        BY <1>2, <1>3, <2>2 DEF Row
      <4>2. /\ SubSeq(r.keys, 1, level - 1) \in Seq(KeyValues)
            /\ Len(SubSeq(r.keys, 1, level - 1)) = level - 1
            /\ \A i \in 1..(level - 1) : SubSeq(r.keys, 1, level - 1)[i] = r.keys[i]
        BY <1>2, <4>1, SubSeqProperties
      <4>3. /\ p.keys \in Seq(KeyValues) /\ Len(p.keys) = level - 1
            /\ \A i \in 1..(level - 1) : p.keys[i] = request.keys[i]
        BY <1>2, <3>2, <4>1, SubSeqProperties
      <4> QED BY <3>5, <4>2, <4>3, SeqEqual
    <3> QED BY <1>1, <3>2, <3>3, <3>4, <3>6
  <2> QED BY <1>1, <2>1, <2>2
<1>7. RowsDistinct'
  <2>1. ASSUME NEW q \in rows, q.table = NewRow.table
        PROVE  /\ q.id # NewRow.id /\ q.keys # NewRow.keys
               /\ q.table \in HasOne => q.parent # NewRow.parent
    BY <1>1, <1>3, <1>4, <2>1, NewRowAlone
  <2> QED BY <1>1, <2>1 DEF ModelInv, RowsDistinct
<1>8. GetInv'
  <2>1. /\ asked \in Requests /\ asked.verb # "DELETE"
        /\ request = [asked EXCEPT !.keys = request.keys]
        /\ asked = [verb |-> asked.verb, table |-> asked.table, keys |-> asked.keys, attr |-> asked.attr]
    BY <1>1, RequestFacts DEF ModelInv, GetInv
  <2>2. request' = [asked EXCEPT !.keys = Numbered] /\ request'.keys = Numbered /\ request'.table = request.table
    BY <1>1, <2>1
  <2>3. Above' = Table
    BY <1>1, <1>2, <2>2 DEF Above, Table
  <2>4. \E p \in rows' : p.table = Above' /\ p.id = at' /\ p.keys = SubSeq(request'.keys, 1, level' - 1)
    <3>1. level' - 1 = level
      BY <1>1, <1>2
    <3> QED BY <1>1, <1>3, <2>2, <2>3, <3>1
  <2>5. ASSUME NEW r \in rows', Level(r.table) = level', Parent(r.table) = Table PROVE r.parent # at'
    <3>1. r # NewRow /\ r \in rows /\ Level(r.table) > 1
      BY <1>1, <1>2, <1>3, <2>5
    <3>2. PICK o \in rows : r \in Children(o)
      BY <3>1 DEF ModelInv, NoOrphan
    <3> QED BY <1>1, <1>3, <1>4, <3>2 DEF Children
  <2>6. \A i \in 1..Level(request.table) :
          \/ Numbered[i] = asked.keys[i] /\ (i < level' /\ i \in AutoLevels(request.table) => asked.keys[i] # Null)
          \/ i < level' /\ i \in AutoLevels(request.table) /\ Numbered[i] \in Nat
    <3> SUFFICES ASSUME NEW i \in 1..Level(request.table)
                 PROVE  \/ Numbered[i] = asked.keys[i] /\ (i < level' /\ i \in AutoLevels(request.table) => asked.keys[i] # Null)
                        \/ i < level' /\ i \in AutoLevels(request.table) /\ Numbered[i] \in Nat
      OBVIOUS
    <3>1. \/ request.keys[i] = asked.keys[i] /\ (i < level /\ i \in AutoLevels(request.table) => asked.keys[i] # Null)
          \/ i < level /\ i \in AutoLevels(request.table) /\ request.keys[i] \in Nat
      BY <1>1 DEF ModelInv, GetInv
    <3>2. CASE i # level
      <4>1. (i < level' <=> i < level) /\ Numbered[i] = request.keys[i]
        BY <1>1, <1>2, <1>3, <3>2
      <4> QED BY <3>1, <4>1
    <3>3. CASE i = level
      <4>1. level \in AutoLevels(request.table) <=> Table \in Sequenced
        BY <1>2, TableFacts DEF AutoLevels, Table
      <4>2. i < level'
        BY <1>1, <1>2, <3>3
      <4> QED BY <1>2, <1>3, <3>1, <3>3, <4>1, <4>2
    <3> QED BY <3>2, <3>3
  <2>7. at' \in Nat /\ level' \in 1..(Level(request.table) + 1)
    BY <1>1, <1>2, <1>3, <1>4
  <2> QED BY <1>1, <1>2, <1>3, <2>1, <2>2, <2>3, <2>4, <2>5, <2>6, <2>7 DEF GetInv
<1>9. FindInv'
  BY <1>1 DEF FindInv
<1> QED BY <1>1, <1>5, <1>6, <1>7, <1>8, <1>9 DEF ModelInv

\* update_by_keys: the rows stay what they are but for the attributes of one.
LEMMA AnsweredRows ==
  ASSUME ModelInv, Answered
  PROVE  /\ \A s \in rows' : \E r \in rows : /\ s.table = r.table /\ s.id = r.id
                                             /\ s.parent = r.parent /\ s.keys = r.keys
         /\ \A r \in rows : \E s \in rows' : /\ s.table = r.table /\ s.id = r.id
                                             /\ s.parent = r.parent /\ s.keys = r.keys
         /\ rows' \subseteq Row /\ IsFiniteSet(rows')
<1> DEFINE F(r) == IF Updates /\ r.table = request.table /\ r.id = at
                   THEN [r EXCEPT !.attr = request.attr] ELSE r
           f    == [r \in rows |-> F(r)]
<1>1. pc = "get" /\ rows' = {F(r) : r \in rows}
  BY DEF Answered
<1>2. request.attr \in {q.attr : q \in Requests}
  <2>1. asked \in Requests /\ request = [asked EXCEPT !.keys = request.keys]
    BY <1>1 DEF ModelInv, GetInv
  <2>2. asked = [verb |-> asked.verb, table |-> asked.table, keys |-> asked.keys, attr |-> asked.attr]
    BY <2>1, RequestFacts
  <2>3. request.attr = asked.attr
    BY <2>1, <2>2
  <2> QED BY <2>1, <2>3
<1>3. ASSUME NEW r \in rows
      PROVE  /\ F(r) \in Row /\ F(r).table = r.table /\ F(r).id = r.id
             /\ F(r).parent = r.parent /\ F(r).keys = r.keys
  <2>1. r \in Row
    BY DEF ModelInv, RowsInv
  <2> QED BY <1>2, <2>1 DEF Row
<1>4. IsFiniteSet(rows')
  <2>1. f \in Surjection(rows, rows')
    BY <1>1 DEF Surjection
  <2>2. IsFiniteSet(rows)
    BY DEF ModelInv, RowsInv
  <2> HIDE DEF f
  <2> QED BY <2>1, <2>2, FS_Surjection
<1> HIDE DEF F
<1> QED BY <1>1, <1>3, <1>4

LEMMA AnsweredStep == ModelInv /\ Answered => ModelInv'
<1> SUFFICES ASSUME ModelInv, Answered PROVE ModelInv'
  OBVIOUS
<1>1. Done /\ stops' = stops /\ refused' = refused
  BY DEF Answered
<1>2. /\ \A s \in rows' : \E r \in rows : /\ s.table = r.table /\ s.id = r.id
                                          /\ s.parent = r.parent /\ s.keys = r.keys
      /\ \A r \in rows : \E s \in rows' : /\ s.table = r.table /\ s.id = r.id
                                          /\ s.parent = r.parent /\ s.keys = r.keys
      /\ rows' \subseteq Row /\ IsFiniteSet(rows')
  BY AnsweredRows
<1>3. RowsInv'
  <2>1. \A s \in rows' : /\ Len(s.keys) = Level(s.table)
                         /\ s.table \in Keyless \ Sequenced => s.keys[Level(s.table)] = NoKey
    BY <1>2 DEF ModelInv, RowsInv
  <2>2. PICK N \in Nat : \A r \in rows : r.table \in Sequenced => r.keys[Level(r.table)] \in 1..N
    BY DEF ModelInv, RowsInv
  <2>3. \A s \in rows' : s.table \in Sequenced => s.keys[Level(s.table)] \in 1..N
    BY <1>2, <2>2
  <2> QED BY <1>2, <2>1, <2>2, <2>3 DEF RowsInv
<1>4. NoOrphan'
  <2> SUFFICES ASSUME NEW s \in rows', Level(s.table) > 1
               PROVE  \E p \in rows' : s \in Children(p)' /\ p.keys = SubSeq(s.keys, 1, Level(p.table))
    BY DEF NoOrphan
  <2>1. PICK r \in rows : s.table = r.table /\ s.parent = r.parent /\ s.keys = r.keys
    BY <1>2
  <2>2. PICK o \in rows : r \in Children(o) /\ o.keys = SubSeq(r.keys, 1, Level(o.table))
    BY <2>1 DEF ModelInv, NoOrphan
  <2>3. PICK p \in rows' : p.table = o.table /\ p.id = o.id /\ p.keys = o.keys
    BY <1>2
  <2>4. s \in Children(p)'
    BY <2>1, <2>2, <2>3 DEF Children
  <2> QED BY <2>1, <2>2, <2>3, <2>4
<1>5. RowsDistinct'
  <2>1. refused' = FALSE
    BY <1>1 DEF ModelInv, RowsDistinct
  <2> DEFINE F(r) == IF Updates /\ r.table = request.table /\ r.id = at
                     THEN [r EXCEPT !.attr = request.attr] ELSE r
  <2>2. rows' = {F(r) : r \in rows}
    BY DEF Answered
  <2>3. \A r \in rows : /\ F(r).table = r.table /\ F(r).id = r.id
                        /\ F(r).parent = r.parent /\ F(r).keys = r.keys
    <3> SUFFICES ASSUME NEW r \in rows
                 PROVE  F(r).table = r.table /\ F(r).id = r.id /\ F(r).parent = r.parent /\ F(r).keys = r.keys
      OBVIOUS
    <3>1. r \in Row
      BY DEF ModelInv, RowsInv
    <3> QED BY <3>1 DEF Row
  <2> HIDE DEF F
  <2> QED BY <2>1, <2>2, <2>3 DEF ModelInv, RowsDistinct
<1> QED BY <1>1, <1>3, <1>4, <1>5, DoneStep DEF TreeInv, ModelInv

LEMMA DestroyStep == ModelInv /\ Destroy => ModelInv'
<1> SUFFICES ASSUME ModelInv, Destroy PROVE ModelInv'
  OBVIOUS
<1>1. pc = "find" /\ request \in Requests /\ stops' = stops /\ refused' = refused
  BY DEF Destroy, ModelInv, FindInv
<1>2. PICK r \in Matching(request.table, request.keys) :
        /\ rows' = rows \ Cascade(r)
        /\ IF Sweeps(r.table)
           THEN pc' = "upon" /\ at' = r.parent /\ level' = Level(r.table) - 1
                /\ UNCHANGED <<request, asked, before>>
           ELSE Done
  BY DEF Destroy
<1>3. r \in rows /\ r.table = request.table
  BY DEF Matching
<1>4. TreeInv'
  <2>1. TreeInv
    BY DEF ModelInv, TreeInv
  <2>2. \A p \in rows \ rows' : \A x \in Children(p) : x \notin rows'
    BY <1>2, <1>3, <2>1, CascadeDown
  <2> QED BY <1>1, <1>2, <2>1, <2>2, RowsGo
<1>5. CASE Sweeps(r.table)
  <2>1. Level(r.table) \in Nat /\ Level(r.table) > 1 /\ r.parent \in Nat
    BY <1>3, <1>5, RowFacts, TableAssumption DEF Sweeps, TableAssumption, ModelInv
  <2> QED BY <1>1, <1>2, <1>3, <1>4, <1>5, <2>1 DEF ModelInv, TreeInv, GetInv, FindInv
<1>6. CASE ~Sweeps(r.table)
  BY <1>1, <1>2, <1>4, <1>6, DoneStep DEF ModelInv
<1> QED BY <1>5, <1>6

LEMMA DestroyUponStep == ModelInv /\ DestroyUpon => ModelInv'
<1> SUFFICES ASSUME ModelInv, DestroyUpon PROVE ModelInv'
  OBVIOUS
<1>1. /\ pc = "upon" /\ request \in Requests /\ level \in 1..Level(request.table)
      /\ stops' = stops /\ refused' = refused
  BY DEF DestroyUpon, ModelInv, FindInv
<1>2. PICK p \in rows :
        /\ p.table = Table /\ p.id = at
        /\ rows' = IF Empty(p) THEN rows \ {p} ELSE rows
        /\ IF Empty(p) /\ Sweeps(p.table)
           THEN at' = p.parent /\ level' = level - 1 /\ UNCHANGED <<pc, request, asked, before>>
           ELSE Done
  BY DEF DestroyUpon
<1>3. TreeInv'
  <2>1. TreeInv
    BY DEF ModelInv, TreeInv
  <2>2. \A o \in rows \ rows' : \A x \in Children(o) : x \notin rows'
    BY <1>2 DEF Empty
  <2> QED BY <1>1, <1>2, <2>1, <2>2, RowsGo
<1>4. CASE Empty(p) /\ Sweeps(p.table)
  <2>1. Level(Table) = level /\ Level(request.table) \in Nat
    BY <1>1, RequestFacts, TableFacts, LevelFacts DEF Table
  <2>2. level > 1 /\ p.parent \in Nat
    BY <1>2, <1>4, <2>1, RowFacts, TableAssumption DEF Sweeps, TableAssumption, ModelInv
  <2>3. level - 1 \in 1..Level(request.table)
    BY <1>1, <2>1, <2>2
  <2> QED BY <1>1, <1>2, <1>3, <1>4, <2>2, <2>3 DEF ModelInv, TreeInv, GetInv, FindInv
<1>5. CASE ~(Empty(p) /\ Sweeps(p.table))
  BY <1>1, <1>2, <1>3, <1>5, DoneStep DEF ModelInv
<1> QED BY <1>4, <1>5

LEMMA EndStep == ModelInv /\ (NotFound \/ Crash) => ModelInv'
<1> SUFFICES ASSUME ModelInv, NotFound \/ Crash PROVE ModelInv'
  OBVIOUS
<1>1. Done /\ rows' = rows /\ refused' = refused /\ stops' \in Nat
  BY DEF NotFound, Crash, ModelInv
<1>2. TreeInv'
  BY <1>1 DEF ModelInv, TreeInv, RowsInv, NoOrphan, Children, RowsDistinct
<1> QED BY <1>1, <1>2, DoneStep

LEMMA ModelStep == ModelInv /\ [Next]_vars => ModelInv'
<1> SUFFICES ASSUME ModelInv, [Next]_vars PROVE ModelInv'
  OBVIOUS
<1>1. CASE \E q \in Requests : Arrive(q)
  BY <1>1, ArriveStep
<1>2. CASE Get
  BY <1>2, GetStep
<1>3. CASE Create
  BY <1>3, CreateStep
<1>4. CASE Answered
  BY <1>4, AnsweredStep
<1>5. CASE Destroy
  BY <1>5, DestroyStep
<1>6. CASE DestroyUpon
  BY <1>6, DestroyUponStep
<1>7. CASE NotFound \/ Crash
  BY <1>7, EndStep
<1>8. CASE UNCHANGED vars
  BY <1>8 DEF vars, ModelInv, RowsInv, NoOrphan, Children, RowsDistinct, GetInv, Above, Chosen, FindInv
<1> QED BY <1>1, <1>2, <1>3, <1>4, <1>5, <1>6, <1>7, <1>8 DEF Next, Serve

-------------------------------------------------------------------------------
(***************************************************************************)
(* Containers                                                               *)
(***************************************************************************)
\* The row that Get finds belongs to the row the request is at.
LEMMA FoundBelow ==
  ASSUME ModelInv, pc = "get", level <= Level(request.table), level > 1,
         Looks(Table, Path), NEW r \in Matching(Table, Path)
  PROVE  r \in rows /\ r.table = Table /\ r.parent = at
<1>1. /\ Table \in Tables /\ Level(Table) = level /\ level \in Nat
      /\ \A i \in 1..level : Path[i] = request.keys[i]
  BY PathFacts
<1>2. r \in rows /\ r.table = Table
  BY DEF Matching
<1>3. DOMAIN r.keys = 1..level
  BY <1>1, <1>2, RowFacts, LenProperties DEF ModelInv
<1>4. \A i \in AutoLevels(Table) : Path[i] # Null
  BY DEF Looks
<1>5. \A i \in 1..(level - 1) : r.keys[i] = request.keys[i]
  BY <1>1, <1>3, <1>4 DEF Matching
<1> QED BY <1>2, <1>5, BelowAt

\* No container is left without a row that is accounted for.
LEMMA AccountedStep ==
  ASSUME ModelInv, Accounted, [Next]_vars
  PROVE  Accounted'
<1> SUFFICES ASSUME stops' = 0, NEW p \in rows', p.table \in Swept, Children(p)' = {}
             PROVE  \/ pc' = "get" /\ level' > 1 /\ p.table = Above' /\ p.id = at'
                    \/ pc' = "upon" /\ p.table = Table' /\ p.id = at'
  BY DEF Accounted, Childless
<1>1. stops = 0
  BY DEF Next, Serve, Arrive, Get, Create, Answered, Destroy, DestroyUpon, NotFound, Crash, ModelInv, vars
<1>2. \A o \in rows : Childless(o) =>
        \/ pc = "get" /\ level > 1 /\ o.table = Above /\ o.id = at
        \/ pc = "upon" /\ o.table = Table /\ o.id = at
  BY <1>1 DEF Accounted
<1>3. CASE \E q \in Requests : Arrive(q)
  <2>1. pc = "idle" /\ rows' = rows
    BY <1>3 DEF Arrive
  <2>2. Childless(p)
    BY <2>1 DEF Childless, Children
  <2> QED BY <1>2, <2>1, <2>2
<1>4. CASE Get
  <2>1. /\ pc = "get" /\ level <= Level(request.table) /\ rows' = rows /\ Looks(Table, Path)
        /\ \E r \in Matching(Table, Path) : TRUE
    BY <1>4 DEF Get
  <2>2. Childless(p)
    BY <2>1 DEF Childless, Children
  <2>3. level > 1 /\ p.table = Above /\ p.id = at
    BY <1>2, <2>1, <2>2
  <2>4. PICK r \in Matching(Table, Path) : TRUE
    BY <2>1
  <2>5. r \in rows /\ r.table = Table /\ r.parent = at
    BY <2>1, <2>3, FoundBelow
  <2>6. Table \in Tables /\ Level(Table) = level /\ Parent(Table) = Above
    BY <2>1, <2>3, PathFacts
  <2>7. r \in Children(p)
    BY <2>3, <2>5, <2>6 DEF Children
  <2> QED BY <2>2, <2>7 DEF Childless
<1>5. CASE Create
  <2>1. /\ pc = "get" /\ level <= Level(request.table)
        /\ rows' = rows \cup {NewRow} /\ request' = [request EXCEPT !.keys = Numbered]
        /\ at' = NewRow.id /\ level' = level + 1 /\ pc' = pc
    BY <1>5, Created
  <2>2. /\ Table \in Tables /\ Level(Table) = level /\ level \in Nat /\ level >= 1
        /\ level > 1 => Parent(Table) = Above
    BY <2>1, PathFacts
  <2>3. NewRow.table = Table /\ NewRow.parent = at
    BY <2>1, NewRowFacts
  <2>4. CASE p = NewRow
    <3>1. request'.table = request.table
      <4>1. asked \in Requests /\ request = [asked EXCEPT !.keys = request.keys]
        BY <2>1 DEF ModelInv, GetInv
      <4>2. asked = [verb |-> asked.verb, table |-> asked.table, keys |-> asked.keys, attr |-> asked.attr]
        BY <4>1, RequestFacts
      <4> QED BY <2>1, <4>1, <4>2
    <3>2. Above' = Table
      BY <2>1, <2>2, <3>1 DEF Above, Table
    <3> QED BY <2>1, <2>2, <2>3, <2>4, <3>2
  <2>5. CASE p \in rows
    <3>1. Childless(p)
      BY <2>1, <2>5 DEF Childless, Children
    <3>2. level > 1 /\ p.table = Above /\ p.id = at
      BY <1>2, <2>1, <2>5, <3>1
    <3>3. NewRow \in Children(p)'
      BY <2>1, <2>2, <2>3, <3>2 DEF Children
    <3> QED BY <3>3
  <2> QED BY <2>1, <2>4, <2>5
<1>6. CASE Answered
  <2>1. pc = "get" /\ level > Level(request.table)
    BY <1>6 DEF Answered
  <2>2. PICK r \in rows : p.table = r.table /\ p.id = r.id
    BY <1>6, AnsweredRows
  <2>3. Children(r) = {}
    <3> SUFFICES ASSUME NEW c \in Children(r) PROVE FALSE
      OBVIOUS
    <3>1. PICK d \in rows' : d.table = c.table /\ d.parent = c.parent
      BY <1>6, AnsweredRows DEF Children
    <3>2. d \in Children(p)'
      BY <2>2, <3>1 DEF Children
    <3> QED BY <3>2
  <2>4. r.table = Above
    BY <1>2, <2>1, <2>2, <2>3 DEF Childless
  <2>5. /\ asked \in Requests /\ request = [asked EXCEPT !.keys = request.keys]
        /\ level \in 1..(Level(request.table) + 1) /\ asked.verb # "DELETE"
    BY <2>1 DEF ModelInv, GetInv
  <2>6. request.table = asked.table /\ request.table \in Tables
    <3>1. asked = [verb |-> asked.verb, table |-> asked.table, keys |-> asked.keys, attr |-> asked.attr]
      BY <2>5, RequestFacts
    <3> QED BY <2>5, <3>1, RequestFacts
  <2>7. Above = request.table
    <3>1. /\ Level(request.table) \in Nat
          /\ Heritage[request.table][Level(request.table)] = request.table
      BY <2>6, TableFacts
    <3>2. level - 1 = Level(request.table)
      BY <2>1, <2>5, <3>1
    <3> QED BY <3>1, <3>2 DEF Above
  <2>8. request.table \notin Swept
    BY <2>5, <2>6, MakerFacts
  <2> QED BY <2>2, <2>4, <2>7, <2>8
<1>7. CASE Destroy
  <2>1. pc = "find" /\ request \in Requests /\ request.table \in Tables
    BY <1>7, RequestFacts DEF Destroy, ModelInv, FindInv
  <2>2. PICK r \in Matching(request.table, request.keys) :
          /\ rows' = rows \ Cascade(r)
          /\ Sweeps(r.table) => /\ pc' = "upon" /\ at' = r.parent /\ level' = Level(r.table) - 1
                                /\ request' = request
    BY <1>7 DEF Destroy
  <2>3. r \in rows /\ r.table = request.table
    BY DEF Matching
  <2>4. p \in rows /\ p \notin Cascade(r) /\ ~Childless(p)
    BY <1>2, <2>1, <2>2
  <2>5. PICK x \in Children(p) : x \in Cascade(r)
    <3>1. PICK x : x \in Children(p)
      BY <2>4 DEF Childless
    <3>2. x \in rows /\ x \notin rows'
      BY <3>1 DEF Children
    <3> QED BY <2>2, <3>1, <3>2
  <2>6. x = r
    BY <2>3, <2>4, <2>5, CascadeUp DEF ModelInv, TreeInv
  <2>7. p.table = Parent(r.table) /\ p.id = r.parent /\ Level(r.table) > 1
    BY <2>5, <2>6 DEF Children
  <2>8. Sweeps(r.table)
    BY <2>1, <2>3, <2>7, TableAssumption DEF Sweeps, TableAssumption
  <2>9. p.table = Table'
    BY <2>2, <2>3, <2>7, <2>8 DEF Table, Parent
  <2> QED BY <2>2, <2>7, <2>8, <2>9
<1>8. CASE DestroyUpon
  <2>1. pc = "upon" /\ request \in Requests /\ level \in 1..Level(request.table) /\ request.table \in Tables
    BY <1>8, RequestFacts DEF DestroyUpon, ModelInv, FindInv
  <2>2. PICK o \in rows :
          /\ o.table = Table /\ o.id = at
          /\ rows' = IF Empty(o) THEN rows \ {o} ELSE rows
          /\ Empty(o) /\ Sweeps(o.table) => /\ at' = o.parent /\ level' = level - 1
                                            /\ pc' = pc /\ request' = request
    BY <1>8 DEF DestroyUpon
  <2>3. p \in rows /\ (p = o => ~Empty(o))
    BY <2>2
  <2>4. ~Childless(p)
    <3> SUFFICES ASSUME Childless(p) PROVE FALSE
      OBVIOUS
    <3>1. p.table = o.table /\ p.id = o.id
      BY <1>2, <2>1, <2>2, <2>3
    <3>2. p = o
      BY <2>3, <3>1 DEF ModelInv, RowsDistinct
    <3> QED BY <2>3, <3>2 DEF Childless, Empty
  <2>5. PICK x \in Children(p) : x \notin rows'
    <3>1. PICK x : x \in Children(p)
      BY <2>4 DEF Childless
    <3> QED BY <3>1 DEF Children
  <2>6. x = o /\ Empty(o)
    BY <2>2, <2>5 DEF Children
  <2>7. p.table = Parent(Table) /\ p.id = o.parent /\ Level(Table) > 1
    BY <2>2, <2>5, <2>6 DEF Children
  <2>8. Table \in Tables /\ Level(Table) = level /\ level \in Nat
        /\ (level > 1 => Parent(Table) = Heritage[request.table][level - 1])
    BY <2>1, TableFacts, LevelFacts DEF Table
  <2>9. Sweeps(o.table)
    BY <2>2, <2>7, <2>8, TableAssumption DEF Sweeps, TableAssumption
  <2>10. p.table = Table'
    BY <2>2, <2>6, <2>7, <2>8, <2>9 DEF Table
  <2> QED BY <2>1, <2>2, <2>6, <2>7, <2>9, <2>10
<1>9. CASE NotFound
  <2>1. pc = "find" /\ rows' = rows
    BY <1>9 DEF NotFound
  <2>2. Childless(p)
    BY <2>1 DEF Childless, Children
  <2> QED BY <1>2, <2>1, <2>2
<1>10. CASE Crash
  <2>1. stops' = stops + 1
    BY <1>10 DEF Crash
  <2> QED BY <1>1, <2>1
<1>11. CASE UNCHANGED vars
  <2>1. UNCHANGED <<rows, pc, request, at, level>>
    BY <1>11 DEF vars
  <2>2. Childless(p) /\ Above' = Above /\ Table' = Table
    BY <2>1 DEF Childless, Children, Above, Table
  <2> QED BY <1>2, <2>1, <2>2
<1> QED BY <1>3, <1>4, <1>5, <1>6, <1>7, <1>8, <1>9, <1>10, <1>11 DEF Next, Serve

-------------------------------------------------------------------------------
(***************************************************************************)
(* The theorems                                                             *)
(***************************************************************************)
\* ModelInv holds at every statement of every request, wherever the server stops.
THEOREM ModelInvariant == Spec => []ModelInv
BY ModelInit, ModelStep, PTL DEF Spec

\* Every row belongs to a row that is there, whose keys it carries: what
\* find_by_params finds by keys and what the associations find by ids agree.
THEOREM NoRowOrphaned == Spec => []NoOrphan
<1>1. ModelInv => NoOrphan
  BY DEF ModelInv
<1> QED BY <1>1, ModelInvariant, PTL

\* No two rows of a table have one id, one set of keys or, where a row has only
\* one, one parent; and no save! meets the unique index.
THEOREM RowsStayAlone == Spec => []RowsDistinct
<1>1. ModelInv => RowsDistinct
  BY DEF ModelInv
<1> QED BY <1>1, ModelInvariant, PTL

\* As long as the server has not stopped within a request, destroy_upon_dependent
\* has swept every list and every entry that is empty when the request is over.
THEOREM NoContainerStaysEmpty == Spec => []NoEmptyContainer
<1>1. Init => Accounted
  BY DEF Init, Accounted
<1>2. ModelInv /\ Accounted /\ [Next]_vars => Accounted'
  BY AccountedStep
<1>3. Accounted => NoEmptyContainer
  BY DEF Accounted, Childless, NoEmptyContainer
<1> QED BY <1>1, <1>2, <1>3, ModelInvariant, PTL DEF Spec

\* set_next puts a new rule behind all rules of its list, whatever was deleted
\* from it and wherever the server stopped before.
THEOREM NewRowsComeLast == Spec => Appended
<1> DEFINE Last == \A r \in rows' \ rows : r.table \in Sequenced =>
                     \A q \in rows : (q.table = r.table /\ q.parent = r.parent) =>
                                       q.keys[Level(q.table)] < r.keys[Level(r.table)]
<1>1. ASSUME ModelInv, Create PROVE Last
  <2>1. /\ pc = "get" /\ level <= Level(request.table)
        /\ ~(Looks(Table, Path) /\ Matching(Table, Path) # {})
        /\ rows' = rows \cup {NewRow}
    BY <1>1, Created
  <2>2. Level(Table) = level /\ NewRow.table = Table /\ NewRow.parent = at
    BY <1>1, <2>1, PathFacts, NewRowFacts
  <2>3. \A q \in rows : q.table = Table /\ Table \in Sequenced /\ q.parent = at
                          => q.keys[level] < NewRow.keys[level]
    BY <1>1, <2>1, NewRowAlone
  <2> QED BY <2>1, <2>2, <2>3
<1>2. ASSUME ModelInv, Answered PROVE Last
  <2>1. pc = "get" /\ asked \in Requests /\ request = [asked EXCEPT !.keys = request.keys]
        /\ asked.verb # "DELETE"
    BY <1>2 DEF Answered, ModelInv, GetInv
  <2>2. asked = [verb |-> asked.verb, table |-> asked.table, keys |-> asked.keys, attr |-> asked.attr]
    BY <2>1, RequestFacts
  <2>3. request.table = asked.table /\ asked.table \notin Sequenced
    BY <2>1, <2>2, MakerFacts
  <2>4. \A s \in rows' : s \in rows \/ s.table = request.table
    <3> SUFFICES ASSUME NEW r \in rows, r.table = request.table
                 PROVE  [r EXCEPT !.attr = request.attr].table = request.table
      BY <1>2 DEF Answered
    <3>1. r \in Row
      BY <1>2 DEF ModelInv, RowsInv
    <3> QED BY <3>1 DEF Row
  <2> QED BY <2>3, <2>4
<1>3. ASSUME [Next]_vars, ~Create, ~Answered PROVE Last
  <2>1. rows' \subseteq rows
    BY <1>3 DEF Next, Serve, Arrive, Get, Destroy, DestroyUpon, NotFound, Crash, vars
  <2> QED BY <2>1
<1>4. ModelInv /\ [Next]_vars => [Last]_vars
  BY <1>1, <1>2, <1>3
<1> QED BY <1>4, ModelInvariant, PTL DEF Spec, Appended
===============================================================================
