---------------------------- MODULE RestStoreProofs ----------------------------
(***************************************************************************)
(* RestModel implements RestStore, for all tables and requests that satisfy  *)
(* its assumptions: statement by statement, and wherever the server stops,   *)
(* the database is the tree of named nodes where a request has its whole     *)
(* effect at once, or a beginning of it.                                     *)
(***************************************************************************)
EXTENDS RestModelProofs

-------------------------------------------------------------------------------
(***************************************************************************)
(* Nodes above each other                                                   *)
(***************************************************************************)
\* Of a row or a node: it has as many keys as its table has levels.
IsNode(n) == n.table \in Tables /\ n.keys \in Seq(KeyValues) /\ Len(n.keys) = Level(n.table)

LEMMA NodeFacts ==
  ASSUME NEW n, IsNode(n)
  PROVE  /\ Len(n.keys) \in Nat /\ Len(n.keys) >= 1 /\ DOMAIN n.keys = 1..Len(n.keys)
         /\ \A i \in 1..Len(n.keys) : n.keys[i] \in KeyValues
         /\ Heritage[n.table][Len(n.keys)] = n.table
BY TableFacts, LenProperties, ElementOfSeq DEF IsNode

\* Two sequences of one length are the same if their members are.
LEMMA SamePath ==
  ASSUME NEW s \in Seq(KeyValues), NEW l \in 0..Len(s), NEW t \in Seq(KeyValues)
  PROVE  /\ SubSeq(s, 1, l) \in Seq(KeyValues) /\ Len(SubSeq(s, 1, l)) = l
         /\ \A i \in 1..l : SubSeq(s, 1, l)[i] = s[i]
         /\ t = SubSeq(s, 1, l) <=> Len(t) = l /\ \A i \in 1..l : t[i] = s[i]
<1>1. Len(s) \in Nat /\ l \in Nat /\ \A i \in 1..l : s[i] \in KeyValues
  BY LenProperties, ElementOfSeq
<1>2. /\ SubSeq(s, 1, l) \in Seq(KeyValues) /\ Len(SubSeq(s, 1, l)) = l
      /\ \A i \in 1..l : SubSeq(s, 1, l)[i] = s[i]
  <2>1. /\ SubSeq(s, 1, l) \in Seq(KeyValues)
        /\ Len(SubSeq(s, 1, l)) = IF 1 <= l THEN l - 1 + 1 ELSE 0
        /\ \A i \in 1..(l - 1 + 1) : SubSeq(s, 1, l)[i] = s[1 + i - 1]
    BY <1>1, SubSeqProperties
  <2>2. \A i \in 1..l : 1 + i - 1 = i /\ i \in 1..(l - 1 + 1)
    BY <1>1
  <2> QED BY <1>1, <2>1, <2>2
<1>3. (Len(t) = l /\ \A i \in 1..l : t[i] = s[i]) => t = SubSeq(s, 1, l)
  BY <1>2, SeqEqual
<1> QED BY <1>2, <1>3

\* A node is above another one if it is where the path of the other one passes.
LEMMA AboveIs ==
  ASSUME NEW m, NEW n, IsNode(m), IsNode(n)
  PROVE  Store!Above(m, n) <=>
           /\ Len(m.keys) <= Len(n.keys) /\ m.table = Heritage[n.table][Len(m.keys)]
           /\ \A i \in 1..Len(m.keys) : m.keys[i] = n.keys[i]
<1>1. Len(m.keys) \in Nat /\ Len(n.keys) \in Nat
  BY NodeFacts
<1>2. Len(m.keys) <= Len(n.keys) =>
        (m.keys = SubSeq(n.keys, 1, Len(m.keys)) <=> \A i \in 1..Len(m.keys) : m.keys[i] = n.keys[i])
  <2> SUFFICES ASSUME Len(m.keys) <= Len(n.keys)
               PROVE  m.keys = SubSeq(n.keys, 1, Len(m.keys)) <=> \A i \in 1..Len(m.keys) : m.keys[i] = n.keys[i]
    OBVIOUS
  <2>1. Len(m.keys) \in 0..Len(n.keys)
    BY <1>1
  <2> QED BY <2>1, SamePath DEF IsNode
<1> QED BY <1>2 DEF Store!Above

LEMMA AboveSelf == \A n : IsNode(n) => Store!Above(n, n)
<1> SUFFICES ASSUME NEW n, IsNode(n) PROVE Store!Above(n, n)
  OBVIOUS
<1> QED BY NodeFacts, AboveIs

LEMMA AboveTwice ==
  ASSUME NEW k, NEW m, NEW n, IsNode(k), IsNode(m), IsNode(n), Store!Above(k, m), Store!Above(m, n)
  PROVE  Store!Above(k, n)
<1>1. Len(k.keys) \in Nat /\ Len(m.keys) \in Nat /\ Len(n.keys) \in Nat /\ Len(k.keys) >= 1
  BY NodeFacts
<1>2. /\ Len(k.keys) <= Len(m.keys) /\ k.table = Heritage[m.table][Len(k.keys)]
      /\ \A i \in 1..Len(k.keys) : k.keys[i] = m.keys[i]
  BY AboveIs
<1>3. /\ Len(m.keys) <= Len(n.keys) /\ m.table = Heritage[n.table][Len(m.keys)]
      /\ \A i \in 1..Len(m.keys) : m.keys[i] = n.keys[i]
  BY AboveIs
<1>4. Len(m.keys) \in 1..Level(n.table) /\ Len(k.keys) \in 1..Len(m.keys)
  <2>1. Level(n.table) = Len(n.keys) /\ Len(m.keys) >= 1 /\ Len(k.keys) <= Len(m.keys) /\ Len(m.keys) <= Len(n.keys)
    BY <1>1, NodeFacts, <1>2, <1>3 DEF IsNode
  <2> QED BY <1>1, <2>1
<1>5. Heritage[Heritage[n.table][Len(m.keys)]][Len(k.keys)] = Heritage[n.table][Len(k.keys)]
  BY <1>4, TableFacts DEF IsNode
<1>6. \A i \in 1..Len(k.keys) : k.keys[i] = n.keys[i]
  BY <1>1, <1>2, <1>3
<1> QED BY <1>1, <1>2, <1>3, <1>5, <1>6, AboveIs

\* The nodes above a node are above each other.
LEMMA AboveLine ==
  ASSUME NEW k, NEW m, NEW n, IsNode(k), IsNode(m), IsNode(n), Store!Above(k, n), Store!Above(m, n),
         Len(k.keys) <= Len(m.keys)
  PROVE  Store!Above(k, m)
<1>1. Len(k.keys) \in Nat /\ Len(m.keys) \in Nat /\ Len(n.keys) \in Nat /\ Len(k.keys) >= 1
  BY NodeFacts
<1>2. k.table = Heritage[n.table][Len(k.keys)] /\ \A i \in 1..Len(k.keys) : k.keys[i] = n.keys[i]
  BY AboveIs
<1>3. /\ Len(m.keys) <= Len(n.keys) /\ m.table = Heritage[n.table][Len(m.keys)]
      /\ \A i \in 1..Len(m.keys) : m.keys[i] = n.keys[i]
  BY AboveIs
<1>4. Len(m.keys) \in 1..Level(n.table) /\ Len(k.keys) \in 1..Len(m.keys)
  <2>1. Level(n.table) = Len(n.keys) /\ Len(m.keys) >= 1 /\ Len(k.keys) <= Len(m.keys) /\ Len(m.keys) <= Len(n.keys)
    BY <1>1, NodeFacts, <1>3 DEF IsNode
  <2> QED BY <1>1, <2>1
<1>5. Heritage[Heritage[n.table][Len(m.keys)]][Len(k.keys)] = Heritage[n.table][Len(k.keys)]
  BY <1>4, TableFacts DEF IsNode
<1>6. \A i \in 1..Len(k.keys) : k.keys[i] = m.keys[i]
  BY <1>1, <1>2, <1>3
<1> QED BY <1>2, <1>3, <1>5, <1>6, AboveIs

LEMMA AboveSame ==
  ASSUME NEW m, NEW n, IsNode(m), IsNode(n), Store!Above(m, n), Len(m.keys) = Len(n.keys)
  PROVE  m.table = n.table /\ m.keys = n.keys
<1>1. m.table = Heritage[n.table][Len(n.keys)] /\ \A i \in 1..Len(m.keys) : m.keys[i] = n.keys[i]
  BY AboveIs
<1>2. m.keys = n.keys
  BY <1>1, SeqEqual DEF IsNode
<1> QED BY <1>1, <1>2, NodeFacts

-------------------------------------------------------------------------------
(***************************************************************************)
(* The rows as a tree of nodes                                              *)
(***************************************************************************)
LEMMA RowIsNode == ASSUME TreeInv, NEW r \in rows PROVE IsNode(r)
BY RowFacts DEF IsNode, TreeInv

\* A row below the root belongs to the row above it.
LEMMA ParentAbove ==
  ASSUME TreeInv, NEW x \in rows, Level(x.table) > 1
  PROVE  \E p \in rows : x \in Children(p) /\ Store!Above(p, x) /\ Level(p.table) = Level(x.table) - 1
<1>1. PICK p \in rows : x \in Children(p) /\ p.keys = SubSeq(x.keys, 1, Level(p.table))
  BY DEF TreeInv, NoOrphan
<1>2. p.table = Parent(x.table) /\ IsNode(p) /\ IsNode(x)
  BY <1>1, RowIsNode DEF Children
<1>3. Level(p.table) = Level(x.table) - 1 /\ Level(x.table) \in Nat
  BY <1>2, TableFacts DEF IsNode
<1>4. Len(p.keys) = Level(x.table) - 1 /\ p.table = Heritage[x.table][Len(p.keys)]
  BY <1>2, <1>3 DEF IsNode, Parent
<1>5. Store!Above(p, x)
  BY <1>1, <1>2, <1>3, <1>4 DEF Store!Above, IsNode
<1> QED BY <1>1, <1>3, <1>5

LEMMA ChildAbove ==
  ASSUME TreeInv, NEW p \in rows, NEW x \in Children(p)
  PROVE  x \in rows /\ Store!Above(p, x) /\ Level(x.table) = Level(p.table) + 1
<1>1. x \in rows /\ Level(x.table) > 1 /\ p.table = Parent(x.table) /\ p.id = x.parent
  BY DEF Children
<1>2. PICK o \in rows : x \in Children(o) /\ Store!Above(o, x) /\ Level(o.table) = Level(x.table) - 1
  BY <1>1, ParentAbove
<1>3. o = p
  BY <1>1, <1>2 DEF Children, TreeInv, RowsDistinct
<1>4. Level(x.table) \in Nat
  BY <1>1, RowFacts DEF TreeInv
<1> QED BY <1>1, <1>2, <1>3, <1>4

\* A set of numbers has a least one.
LEMMA LeastOf ==
  ASSUME NEW T, T \subseteq Nat, T # {}
  PROVE  \E m \in T : \A k \in T : m <= k
<1> DEFINE R == OpToRel(<, Nat)
<1>1. IsWellFoundedOn(R, Nat)
  BY NatLessThanWellFounded
<1>2. \A k, m \in T : k < m => <<k, m>> \in R
  BY DEF OpToRel
<1> HIDE DEF R
<1>3. PICK m \in T : \A k \in T : ~(<<k, m>> \in R)
  BY <1>1, WFMin
<1>4. \A k \in T : k \in Nat /\ (k < m \/ m <= k)
  OBVIOUS
<1> QED BY <1>2, <1>3, <1>4

\* What is true of the row p, and of each row below p if it is true of the row it
\* belongs to, is true of all rows below p.
LEMMA Downwards ==
  ASSUME TreeInv, NEW p \in rows, NEW S, p \in S,
         \A q \in rows \cap S : Children(q) \subseteq S
  PROVE  \A x \in rows : Store!Above(p, x) => x \in S
<1> DEFINE bad == {x \in rows : Store!Above(p, x) /\ x \notin S}
           T == {Level(x.table) : x \in bad}
<1> SUFFICES ASSUME bad # {} PROVE FALSE
  OBVIOUS
<1>1. T \subseteq Nat /\ T # {}
  BY RowFacts DEF TreeInv
<1>2. PICK l \in T : \A k \in T : l <= k
  BY <1>1, LeastOf
<1>3. PICK x \in bad : l = Level(x.table)
  BY <1>2
<1>4. /\ x \in rows /\ Store!Above(p, x) /\ x \notin S /\ IsNode(x) /\ IsNode(p)
      /\ Level(x.table) = Len(x.keys) /\ Level(p.table) = Len(p.keys)
      /\ Len(x.keys) \in Nat /\ Len(p.keys) \in Nat /\ Len(p.keys) >= 1
      /\ Len(p.keys) <= Len(x.keys)
  BY <1>3, RowIsNode, NodeFacts, AboveIs DEF IsNode
<1>5. CASE Len(p.keys) = Len(x.keys)
  <2>1. p.table = x.table /\ p.keys = x.keys
    BY <1>4, <1>5, AboveSame
  <2>2. p = x
    BY <1>4, <2>1 DEF TreeInv, RowsDistinct
  <2> QED BY <1>4, <2>2
<1>6. CASE Len(p.keys) < Len(x.keys)
  <2>1. PICK o \in rows : x \in Children(o) /\ Store!Above(o, x) /\ Level(o.table) = Level(x.table) - 1
    BY <1>4, <1>6, ParentAbove
  <2>2. IsNode(o) /\ Len(o.keys) = Level(o.table)
    BY <2>1, RowIsNode DEF IsNode
  <2>3. Len(p.keys) <= Len(o.keys)
    BY <1>4, <1>6, <2>1, <2>2
  <2>4. Store!Above(p, o)
    BY <1>4, <2>1, <2>2, <2>3, AboveLine
  <2>5. Level(o.table) < l
    BY <1>3, <1>4, <2>1
  <2>6. o \in S
    <3> SUFFICES ASSUME o \notin S PROVE FALSE
      OBVIOUS
    <3>1. o \in bad
      BY <2>1, <2>4
    <3>2. l <= Level(o.table) /\ l \in Nat /\ Level(o.table) \in Nat
      BY <1>1, <1>2, <3>1
    <3> QED BY <2>5, <3>2
  <2> QED BY <1>4, <2>1, <2>6
<1> QED BY <1>4, <1>5, <1>6

\* The cascade of a row is what is below it.
LEMMA CascadeIsUnder ==
  ASSUME TreeInv, NEW r \in rows
  PROVE  Cascade(r) = {x \in rows : Store!Above(r, x)}
<1>1. ASSUME NEW x \in rows, Store!Above(r, x) PROVE x \in Cascade(r)
  <2>1. r \in Cascade(r)
    BY DEF Cascade
  <2>2. \A q \in rows \cap Cascade(r) : Children(q) \subseteq Cascade(r)
    BY CascadeDown
  <2> QED BY <1>1, <2>1, <2>2, Downwards
<1>2. ASSUME NEW x \in Cascade(r) PROVE x \in rows /\ Store!Above(r, x)
  <2> DEFINE lower  == {q \in rows : Level(q.table) > Level(r.table) /\ Heritage[q.table][Level(r.table)] = r.table}
             below  == [o \in lower \cup {r} |-> Dependents(o)]
             closed == {set \in SUBSET lower : \A o \in set \cup {r} : below[o] \subseteq set}
             under  == {q \in lower : Store!Above(r, q)}
  <2>1. x = r \/ (x \in lower /\ \A set \in closed : x \in set)
    BY DEF Cascade
  <2>2. ASSUME NEW o \in under \cup {r}, NEW c \in below[o] PROVE c \in under
    <3>1. o \in rows /\ o \in lower \cup {r} /\ Store!Above(r, o)
      BY RowIsNode, AboveSelf
    <3>2. c \in Children(o)
      BY <3>1 DEF Dependents
    <3>3. c \in rows /\ Store!Above(o, c)
      BY <3>1, <3>2, ChildAbove
    <3>4. Store!Above(r, c)
      BY <3>1, <3>3, RowIsNode, AboveTwice
    <3>5. c \in lower
      BY <3>1, <3>2, ChildBelow
    <3> QED BY <3>4, <3>5
  <2>3. under \in closed
    BY <2>2
  <2>4. x = r \/ x \in under
    BY <2>1, <2>3
  <2> QED BY <2>4, RowIsNode, AboveSelf
<1> QED BY <1>1, <1>2

-------------------------------------------------------------------------------
(***************************************************************************)
(* Rows and nodes                                                           *)
(***************************************************************************)
NodeOf(r) == [table |-> r.table, keys |-> r.keys, attr |-> r.attr]

\* A set of nodes in which a path names one node.
Tree(set) ==
  /\ \A n \in set : IsNode(n)
  /\ \A m, n \in set : m.table = n.table /\ m.keys = n.keys => m = n

LEMMA NodeOfRow ==
  /\ \A set : Nodes(set) = {NodeOf(r) : r \in set}
  /\ \A r : NodeOf(r).table = r.table /\ NodeOf(r).keys = r.keys /\ NodeOf(r).attr = r.attr
  /\ \A r : IsNode(r) => IsNode(NodeOf(r))
  /\ \A r, n : Store!Above(NodeOf(r), n) <=> Store!Above(r, n)
  /\ \A r, n : Store!Above(n, NodeOf(r)) <=> Store!Above(n, r)
<1>1. \A r : NodeOf(r).table = r.table /\ NodeOf(r).keys = r.keys /\ NodeOf(r).attr = r.attr
  BY DEF NodeOf
<1>2. \A set : Nodes(set) = {NodeOf(r) : r \in set}
  BY DEF Nodes, NodeOf
<1> QED BY <1>1, <1>2 DEF IsNode, Store!Above

LEMMA RowTree ==
  ASSUME TreeInv
  PROVE  /\ Tree(Nodes(rows))
         /\ \A n \in Nodes(rows) : \E r \in rows : n = NodeOf(r)
         /\ \A r \in rows : NodeOf(r) \in Nodes(rows)
         /\ \A r, q \in rows : r.table = q.table /\ r.keys = q.keys => r = q
<1>1. \A r, q \in rows : r.table = q.table /\ r.keys = q.keys => r = q
  BY DEF TreeInv, RowsDistinct
<1>2. /\ \A n \in Nodes(rows) : \E r \in rows : n = NodeOf(r)
      /\ \A r \in rows : NodeOf(r) \in Nodes(rows)
  BY NodeOfRow
<1>3. \A n \in Nodes(rows) : IsNode(n)
  BY <1>2, RowIsNode, NodeOfRow
<1>4. \A m, n \in Nodes(rows) : m.table = n.table /\ m.keys = n.keys => m = n
  <2> SUFFICES ASSUME NEW m \in Nodes(rows), NEW n \in Nodes(rows), m.table = n.table, m.keys = n.keys
               PROVE  m = n
    OBVIOUS
  <2>1. PICK r \in rows, q \in rows : m = NodeOf(r) /\ n = NodeOf(q)
    BY <1>2
  <2>2. r = q
    BY <1>1, <2>1, NodeOfRow
  <2> QED BY <2>1, <2>2
<1> QED BY <1>1, <1>2, <1>3, <1>4 DEF Tree

\* A row that goes takes its node along, and no other.
LEMMA NodesGo ==
  ASSUME TreeInv, NEW S \in SUBSET rows
  PROVE  Nodes(rows \ S) = Nodes(rows) \ Nodes(S)
<1>1. ASSUME NEW n \in Nodes(rows \ S) PROVE n \in Nodes(rows) /\ n \notin Nodes(S)
  <2>1. PICK r \in rows \ S : n = NodeOf(r)
    BY NodeOfRow
  <2>2. n \in Nodes(rows)
    BY <2>1, NodeOfRow
  <2>3. ASSUME n \in Nodes(S) PROVE FALSE
    <3>1. PICK q \in S : n = NodeOf(q)
      BY <2>3, NodeOfRow
    <3>2. r = q
      BY <2>1, <3>1, RowTree, NodeOfRow
    <3> QED BY <2>1, <3>2
  <2> QED BY <2>2, <2>3
<1>2. ASSUME NEW n \in Nodes(rows), n \notin Nodes(S) PROVE n \in Nodes(rows \ S)
  <2>1. PICK r \in rows : n = NodeOf(r)
    BY NodeOfRow
  <2>2. r \notin S
    BY <1>2, <2>1, NodeOfRow
  <2> QED BY <2>1, <2>2, NodeOfRow
<1> QED BY <1>1, <1>2

-------------------------------------------------------------------------------
(***************************************************************************)
(* The invariant                                                            *)
(***************************************************************************)
\* The nodes there were when the request came.
Old == Nodes(before)

\* The request that makes rows: the keys up to the level are the keys the request
\* comes to, and of the nodes that were missing those up to the level are made.
Making ==
  LET keys == Store!Chosen(asked.table, asked.keys)
  IN  /\ \A i \in 1..Level(asked.table) :
           request.keys[i] = IF i < level THEN keys[i] ELSE asked.keys[i]
      /\ Nodes(rows) = Old \cup {n \in Store!Missing(asked.table, keys) : Len(n.keys) < level}

\* The request that removes rows: it has found a node, which is gone with all below
\* it and with the containers it leaves empty, down to the level it looks at.
Sweeping ==
  \E n \in Old :
    /\ Store!Named(asked, n) /\ level < Len(n.keys)
    /\ \A i \in (level + 1)..Len(n.keys) : Heritage[n.table][i] \in Upon
    /\ \A m \in Old \ {n} : Store!Above(m, n) /\ Len(m.keys) > level => m \in Store!Emptied(n)
    /\ Nodes(rows) = Old \ (Store!Under(n) \cup {m \in Store!Emptied(n) : Len(m.keys) > level})
    /\ \E p \in rows : p.table = Table /\ p.id = at /\ Store!Above(p, n)

StoreInv ==
  /\ pc = "idle" => asked = NoRequest
  /\ pc # "idle" => asked \in Requests /\ Tree(Old)
  /\ pc \in {"find", "upon"} => request = asked /\ asked.verb = "DELETE"
  /\ pc = "find" => rows = before
  /\ pc = "get" => Making
  /\ pc = "upon" => Sweeping

\* A statement of a request in progress changes nothing that RestStore sees, ...
Unseen == UNCHANGED <<Nodes(IF pc = "idle" THEN rows ELSE before), asked, stops>>

LEMMA Standing ==
  ASSUME pc # "idle", pc' # "idle", before' = before
  PROVE  /\ Old' = Old
         /\ \A t, keys : Store!Chosen(t, keys)' = Store!Chosen(t, keys)
         /\ \A t, keys : Store!Missing(t, keys)' = Store!Missing(t, keys)
         /\ \A n : Store!Under(n)' = Store!Under(n)
         /\ \A n : Store!Emptied(n)' = Store!Emptied(n)
         /\ \A q, n : Store!Named(q, n)' = Store!Named(q, n)
         /\ asked' = asked /\ stops' = stops => Unseen
<1>1. Nodes(IF pc = "idle" THEN rows ELSE before)' = Nodes(IF pc = "idle" THEN rows ELSE before)
  BY DEF Nodes
<1>2. Old' = Old
  BY DEF Old, Nodes
<1>a. \A t, keys, i : Store!Numbers(t, keys, i)' = Store!Numbers(t, keys, i)
  BY <1>1 DEF Store!Numbers
<1>3. \A t, keys : Store!Chosen(t, keys)' = Store!Chosen(t, keys)
  BY <1>a DEF Store!Chosen
<1>4. \A t, keys : Store!Missing(t, keys)' = Store!Missing(t, keys)
  BY <1>1 DEF Store!Missing
<1>5. \A n : Store!Under(n)' = Store!Under(n)
  BY <1>1 DEF Store!Under
<1>6. \A n : Store!Emptied(n)' = Store!Emptied(n)
  BY <1>1, <1>5 DEF Store!Emptied
<1>7. \A q, n : Store!Named(q, n)' = Store!Named(q, n)
  BY DEF Store!Named
<1>8. asked' = asked /\ stops' = stops => Unseen
  BY <1>1 DEF Unseen
<1> QED BY <1>2, <1>3, <1>4, <1>5, <1>6, <1>7, <1>8

\* What RestStore sees while a request is in progress, and when it is over.
LEMMA Seen ==
  /\ pc # "idle" => /\ Nodes(IF pc = "idle" THEN rows ELSE before) = Old
                    /\ \A n : Store!Under(n) = {o \in Old : Store!Above(n, o)}
                    /\ \A n, m : m \in Store!Emptied(n) <=>
                         /\ m \in Old \ {n} /\ Store!Above(m, n)
                         /\ \A i \in (Len(m.keys) + 1)..Len(n.keys) : Heritage[n.table][i] \in Upon
                         /\ \A o \in Store!Under(m) : Store!Above(o, n) \/ Store!Above(n, o)
  /\ pc' = "idle" => Nodes(IF pc = "idle" THEN rows ELSE before)' = Nodes(rows)'
<1>1. pc # "idle" => Nodes(IF pc = "idle" THEN rows ELSE before) = Old
  BY DEF Old
<1>2. pc # "idle" => \A n : Store!Under(n) = {o \in Old : Store!Above(n, o)}
  BY <1>1 DEF Store!Under
<1>3. pc # "idle" => \A n, m : m \in Store!Emptied(n) <=>
        /\ m \in Old \ {n} /\ Store!Above(m, n)
        /\ \A i \in (Len(m.keys) + 1)..Len(n.keys) : Heritage[n.table][i] \in Upon
        /\ \A o \in Store!Under(m) : Store!Above(o, n) \/ Store!Above(n, o)
  BY <1>1 DEF Store!Emptied
<1>4. pc' = "idle" => Nodes(IF pc = "idle" THEN rows ELSE before)' = Nodes(rows)'
  BY DEF Nodes
<1> QED BY <1>1, <1>2, <1>3, <1>4

-------------------------------------------------------------------------------
(***************************************************************************)
(* Removing                                                                 *)
(***************************************************************************)
\* A request that is over.
LEMMA Over ==
  ASSUME Done
  PROVE  StoreInv' /\ pc' = "idle" /\ asked' = NoRequest
BY DEF Done, StoreInv

LEMMA NotAsked == \A q \in Requests : q # NoRequest
BY RequestFacts DEF NoRequest

\* The whole effect of a request, or the beginning of it, is a step of RestStore.
LEMMA Answers ==
  ASSUME StoreInv, pc # "idle", asked' = NoRequest,
         Store!Put(asked) \/ Store!PutBegun(asked) \/ Store!Delete(asked) \/ Store!DeleteBegun(asked)
  PROVE  Store!Next
BY NotAsked DEF StoreInv, Store!Next, Store!Answer

\* Of the nodes above a node none is as deep as the node itself.
LEMMA Shallower ==
  ASSUME Tree(Old), NEW n \in Old, NEW m \in Old \ {n}, Store!Above(m, n)
  PROVE  Len(m.keys) \in Nat /\ Len(n.keys) \in Nat /\ Len(m.keys) >= 1 /\ Len(m.keys) < Len(n.keys)
<1>1. IsNode(m) /\ IsNode(n)
  BY DEF Tree
<1>2. Len(m.keys) \in Nat /\ Len(n.keys) \in Nat /\ Len(m.keys) >= 1 /\ Len(m.keys) <= Len(n.keys)
  BY <1>1, NodeFacts, AboveIs
<1>3. Len(m.keys) # Len(n.keys)
  <2> SUFFICES ASSUME Len(m.keys) = Len(n.keys) PROVE FALSE
    OBVIOUS
  <2>1. m.table = n.table /\ m.keys = n.keys
    BY <1>1, AboveSame
  <2> QED BY <2>1 DEF Tree
<1> QED BY <1>2, <1>3

\* The server goes on to look at a container.
LEMMA GoesOnUp ==
  ASSUME StoreInv, pc # "idle", pc' = "upon", UNCHANGED <<request, asked, before, stops>>,
         request = asked, asked.verb = "DELETE",
         NEW n \in Old, Store!Named(asked, n), level' < Len(n.keys),
         \A i \in (level' + 1)..Len(n.keys) : Heritage[n.table][i] \in Upon,
         \A m \in Old \ {n} : Store!Above(m, n) /\ Len(m.keys) > level' => m \in Store!Emptied(n),
         Nodes(rows') = Old \ (Store!Under(n) \cup {m \in Store!Emptied(n) : Len(m.keys) > level'}),
         \E p \in rows' : p.table = Heritage[asked.table][level'] /\ p.id = at' /\ Store!Above(p, n)
  PROVE  StoreInv' /\ Unseen
<1>1. /\ Old' = Old /\ Unseen /\ \A m : Store!Under(m)' = Store!Under(m)
      /\ \A m : Store!Emptied(m)' = Store!Emptied(m)
  BY Standing
<1>2. Store!Under(n)' = Store!Under(n) /\ Store!Emptied(n)' = Store!Emptied(n)
  BY <1>1
<1>3. Store!Named(asked, n)'
  BY DEF Store!Named
<1>4. Nodes(rows)' = Nodes(rows')
  BY DEF Nodes
<1>5. Table' = Heritage[asked.table][level']
  BY DEF Table
<1>6. \A m, o : Store!Above(m, o)' <=> Store!Above(m, o)
  BY DEF Store!Above
<1>7. Sweeping'
  BY <1>1, <1>2, <1>3, <1>4, <1>5, <1>6 DEF Sweeping
<1>8. Tree(Old)'
  BY <1>1 DEF StoreInv, Tree, IsNode
<1> QED BY <1>1, <1>7, <1>8 DEF StoreInv

\* destroy_by_keys finds a row that the path names.
LEMMA FoundNamed ==
  ASSUME ModelInv, StoreInv, pc = "find", NEW r \in Matching(request.table, request.keys)
  PROVE  /\ r \in rows /\ r.table = asked.table /\ NodeOf(r) \in Old /\ Store!Named(asked, NodeOf(r))
         /\ Nodes(rows \ Cascade(r)) = Old \ Store!Under(NodeOf(r))
<1>1. request = asked /\ asked \in Requests /\ rows = before /\ TreeInv
  BY DEF StoreInv, ModelInv, TreeInv
<1>2. r \in rows /\ r.table = asked.table /\ IsNode(r) /\ NodeOf(r) \in Old
  BY <1>1, RowIsNode, NodeOfRow DEF Matching, Old
<1>3. \A i \in DOMAIN r.keys : r.keys[i] = asked.keys[i]
                               \/ (i \in AutoLevels(asked.table) /\ asked.keys[i] = Null)
  BY <1>1 DEF Matching
<1>4. Store!Named(asked, NodeOf(r))
  BY <1>2, <1>3, NodeOfRow DEF Store!Named, AutoLevels
<1>5. Cascade(r) \in SUBSET rows /\ Cascade(r) = {x \in rows : Store!Above(r, x)}
  BY <1>1, <1>2, CascadeIsUnder
<1>6. Nodes(rows \ Cascade(r)) = Nodes(rows) \ Nodes(Cascade(r))
  BY <1>1, <1>5, NodesGo
<1>7. Nodes(Cascade(r)) = {o \in Old : Store!Above(NodeOf(r), o)}
  <2>1. ASSUME NEW o \in Nodes(Cascade(r)) PROVE o \in Old /\ Store!Above(NodeOf(r), o)
    <3>1. PICK x \in Cascade(r) : o = NodeOf(x)
      BY NodeOfRow
    <3> QED BY <1>1, <1>5, <3>1, NodeOfRow DEF Old
  <2>2. ASSUME NEW o \in Old, Store!Above(NodeOf(r), o) PROVE o \in Nodes(Cascade(r))
    <3>1. PICK x \in rows : o = NodeOf(x)
      BY <1>1, NodeOfRow DEF Old
    <3>2. x \in Cascade(r)
      BY <1>5, <2>2, <3>1, NodeOfRow
    <3> QED BY <3>1, <3>2, NodeOfRow
  <2> QED BY <2>1, <2>2
<1>8. Store!Under(NodeOf(r)) = {o \in Old : Store!Above(NodeOf(r), o)}
  BY Seen
<1> QED BY <1>1, <1>2, <1>4, <1>6, <1>7, <1>8 DEF Old

LEMMA DestroySeen ==
  ASSUME ModelInv, StoreInv, Destroy
  PROVE  StoreInv' /\ (Store!Next \/ Unseen)
<1>1. PICK r \in Matching(request.table, request.keys) :
        /\ pc = "find" /\ rows' = rows \ Cascade(r) /\ UNCHANGED <<stops, refused>>
        /\ IF Sweeps(r.table)
            THEN pc' = "upon" /\ at' = r.parent /\ level' = Level(r.table) - 1
                 /\ UNCHANGED <<request, asked, before>>
            ELSE Done
  BY DEF Destroy
<1> DEFINE n == NodeOf(r)
<1>2. /\ r \in rows /\ r.table = asked.table /\ n \in Old /\ Store!Named(asked, n)
      /\ Nodes(rows \ Cascade(r)) = Old \ Store!Under(n)
  BY <1>1, FoundNamed
<1>3. /\ n.table = r.table /\ n.keys = r.keys /\ IsNode(n) /\ IsNode(r)
      /\ request = asked /\ asked \in Requests /\ asked.verb = "DELETE" /\ Tree(Old) /\ TreeInv
  BY <1>1, <1>2, NodeOfRow, RowIsNode DEF StoreInv, ModelInv, TreeInv
<1>4. Len(n.keys) = Level(r.table) /\ Len(n.keys) \in Nat /\ Heritage[n.table][Len(n.keys)] = n.table
  BY <1>3, NodeFacts DEF IsNode
<1> HIDE DEF n
<1>5. \A m \in Old \ {n} : Store!Above(m, n) => Len(m.keys) \in Nat /\ Len(m.keys) < Len(n.keys)
  BY <1>2, <1>3, Shallower
<1>6. CASE r.table \in Upon
  <2>1. /\ pc' = "upon" /\ at' = r.parent /\ level' = Level(r.table) - 1
        /\ UNCHANGED <<request, asked, before, stops>>
    BY <1>1, <1>6 DEF Sweeps
  <2>2. level' < Len(n.keys) /\ level' + 1 = Len(n.keys)
    BY <1>4, <2>1
  <2>3. \A i \in (level' + 1)..Len(n.keys) : Heritage[n.table][i] \in Upon
    BY <1>3, <1>4, <1>6, <2>2
  <2>4. \A m \in Old \ {n} : ~(Store!Above(m, n) /\ Len(m.keys) > level')
    <3> SUFFICES ASSUME NEW m \in Old \ {n}, Store!Above(m, n), Len(m.keys) > level' PROVE FALSE
      OBVIOUS
    <3>1. Len(m.keys) \in Nat /\ Len(m.keys) < Len(n.keys)
      BY <1>5
    <3>2. level' = Len(n.keys) - 1
      BY <1>4, <2>1
    <3> QED BY <1>4, <3>1, <3>2
  <2>5. Nodes(rows') = Old \ (Store!Under(n) \cup {m \in Store!Emptied(n) : Len(m.keys) > level'})
    <3>1. {m \in Store!Emptied(n) : Len(m.keys) > level'} = {}
      BY <1>1, <2>4, Seen
    <3>2. Nodes(rows') = Old \ Store!Under(n)
      BY <1>1, <1>2
    <3>3. \A E : E = {} => Old \ (Store!Under(n) \cup E) = Old \ Store!Under(n)
      OBVIOUS
    <3> QED BY <3>1, <3>2, <3>3
  <2>6. \E p \in rows' : p.table = Heritage[asked.table][level'] /\ p.id = at' /\ Store!Above(p, n)
    <3>1. Level(r.table) > 1
      BY <1>6, TableAssumption
    <3>2. PICK p \in rows : r \in Children(p) /\ Store!Above(p, r) /\ Level(p.table) = Level(r.table) - 1
      BY <1>2, <1>3, <3>1, ParentAbove
    <3>3. p.table = Heritage[asked.table][level'] /\ p.id = at'
      BY <1>2, <2>1, <3>2 DEF Children, Parent
    <3>4. ~Store!Above(r, p)
      <4>1. IsNode(p) /\ Len(p.keys) = Len(n.keys) - 1 /\ Len(r.keys) = Len(n.keys)
        BY <1>3, <1>4, <3>2, RowIsNode DEF IsNode
      <4> QED BY <1>3, <1>4, <4>1, AboveIs
    <3>5. p \in rows'
      BY <1>1, <1>2, <1>3, <3>2, <3>4, CascadeIsUnder
    <3>6. Store!Above(p, n)
      BY <3>2, NodeOfRow DEF n
    <3> QED BY <3>3, <3>5, <3>6
  <2> QED BY <1>1, <1>2, <1>3, <2>1, <2>2, <2>3, <2>4, <2>5, <2>6, GoesOnUp
<1>7. CASE r.table \notin Upon
  <2>1. Done
    BY <1>1, <1>7 DEF Sweeps
  <2>2. Store!Emptied(n) = {}
    <3> SUFFICES ASSUME NEW m \in Store!Emptied(n) PROVE FALSE
      OBVIOUS
    <3>1. /\ m \in Old \ {n} /\ Store!Above(m, n)
          /\ \A i \in (Len(m.keys) + 1)..Len(n.keys) : Heritage[n.table][i] \in Upon
      BY <1>1, Seen
    <3>2. Len(n.keys) \in (Len(m.keys) + 1)..Len(n.keys)
      BY <1>4, <1>5, <3>1
    <3> QED BY <1>3, <1>4, <1>7, <3>1, <3>2
  <2>3. /\ Nodes(IF pc = "idle" THEN rows ELSE before) = Old
        /\ Nodes(IF pc = "idle" THEN rows ELSE before)' = Old \ (Store!Under(n) \cup Store!Emptied(n))
    BY <1>1, <1>2, <2>1, <2>2, Seen DEF Done, Nodes
  <2>4. Store!Delete(asked)
    BY <1>1, <1>2, <1>3, <2>3 DEF Store!Delete
  <2> QED BY <1>1, <2>1, <2>4, Over, Answers
<1> QED BY <1>6, <1>7

\* What is not below the row itself is what has no row that belongs to it.
LEMMA OnlyItself ==
  ASSUME TreeInv, NEW p \in rows, Empty(p), NEW o \in rows, Store!Above(p, o)
  PROVE  o = p
<1> DEFINE S == {p}
<1>1. p \in S /\ \A q \in rows \cap S : Children(q) \subseteq S
  BY DEF Empty
<1>2. \A x \in S : x = p
  OBVIOUS
<1> HIDE DEF S
<1>3. \A x \in rows : Store!Above(p, x) => x \in S
  BY <1>1, Downwards
<1> QED BY <1>2, <1>3

\* Of a container that stands in the way of the sweep. The row p is above the node n
\* that went and at the level that destroy_upon_dependent looks at.
LEMMA EmptyIsEmptied ==
  ASSUME ModelInv, StoreInv, pc = "upon", NEW n \in Old, IsNode(n), level \in Nat,
         \A i \in (level + 1)..Len(n.keys) : Heritage[n.table][i] \in Upon,
         \A m \in Old \ {n} : Store!Above(m, n) /\ Len(m.keys) > level => m \in Store!Emptied(n),
         Nodes(rows) = Old \ (Store!Under(n) \cup {m \in Store!Emptied(n) : Len(m.keys) > level}),
         level < Len(n.keys),
         NEW p \in rows, Store!Above(p, n), Len(p.keys) = level
  PROVE  Empty(p) <=> NodeOf(p) \in Store!Emptied(n)
<1> DEFINE k == NodeOf(p)
<1>1. TreeInv /\ Tree(Old) /\ IsNode(p) /\ IsNode(k) /\ k \in Nodes(rows) /\ k \in Old
      /\ k.table = p.table /\ k.keys = p.keys /\ Store!Above(k, n)
  <2>1. TreeInv /\ IsNode(p)
    BY RowIsNode DEF ModelInv, TreeInv
  <2>2. k \in Nodes(rows)
    BY NodeOfRow
  <2> QED BY <2>1, <2>2, NodeOfRow DEF StoreInv
<1>2. k # n
  BY <1>1
<1> HIDE DEF k
<1>3. ASSUME Empty(p) PROVE k \in Store!Emptied(n)
  <2> SUFFICES ASSUME NEW o \in Old, Store!Above(k, o) PROVE Store!Above(o, n) \/ Store!Above(n, o)
    BY <1>1, <1>2, Seen
  <2>1. CASE o \in Nodes(rows)
    <3>1. PICK x \in rows : o = NodeOf(x)
      BY <2>1, NodeOfRow
    <3>2. Store!Above(p, x)
      BY <3>1, NodeOfRow DEF k
    <3>3. x = p
      BY <1>1, <1>3, <3>2, OnlyItself
    <3> QED BY <1>1, <3>1, <3>3 DEF k
  <2>2. CASE o \in Store!Under(n)
    BY <2>2, Seen
  <2>3. CASE o \in Store!Emptied(n)
    BY <2>3, Seen
  <2> QED BY <2>1, <2>2, <2>3
<1>4. ASSUME k \in Store!Emptied(n), NEW x \in Children(p) PROVE FALSE
  <2>1. x \in rows /\ Store!Above(p, x) /\ Level(x.table) = Level(p.table) + 1
    BY <1>1, <1>4, ChildAbove
  <2> DEFINE o == NodeOf(x)
  <2>2. o \in Nodes(rows) /\ IsNode(o) /\ o \in Old /\ Store!Above(k, o) /\ o.keys = x.keys /\ o.table = x.table
    BY <1>1, <2>1, NodeOfRow, RowIsNode DEF k
  <2> HIDE DEF o
  <2>3. Len(o.keys) = level + 1
    BY <1>1, <2>1, <2>2 DEF IsNode
  <2>4. Store!Above(o, n) \/ Store!Above(n, o)
    BY <1>4, <2>2, Seen
  <2>5. o \notin Store!Under(n)
    BY <2>2
  <2>6. ~Store!Above(n, o)
    BY <2>2, <2>5, Seen
  <2>7. o # n
    BY <2>6, AboveSelf
  <2>8. o \in Store!Emptied(n) /\ Len(o.keys) > level
    BY <2>2, <2>3, <2>4, <2>6, <2>7
  <2> QED BY <2>2, <2>8
<1>5. k \in Store!Emptied(n) => Empty(p)
  BY <1>4 DEF Empty
<1> QED BY <1>3, <1>5 DEF k

\* A container above one that is emptied is emptied only if that one is.
LEMMA EmptiedDown ==
  ASSUME Tree(Old), pc # "idle", NEW n \in Old, NEW k \in Old \ {n}, Store!Above(k, n),
         NEW m \in Store!Emptied(n), Store!Above(m, k)
  PROVE  k \in Store!Emptied(n)
<1>1. IsNode(k) /\ IsNode(n) /\ IsNode(m) /\ m \in Old
  BY Seen DEF Tree
<1>2. Len(m.keys) \in Nat /\ Len(k.keys) \in Nat /\ Len(n.keys) \in Nat /\ Len(m.keys) <= Len(k.keys)
  BY <1>1, NodeFacts, AboveIs
<1>3. \A i \in (Len(k.keys) + 1)..Len(n.keys) : Heritage[n.table][i] \in Upon
  <2>1. \A i \in (Len(m.keys) + 1)..Len(n.keys) : Heritage[n.table][i] \in Upon
    BY Seen
  <2>2. \A i \in (Len(k.keys) + 1)..Len(n.keys) : i \in (Len(m.keys) + 1)..Len(n.keys)
    BY <1>2
  <2> QED BY <2>1, <2>2
<1>4. ASSUME NEW o \in Store!Under(k) PROVE Store!Above(o, n) \/ Store!Above(n, o)
  <2>1. o \in Old /\ Store!Above(k, o) /\ IsNode(o)
    BY Seen DEF Tree
  <2>2. Store!Above(m, o)
    BY <1>1, <2>1, AboveTwice
  <2>3. o \in Store!Under(m)
    BY <2>1, <2>2, Seen
  <2> QED BY <2>3, Seen
<1> QED BY <1>3, <1>4, Seen

\* The sweep ends at p: nothing above p is emptied.
LEMMA SweepEnds ==
  ASSUME Tree(Old), pc # "idle", NEW n \in Old, NEW k \in Old \ {n}, Store!Above(k, n),
         k \notin Store!Emptied(n), NEW m \in Store!Emptied(n)
  PROVE  Len(m.keys) > Len(k.keys)
<1>1. IsNode(k) /\ IsNode(n) /\ IsNode(m) /\ Store!Above(m, n)
  BY Seen DEF Tree
<1>2. Len(m.keys) \in Nat /\ Len(k.keys) \in Nat
  BY <1>1, NodeFacts
<1>3. Len(m.keys) <= Len(k.keys) => Store!Above(m, k)
  BY <1>1, AboveLine
<1> QED BY <1>2, <1>3, EmptiedDown

LEMMA DestroyUponSeen ==
  ASSUME ModelInv, StoreInv, DestroyUpon
  PROVE  StoreInv' /\ (Store!Next \/ Unseen)
<1>1. PICK p \in rows :
        /\ pc = "upon" /\ p.table = Table /\ p.id = at /\ UNCHANGED <<stops, refused>>
        /\ rows' = IF Empty(p) THEN rows \ {p} ELSE rows
        /\ IF Empty(p) /\ Sweeps(p.table)
           THEN at' = p.parent /\ level' = level - 1 /\ UNCHANGED <<pc, request, asked, before>>
           ELSE Done
  BY DEF DestroyUpon
<1>2. /\ request = asked /\ asked \in Requests /\ asked.verb = "DELETE" /\ Tree(Old) /\ TreeInv
      /\ level \in 1..Level(asked.table)
  BY <1>1 DEF StoreInv, ModelInv, TreeInv, FindInv
<1>3. /\ IsNode(p) /\ Len(p.keys) = level /\ level \in Nat /\ level >= 1 /\ Level(p.table) = level
      /\ p.table = Heritage[asked.table][level]
      /\ level > 1 => Parent(p.table) = Heritage[asked.table][level - 1]
  <2>1. asked.table \in Tables /\ p.table = Heritage[asked.table][level]
    BY <1>1, <1>2, RequestFacts DEF Table
  <2>2. Level(p.table) = level /\ (level > 1 => Parent(p.table) = Heritage[asked.table][level - 1])
    BY <1>2, <2>1, LevelFacts
  <2>3. IsNode(p)
    BY <1>2, RowIsNode
  <2> QED BY <1>2, <2>1, <2>2, <2>3, TableFacts DEF IsNode
<1>4. PICK n \in Old :
        /\ Store!Named(asked, n) /\ level < Len(n.keys)
        /\ \A i \in (level + 1)..Len(n.keys) : Heritage[n.table][i] \in Upon
        /\ \A m \in Old \ {n} : Store!Above(m, n) /\ Len(m.keys) > level => m \in Store!Emptied(n)
        /\ Nodes(rows) = Old \ (Store!Under(n) \cup {m \in Store!Emptied(n) : Len(m.keys) > level})
        /\ \E o \in rows : o.table = Table /\ o.id = at /\ Store!Above(o, n)
  BY <1>1 DEF StoreInv, Sweeping
<1>5. Store!Above(p, n) /\ IsNode(n)
  <2>1. PICK o \in rows : o.table = Table /\ o.id = at /\ Store!Above(o, n)
    BY <1>4
  <2>2. o = p
    BY <1>1, <1>2, <2>1 DEF TreeInv, RowsDistinct
  <2> QED BY <1>2, <2>1, <2>2 DEF Tree
<1> DEFINE k == NodeOf(p)
<1>6. /\ k \in Old \ {n} /\ k.table = p.table /\ k.keys = p.keys /\ IsNode(k) /\ Store!Above(k, n)
      /\ Empty(p) <=> k \in Store!Emptied(n)
  <2>1. k \in Nodes(rows) /\ k.table = p.table /\ k.keys = p.keys /\ IsNode(k) /\ Store!Above(k, n)
    BY <1>3, <1>5, NodeOfRow
  <2>2. Empty(p) <=> k \in Store!Emptied(n)
    BY <1>1, <1>3, <1>4, <1>5, EmptyIsEmptied
  <2>3. k # n
    BY <1>3, <1>4, <2>1
  <2> QED BY <1>4, <2>1, <2>2, <2>3
<1>7. Nodes(rows \ {p}) = Nodes(rows) \ {k}
  <2>1. Nodes({p}) = {k}
    BY NodeOfRow
  <2>2. {p} \in SUBSET rows
    OBVIOUS
  <2> QED BY <1>2, <2>1, <2>2, NodesGo
<1> HIDE DEF k
<1>8. \A m \in Old \ {n} : Store!Above(m, n) => Len(m.keys) \in Nat /\ (Len(m.keys) = level => m = k)
  <2> SUFFICES ASSUME NEW m \in Old \ {n}, Store!Above(m, n)
               PROVE  Len(m.keys) \in Nat /\ (Len(m.keys) = level => m = k)
    OBVIOUS
  <2>1. IsNode(m) /\ Len(m.keys) \in Nat
    BY <1>2, NodeFacts DEF Tree
  <2>2. ASSUME Len(m.keys) = level PROVE m = k
    <3>1. Len(m.keys) = Len(k.keys) /\ Len(m.keys) <= Len(k.keys)
      BY <1>3, <1>6, <2>1, <2>2
    <3>2. Store!Above(m, k)
      BY <1>5, <1>6, <2>1, <3>1, AboveLine
    <3>3. m.table = k.table /\ m.keys = k.keys
      BY <1>6, <2>1, <3>1, <3>2, AboveSame
    <3> QED BY <1>2, <1>6, <3>3 DEF Tree
  <2> QED BY <2>1, <2>2
<1>9. \A m \in Store!Emptied(n) : m \in Old \ {n} /\ Store!Above(m, n)
  BY <1>1, Seen
<1>10. k.keys = p.keys /\ Len(k.keys) = level /\ p.table = Heritage[n.table][level]
  BY <1>3, <1>5, <1>6, AboveIs
<1>11. CASE Empty(p) /\ p.table \in Upon
  <2>1. /\ pc' = "upon" /\ at' = p.parent /\ level' = level - 1 /\ rows' = rows \ {p}
        /\ UNCHANGED <<request, asked, before, stops>>
    BY <1>1, <1>11 DEF Sweeps
  <2>2. level' < Len(n.keys)
    BY <1>3, <1>4, <1>5, <2>1, NodeFacts
  <2>3. \A i \in (level' + 1)..Len(n.keys) : Heritage[n.table][i] \in Upon
    <3>1. \A i \in (level' + 1)..Len(n.keys) : i = level \/ i \in (level + 1)..Len(n.keys)
      BY <1>3, <1>5, <2>1, NodeFacts
    <3> QED BY <1>4, <1>10, <1>11, <3>1
  <2>4. \A m \in Old \ {n} : Store!Above(m, n) => (Len(m.keys) > level' <=> (Len(m.keys) > level \/ m = k))
    BY <1>3, <1>8, <1>10, <2>1
  <2>5. \A m \in Old \ {n} : Store!Above(m, n) /\ Len(m.keys) > level' => m \in Store!Emptied(n)
    BY <1>4, <1>6, <1>11, <2>4
  <2>6. Nodes(rows') = Old \ (Store!Under(n) \cup {m \in Store!Emptied(n) : Len(m.keys) > level'})
    <3>1. \A m \in Store!Emptied(n) : Len(m.keys) > level' <=> (Len(m.keys) > level \/ m = k)
      BY <1>9, <2>4
    <3>2. {m \in Store!Emptied(n) : Len(m.keys) > level'}
            = {m \in Store!Emptied(n) : Len(m.keys) > level} \cup {k}
      BY <1>6, <1>11, <3>1
    <3>3. \A A, B, C : (A \ (B \cup C)) \ {k} = A \ (B \cup (C \cup {k}))
      OBVIOUS
    <3>4. Nodes(rows') = Nodes(rows) \ {k}
      BY <1>7, <2>1
    <3> QED BY <1>4, <3>2, <3>3, <3>4
  <2>7. \E o \in rows' : o.table = Heritage[asked.table][level'] /\ o.id = at' /\ Store!Above(o, n)
    <3>1. level > 1
      BY <1>3, <1>11, TableAssumption DEF TableAssumption
    <3>2. PICK o \in rows : p \in Children(o) /\ Store!Above(o, p) /\ Level(o.table) = Level(p.table) - 1
      BY <1>2, <1>3, <3>1, ParentAbove
    <3>3. o.table = Heritage[asked.table][level'] /\ o.id = at'
      BY <1>3, <2>1, <3>1, <3>2 DEF Children
    <3>4. o \in rows'
      BY <1>3, <2>1, <3>2
    <3>5. Store!Above(o, n)
      BY <1>2, <1>3, <1>5, <3>2, RowIsNode, AboveTwice
    <3> QED BY <3>3, <3>4, <3>5
  <2> QED BY <1>1, <1>2, <1>4, <2>1, <2>2, <2>3, <2>5, <2>6, <2>7, GoesOnUp
<1>12. CASE ~(Empty(p) /\ p.table \in Upon)
  <2>1. Done
    BY <1>1, <1>12 DEF Sweeps
  <2>2. Nodes(rows') = Old \ (Store!Under(n) \cup Store!Emptied(n))
    <3>1. CASE Empty(p)
      <4>1. \A m \in Store!Emptied(n) : Len(m.keys) > level \/ m = k
        <5> SUFFICES ASSUME NEW m \in Store!Emptied(n), Len(m.keys) < level PROVE FALSE
          BY <1>3, <1>8, <1>9
        <5>1. \A i \in (Len(m.keys) + 1)..Len(n.keys) : Heritage[n.table][i] \in Upon
          BY <1>1, Seen
        <5>2. level \in (Len(m.keys) + 1)..Len(n.keys)
          BY <1>3, <1>4, <1>5, <1>8, <1>9, NodeFacts
        <5> QED BY <1>10, <1>12, <3>1, <5>1, <5>2
      <4>2. Store!Emptied(n) = {m \in Store!Emptied(n) : Len(m.keys) > level} \cup {k}
        BY <1>6, <3>1, <4>1
      <4>3. \A A, B, C : (A \ (B \cup C)) \ {k} = A \ (B \cup (C \cup {k}))
        OBVIOUS
      <4>4. Nodes(rows') = Nodes(rows) \ {k}
        BY <1>1, <1>7, <3>1
      <4> QED BY <1>4, <4>2, <4>3, <4>4
    <3>2. CASE ~Empty(p)
      <4>1. \A m \in Store!Emptied(n) : Len(m.keys) > level
        BY <1>1, <1>2, <1>6, <1>10, <3>2, SweepEnds
      <4>2. Store!Emptied(n) = {m \in Store!Emptied(n) : Len(m.keys) > level}
        BY <4>1
      <4>3. rows' = rows
        BY <1>1, <3>2
      <4> QED BY <1>4, <4>2, <4>3
    <3> QED BY <3>1, <3>2
  <2>3. /\ Nodes(IF pc = "idle" THEN rows ELSE before) = Old
        /\ Nodes(IF pc = "idle" THEN rows ELSE before)' = Old \ (Store!Under(n) \cup Store!Emptied(n))
    BY <1>1, <2>1, <2>2, Seen DEF Done, Nodes
  <2>4. Store!Delete(asked)
    BY <1>1, <1>2, <1>4, <2>3 DEF Store!Delete
  <2> QED BY <1>1, <2>1, <2>4, Over, Answers
<1> QED BY <1>11, <1>12

LEMMA NotFoundSeen ==
  ASSUME ModelInv, StoreInv, NotFound
  PROVE  StoreInv' /\ (Store!Next \/ Unseen)
<1>1. /\ pc = "find" /\ Matching(request.table, request.keys) = {} /\ Done /\ UNCHANGED <<rows, stops>>
  BY DEF NotFound
<1>2. request = asked /\ asked.verb = "DELETE" /\ rows = before
  BY <1>1 DEF StoreInv
<1>3. \A n \in Old : ~Store!Named(asked, n)
  <2> SUFFICES ASSUME NEW n \in Old, Store!Named(asked, n) PROVE FALSE
    OBVIOUS
  <2>1. PICK r \in rows : n = NodeOf(r)
    BY <1>2, NodeOfRow DEF Old
  <2>2. r.table = asked.table /\ r.keys = n.keys /\ IsNode(r) /\ asked.table \in Tables
    BY <2>1, NodeOfRow, RowIsNode DEF Store!Named, ModelInv, TreeInv, IsNode
  <2>3. DOMAIN r.keys = 1..Level(asked.table) /\ DOMAIN Heritage[asked.table] = 1..Level(asked.table)
    BY <2>2, NodeFacts, TableFacts DEF IsNode
  <2>4. \A i \in DOMAIN r.keys : r.keys[i] = asked.keys[i]
                                 \/ (i \in AutoLevels(asked.table) /\ asked.keys[i] = Null)
    BY <2>2, <2>3 DEF Store!Named, AutoLevels
  <2>5. r \in Matching(request.table, request.keys)
    BY <1>2, <2>2, <2>4 DEF Matching
  <2> QED BY <1>1, <2>5
<1>4. /\ Nodes(IF pc = "idle" THEN rows ELSE before) = Old
      /\ Nodes(IF pc = "idle" THEN rows ELSE before)' = Old
  BY <1>1, <1>2, Seen DEF Done, Nodes, Old
<1>5. Store!Delete(asked)
  BY <1>1, <1>2, <1>3, <1>4 DEF Store!Delete
<1> QED BY <1>1, <1>5, Over, Answers

-------------------------------------------------------------------------------
(***************************************************************************)
(* Paths                                                                    *)
(***************************************************************************)
\* The beginnings of a path.
LEMMA PathOf ==
  ASSUME NEW t \in Tables, NEW keys, keys = [j \in 1..Level(t) |-> keys[j]], NEW i \in 1..Level(t)
  PROVE  /\ Len(SubSeq(keys, 1, i)) = i /\ DOMAIN keys = 1..Level(t)
         /\ \A j \in 1..i : SubSeq(keys, 1, i)[j] = keys[j]
         /\ SubSeq(keys, 1, i) \in Seq({keys[j] : j \in 1..Level(t)})
<1> DEFINE n == Level(t)
           K == {keys[j] : j \in 1..n}
<1>1. n \in Nat
  BY TableFacts
<1> HIDE DEF n
<1>2. DOMAIN keys = 1..n /\ \A j \in 1..n : keys[j] \in K
  BY DEF n
<1> HIDE DEF K
<1>3. keys \in [1..n -> K]
  <2>1. keys = [j \in 1..n |-> keys[j]]
    BY DEF n
  <2> QED BY <1>2, <2>1
<1>4. keys \in Seq(K) /\ Len(keys) = n
  <2>1. keys \in Seq(K)
    BY <1>1, <1>3, SeqDef
  <2>2. Len(keys) \in Nat /\ DOMAIN keys = 1..Len(keys)
    BY <2>1, LenProperties
  <2>3. 1..Len(keys) = 1..n
    BY <1>2, <2>2
  <2>4. \A a, b \in Nat : a < b => b \in 1..b /\ b \notin 1..a
    OBVIOUS
  <2>5. \A a, b \in Nat : a < b \/ b < a \/ a = b
    OBVIOUS
  <2>6. Len(keys) = n
    BY <1>1, <2>2, <2>3, <2>4, <2>5, Zenon
  <2> QED BY <2>1, <2>6
<1>5. i \in 1..n /\ \A j \in 1..i : keys[j] \in K
  BY <1>1, <1>2 DEF n
<1>6. /\ Len(SubSeq(keys, 1, i)) = i /\ \A j \in 1..i : SubSeq(keys, 1, i)[j] = keys[j]
      /\ SubSeq(keys, 1, i) \in Seq(K)
  <2>1. /\ SubSeq(keys, 1, i) \in Seq(K)
        /\ Len(SubSeq(keys, 1, i)) = IF 1 <= i THEN i - 1 + 1 ELSE 0
        /\ \A j \in 1..(i - 1 + 1) : SubSeq(keys, 1, i)[j] = keys[1 + j - 1]
    BY <1>1, <1>4, <1>5, SubSeqProperties
  <2>2. \A j \in 1..i : 1 + j - 1 = j /\ j \in 1..(i - 1 + 1)
    BY <1>1, <1>5
  <2> QED BY <1>1, <1>5, <2>1, <2>2
<1> QED BY <1>2, <1>6 DEF n, K
\* Two sequences are the same, whatever they are sequences of.
LEMMA SameSeq ==
  ASSUME NEW K, NEW V, NEW a \in Seq(K), NEW b \in Seq(V), Len(a) = Len(b), \A i \in 1..Len(a) : a[i] = b[i]
  PROVE  a = b
<1>1. a \in Seq(K \cup V) /\ b \in Seq(K \cup V)
  BY SeqMonotonic
<1> QED BY <1>1, SeqEqual

LEMMA ChosenPath ==
  ASSUME asked \in Requests
  PROVE  LET keys == Store!Chosen(asked.table, asked.keys)
         IN  /\ asked.table \in Tables
             /\ keys = [j \in 1..Level(asked.table) |-> keys[j]]
             /\ \A j \in 1..Level(asked.table) :
                  keys[j] = IF Heritage[asked.table][j] \in Sequenced /\ asked.keys[j] = Null
                            THEN Store!After(Store!Numbers(asked.table, asked.keys, j)) ELSE asked.keys[j]
<1>1. asked.table \in Tables /\ DOMAIN asked.keys = 1..Level(asked.table)
  BY RequestFacts, LenProperties
<1> QED BY <1>1 DEF Store!Chosen

LEMMA MissingFacts ==
  ASSUME pc # "idle", asked \in Requests
  PROVE  LET keys == Store!Chosen(asked.table, asked.keys)
         IN  \A n : n \in Store!Missing(asked.table, keys) <=>
               /\ \E i \in 1..Level(asked.table) :
                    /\ Len(n.keys) = i
                    /\ n = [table |-> Heritage[asked.table][i], keys |-> SubSeq(keys, 1, i), attr |-> NoAttr]
               /\ \A m \in Old : m.table # n.table \/ m.keys # n.keys
<1> DEFINE keys == Store!Chosen(asked.table, asked.keys)
           N(i) == [table |-> Heritage[asked.table][i], keys |-> SubSeq(keys, 1, i), attr |-> NoAttr]
<1>1. asked.table \in Tables /\ keys = [j \in 1..Level(asked.table) |-> keys[j]]
  BY ChosenPath
<1> HIDE DEF keys
<1>2. DOMAIN keys = 1..Level(asked.table)
  BY <1>1
<1>3. \A i \in 1..Level(asked.table) : Len(N(i).keys) = i
  BY <1>1, PathOf
<1>4. Store!Missing(asked.table, keys) =
        {n \in {N(i) : i \in 1..Level(asked.table)} : \A m \in Old : m.table # n.table \/ m.keys # n.keys}
  <2>1. Nodes(IF pc = "idle" THEN rows ELSE before) = Old
    BY Seen
  <2> QED BY <1>2, <2>1 DEF Store!Missing
<1> HIDE DEF N
<1>5. \A n : n \in Store!Missing(asked.table, keys) <=>
        /\ \E i \in 1..Level(asked.table) : Len(n.keys) = i /\ n = N(i)
        /\ \A m \in Old : m.table # n.table \/ m.keys # n.keys
  BY <1>3, <1>4
<1> QED BY <1>5 DEF N, keys

-------------------------------------------------------------------------------
(***************************************************************************)
(* Stopping and arriving                                                    *)
(***************************************************************************)
\* Wherever the server stops in a request, a beginning of its effect is there.
LEMMA CrashSeen ==
  ASSUME ModelInv, StoreInv, Crash
  PROVE  StoreInv' /\ (Store!Next \/ Unseen)
<1>1. pc # "idle" /\ stops' = stops + 1 /\ Done /\ rows' = rows
  BY DEF Crash
<1>2. /\ Nodes(IF pc = "idle" THEN rows ELSE before) = Old
      /\ Nodes(IF pc = "idle" THEN rows ELSE before)' = Nodes(rows)
  BY <1>1, Seen DEF Done, Nodes
<1>3. CASE pc = "find"
  <2>1. Nodes(rows) = Old /\ asked.verb = "DELETE"
    BY <1>3 DEF StoreInv, Old
  <2>2. Store!DeleteBegun(asked)
    BY <1>1, <1>2, <2>1 DEF Store!DeleteBegun
  <2> QED BY <1>1, <2>2, Over, Answers
<1>4. CASE pc = "upon"
  <2>1. asked.verb = "DELETE" /\ Tree(Old) /\ level \in 1..Level(asked.table) /\ asked \in Requests
    BY <1>4 DEF StoreInv, ModelInv, FindInv
  <2>2. PICK n \in Old :
          /\ Store!Named(asked, n) /\ level < Len(n.keys)
          /\ Nodes(rows) = Old \ (Store!Under(n) \cup {m \in Store!Emptied(n) : Len(m.keys) > level})
    BY <1>4 DEF StoreInv, Sweeping
  <2>3. Len(n.keys) = Len(asked.keys) /\ level \in Nat /\ Len(asked.keys) \in Nat
    BY <2>1, <2>2, RequestFacts, TableFacts DEF Tree, IsNode, Store!Named
  <2>4. level + 1 \in 1..Len(asked.keys)
    BY <2>2, <2>3
  <2>5. \A m \in Store!Emptied(n) : Len(m.keys) > level <=> Len(m.keys) >= level + 1
    <3> SUFFICES ASSUME NEW m \in Store!Emptied(n) PROVE Len(m.keys) > level <=> Len(m.keys) >= level + 1
      OBVIOUS
    <3>1. Len(m.keys) \in Nat
      BY <1>4, <2>1, Seen, NodeFacts DEF Tree
    <3> QED BY <2>3, <3>1
  <2>6. {m \in Store!Emptied(n) : Len(m.keys) > level} = {m \in Store!Emptied(n) : Len(m.keys) >= level + 1}
    BY <2>5
  <2>7. Nodes(IF pc = "idle" THEN rows ELSE before)'
          = Nodes(IF pc = "idle" THEN rows ELSE before)
              \ (Store!Under(n) \cup {m \in Store!Emptied(n) : Len(m.keys) >= level + 1})
    BY <1>2, <2>2, <2>6
  <2>8. n \in Nodes(IF pc = "idle" THEN rows ELSE before)
    BY <1>2
  <2>9. Store!DeleteBegun(asked)
    BY <1>1, <2>1, <2>2, <2>4, <2>7, <2>8 DEF Store!DeleteBegun
  <2> QED BY <1>1, <2>9, Over, Answers
<1>5. CASE pc = "get"
  <2>1. /\ asked.verb # "DELETE" /\ asked \in Requests /\ level \in 1..(Level(request.table) + 1)
        /\ request = [asked EXCEPT !.keys = request.keys]
    BY <1>5 DEF ModelInv, GetInv
  <2>2. /\ asked.verb \in {"PUT", "POST"} /\ Len(asked.keys) = Level(asked.table)
        /\ Level(asked.table) \in Nat /\ request.table = asked.table
        /\ asked.keys \in Seq(KeyValues)
    <3>1. /\ asked = [verb |-> asked.verb, table |-> asked.table, keys |-> asked.keys, attr |-> asked.attr]
          /\ asked.verb \in {"PUT", "POST", "DELETE"} /\ asked.table \in Tables
          /\ asked.keys \in Seq(KeyValues) /\ Len(asked.keys) = Level(asked.table)
      BY <2>1, RequestFacts
    <3>2. request.table = asked.table
      BY <2>1, <3>1
    <3> QED BY <2>1, <3>1, <3>2, TableFacts
  <2> DEFINE keys == Store!Chosen(asked.table, asked.keys)
             gone == Store!Missing(asked.table, keys)
  <2>3. Nodes(rows) = Old \cup {n \in gone : Len(n.keys) < level}
    BY <1>5 DEF StoreInv, Making
  <2>4. level - 1 \in 0..Len(asked.keys) /\ level \in Nat
    BY <2>1, <2>2
  <2>5. \A n \in gone : Len(n.keys) \in Nat
    <3>1. \A n \in gone : \E i \in 1..Level(asked.table) : Len(n.keys) = i
      BY <1>5, <2>1, MissingFacts
    <3> QED BY <2>2, <3>1
  <2> HIDE DEF gone
  <2>6. {n \in gone : Len(n.keys) < level} = {n \in gone : Len(n.keys) <= level - 1}
    BY <2>4, <2>5
  <2>7. Nodes(IF pc = "idle" THEN rows ELSE before)'
          = Nodes(IF pc = "idle" THEN rows ELSE before) \cup {n \in gone : Len(n.keys) <= level - 1}
    BY <1>2, <2>3, <2>6
  <2>8. Store!PutBegun(asked)
    BY <1>1, <2>2, <2>4, <2>7 DEF Store!PutBegun, gone
  <2> QED BY <1>1, <2>8, Over, Answers
<1> QED BY <1>1, <1>3, <1>4, <1>5 DEF ModelInv

-------------------------------------------------------------------------------
(***************************************************************************)
(* The number that is chosen                                                *)
(***************************************************************************)
LEMMA StepBy ==
  ASSUME NEW a \in Nat, NEW k \in Nat, Step * k > a
  PROVE  k >= a \div Step + 1 /\ Step * k >= (a \div Step + 1) * Step
<1>1. Step \in Nat /\ Step > 0
  BY TableAssumption DEF TableAssumption
<1>2. PICK d \in Nat : d = a \div Step
  BY <1>1
<1>3. Step * d <= a
  BY <1>1, <1>2
<1>4. k >= d + 1
  <2> SUFFICES ASSUME k <= d PROVE FALSE
    BY <1>2
  <2>1. Step * k <= Step * d
    BY <1>1, <1>2
  <2> QED BY <1>1, <1>2, <1>3, <2>1
<1>5. Step * k >= Step * (d + 1)
  BY <1>1, <1>2, <1>4
<1>6. Step * (d + 1) = (d + 1) * Step
  BY <1>1, <1>2
<1> QED BY <1>2, <1>4, <1>5, <1>6

\* set_next_<key> computes the least multiple of the step after all of the list.
LEMMA AfterIs ==
  ASSUME NEW N \in Nat, NEW used, used \subseteq 1..N,
         NEW last \in used \cup {0}, \A m \in used : m <= last
  PROVE  Store!After(used) = (last \div Step + 1) * Step
<1> DEFINE ks    == UNION {1..(m + 1) : m \in used \cup {0}}
           after == {n \in {Step * k : k \in ks} : \A m \in used : m < n}
           next  == (last \div Step + 1) * Step
<1>1. Step \in Nat /\ Step > 0 /\ used \subseteq Nat /\ last \in Nat
  BY TableAssumption DEF TableAssumption
<1>2. PICK d \in Nat : d = last \div Step + 1
  BY <1>1
<1>3. next \in Nat /\ next > last /\ next = Step * d
  <2>1. Step * d = d * Step
    BY <1>1, <1>2
  <2> QED BY <1>1, <1>2, <2>1, NextMultiple
<1> HIDE DEF next
<1>4. ks \subseteq Nat /\ \A k \in ks : k >= 1
  BY <1>1
<1>5. d \in ks
  <2>1. last \div Step <= last
    BY <1>1
  <2>2. d \in 1..(last + 1)
    BY <1>1, <1>2, <2>1
  <2> QED BY <2>2
<1> HIDE DEF ks
<1>6. next \in after
  BY <1>1, <1>3, <1>5
<1>7. ASSUME NEW n \in after PROVE n \in Nat /\ next <= n
  <2>1. PICK k \in ks : n = Step * k
    OBVIOUS
  <2>2. k \in Nat /\ k >= 1 /\ n \in Nat /\ n > 0
    BY <1>1, <1>4, <2>1
  <2>3. n > last
    BY <1>1, <2>2
  <2>4. n >= (last \div Step + 1) * Step
    BY <1>1, <2>1, <2>2, <2>3, StepBy
  <2> QED BY <2>2, <2>4 DEF next
<1>8. Store!After(used) = CHOOSE n \in after : \A m \in after : n <= m
  BY DEF Store!After, ks
<1> HIDE DEF after
<1>9. \A n \in after : (\A m \in after : n <= m) => n = next
  BY <1>3, <1>6, <1>7
<1>10. \E n \in after : \A m \in after : n <= m
  BY <1>6, <1>7
<1>11. Store!After(used) \in after /\ \A m \in after : Store!After(used) <= m
  BY <1>8, <1>10
<1> QED BY <1>9, <1>11 DEF next

\* Above a row there is a row at every level.
LEMMA AncestorAt ==
  ASSUME TreeInv, NEW x \in rows, NEW j \in 1..Level(x.table)
  PROVE  \E p \in rows : Store!Above(p, x) /\ Level(p.table) = j
<1> DEFINE up == {p \in rows : Store!Above(p, x) /\ Level(p.table) >= j}
           T  == {Level(p.table) : p \in up}
<1>1. IsNode(x) /\ Level(x.table) \in Nat /\ j \in Nat /\ j >= 1 /\ j <= Level(x.table)
  BY RowIsNode, RowFacts DEF TreeInv
<1>2. x \in up
  BY <1>1, AboveSelf
<1>3. T \subseteq Nat /\ T # {}
  BY <1>2, RowFacts DEF TreeInv
<1>4. PICK p \in up : \A q \in up : Level(p.table) <= Level(q.table)
  <2>1. PICK l \in T : \A k \in T : l <= k
    BY <1>3, LeastOf
  <2>2. PICK p \in up : l = Level(p.table)
    BY <2>1
  <2>3. \A q \in up : Level(q.table) \in T
    OBVIOUS
  <2> QED BY <2>1, <2>2, <2>3
<1>5. p \in rows /\ Store!Above(p, x) /\ Level(p.table) >= j /\ Level(p.table) \in Nat /\ IsNode(p)
  BY <1>4, RowIsNode, RowFacts DEF TreeInv
<1>6. CASE Level(p.table) > j
  <2>1. PICK o \in rows : Store!Above(o, p) /\ Level(o.table) = Level(p.table) - 1
    BY <1>1, <1>5, <1>6, ParentAbove
  <2>2. Store!Above(o, x)
    BY <1>1, <1>5, <2>1, RowIsNode, AboveTwice
  <2>3. o \in up
    BY <1>1, <1>5, <1>6, <2>1, <2>2
  <2> QED BY <1>4, <1>5, <2>1, <2>3
<1> QED BY <1>1, <1>5, <1>6

\* No row has a number left out.
LEMMA NumberedKeys ==
  ASSUME TreeInv, NEW x \in rows, NEW j \in AutoLevels(x.table)
  PROVE  x.keys[j] # Null
<1>1. /\ IsNode(x) /\ j \in 1..Level(x.table) /\ Heritage[x.table][j] \in Sequenced
  BY RowIsNode, TableFacts DEF AutoLevels, IsNode
<1>2. PICK p \in rows : Store!Above(p, x) /\ Level(p.table) = j
  BY <1>1, AncestorAt
<1>3. IsNode(p) /\ Len(p.keys) = j
  BY <1>2, RowIsNode DEF IsNode
<1>4. p.table = Heritage[x.table][j] /\ p.keys[j] = x.keys[j]
  BY <1>1, <1>2, <1>3, AboveIs
<1>5. PICK N \in Nat : \A r \in rows : r.table \in Sequenced => r.keys[Level(r.table)] \in 1..N
  BY DEF TreeInv, RowsInv
<1>6. x.keys[j] \in Nat
  BY <1>1, <1>2, <1>4, <1>5
<1> QED BY <1>6, TableAssumption DEF TableAssumption

-------------------------------------------------------------------------------
(***************************************************************************)
(* Making                                                                   *)
(***************************************************************************)
LEMMA SameBeginning ==
  ASSUME NEW s \in Seq(KeyValues), NEW t \in Seq(KeyValues), NEW l \in 0..Len(s), l \in 0..Len(t)
  PROVE  SubSeq(s, 1, l) = SubSeq(t, 1, l) <=> \A i \in 1..l : s[i] = t[i]
<1>1. SubSeq(t, 1, l) \in Seq(KeyValues) /\ Len(SubSeq(t, 1, l)) = l /\ \A i \in 1..l : SubSeq(t, 1, l)[i] = t[i]
  BY SamePath
<1>2. SubSeq(t, 1, l) = SubSeq(s, 1, l) <=> \A i \in 1..l : SubSeq(t, 1, l)[i] = s[i]
  BY <1>1, SamePath
<1> QED BY <1>1, <1>2

\* The request that makes rows, as it came.
LEMMA AskedFacts ==
  ASSUME ModelInv, pc = "get"
  PROVE  /\ asked \in Requests /\ asked.verb \in {"PUT", "POST"} /\ asked.table \in Tables
         /\ asked.keys \in Seq(KeyValues) /\ Len(asked.keys) = Level(asked.table)
         /\ Level(asked.table) \in Nat /\ level \in Nat /\ level >= 1 /\ level <= Level(asked.table) + 1
         /\ request.table = asked.table /\ request.attr = asked.attr /\ request.verb = asked.verb
         /\ \A i \in AutoLevels(asked.table) : i \in 1..Level(asked.table) /\ asked.keys[i] = Null
<1>1. /\ asked \in Requests /\ asked.verb # "DELETE" /\ level \in 1..(Level(request.table) + 1)
      /\ request = [asked EXCEPT !.keys = request.keys]
  BY DEF ModelInv, GetInv
<1>2. /\ asked = [verb |-> asked.verb, table |-> asked.table, keys |-> asked.keys, attr |-> asked.attr]
      /\ asked.verb \in {"PUT", "POST", "DELETE"} /\ asked.table \in Tables
      /\ asked.keys \in Seq(KeyValues) /\ Len(asked.keys) = Level(asked.table)
  BY <1>1, RequestFacts
<1>3. request.table = asked.table /\ request.attr = asked.attr /\ request.verb = asked.verb
  BY <1>1, <1>2
<1>4. Level(asked.table) \in Nat
  BY <1>2, TableFacts
<1>5. \A i \in AutoLevels(asked.table) : i \in 1..Level(asked.table) /\ asked.keys[i] = Null
  BY <1>1, <1>2, TableFacts, MakerFacts DEF AutoLevels
<1>6. level \in Nat /\ level >= 1 /\ level <= Level(asked.table) + 1
  BY <1>1, <1>3, <1>4
<1> QED BY <1>1, <1>2, <1>3, <1>4, <1>5, <1>6

\* What is made so far is above the level.
LEMMA OldRows ==
  ASSUME ModelInv, StoreInv, pc = "get"
  PROVE  /\ \A x \in rows : Len(x.keys) >= level => NodeOf(x) \in Old
         /\ \A n \in Old : \E x \in rows : n = NodeOf(x)
<1> DEFINE keys == Store!Chosen(asked.table, asked.keys)
<1>1. Nodes(rows) = Old \cup {n \in Store!Missing(asked.table, keys) : Len(n.keys) < level}
  BY DEF StoreInv, Making
<1> HIDE DEF keys
<1>2. ASSUME NEW x \in rows, Len(x.keys) >= level PROVE NodeOf(x) \in Old
  <2>1. NodeOf(x) \in Nodes(rows) /\ NodeOf(x).keys = x.keys
    BY NodeOfRow
  <2>2. Len(x.keys) \in Nat /\ level \in Nat
    BY AskedFacts, RowIsNode, NodeFacts DEF ModelInv, TreeInv
  <2> QED BY <1>1, <1>2, <2>1, <2>2
<1>3. \A n \in Old : n \in Nodes(rows)
  BY <1>1
<1> QED BY <1>2, <1>3, NodeOfRow

\* The list whose numbers set_next looks at is the list as the request found it,
\* or a new one.
LEMMA NumberAsPromised ==
  ASSUME ModelInv, StoreInv, pc = "get", level <= Level(request.table), Table \in Sequenced
  PROVE  NextNumber(Table, Path) = Store!After(Store!Numbers(asked.table, asked.keys, level))
<1> DEFINE any  == [Path EXCEPT ![level] = Null]
           list == {r.keys[level] : r \in Matching(Table, any)}
           used == Store!Numbers(asked.table, asked.keys, level)
           last == IF list = {} THEN 0 ELSE CHOOSE m \in list : \A k \in list : k <= m
<1>1. /\ request.table = asked.table /\ request.table \in Tables /\ asked \in Requests
      /\ level \in Nat /\ level >= 1 /\ Table \in Tables /\ Level(Table) = level
      /\ level \in 1..Level(asked.table)
      /\ AutoLevels(Table) = {j \in AutoLevels(request.table) : j <= level}
      /\ Path \in Seq(KeyValues) /\ Len(Path) = level /\ DOMAIN Path = 1..level
      /\ \A i \in 1..level : Path[i] = request.keys[i]
      /\ \A i \in AutoLevels(Table) : i < level => request.keys[i] # Null
  BY PathFacts, AskedFacts
<1>2. /\ asked.keys \in Seq(KeyValues) /\ Len(asked.keys) = Level(asked.table)
      /\ Level(asked.table) \in Nat
      /\ \A i \in AutoLevels(asked.table) : i \in 1..Level(asked.table) /\ asked.keys[i] = Null
  BY AskedFacts
<1>3. level \in AutoLevels(Table) /\ \A i \in 1..level : i \in 1..(level - 1) \/ i = level
  BY <1>1, TableFacts DEF AutoLevels
<1>4. PICK N \in Nat : \A r \in rows : r.table \in Sequenced => r.keys[Level(r.table)] \in 1..N
  BY DEF ModelInv, RowsInv
<1>5. \A x \in rows : x.table = Table =>
        /\ IsNode(x) /\ Len(x.keys) = level /\ DOMAIN x.keys = 1..level
        /\ NodeOf(x) \in Old
  <2> SUFFICES ASSUME NEW x \in rows, x.table = Table
               PROVE  IsNode(x) /\ Len(x.keys) = level /\ DOMAIN x.keys = 1..level /\ NodeOf(x) \in Old
    OBVIOUS
  <2>1. IsNode(x) /\ Len(x.keys) = level
    BY <1>1, RowIsNode DEF ModelInv, TreeInv, IsNode
  <2> QED BY <1>1, <2>1, NodeFacts, OldRows
<1>6. \A x \in rows : x.table = Table =>
        (x \in Matching(Table, any) <=> \A i \in 1..(level - 1) : x.keys[i] = request.keys[i])
  <2> SUFFICES ASSUME NEW x \in rows, x.table = Table
               PROVE  x \in Matching(Table, any) <=> \A i \in 1..(level - 1) : x.keys[i] = request.keys[i]
    OBVIOUS
  <2>1. any[level] = Null /\ \A i \in 1..(level - 1) : any[i] = request.keys[i]
    BY <1>1
  <2>2. x \in Matching(Table, any) <=>
          \A i \in 1..level : x.keys[i] = any[i] \/ (i \in AutoLevels(Table) /\ any[i] = Null)
    BY <1>5 DEF Matching
  <2>3. \A i \in 1..(level - 1) : i \in 1..level /\ i < level
    BY <1>1
  <2> HIDE DEF any
  <2> QED BY <1>1, <1>3, <2>1, <2>2, <2>3
<1> HIDE DEF any
<1>7. list \subseteq 1..N
  BY <1>1, <1>4 DEF Matching
<1>8. used = {n.keys[level] : n \in {m \in Old : /\ m.table = Table
                                       /\ SubSeq(m.keys, 1, level - 1) = SubSeq(asked.keys, 1, level - 1)}}
  <2>1. Nodes(IF pc = "idle" THEN rows ELSE before) = Old
    BY Seen
  <2> QED BY <1>1, <2>1 DEF Store!Numbers, Table
<1>9. \A x \in rows : x.table = Table =>
        (SubSeq(x.keys, 1, level - 1) = SubSeq(asked.keys, 1, level - 1)
           <=> \A i \in 1..(level - 1) : x.keys[i] = asked.keys[i])
  <2> SUFFICES ASSUME NEW x \in rows, x.table = Table
               PROVE  SubSeq(x.keys, 1, level - 1) = SubSeq(asked.keys, 1, level - 1)
                        <=> \A i \in 1..(level - 1) : x.keys[i] = asked.keys[i]
    OBVIOUS
  <2>1. x.keys \in Seq(KeyValues) /\ level - 1 \in 0..Len(x.keys) /\ level - 1 \in 0..Len(asked.keys)
    BY <1>1, <1>2, <1>5 DEF IsNode
  <2> QED BY <1>2, <2>1, SameBeginning
<1>10. used = list
  <2>1. CASE ~Chosen
    <3>1. \A i \in 1..(level - 1) : request.keys[i] = asked.keys[i]
      <4> SUFFICES ASSUME NEW i \in 1..(level - 1), request.keys[i] # asked.keys[i] PROVE FALSE
        OBVIOUS
      <4>1. i \in 1..Level(request.table) /\ i < level
        BY <1>1, <1>2
      <4>2. i \in AutoLevels(request.table)
        BY <4>1 DEF ModelInv, GetInv
      <4> QED BY <1>1, <1>2, <2>1, <4>1, <4>2 DEF Chosen
    <3>2. \A x \in rows : x.table = Table =>
            (x \in Matching(Table, any) <=> SubSeq(x.keys, 1, level - 1) = SubSeq(asked.keys, 1, level - 1))
      BY <1>6, <1>9, <3>1
    <3>3. ASSUME NEW k \in list PROVE k \in used
      <4>1. PICK x \in Matching(Table, any) : k = x.keys[level]
        OBVIOUS
      <4>2. x \in rows /\ x.table = Table
        BY DEF Matching
      <4>3. NodeOf(x) \in Old /\ NodeOf(x).table = Table /\ NodeOf(x).keys = x.keys
        BY <1>5, <4>2, NodeOfRow
      <4> QED BY <1>8, <3>2, <4>1, <4>2, <4>3
    <3>4. ASSUME NEW k \in used PROVE k \in list
      <4>1. PICK n \in Old : /\ n.table = Table /\ k = n.keys[level]
                             /\ SubSeq(n.keys, 1, level - 1) = SubSeq(asked.keys, 1, level - 1)
        BY <1>8
      <4>2. PICK x \in rows : n = NodeOf(x)
        BY OldRows
      <4>3. x.table = Table /\ x.keys = n.keys
        BY <4>1, <4>2, NodeOfRow
      <4>4. x \in Matching(Table, any)
        BY <3>2, <4>1, <4>3
      <4> QED BY <4>1, <4>3, <4>4
    <3> QED BY <3>3, <3>4
  <2>2. CASE Chosen
    <3>1. PICK j \in AutoLevels(request.table) : j < level
      BY <2>2 DEF Chosen
    <3>2. /\ j \in 1..(level - 1) /\ level > 1 /\ j \in AutoLevels(Table)
          /\ asked.keys[j] = Null
      BY <1>1, <1>2, <3>1
    <3>3. ASSUME NEW k \in list PROVE FALSE
      <4>1. PICK x \in Matching(Table, any) : TRUE
        OBVIOUS
      <4>2. x \in rows /\ x.table = Table
        BY DEF Matching
      <4>3. \A i \in 1..(level - 1) : x.keys[i] = request.keys[i]
        BY <1>6, <4>2
      <4>4. x.parent = at
        BY <3>2, <4>2, <4>3, BelowAt
      <4> QED BY <2>2, <4>2, <4>4, NothingBelow
    <3>4. ASSUME NEW k \in used PROVE FALSE
      <4>1. PICK n \in Old : /\ n.table = Table
                             /\ SubSeq(n.keys, 1, level - 1) = SubSeq(asked.keys, 1, level - 1)
        BY <1>8
      <4>2. PICK x \in rows : n = NodeOf(x)
        BY OldRows
      <4>3. x.table = Table /\ x.keys = n.keys
        BY <4>1, <4>2, NodeOfRow
      <4>4. x.keys[j] = asked.keys[j]
        BY <1>9, <3>2, <4>1, <4>3
      <4>5. x.keys[j] # Null
        BY <3>2, <4>3, NumberedKeys DEF ModelInv, TreeInv
      <4> QED BY <3>2, <4>4, <4>5
    <3> QED BY <3>3, <3>4
  <2> QED BY <2>1, <2>2
<1>11. NextNumber(Table, Path) = (last \div Step + 1) * Step
  BY <1>1 DEF NextNumber, any
<1> HIDE DEF list, used
<1>12. last \in list \cup {0} /\ \A m \in list : m <= last
  <2>1. CASE list = {}
    BY <2>1
  <2>2. CASE list # {}
    <3>1. \E m \in list : \A k \in list : k <= m
      BY <1>4, <1>7, <2>2, Greatest
    <3> QED BY <2>2, <3>1
  <2> QED BY <2>1, <2>2
<1> HIDE DEF last
<1>13. Store!After(list) = (last \div Step + 1) * Step
  BY <1>4, <1>7, <1>12, AfterIs
<1> QED BY <1>10, <1>11, <1>13 DEF used

\* The request goes on to the next level: its key at this level is the one it comes
\* to, and the node at this level is there.
LEMMA GoesOnDown ==
  ASSUME ModelInv, StoreInv, pc = "get", level <= Level(request.table),
         pc' = "get", level' = level + 1, UNCHANGED <<asked, before, stops>>,
         \A i \in 1..Level(asked.table) : i # level => request'.keys[i] = request.keys[i],
         request'.keys[level] = Store!Chosen(asked.table, asked.keys)[level],
         Nodes(rows') = Nodes(rows) \cup {n \in Store!Missing(asked.table, Store!Chosen(asked.table, asked.keys)) :
                                            Len(n.keys) = level}
  PROVE  StoreInv' /\ Unseen
<1> DEFINE keys == Store!Chosen(asked.table, asked.keys)
           gone == Store!Missing(asked.table, keys)
<1>1. /\ Old' = Old /\ Unseen
      /\ \A t, s : Store!Chosen(t, s)' = Store!Chosen(t, s)
      /\ \A t, s : Store!Missing(t, s)' = Store!Missing(t, s)
  BY Standing
<1>2. /\ asked \in Requests /\ level \in Nat /\ Level(asked.table) \in Nat /\ request.table = asked.table
      /\ level <= Level(asked.table)
  BY AskedFacts
<1>3. /\ \A i \in 1..Level(asked.table) : request.keys[i] = IF i < level THEN keys[i] ELSE asked.keys[i]
      /\ Nodes(rows) = Old \cup {n \in gone : Len(n.keys) < level}
  BY DEF StoreInv, Making
<1>4. \A n \in gone : Len(n.keys) \in Nat
  <2>1. \A n \in gone : \E i \in 1..Level(asked.table) : Len(n.keys) = i
    BY <1>2, MissingFacts
  <2> QED BY <1>2, <2>1
<1>5. \A i \in 1..Level(asked.table) : request'.keys[i] = IF i < level' THEN keys[i] ELSE asked.keys[i]
  <2> SUFFICES ASSUME NEW i \in 1..Level(asked.table)
               PROVE  request'.keys[i] = IF i < level + 1 THEN keys[i] ELSE asked.keys[i]
    OBVIOUS
  <2>1. i < level + 1 <=> i < level \/ i = level
    BY <1>2
  <2> QED BY <1>2, <1>3, <2>1
<1>6. Nodes(rows') = Old \cup {n \in gone : Len(n.keys) < level'}
  <2> HIDE DEF gone
  <2>1. {n \in gone : Len(n.keys) < level + 1} = {n \in gone : Len(n.keys) < level} \cup {n \in gone : Len(n.keys) = level}
    BY <1>2, <1>4
  <2> QED BY <1>3, <2>1 DEF gone
<1>7. Making'
  <2>1. PICK s : s = asked.keys
    OBVIOUS
  <2>2. PICK t : t = asked.table
    OBVIOUS
  <2>3. PICK c : c = Store!Chosen(t, s)
    OBVIOUS
  <2>4. Store!Chosen(t, s)' = c /\ Store!Missing(t, c)' = Store!Missing(t, c) /\ asked'.table = t /\ asked'.keys = s
    BY <1>1, <2>1, <2>2, <2>3
  <2>5. keys = c /\ gone = Store!Missing(t, c)
    BY <2>1, <2>2, <2>3
  <2>6. \A i \in 1..Level(t) : request'.keys[i] = IF i < level' THEN c[i] ELSE s[i]
    BY <1>5, <2>1, <2>2, <2>5
  <2>7. Nodes(rows)' = Old' \cup {n \in Store!Missing(t, c)' : Len(n.keys) < level'}
    BY <1>1, <1>6, <2>4, <2>5 DEF Nodes
  <2>8. Store!Chosen(asked.table, asked.keys)' = c
    BY <2>4 DEF Store!Chosen, Store!Numbers
  <2>9. Store!Missing(asked.table, Store!Chosen(asked.table, asked.keys))' = Store!Missing(t, c)'
    BY <2>4, <2>8 DEF Store!Missing
  <2> QED BY <2>4, <2>6, <2>7, <2>8, <2>9 DEF Making
<1>8. Tree(Old)'
  BY <1>1 DEF StoreInv, Tree, IsNode
<1> QED BY <1>1, <1>2, <1>7, <1>8 DEF StoreInv

\* The node at the level, where a request that makes rows is.
LEMMA NodeAtLevel ==
  ASSUME ModelInv, StoreInv, pc = "get", level <= Level(request.table),
         NEW s \in Seq(KeyValues), Len(s) = Level(asked.table),
         \A i \in 1..Level(asked.table) : i # level => s[i] = request.keys[i],
         s[level] = Store!Chosen(asked.table, asked.keys)[level]
  PROVE  \A n : n \in Store!Missing(asked.table, Store!Chosen(asked.table, asked.keys)) /\ Len(n.keys) = level
                  <=> /\ n = [table |-> Table, keys |-> SubSeq(s, 1, level), attr |-> NoAttr]
                      /\ \A m \in Old : m.table # Table \/ m.keys # SubSeq(s, 1, level)
<1> DEFINE keys == Store!Chosen(asked.table, asked.keys)
           begun == SubSeq(keys, 1, level)
<1>1. /\ asked \in Requests /\ level \in Nat /\ level >= 1 /\ request.table = asked.table
      /\ asked.table \in Tables /\ Level(asked.table) \in Nat /\ level \in 1..Level(asked.table)
      /\ Table = Heritage[asked.table][level]
  BY AskedFacts DEF Table
<1>2. /\ keys = [j \in 1..Level(asked.table) |-> keys[j]]
      /\ \A i \in 1..Level(asked.table) : request.keys[i] = IF i < level THEN keys[i] ELSE asked.keys[i]
  BY <1>1, ChosenPath DEF StoreInv, Making
<1> DEFINE F(n) == \E i \in 1..Level(asked.table) :
                     /\ Len(n.keys) = i
                     /\ n = [table |-> Heritage[asked.table][i], keys |-> SubSeq(keys, 1, i), attr |-> NoAttr]
           G(n) == \A m \in Old : m.table # n.table \/ m.keys # n.keys
<1>3. \A n : n \in Store!Missing(asked.table, keys) <=> F(n) /\ G(n)
  BY <1>1, MissingFacts
<1> HIDE DEF keys
<1>4. Len(begun) = level /\ \A i \in 1..level : begun[i] = keys[i]
  BY <1>1, <1>2, PathOf
<1>5. SubSeq(s, 1, level) \in Seq(KeyValues) /\ Len(SubSeq(s, 1, level)) = level
      /\ \A i \in 1..level : SubSeq(s, 1, level)[i] = s[i]
  <2>1. level \in 0..Len(s)
    BY <1>1
  <2> QED BY <2>1, SamePath
<1>6. \A i \in 1..level : s[i] = keys[i]
  <2> SUFFICES ASSUME NEW i \in 1..level PROVE s[i] = keys[i]
    OBVIOUS
  <2>1. i \in 1..Level(asked.table) /\ (i = level \/ i < level)
    BY <1>1
  <2> QED BY <1>2, <2>1 DEF keys
<1>7. begun = SubSeq(s, 1, level)
  <2>1. begun \in Seq({keys[j] : j \in 1..Level(asked.table)})
    BY <1>1, <1>2, PathOf
  <2> HIDE DEF begun
  <2> QED BY <1>4, <1>5, <1>6, <2>1, SameSeq
<1>8. \A n : F(n) /\ Len(n.keys) = level <=> n = [table |-> Table, keys |-> begun, attr |-> NoAttr]
  <2>1. \A n : F(n) /\ Len(n.keys) = level => n = [table |-> Table, keys |-> begun, attr |-> NoAttr]
    BY <1>1
  <2>2. ASSUME NEW n, n = [table |-> Table, keys |-> begun, attr |-> NoAttr] PROVE F(n) /\ Len(n.keys) = level
    BY <1>1, <1>4, <2>2
  <2> QED BY <2>1, <2>2
<1> HIDE DEF F, begun
<1>9. ASSUME NEW n, n = [table |-> Table, keys |-> begun, attr |-> NoAttr]
      PROVE  G(n) <=> \A m \in Old : m.table # Table \/ m.keys # begun
  BY <1>9
<1> HIDE DEF G
<1> QED BY <1>3, <1>7, <1>8, <1>9 DEF keys

\* The key at the level as the request has it is the one it comes to, unless it is
\* a number to be chosen.
LEMMA KeyAtLevel ==
  ASSUME ModelInv, StoreInv, pc = "get", level <= Level(request.table)
  PROVE  /\ Table \notin Sequenced => Store!Chosen(asked.table, asked.keys)[level] = request.keys[level]
         /\ Table \in Sequenced => /\ asked.keys[level] = Null /\ request.keys[level] = Null
                                   /\ Store!Chosen(asked.table, asked.keys)[level]
                                        = Store!After(Store!Numbers(asked.table, asked.keys, level))
<1>1. /\ asked \in Requests /\ request.table = asked.table /\ asked.table \in Tables
      /\ level \in 1..Level(asked.table) /\ Table = Heritage[asked.table][level] /\ level \in Nat
  BY AskedFacts DEF Table
<1>2. request.keys[level] = asked.keys[level]
  BY <1>1 DEF StoreInv, Making
<1>3. Store!Chosen(asked.table, asked.keys)[level] =
        IF Table \in Sequenced /\ asked.keys[level] = Null
        THEN Store!After(Store!Numbers(asked.table, asked.keys, level)) ELSE asked.keys[level]
  BY <1>1, ChosenPath
<1>4. Table \in Sequenced => level \in AutoLevels(asked.table)
  BY <1>1, TableFacts DEF AutoLevels
<1>5. Table \in Sequenced => asked.keys[level] = Null
  BY <1>4, AskedFacts
<1> QED BY <1>2, <1>3, <1>5

\* get_by_params finds a row: the node was there when the request came.
LEMMA GetSeen ==
  ASSUME ModelInv, StoreInv, Get
  PROVE  StoreInv' /\ Unseen
<1> DEFINE keys == Store!Chosen(asked.table, asked.keys)
           gone == Store!Missing(asked.table, keys)
<1>1. /\ pc = "get" /\ level <= Level(request.table) /\ Looks(Table, Path)
      /\ level' = level + 1 /\ UNCHANGED <<rows, pc, request, asked, before, stops>>
  BY DEF Get
<1>2. PICK r \in Matching(Table, Path) : TRUE
  BY DEF Get
<1>3. /\ Table \in Tables /\ Level(Table) = level /\ level \in Nat /\ level >= 1
      /\ request.keys \in Seq(KeyValues) /\ Len(request.keys) = Level(request.table)
      /\ request.table = asked.table /\ Level(asked.table) \in Nat
      /\ \A i \in 1..level : Path[i] = request.keys[i]
  BY <1>1, PathFacts, AskedFacts
<1>4. Table \notin Sequenced
  <2> SUFFICES ASSUME Table \in Sequenced PROVE FALSE
    OBVIOUS
  <2>1. level \in AutoLevels(Table)
    BY <1>3, TableFacts DEF AutoLevels
  <2>2. Path[level] # Null
    BY <1>1, <2>1 DEF Looks
  <2> QED BY <1>1, <1>3, <2>2, KeyAtLevel
<1>5. keys[level] = request.keys[level]
  BY <1>1, <1>4, KeyAtLevel
<1>6. /\ r \in rows /\ r.table = Table /\ IsNode(r) /\ Len(r.keys) = level /\ DOMAIN r.keys = 1..level
  <2>1. r \in rows /\ r.table = Table
    BY DEF Matching
  <2> QED BY <1>3, <2>1, RowIsNode, NodeFacts DEF IsNode, ModelInv, TreeInv
<1>7. \A i \in 1..level : r.keys[i] = request.keys[i]
  <2>1. \A i \in AutoLevels(Table) : Path[i] # Null
    BY <1>1 DEF Looks
  <2> QED BY <1>3, <1>6, <2>1 DEF Matching
<1>8. r.keys = SubSeq(request.keys, 1, level)
  <2>1. level \in 0..Len(request.keys)
    BY <1>1, <1>3
  <2> QED BY <1>3, <1>6, <1>7, <2>1, SamePath DEF IsNode
<1>9. NodeOf(r) \in Old /\ NodeOf(r).table = Table /\ NodeOf(r).keys = SubSeq(request.keys, 1, level)
  BY <1>1, <1>3, <1>6, <1>8, OldRows, NodeOfRow
<1>10. \A n : ~(n \in gone /\ Len(n.keys) = level)
  <2>1. \A n : n \in gone /\ Len(n.keys) = level
                 => \A m \in Old : m.table # Table \/ m.keys # SubSeq(request.keys, 1, level)
    BY <1>1, <1>3, <1>5, NodeAtLevel
  <2> QED BY <1>9, <2>1
<1> HIDE DEF gone
<1>11. Nodes(rows') = Nodes(rows) \cup {n \in gone : Len(n.keys) = level}
  BY <1>1, <1>10
<1> QED BY <1>1, <1>5, <1>11, GoesOnDown DEF gone

\* What Create makes is the missing node at the level.
LEMMA CreateSeen ==
  ASSUME ModelInv, StoreInv, Create, UNCHANGED before
  PROVE  StoreInv' /\ Unseen
<1> DEFINE keys == Store!Chosen(asked.table, asked.keys)
           gone == Store!Missing(asked.table, keys)
           new  == NodeOf(NewRow)
<1>1. /\ pc = "get" /\ level <= Level(request.table)
      /\ ~(Looks(Table, Path) /\ Matching(Table, Path) # {})
      /\ rows' = rows \cup {NewRow} /\ request' = [request EXCEPT !.keys = Numbered]
      /\ level' = level + 1 /\ UNCHANGED <<pc, asked, before, stops>>
  BY Created
<1>2. /\ request.table = asked.table /\ Level(asked.table) \in Nat /\ level \in Nat
      /\ level \in 1..Level(asked.table)
      /\ NewRow.table = Table /\ NewRow.keys = SubSeq(Numbered, 1, level) /\ Len(NewRow.keys) = level
      /\ NewRow.attr = NoAttr
      /\ Numbered \in Seq(KeyValues) /\ Len(Numbered) = Level(asked.table)
      /\ \A i \in 1..Level(asked.table) : i # level => Numbered[i] = request.keys[i]
      /\ Table \in Sequenced => Numbered[level] = NextNumber(Table, Path)
      /\ Table \notin Sequenced => Numbered = request.keys
  <2>1. NewRow.attr = NoAttr
    BY DEF NewRow
  <2>2. /\ request.table = asked.table /\ Level(asked.table) \in Nat /\ level \in Nat
        /\ level \in 1..Level(asked.table)
    BY <1>1, AskedFacts
  <2> QED BY <1>1, <2>1, <2>2, NewRowFacts
<1>3. Numbered[level] = keys[level]
  <2>1. CASE Table \in Sequenced
    BY <1>1, <1>2, <2>1, KeyAtLevel, NumberAsPromised
  <2>2. CASE Table \notin Sequenced
    BY <1>1, <1>2, <2>2, KeyAtLevel
  <2> QED BY <2>1, <2>2
<1>4. request'.keys = Numbered
  <2>1. /\ asked \in Requests /\ request = [asked EXCEPT !.keys = request.keys]
    BY <1>1 DEF ModelInv, GetInv
  <2>2. asked = [verb |-> asked.verb, table |-> asked.table, keys |-> asked.keys, attr |-> asked.attr]
    BY <2>1, RequestFacts
  <2> QED BY <1>1, <2>1, <2>2
<1>5. new = [table |-> Table, keys |-> SubSeq(Numbered, 1, level), attr |-> NoAttr]
  BY <1>2 DEF NodeOf
<1>6. \A m \in Old : m.table # Table \/ m.keys # SubSeq(Numbered, 1, level)
  <2> SUFFICES ASSUME NEW m \in Old, m.table = Table, m.keys = SubSeq(Numbered, 1, level) PROVE FALSE
    OBVIOUS
  <2>1. PICK q \in rows : m = NodeOf(q)
    BY <1>1, OldRows
  <2>2. q.table = Table /\ q.keys = NewRow.keys
    BY <1>2, <2>1, NodeOfRow
  <2> QED BY <1>1, <2>2, NewRowAlone
<1>7. \A n : n \in gone /\ Len(n.keys) = level <=> n = new
  <2>1. \A n : n \in gone /\ Len(n.keys) = level
                 <=> /\ n = [table |-> Table, keys |-> SubSeq(Numbered, 1, level), attr |-> NoAttr]
                     /\ \A m \in Old : m.table # Table \/ m.keys # SubSeq(Numbered, 1, level)
    BY <1>1, <1>2, <1>3, NodeAtLevel
  <2> QED BY <1>5, <1>6, <2>1
<1>8. Nodes(rows') = Nodes(rows) \cup {new}
  <2>1. \A set : Nodes(set) = {NodeOf(r) : r \in set}
    BY NodeOfRow
  <2> QED BY <1>1, <2>1
<1> HIDE DEF gone, new
<1>9. Nodes(rows') = Nodes(rows) \cup {n \in gone : Len(n.keys) = level}
  BY <1>7, <1>8
<1> QED BY <1>1, <1>2, <1>3, <1>4, <1>9, GoesOnDown DEF gone

\* A request that came.
LEMMA ArriveSeen ==
  ASSUME ModelInv, StoreInv, NEW q \in Requests, Arrive(q)
  PROVE  StoreInv' /\ Store!Next
<1>1. /\ pc = "idle" /\ pc' = IF q.verb = "DELETE" THEN "find" ELSE "get"
      /\ request' = q /\ asked' = q /\ before' = rows
      /\ UNCHANGED <<rows, at, level, stops>> /\ level = 1 /\ asked = NoRequest
  BY DEF Arrive, ModelInv, FindInv, StoreInv
<1>2. Nodes(IF pc = "idle" THEN rows ELSE before)' = Nodes(IF pc = "idle" THEN rows ELSE before)
  BY <1>1 DEF Nodes
<1>3. Store!Next
  BY <1>1, <1>2 DEF Store!Next, Store!Ask
<1>4. Nodes(rows)' = Nodes(rows) /\ Old' = Nodes(rows)
  BY <1>1 DEF Nodes, Old
<1>5. Tree(Old)'
  <2>1. Tree(Nodes(rows))
    BY RowTree DEF ModelInv, TreeInv
  <2> QED BY <1>4, <2>1 DEF Tree, IsNode
<1>6. ASSUME pc' = "get" PROVE Making'
  <2>1. q.table \in Tables /\ DOMAIN q.keys = 1..Level(q.table) /\ Level(q.table) \in Nat
    BY RequestFacts, TableFacts, LenProperties
  <2>2. PICK keys : keys = Store!Chosen(asked.table, asked.keys)'
    OBVIOUS
  <2>3. PICK gone : gone = Store!Missing(asked.table, keys)'
    OBVIOUS
  <2>4. keys = [j \in 1..Level(q.table) |-> keys[j]]
    BY <1>1, <2>1, <2>2 DEF Store!Chosen
  <2>5. \A n \in gone : \E i \in DOMAIN keys : n.keys = SubSeq(keys, 1, i)
    BY <2>3 DEF Store!Missing
  <2>6. \A n \in gone : ~(Len(n.keys) < 1)
    <3> SUFFICES ASSUME NEW n \in gone PROVE ~(Len(n.keys) < 1)
      OBVIOUS
    <3>1. PICK i \in 1..Level(q.table) : n.keys = SubSeq(keys, 1, i)
      BY <2>4, <2>5
    <3>2. Len(SubSeq(keys, 1, i)) = i
      BY <2>1, <2>4, PathOf
    <3> QED BY <2>1, <3>1, <3>2
  <2>7. {n \in gone : Len(n.keys) < 1} = {}
    BY <2>6
  <2>8. \A i \in 1..Level(q.table) : ~(i < 1)
    BY <2>1
  <2>9. Store!Missing(asked.table, Store!Chosen(asked.table, asked.keys))' = gone
    BY <2>2, <2>3 DEF Store!Missing
  <2> QED BY <1>1, <1>4, <2>7, <2>8, <2>9 DEF Making
<1>7. asked' \in Requests /\ asked'.verb = q.verb /\ (pc' = "find" => rows' = before')
  BY <1>1
<1>8. pc' \in {"find", "get"} /\ (pc' = "find" => q.verb = "DELETE")
  BY <1>1
<1> QED BY <1>1, <1>3, <1>5, <1>6, <1>7, <1>8 DEF StoreInv

\* A request that has made all of its path has its whole effect.
LEMMA AnsweredSeen ==
  ASSUME ModelInv, StoreInv, Answered
  PROVE  StoreInv' /\ Store!Next
<1> DEFINE keys == Store!Chosen(asked.table, asked.keys)
           gone == Store!Missing(asked.table, keys)
           made == Old \cup gone
           new  == [table |-> asked.table, keys |-> keys, attr |-> asked.attr]
           F(r) == IF Updates /\ r.table = request.table /\ r.id = at
                   THEN [r EXCEPT !.attr = request.attr] ELSE r
<1>1. /\ pc = "get" /\ level > Level(request.table) /\ Done /\ UNCHANGED <<stops, refused>>
      /\ rows' = {F(r) : r \in rows}
  BY DEF Answered
<1>2. /\ asked \in Requests /\ asked.verb \in {"PUT", "POST"} /\ asked.table \in Tables
      /\ request.table = asked.table /\ request.attr = asked.attr /\ request.verb = asked.verb
      /\ Level(asked.table) \in Nat /\ level = Level(asked.table) + 1 /\ Level(asked.table) >= 1
      /\ request.keys \in Seq(KeyValues) /\ Len(request.keys) = Level(asked.table)
  <2>1. Level(asked.table) >= 1
    BY <1>1, AskedFacts, TableFacts
  <2> QED BY <1>1, <2>1, AskedFacts DEF ModelInv, GetInv
<1>3. /\ \A i \in 1..Level(asked.table) : request.keys[i] = keys[i]
      /\ Nodes(rows) = Old \cup {n \in gone : Len(n.keys) < level}
  BY <1>1, <1>2 DEF StoreInv, Making
<1>4. Nodes(rows) = made
  <2>1. \A n \in gone : \E i \in 1..Level(asked.table) : Len(n.keys) = i
    BY <1>1, <1>2, MissingFacts
  <2> HIDE DEF gone
  <2>2. \A n \in gone : Len(n.keys) < level
    BY <1>2, <2>1
  <2> QED BY <1>3, <2>2
<1>5. keys = request.keys
  <2>1. keys = [j \in 1..Level(asked.table) |-> keys[j]]
    BY <1>2, ChosenPath
  <2> HIDE DEF keys
  <2>2. DOMAIN request.keys = 1..Level(asked.table) /\ request.keys = [j \in 1..Level(asked.table) |-> request.keys[j]]
    BY <1>2, LenProperties
  <2>3. \A j \in 1..Level(asked.table) : keys[j] = request.keys[j]
    BY <1>3 DEF keys
  <2> QED BY <2>1, <2>2, <2>3
<1> HIDE DEF F, gone
<1>6. Nodes(IF pc = "idle" THEN rows ELSE before) = Old
      /\ Nodes(IF pc = "idle" THEN rows ELSE before)' = Nodes(rows')
  BY <1>1, Seen DEF Done, Nodes
<1>7. CASE asked.verb = "PUT"
  <2>1. \A r \in rows : F(r) = r
    BY <1>2, <1>7 DEF F, Updates
  <2>2. rows' = rows
    BY <1>1, <2>1
  <2>3. Store!Put(asked)
    BY <1>1, <1>4, <1>6, <1>7, <2>2 DEF Store!Put, gone
  <2> QED BY <1>1, <2>3, Over, Answers
<1>8. CASE asked.verb = "POST"
  <2>1. PICK p \in rows : p.table = Above /\ p.id = at /\ p.keys = SubSeq(request.keys, 1, level - 1)
    <3>1. level > 1
      BY <1>2
    <3> QED BY <1>1, <3>1 DEF ModelInv, GetInv
  <2>2. p.table = asked.table
    <3>1. level - 1 = Level(asked.table)
      BY <1>2
    <3> QED BY <1>2, <2>1, <3>1, TableFacts DEF Above
  <2>3. p.keys = keys
    <3>1. level - 1 = Len(request.keys) /\ level - 1 \in 0..Len(request.keys)
      BY <1>2
    <3>2. SubSeq(request.keys, 1, level - 1) = request.keys
      BY <1>2, <3>1, SamePath
    <3> QED BY <1>5, <2>1, <3>2
  <2>4. p \in Row /\ TreeInv
    BY DEF ModelInv, RowsInv, TreeInv
  <2>5. \A r \in rows : IF r = p THEN F(r) = [p EXCEPT !.attr = asked.attr] ELSE F(r) = r
    <3> SUFFICES ASSUME NEW r \in rows PROVE IF r = p THEN F(r) = [p EXCEPT !.attr = asked.attr] ELSE F(r) = r
      OBVIOUS
    <3>1. r.table = asked.table /\ r.id = at => r = p
      BY <2>1, <2>2, <2>4 DEF TreeInv, RowsDistinct
    <3> QED BY <1>2, <1>8, <2>1, <2>2, <3>1 DEF F, Updates
  <2>6. NodeOf([p EXCEPT !.attr = asked.attr]) = new
    <3>1. [p EXCEPT !.attr = asked.attr].table = p.table /\ [p EXCEPT !.attr = asked.attr].keys = p.keys
          /\ [p EXCEPT !.attr = asked.attr].attr = asked.attr
      BY <2>4 DEF Row
    <3> QED BY <2>2, <2>3, <3>1 DEF NodeOf
  <2>7. rows' = (rows \ {p}) \cup {[p EXCEPT !.attr = asked.attr]}
    BY <1>1, <2>5
  <2>8. Nodes(rows') = Nodes(rows \ {p}) \cup {new}
    <3>1. \A set : Nodes(set) = {NodeOf(r) : r \in set}
      BY NodeOfRow
    <3> HIDE DEF new
    <3> QED BY <2>6, <2>7, <3>1
  <2>9. Nodes(rows \ {p}) = {n \in made : n.table # asked.table \/ n.keys # keys}
    <3>1. Nodes(rows \ {p}) = Nodes(rows) \ {NodeOf(p)}
      <4>1. Nodes({p}) = {NodeOf(p)}
        BY NodeOfRow
      <4>2. {p} \in SUBSET rows
        OBVIOUS
      <4> QED BY <2>4, <4>1, <4>2, NodesGo
    <3>2. NodeOf(p) \in Nodes(rows) /\ NodeOf(p).table = asked.table /\ NodeOf(p).keys = keys
      BY <2>2, <2>3, NodeOfRow
    <3>3. \A n \in Nodes(rows) : n = NodeOf(p) <=> n.table = asked.table /\ n.keys = keys
      BY <2>4, <3>2, RowTree DEF Tree
    <3> HIDE DEF keys
    <3> QED BY <1>4, <3>1, <3>3
  <2>10. Nodes(rows') = {n \in made : n.table # asked.table \/ n.keys # keys} \cup {new}
    BY <2>8, <2>9
  <2>11. Store!Put(asked)
    BY <1>1, <1>6, <1>8, <2>10 DEF Store!Put, gone
  <2> QED BY <1>1, <2>11, Over, Answers
<1> QED BY <1>2, <1>7, <1>8

-------------------------------------------------------------------------------
(***************************************************************************)
(* The theorem                                                              *)
(***************************************************************************)
LEMMA StoreInit == Init => StoreInv /\ Store!Init
<1> SUFFICES ASSUME Init PROVE StoreInv /\ Store!Init
  OBVIOUS
<1>1. rows = {} /\ pc = "idle" /\ asked = NoRequest /\ stops = 0
  BY DEF Init
<1>2. Nodes(IF pc = "idle" THEN rows ELSE before) = {}
  BY <1>1 DEF Nodes
<1> QED BY <1>1, <1>2 DEF StoreInv, Store!Init

LEMMA StoreStep ==
  ASSUME ModelInv, StoreInv, [Next]_vars
  PROVE  StoreInv' /\ (Store!Next \/ Unseen)
<1>1. CASE \E q \in Requests : Arrive(q)
  BY <1>1, ArriveSeen
<1>2. CASE Get
  BY <1>2, GetSeen
<1>3. CASE Create
  <2>1. UNCHANGED before
    BY <1>3, Created, NewRowAlone DEF Create
  <2> QED BY <1>3, <2>1, CreateSeen
<1>4. CASE Answered
  BY <1>4, AnsweredSeen
<1>5. CASE Destroy
  BY <1>5, DestroySeen
<1>6. CASE DestroyUpon
  BY <1>6, DestroyUponSeen
<1>7. CASE NotFound
  BY <1>7, NotFoundSeen
<1>8. CASE Crash
  BY <1>8, CrashSeen
<1>9. CASE UNCHANGED vars
  <2>1. UNCHANGED <<rows, pc, request, at, level, asked, before, stops>>
    BY <1>9 DEF vars
  <2>2. Unseen
    BY <2>1 DEF Unseen, Nodes
  <2>3. /\ Old' = Old /\ Nodes(rows)' = Nodes(rows) /\ Table' = Table
        /\ Nodes(IF pc = "idle" THEN rows ELSE before)' = Nodes(IF pc = "idle" THEN rows ELSE before)
    BY <2>1 DEF Old, Nodes, Table
  <2>4. Making' = Making
    BY <2>1, <2>3 DEF Making, Store!Chosen, Store!Numbers, Store!Missing
  <2>5. Sweeping' = Sweeping
    BY <2>1, <2>3 DEF Sweeping, Store!Named, Store!Under, Store!Emptied, Store!Above
  <2>6. Tree(Old)' = Tree(Old)
    BY <2>3 DEF Tree, IsNode
  <2> QED BY <2>1, <2>2, <2>4, <2>5, <2>6 DEF StoreInv
<1> QED BY <1>1, <1>2, <1>3, <1>4, <1>5, <1>6, <1>7, <1>8, <1>9 DEF Next, Serve

\* Statement by statement, and wherever the server stops, the rows are the tree of
\* nodes of RestStore: every request has its whole effect, or the beginning of it
\* that RestStore says, and nothing else happens to the tree.
THEOREM RequestsHaveTheirEffect == Spec => RequestAtATime
<1>1. Init => StoreInv /\ Store!Init
  BY StoreInit
<1>2. ModelInv /\ StoreInv /\ [Next]_vars
        => StoreInv' /\ (Store!Next \/ UNCHANGED <<Nodes(IF pc = "idle" THEN rows ELSE before), asked, stops>>)
  BY StoreStep DEF Unseen
<1> QED BY <1>1, <1>2, ModelInvariant, PTL DEF Spec, RequestAtATime, Store!Spec
===============================================================================
