------------------------------- MODULE RestModel -------------------------------
(***************************************************************************)
(* The REST backend that setup.rb generates: one model and one controller   *)
(* per table (model.erb, controller.erb), here over any table definitions.  *)
(* A request walks its path from the root table down, finding or creating a *)
(* row at every level, or finds the row the path names, destroys it with    *)
(* its dependents and then the containers it leaves empty. Every statement  *)
(* commits on its own, so the server may stop between two of them.          *)
(*                                                                          *)
(* Requests do not overlap: one server process answers one at a time.       *)
(***************************************************************************)
EXTENDS Integers, Sequences, FiniteSets

CONSTANTS
  Tables,
  Heritage,   \* the tables from the root down to a table: its API path
  Upon,       \* tables whose belongs-to says destroy-upon
  HasOne,     \* tables that their parent has one of
  Sequenced, Step, \* tables whose own key is numbered, and the step of the numbers
  Keyless,    \* tables without a key of their own
  Null,       \* a key the request leaves out
  NoKey,      \* the key of a keyless table
  Attrs, NoAttr,
  Requests,   \* what the commands send: [verb, table, keys, attr]
  MaxNumber, MaxRows, MaxStops \* bounds

Level(t)  == Len(Heritage[t])
Parent(t) == Heritage[t][Level(t) - 1]
\* The tables that go when their last child goes.
Swept     == {Parent(u) : u \in Upon}

AutoLevels(t) == {i \in DOMAIN Heritage[t] : Heritage[t][i] \in Sequenced}

ASSUME TableAssumption ==
  /\ Upon \cup HasOne \cup Sequenced \cup Keyless \subseteq Tables
  /\ \A t \in Tables : /\ Heritage[t] \in Seq(Tables) /\ Level(t) > 0 /\ Heritage[t][Level(t)] = t
                       /\ \A i \in 1..Level(t) : Heritage[Heritage[t][i]] = SubSeq(Heritage[t], 1, i)
  /\ \A t \in Upon \cup HasOne : Level(t) > 1
  /\ \A t \in Tables : Level(t) > 1 /\ Parent(t) \in Swept => t \in Upon
  /\ Step \in Nat \ {0} /\ {MaxNumber, MaxRows, MaxStops} \subseteq Nat
  /\ Null \notin Nat

\* What the commands send. They make rules, areas and the like, never a container
\* alone, and leave the numbers of what they make to the server (the paths have
\* :NULL there); and what a row has only one of has either no key and no number on
\* its path, or a number that the server chooses.
ASSUME RequestAssumption ==
  \A q \in Requests :
    /\ q = [verb |-> q.verb, table |-> q.table, keys |-> q.keys, attr |-> q.attr]
    /\ q.verb \in {"PUT", "POST", "DELETE"} /\ q.table \in Tables
    /\ q.keys = [i \in 1..Level(q.table) |-> q.keys[i]]
    /\ q.verb # "DELETE" =>
         /\ q.table \notin Sequenced \cup Swept
         /\ \A i \in AutoLevels(q.table) : q.keys[i] = Null
         /\ \A i \in 1..Level(q.table) : LET t == Heritage[q.table][i] IN
              /\ t \in Keyless => q.keys[i] = NoKey
              /\ t \in HasOne \cup Keyless =>
                   \/ t \in Keyless /\ AutoLevels(t) = {}
                   \/ \E j \in AutoLevels(q.table) : j < i /\ q.keys[j] = Null

VARIABLES
  rows,    \* the database: a set of [table, id, parent, keys, attr]
  pc,      \* where the request is
  request, \* the request, with params[:seq] as set_next changes it
  at,      \* get: the row of the level above; upon: the container to look at
  level,   \* the level of the path it is at
  asked,   \* history: the request as it came
  before,  \* history: the database when the request came
  stops,   \* history: how often the server has stopped in the middle of a request
  refused  \* history: a save! has met the unique index

vars == <<rows, pc, request, at, level, asked, before, stops, refused>>

NoRequest == [verb |-> "none"]

Init ==
  /\ rows = {} /\ pc = "idle" /\ request = NoRequest /\ at = 0 /\ level = 1
  /\ asked = NoRequest /\ before = {} /\ stops = 0 /\ refused = FALSE

-------------------------------------------------------------------------------
(***************************************************************************)
(* Finding rows. A row carries the keys of all its ancestors.               *)
(***************************************************************************)
\* find_by_params: a numbered key that is not given is not asked for. The code
\* leaves out all numbered keys if none is given; a path here has at most one.
\* Attributes that stand for keys (as-key, in ip_community.table.json alone) are
\* left out: the tables of the runs have none.
Matching(t, keys) ==
  {r \in rows : r.table = t /\ \A i \in DOMAIN r.keys :
                  r.keys[i] = keys[i] \/ (i \in AutoLevels(t) /\ keys[i] = Null)}

\* Mutant: a row without a key of its own is never looked for.
LooksKeyed(t, keys)  == t \notin Keyless
\* get_by_params looks for the row unless a number on its path is to be chosen.
Looks(t, keys) ==
  AutoLevels(t) = {} \/ (t \notin Keyless /\ \A i \in AutoLevels(t) : keys[i] # Null)

\* Mutant: the first number that is free.
NextNumberFree(t, keys) ==
  LET list == {r.keys[Level(t)] : r \in Matching(t, [keys EXCEPT ![Level(t)] = Null])}
      free == {Step * i : i \in 1..(Cardinality(list) + 1)} \ list
  IN  CHOOSE n \in free : \A m \in free : n <= m

\* set_next_<key>: the next multiple of the step after all numbers of the list.
NextNumber(t, keys) ==
  LET list == {r.keys[Level(t)] : r \in Matching(t, [keys EXCEPT ![Level(t)] = Null])}
      last == IF list = {} THEN 0 ELSE CHOOSE n \in list : \A m \in list : m <= n
  IN  (last \div Step + 1) * Step

FreshId == CHOOSE i \in 1..(Cardinality(rows) + 1) : \A r \in rows : r.id # i

Children(p) == {r \in rows : r.parent = p.id /\ Level(r.table) > 1 /\ Parent(r.table) = p.table}

\* What dependent: :destroy takes along: of a has_one only the one row it loads.
Dependents(p) ==
  {r \in Children(p) : r.table \in HasOne =>
                         \A q \in Children(p) : q.table = r.table => r.id <= q.id}

\* Mutant: without dependent: :destroy.
CascadeAlone(r) == {r}

\* destroy: row r and the least set with the dependents of r and of every row in it.
Cascade(r) ==
  LET lower  == {q \in rows : Level(q.table) > Level(r.table) /\ Heritage[q.table][Level(r.table)] = r.table}
      below  == [p \in lower \cup {r} |-> Dependents(p)]
      closed == {set \in SUBSET lower : \A p \in set \cup {r} : below[p] \subseteq set}
  IN  {r} \cup {q \in lower : \A set \in closed : q \in set}

-------------------------------------------------------------------------------
(***************************************************************************)
(* Requests.                                                                *)
(***************************************************************************)
Done ==
  /\ pc' = "idle" /\ request' = NoRequest /\ at' = 0 /\ level' = 1
  /\ asked' = NoRequest /\ before' = {}

Bounded(q) ==
  \/ q.verb = "DELETE"
  \/ /\ Cardinality(rows) + Len(q.keys) <= MaxRows
     /\ \A i \in AutoLevels(q.table) : NextNumber(Heritage[q.table][i], SubSeq(q.keys, 1, i)) <= MaxNumber

Arrive(q) ==
  /\ pc = "idle" /\ Bounded(q)
  /\ pc' = IF q.verb = "DELETE" THEN "find" ELSE "get"
  /\ request' = q /\ asked' = q /\ before' = rows
  /\ UNCHANGED <<rows, at, level, stops, refused>>

Table == Heritage[request.table][level]
Path  == SubSeq(request.keys, 1, level)

\* get_by_params, one level: the row is there.
Get ==
  /\ pc = "get" /\ level <= Level(request.table)
  /\ Looks(Table, Path)
  /\ \E r \in Matching(Table, Path) : at' = r.id
  /\ level' = level + 1
  /\ UNCHANGED <<rows, pc, request, asked, before, stops, refused>>

\* get_by_params, one level: it is created. A save! that meets the unique index
\* ends the request with an error; what was saved before stays.
Numbered == IF Table \in Sequenced THEN [request.keys EXCEPT ![level] = NextNumber(Table, Path)]
            ELSE request.keys

NewRow == [table |-> Table, id |-> FreshId, parent |-> at, keys |-> SubSeq(Numbered, 1, level),
           attr |-> NoAttr]

Create ==
  /\ pc = "get" /\ level <= Level(request.table)
  /\ ~(Looks(Table, Path) /\ Matching(Table, Path) # {})
  /\ IF \E r \in rows : r.table = Table /\ r.keys = NewRow.keys /\ Table \notin Keyless
     THEN refused' = TRUE /\ rows' = rows /\ Done
     ELSE /\ rows' = rows \cup {NewRow}
          /\ request' = [request EXCEPT !.keys = Numbered]
          /\ at' = NewRow.id /\ level' = level + 1
          /\ UNCHANGED <<pc, asked, before, refused>>
  /\ UNCHANGED stops

Updates       == request.verb = "POST"

\* create_by_keys ends with the row, update_by_keys sets its attributes.
Answered ==
  /\ pc = "get" /\ level > Level(request.table)
  /\ rows' = {IF Updates /\ r.table = request.table /\ r.id = at
               THEN [r EXCEPT !.attr = request.attr] ELSE r : r \in rows}
  /\ Done
  /\ UNCHANGED <<stops, refused>>

\* Mutant: only the table whose row the request destroys.
SweepsOnce(t) == t = request.table
\* A row of table t that goes makes the server look at the row it belonged to.
Sweeps(t)     == t \in Upon

\* Mutant: the container goes with whichever row goes first.
EmptyAlways(p) == TRUE
Empty(p)       == Children(p) = {}

\* destroy_by_keys: the row goes with its dependents, then, one level up after
\* the other, what destroy_upon_dependent finds empty.
Destroy ==
  /\ pc = "find"
  /\ \E r \in Matching(request.table, request.keys) :
       /\ rows' = rows \ Cascade(r)
       /\ IF Sweeps(r.table)
          THEN pc' = "upon" /\ at' = r.parent /\ level' = Level(r.table) - 1
               /\ UNCHANGED <<request, asked, before>>
          ELSE Done
  /\ UNCHANGED <<stops, refused>>

NotFound ==
  /\ pc = "find" /\ Matching(request.table, request.keys) = {}
  /\ Done
  /\ UNCHANGED <<rows, stops, refused>>

DestroyUpon ==
  /\ pc = "upon"
  /\ \E p \in rows :
       /\ p.table = Table /\ p.id = at
       /\ rows' = IF Empty(p) THEN rows \ {p} ELSE rows
       /\ IF Empty(p) /\ Sweeps(p.table)
          THEN at' = p.parent /\ level' = level - 1 /\ UNCHANGED <<pc, request, asked, before>>
          ELSE Done
  /\ UNCHANGED <<stops, refused>>

\* The server stops; what was saved stays.
Crash ==
  /\ pc # "idle" /\ stops < MaxStops
  /\ stops' = stops + 1
  /\ Done
  /\ UNCHANGED <<rows, refused>>

Serve == Get \/ Create \/ Answered \/ Destroy \/ NotFound \/ DestroyUpon
Next  == (\E q \in Requests : Arrive(q)) \/ Serve \/ Crash

Spec == Init /\ [][Next]_vars

-------------------------------------------------------------------------------
(***************************************************************************)
(* Properties.                                                              *)
(***************************************************************************)
\* Wherever a request or the server stops, every row that belongs to another
\* belongs to one that is there and whose keys it carries: find_by_params, which
\* looks at the keys alone, and the associations, which follow the ids, agree.
NoOrphan ==
  \A r \in rows : Level(r.table) > 1 =>
    \E p \in rows : r \in Children(p) /\ p.keys = SubSeq(r.keys, 1, Level(p.table))

\* has_one loads one row, for destroy_upon_dependent and for the cascade; there
\* never is another one, nor a second row of the same keys. No request needs the
\* unique index for that: get_by_params looks before it creates, and numbers what
\* it does not look for.
RowsDistinct ==
  ~refused /\ \A r, q \in rows : r # q /\ r.table = q.table =>
    /\ r.id # q.id /\ r.keys # q.keys
    /\ r.table \in HasOne => r.parent # q.parent

\* A list or an entry that destroy-upon sweeps never stays behind empty, as
\* long as no request was cut short.
NoEmptyContainer ==
  (pc = "idle" /\ stops = 0) => \A p \in rows : p.table \in Swept => Children(p) # {}

\* A new rule is the last of its list: rules typed earlier keep their precedence.
Appended ==
  [][\A r \in rows' \ rows : r.table \in Sequenced =>
       \A q \in rows : (q.table = r.table /\ q.parent = r.parent) =>
                         q.keys[Level(q.table)] < r.keys[Level(r.table)]]_vars

\* Request by request the database is the tree of RestStore, where a request
\* has its whole effect at once, or a beginning of it when the server stops.
Nodes(set) == {[table |-> r.table, keys |-> r.keys, attr |-> r.attr] : r \in set}
Store == INSTANCE RestStore WITH store <- Nodes(IF pc = "idle" THEN rows ELSE before)
RequestAtATime == Store!Spec
===============================================================================
