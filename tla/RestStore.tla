------------------------------- MODULE RestStore -------------------------------
(***************************************************************************)
(* What the REST backend promises: a tree of named nodes, where a request   *)
(* has its whole effect at once. PUT and POST make the node and every node  *)
(* above it; DELETE removes one node that the path names with all below it, *)
(* and the containers above that it leaves empty. A stop of the server      *)
(* leaves the upper part of what is made and the lower part of what goes.   *)
(***************************************************************************)
EXTENDS Integers, Sequences

CONSTANTS Heritage, Upon, Sequenced, Step, Null, NoAttr, Requests, NoRequest

VARIABLES
  store, \* a set of [table, keys, attr]
  asked, \* the request that came and has had no effect yet
  stops  \* how often the server has stopped in the middle of a request

Init == store = {} /\ asked = NoRequest /\ stops = 0

\* Node m is node n or on the path to it.
Above(m, n) ==
  /\ Len(m.keys) <= Len(n.keys) /\ m.keys = SubSeq(n.keys, 1, Len(m.keys))
  /\ m.table = Heritage[n.table][Len(m.keys)]

\* The numbers in use in a list: those at level i under the path above it.
Numbers(t, keys, i) ==
  {n.keys[i] : n \in {m \in store : m.table = Heritage[t][i] /\ SubSeq(m.keys, 1, i - 1) = SubSeq(keys, 1, i - 1)}}

\* The least multiple of the step after all of them.
After(used) ==
  LET after == {n \in {Step * k : k \in UNION {1..(m + 1) : m \in used \cup {0}}} : \A m \in used : m < n}
  IN  CHOOSE n \in after : \A m \in after : n <= m

\* The keys a request comes to when a number left out is chosen: the one after
\* all numbers in use in that list.
Chosen(t, keys) ==
  [i \in DOMAIN keys |->
     IF Heritage[t][i] \in Sequenced /\ keys[i] = Null THEN After(Numbers(t, keys, i)) ELSE keys[i]]

\* The nodes on the path that are not there.
Missing(t, keys) ==
  {n \in {[table |-> Heritage[t][i], keys |-> SubSeq(keys, 1, i), attr |-> NoAttr] : i \in DOMAIN keys} :
     \A m \in store : m.table # n.table \/ m.keys # n.keys}

Put(q) ==
  LET keys == Chosen(q.table, q.keys)
      Made == store \cup Missing(q.table, keys)
  IN  /\ UNCHANGED stops
      /\ \/ q.verb = "PUT"  /\ store' = Made
         \/ q.verb = "POST" /\ store' = {n \in Made : n.table # q.table \/ n.keys # keys}
                                          \cup {[table |-> q.table, keys |-> keys, attr |-> q.attr]}

PutBegun(q) ==
  /\ stops' = stops + 1
  /\ q.verb \in {"PUT", "POST"}
  /\ \E l \in 0..Len(q.keys) :
       store' = store \cup {n \in Missing(q.table, Chosen(q.table, q.keys)) : Len(n.keys) <= l}

Under(n) == {o \in store : Above(n, o)}

\* The containers above node n that hold nothing but n and what is under it.
Emptied(n) ==
  {m \in store \ {n} :
     /\ Above(m, n)
     /\ \A i \in (Len(m.keys) + 1)..Len(n.keys) : Heritage[n.table][i] \in Upon
     /\ \A o \in Under(m) : Above(o, n) \/ Above(n, o)}

Named(q, n) ==
  /\ n.table = q.table
  /\ \A i \in DOMAIN n.keys : n.keys[i] = q.keys[i] \/ (Heritage[q.table][i] \in Sequenced /\ q.keys[i] = Null)

Delete(q) ==
  /\ q.verb = "DELETE" /\ UNCHANGED stops
  /\ \/ UNCHANGED store /\ \A n \in store : ~Named(q, n)
     \/ \E n \in store : Named(q, n) /\ store' = store \ (Under(n) \cup Emptied(n))

DeleteBegun(q) ==
  /\ q.verb = "DELETE" /\ stops' = stops + 1
  /\ \/ UNCHANGED store
     \/ \E n \in store : Named(q, n) /\ \E l \in 1..Len(q.keys) :
          store' = store \ (Under(n) \cup {m \in Emptied(n) : Len(m.keys) >= l})

Ask(q) ==
  /\ asked = NoRequest /\ asked' = q
  /\ UNCHANGED <<store, stops>>

Answer ==
  /\ asked # NoRequest /\ asked' = NoRequest
  /\ Put(asked) \/ PutBegun(asked) \/ Delete(asked) \/ DeleteBegun(asked)

Next == Answer \/ \E q \in Requests : Ask(q)

Spec == Init /\ [][Next]_<<store, asked, stops>>
===============================================================================
