------------------------------ MODULE RouteStore ------------------------------
(***************************************************************************)
(* What the backend promises of static routes: a set of pairs of a route    *)
(* and a next hop. PUT puts a pair in, DELETE takes it out, each at once and *)
(* each whatever is there; a stop of the server can lose the request it is  *)
(* working on, and nothing else.                                            *)
(***************************************************************************)
EXTENDS Integers

CONSTANTS Requests, NoRequest

VARIABLES
  pairs, \* a set of <<route, hop>>
  asked, \* the request that came and has had no effect yet
  stops  \* how often the server has stopped in the middle of a request

vars == <<pairs, asked, stops>>

Init == pairs = {} /\ asked = NoRequest /\ stops = 0

Ask(q) == asked = NoRequest /\ asked' = q /\ UNCHANGED <<pairs, stops>>

Put ==
  /\ asked # NoRequest /\ asked.verb = "PUT"
  /\ pairs' = pairs \cup {<<asked.route, asked.hop>>}
  /\ asked' = NoRequest /\ UNCHANGED stops

Delete ==
  /\ asked # NoRequest /\ asked.verb = "DELETE"
  /\ pairs' = pairs \ {<<asked.route, asked.hop>>}
  /\ asked' = NoRequest /\ UNCHANGED stops

Stop == stops' = stops + 1 /\ asked' = NoRequest /\ UNCHANGED pairs

Next == (\E q \in Requests : Ask(q)) \/ Put \/ Delete \/ Stop

Spec == Init /\ [][Next]_vars
===============================================================================
