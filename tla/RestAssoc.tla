------------------------------- MODULE RestAssoc -------------------------------
(***************************************************************************)
(* Static routes in the REST backend: routes, next hops of several tables,   *)
(* and the association table between them (model_assoc.erb, controller.erb).  *)
(* PUT finds or creates the route, the next hop and the row that joins them; *)
(* DELETE destroys the row that joins them, then the route if no row joins   *)
(* it any more, then the next hop. Every statement commits on its own, so    *)
(* the server may stop between two of them. Requests do not overlap.         *)
(***************************************************************************)
EXTENDS Integers, FiniteSets

CONSTANTS
  Routes,   \* the keys of routes
  Hops,     \* the next hops: [type, key], the type names the table
  Ids,      \* the primary keys a table has room for: a bound
  MaxStops  \* bound

ASSUME AssocAssumption ==
  \* a next hop is named by its table and its key in it
  /\ \A h, g \in Hops : (h.type = g.type /\ h.key = g.key) => h = g
  /\ MaxStops \in Nat

VARIABLES
  routes,  \* a table: a set of [id, key]
  hops,    \* the tables of next hops: a set of [type, id, key]
  links,   \* the association table: a set of [id, route, type, hop]
  pc,      \* where the request is
  request,
  route, hop, \* the ids that were found or made
  stops    \* history: how often the server has stopped in the middle of a request

vars == <<routes, hops, links, pc, request, route, hop, stops>>

NoRequest == [verb |-> "none"]
Requests  == [verb : {"PUT", "DELETE"}, route : Routes, hop : Hops]

Init ==
  /\ routes = {} /\ hops = {} /\ links = {}
  /\ pc = "idle" /\ request = NoRequest /\ route = 0 /\ hop = 0 /\ stops = 0

-------------------------------------------------------------------------------
\* find_by_params of each table. Mutants: the association table is asked for the
\* route alone; the next hop for its name alone.
RoutesNamed(k)     == {r \in routes : r.key = k}
HopsNamedNever(h)  == {}
HopsNamed(h)       == {n \in hops : n.type = h.type /\ n.key = h.key}
LinksOfRoute(r, t, h) == {l \in links : l.route = r}
LinksOf(r, t, h)      == {l \in links : l.route = r /\ l.type = t /\ l.hop = h}

\* Room is the bound on rows; the other tables have one for each key at most.
Room == Cardinality(links) < Cardinality(Ids)

Arrive(q) ==
  /\ pc = "idle" /\ (q.verb = "PUT" => Room)
  /\ pc' = IF q.verb = "PUT" THEN "route" ELSE "find"
  /\ request' = q
  /\ UNCHANGED <<routes, hops, links, route, hop, stops>>

Done == pc' = "idle" /\ request' = NoRequest /\ route' = 0 /\ hop' = 0

\* get_by_params of the route.
GetRoute ==
  /\ pc = "route"
  /\ \E r \in RoutesNamed(request.route) : route' = r.id
  /\ pc' = "hop" /\ UNCHANGED <<routes, hops, links, request, hop, stops>>

MakeRoute ==
  /\ pc = "route" /\ RoutesNamed(request.route) = {}
  /\ \E i \in Ids \ {r.id : r \in routes} : route' = i /\ routes' = routes \cup {[id |-> i, key |-> request.route]}
  /\ pc' = "hop" /\ UNCHANGED <<hops, links, request, hop, stops>>

\* get_by_params of the next hop, in the table that the path names.
GetHop ==
  /\ pc = "hop"
  /\ \E n \in HopsNamed(request.hop) : hop' = n.id
  /\ pc' = "link" /\ UNCHANGED <<routes, hops, links, request, route, stops>>

MakeHop ==
  /\ pc = "hop" /\ HopsNamed(request.hop) = {}
  /\ \E i \in Ids \ {n.id : n \in {m \in hops : m.type = request.hop.type}} :
       hop' = i /\ hops' = hops \cup {[type |-> request.hop.type, id |-> i, key |-> request.hop.key]}
  /\ pc' = "link" /\ UNCHANGED <<routes, links, request, route, stops>>

\* get_by_params of the association.
GetLink ==
  /\ pc = "link" /\ LinksOf(route, request.hop.type, hop) # {}
  /\ Done /\ UNCHANGED <<routes, hops, links, stops>>

MakeLink ==
  /\ pc = "link" /\ LinksOf(route, request.hop.type, hop) = {}
  /\ \E i \in Ids \ {l.id : l \in links} :
       links' = links \cup {[id |-> i, route |-> route, type |-> request.hop.type, hop |-> hop]}
  /\ Done /\ UNCHANGED <<routes, hops, stops>>

-------------------------------------------------------------------------------
\* find_by_params of the association: both sides, then the row.
Named == {l \in links : \E r \in RoutesNamed(request.route), n \in HopsNamed(request.hop) :
                          l \in LinksOf(r.id, n.type, n.id)}

NotFound ==
  /\ pc = "find" /\ Named = {}
  /\ Done /\ UNCHANGED <<routes, hops, links, stops>>

\* What it joined is kept for what follows.
DestroyLink ==
  /\ pc = "find"
  /\ \E l \in Named : links' = links \ {l} /\ route' = l.route /\ hop' = l.hop
  /\ pc' = "sweep route" /\ UNCHANGED <<routes, hops, request, stops>>

\* Mutants: nobody looks; the table of the next hop is not looked at.
RouteUnusedAlways(r)   == TRUE
RouteUnused(r)         == \A l \in links : l.route # r
HopUnusedUntyped(t, h) == \A l \in links : l.hop # h
HopUnused(t, h)        == \A l \in links : ~(l.type = t /\ l.hop = h)

SweepRoute ==
  /\ pc = "sweep route"
  /\ routes' = IF RouteUnused(route) THEN {r \in routes : r.id # route} ELSE routes
  /\ pc' = "sweep hop" /\ UNCHANGED <<hops, links, request, route, hop, stops>>

SweepHop ==
  /\ pc = "sweep hop"
  /\ hops' = IF HopUnused(request.hop.type, hop)
             THEN {n \in hops : ~(n.type = request.hop.type /\ n.id = hop)} ELSE hops
  /\ Done /\ UNCHANGED <<routes, links, stops>>

\* The server stops; what was saved stays.
Crash ==
  /\ pc # "idle" /\ stops < MaxStops
  /\ stops' = stops + 1
  /\ Done /\ UNCHANGED <<routes, hops, links>>

Serve ==
  \/ GetRoute \/ MakeRoute \/ GetHop \/ MakeHop \/ GetLink \/ MakeLink
  \/ NotFound \/ DestroyLink \/ SweepRoute \/ SweepHop

Next == (\E q \in Requests : Arrive(q)) \/ Serve \/ Crash

Spec == Init /\ [][Next]_vars

-------------------------------------------------------------------------------
\* Wherever a request or the server stops, a row of the association table joins a
\* route and a next hop that are there: the view of a route reads both.
NoDangling ==
  \A l \in links :
    /\ \E r \in routes : r.id = l.route
    /\ \E n \in hops : n.type = l.type /\ n.id = l.hop

\* One row for each route, each next hop and each pair of them, and one id for
\* each row of a table: find_by_params, which returns one row, returns the row.
PairsDistinct ==
  /\ \A r, q \in routes : (r.id = q.id \/ r.key = q.key) => r = q
  /\ \A n, m \in hops : (n.type = m.type /\ (n.id = m.id \/ n.key = m.key)) => n = m
  /\ \A l, k \in links : (l.id = k.id \/ (l.route = k.route /\ l.type = k.type /\ l.hop = k.hop)) => l = k

\* What no route uses goes, and so does a route without a next hop, as long as no
\* request was cut short: next hops of different tables with the same id, and
\* those that several routes share, included.
NothingUnused ==
  (pc = "idle" /\ stops = 0) =>
    /\ \A r \in routes : \E l \in links : l.route = r.id
    /\ \A n \in hops : \E l \in links : l.type = n.type /\ l.hop = n.id

\* Request by request the tables are the set of pairs of RouteStore: a request
\* adds or removes the pair it names, and leaves the next hops of all others.
Joined(k, h) ==
  \E l \in links, r \in routes, n \in hops :
    /\ l.route = r.id /\ r.key = k
    /\ l.type = n.type /\ l.hop = n.id /\ n.type = h.type /\ n.key = h.key
Pairs   == {p \in Routes \X Hops : Joined(p[1], p[2])}
Pending == IF pc \in {"sweep route", "sweep hop"} THEN NoRequest ELSE request

Store == INSTANCE RouteStore WITH pairs <- Pairs, asked <- Pending
PairsAtATime == Store!Spec
===============================================================================
