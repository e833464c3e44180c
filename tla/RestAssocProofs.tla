---------------------------- MODULE RestAssocProofs ----------------------------
(***************************************************************************)
(* For any routes and next hops, any number of rows and any number of stops  *)
(* of the server: the association table joins rows that are there, rows stay *)
(* distinct, nothing unused stays behind, and request by request the tables  *)
(* are the set of pairs of RouteStore.                                      *)
(***************************************************************************)
EXTENDS RestAssoc, TLAPS

Serving == {"route", "hop", "link", "find", "sweep route", "sweep hop"}

Control ==
  /\ pc \in Serving \cup {"idle"} /\ stops \in Nat
  /\ pc = "idle" => request = NoRequest
  /\ pc \in Serving => request \in Requests
  /\ pc \in {"route", "hop", "link"} => request.verb = "PUT"
  /\ pc \in {"find", "sweep route", "sweep hop"} => request.verb = "DELETE"

Tables ==
  /\ \A r \in routes : r.key \in Routes
  /\ \A n \in hops : \E h \in Hops : n.type = h.type /\ n.key = h.key

\* The rows that the request has found or made so far are those it names.
Found ==
  /\ pc \in {"hop", "link"} => \E r \in routes : r.id = route /\ r.key = request.route
  /\ pc = "link" => \E n \in hops : /\ n.id = hop
                                    /\ n.type = request.hop.type /\ n.key = request.hop.key

AssocInv == Control /\ Tables /\ PairsDistinct /\ NoDangling /\ Found

\* A row that no association uses is one that the request is at work on: it has
\* found or made it to use it, or will look at it when the association is gone.
InUse(r)    == \E l \in links : l.route = r.id
HopInUse(n) == \E l \in links : l.type = n.type /\ l.hop = n.id

Accounted ==
  stops = 0 =>
    /\ \A r \in routes : InUse(r) \/ (pc \in {"hop", "link", "sweep route"} /\ r.id = route)
    /\ \A n \in hops : HopInUse(n) \/ (/\ pc \in {"link", "sweep route", "sweep hop"}
                                       /\ n.type = request.hop.type /\ n.id = hop)

-------------------------------------------------------------------------------
\* Nothing is there at first.
LEMMA AssocInit == Init => AssocInv /\ Accounted
BY DEF Init, AssocInv, Control, Tables, PairsDistinct, NoDangling, Found, Accounted, Serving, NoRequest

\* A request keeps its verb while it is served.
LEMMA ControlStep == AssocInv /\ [Next]_vars => Control'
<1> SUFFICES ASSUME AssocInv, [Next]_vars PROVE Control'
  OBVIOUS
<1> USE DEF AssocInv, Control, Serving, NoRequest
<1>1. ASSUME NEW q \in Requests, Arrive(q) PROVE Control'
  BY <1>1 DEF Arrive, Requests, NoRequest
<1>2. CASE GetRoute
  BY <1>2 DEF GetRoute, RoutesNamed
<1>3. CASE MakeRoute
  BY <1>3 DEF MakeRoute, RoutesNamed
<1>4. CASE GetHop
  BY <1>4 DEF GetHop, HopsNamed
<1>5. CASE MakeHop
  BY <1>5 DEF MakeHop, HopsNamed
<1>6. CASE GetLink
  BY <1>6 DEF GetLink, Done, LinksOf
<1>7. CASE MakeLink
  BY <1>7 DEF MakeLink, Done, LinksOf
<1>8. CASE NotFound
  BY <1>8 DEF NotFound, Done
<1>9. CASE DestroyLink
  BY <1>9 DEF DestroyLink, Named, RoutesNamed, HopsNamed, LinksOf
<1>10. CASE SweepRoute
  BY <1>10 DEF SweepRoute, RouteUnused
<1>11. CASE SweepHop
  BY <1>11 DEF SweepHop, Done, HopUnused
<1>12. CASE Crash
  <2>1. stops \in Nat /\ stops' = stops + 1
    BY <1>12 DEF Crash
  <2>2. stops' \in Nat
    BY ONLY <2>1
  <2> QED
    BY <1>12, <2>2 DEF Crash, Done
<1>13. CASE UNCHANGED vars
  BY <1>13 DEF vars
<1> QED
  BY <1>1, <1>2, <1>3, <1>4, <1>5, <1>6, <1>7, <1>8, <1>9, <1>10, <1>11, <1>12, <1>13 DEF Next, Serve

\* What is made is what a request names.
LEMMA TablesStep == AssocInv /\ [Next]_vars => Tables'
<1> SUFFICES ASSUME AssocInv, [Next]_vars PROVE Tables'
  OBVIOUS
<1> USE DEF AssocInv, Control, Tables, Serving, Requests
<1>1. ASSUME NEW q \in Requests, Arrive(q) PROVE Tables'
  BY <1>1 DEF Arrive, Requests, NoRequest
<1>2. CASE GetRoute
  BY <1>2 DEF GetRoute, RoutesNamed
<1>3. CASE MakeRoute
  BY <1>3 DEF MakeRoute, RoutesNamed
<1>4. CASE GetHop
  BY <1>4 DEF GetHop, HopsNamed
<1>5. CASE MakeHop
  BY <1>5 DEF MakeHop, HopsNamed
<1>6. CASE GetLink
  BY <1>6 DEF GetLink, Done, LinksOf
<1>7. CASE MakeLink
  BY <1>7 DEF MakeLink, Done, LinksOf
<1>8. CASE NotFound
  BY <1>8 DEF NotFound, Done
<1>9. CASE DestroyLink
  BY <1>9 DEF DestroyLink, Named, RoutesNamed, HopsNamed, LinksOf
<1>10. CASE SweepRoute
  BY <1>10 DEF SweepRoute, RouteUnused
<1>11. CASE SweepHop
  BY <1>11 DEF SweepHop, Done, HopUnused
<1>12. CASE Crash
  BY <1>12 DEF Crash, Done
<1>13. CASE UNCHANGED vars
  BY <1>13 DEF vars
<1> QED
  BY <1>1, <1>2, <1>3, <1>4, <1>5, <1>6, <1>7, <1>8, <1>9, <1>10, <1>11, <1>12, <1>13 DEF Next, Serve

\* A row is made when the look for it has failed, with an id that is free.
LEMMA DistinctStep == AssocInv /\ [Next]_vars => PairsDistinct'
<1> SUFFICES ASSUME AssocInv, [Next]_vars PROVE PairsDistinct'
  OBVIOUS
<1> USE DEF AssocInv, PairsDistinct
<1>1. ASSUME NEW q \in Requests, Arrive(q) PROVE PairsDistinct'
  BY <1>1 DEF Arrive, Requests, NoRequest
<1>2. CASE GetRoute
  BY <1>2 DEF GetRoute, RoutesNamed
<1>3. CASE MakeRoute
  BY <1>3 DEF MakeRoute, RoutesNamed
<1>4. CASE GetHop
  BY <1>4 DEF GetHop, HopsNamed
<1>5. CASE MakeHop
  BY <1>5 DEF MakeHop, HopsNamed
<1>6. CASE GetLink
  BY <1>6 DEF GetLink, Done, LinksOf
<1>7. CASE MakeLink
  BY <1>7 DEF MakeLink, Done, LinksOf
<1>8. CASE NotFound
  BY <1>8 DEF NotFound, Done
<1>9. CASE DestroyLink
  BY <1>9 DEF DestroyLink, Named, RoutesNamed, HopsNamed, LinksOf
<1>10. CASE SweepRoute
  BY <1>10 DEF SweepRoute, RouteUnused
<1>11. CASE SweepHop
  BY <1>11 DEF SweepHop, Done, HopUnused
<1>12. CASE Crash
  BY <1>12 DEF Crash, Done
<1>13. CASE UNCHANGED vars
  BY <1>13 DEF vars
<1> QED
  BY <1>1, <1>2, <1>3, <1>4, <1>5, <1>6, <1>7, <1>8, <1>9, <1>10, <1>11, <1>12, <1>13 DEF Next, Serve

\* A row goes only when no association is left that uses it.
LEMMA DanglingStep == AssocInv /\ [Next]_vars => NoDangling'
<1> SUFFICES ASSUME AssocInv, [Next]_vars PROVE NoDangling'
  OBVIOUS
<1> USE DEF AssocInv, NoDangling, Found
<1>1. ASSUME NEW q \in Requests, Arrive(q) PROVE NoDangling'
  BY <1>1 DEF Arrive, Requests, NoRequest
<1>2. CASE GetRoute
  BY <1>2 DEF GetRoute, RoutesNamed
<1>3. CASE MakeRoute
  BY <1>3 DEF MakeRoute, RoutesNamed
<1>4. CASE GetHop
  BY <1>4 DEF GetHop, HopsNamed
<1>5. CASE MakeHop
  BY <1>5 DEF MakeHop, HopsNamed
<1>6. CASE GetLink
  BY <1>6 DEF GetLink, Done, LinksOf
<1>7. CASE MakeLink
  BY <1>7 DEF MakeLink, Done, LinksOf
<1>8. CASE NotFound
  BY <1>8 DEF NotFound, Done
<1>9. CASE DestroyLink
  BY <1>9 DEF DestroyLink, Named, RoutesNamed, HopsNamed, LinksOf
<1>10. CASE SweepRoute
  BY <1>10 DEF SweepRoute, RouteUnused
<1>11. CASE SweepHop
  BY <1>11 DEF SweepHop, Done, HopUnused
<1>12. CASE Crash
  BY <1>12 DEF Crash, Done
<1>13. CASE UNCHANGED vars
  BY <1>13 DEF vars
<1> QED
  BY <1>1, <1>2, <1>3, <1>4, <1>5, <1>6, <1>7, <1>8, <1>9, <1>10, <1>11, <1>12, <1>13 DEF Next, Serve

\* Between two statements the rows found or made stay, as requests do not overlap.
LEMMA FoundStep == AssocInv /\ [Next]_vars => Found'
<1> SUFFICES ASSUME AssocInv, [Next]_vars PROVE Found'
  OBVIOUS
<1> USE DEF AssocInv, Control, Found, Serving
<1>1. ASSUME NEW q \in Requests, Arrive(q) PROVE Found'
  BY <1>1 DEF Arrive, Requests, NoRequest
<1>2. CASE GetRoute
  BY <1>2 DEF GetRoute, RoutesNamed
<1>3. CASE MakeRoute
  <2>1. PICK i \in Ids : /\ route' = i
                         /\ routes' = routes \cup {[id |-> i, key |-> request.route]}
    BY <1>3 DEF MakeRoute
  <2>2. [id |-> i, key |-> request.route] \in routes' /\ request' = request /\ pc' = "hop"
    BY <2>1, <1>3 DEF MakeRoute
  <2>3. \E r \in routes' : r.id = route' /\ r.key = request'.route
    BY <2>1, <2>2
  <2> QED
    BY <2>2, <2>3
<1>4. CASE GetHop
  BY <1>4 DEF GetHop, HopsNamed
<1>5. CASE MakeHop
  <2> DEFINE New(i) == [type |-> request.hop.type, id |-> i, key |-> request.hop.key]
  <2>1. PICK i \in Ids : hop' = i /\ hops' = hops \cup {New(i)}
    BY <1>5 DEF MakeHop
  <2>2. New(i) \in hops' /\ request' = request /\ route' = route /\ routes' = routes
    BY <2>1, <1>5 DEF MakeHop
  <2>3. \E n \in hops' : n.id = hop' /\ n.type = request'.hop.type /\ n.key = request'.hop.key
    BY <2>1, <2>2
  <2> QED
    BY <1>5, <2>2, <2>3 DEF MakeHop
<1>6. CASE GetLink
  BY <1>6 DEF GetLink, Done, LinksOf
<1>7. CASE MakeLink
  BY <1>7 DEF MakeLink, Done, LinksOf
<1>8. CASE NotFound
  BY <1>8 DEF NotFound, Done
<1>9. CASE DestroyLink
  BY <1>9 DEF DestroyLink, Named, RoutesNamed, HopsNamed, LinksOf
<1>10. CASE SweepRoute
  BY <1>10 DEF SweepRoute, RouteUnused
<1>11. CASE SweepHop
  BY <1>11 DEF SweepHop, Done, HopUnused
<1>12. CASE Crash
  BY <1>12 DEF Crash, Done
<1>13. CASE UNCHANGED vars
  BY <1>13 DEF vars
<1> QED
  BY <1>1, <1>2, <1>3, <1>4, <1>5, <1>6, <1>7, <1>8, <1>9, <1>10, <1>11, <1>12, <1>13 DEF Next, Serve

\* What is made is accounted for by the request until an association uses it, what
\* an association has used by the request that destroys it.
LEMMA AccountedStep == AssocInv /\ Accounted /\ [Next]_vars => Accounted'
<1> SUFFICES ASSUME AssocInv, Accounted, [Next]_vars, stops' = 0 PROVE Accounted'
  BY DEF Accounted
<1> USE DEF Accounted, InUse, HopInUse
<1>1. stops = 0 /\ ~Crash
  <2>1. stops \in Nat
    BY DEF AssocInv, Control
  <2>2. stops' = stops \/ stops' = stops + 1
    BY DEF Next, Serve, vars, Arrive, GetRoute, MakeRoute, GetHop, MakeHop, GetLink, MakeLink,
           NotFound, DestroyLink, SweepRoute, SweepHop, Crash
  <2>3. stops = 0
    BY ONLY <2>1, <2>2, stops' = 0
  <2> QED
    BY ONLY <2>3, stops' = 0 DEF Crash
<1>2. ASSUME NEW q \in Requests, Arrive(q) PROVE Accounted'
  BY <1>1, <1>2 DEF Arrive
<1>3. CASE GetRoute
  BY <1>1, <1>3 DEF GetRoute
<1>4. CASE MakeRoute
  BY <1>1, <1>4 DEF MakeRoute
<1>5. CASE GetHop
  BY <1>1, <1>5 DEF GetHop
<1>6. CASE MakeHop
  BY <1>1, <1>6 DEF MakeHop
<1>7. CASE GetLink
  BY <1>1, <1>7 DEF GetLink, LinksOf, Done
<1>8. CASE MakeLink
  <2> DEFINE New(i) == [id |-> i, route |-> route, type |-> request.hop.type, hop |-> hop]
  <2>1. PICK i \in Ids : links' = links \cup {New(i)}
    BY <1>8 DEF MakeLink
  <2>2. New(i) \in links' /\ New(i).route = route /\ New(i).type = request.hop.type /\ New(i).hop = hop
    BY <2>1
  <2>3. links \subseteq links' /\ routes' = routes /\ hops' = hops /\ pc = "link"
    BY <2>1, <1>8 DEF MakeLink
  <2>4. ASSUME NEW r \in routes PROVE \E l \in links' : l.route = r.id
    BY <1>1, <2>2, <2>3
  <2>5. ASSUME NEW n \in hops PROVE \E l \in links' : l.type = n.type /\ l.hop = n.id
    BY <1>1, <2>2, <2>3
  <2> QED
    BY <2>3, <2>4, <2>5
<1>9. CASE NotFound
  BY <1>1, <1>9 DEF NotFound, Done
<1>10. CASE DestroyLink
  BY <1>1, <1>10 DEF DestroyLink, Named, HopsNamed, RoutesNamed, LinksOf
<1>11. CASE SweepRoute
  BY <1>1, <1>11 DEF SweepRoute, RouteUnused
<1>12. CASE SweepHop
  BY <1>1, <1>12 DEF SweepHop, HopUnused, Done
<1>13. CASE UNCHANGED vars
  BY <1>1, <1>13 DEF vars
<1> QED
  BY <1>1, <1>2, <1>3, <1>4, <1>5, <1>6, <1>7, <1>8, <1>9, <1>10, <1>11, <1>12, <1>13 DEF Next, Serve

-------------------------------------------------------------------------------
\* AssocInv is inductive.
THEOREM AssocInvariant == Spec => [](AssocInv /\ Accounted)
<1>1. AssocInv /\ Accounted /\ [Next]_vars => (AssocInv /\ Accounted)'
  BY ControlStep, TablesStep, DistinctStep, DanglingStep, FoundStep, AccountedStep DEF AssocInv
<1> QED
  BY AssocInit, <1>1, PTL DEF Spec

\* The rows of the association table always join rows that are there.
THEOREM NeverDangling == Spec => []NoDangling
BY AssocInvariant, PTL DEF AssocInv

\* One row for each route, each next hop and each pair of them.
THEOREM RowsStayDistinct == Spec => []PairsDistinct
BY AssocInvariant, PTL DEF AssocInv

\* When no request was cut short, what no association uses is gone.
THEOREM NothingStaysUnused == Spec => []NothingUnused
<1>1. AssocInv /\ Accounted => NothingUnused
  BY DEF AssocInv, Control, Accounted, NothingUnused, InUse, HopInUse
<1> QED
  BY AssocInvariant, <1>1, PTL

-------------------------------------------------------------------------------
(***************************************************************************)
(* The pairs of RouteStore.                                                 *)
(***************************************************************************)
\* A row that no association uses joins nothing.
LEMMA RoutesChange ==
  ASSUME AssocInv, MakeRoute \/ SweepRoute
  PROVE  \A k \in Routes, h \in Hops : Joined(k, h)' <=> Joined(k, h)
<1> SUFFICES ASSUME NEW k \in Routes, NEW h \in Hops PROVE Joined(k, h)' <=> Joined(k, h)
  OBVIOUS
<1> USE DEF Joined
<1>1. CASE MakeRoute
  <2>1. PICK i \in Ids \ {r.id : r \in routes} : routes' = routes \cup {[id |-> i, key |-> request.route]}
    BY <1>1 DEF MakeRoute
  <2>2. \A l \in links : l.route # i
    BY <2>1 DEF AssocInv, NoDangling
  <2> QED
    BY <1>1, <2>1, <2>2 DEF MakeRoute
<1>2. CASE SweepRoute
  BY <1>2 DEF SweepRoute, RouteUnused
<1> QED
  BY <1>1, <1>2

LEMMA HopsChange ==
  ASSUME AssocInv, MakeHop \/ SweepHop
  PROVE  \A k \in Routes, h \in Hops : Joined(k, h)' <=> Joined(k, h)
<1> SUFFICES ASSUME NEW k \in Routes, NEW h \in Hops PROVE Joined(k, h)' <=> Joined(k, h)
  OBVIOUS
<1> USE DEF Joined
<1>1. CASE MakeHop
  <2> DEFINE New(i) == [type |-> request.hop.type, id |-> i, key |-> request.hop.key]
  <2>1. PICK i \in Ids \ {n.id : n \in {m \in hops : m.type = request.hop.type}} : hops' = hops \cup {New(i)}
    BY <1>1 DEF MakeHop
  <2>2. \A l \in links : ~(l.type = request.hop.type /\ l.hop = i)
    BY <2>1 DEF AssocInv, NoDangling
  <2> QED
    BY <1>1, <2>1, <2>2 DEF MakeHop
<1>2. CASE SweepHop
  BY <1>2 DEF SweepHop, HopUnused
<1> QED
  BY <1>1, <1>2

\* The row that is made joins the pair that the request names and no other.
LEMMA LinkMade ==
  ASSUME AssocInv, MakeLink
  PROVE  \A k \in Routes, h \in Hops : Joined(k, h)' <=> (Joined(k, h) \/ (k = request.route /\ h = request.hop))
<1> SUFFICES ASSUME NEW k \in Routes, NEW h \in Hops
             PROVE  Joined(k, h)' <=> (Joined(k, h) \/ (k = request.route /\ h = request.hop))
  OBVIOUS
<1> DEFINE New(i) == [id |-> i, route |-> route, type |-> request.hop.type, hop |-> hop]
<1>1. PICK i \in Ids : links' = links \cup {New(i)}
  BY DEF MakeLink
<1>2. routes' = routes /\ hops' = hops
  BY DEF MakeLink
<1>3. /\ request.hop \in Hops
      /\ \E r \in routes : r.id = route /\ r.key = request.route
      /\ \E n \in hops : n.id = hop /\ n.type = request.hop.type /\ n.key = request.hop.key
  BY DEF MakeLink, AssocInv, Control, Serving, Requests, Found
<1>4. (\E r \in routes, n \in hops : /\ route = r.id /\ r.key = k
                                     /\ request.hop.type = n.type /\ hop = n.id
                                     /\ n.type = h.type /\ n.key = h.key)
        <=> (k = request.route /\ h = request.hop)
  BY <1>3, AssocAssumption DEF AssocInv, PairsDistinct
<1>5. New(i).route = route /\ New(i).type = request.hop.type /\ New(i).hop = hop
  OBVIOUS
<1>6. Joined(k, h)' <=> (Joined(k, h) \/ \E r \in routes, n \in hops :
                           /\ New(i).route = r.id /\ r.key = k
                           /\ New(i).type = n.type /\ New(i).hop = n.id
                           /\ n.type = h.type /\ n.key = h.key)
  <2> HIDE DEF New
  <2> QED
    BY <1>1, <1>2 DEF Joined
<1> QED
  BY <1>4, <1>5, <1>6

\* The row that is destroyed joined the pair that the request names, and no other
\* row joins it.
LEMMA LinkGone ==
  ASSUME AssocInv, DestroyLink
  PROVE  \A k \in Routes, h \in Hops : Joined(k, h)' <=> (Joined(k, h) /\ ~(k = request.route /\ h = request.hop))
<1> SUFFICES ASSUME NEW k \in Routes, NEW h \in Hops
             PROVE  Joined(k, h)' <=> (Joined(k, h) /\ ~(k = request.route /\ h = request.hop))
  OBVIOUS
<1>1. PICK l \in Named : links' = links \ {l}
  BY DEF DestroyLink
<1>2. routes' = routes /\ hops' = hops /\ request.hop \in Hops
  BY DEF DestroyLink, AssocInv, Control, Serving, Requests
<1>3. PICK r \in routes, n \in hops :
        /\ r.key = request.route /\ n.type = request.hop.type /\ n.key = request.hop.key
        /\ l \in links /\ l.route = r.id /\ l.type = n.type /\ l.hop = n.id
  BY <1>1 DEF Named, RoutesNamed, HopsNamed, LinksOf
<1>4. ASSUME k = request.route, h = request.hop, Joined(k, h)' PROVE FALSE
  BY <1>1, <1>2, <1>3, <1>4 DEF Joined, AssocInv, PairsDistinct
<1>5. ASSUME Joined(k, h), ~(k = request.route /\ h = request.hop) PROVE Joined(k, h)'
  <2>1. PICK m \in links, q \in routes, p \in hops :
          /\ m.route = q.id /\ q.key = k
          /\ m.type = p.type /\ m.hop = p.id /\ p.type = h.type /\ p.key = h.key
    BY <1>5 DEF Joined
  <2>2. m # l
    BY <1>2, <1>3, <1>5, <2>1, AssocAssumption DEF AssocInv, PairsDistinct
  <2> QED
    BY <1>1, <1>2, <2>1, <2>2 DEF Joined
<1>6. Joined(k, h)' => Joined(k, h)
  BY <1>1, <1>2 DEF Joined
<1> QED
  BY <1>4, <1>5, <1>6

\* Every step is a step of RouteStore or leaves its variables as they are.
LEMMA PairsStep == AssocInv /\ [Next]_vars => [Store!Next]_Store!vars
<1> SUFFICES ASSUME AssocInv, [Next]_vars PROVE Store!Next \/ UNCHANGED <<Pairs, Pending, stops>>
  BY DEF Store!vars
<1>1. /\ request \in Requests => request # NoRequest /\ request.route \in Routes /\ request.hop \in Hops
      /\ pc = "idle" => request = NoRequest
      /\ pc \in Serving => request \in Requests
  <2>1. NoRequest.verb = "none"
    BY DEF NoRequest
  <2>2. request \in Requests => /\ request.verb \in {"PUT", "DELETE"}
                                /\ request.route \in Routes /\ request.hop \in Hops
    BY DEF Requests
  <2>3. request \in Requests => request # NoRequest
    BY <2>1, <2>2
  <2> QED
    BY <2>2, <2>3 DEF AssocInv, Control
<1>2. ASSUME \A k \in Routes, h \in Hops : Joined(k, h)' <=> Joined(k, h) PROVE Pairs' = Pairs
  BY <1>2 DEF Pairs
<1>3. ASSUME UNCHANGED <<routes, hops, links>> PROVE Pairs' = Pairs
  BY <1>2, <1>3 DEF Joined
<1>4. ASSUME NEW q \in Requests, Arrive(q) PROVE Store!Next
  <2>1. Pairs' = Pairs
    BY <1>3, <1>4 DEF Arrive
  <2>2. Pending = NoRequest /\ Pending' = q /\ stops' = stops
    BY <1>1, <1>4 DEF Arrive, Pending
  <2> QED
    BY <2>1, <2>2 DEF Store!Next, Store!Ask
<1>5. CASE GetRoute \/ GetHop
  BY <1>3, <1>5 DEF GetRoute, GetHop, Pending
<1>6. CASE MakeRoute \/ SweepRoute
  <2>1. Pairs' = Pairs
    BY <1>2, <1>6, RoutesChange
  <2> QED
    BY <2>1, <1>6 DEF MakeRoute, SweepRoute, Pending
<1>7. CASE MakeHop \/ SweepHop
  <2>1. Pairs' = Pairs
    BY <1>2, <1>7, HopsChange
  <2> QED
    BY <2>1, <1>7 DEF MakeHop, SweepHop, Done, Pending
<1>8. CASE GetLink \/ MakeLink
  <2>1. /\ Pending = request /\ Pending' = NoRequest /\ stops' = stops
        /\ request # NoRequest /\ request.verb = "PUT"
        /\ request.route \in Routes /\ request.hop \in Hops
    BY <1>1, <1>8 DEF GetLink, MakeLink, Done, Pending, AssocInv, Control, Serving
  <2>2. \A k \in Routes, h \in Hops :
          Joined(k, h)' <=> (Joined(k, h) \/ (k = request.route /\ h = request.hop))
    <3>1. CASE MakeLink
      BY <3>1, LinkMade
    <3>2. CASE GetLink
      <4>1. Joined(request.route, request.hop)
        BY <3>2 DEF GetLink, LinksOf, AssocInv, Found, Joined
      <4> QED
        BY <4>1, <3>2 DEF GetLink, Joined
    <3> QED
      BY <1>8, <3>1, <3>2
  <2>3. Pairs' = Pairs \cup {<<request.route, request.hop>>}
    BY <2>1, <2>2 DEF Pairs
  <2> QED
    BY <2>1, <2>3 DEF Store!Next, Store!Put
<1>9. CASE NotFound \/ DestroyLink
  <2>1. /\ Pending = request /\ Pending' = NoRequest /\ stops' = stops
        /\ request # NoRequest /\ request.verb = "DELETE"
    BY <1>1, <1>9 DEF NotFound, DestroyLink, Done, Pending, AssocInv, Control, Serving
  <2>2. \A k \in Routes, h \in Hops :
          Joined(k, h)' <=> (Joined(k, h) /\ ~(k = request.route /\ h = request.hop))
    <3>1. CASE DestroyLink
      BY <3>1, LinkGone
    <3>2. CASE NotFound
      <4>1. ~Joined(request.route, request.hop)
        BY <3>2 DEF NotFound, Named, RoutesNamed, HopsNamed, LinksOf, Joined
      <4> QED
        BY <4>1, <3>2 DEF NotFound, Joined
    <3> QED
      BY <1>9, <3>1, <3>2
  <2>3. Pairs' = Pairs \ {<<request.route, request.hop>>}
    BY <2>2 DEF Pairs
  <2> QED
    BY <2>1, <2>3 DEF Store!Next, Store!Delete
<1>10. CASE Crash
  <2>1. Pairs' = Pairs
    BY <1>3, <1>10 DEF Crash
  <2>2. Pending' = NoRequest /\ stops' = stops + 1
    BY <1>10 DEF Crash, Done, Pending
  <2> QED
    BY <2>1, <2>2 DEF Store!Next, Store!Stop
<1>11. CASE UNCHANGED vars
  BY <1>3, <1>11 DEF vars, Pending
<1> QED
  BY <1>4, <1>5, <1>6, <1>7, <1>8, <1>9, <1>10, <1>11 DEF Next, Serve

\* Request by request the tables are the set of pairs of RouteStore, for any
\* routes and next hops and however often the server stops.
THEOREM PairsRefined == Spec => PairsAtATime
<1>1. Init => Store!Init
  BY DEF Init, Store!Init, Pairs, Joined, Pending
<1> QED
  BY <1>1, PairsStep, AssocInvariant, PTL DEF Spec, PairsAtATime, Store!Spec
===============================================================================
