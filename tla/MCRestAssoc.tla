------------------------------ MODULE MCRestAssoc ------------------------------
(***************************************************************************)
(* RestAssoc with the tables of ipv4_route_nexthop.table.json: two routes,   *)
(* two addresses and an interface as next hops.                             *)
(***************************************************************************)
EXTENDS RestAssoc

CONSTANTS r1, r2, a1, a2, eth0

MCHops == {[type |-> "nexthop_ipv4", key |-> a1], [type |-> "nexthop_ipv4", key |-> a2],
           [type |-> "nexthop_if", key |-> eth0]}
===============================================================================
