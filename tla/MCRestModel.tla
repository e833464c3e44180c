----------------------------- MODULE MCRestModel -----------------------------
(***************************************************************************)
(* RestModel with two families of tables: those of acl_ipv4_std.table.json,  *)
(* and four levels of ospfv2*.table.json with a has-one without a key; and   *)
(* the requests that filter.cli.json and ospf_vty.cli.json send.            *)
(***************************************************************************)
EXTENDS RestModel

CONSTANTS Lists, MaxAclRows \* access-list numbers; bound

AclTables  == {"acl", "entry", "rule", "remark"}
OspfTables == {"ospfv2", "area", "vlink", "md5_key", "nssa"}
MCTables   == AclTables \cup OspfTables
MCHeritage ==
  [acl |-> <<"acl">>, entry |-> <<"acl", "entry">>, rule |-> <<"acl", "entry", "rule">>,
   remark |-> <<"acl", "entry", "remark">>,
   ospfv2 |-> <<"ospfv2">>, area |-> <<"ospfv2", "area">>, vlink |-> <<"ospfv2", "area", "vlink">>,
   md5_key |-> <<"ospfv2", "area", "vlink", "md5_key">>, nssa |-> <<"ospfv2", "area", "nssa">>]

Addresses == {"any", "host"}
MCAttrs   == {"permit", "deny", "changed"}

\* One list takes rules for both addresses, the other one only.
Paths == {<<n, Null, a>> : n \in Lists, a \in Addresses} \ {<<2, Null, "host">>}
Areas == {0, 1}

Send(verbs, t, paths, attrs) == [verb : verbs, table : {t}, keys : paths, attr : attrs]

AclRequests ==
  Send({"POST"}, "rule", Paths, {"permit", "deny"})
  \cup Send({"DELETE"}, "rule", Paths, {"deny"})
  \cup Send({"POST"}, "remark", {<<n, Null, NoKey>> : n \in Lists}, {"permit"})
  \cup Send({"DELETE"}, "acl", {<<n>> : n \in Lists}, {"none"})

OspfRequests ==
  Send({"PUT", "DELETE"}, "ospfv2", {<<1>>}, {"changed"})
  \cup Send({"POST"}, "area", {<<1, a>> : a \in Areas}, {"changed"})
  \cup Send({"PUT", "DELETE"}, "vlink", {<<1, a, "nbr">> : a \in Areas}, {"changed"})
  \cup Send({"POST", "DELETE"}, "md5_key", {<<1, 0, "nbr", k>> : k \in {1, 2}}, {"changed"})
  \cup Send({"POST", "DELETE"}, "nssa", {<<1, 0, NoKey>>}, {"changed"})

MCRequests == AclRequests \cup OspfRequests

\* Bound: the families share no table; rows and requests are of one at a time.
OneFamily ==
  LET used == {r.table : r \in rows} \cup (IF request = NoRequest THEN {} ELSE {request.table})
  IN  \/ used \subseteq OspfTables
      \/ used \subseteq AclTables /\ (pc = "get" => Cardinality(before) + Len(asked.keys) <= MaxAclRows)

MCSpec == Init /\ [][Next /\ OneFamily']_vars
===============================================================================
