------------------------------- MODULE MCCliBind -------------------------------
(***************************************************************************)
(* CliBind with the bindings of network ... area, area ... and router ospf  *)
(* (ospf_vty.cli.json), of access-list any and of static routes, and a list  *)
(* of other forms. Addresses have two numbers of four bits.                 *)
(***************************************************************************)
EXTENDS CliBind, TLC

Always     == [kind |-> "always", key |-> ""]
If(k)      == [kind |-> "present", key |-> k]
IfNot(k)   == [kind |-> "absent", key |-> k]
T(fn, args) == [fn |-> fn, args |-> args]
Bind(c, l, r) == [cond |-> c, left |-> l, right |-> r]

SplitPrefix == Bind(If("PREFIX"), <<"ADDRESS", "MASKLEN">>, <<T("ipv4prefix2address_masklen", <<"PREFIX">>)>>)
AreaOf(k, args) == Bind(If(k), <<"AREA-ID-NUM", "AREA-ID-FORMAT">>, <<T("area_id_and_format", args)>>)

Network == <<SplitPrefix,
             Bind(If("PREFIX"), <<"ADDRESS">>, <<T("apply_mask_ipv4", <<"ADDRESS", "MASKLEN">>)>>),
             AreaOf("NUM", <<"NULL", "NUM">>), AreaOf("ADDR", <<"ADDR", "NULL">>)>>
Area    == <<AreaOf("NUM", <<"NULL", "NUM">>), AreaOf("ADDR", <<"ADDR", "NULL">>)>>
Route   == <<SplitPrefix>>
AclAny     == <<Bind(If("NUM"), <<"ACL-NUM">>, <<T("", <<"NUM">>)>>),
             Bind(Always, <<"ADDRESS", "MASK">>, <<T("", <<"0.0.0.0">>), T("", <<"255.255.255.255">>)>>)>>
Router  == <<Bind(Always, <<"PROCESS-ID">>, <<T("", <<"1">>)>>)>>
Mixed   == <<Bind(IfNot("ADDR"), <<"A", "B", "C">>, <<T("", <<"NUM">>), T("ipv4prefix2address_masklen", <<"PREFIX">>),
                                                       T("", <<"1">>)>>),
             Bind(If("C"), <<"D", "E">>, <<T("no_functor", <<"A">>), T("", <<"B">>)>>),
             Bind(IfNot("E"), <<"F">>, <<T("address_masklen2ipv4prefix", <<"B", "C">>)>>)>>

MCBinds  == {Network, Area, Route, AclAny, Router, Mixed}
MCListed == {Network}
MCField  == <<T("address_masklen2ipv4prefix", <<"address", "masklen">>)>>

N(z, v) == [zeros |-> z, value |-> v]
Prefix(a, l) == [text |-> "", parts |-> a, len |-> <<l>>]

TypedPrefixes ==
  {Prefix(<<N(0, a), N(0, b)>>, N(0, l)) : a \in {0, 10, 15}, b \in {0, 5, 15}, l \in {0, 1, 4, 5, 8}}
  \cup {Prefix(<<N(0, 10)>>, N(0, 4)), Prefix(<<N(1, 10), N(0, 5)>>, N(1, 8)), Prefix(<<N(1, 8), N(0, 5)>>, N(0, 8))}

Numbers   == {Addr(<<n>>) : n \in {N(0, 0), N(0, 7), N(0, 255), N(2, 7), N(2, 12), N(4, 0)}}
Addresses == {Addr(<<N(0, 0), N(0, 10)>>), Addr(<<N(0, 15), N(0, 15)>>), Addr(<<N(0, 0), N(1, 10)>>),
              Addr(<<N(0, 0), N(1, 9)>>)}

NumOrAddr == {"NUM" :> v : v \in Numbers} \cup {"ADDR" :> v : v \in Addresses}

MCTyped(list) ==
  CASE list \in {Network, Mixed} -> {("PREFIX" :> p) @@ ("NUM" :> Addr(<<N(0, 7)>>)) : p \in TypedPrefixes}
    [] list = Area   -> NumOrAddr
    [] list = Route  -> {"PREFIX" :> p : p \in TypedPrefixes}
    [] list = AclAny    -> {"NUM" :> Addr(<<N(0, 7)>>)}
    [] list = Router -> {<<>>}
===============================================================================
