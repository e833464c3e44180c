---------------------------- MODULE MCCliTreeShared ----------------------------
(***************************************************************************)
(* CliTreeBuild with two definitions of ENABLE-NODE in two files:           *)
(* bgp_route.cli.json and bgp_vty.cli.json.                                 *)
(***************************************************************************)
EXTENDS CliTreeBuild

MCFiles == {<<"view-statistics">>, <<"view-ipv4-summary">>}

MCDefun ==
  [d \in {"view-statistics", "view-ipv4-summary"} |->
     IF d = "view-statistics"
     THEN <<"show", "bgp", "view", "WORD", "(", "ipv4", "|", "ipv6", ")", "(", "unicast", "|", "multicast", ")",
            "statistics">>
     ELSE <<"show", "bgp", "view", "WORD", "ipv4", "(", "unicast", "|", "multicast", ")", "summary">>]

MCHides == [d \in DOMAIN MCDefun |-> {}]
===============================================================================
