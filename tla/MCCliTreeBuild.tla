---------------------------- MODULE MCCliTreeBuild ----------------------------
(***************************************************************************)
(* CliTreeBuild with definitions of CONFIG-NODE in filter.cli.json,         *)
(* bgp_vty, bgp_filter, builtins and vty.cli.json: groups side by side, a   *)
(* node that five nodes share, repeated groups, hidden tokens.              *)
(***************************************************************************)
EXTENDS CliTreeBuild

MCFiles == {<<"access-list-any", "access-list-remark", "access-list-standard-any",
              "access-list-standard-host">>,
            <<"ip-community-list-standard">>,
            <<"ip-as-path", "no-ip-as-path-all", "no-ip-as-path">>,
            <<"show-result">>, <<"show-history">>}

Action == <<"(", "deny", "|", "permit", ")">>
Number == <<"(", "<1-99>", "|", "<1300-1999>", ")">>

MCDefun ==
  ("access-list-any" :> <<"access-list", "WORD">> \o Action \o <<"any">>) @@
  ("access-list-remark" :>
     <<"access-list", "(", "<1-99>", "|", "<100-199>", "|", "<1300-1999>", "|", "<2000-2699>", "|", "WORD", ")",
       "remark", "[", "WORD", "]">>) @@
  ("access-list-standard-any" :> <<"access-list">> \o Number \o Action \o <<"any">>) @@
  ("access-list-standard-host" :> <<"access-list">> \o Number \o Action \o <<"host", "A.B.C.D">>) @@
  ("ip-community-list-standard" :> <<"ip", "community-list", "<1-99>">> \o Action \o <<"[", "AA:NN", "]">>) @@
  ("ip-as-path" :> <<"ip", "as-path", "access-list", "WORD">> \o Action \o <<"[", "WORD", "]">>) @@
  ("no-ip-as-path-all" :> <<"no", "ip", "as-path", "access-list", "WORD">>) @@
  ("no-ip-as-path" :> <<"no", "ip", "as-path", "access-list", "WORD">> \o Action \o <<"[", "WORD", "]">>) @@
  ("show-result" :> <<"show", "result">>) @@
  ("show-history" :> <<"show", "history">>)

MCHides == [d \in DOMAIN MCDefun |-> IF d = "show-result" THEN {"show", "result"} ELSE {}]
===============================================================================
