------------------------------ MODULE MCCliParse ------------------------------
(***************************************************************************)
(* CliComplete on commands of ENABLE-NODE: show ip bgp, with and without    *)
(* more words, show ipv6 bgp, show running-config, the hidden show result,  *)
(* terminal length RANGE:3; default-information originate of OSPF-NODE,      *)
(* alone and with more words; and beside them the two commands with an      *)
(* update: network A.B.C.D/M area of OSPF-NODE and interface WORD. The words *)
(* are shortened to what tells them apart.                                  *)
(***************************************************************************)
EXTENDS CliComplete, TLC

MCText == 0 :> <<>> @@
          1 :> <<"s", "h">> @@      \* show
          2 :> <<"i", "p">> @@      \* show ip
          3 :> <<"i", "p", "v">> @@ \* show ipv6
          4 :> <<"r", "u">> @@      \* show running-config
          5 :> <<"r", "e">> @@      \* show result
          6 :> <<"b">> @@           \* show ip bgp
          7 :> <<"c", "i">> @@      \* show ip bgp cidr-only
          8 :> <<"c", "o">> @@      \* show ip bgp community
          9 :> <<"1", ".", "1">> @@ \* show ip bgp A.B.C.D
          10 :> <<"b">> @@          \* show ipv6 bgp
          11 :> <<"t">> @@          \* terminal
          12 :> <<"l">> @@          \* terminal length
          13 :> <<"1">> @@          \* terminal length <1-512>
          14 :> <<"n">> @@          \* network
          15 :> <<"A", "/">> @@     \* network A.B.C.D/M
          16 :> <<"a">> @@          \* network A.B.C.D/M area
          17 :> <<"i">> @@          \* interface
          18 :> <<"W">> @@          \* interface WORD
          19 :> <<"d">> @@          \* default-information originate
          20 :> <<"m">> @@          \* default-information originate metric
          21 :> <<"1">> @@          \* default-information originate metric <0-16777214>
          22 :> <<"m", "t">> @@     \* default-information originate metric-type
          23 :> <<"1">>             \* default-information originate metric-type 1
MCNodes == DOMAIN MCText

MCNext == [n \in MCNodes |->
  CASE n = 0 -> {1, 11, 14, 17, 19} [] n = 1 -> {2, 3, 4, 5} [] n = 2 -> {6} [] n = 3 -> {10}
    [] n = 6 -> {7, 8, 9} [] n = 11 -> {12} [] n = 12 -> {13}
    [] n = 14 -> {15} [] n = 15 -> {16} [] n = 17 -> {18}
    [] n = 19 -> {20, 22} [] n = 20 -> {21} [] n = 22 -> {23} [] OTHER -> {}]

MCCmd    == {4, 5, 6, 7, 8, 9, 10, 13, 16, 18, 19, 21, 23}
MCHidden == {5}

MCDemand  == {15}
MCBoot    == {18}
MCKeyword == MCNodes \ {0, 9, 13, 15, 18, 21}
MCValues  == 15 :> {<<"1", "/">>, <<"2", "/">>} @@ 18 :> {<<"e">>}

\* Range, address, prefix, word and keyword. strtoull makes 0 of the empty word, so that a
\* range from 0 takes it; a WORD takes every word, the empty one too; the beginning of an
\* address is incomplete.
MCFlag(n, w) ==
  CASE n = 13 -> IF w = <<"1">> THEN Full ELSE None
    [] n = 21 -> IF w \in {<<>>, <<"1">>} THEN Full ELSE None
    [] n = 9  -> IF w = MCText[n] THEN Full ELSE IF IsPrefix(w, MCText[n]) THEN Incomplete ELSE None
    [] n = 15 -> IF w \in MCValues[15] THEN Full
                 ELSE IF \E v \in MCValues[15] : IsPrefix(w, v) THEN Incomplete ELSE None
    [] n = 18 -> Partial
    [] OTHER  -> IF w = MCText[n] THEN Full ELSE IF IsPrefix(w, MCText[n]) THEN Partial ELSE None

Words == {MCText[n] : n \in 1..9 \cup 11..13} \cup {<<"s">>, <<"i">>, <<"r">>, <<"c">>, <<"x">>, <<"c", "x">>}
Ends1 == {<<>>, <<" ">>}

MCUpdateLines ==
  LET words == {<<>>, <<"1">>, <<"1", "/">>, <<"3">>, <<"e">>}
      one   == {<<"n">>, <<"i">>}
      two   == {l \o <<" ">> \o w : l \in one, w \in words}
      three == {<<"n", " ", "1", "/", " ">> \o w : w \in {<<>>, <<"a">>, <<"x">>}}
  IN  one \cup two \cup three

MCMetricLines ==
  LET next == {<<"m">>, <<"m", "t">>, <<"m", "x">>, <<"x">>}
      two  == {<<"d", " ">> \o w : w \in next}
  IN  {l \o e : l \in {<<"d">>} \cup two \cup {t \o <<" ">> \o w : t \in two, w \in {<<"1">>, <<"x">>}}, e \in Ends1}

MCLines ==
  LET more(ls) == {l \o <<" ">> \o w : l \in ls, w \in Words}
      two   == more(Words)
      three == more({<<"s", "h", " ">> \o w : w \in {<<"i", "p">>, <<"i">>, <<"r", "e">>, <<"r">>}}
                      \cup {<<"t", " ", "l">>})
      four  == more({<<"s", "h", " ", "i", "p", " ", "b">> \o e : e \in Ends1})
      five  == more({<<"s", "h", " ", "i", "p", " ", "b", " ">> \o w : w \in Words})
  IN  {s \o l \o e : s \in Ends1, l \in {<<>>} \cup Words \cup two \cup three \cup four \cup five, e \in Ends1}
      \cup MCUpdateLines \cup MCMetricLines

\* The server's answers and what is kept from before matter to the lines that
\* come to a node with an update.
MCInit ==
  /\ CompleteInit
  /\ (key = "enter" \/ buf \notin MCUpdateLines) =>
       (\A n \in DOMAIN Values : kept[n] = {}) /\ \A n \in Demand : store[n] = {}

MCSpec == MCInit /\ [][CompleteNext]_allVars
===============================================================================
