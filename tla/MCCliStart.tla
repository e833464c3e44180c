------------------------------ MODULE MCCliStart ------------------------------
(***************************************************************************)
(* CliStart with the modes of quagga.cli_mode.json, a file of nested modes   *)
(* and one without modes; a directory of four definition files, two of them *)
(* broken, one of them naming a mode that is not there; and command lines    *)
(* with every kind of option, options that repeat and wrong names.          *)
(***************************************************************************)
EXTENDS CliStart, TLC

M(name, depth)  == [name |-> name, depth |-> depth, privileged |-> FALSE]
MP(name, depth) == [name |-> name, depth |-> depth, privileged |-> TRUE]
D(c, m) == [command |-> c, mode |-> m]
O(o, a) == [opt |-> o, arg |-> a]

MCSettable == {"m", "j", "s", "p", "n"}
MCDefault  == "m" :> "cli_mode.json" @@ "j" :> "." @@ "s" :> "localhost" @@ "p" :> "api" @@ "n" :> ""

MCModeFiles ==
  "quagga" :> <<M("CONFIG", 1), M("BGP", 2), M("INTERFACE", 2), M("RMAP", 2), MP("ENABLE", 1), M("VIEW", 1)>> @@
  "nested" :> <<M("A", 1), MP("B", 2), M("C", 3), M("D", 2), MP("E", 1)>> @@
  "empty"  :> <<>>

MCDefinitions ==
  "bgp"    :> {D("bgp med", "BGP"), D("router bgp", "CONFIG")} @@
  "if"     :> {D("interface", "CONFIG"), D("shutdown", "INTERFACE"), D("key", "KEYCHAIN")} @@
  "part"   :> {D("enable", "VIEW"), D("disable", "ENABLE")} @@
  "nested" :> {D("a", "A"), D("c", "C"), D("e", "E")} @@
  "lost"   :> {D("b", "B")}
MCDirs == "cli.json" :> {"bgp", "if", "part", "nested", "lost"}

MCCommandLines ==
  {<<>>} \cup
  {<<O("m", f), O("j", d)>> : f \in DOMAIN MCModeFiles \cup {"missing"}, d \in {"cli.json", "missing"}} \cup
  {<<O("m", "empty"), O("d", ""), O("m", "quagga"), O("j", "cli.json")>>,
   <<O("?", ""), O("j", "missing"), O("j", "cli.json"), O("m", "nested"), O("s", "server")>>,
   <<O("m", "quagga"), O("h", ""), O("j", "cli.json")>>, <<O("v", "")>>}
===============================================================================
