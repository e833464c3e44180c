---------------------------- MODULE MCCliSession ----------------------------
(***************************************************************************)
(* CliSession with the modes of quagga.cli_mode.json and commands of         *)
(* cli.json that exercise every kind of action: the lines below are parsed   *)
(* as the shipped trees parse them.                                         *)
(***************************************************************************)
EXTENDS CliSessionInv, TLC

MCModes == {"VIEW", "ENABLE", "CONFIG", "BGP", "INTERFACE", "RMAP"}
MCParent == [m \in MCModes |-> IF m \in {"BGP", "INTERFACE", "RMAP"} THEN "CONFIG" ELSE "none"]

\* AS-NUM and the like are bound names; IPV4-ADDR:4.0 and WORD:4.1 are tokens.
MCNames == {"AS-NUM", "IFNAME", "NAME", "SEQ", "ADDRESS", "IPV4-ADDR:4.0", "WORD:4.1", "NULL"}

Type(f) == [n \in MCNames |-> IF n \in DOMAIN f THEN f[n] ELSE "absent"]
Nothing == [n \in {} |-> "absent"]

\* line |-> what it types, and the command it is in each mode that knows it.
Table ==
  "enable"      :> [typed |-> Nothing, in |-> "VIEW" :> "enable"] @@
  "disable"     :> [typed |-> Nothing, in |-> "ENABLE" :> "disable"] @@
  "e"           :> [typed |-> Nothing, in |-> "VIEW" :> "ambiguous"] @@
  "conf term"   :> [typed |-> Nothing, in |-> "ENABLE" :> "configure"] @@
  "debug cli"   :> [typed |-> Nothing, in |-> "ENABLE" :> "debug"] @@
  "no debug cli" :> [typed |-> Nothing, in |-> "ENABLE" :> "nodebug"] @@
  "show result" :> [typed |-> Nothing, in |-> "ENABLE" :> "result" @@ "CONFIG" :> "result"] @@
  "show version" :> [typed |-> Nothing, in |-> "VIEW" :> "version" @@ "ENABLE" :> "version"] @@
  "exit"        :> [typed |-> Nothing, in |-> [m \in MCModes \ {"RMAP"} |-> "exit"]] @@
  "quit"        :> [typed |-> Nothing, in |-> [m \in MCModes \ {"ENABLE", "RMAP"} |-> "quit"]] @@
  "router"      :> [typed |-> Nothing, in |-> "CONFIG" :> "incomplete"] @@
  "router bgp 1" :> [typed |-> "AS-NUM" :> "1", in |-> "CONFIG" :> "bgp"] @@
  "router bgp 2" :> [typed |-> "AS-NUM" :> "2", in |-> "CONFIG" :> "bgp"] @@
  "interface e0" :> [typed |-> "IFNAME" :> "e0", in |-> "CONFIG" :> "interface"] @@
  "route-map a" :> [typed |-> "NAME" :> "a" @@ "SEQ" :> "1",
                    in |-> "CONFIG" :> "routemap" @@ "RMAP" :> "routemap"] @@
  "bgp med"     :> [typed |-> Nothing, in |-> "BGP" :> "med"] @@
  "ip ospf auth" :> [typed |-> Nothing, in |-> "INTERFACE" :> "auth"] @@
  "match as-path" :> [typed |-> Nothing, in |-> "RMAP" :> "match"] @@
  "ip route"    :> [typed |-> "ADDRESS" :> "2" @@ "IPV4-ADDR:4.0" :> "1", in |-> "CONFIG" :> "route"]

Http(keys, cond) == [kind |-> "http", cond |-> cond, keys |-> keys, nop |-> FALSE]
Nop              == [kind |-> "http", cond |-> "*", keys |-> {}, nop |-> TRUE]
Enter(m, ps)     == [kind |-> "name", cond |-> "*", name |-> m, params |-> ps]
Call(f)          == [kind |-> "call", cond |-> "*", func |-> f]

\* An action object with "http" and "mode" installs the request first.
MCActions ==
  "enable"    :> <<Enter("ENABLE", {})>> @@
  "disable"   :> <<Enter("VIEW", {})>> @@
  "configure" :> <<Enter("CONFIG", {})>> @@
  "debug"     :> <<Call("debug-cli")>> @@
  "nodebug"   :> <<Call("no-debug-cli")>> @@
  "result"    :> <<Call("show-result")>> @@
  "version"   :> <<Nop>> @@
  "exit"      :> <<Call("exit")>> @@
  "quit"      :> <<[kind |-> "up", cond |-> "*"]>> @@
  "bgp"       :> <<Http({"AS-NUM"}, "*"), Enter("BGP", {"AS-NUM"})>> @@
  "interface" :> <<Http({"IFNAME"}, "*"), Enter("INTERFACE", {"IFNAME"})>> @@
  "routemap"  :> <<Http({"NAME", "SEQ"}, "*"), Enter("RMAP", {"NAME", "SEQ"})>> @@
  "med"       :> <<Http({"AS-NUM"}, "*")>> @@
  "auth"      :> <<Http({"IFNAME", "NULL"}, "*")>> @@
  "match"     :> <<Http({"NAME", "SEQ"}, "*")>> @@
  "route"     :> <<Http({"ADDRESS", "IPV4-ADDR:4.0"}, "IPV4-ADDR:4.0"),
                   Http({"ADDRESS", "WORD:4.1"}, "WORD:4.1")>>

MCLines    == DOMAIN Table
MCCommands == DOMAIN MCActions
MCParsed   == [l \in MCLines |-> [m \in MCModes |->
                 IF m \in DOMAIN Table[l].in THEN Table[l].in[m] ELSE "unrecognized"]]
MCTyped    == [l \in MCLines |-> Type(Table[l].typed)]
MCKeywords == [l \in MCLines |-> {}]
=============================================================================
