------------------------- MODULE MCCliSessionNested -------------------------
(***************************************************************************)
(* CliSession with a mode file mode_traverse accepts and the shipped one is  *)
(* not: modes three deep, a privileged mode that has one above it, and a     *)
(* definition that names a mode the file lacks. The actions of "list" have   *)
(* keyword conditions.                                                      *)
(***************************************************************************)
EXTENDS CliSession, TLC

MCModes  == {"TOP", "A", "B", "C"}
MCParent == "TOP" :> "none" @@ "A" :> "none" @@ "B" :> "A" @@ "C" :> "B"
MCNames  == {"X", "NULL"}
Absence  == [n \in MCNames |-> "absent"]

Http(cond) == [kind |-> "http", cond |-> cond, keys |-> {"X"}, nop |-> FALSE]
Enter(m)   == [kind |-> "name", cond |-> "*", name |-> m, params |-> {}]

MCActions ==
  "a"     :> <<Enter("A")>> @@
  "b"     :> <<Enter("B")>> @@
  "c"     :> <<Enter("C")>> @@
  "lost"  :> <<Enter("MISSING")>> @@
  "quit"  :> <<[kind |-> "up", cond |-> "*"]>> @@
  "exit"  :> <<[kind |-> "call", cond |-> "*", func |-> "exit"]>> @@
  "list"  :> <<Http("in"), Http("out"), Http("X")>>

Table ==
  "a"      :> ("TOP" :> "a") @@
  "b"      :> ("A" :> "b" @@ "B" :> "ambiguous") @@
  "c"      :> ("B" :> "c") @@
  "lost"   :> ("A" :> "lost") @@
  "quit"   :> ("A" :> "quit" @@ "B" :> "incomplete") @@
  "exit"   :> ("TOP" :> "exit" @@ "A" :> "exit" @@ "C" :> "exit") @@
  "list in"  :> ("A" :> "list") @@
  "list out" :> ("A" :> "list")

MCLines    == DOMAIN Table
MCCommands == DOMAIN MCActions
MCParsed   == [l \in MCLines |-> [m \in MCModes |->
                 IF m \in DOMAIN Table[l] THEN Table[l][m] ELSE "unrecognized"]]
MCTyped    == [l \in MCLines |-> IF l \in {"list in", "list out"}
                                 THEN [Absence EXCEPT !["X"] = "1"] ELSE Absence]
MCKeywords == [l \in MCLines |-> CASE l = "list in" -> {"in"} [] l = "list out" -> {"out"}
                                   [] OTHER -> {}]

ASSUME Atomic!AtomicAssumption
=============================================================================
