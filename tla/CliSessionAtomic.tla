--------------------------- MODULE CliSessionAtomic ---------------------------
(***************************************************************************)
(* What the session promises, one line at a time: a line is looked for in   *)
(* the current mode and, if unrecognized there, in the modes above; the     *)
(* nearest that has it owns it. Undisturbed, the line takes effect at once. *)
(* Disturbed by signals, it differs from that only in where it starts       *)
(* and where it ends, which may be the privileged mode, or, when a signal    *)
(* comes inside exit, the mode above that.                                  *)
(*                                                                          *)
(* At most one action of a command changes the mode (AtomicAssumption).     *)
(***************************************************************************)
EXTENDS Naturals, Sequences

CONSTANTS Modes, NoMode, Parent, ExitToFinish, ExitToEnd, Privileged, Startup,
          Lines, NoLine, Commands, Parsed, Typed, Actions, Names, Absent, NullName, NullKey

VARIABLES mode, params, exit, signalled,
          reading \* the line that was read and has not happened yet
vars == <<mode, params, exit, signalled, reading>>

Moves(c) == {i \in DOMAIN Actions[c] :
               Actions[c][i].kind \in {"name", "up"} \/
               (Actions[c][i].kind = "call" /\ Actions[c][i].func = "exit")}

AtomicAssumption ==
  \A c \in Commands : \A i, j \in Moves(c) : i = j /\ Actions[c][i].cond = "*"

\* From each mode up, the nearest whose tree has line l.
Nearest(l) ==
  LET nearest[m \in Modes] ==
        IF Parsed[l][m] \in Commands THEN m
        ELSE IF Parent[m] = NoMode THEN NoMode ELSE nearest[Parent[m]]
  IN  nearest

Owner(l, m) ==
  IF Parsed[l][m] = "unrecognized" /\ Parent[m] # NoMode THEN Nearest(l)[Parent[m]]
  ELSE IF Parsed[l][m] \in Commands THEN m ELSE NoMode

Up(m) == IF Parent[m] = NoMode THEN m ELSE Parent[m]
End(m) == IF Privileged = NoMode THEN m ELSE Privileged

Leave(m) == IF m \in ExitToFinish THEN m ELSE IF m \in ExitToEnd THEN End(m) ELSE Up(m)

\* The mode command c leads to from m, and whether it ends the session there.
Destination(c, m) ==
  IF Moves(c) = {} THEN m
  ELSE LET a == Actions[c][CHOOSE i \in Moves(c) : TRUE] IN
       CASE a.kind = "name" -> IF a.name \in Modes THEN a.name ELSE m
         [] a.kind = "up"   -> Up(m)
         [] a.kind = "call" -> Leave(m)

Ends(c, m) == \E i \in Moves(c) : Actions[c][i].kind = "call" /\ m \in ExitToFinish

\* An exit that a signal met on its way up: from the privileged mode.
Torn(c, m) == {Up(End(m)) : i \in {j \in Moves(c) : Actions[c][j].kind = "call" /\ m \notin ExitToFinish}}

Given(l) == [n \in Names |-> IF n = NullName THEN NullKey
                             ELSE IF Typed[l][n] # Absent THEN Typed[l][n] ELSE params[n]]

Derived(c, l) ==
  IF \E i \in Moves(c) : Actions[c][i].kind = "name"
  THEN LET a == Actions[c][CHOOSE i \in Moves(c) : TRUE]
       IN  [n \in Names |-> IF n \in a.params THEN Given(l)[n] ELSE Absent]
  ELSE params

\* What line l does when it begins to act in the mode start: the owner's mode
\* is set again after the actions of a line found above the current mode.
Effect(l, start, owner) ==
  /\ mode' = IF owner = mode THEN Destination(Parsed[l][owner], start) ELSE owner
  /\ exit' = Ends(Parsed[l][owner], start)
  /\ params' = Derived(Parsed[l][owner], l)

Init ==
  /\ mode = NoMode /\ params = [n \in Names |-> Absent]
  /\ exit = FALSE /\ signalled = FALSE /\ reading = NoLine

Boot ==
  /\ mode = NoMode
  /\ mode' = Startup
  /\ UNCHANGED <<params, exit, signalled, reading>>

Ready == mode \in Modes /\ ~exit /\ reading = NoLine

Read(l) ==
  /\ Ready /\ reading' = l
  /\ UNCHANGED <<mode, params, exit, signalled>>

LineOwner == Owner(reading, mode)

Line ==
  /\ reading # NoLine /\ LineOwner # NoMode
  /\ Effect(reading, mode, LineOwner)
  /\ signalled' = FALSE /\ reading' = NoLine

Refused ==
  /\ reading # NoLine /\ LineOwner = NoMode
  /\ signalled' = FALSE /\ reading' = NoLine
  /\ UNCHANGED <<mode, params, exit>>

\* Signals while the line is being worked off: it may act from the privileged
\* mode, and it may leave the session there or, torn, above it.
Disturbed ==
  /\ reading # NoLine /\ signalled' = TRUE /\ reading' = NoLine
  /\ IF LineOwner = NoMode
     THEN mode' = End(mode) /\ UNCHANGED <<params, exit>>
     ELSE \E start \in {mode, End(mode)} :
            \/ Effect(reading, start, LineOwner)
            \/ /\ mode' \in {End(mode)} \cup Torn(Parsed[reading][LineOwner], start)
               /\ exit' = Ends(Parsed[reading][LineOwner], start)
               /\ params' = Derived(Parsed[reading][LineOwner], reading)

Signal ==
  /\ mode \in Modes /\ reading = NoLine
  /\ mode' = End(mode) /\ signalled' = TRUE
  /\ UNCHANGED <<params, exit, reading>>

\* The end of the input is an exit of its own; a signal in it is lost, or it
\* goes up from the privileged mode.
EndOfInput ==
  /\ Ready
  /\ \/ /\ exit' = (mode \in ExitToFinish) /\ mode' = Leave(mode)
        /\ signalled' \in {signalled, TRUE}
     \/ /\ mode \notin ExitToFinish
        /\ exit' = FALSE /\ mode' = Up(End(mode)) /\ signalled' = TRUE
  /\ UNCHANGED <<params, reading>>

Next == \/ Boot \/ Signal \/ EndOfInput \/ Line \/ Refused \/ Disturbed
        \/ \E l \in Lines : Read(l)

Spec == Init /\ [][Next]_vars
===============================================================================
