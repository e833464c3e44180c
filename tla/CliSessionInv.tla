---------------------------- MODULE CliSessionInv ----------------------------
(***************************************************************************)
(* What a set of command definitions must satisfy for every request to be    *)
(* addressed, and the inductive invariant that shows it is enough.           *)
(***************************************************************************)
EXTENDS CliSession

\* The names that condition an action.
Conditions ==
  {n \in Names : \E c \in Commands : \E i \in DOMAIN Actions[c] : Actions[c][i].cond = n}

\* Action a can run for line l as far as the line itself decides it.
MayRun(l, a) ==
  \/ a.cond = "*" \/ a.cond \in Keywords[l]
  \/ a.cond \in Names /\ Typed[l][a.cond] # Absent

Asks(l, m, n) ==
  /\ Parsed[l][m] \in Commands
  /\ \E i \in DOMAIN Actions[Parsed[l][m]] :
       LET a == Actions[Parsed[l][m]][i]
       IN  a.kind = "http" /\ n \in a.keys /\ MayRun(l, a)

\* The parameters that the commands of mode m take from the mode.
Needs[m \in Modes] == {n \in Names \ {NullName} : \E l \in Lines : Asks(l, m, n) /\ Typed[l][n] = Absent}

ASSUME DefinitionAssumption ==
  /\ \A l \in Lines, n \in Names : Typed[l][n] # Empty
  /\ NullName \notin Conditions
  \* a condition is a token of the line itself
  /\ \A c \in Commands : \A i \in DOMAIN Actions[c] :
       Actions[c][i].kind = "name" => Actions[c][i].params \cap Conditions = {}
  /\ \A l \in Lines, m \in Modes, n \in Conditions : Asks(l, m, n) => Typed[l][n] # Absent
  \* the modes one falls back to ask for no parameter
  /\ \A m \in Modes : Parent[m] # NoMode => Needs[Parent[m]] = {}
  /\ Privileged # NoMode => Needs[Privileged] = {}
  /\ Needs[Startup] = {}
  \* a command that selects a mode gives all that mode asks for
  /\ \A l \in Lines, m \in Modes : Parsed[l][m] \in Commands =>
       \A i \in DOMAIN Actions[Parsed[l][m]] :
         LET a == Actions[Parsed[l][m]][i] IN
         (a.kind = "name" /\ MayRun(l, a)) =>
            /\ a.name \in Modes
            /\ \A n \in Needs[a.name] : n \in a.params /\ Typed[l][n] \in Values

-------------------------------------------------------------------------------
\* Mode m has its parameters in ps, as line e gave them.
Supplied(m, ps, e) ==
  \A n \in Needs[m] : e \in Lines /\ ps[n] \in Values /\ ps[n] = Typed[e][n]

Control ==
  /\ pc \notin {"boot", "crashed", "terminated"} => mode \in Modes
  /\ pc \in Executing => line \in Lines /\ tree \in Modes
  /\ pc \in {"populate", "restore"} \cup Handling => Cmd \in Commands
  /\ pc \in {"waiting", "derive"} =>
       /\ it \in DOMAIN Actions[Cmd]
       /\ Act.kind = IF pc = "waiting" THEN "http" ELSE "name"

ParamsInv ==
  /\ \A n \in Conditions : params[n] = Absent /\ before.params[n] = Absent
  /\ (pc # "derive" /\ mode \in Modes) => Supplied(mode, params, entry)
  /\ pc = "derive" => mode = Act.name \/ Needs[mode] = {}

LineInv ==
  /\ pc \in Executing => Supplied(tree, before.params, before.entry)
  /\ (pc \in Executing /\ fallback) => Needs[tree] = {}
  /\ pc \in {"parseParent", "restore"} => fallback
  /\ pc \in {"parse", "parseParent", "populate"} => params = before.params

InputInv ==
  /\ pc \in {"waiting", "derive"} => MayRun(line, Act)
  /\ pc \in Handling =>
       \A n \in Names \ {NullName} :
         /\ Typed[line][n] # Absent => input[n] = Typed[line][n]
         /\ (Typed[line][n] = Absent /\ before.params[n] # Absent) => input[n] = before.params[n]
         /\ (n \in Conditions /\ Typed[line][n] = Absent) => input[n] = Absent

IInv == TypeOK /\ Control /\ ParamsInv /\ LineInv /\ InputInv

-------------------------------------------------------------------------------
(***************************************************************************)
(* What a line has done of the effect that CliSessionAtomic gives it.        *)
(***************************************************************************)
ASSUME MovesAssumption == Atomic!AtomicAssumption

\* Where the line may have started to act.
Starts == {before.mode} \cup (IF signalled THEN {Atomic!End(before.mode)} ELSE {})

\* The action that changes the mode, if there is one, has done so.
Moved == \/ pc = "restore"
         \/ pc \in Handling /\ \E i \in Atomic!Moves(Cmd) : i < it \/ (i = it /\ pc = "derive")

\* The command is the owner's, or the search for it goes on where the owner is.
OwnerInv ==
  pc \in Executing =>
    /\ before.mode \in Modes
    /\ pc = "parse" => ~fallback
    /\ ~fallback => tree = before.mode
    /\ fallback => /\ Parsed[line][before.mode] = "unrecognized"
                   /\ Atomic!Owner(line, before.mode) = Atomic!Nearest(line)[tree]

Unmoved ==
  /\ ~exit /\ params = before.params
  /\ mode = IF signalled THEN Atomic!End(before.mode) ELSE before.mode
HasMoved ==
  \E start \in Starts :
    /\ exit = Atomic!Ends(Cmd, start)
    /\ \/ mode = Atomic!Destination(Cmd, start)
       \/ signalled /\ mode \in {Atomic!End(before.mode)} \cup Atomic!Torn(Cmd, start)
    /\ params = IF pc = "derive" THEN before.params ELSE Atomic!Derived(Cmd, line)

EffectInv ==
  /\ pc = "boot" => mode = NoMode
  /\ pc \in Executing => IF Moved THEN HasMoved ELSE Unmoved

\* No request inserts an empty value; an action without a condition is looked up once.
LookupInv ==
  pc \in Handling =>
    /\ \A n \in Names : input[n] = IF n = NullName THEN NullKey
                                   ELSE IF Typed[line][n] # Absent THEN Typed[line][n] ELSE before.params[n]
    /\ find = "keywords" => it \in DOMAIN Actions[Cmd] /\ Act.cond # "*"

AtomicInv == OwnerInv /\ EffectInv /\ LookupInv
===============================================================================
