------------------------------ MODULE CliSession ------------------------------
(***************************************************************************)
(* One interactive session of the router CLI: the loop of Cli::loop, the    *)
(* execution of one line (CliReadline::execute, execute_parent and          *)
(* handle_actions), the actions a command carries, and the SIGINT/SIGTSTP   *)
(* handler, which may run between any two steps of all of these.            *)
(*                                                                          *)
(* The command trees are a constant: Parsed[l][m] is what parse_execute     *)
(* answers for the line l in the tree of mode m, and Typed[l] is the input  *)
(* map the tokens and the binds of that line give.                          *)
(***************************************************************************)
EXTENDS Naturals, Sequences

CONSTANTS
  Modes,         \* the modes of the mode file
  NoMode,        \* the null CliTree pointer, and the empty mode name
  ModeNames,     \* the names a mode action may give
  Parent,        \* CliTree::parent_, per mode
  ExitToFinish,  \* the modes with exit_to_finish_
  ExitToEnd,     \* the modes with exit_to_end_
  Privileged,    \* privileged_mode_
  Startup,       \* what mode_traverse returns: the last top-level mode
  Lines, NoLine, \* what the user may type
  Commands,      \* the executable nodes of the trees
  Parsed, Typed, Keywords,
  Actions,       \* CliNode::actions_ of each command
  Names,         \* the keys of ParamsMap
  WordTokens,    \* those that are tokens of words and communities
  Values, Empty, Absent,
  NullName, NullKey

Errors      == {"incomplete", "ambiguous", "unrecognized"}
Entries     == Values \cup {Empty, Absent}
ParamsMaps  == [Names -> Entries]
NoParams    == [n \in Names |-> Absent]
Funcs       == {"exit", "debug-cli", "no-debug-cli", "show-result", "write-result"}

\* "*" is the condition of an action that has none.
HttpActions == [kind : {"http"}, cond : STRING, keys : SUBSET Names, nop : BOOLEAN]
NameActions == [kind : {"name"}, cond : STRING, name : ModeNames, params : SUBSET Names]
UpActions   == [kind : {"up"}, cond : STRING]
CallActions == [kind : {"call"}, cond : STRING, func : Funcs]
AnyAction   == HttpActions \cup NameActions \cup UpActions \cup CallActions

ASSUME ModeAssumption ==
  /\ NoMode \notin Modes /\ Modes \subseteq ModeNames /\ NoMode \notin ModeNames
  /\ Parent \in [Modes -> Modes \cup {NoMode}]
  /\ ExitToFinish \subseteq Modes /\ ExitToEnd \subseteq Modes
  /\ Privileged \in Modes \cup {NoMode}
  /\ Startup \in Modes

ASSUME LineAssumption ==
  /\ NoLine \notin Lines
  /\ Commands \cap Errors = {}
  /\ Parsed \in [Lines -> [Modes -> Commands \cup Errors]]
  /\ Typed \in [Lines -> ParamsMaps]
  /\ Keywords \in [Lines -> SUBSET STRING]
  /\ Actions \in [Commands -> Seq(AnyAction)]

ASSUME NameAssumption ==
  /\ Names \subseteq STRING /\ "*" \notin Names
  /\ Empty # Absent /\ Empty \notin Values /\ Absent \notin Values
  /\ NullName \in Names /\ NullKey \in Values \cup {Empty}

\* The words of a line are strung together under their token, after what the
\* mode has there: no mode keeps a word's token, so that is nothing.
ASSUME TokenAssumption ==
  /\ WordTokens \subseteq Names
  /\ \A c \in Commands : \A i \in DOMAIN Actions[c] :
       Actions[c][i].kind = "name" => Actions[c][i].params \cap WordTokens = {}

VARIABLES
  pc,        \* where the program is
  mode,      \* Cli::mode_
  params,    \* Cli::params_
  exit,      \* Cli::exit_
  debug,     \* Cli::debug_
  result,    \* Cli::result_: what the last request left there
  closed,    \* the terminal is gone: readline() only returns NULL
  line,      \* the line being executed, rl_line_buffer
  tree,      \* the local variable mode of execute and execute_parent
  fallback,  \* execute_parent is on the stack
  input,     \* the local map of handle_actions
  it, find,  \* its iterator over the actions, and which of its two lookups runs
  entry,     \* history: the last line that entered a mode by name
  signalled, \* history: a signal came since the last line was read
  before     \* history: what the session was when the line was read

cliVars  == <<mode, params, exit, debug, result>>
execVars == <<line, tree, fallback>>
iterVars == <<input, it, find>>
histVars == <<entry, signalled, before>>
vars == <<pc, closed, cliVars, execVars, iterVars, histVars>>

Places == {"boot", "load", "prompt", "parse", "parseParent", "populate", "dispatch",
           "waiting", "derive", "restore", "terminated", "crashed"}
Handling == {"dispatch", "waiting", "derive"}
Executing == {"parse", "parseParent", "populate", "restore"} \cup Handling

Cmd == Parsed[line][tree]
Act == Actions[Cmd][it]

Init ==
  /\ pc = "boot" /\ mode = NoMode /\ params = NoParams
  /\ exit = FALSE /\ debug \in BOOLEAN /\ result = "none" /\ closed = FALSE
  /\ line = NoLine /\ tree = NoMode /\ fallback = FALSE
  /\ input = NoParams /\ it = 1 /\ find = "params"
  /\ entry = NoLine /\ signalled = FALSE
  /\ before = [mode |-> NoMode, params |-> NoParams, entry |-> NoLine, signalled |-> FALSE]

(***************************************************************************)
(* Start-up: Cli::init installs the signal handlers first, then reads the   *)
(* mode file, then loads every command definition.                          *)
(***************************************************************************)
ModeRead ==
  /\ pc = "boot"
  /\ \/ pc' = "load" /\ mode' = Startup
     \/ pc' = "terminated" /\ mode' = mode       \* mode_read failed
  /\ UNCHANGED <<params, exit, debug, result, closed, execVars, iterVars, histVars>>

Loaded ==
  /\ pc = "load"
  /\ pc' = "prompt"
  /\ UNCHANGED <<closed, cliVars, execVars, iterVars, histVars>>

(***************************************************************************)
(* What a mode change does.                                                 *)
(***************************************************************************)
ModeOrSame(m) == IF m \in Modes THEN m ELSE mode       \* mode_set(string&)
\* Mutant: mode_up() without the check of the null parent.
ModeUpUnchecked(m) == Parent[m]
ModeUp(m)     == IF Parent[m] # NoMode THEN Parent[m] ELSE m

\* Cli::mode_up() reads mode_ once and writes it later: a signal in between is lost.
MoveUp ==
  /\ mode' = ModeUp(mode)
  /\ signalled' \in {signalled, signalled \/ Parent[mode] # NoMode}

\* Mutant: exit() that forgets exit_to_end_.
CliExitNoEnd ==
  IF mode \in ExitToFinish
  THEN exit' = TRUE /\ UNCHANGED <<mode, signalled>>
  ELSE MoveUp /\ exit' = exit

\* Cli::exit() without a signal in it, or with one that mode_up overwrites.
ExitUndisturbed ==
  \/ /\ mode \in ExitToFinish
     /\ exit' = TRUE /\ UNCHANGED <<mode, signalled>>
  \/ /\ mode \in ExitToEnd \ ExitToFinish
     /\ mode' = ModeOrSame(Privileged) /\ UNCHANGED <<exit, signalled>>
  \/ /\ mode \notin ExitToFinish \cup ExitToEnd
     /\ MoveUp /\ exit' = exit

\* exit() reads mode_ for each flag and again in mode_up. A signal after the first
\* read, and it goes up from the privileged mode: exit_to_end_ has been read of the
\* mode before the signal, or is read of the one after it.
ExitTorn ==
  LET m == ModeOrSame(Privileged) IN
  /\ mode \notin ExitToFinish /\ ~({mode, m} \subseteq ExitToEnd)
  /\ mode' = ModeUp(m) /\ signalled' = TRUE /\ exit' = exit

CliExit == ExitUndisturbed \/ ExitTorn

(***************************************************************************)
(* The loop of the program, and the prompt.                                 *)
(***************************************************************************)
ReadLine(l) ==
  /\ pc = "prompt" /\ ~exit /\ ~closed
  /\ pc' = "parse" /\ line' = l /\ tree' = mode /\ fallback' = FALSE
  /\ before' = [mode |-> mode, params |-> params, entry |-> entry, signalled |-> signalled]
  /\ signalled' = FALSE
  /\ UNCHANGED <<cliVars, closed, iterVars, entry>>

EndOfInput ==
  /\ pc = "prompt" /\ ~exit
  /\ CliExit
  /\ line' = NoLine
  /\ UNCHANGED <<pc, params, debug, result, closed, tree, fallback, iterVars, entry, before>>

Finish ==
  /\ pc = "prompt" /\ exit
  /\ pc' = "terminated"
  /\ UNCHANGED <<closed, cliVars, execVars, iterVars, histVars>>

\* The terminal disappears: from now on every readline() returns NULL.
Close ==
  /\ pc \notin {"terminated", "crashed"} /\ ~closed
  /\ closed' = TRUE
  /\ UNCHANGED <<pc, cliVars, execVars, iterVars, histVars>>

(***************************************************************************)
(* Finding the command: the tree of the current mode, then, only when the   *)
(* line is unrecognized there, the trees of the modes above it.             *)
(***************************************************************************)
Parse ==
  /\ pc = "parse"
  /\ \/ /\ Cmd \in Commands
        /\ pc' = "populate" /\ UNCHANGED <<tree, fallback>>
     \/ /\ Cmd \in {"incomplete", "ambiguous"} \/ (Cmd = "unrecognized" /\ Parent[tree] = NoMode)
        /\ pc' = "prompt" /\ UNCHANGED <<tree, fallback>>
     \/ /\ Cmd = "unrecognized" /\ Parent[tree] # NoMode
        /\ pc' = "parseParent" /\ tree' = Parent[tree] /\ fallback' = TRUE
  /\ UNCHANGED <<closed, cliVars, line, iterVars, histVars>>

\* Mutant: execute_parent() that asks the same tree again.
ParseParentStuck ==
  /\ pc = "parseParent"
  /\ pc' = IF Cmd \in Commands THEN "populate" ELSE pc
  /\ UNCHANGED <<closed, cliVars, execVars, iterVars, histVars>>

\* execute_parent goes on for every answer that is not a complete command.
ParseParent ==
  /\ pc = "parseParent"
  /\ \/ /\ Cmd \in Commands
        /\ pc' = "populate" /\ tree' = tree
     \/ /\ Cmd \notin Commands /\ Parent[tree] # NoMode
        /\ pc' = pc /\ tree' = Parent[tree]
     \/ /\ Cmd \notin Commands /\ Parent[tree] = NoMode
        /\ pc' = "prompt" /\ tree' = tree
  /\ UNCHANGED <<closed, cliVars, line, fallback, iterVars, histVars>>

(***************************************************************************)
(* handle_actions: the input map, then each action in order.                *)
(***************************************************************************)
\* Mutant: the parameters of the mode are not copied to the input map.
PopulateTyped ==
  /\ pc = "populate"
  /\ pc' = "dispatch" /\ it' = 1 /\ find' = "params"
  /\ input' = [Typed[line] EXCEPT ![NullName] = NullKey]
  /\ UNCHANGED <<closed, cliVars, execVars, histVars>>

\* What the line gives goes over what the mode has, for words too (TokenAssumption).
Populate ==
  /\ pc = "populate"
  /\ pc' = "dispatch" /\ it' = 1 /\ find' = "params"
  /\ input' = [n \in Names |-> IF n = NullName THEN NullKey
                               ELSE IF Typed[line][n] # Absent THEN Typed[line][n]
                               ELSE params[n]]
  /\ UNCHANGED <<closed, cliVars, execVars, histVars>>

\* An action without condition is looked up once; one with a condition is
\* looked up among the parameters and then again among the keywords.
Found ==
  IF find = "keywords" THEN Act.cond \in Keywords[line]
  ELSE Act.cond = "*" \/ (Act.cond \in Names /\ input[Act.cond] # Absent)

NextLookup ==
  IF Act.cond # "*" /\ find = "params"
  THEN it' = it /\ find' = "keywords"
  ELSE it' = it + 1 /\ find' = "params"

Dispatching(k) == pc = "dispatch" /\ it <= Len(Actions[Cmd]) /\ Found /\ Act.kind = k

Skip ==
  /\ pc = "dispatch" /\ it <= Len(Actions[Cmd]) /\ ~Found
  /\ NextLookup
  /\ UNCHANGED <<pc, closed, cliVars, execVars, input, histVars>>

\* CliActionHttp::handle. operator[] inserts an empty value for a name the
\* path or the params mention and the map lacks. A NOP method sends nothing.
WithKeys == [n \in Names |-> IF n \in Act.keys /\ input[n] = Absent THEN Empty ELSE input[n]]

SendRequest ==
  /\ Dispatching("http")
  /\ input' = WithKeys
  /\ IF Act.nop THEN pc' = pc /\ NextLookup
                ELSE pc' = "waiting" /\ UNCHANGED <<it, find>>
  /\ UNCHANGED <<closed, cliVars, execVars, histVars>>

\* The server's answer or a failed transfer: runtime_error_ is never set, so
\* both go on to the next action, and both replace the result.
Answer ==
  /\ pc = "waiting"
  /\ pc' = "dispatch" /\ NextLookup
  /\ result' \in {"reply", "nothing"}
  /\ UNCHANGED <<closed, mode, params, exit, debug, execVars, input, histVars>>

\* CliActionMode::handle with a name: the mode first, the parameters after it.
EnterMode ==
  /\ Dispatching("name")
  /\ mode' = ModeOrSame(Act.name)
  /\ pc' = "derive"
  /\ UNCHANGED <<closed, params, exit, debug, result, execVars, iterVars, histVars>>

\* Mutant: the parameters of the last mode are not cleared.
DeriveParamsKeeping ==
  /\ pc = "derive"
  /\ params' = [n \in Names |-> IF n \in Act.params THEN input[n] ELSE params[n]]
  /\ pc' = "dispatch" /\ NextLookup /\ entry' = line
  /\ UNCHANGED <<closed, mode, exit, debug, result, execVars, input, signalled, before>>

DeriveParams ==
  /\ pc = "derive"
  /\ params' = [n \in Names |-> IF n \in Act.params THEN input[n] ELSE Absent]
  /\ pc' = "dispatch" /\ NextLookup /\ entry' = line
  /\ UNCHANGED <<closed, mode, exit, debug, result, execVars, input, signalled, before>>

UpMode ==
  /\ Dispatching("up")
  /\ MoveUp
  /\ NextLookup
  /\ UNCHANGED <<pc, closed, params, exit, debug, result, execVars, input, entry, before>>

BuiltIn ==
  /\ Dispatching("call")
  /\ \/ Act.func = "exit" /\ CliExit /\ UNCHANGED debug
     \/ Act.func \in {"debug-cli", "no-debug-cli"}
        /\ debug' = (Act.func = "debug-cli") /\ UNCHANGED <<mode, exit, signalled>>
     \/ Act.func \in {"show-result", "write-result"} /\ UNCHANGED <<mode, exit, debug, signalled>>
  /\ NextLookup
  /\ UNCHANGED <<pc, closed, params, result, execVars, input, entry, before>>

Handled ==
  /\ pc = "dispatch" /\ it > Len(Actions[Cmd])
  /\ pc' = IF fallback THEN "restore" ELSE "prompt"
  /\ input' = NoParams /\ it' = 1 /\ find' = "params"
  /\ UNCHANGED <<closed, cliVars, execVars, histVars>>

\* Mutant: execute_parent() leaves the mode the actions chose.
RestoreNothing ==
  /\ pc = "restore"
  /\ pc' = "prompt"
  /\ UNCHANGED <<closed, cliVars, execVars, iterVars, histVars>>

\* The mode_set(mode) that follows handle_actions in execute_parent.
Restore ==
  /\ pc = "restore"
  /\ mode' = tree /\ pc' = "prompt"
  /\ UNCHANGED <<closed, params, exit, debug, result, execVars, iterVars, histVars>>

(***************************************************************************)
(* SIGINT and SIGTSTP: Cli::end() and then start_over(), whose prompt()     *)
(* reads mode_.                                                             *)
(***************************************************************************)
\* Mutant: end() forgets the parameters too.
InterruptForgetting ==
  /\ pc \notin {"terminated", "crashed"}
  /\ IF mode = NoMode
     THEN pc' = "crashed" /\ UNCHANGED <<mode, params, signalled>>
     ELSE pc' = pc /\ mode' = ModeOrSame(Privileged) /\ params' = NoParams /\ signalled' = TRUE
  /\ UNCHANGED <<closed, exit, debug, result, execVars, iterVars, entry, before>>

Interrupt ==
  /\ pc \notin {"terminated", "crashed"}
  /\ IF mode = NoMode
     THEN pc' = "crashed" /\ UNCHANGED <<mode, signalled>>
     ELSE pc' = pc /\ mode' = ModeOrSame(Privileged) /\ signalled' = TRUE
  /\ UNCHANGED <<closed, params, exit, debug, result, execVars, iterVars, entry, before>>

-------------------------------------------------------------------------------
Program ==
  \/ ModeRead \/ Loaded \/ Finish \/ (closed /\ EndOfInput)
  \/ Parse \/ ParseParent \/ Populate
  \/ Skip \/ SendRequest \/ EnterMode \/ DeriveParams \/ UpMode \/ BuiltIn
  \/ Handled \/ Restore

User == (\E l \in Lines : ReadLine(l)) \/ EndOfInput \/ Close \/ Interrupt

Next == Program \/ Answer \/ User

Spec == Init /\ [][Next]_vars

\* The program runs on; curl ends every transfer with an answer or an error.
FairSpec == Spec /\ WF_vars(Program) /\ WF_vars(Answer)

-------------------------------------------------------------------------------
(***************************************************************************)
(* Properties.                                                              *)
(***************************************************************************)
TypeOK ==
  /\ pc \in Places /\ closed \in BOOLEAN
  /\ mode \in Modes \cup {NoMode} /\ params \in ParamsMaps
  /\ exit \in BOOLEAN /\ debug \in BOOLEAN /\ result \in {"none", "reply", "nothing"}
  /\ line \in Lines \cup {NoLine} /\ tree \in Modes \cup {NoMode} /\ fallback \in BOOLEAN
  /\ input \in ParamsMaps /\ it \in Nat \ {0} /\ find \in {"params", "keywords"}
  /\ entry \in Lines \cup {NoLine} /\ signalled \in BOOLEAN
  /\ before \in [mode : Modes \cup {NoMode}, params : ParamsMaps,
                  entry : Lines \cup {NoLine}, signalled : BOOLEAN]

\* prompt(), execute() and exit() read through mode_ without a check: once the
\* mode file is read it never is null, whatever modes the definitions name.
ModeDefined ==
  pc \notin {"boot", "crashed", "terminated"} => mode \in Modes

\* Every component of a request's path that stands for a parameter is filled
\* with what the user typed on that line or, when the line does not give it,
\* on the line that had entered the mode the user saw; never with the empty
\* string path_from_params inserts, and whatever signals came in between.
RequestAddressed ==
  pc = "waiting" =>
    \A n \in Act.keys \ {NullName} :
      /\ input[n] \in Values
      /\ \/ input[n] = Typed[line][n]
         \/ before.entry # NoLine /\ input[n] = Typed[before.entry][n]

\* Line by line the session does what CliSessionAtomic says: seen from outside,
\* a line that is being executed has been read and not happened yet.
Seen(now, then) == IF pc \in Executing THEN then ELSE now
Atomic == INSTANCE CliSessionAtomic WITH
  mode      <- Seen(mode, before.mode),
  params    <- Seen(params, before.params),
  exit      <- exit /\ pc \notin Executing,
  reading   <- IF pc \in Executing THEN line ELSE NoLine,
  signalled <- Seen(signalled, before.signalled)

LineAtATime == Atomic!Spec

\* Every line read is worked off, and a session whose terminal is gone ends.
LineFinishes == pc = "parse" ~> pc \in {"prompt", "terminated"}
ClosedTerminates == closed ~> pc \in {"terminated", "crashed"}

\* if.cli.json calls the command "Select an interface to configure": when a
\* command that selects a mode is done, and no signal came, that is the mode.
SelectedModeEntered ==
  [][(pc \in {"dispatch", "restore"} /\ pc' = "prompt" /\ ~signalled) =>
       (\A i \in DOMAIN Actions[Cmd] :
          Actions[Cmd][i].kind = "name" => mode' = Actions[Cmd][i].name)]_vars
===============================================================================
