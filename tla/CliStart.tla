------------------------------- MODULE CliStart -------------------------------
(***************************************************************************)
(* The program from main to the first prompt: the options, the mode file     *)
(* (mode_traverse), the command definitions (load_cli_json_all), and the     *)
(* signals that may come once their handlers are installed. CliSession takes *)
(* over where this ends.                                                    *)
(*                                                                          *)
(* A mode file is the sequence of its modes as mode_traverse meets them:     *)
(* each before its children, the keys of an object in alphabetical order.   *)
(***************************************************************************)
EXTENDS Integers, Sequences, SequencesExt

CONSTANTS
  Settable, Default, \* the options with a value, and what they are without one
  CommandLines,      \* what main may be given: sequences of [opt, arg]
  ModeFiles,         \* the files that can be read: [name, depth, privileged]
  Dirs,              \* the directories that can be read: their definition files
  Definitions,       \* of each definition file: a set of [command, mode]
  Broken             \* files that cannot be read to their end

None == "none"

ASSUME StartAssumption ==
  /\ {"m", "j"} \subseteq Settable /\ Default \in [Settable -> STRING]
  /\ CommandLines \subseteq Seq([opt : STRING, arg : STRING])
  /\ \A f \in DOMAIN ModeFiles : LET ms == ModeFiles[f] IN
       /\ ms \in Seq([name : STRING, depth : Nat, privileged : BOOLEAN])
       /\ \A i \in DOMAIN ms : /\ ms[i].depth \in 1..(IF i = 1 THEN 1 ELSE ms[i - 1].depth + 1)
                               /\ ms[i].name # None
                               /\ \A k \in DOMAIN ms : ms[i].name = ms[k].name => i = k
  /\ UNION {Dirs[d] : d \in DOMAIN Dirs} \subseteq DOMAIN Definitions

VARIABLES
  given,     \* argv: fixed
  args,      \* what getopt_long has not returned yet
  conf,      \* cli_mode_file_, cli_json_dir_, api_server_, api_prefix_, null_key_
  pc,
  registered,\* tree_: the names of the modes that have a tree
  parents,   \* parent_ of each tree
  open,      \* the trees of the activations of mode_traverse
  privileged,\* privileged_mode_
  mode,      \* mode_
  todo,      \* the entries readdir has yet to return
  loaded,    \* the commands in each mode's tree: a set of [command, mode]
  signalled, \* history: a signal came
  where      \* history: where the program was when it crashed

options == <<given, args, conf>>
trees   == <<registered, parents, open, privileged>>
vars    == <<options, pc, trees, mode, todo, loaded, signalled, where>>

Init ==
  /\ given \in CommandLines /\ args = given /\ conf = Default /\ pc = "options"
  /\ registered = {} /\ parents = <<>> /\ open = <<>> /\ privileged = None
  /\ mode = None /\ todo = {} /\ loaded = {} /\ signalled = FALSE /\ where = None

-------------------------------------------------------------------------------
\* Mutant: the first option of a kind counts.
ConfiguredFirst(o) == IF conf[o.opt] = Default[o.opt] THEN [conf EXCEPT ![o.opt] = o.arg] ELSE conf
Configured(o)      == [conf EXCEPT ![o.opt] = o.arg]

\* -h and -v end the program at once; what getopt_long does not know is ignored.
ReadOption ==
  /\ pc = "options" /\ args # <<>>
  /\ args' = Tail(args)
  /\ LET o == Head(args)
     IN  /\ conf' = IF o.opt \in Settable THEN Configured(o) ELSE conf
         /\ pc' = IF o.opt \in {"h", "v"} THEN "exited" ELSE pc
  /\ UNCHANGED <<given, trees, mode, todo, loaded, signalled, where>>

InstallSignals ==
  /\ pc = "options" /\ args = <<>>
  /\ pc' = "init"
  /\ UNCHANGED <<options, trees, mode, todo, loaded, signalled, where>>

OpenModeFile ==
  /\ pc = "init"
  /\ pc' = IF conf["m"] \in DOMAIN ModeFiles THEN "modes" ELSE "failed"
  /\ UNCHANGED <<options, trees, mode, todo, loaded, signalled, where>>

Modes == ModeFiles[conf["m"]]
Here  == Modes[Len(parents) + 1]

\* The parent is the tree of the activation above. Mutant: the tree made last.
EnclosingLast == IF parents = <<>> \/ Here.depth = 1 THEN None ELSE Modes[Len(parents)].name
Enclosing     == IF Here.depth = 1 THEN None ELSE open[Here.depth - 1]

\* One mode of mode_traverse: the privileged mode is noted before its tree is made.
Traverse ==
  /\ pc = "modes" /\ Len(parents) < Len(Modes)
  /\ privileged' = IF Here.privileged THEN Here.name ELSE privileged
  /\ parents' = Append(parents, Enclosing)
  /\ open' = Append(SubSeq(open, 1, Here.depth - 1), Here.name)
  /\ registered' = registered \cup {Here.name}
  /\ UNCHANGED <<options, pc, mode, todo, loaded, signalled, where>>

\* mode_traverse returns the last tree of its own activation, none if there is
\* none. Mutant: mode_ is not set before the definitions are loaded.
ModesReadLate ==
  /\ pc = "modes" /\ Len(parents) = Len(Modes)
  /\ pc' = "directory"
  /\ UNCHANGED <<options, trees, mode, todo, loaded, signalled, where>>
ModesRead ==
  /\ pc = "modes" /\ Len(parents) = Len(Modes)
  /\ mode' = IF open = <<>> THEN None ELSE open[1]
  /\ pc' = "directory"
  /\ UNCHANGED <<options, trees, todo, loaded, signalled, where>>

\* Init goes on without the directory.
OpenDirectory ==
  /\ pc = "directory"
  /\ todo' = IF conf["j"] \in DOMAIN Dirs THEN Dirs[conf["j"]] ELSE {}
  /\ pc' = "load"
  /\ UNCHANGED <<options, trees, mode, loaded, signalled, where>>

\* parse_defun: a mode that has no tree is passed over. Mutant: only where the
\* session starts.
TakenHere(d) == {c \in d : c.mode = mode}
Taken(d)     == {c \in d : c.mode \in registered}

\* What json_read could not read to its end leaves the beginning, or nothing.
LoadFile(f) ==
  /\ pc = "load" /\ f \in todo
  /\ todo' = todo \ {f}
  /\ \E d \in IF f \in Broken THEN SUBSET Definitions[f] ELSE {Definitions[f]} :
       loaded' = loaded \cup Taken(d)
  /\ UNCHANGED <<options, pc, trees, mode, signalled, where>>

\* The first prompt reads mode_.
FirstPrompt ==
  /\ pc = "load" /\ todo = {}
  /\ pc' = IF mode = None THEN "crashed" ELSE "prompt"
  /\ where' = IF mode = None THEN "prompt" ELSE where
  /\ UNCHANGED <<options, trees, mode, todo, loaded, signalled>>

\* SIGINT and SIGTSTP: end() and the prompt of start_over.
Interrupt ==
  /\ pc \in {"init", "modes", "directory", "load"}
  /\ signalled' = TRUE
  /\ LET m == IF privileged \in registered THEN privileged ELSE mode
     IN  /\ mode' = m
         /\ pc' = IF m = None THEN "crashed" ELSE pc
         /\ where' = IF m = None THEN pc ELSE where
  /\ UNCHANGED <<options, trees, todo, loaded>>

Next ==
  \/ ReadOption \/ InstallSignals \/ OpenModeFile \/ Traverse \/ ModesRead \/ OpenDirectory
  \/ (\E f \in DOMAIN Definitions : LoadFile(f)) \/ FirstPrompt \/ Interrupt

Spec == Init /\ [][Next]_vars

-------------------------------------------------------------------------------
\* What the command line asks for: the last of its options, or the default.
Wanted(o) ==
  LET set == {i \in DOMAIN given : given[i].opt = o}
  IN  IF set = {} THEN Default[o] ELSE given[CHOOSE i \in set : \A k \in set : k <= i].arg

WantedModes == ModeFiles[Wanted("m")]
Tops        == {i \in DOMAIN WantedModes : WantedModes[i].depth = 1}

\* The session starts with the commands that the files of the wanted directory
\* define for the wanted modes, whatever order they are read in, whichever of them
\* are broken and whenever signals come: all of those that can be read.
CommandsReady ==
  LET files == IF Wanted("j") \in DOMAIN Dirs THEN Dirs[Wanted("j")] ELSE {}
      Of(fs) == {c \in UNION {Definitions[f] : f \in fs} : \E i \in DOMAIN WantedModes : WantedModes[i].name = c.mode}
  IN  pc = "prompt" => Of(files \ Broken) \subseteq loaded /\ loaded \subseteq Of(files)

\* It starts in the last of the modes that have no parent, or after a signal in
\* the privileged one: "Return root mode." Every mode is below the mode whose
\* children it is among, so that a line falls back along the file.
StartsAtTop ==
  pc = "prompt" =>
    /\ \/ \E i \in Tops : mode = WantedModes[i].name /\ \A k \in Tops : k <= i
       \/ signalled /\ \E i \in DOMAIN WantedModes : mode = WantedModes[i].name /\ WantedModes[i].privileged
    /\ Len(parents) = Len(WantedModes)
    /\ \A i \in DOMAIN parents :
         IF i \in Tops THEN parents[i] = None
         ELSE \E k \in 1..(i - 1) : /\ parents[i] = WantedModes[k].name
                                    /\ WantedModes[k].depth = WantedModes[i].depth - 1
                                    /\ \A j \in (k + 1)..(i - 1) : WantedModes[j].depth >= WantedModes[i].depth

\* A signal can crash the program only before the mode file is read; after that
\* there is a mode to prompt for, unless the file has none.
CrashesEarly ==
  pc = "crashed" => where \in {"init", "modes"} \/ Modes = <<>>
===============================================================================
