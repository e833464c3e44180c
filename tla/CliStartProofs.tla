---------------------------- MODULE CliStartProofs ----------------------------
(***************************************************************************)
(* Theorems about CliStart, for every mode file, directory of definitions    *)
(* and command line, whatever the order the files are read in and whenever   *)
(* signals come: the session starts with all the commands there are, in the *)
(* right mode, and only the first steps of the program can crash on a signal. *)
(***************************************************************************)
EXTENDS CliStart, TLAPS

OptionRecord == [opt : STRING, arg : STRING]
ModeRecord   == [name : STRING, depth : Nat, privileged : BOOLEAN]

-------------------------------------------------------------------------------
\* The inductive invariant.

\* o has the value of the last option of its kind among the first k.
LastOf(o, k) ==
  \/ /\ conf[o] = Default[o]
     /\ \A i \in 1..k : given[i].opt # o
  \/ \E i \in 1..k : /\ given[i].opt = o /\ conf[o] = given[i].arg
                     /\ \A j \in (i + 1)..k : given[j].opt # o

ArgsInv ==
  /\ given \in Seq(OptionRecord) /\ args \in Seq(OptionRecord) /\ Len(args) <= Len(given)
  /\ \A i \in 1..Len(args) : args[i] = given[Len(given) - Len(args) + i]
  /\ DOMAIN conf = Settable
  /\ \A o \in Settable : LastOf(o, Len(given) - Len(args))
  /\ pc \in {"init", "modes", "directory", "load", "prompt"} => args = <<>>

\* No tree is made before the mode file is read.
EmptyInv ==
  pc \in {"options", "init"} => parents = <<>> /\ registered = {} /\ open = <<>>
                                /\ privileged = None /\ mode = None

\* open[d] is the last mode of depth d, and no mode since is as high.
OpenAt(d) ==
  \E j \in 1..Len(parents) : /\ Modes[j].depth = d /\ Modes[j].name = open[d]
                             /\ \A i \in (j + 1)..Len(parents) : Modes[i].depth > d

ParentAt(i) ==
  IF Modes[i].depth = 1 THEN parents[i] = None
  ELSE \E k \in 1..(i - 1) : /\ parents[i] = Modes[k].name
                             /\ Modes[k].depth = Modes[i].depth - 1
                             /\ \A j \in (k + 1)..(i - 1) : Modes[j].depth >= Modes[i].depth

Reached == pc \in {"modes", "directory", "load", "prompt"}

TreesInv ==
  Reached =>
    /\ conf["m"] \in DOMAIN ModeFiles
    /\ parents \in Seq(STRING \cup {None}) /\ Len(parents) <= Len(Modes)
    /\ open \in Seq(STRING)
    /\ Len(open) = IF parents = <<>> THEN 0 ELSE Modes[Len(parents)].depth
    /\ \A d \in 1..Len(open) : OpenAt(d)
    /\ \A i \in 1..Len(parents) : ParentAt(i)
    /\ registered = {Modes[i].name : i \in 1..Len(parents)}
    /\ privileged # None => \E i \in 1..Len(parents) : privileged = Modes[i].name /\ Modes[i].privileged

PrivilegedMode == signalled /\ \E i \in DOMAIN Modes : mode = Modes[i].name /\ Modes[i].privileged
LastTop ==
  \E j \in DOMAIN Modes : /\ Modes[j].depth = 1 /\ mode = Modes[j].name
                          /\ \A i \in (j + 1)..Len(Modes) : Modes[i].depth > 1

ModeInv ==
  /\ pc = "modes" => mode = None \/ PrivilegedMode
  /\ pc \in {"directory", "load", "prompt"} =>
       /\ Len(parents) = Len(Modes)
       /\ (Modes = <<>> /\ mode = None) \/ PrivilegedMode \/ LastTop
  /\ pc = "prompt" => mode # None

Files == IF conf["j"] \in DOMAIN Dirs THEN Dirs[conf["j"]] ELSE {}

LoadedInv ==
  /\ pc \in {"options", "init", "modes", "directory"} => loaded = {}
  /\ pc \in {"load", "prompt"} =>
       /\ todo \subseteq Files
       /\ \A f \in Files : f \in todo \/ f \in Broken \/ Taken(Definitions[f]) \subseteq loaded
       /\ \A c \in loaded : \E f \in Files : c \in Taken(Definitions[f])
  /\ pc = "prompt" => todo = {}

StartInv == ArgsInv /\ EmptyInv /\ TreesInv /\ ModeInv /\ LoadedInv /\ CrashesEarly

-------------------------------------------------------------------------------
\* What the assumption says of a mode file that can be read.
LEMMA FileOfModes ==
  ASSUME conf["m"] \in DOMAIN ModeFiles
  PROVE  /\ Modes \in Seq(ModeRecord) /\ DOMAIN Modes = 1..Len(Modes) /\ Len(Modes) \in Nat
         /\ \A i \in 1..Len(Modes) :
              /\ Modes[i].name \in STRING /\ Modes[i].depth \in Nat /\ Modes[i].name # None
              /\ Modes[i].depth >= 1
              /\ i = 1 => Modes[i].depth = 1
              /\ i > 1 => Modes[i].depth <= Modes[i - 1].depth + 1
<1>1. Modes \in Seq(ModeRecord)
  BY StartAssumption DEF StartAssumption, Modes, ModeRecord
<1>2. DOMAIN Modes = 1..Len(Modes) /\ Len(Modes) \in Nat
  BY <1>1
<1>3. ASSUME NEW i \in 1..Len(Modes)
      PROVE  /\ Modes[i] \in ModeRecord /\ Modes[i].name # None
             /\ Modes[i].depth \in 1..(IF i = 1 THEN 1 ELSE Modes[i - 1].depth + 1)
  <2>1. Modes[i] \in ModeRecord
    BY <1>1
  <2>2. Modes[i].name # None /\ Modes[i].depth \in 1..(IF i = 1 THEN 1 ELSE Modes[i - 1].depth + 1)
    BY <1>2, StartAssumption DEF StartAssumption, Modes
  <2> QED BY <2>1, <2>2
<1>4. ASSUME NEW i \in 1..Len(Modes)
      PROVE  Modes[i].name \in STRING /\ Modes[i].depth \in Nat
  BY <1>3 DEF ModeRecord
<1>5. ASSUME NEW i \in 1..Len(Modes), i > 1
      PROVE  Modes[i].depth >= 1 /\ Modes[i].depth <= Modes[i - 1].depth + 1
  <2>1. i - 1 \in 1..Len(Modes)
    BY <1>2, <1>5
  <2> QED BY <1>3, <1>4, <1>5, <2>1
<1>6. ASSUME NEW i \in 1..Len(Modes), i = 1
      PROVE  Modes[i].depth = 1
  BY <1>3, <1>4, <1>6
<1> QED BY <1>1, <1>2, <1>3, <1>4, <1>5, <1>6

LEMMA StartInit == Init => StartInv
<1> SUFFICES ASSUME Init PROVE StartInv
  OBVIOUS
<1>1. given \in Seq(OptionRecord) /\ args = given /\ conf = Default /\ pc = "options"
  BY StartAssumption DEF StartAssumption, Init, OptionRecord
<1>2. ArgsInv
  <2>1. Len(given) \in Nat /\ DOMAIN conf = Settable
    BY <1>1, StartAssumption DEF StartAssumption
  <2>2. \A o \in Settable : LastOf(o, Len(given) - Len(args))
    BY <1>1, <2>1 DEF LastOf
  <2> QED BY <1>1, <2>1, <2>2 DEF ArgsInv
<1>3. EmptyInv /\ TreesInv /\ ModeInv /\ LoadedInv /\ CrashesEarly
  BY <1>1 DEF Init, EmptyInv, TreesInv, Reached, ModeInv, LoadedInv, CrashesEarly
<1> QED BY <1>2, <1>3 DEF StartInv

-------------------------------------------------------------------------------
\* The options: the last one of a kind counts.

LEMMA OptionStep == StartInv /\ ReadOption => StartInv'
<1> SUFFICES ASSUME StartInv, ReadOption, NEW k, k = Len(given) - Len(args) PROVE StartInv'
  OBVIOUS
<1>1. /\ pc = "options" /\ args # <<>> /\ args' = Tail(args) /\ pc' \in {"options", "exited"}
      /\ UNCHANGED <<given, trees, mode, loaded, where>>
      /\ conf' = IF Head(args).opt \in Settable
                 THEN [conf EXCEPT ![Head(args).opt] = Head(args).arg] ELSE conf
  BY DEF ReadOption, Configured
<1>2. /\ given \in Seq(OptionRecord) /\ args \in Seq(OptionRecord) /\ Len(args) <= Len(given)
      /\ \A i \in 1..Len(args) : args[i] = given[k + i]
      /\ DOMAIN conf = Settable /\ \A o \in Settable : LastOf(o, k)
  BY DEF StartInv, ArgsInv
<1>3. /\ Len(args) \in Nat /\ Len(args) >= 1 /\ Len(given) \in Nat
      /\ args' \in Seq(OptionRecord) /\ Len(args') = Len(args) - 1
      /\ \A i \in 1..Len(args') : args'[i] = args[i + 1]
  BY <1>1, <1>2
<1>4. Head(args) = given[k + 1] /\ k \in Nat
  BY <1>2, <1>3
<1>5. ASSUME NEW o \in Settable PROVE LastOf(o, k + 1)'
  <2>1. CASE given[k + 1].opt = o
    <3>1. conf'[o] = given[k + 1].arg
      BY <1>1, <1>2, <1>4, <2>1
    <3>2. k + 1 \in 1..(k + 1) /\ \A j \in (k + 2)..(k + 1) : FALSE
      BY <1>4
    <3> QED BY <1>1, <1>4, <2>1, <3>1, <3>2 DEF LastOf
  <2>2. CASE given[k + 1].opt # o
    <3>1. conf'[o] = conf[o] /\ LastOf(o, k)
      BY <1>1, <1>2, <1>4, <2>2
    <3>2. CASE conf[o] = Default[o] /\ \A i \in 1..k : given[i].opt # o
      <4>1. \A i \in 1..(k + 1) : i \in 1..k \/ i = k + 1
        BY <1>4
      <4> QED BY <1>1, <2>2, <3>1, <3>2, <4>1 DEF LastOf
    <3>3. CASE \E i \in 1..k : /\ given[i].opt = o /\ conf[o] = given[i].arg
                               /\ \A j \in (i + 1)..k : given[j].opt # o
      <4>1. PICK i \in 1..k : /\ given[i].opt = o /\ conf[o] = given[i].arg
                              /\ \A j \in (i + 1)..k : given[j].opt # o
        BY <3>3
      <4>2. i \in 1..(k + 1) /\ \A j \in (i + 1)..(k + 1) : j \in (i + 1)..k \/ j = k + 1
        BY <1>4
      <4> QED BY <1>1, <2>2, <3>1, <4>1, <4>2 DEF LastOf
    <3> QED BY <3>1, <3>2, <3>3 DEF LastOf
  <2> QED BY <2>1, <2>2
<1>6. ArgsInv'
  <2>1. (Len(given) - Len(args))' = k + 1
    BY <1>1, <1>2, <1>3
  <2>2. \A i \in 1..Len(args') : args'[i] = given[Len(given) - Len(args') + i]
    <3> SUFFICES ASSUME NEW i \in 1..Len(args') PROVE args'[i] = given[k + 1 + i]
      BY <1>1, <2>1
    <3>1. i + 1 \in 1..Len(args) /\ k + (i + 1) = k + 1 + i
      BY <1>3, <1>4
    <3> QED BY <1>2, <1>3, <3>1
  <2>3. DOMAIN conf' = Settable
    BY <1>1, <1>2
  <2>4. Len(args') <= Len(given') /\ given' = given
    BY <1>1, <1>2, <1>3
  <2> QED BY <1>1, <1>2, <1>3, <1>5, <2>1, <2>2, <2>3, <2>4 DEF ArgsInv
<1>7. EmptyInv'
  BY <1>1 DEF StartInv, EmptyInv, trees
<1>8. (TreesInv /\ ModeInv /\ LoadedInv /\ CrashesEarly)'
  BY <1>1 DEF StartInv, TreesInv, Reached, ModeInv, LoadedInv, CrashesEarly
<1> QED BY <1>6, <1>7, <1>8 DEF StartInv

-------------------------------------------------------------------------------
\* The mode file.

\* A step that takes no option leaves what the options set as it is.
LEMMA ArgsKept ==
  ASSUME ArgsInv, given' = given, args' = args, conf' = conf,
         pc' \in {"init", "modes", "directory", "load", "prompt"} => args = <<>>
  PROVE  ArgsInv'
<1>1. ASSUME NEW o \in Settable
      PROVE  LastOf(o, Len(given) - Len(args))'
  <2>1. LastOf(o, Len(given) - Len(args))
    BY DEF ArgsInv
  <2> QED BY <2>1 DEF LastOf
<1>2. /\ given' \in Seq(OptionRecord) /\ args' \in Seq(OptionRecord) /\ Len(args') <= Len(given')
      /\ \A i \in 1..Len(args') : args'[i] = given'[Len(given') - Len(args') + i]
      /\ DOMAIN conf' = Settable
  BY DEF ArgsInv
<1> QED BY <1>1, <1>2 DEF ArgsInv

LEMMA OpeningStep == StartInv /\ (InstallSignals \/ OpenModeFile) => StartInv'
<1> SUFFICES ASSUME StartInv, InstallSignals \/ OpenModeFile PROVE StartInv'
  OBVIOUS
<1>1. /\ UNCHANGED <<options, trees, mode, todo, loaded, signalled, where>>
      /\ \/ pc = "options" /\ args = <<>> /\ pc' = "init"
         \/ pc = "init" /\ conf["m"] \in DOMAIN ModeFiles /\ pc' = "modes"
         \/ pc = "init" /\ pc' = "failed"
  BY DEF InstallSignals, OpenModeFile
<1>2. UNCHANGED <<given, args, conf, registered, parents, open, privileged>>
  BY <1>1 DEF options, trees
<1>3. ArgsInv'
  <2>1. ArgsInv /\ (pc = "init" => args = <<>>)
    BY DEF StartInv, ArgsInv
  <2>2. args = <<>>
    BY <1>1, <2>1
  <2> QED BY <1>2, <2>1, <2>2, ArgsKept
<1>4. EmptyInv' /\ ModeInv' /\ CrashesEarly' /\ LoadedInv'
  BY <1>1, <1>2 DEF StartInv, EmptyInv, ModeInv, CrashesEarly, LoadedInv
<1>5. TreesInv'
  <2> SUFFICES ASSUME Reached' PROVE TreesInv'
    BY DEF TreesInv
  <2>1. /\ parents' = <<>> /\ registered' = {} /\ open' = <<>> /\ privileged' = None
        /\ conf["m"] \in DOMAIN ModeFiles
    BY <1>1, <1>2 DEF Reached, StartInv, EmptyInv
  <2>2. Len(Modes) \in Nat
    BY <2>1, FileOfModes
  <2> QED BY <1>2, <2>1, <2>2 DEF TreesInv, Modes
<1> QED BY <1>3, <1>4, <1>5 DEF StartInv

\* A tree is made below the activation it is made in.
LEMMA TraverseStep == StartInv /\ Traverse => StartInv'
<1> SUFFICES ASSUME StartInv, Traverse,
                    NEW n, n = Len(parents), NEW h, h = Modes[n + 1]
             PROVE  StartInv'
  OBVIOUS
<1>1. /\ pc = "modes" /\ n < Len(Modes)
      /\ privileged' = IF h.privileged THEN h.name ELSE privileged
      /\ parents' = Append(parents, IF h.depth = 1 THEN None ELSE open[h.depth - 1])
      /\ open' = Append(SubSeq(open, 1, h.depth - 1), h.name)
      /\ registered' = registered \cup {h.name}
      /\ UNCHANGED <<given, args, conf, pc, mode, todo, loaded, signalled, where>>
  BY DEF Traverse, Here, Enclosing, options
<1>2. /\ conf["m"] \in DOMAIN ModeFiles
      /\ parents \in Seq(STRING \cup {None}) /\ open \in Seq(STRING)
      /\ Len(open) = IF parents = <<>> THEN 0 ELSE Modes[n].depth
      /\ \A d \in 1..Len(open) : OpenAt(d)
      /\ \A i \in 1..n : ParentAt(i)
      /\ registered = {Modes[i].name : i \in 1..n}
      /\ privileged # None => \E i \in 1..n : privileged = Modes[i].name /\ Modes[i].privileged
  BY <1>1 DEF StartInv, TreesInv, Reached
<1>3. /\ n \in Nat /\ n + 1 \in 1..Len(Modes) /\ (parents = <<>> <=> n = 0)
      /\ Len(Modes) \in Nat
  BY <1>1, <1>2, FileOfModes
<1>4. /\ h.name \in STRING /\ h.depth \in Nat /\ h.depth >= 1
      /\ h.depth - 1 <= Len(open) /\ Len(open) \in Nat
  <2>1. CASE n = 0
    BY <1>2, <1>3, <2>1, FileOfModes
  <2>2. CASE n > 0
    <3>1. h.name \in STRING /\ h.depth \in Nat /\ h.depth >= 1 /\ h.depth <= Modes[n].depth + 1
      BY <1>2, <1>3, <2>2, FileOfModes
    <3> QED BY <1>2, <1>3, <2>2, <3>1
  <2> QED BY <1>3, <2>1, <2>2
<1>5. Modes' = Modes
  BY <1>1 DEF Modes
<1>6. /\ open' \in Seq(STRING) /\ Len(open') = h.depth /\ open'[h.depth] = h.name
      /\ \A d \in 1..(h.depth - 1) : open'[d] = open[d]
  BY <1>1, <1>2, <1>4
<1>7. /\ parents' \in Seq(STRING \cup {None}) /\ Len(parents') = n + 1 /\ parents' # <<>>
      /\ \A i \in 1..n : parents'[i] = parents[i]
      /\ parents'[n + 1] = IF h.depth = 1 THEN None ELSE open[h.depth - 1]
  <2>1. (IF h.depth = 1 THEN None ELSE open[h.depth - 1]) \in STRING \cup {None}
    BY <1>2, <1>4
  <2> QED BY <1>1, <1>2, <2>1
<1>8. ASSUME NEW d \in 1..h.depth PROVE OpenAt(d)'
  <2>1. CASE d = h.depth
    <3>1. n + 1 \in 1..(n + 1) /\ \A i \in (n + 2)..(n + 1) : FALSE
      BY <1>3
    <3> QED BY <1>3, <1>5, <1>6, <1>7, <2>1, <3>1 DEF OpenAt
  <2>2. CASE d < h.depth
    <3>1. d \in 1..Len(open) /\ d \in 1..(h.depth - 1)
      BY <1>4, <2>2
    <3>2. PICK j \in 1..n : /\ Modes[j].depth = d /\ Modes[j].name = open[d]
                            /\ \A i \in (j + 1)..n : Modes[i].depth > d
      BY <1>2, <3>1 DEF OpenAt
    <3>3. j \in 1..(n + 1) /\ \A i \in (j + 1)..(n + 1) : i \in (j + 1)..n \/ i = n + 1
      BY <1>3
    <3>4. h.depth > d
      BY <1>4, <2>2
    <3> QED BY <1>5, <1>6, <1>7, <3>1, <3>2, <3>3, <3>4 DEF OpenAt
  <2> QED BY <1>4, <2>1, <2>2
<1>9. ASSUME NEW i \in 1..(n + 1) PROVE ParentAt(i)'
  <2>1. CASE i \in 1..n
    BY <1>2, <1>5, <1>7, <2>1 DEF ParentAt
  <2>2. CASE i = n + 1 /\ h.depth = 1
    BY <1>5, <1>7, <2>2 DEF ParentAt
  <2>3. CASE i = n + 1 /\ h.depth # 1
    <3>1. h.depth - 1 \in 1..Len(open)
      BY <1>4, <2>3
    <3>2. PICK j \in 1..n : /\ Modes[j].depth = h.depth - 1 /\ Modes[j].name = open[h.depth - 1]
                            /\ \A k \in (j + 1)..n : Modes[k].depth > h.depth - 1
      BY <1>2, <3>1 DEF OpenAt
    <3>3. \A k \in (j + 1)..n : Modes[k].depth >= h.depth
      <4> SUFFICES ASSUME NEW k \in (j + 1)..n PROVE Modes[k].depth >= h.depth
        OBVIOUS
      <4>1. k \in 1..Len(Modes)
        BY <1>3
      <4>2. Modes[k].depth \in Nat
        BY <1>2, <4>1, FileOfModes
      <4> QED BY <1>4, <3>2, <4>2
    <3>4. j \in 1..(i - 1) /\ i - 1 = n
      BY <1>3, <2>3
    <3> QED BY <1>5, <1>7, <2>3, <3>2, <3>3, <3>4 DEF ParentAt
  <2> QED BY <1>3, <2>1, <2>2, <2>3
<1>10. TreesInv'
  <2>1. registered' = {Modes[i].name : i \in 1..(n + 1)}
    <3>1. 1..(n + 1) = 1..n \cup {n + 1}
      BY <1>3
    <3> QED BY <1>1, <1>2, <3>1
  <2>2. privileged' # None
          => \E i \in 1..(n + 1) : privileged' = Modes[i].name /\ Modes[i].privileged
    <3>1. n + 1 \in 1..(n + 1) /\ 1..n \subseteq 1..(n + 1)
      BY <1>3
    <3>2. CASE h.privileged
      BY <1>1, <3>1, <3>2
    <3>3. CASE ~h.privileged
      BY <1>1, <1>2, <3>1, <3>3
    <3> QED BY <3>2, <3>3
  <2>3. n + 1 <= Len(Modes)
    BY <1>3
  <2>4. Len(parents') = n + 1 /\ Len(open') = h.depth
    BY <1>6, <1>7
  <2>5. /\ conf'["m"] \in DOMAIN ModeFiles
        /\ parents' \in Seq(STRING \cup {None}) /\ Len(parents') <= Len(Modes')
        /\ open' \in Seq(STRING)
        /\ Len(open') = IF parents' = <<>> THEN 0 ELSE Modes'[Len(parents')].depth
    BY <1>1, <1>2, <1>5, <1>6, <1>7, <2>3
  <2>6. /\ registered' = {Modes'[i].name : i \in 1..Len(parents')}
        /\ privileged' # None
             => \E i \in 1..Len(parents') : privileged' = Modes'[i].name /\ Modes'[i].privileged
    BY <1>5, <2>1, <2>2, <2>4
  <2>7. /\ \A d \in 1..Len(open') : OpenAt(d)'
        /\ \A i \in 1..Len(parents') : ParentAt(i)'
    BY <1>8, <1>9, <2>4
  <2> QED BY <2>5, <2>6, <2>7 DEF TreesInv
<1>11. ArgsInv' /\ EmptyInv' /\ CrashesEarly' /\ LoadedInv'
  <2>1. ArgsInv /\ args = <<>>
    BY <1>1 DEF StartInv, ArgsInv
  <2>2. ArgsInv'
    BY <1>1, <2>1, ArgsKept
  <2> QED BY <1>1, <2>2 DEF StartInv, EmptyInv, CrashesEarly, LoadedInv
<1>12. ModeInv'
  BY <1>1, <1>5 DEF StartInv, ModeInv, PrivilegedMode
<1> QED BY <1>10, <1>11, <1>12 DEF StartInv

\* The activation that returns last returns the last tree at the top.
LEMMA ModesReadStep == StartInv /\ ModesRead => StartInv'
<1> SUFFICES ASSUME StartInv, ModesRead PROVE StartInv'
  OBVIOUS
<1>1. /\ pc = "modes" /\ Len(parents) = Len(Modes) /\ pc' = "directory"
      /\ mode' = IF open = <<>> THEN None ELSE open[1]
      /\ UNCHANGED <<given, args, conf, trees, todo, loaded, signalled, where>>
  BY DEF ModesRead, options
<1>2. UNCHANGED <<registered, parents, open, privileged>> /\ Modes' = Modes
  BY <1>1 DEF trees, Modes
<1>3. TreesInv /\ TreesInv'
  BY <1>1, <1>2 DEF StartInv, TreesInv, Reached, OpenAt, ParentAt
<1>4. (Modes = <<>> /\ mode' = None) \/ LastTop'
  <2>1. /\ parents \in Seq(STRING \cup {None}) /\ open \in Seq(STRING)
        /\ Modes \in Seq(ModeRecord) /\ Len(Modes) \in Nat /\ DOMAIN Modes = 1..Len(Modes)
        /\ Len(open) = IF parents = <<>> THEN 0 ELSE Modes[Len(parents)].depth
        /\ \A d \in 1..Len(open) : OpenAt(d)
    BY <1>1, <1>3, FileOfModes DEF TreesInv, Reached
  <2>2. CASE parents = <<>>
    BY <1>1, <2>1, <2>2
  <2>3. CASE parents # <<>>
    <3>1. Len(parents) \in 1..Len(Modes)
      BY <1>1, <2>1, <2>3
    <3>2. Modes[Len(parents)].depth >= 1 /\ Modes[Len(parents)].depth \in Nat
      BY <1>1, <1>3, <3>1, FileOfModes DEF TreesInv, Reached
    <3>3. 1 \in 1..Len(open) /\ open # <<>>
      BY <2>1, <2>3, <3>2
    <3>4. PICK j \in 1..Len(parents) : /\ Modes[j].depth = 1 /\ Modes[j].name = open[1]
                                       /\ \A i \in (j + 1)..Len(parents) : Modes[i].depth > 1
      BY <2>1, <3>3 DEF OpenAt
    <3> QED BY <1>1, <1>2, <2>1, <3>3, <3>4 DEF LastTop
  <2> QED BY <2>2, <2>3
<1>5. ModeInv'
  BY <1>1, <1>2, <1>4 DEF ModeInv
<1>6. ArgsInv'
  <2>1. ArgsInv /\ args = <<>>
    BY <1>1 DEF StartInv, ArgsInv
  <2> QED BY <1>1, <2>1, ArgsKept
<1>7. EmptyInv' /\ CrashesEarly' /\ LoadedInv'
  BY <1>1 DEF StartInv, EmptyInv, CrashesEarly, LoadedInv
<1> QED BY <1>3, <1>5, <1>6, <1>7 DEF StartInv

-------------------------------------------------------------------------------
\* The definitions, and the signals.

\* What a step of pc from a state where the trees are made leaves as it is.
LEMMA TreesKept ==
  ASSUME TreesInv, Reached, Reached',
         UNCHANGED <<given, args, conf, registered, parents, open, privileged>>
  PROVE  TreesInv'
<1>1. /\ Modes' = Modes /\ conf' = conf /\ parents' = parents /\ open' = open
      /\ registered' = registered /\ privileged' = privileged
  BY DEF Modes
<1>2. ASSUME NEW d \in 1..Len(open)
      PROVE  OpenAt(d)'
  <2>1. OpenAt(d)
    BY DEF TreesInv
  <2> QED BY <1>1, <2>1 DEF OpenAt
<1>3. ASSUME NEW i \in 1..Len(parents)
      PROVE  ParentAt(i)'
  <2>1. ParentAt(i)
    BY DEF TreesInv
  <2> QED BY <1>1, <2>1 DEF ParentAt
<1>4. /\ conf'["m"] \in DOMAIN ModeFiles
      /\ parents' \in Seq(STRING \cup {None}) /\ Len(parents') <= Len(Modes')
      /\ open' \in Seq(STRING)
      /\ Len(open') = IF parents' = <<>> THEN 0 ELSE Modes'[Len(parents')].depth
      /\ registered' = {Modes'[i].name : i \in 1..Len(parents')}
      /\ privileged' # None => \E i \in 1..Len(parents') : privileged' = Modes'[i].name /\ Modes'[i].privileged
  BY <1>1 DEF TreesInv
<1> QED BY <1>1, <1>2, <1>3, <1>4 DEF TreesInv

LEMMA LoadingStep ==
  ASSUME StartInv, OpenDirectory \/ (\E f \in DOMAIN Definitions : LoadFile(f))
  PROVE  StartInv'
<1>1. /\ pc \in {"directory", "load"} /\ pc' = "load"
      /\ UNCHANGED <<given, args, conf, trees, mode, signalled, where>>
  BY DEF OpenDirectory, LoadFile, options
<1>2. UNCHANGED <<registered, parents, open, privileged>> /\ Modes' = Modes /\ Files' = Files
  BY <1>1 DEF trees, Modes, Files
<1>3. /\ todo' \subseteq Files
      /\ \A f \in Files : f \in todo' \/ f \in Broken \/ Taken(Definitions[f]) \subseteq loaded'
      /\ \A c \in loaded' : \E f \in Files : c \in Taken(Definitions[f])
  <2>1. CASE OpenDirectory
    <3>1. todo' = Files /\ loaded' = loaded /\ pc = "directory"
      BY <2>1 DEF OpenDirectory, Files
    <3>2. loaded = {}
      BY <3>1 DEF StartInv, LoadedInv
    <3> QED BY <3>1, <3>2
  <2>2. ASSUME NEW f \in DOMAIN Definitions, LoadFile(f)
        PROVE  /\ todo' \subseteq Files
               /\ \A g \in Files : g \in todo' \/ g \in Broken \/ Taken(Definitions[g]) \subseteq loaded'
               /\ \A c \in loaded' : \E g \in Files : c \in Taken(Definitions[g])
    <3>1. /\ f \in todo /\ todo' = todo \ {f}
          /\ \E d \in IF f \in Broken THEN SUBSET Definitions[f] ELSE {Definitions[f]} :
               loaded' = loaded \cup Taken(d)
          /\ pc = "load"
      BY <2>2 DEF LoadFile
    <3>2. PICK d \in SUBSET Definitions[f] :
            loaded' = loaded \cup Taken(d) /\ (f \in Broken \/ d = Definitions[f])
      BY <3>1
    <3>3. /\ todo \subseteq Files
          /\ \A g \in Files : g \in todo \/ g \in Broken \/ Taken(Definitions[g]) \subseteq loaded
          /\ \A c \in loaded : \E g \in Files : c \in Taken(Definitions[g])
      BY <3>1 DEF StartInv, LoadedInv
    <3>4. Taken(d) \subseteq Taken(Definitions[f])
      BY <3>2 DEF Taken
    <3> QED BY <3>1, <3>2, <3>3, <3>4
  <2> QED BY <2>1, <2>2
<1>4. LoadedInv'
  <2>1. \A g \in Files : Taken(Definitions[g])' = Taken(Definitions[g])
    BY <1>2 DEF Taken
  <2> QED BY <1>1, <1>2, <1>3, <2>1 DEF LoadedInv
<1>5. TreesInv'
  BY <1>1, <1>2, TreesKept DEF StartInv, Reached
<1>6. ArgsInv' /\ EmptyInv' /\ CrashesEarly'
  <2>1. ArgsInv /\ args = <<>>
    BY <1>1 DEF StartInv, ArgsInv
  <2>2. ArgsInv'
    BY <1>1, <2>1, ArgsKept
  <2> QED BY <1>1, <2>2 DEF StartInv, EmptyInv, CrashesEarly
<1>7. ModeInv'
  BY <1>1, <1>2 DEF StartInv, ModeInv, PrivilegedMode, LastTop
<1> QED BY <1>4, <1>5, <1>6, <1>7 DEF StartInv

\* There is a mode unless the file has none.
LEMMA ModeThere ==
  ASSUME StartInv, pc \in {"directory", "load", "prompt"}, mode = None
  PROVE  Modes = <<>>
<1>1. conf["m"] \in DOMAIN ModeFiles
  BY DEF StartInv, TreesInv, Reached
<1>2. \A i \in DOMAIN Modes : Modes[i].name # None
  BY <1>1, FileOfModes
<1> QED BY <1>2 DEF StartInv, ModeInv, PrivilegedMode, LastTop

LEMMA PromptStep == StartInv /\ FirstPrompt => StartInv'
<1> SUFFICES ASSUME StartInv, FirstPrompt PROVE StartInv'
  OBVIOUS
<1>1. /\ pc = "load" /\ todo = {}
      /\ \/ mode = None /\ pc' = "crashed"
         \/ mode # None /\ pc' = "prompt" /\ where' = where
      /\ UNCHANGED <<given, args, conf, trees, mode, todo, loaded, signalled>>
  BY DEF FirstPrompt, options
<1>2. UNCHANGED <<registered, parents, open, privileged>> /\ Modes' = Modes /\ Files' = Files
  BY <1>1 DEF trees, Modes, Files
<1>3. ArgsInv' /\ EmptyInv'
  <2>1. ArgsInv /\ args = <<>>
    BY <1>1 DEF StartInv, ArgsInv
  <2>2. ArgsInv'
    BY <1>1, <2>1, ArgsKept
  <2> QED BY <1>1, <2>2 DEF StartInv, EmptyInv
<1>4. TreesInv'
  <2>1. CASE pc' = "prompt"
    BY <1>1, <1>2, <2>1, TreesKept DEF StartInv, Reached
  <2>2. CASE pc' = "crashed"
    BY <2>2 DEF TreesInv, Reached
  <2> QED BY <1>1, <2>1, <2>2
<1>5. ModeInv'
  BY <1>1, <1>2 DEF StartInv, ModeInv, PrivilegedMode, LastTop
<1>6. LoadedInv'
  <2>1. \A g \in Files : Taken(Definitions[g])' = Taken(Definitions[g])
    BY <1>2 DEF Taken
  <2> QED BY <1>1, <1>2, <2>1 DEF StartInv, LoadedInv
<1>7. CrashesEarly'
  BY <1>1, <1>2, ModeThere DEF CrashesEarly
<1> QED BY <1>3, <1>4, <1>5, <1>6, <1>7 DEF StartInv

LEMMA InterruptStep == StartInv /\ Interrupt => StartInv'
<1> SUFFICES ASSUME StartInv, Interrupt,
                    NEW m, m = IF privileged \in registered THEN privileged ELSE mode
             PROVE  StartInv'
  OBVIOUS
<1>1. /\ pc \in {"init", "modes", "directory", "load"}
      /\ signalled' = TRUE /\ mode' = m
      /\ \/ m = None /\ pc' = "crashed" /\ where' = pc
         \/ m # None /\ pc' = pc /\ where' = where
      /\ UNCHANGED <<given, args, conf, trees, todo, loaded>>
  BY DEF Interrupt, options
<1>2. UNCHANGED <<registered, parents, open, privileged>> /\ Modes' = Modes /\ Files' = Files
  BY <1>1 DEF trees, Modes, Files
<1>3. ArgsInv'
  <2>1. ArgsInv /\ args = <<>>
    BY <1>1 DEF StartInv, ArgsInv
  <2> QED BY <1>1, <2>1, ArgsKept
<1>4. EmptyInv'
  BY <1>1 DEF StartInv, EmptyInv
<1>5. TreesInv'
  <2>1. CASE pc' = pc /\ pc # "init"
    BY <1>1, <1>2, <2>1, TreesKept DEF StartInv, Reached
  <2>2. CASE pc' \in {"crashed", "init"}
    BY <2>2 DEF TreesInv, Reached
  <2> QED BY <1>1, <2>1, <2>2
<1>6. pc \in {"modes", "directory", "load"} => m = mode \/ PrivilegedMode'
  <2> SUFFICES ASSUME pc \in {"modes", "directory", "load"}, privileged \in registered
               PROVE  PrivilegedMode'
    OBVIOUS
  <2>1. /\ conf["m"] \in DOMAIN ModeFiles /\ Len(parents) <= Len(Modes)
        /\ parents \in Seq(STRING \cup {None})
        /\ registered = {Modes[i].name : i \in 1..Len(parents)}
        /\ privileged # None => \E i \in 1..Len(parents) : privileged = Modes[i].name /\ Modes[i].privileged
    BY DEF StartInv, TreesInv, Reached
  <2>2. 1..Len(parents) \subseteq DOMAIN Modes /\ \A i \in DOMAIN Modes : Modes[i].name # None
    BY <2>1, FileOfModes
  <2> QED BY <1>1, <1>2, <2>1, <2>2 DEF PrivilegedMode
<1>7. ModeInv'
  <2>1. CASE PrivilegedMode'
    BY <1>1, <1>2, <2>1 DEF StartInv, ModeInv
  <2>2. CASE mode' = mode
    BY <1>1, <1>2, <2>2 DEF StartInv, ModeInv, PrivilegedMode, LastTop
  <2>3. CASE pc = "init"
    BY <1>1, <2>3 DEF ModeInv
  <2> QED BY <1>1, <1>6, <2>1, <2>2, <2>3
<1>8. LoadedInv'
  <2>1. \A g \in Files : Taken(Definitions[g])' = Taken(Definitions[g])
    BY <1>2 DEF Taken
  <2> QED BY <1>1, <1>2, <2>1 DEF StartInv, LoadedInv
<1>9. CrashesEarly'
  <2>1. CASE pc \in {"init", "modes"}
    BY <1>1, <2>1 DEF CrashesEarly
  <2>2. CASE pc \in {"directory", "load"}
    <3> SUFFICES ASSUME m = None PROVE Modes = <<>>
      BY <1>1, <1>2, <2>2 DEF CrashesEarly
    <3>1. mode = None \/ PrivilegedMode'
      BY <1>6, <2>2
    <3>2. \A i \in DOMAIN Modes : Modes[i].name # None
      BY <2>2, FileOfModes DEF StartInv, TreesInv, Reached
    <3> QED BY <1>1, <1>2, <2>2, <3>1, <3>2, ModeThere DEF PrivilegedMode
  <2> QED BY <1>1, <2>1, <2>2
<1> QED BY <1>3, <1>4, <1>5, <1>7, <1>8, <1>9 DEF StartInv

LEMMA StartStep == StartInv /\ [Next]_vars => StartInv'
<1> SUFFICES ASSUME StartInv, [Next]_vars PROVE StartInv'
  OBVIOUS
<1>1. CASE ReadOption
  BY <1>1, OptionStep
<1>2. CASE InstallSignals \/ OpenModeFile
  BY <1>2, OpeningStep
<1>3. CASE Traverse
  BY <1>3, TraverseStep
<1>4. CASE ModesRead
  BY <1>4, ModesReadStep
<1>5. CASE OpenDirectory \/ (\E f \in DOMAIN Definitions : LoadFile(f))
  BY <1>5, LoadingStep
<1>6. CASE FirstPrompt
  BY <1>6, PromptStep
<1>7. CASE Interrupt
  BY <1>7, InterruptStep
<1>8. CASE UNCHANGED vars
  <2>1. /\ UNCHANGED <<given, args, conf, pc, registered, parents, open, privileged>>
        /\ UNCHANGED <<mode, todo, loaded, signalled, where>>
    BY <1>8 DEF vars, options, trees
  <2>2. Modes' = Modes /\ Files' = Files /\ \A g \in Files : Taken(Definitions[g])' = Taken(Definitions[g])
    BY <2>1 DEF Modes, Files, Taken
  <2>3. (ArgsInv /\ EmptyInv /\ CrashesEarly)'
    <3>1. ArgsInv /\ (pc \in {"init", "modes", "directory", "load", "prompt"} => args = <<>>)
      BY <1>8 DEF StartInv, ArgsInv
    <3>2. ArgsInv'
      BY <2>1, <3>1, ArgsKept
    <3> QED BY <2>1, <2>2, <3>2 DEF StartInv, EmptyInv, CrashesEarly
  <2>4. TreesInv'
    <3>1. Reached' = Reached
      BY <2>1 DEF Reached
    <3>2. CASE Reached
      BY <2>1, <3>1, <3>2, TreesKept DEF StartInv
    <3>3. CASE ~Reached
      BY <3>1, <3>3 DEF TreesInv
    <3> QED BY <3>2, <3>3
  <2>5. (ModeInv /\ LoadedInv)'
    BY <2>1, <2>2 DEF StartInv, ModeInv, PrivilegedMode, LastTop, LoadedInv
  <2> QED BY <2>3, <2>4, <2>5 DEF StartInv
<1> QED BY <1>1, <1>2, <1>3, <1>4, <1>5, <1>6, <1>7, <1>8 DEF Next

-------------------------------------------------------------------------------
\* The theorems.

LEMMA StartHolds == Spec => []StartInv
BY StartInit, StartStep, PTL DEF Spec

\* Once the options are read, they are what the command line asks for.
LEMMA OptionsWanted ==
  ASSUME StartInv, pc \in {"init", "modes", "directory", "load", "prompt"}, NEW o \in Settable
  PROVE  conf[o] = Wanted(o)
<1> DEFINE set == {i \in DOMAIN given : given[i].opt = o}
<1>1. /\ Len(given) \in Nat /\ DOMAIN given = 1..Len(given) /\ Len(given) - Len(args) = Len(given)
      /\ LastOf(o, Len(given) - Len(args))
  BY DEF StartInv, ArgsInv
<1>2. CASE conf[o] = Default[o] /\ \A i \in 1..Len(given) : given[i].opt # o
  <2>1. set = {}
    BY <1>1, <1>2
  <2> QED BY <1>2, <2>1 DEF Wanted
<1>3. CASE \E i \in 1..Len(given) : /\ given[i].opt = o /\ conf[o] = given[i].arg
                                    /\ \A j \in (i + 1)..Len(given) : given[j].opt # o
  <2>1. PICK i \in 1..Len(given) : /\ given[i].opt = o /\ conf[o] = given[i].arg
                                   /\ \A j \in (i + 1)..Len(given) : given[j].opt # o
    BY <1>3
  <2>2. i \in set /\ \A k \in set : k <= i
    BY <1>1, <2>1
  <2>3. \A h \in set : (\A k \in set : k <= h) => h = i
    BY <1>1, <2>2
  <2>4. (CHOOSE h \in set : \A k \in set : k <= h) = i
    BY <2>2, <2>3
  <2> QED BY <2>1, <2>2, <2>4 DEF Wanted
<1> QED BY <1>1, <1>2, <1>3 DEF LastOf

LEMMA FilesWanted ==
  ASSUME StartInv, pc = "prompt"
  PROVE  /\ Modes = WantedModes
         /\ Files = IF Wanted("j") \in DOMAIN Dirs THEN Dirs[Wanted("j")] ELSE {}
<1>1. "m" \in Settable /\ "j" \in Settable
  BY StartAssumption DEF StartAssumption
<1>2. conf["m"] = Wanted("m") /\ conf["j"] = Wanted("j")
  BY <1>1, OptionsWanted
<1> QED BY <1>2 DEF Modes, WantedModes, Files

\* A signal can crash the program only before the mode file is read, unless the
\* file has no modes: Init sets mode_ from it and nothing takes the mode away.
THEOREM StartCrashesEarly == Spec => []CrashesEarly
<1>1. StartInv => CrashesEarly
  BY DEF StartInv
<1> QED BY <1>1, StartHolds, PTL

\* At the first prompt mode_traverse has put every tree below the tree of the
\* activation around it, and the session is in the last mode at the top, or after
\* a signal in the privileged one, for every mode file.
THEOREM SessionStartsAtTop == Spec => []StartsAtTop
<1>1. ASSUME StartInv, pc = "prompt"
      PROVE  /\ \/ \E i \in Tops : mode = WantedModes[i].name /\ \A k \in Tops : k <= i
                \/ signalled /\ \E i \in DOMAIN WantedModes : mode = WantedModes[i].name /\ WantedModes[i].privileged
             /\ Len(parents) = Len(WantedModes)
             /\ \A i \in DOMAIN parents :
                  IF i \in Tops THEN parents[i] = None
                  ELSE \E k \in 1..(i - 1) : /\ parents[i] = WantedModes[k].name
                                             /\ WantedModes[k].depth = WantedModes[i].depth - 1
                                             /\ \A j \in (k + 1)..(i - 1) : WantedModes[j].depth >= WantedModes[i].depth
  <2>1. Modes = WantedModes /\ Tops = {i \in DOMAIN Modes : Modes[i].depth = 1}
    BY <1>1, FilesWanted DEF Tops
  <2>2. /\ conf["m"] \in DOMAIN ModeFiles /\ Len(parents) = Len(Modes) /\ mode # None
        /\ parents \in Seq(STRING \cup {None})
        /\ \A i \in 1..Len(parents) : ParentAt(i)
        /\ PrivilegedMode \/ LastTop
    BY <1>1 DEF StartInv, TreesInv, ModeInv, Reached
  <2>3. DOMAIN Modes = 1..Len(Modes) /\ DOMAIN parents = 1..Len(parents) /\ Len(Modes) \in Nat
    BY <2>2, FileOfModes
  <2>4. CASE LastTop
    <3>1. PICK j \in DOMAIN Modes : /\ Modes[j].depth = 1 /\ mode = Modes[j].name
                                    /\ \A i \in (j + 1)..Len(Modes) : Modes[i].depth > 1
      BY <2>4 DEF LastTop
    <3>2. \A k \in Tops : k <= j
      BY <2>1, <2>3, <3>1
    <3>3. j \in Tops
      BY <2>1, <3>1
    <3> QED BY <2>1, <2>2, <2>3, <3>1, <3>2, <3>3 DEF ParentAt
  <2>5. CASE PrivilegedMode
    BY <2>1, <2>2, <2>3, <2>5 DEF PrivilegedMode, ParentAt
  <2> QED BY <2>2, <2>4, <2>5
<1>2. StartInv => StartsAtTop
  BY <1>1 DEF StartsAtTop
<1> QED BY <1>2, StartHolds, PTL

\* At the first prompt the trees hold what the files of the wanted directory define
\* for the wanted modes, all of it where the file can be read, and nothing else.
THEOREM CommandsAreReady == Spec => []CommandsReady
<1>1. ASSUME StartInv, pc = "prompt",
             NEW named, named = {c \in UNION {Definitions[f] : f \in Files \ Broken} :
                                   \E i \in DOMAIN WantedModes : WantedModes[i].name = c.mode},
             NEW all, all = {c \in UNION {Definitions[f] : f \in Files} :
                               \E i \in DOMAIN WantedModes : WantedModes[i].name = c.mode}
      PROVE  named \subseteq loaded /\ loaded \subseteq all
  <2>1. /\ conf["m"] \in DOMAIN ModeFiles /\ Len(parents) = Len(Modes)
        /\ registered = {Modes[i].name : i \in 1..Len(parents)}
        /\ \A f \in Files : f \in Broken \/ Taken(Definitions[f]) \subseteq loaded
        /\ \A c \in loaded : \E f \in Files : c \in Taken(Definitions[f])
    BY <1>1 DEF StartInv, TreesInv, ModeInv, LoadedInv, Reached
  <2>2. registered = {WantedModes[i].name : i \in DOMAIN WantedModes}
    BY <1>1, <2>1, FileOfModes, FilesWanted
  <2>3. ASSUME NEW f \in Files, NEW c
        PROVE  c \in Taken(Definitions[f]) <=>
                 c \in Definitions[f] /\ \E i \in DOMAIN WantedModes : WantedModes[i].name = c.mode
    BY <2>2 DEF Taken
  <2> QED BY <1>1, <2>1, <2>3
<1>2. StartInv => CommandsReady
  <2> SUFFICES ASSUME StartInv, pc = "prompt" PROVE CommandsReady
    BY DEF CommandsReady
  <2> DEFINE files  == IF Wanted("j") \in DOMAIN Dirs THEN Dirs[Wanted("j")] ELSE {}
             Of(fs) == {c \in UNION {Definitions[f] : f \in fs} :
                          \E i \in DOMAIN WantedModes : WantedModes[i].name = c.mode}
  <2>1. files = Files
    BY FilesWanted
  <2>2. Of(Files \ Broken) \subseteq loaded /\ loaded \subseteq Of(Files)
    BY <1>1
  <2>3. Of(files \ Broken) \subseteq loaded /\ loaded \subseteq Of(files)
    BY <2>1, <2>2
  <2> QED BY <2>3 DEF CommandsReady
<1> QED BY <1>2, StartHolds, PTL
===============================================================================
