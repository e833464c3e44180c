----------------------------- MODULE CliTreeBuild -----------------------------
(***************************************************************************)
(* Building the command tree of one mode (cli_tree.cpp). The definition     *)
(* files of the directory come in any order, the definitions of a file in   *)
(* the order of their names. build_recursive reads a defun from left to     *)
(* right and enters the nodes it needs, sharing those it finds; a group of  *)
(* alternatives is an activation of its own for each of them. The stack of  *)
(* activations is a variable.                                               *)
(*                                                                          *)
(* A defun is a sequence of CLI tokens ("show", "<1-99>", "WORD") and of    *)
(* the marks ( [ { | } ] ).                                                 *)
(***************************************************************************)
EXTENDS Integers, Sequences, FiniteSets, SequencesExt

CONSTANTS
  Files,  \* the files, each the sequence of its definitions
  Defun,  \* the defun of a definition
  Hides,  \* the CLI tokens a definition hides
  MaxLine \* bound: the longest line the properties look at

Opens  == {"(", "[", "{"}
Closes == {")", "]", "}"}
Repeat == {"]", "}"}
Marks  == Opens \cup Closes \cup {"|"}

Definitions == UNION {ToSet(f) : f \in Files}

ASSUME DefunAssumption ==
  \A d \in Definitions : /\ Defun[d] # <<>> /\ Hides[d] \subseteq ToSet(Defun[d]) \ Marks
                         /\ Len(SelectSeq(Defun[d], LAMBDA t : t \in Opens))
                              = Len(SelectSeq(Defun[d], LAMBDA t : t \in Closes))
ASSUME MaxLineAssumption == MaxLine \in Nat

VARIABLES
  files,    \* the files still to read
  queue,    \* the definitions of the current file still to build
  def, str, \* the definition that is built, and what is left of its defun
  stack,    \* the activations of build_recursive, the innermost last
  token,    \* the CLI token of each node; node 0 is top_
  next,     \* the next nodes of each node
  exposed,  \* how often a node was entered by a definition that shows it
  actions,  \* the definitions whose actions a node has; it is a command if any
  loaded    \* history: the definitions that are built

tree == <<token, next, exposed, actions>>
vars == <<files, queue, def, str, stack, tree, loaded>>

Nodes  == DOMAIN token
NoDef  == "none"
Frame(curr) == [curr |-> curr, isHead |-> TRUE, hv |-> <<>>, tv |-> <<>>]

Init ==
  /\ files = Files /\ queue = <<>> /\ def = NoDef /\ str = <<>> /\ stack = <<>>
  /\ token = (0 :> "top") /\ next = (0 :> <<>>) /\ exposed = (0 :> 0) /\ actions = (0 :> <<>>)
  /\ loaded = {}

-------------------------------------------------------------------------------
ReadFile ==
  /\ queue = <<>> /\ stack = <<>>
  /\ \E f \in files : files' = files \ {f} /\ queue' = f
  /\ UNCHANGED <<def, str, stack, tree, loaded>>

\* build_command
Begin ==
  /\ queue # <<>> /\ stack = <<>>
  /\ def' = Head(queue) /\ queue' = Tail(queue)
  /\ str' = Defun[Head(queue)]
  /\ stack' = <<Frame(<<0>>)>>
  /\ UNCHANGED <<files, tree, loaded>>

Reading(marks) == stack # <<>> /\ str # <<>> /\ Head(str) \in marks
Inner  == Last(stack)
Outer  == stack[Len(stack) - 1]
Below  == SubSeq(stack, 1, Len(stack) - 2)

\* An opening mark: the group's vectors are empty, its first alternative starts
\* where the activation is.
OpenGroup ==
  /\ Reading(Opens)
  /\ str' = Tail(str)
  /\ stack' = Front(stack) \o <<[Inner EXCEPT !.hv = <<>>, !.tv = <<>>], Frame(Inner.curr)>>
  /\ UNCHANGED <<files, queue, def, tree, loaded>>

\* Mutant: the next alternative goes on where the last one ended.
AlternativeContinued ==
  /\ Reading({"|"}) /\ Len(stack) > 1
  /\ str' = Tail(str)
  /\ stack' = Below \o <<[Outer EXCEPT !.tv = @ \o Inner.curr], Frame(Inner.curr)>>
  /\ UNCHANGED <<files, queue, def, tree, loaded>>

\* A bar: the activation returns, and the next one starts where it started.
Alternative ==
  /\ Reading({"|"}) /\ Len(stack) > 1
  /\ str' = Tail(str)
  /\ stack' = Below \o <<[Outer EXCEPT !.tv = @ \o Inner.curr], Frame(Outer.curr)>>
  /\ UNCHANGED <<files, queue, def, tree, loaded>>

Times(n, seq) == Len(SelectSeq(seq, LAMBDA m : m = n))

Tails      == Outer.tv \o Inner.curr

\* A closing mark: the activation returns, the group's ends become the current
\* nodes, and in a repeated group each end leads to each head again.
CloseGroup ==
  /\ Reading(Closes) /\ Len(stack) > 1
  /\ str' = Tail(str)
  /\ next' = IF Head(str) \notin Repeat THEN next
             ELSE [n \in Nodes |->
                     next[n] \o FlattenSeq([i \in DOMAIN Outer.hv |->
                                  [j \in 1..Times(n, Tails) |-> Outer.hv[i]]])]
  /\ stack' = Below \o <<[Outer EXCEPT !.curr = Tails]>>
  /\ UNCHANGED <<files, queue, def, token, exposed, actions, loaded>>

\* Mutant: what is there is not found.
FoundNone(curr, t) == <<>>

\* find_next_by_node: the nodes after the current ones that have the token; the
\* first is taken.
Found(curr, t) ==
  FlattenSeq([i \in DOMAIN curr |-> SelectSeq(next[curr[i]], LAMBDA n : token[n] = t)])

\* Mutant: the new node follows the last of the current nodes only.
LinkLast(curr, new) == [n \in Nodes |-> IF n = Last(curr) THEN Append(next[n], new) ELSE next[n]]
\* vector_add_node_each
Link(curr, new) == [n \in Nodes |-> next[n] \o [j \in 1..Times(n, curr) |-> new]]

\* Mutant: only the definition that makes the node counts.
ShownOnce(t, found) == IF t \in Hides[def] \/ found # <<>> THEN 0 ELSE 1
Shown(t, found)     == IF t \in Hides[def] THEN 0 ELSE 1

\* A token: the node that is found, or else a new one, is the current node.
ReadToken ==
  /\ stack # <<>> /\ str # <<>> /\ Head(str) \notin Marks
  /\ LET t     == Head(str)
         found == Found(Inner.curr, t)
         node  == IF found = <<>> THEN Cardinality(Nodes) ELSE Head(found)
         shown == Shown(t, found)
         inner == [Inner EXCEPT !.curr = <<node>>, !.isHead = FALSE]
     IN  /\ IF found = <<>>
            THEN /\ token' = token @@ (node :> t)
                 /\ next' = Link(Inner.curr, node) @@ (node :> <<>>)
                 /\ exposed' = exposed @@ (node :> shown)
                 /\ actions' = actions @@ (node :> <<>>)
            ELSE /\ exposed' = [exposed EXCEPT ![node] = @ + shown]
                 /\ UNCHANGED <<token, next, actions>>
         /\ stack' = IF Len(stack) = 1 \/ ~Inner.isHead THEN Front(stack) \o <<inner>>
                     ELSE Below \o <<[Outer EXCEPT !.hv = Append(@, node)], inner>>
  /\ str' = Tail(str)
  /\ UNCHANGED <<files, queue, def, loaded>>

\* The end of the defun: the current nodes are the command.
Finish ==
  /\ Len(stack) = 1 /\ str = <<>>
  /\ actions' = [n \in Nodes |-> actions[n] \o [j \in 1..Times(n, Inner.curr) |-> def]]
  /\ loaded' = loaded \cup {def}
  /\ stack' = <<>> /\ def' = NoDef
  /\ UNCHANGED <<files, queue, str, token, next, exposed>>

Next == ReadFile \/ Begin \/ OpenGroup \/ Alternative \/ CloseGroup \/ ReadToken \/ Finish

Spec == Init /\ [][Next]_vars

-------------------------------------------------------------------------------
(***************************************************************************)
(* What a defun means: the lines that its marks allow, read off the defun   *)
(* itself, position by position.                                            *)
(***************************************************************************)
Depth(s, p) == Cardinality({q \in 1..(p - 1) : s[q] \in Opens})
                 - Cardinality({q \in 1..(p - 1) : s[q] \in Closes})

\* The closing mark of the group that position p is in, and its opening mark.
End(s, p)   == CHOOSE q \in p..Len(s) :
                 /\ s[q] \in Closes /\ Depth(s, q) = Depth(s, p)
                 /\ \A r \in p..(q - 1) : ~(s[r] \in Closes /\ Depth(s, r) = Depth(s, p))
Start(s, p) == CHOOSE q \in 1..p :
                 /\ s[q] \in Opens /\ Depth(s, q) = Depth(s, p) - 1
                 /\ \A r \in (q + 1)..p : ~(s[r] \in Opens /\ Depth(s, r) = Depth(s, p) - 1)

\* Where the reader of a line may be after a mark.
Jumps(s, p) ==
  CASE s[p] \in Opens -> {p + 1} \cup {q + 1 : q \in {r \in p..End(s, p + 1) :
                                                        s[r] = "|" /\ Depth(s, r) = Depth(s, p) + 1}}
    [] s[p] = "|"     -> {End(s, p)}
    [] s[p] \in Closes -> {p + 1} \cup (IF s[p] \in Repeat THEN {Start(s, p)} ELSE {})
    [] OTHER -> {}

Closure(s, from) ==
  LET reach[i \in 0..Len(s)] ==
        IF i = 0 THEN from
        ELSE LET near == reach[i - 1]
             IN  near \cup UNION {Jumps(s, p) : p \in near \cap DOMAIN s}
  IN  reach[Len(s)]

\* The lines of a defun, found token by token with the position each ends at.
LinesOf(s) ==
  LET read[n \in 0..MaxLine] ==
        IF n = 0 THEN {<<(<<>>), 0>>}
        ELSE UNION {{<<Append(r[1], s[p]), p>> :
                       p \in {q \in Closure(s, {r[2] + 1}) : q <= Len(s) /\ s[q] \notin Marks}} :
                    r \in read[n - 1]}
  IN  {r[1] : r \in {x \in UNION {read[n] : n \in 1..MaxLine} : Len(s) + 1 \in Closure(s, {x[2] + 1})}}

Readings == [d \in Definitions |-> LinesOf(Defun[d])]

\* What the tree accepts: lines with the node they lead to.
Walks ==
  LET walk[n \in 0..MaxLine] ==
        IF n = 0 THEN {<<(<<>>), 0>>}
        ELSE UNION {{<<Append(w[1], token[m]), m>> : m \in ToSet(next[w[2]])} : w \in walk[n - 1]}
  IN  UNION {walk[n] : n \in 1..MaxLine}

Accepted(walks, d) == {w[1] : w \in {x \in walks : d \in ToSet(actions[x[2]])}}

-------------------------------------------------------------------------------
\* The parser takes a token to be ambiguous if two next nodes match it: no two
\* next nodes of a node have the same token, and no command acts twice.
NextDistinct ==
  \A n \in Nodes : /\ \A i, j \in DOMAIN next[n] : i # j => token[next[n][i]] # token[next[n][j]]
                   /\ \A i, j \in DOMAIN actions[n] : i # j => actions[n][i] # actions[n][j]

\* Whatever is loaded after it, and in whatever order, a definition is reached by
\* every line its defun allows.
NothingLost == stack = <<>> => LET walks == Walks IN \A d \in loaded : Readings[d] \subseteq Accepted(walks, d)

\* A definition is reached by no line that its defun does not allow: the nodes
\* it shares with others do not carry it to their lines.
NothingLeaked == stack = <<>> => LET walks == Walks IN \A d \in loaded : Accepted(walks, d) \subseteq Readings[d]

\* A node is hidden as long as all definitions that lead to it hide it, and no
\* longer: a hidden definition hides no other, whichever is loaded first.
HiddenAlone ==
  stack = <<>> => \A w \in Walks :
    exposed[w[2]] > 0 <=> \E d \in loaded : /\ token[w[2]] \notin Hides[d]
                                           /\ \E line \in Readings[d] : IsPrefix(w[1], line)
===============================================================================
