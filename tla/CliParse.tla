------------------------------- MODULE CliParse -------------------------------
(***************************************************************************)
(* Reading a line against the tree of a mode (cli_readline.cpp), twice: by  *)
(* parse, for the help that ? shows, and by parse_execute, for the command  *)
(* that Enter runs. Each level of the two recursive functions is a step.    *)
(*                                                                          *)
(* A line is a sequence of characters; both functions get it with a space   *)
(* in front. Nodes and how they match a word are constants; the tree is     *)
(* what CliTreeBuild makes.                                                 *)
(***************************************************************************)
EXTENDS Integers, Sequences, FiniteSets, SequencesExt

CONSTANTS
  Nodes, Next,  \* the nodes, 0 the top one, and the next nodes of each
  Cmd, Hidden,  \* the nodes that are a command, and those not shown
  Flag(_, _),   \* cli_match: how a node matches a word
  Lines         \* what may be in the line buffer

Full       == 0 \* MatchFlag
Partial    == 1
Incomplete == 2
None       == 3

ASSUME TreeAssumption ==
  /\ 0 \in Nodes /\ IsFiniteSet(Nodes) /\ Cmd \subseteq Nodes \ {0} /\ Hidden \subseteq Nodes \ {0}
  /\ \A n \in Nodes : Next[n] \subseteq Nodes \ {0} /\ (Next[n] = {} => n \in Cmd)

\* Every mode has a command that begins with a word to be shown, and a keyword
\* matches the empty word.
ASSUME TopAssumption == \E n \in Next[0] \ Hidden : Flag(n, <<>>) # None

VARIABLES
  buf,   \* rl_line_buffer
  phase, \* "describe", "execute" or "done"
  line,  \* line_: what is left to read, with the space before it
  curr,  \* the node reached
  path,  \* node_token_vec_: the nodes of the words read
  seen,  \* what parse came to
  ran    \* what parse_execute came to

vars == <<buf, phase, line, curr, path, seen, ran>>

Nothing == [result |-> "none", caret |-> 0, isCmd |-> FALSE, at |-> 0, matched |-> {}, path |-> <<>>]

Init ==
  /\ buf \in Lines /\ phase = "describe" /\ line = <<" ">> \o buf /\ curr = 0 /\ path = <<>>
  /\ seen = Nothing /\ ran = Nothing

-------------------------------------------------------------------------------
Ahead(l, set) == CHOOSE n \in 0..Len(l) : (\A i \in 1..n : l[i] \in set) /\ (n = Len(l) \/ l[n + 1] \notin set)
Drop(l, n)    == SubSeq(l, n + 1, Len(l))

Chars == (UNION {ToSet(l) : l \in Lines}) \ {" "}

ASSUME LinesAssumption == Lines \subseteq Seq(Chars \cup {" "})

\* A node matches whatever may be read as a word of a line in one of the four ways.
ASSUME FlagAssumption ==
  \A l \in Lines : LET full == <<" ">> \o l IN
    \A i, j \in 1..Len(full), n \in Nodes : Flag(n, SubSeq(full, i, j)) \in Full..None

\* trim_spaces_at_head and get_input_token, at the level where the parser is.
Spaces == Ahead(line, {" "})
Input  == Drop(line, Spaces)
Word   == SubSeq(Input, 1, Ahead(Input, Chars))
Rest   == Drop(Input, Len(Word))

\* match_token and the filters.
Matching(n, w) == {m \in Next[n] : Flag(m, w) # None}
Visible(set)   == set \ Hidden

\* filter_matched. Mutant: only a full match counts.
BestFull(set, w) == {m \in set : Flag(m, w) = Full}
Best(set, w) ==
  LET valid == {m \in set : Flag(m, w) <= Partial}
  IN  {m \in valid : \A k \in valid : Flag(m, w) <= Flag(k, w)}

\* match_shorter: how many characters of the word have to go before it matches.
Cut(n, w) == CHOOSE k \in 0..(Len(w) + 1) :
  /\ k <= Len(w) => Visible(Matching(n, SubSeq(w, 1, Len(w) - k))) # {}
  /\ \A j \in 0..(k - 1) : Visible(Matching(n, SubSeq(w, 1, Len(w) - j))) = {}

\* Mutant: the space in front of the line counts.
CaretSpace == (Len(buf) + 1 - Len(Rest) - Cut(curr, Word)) % 65536
Caret      == (Len(buf) - Len(Rest) - Cut(curr, Word)) % 65536

ByCmd(n) == IF n \in Cmd THEN "complete" ELSE "incomplete"

-------------------------------------------------------------------------------
(***************************************************************************)
(* parse                                                                    *)
(***************************************************************************)
\* The nodes that parse goes on with. Mutant: filter_matched is not called.
ShownAll == Visible(Matching(curr, Word))
Shown    == IF Rest = <<>> THEN Visible(Matching(curr, Word)) ELSE Best(Visible(Matching(curr, Word)), Word)

Describes(result, caret, node, matched) ==
  /\ seen' = [Nothing EXCEPT !.result = result, !.caret = caret, !.isCmd = (node \in Cmd), !.at = curr, !.matched = matched]
  /\ phase' = "execute" /\ line' = <<" ">> \o buf /\ curr' = 0
  /\ UNCHANGED <<buf, path, ran>>

\* The end of the line after a space, or nothing left.
DescribeEnd ==
  /\ phase = "describe" /\ (Spaces = 0 \/ Word = <<>>)
  /\ Describes(ByCmd(curr), 0, curr, IF Spaces = 0 THEN {} ELSE Visible(Next[curr]))

\* The last word. With several matches the node is the one before the word.
DescribeLast ==
  /\ phase = "describe" /\ Spaces > 0 /\ Word # <<>> /\ Rest = <<>> /\ Shown # {}
  /\ LET node == IF Cardinality(Shown) = 1 THEN CHOOSE n \in Shown : TRUE ELSE curr
     IN  Describes(ByCmd(node), 0, node, Shown)

DescribeMore ==
  /\ phase = "describe" /\ Spaces > 0 /\ Word # <<>> /\ Rest # <<>> /\ Cardinality(Shown) = 1
  /\ curr' \in Shown /\ line' = Rest
  /\ UNCHANGED <<buf, phase, path, seen, ran>>

DescribeAmbiguous ==
  /\ phase = "describe" /\ Spaces > 0 /\ Word # <<>> /\ Rest # <<>> /\ Cardinality(Shown) > 1
  /\ Describes("ambiguous", 0, 0, Shown)

\* When nothing may follow the marker is moved to the word. Mutant: it is not.
DescribeRefuseBefore ==
  /\ phase = "describe" /\ Spaces > 0 /\ Word # <<>> /\ Shown = {}
  /\ Describes("unrecognized", Caret, 0, {})
DescribeRefuse ==
  /\ phase = "describe" /\ Spaces > 0 /\ Word # <<>> /\ Shown = {}
  /\ Describes("unrecognized", IF Next[curr] = {} THEN (Caret + 1) % 65536 ELSE Caret, 0, {})

-------------------------------------------------------------------------------
(***************************************************************************)
(* parse_execute                                                            *)
(***************************************************************************)
Chosen == Best(Matching(curr, Word), Word)

Executes(result, caret, nodes) ==
  /\ ran' = [Nothing EXCEPT !.result = result, !.caret = caret, !.path = nodes]
  /\ phase' = "done"
  /\ UNCHANGED <<buf, line, curr, path, seen>>

ExecuteEnd ==
  /\ phase = "execute" /\ (Spaces = 0 \/ Input = <<>>)
  /\ Executes(ByCmd(curr), 0, path)

\* Words after a node that nothing follows.
ExecuteTooMuch ==
  /\ phase = "execute" /\ Spaces > 0 /\ Input # <<>> /\ Next[curr] = {}
  /\ Executes("unrecognized", (Len(buf) - Len(Input)) % 65536, path)

ExecuteMore ==
  /\ phase = "execute" /\ Spaces > 0 /\ Input # <<>> /\ Cardinality(Chosen) = 1 /\ Rest # <<>>
  /\ curr' \in Chosen /\ path' = Append(path, CHOOSE n \in Chosen : TRUE) /\ line' = Rest
  /\ UNCHANGED <<buf, phase, seen, ran>>

ExecuteLast ==
  /\ phase = "execute" /\ Spaces > 0 /\ Input # <<>> /\ Cardinality(Chosen) = 1 /\ Rest = <<>>
  /\ \E n \in Chosen : Executes(ByCmd(n), 0, Append(path, n))

ExecuteAmbiguous ==
  /\ phase = "execute" /\ Spaces > 0 /\ Input # <<>> /\ Cardinality(Chosen) > 1
  /\ Executes("ambiguous", 0, path)

ExecuteRefuse ==
  /\ phase = "execute" /\ Spaces > 0 /\ Input # <<>> /\ Next[curr] # {} /\ Chosen = {}
  /\ Executes("unrecognized", Caret, path)

Describe == DescribeEnd \/ DescribeLast \/ DescribeMore \/ DescribeAmbiguous \/ DescribeRefuse
Execute  == ExecuteEnd \/ ExecuteTooMuch \/ ExecuteMore \/ ExecuteLast \/ ExecuteAmbiguous \/ ExecuteRefuse
Step == Describe \/ Execute

Spec == Init /\ [][Step]_vars

-------------------------------------------------------------------------------
\* matched_len_ is unsigned 16 bits wide and is a difference of lengths, less the
\* characters that have to go: the marker is under the line or right after it.
CaretInLine ==
  \A r \in {seen, ran} : r.result = "unrecognized" => r.caret \in 0..Len(buf)

\* ? and Enter compute the marker differently where nothing may follow, and put
\* it at the same place, unless a hidden node, which only Enter knows, took Enter
\* further.
CaretAgrees ==
  (seen.result = "unrecognized" /\ ran.result = "unrecognized") =>
    (seen.caret = ran.caret \/ ToSet(ran.path) \cap Hidden # {})

\* What Enter understands, ? neither refuses nor calls ambiguous, again unless it
\* is hidden.
HelpAgrees ==
  (ran.result \in {"complete", "incomplete"} /\ ToSet(ran.path) \cap Hidden = {}) =>
    seen.result \in {"complete", "incomplete"}

\* Where the help shows <cr>, Enter runs the command, but for four cases: after a
\* command the word begins several nodes, of which Enter takes one or none; it begins
\* a hidden node too; Enter took a hidden node before; or it is the beginning of an
\* address, which the help takes and Enter does not.
CrRuns ==
  (phase = "done" /\ seen.isCmd /\ ran.result # "complete") =>
    \/ ran.result \in {"ambiguous", "incomplete"} /\ Cardinality(seen.matched) > 1
    \/ ran.result = "ambiguous" /\ Chosen \cap Hidden # {}
    \/ ToSet(ran.path) \cap Hidden # {}
    \/ ran.result = "unrecognized" /\ \A m \in Matching(curr, Word) : Flag(m, Word) = Incomplete
===============================================================================
