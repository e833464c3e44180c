------------------------------ MODULE CliComplete ------------------------------
(***************************************************************************)
(* What a key does to the line: Enter reads it as CliParse has it; TAB and ? *)
(* read it with parse and then ask the server for what may stand at the     *)
(* nodes that an "update" of a definition marks (cli_readline.cpp,           *)
(* cli_http.cpp).                                                           *)
(*                                                                          *)
(* Candidates stay at their node between two keys. The cursor is at the end *)
(* of the line.                                                             *)
(***************************************************************************)
EXTENDS CliParse

CONSTANTS
  Keyword, Text, \* the nodes that are keywords; what each node calls itself
  Demand, Boot,  \* the nodes whose update is on demand, and on boot
  Values         \* what the server may hold for each node with an update

ASSUME UpdateAssumption ==
  /\ Keyword \subseteq Nodes \ {0} /\ DOMAIN Text = Nodes
  /\ Demand \cap Boot = {} /\ (Demand \cup Boot) \subseteq Nodes \ {0}
  /\ DOMAIN Values = Demand \cup Boot
  /\ \A n \in Nodes : Len(Text[n]) \in Nat /\ Text[n] = [i \in 1..Len(Text[n]) |-> Text[n][i]]
  /\ \A n \in DOMAIN Values : \A v \in Values[n] : Len(v) \in Nat /\ v = [i \in 1..Len(v) |-> v[i]]

\* A keyword matches the words that it begins with, and itself in full; next to it
\* nothing else takes it in full.
ASSUME KeywordAssumption ==
  /\ \A w \in UNION {{SubSeq(l, i, j) : i, j \in 1..Len(l)} : l \in Lines}, n \in Keyword :
       w # <<>> => (Flag(n, w) # None <=> IsPrefix(w, Text[n]))
  /\ \A n \in Nodes : \A m \in Next[n] \cap Keyword, k \in Next[n] :
       IF k = m THEN Flag(k, Text[m]) = Full ELSE Flag(k, Text[m]) \in Partial..None

\* A node matches the values that there may be of it, and what they begin with; and
\* next to it nothing matches them as well.
ASSUME ValueAssumption ==
  \A n \in Nodes : \A m \in (Next[n] \cap Demand) \ Keyword : \A v \in Values[m] :
    /\ \A i \in 1..Len(v) : Flag(m, SubSeq(v, 1, i)) # None
    /\ Flag(m, v) \in Full..Partial
    /\ \A k \in Next[n] \ {m} : Flag(k, v) \in (Flag(m, v) + 1)..None

VARIABLES
  key,    \* "enter", "tab" or "help"
  token,  \* ps.token_: the word read last
  store,  \* what the server holds for each node
  kept,   \* candidates_ of the nodes' updates
  stage,  \* "parse", "ask", "done"
  asked,  \* the nodes of matched_vec_ the loop has yet to ask for
  failed, \* the nodes the server gave no answer for
  shown   \* matched_strvec_ for TAB, the candidates printed for ?

kvars   == <<key, token, store, kept, stage, asked, failed, shown>>
allVars == <<vars, kvars>>

Holdings(nodes) ==
  {f \in [nodes -> UNION {SUBSET Values[n] : n \in nodes}] : \A n \in nodes : f[n] \subseteq Values[n]}

\* Candidates of a boot node are those get_candidate was given when the program
\* started; those of another are what an earlier key left.
CompleteInit ==
  /\ Init /\ key \in {"enter", "tab", "help"} /\ token = <<>>
  /\ store \in Holdings(Demand) /\ kept \in Holdings(Demand \cup Boot)
  /\ stage = "parse" /\ asked = {} /\ failed = {} /\ shown = {}

-------------------------------------------------------------------------------
\* Mutant: the last word is not kept in token_.
ParseLineBefore ==
  /\ stage = "parse" /\ ~(key = "tab" /\ buf = <<>>) /\ Describe
  /\ token' = IF Spaces > 0 /\ Rest # <<>> THEN Word ELSE token
  /\ UNCHANGED <<key, store, kept, stage, asked, failed, shown>>
\* With nothing typed TAB does not look at the tree.
ParseLine ==
  /\ stage = "parse" /\ ~(key = "tab" /\ buf = <<>>) /\ Describe
  /\ token' = IF Spaces > 0 /\ Word # <<>> THEN Word ELSE token
  /\ UNCHANGED <<key, store, kept, stage, asked, failed, shown>>

Enter == key = "enter" /\ Execute /\ UNCHANGED kvars

TabEmpty ==
  /\ stage = "parse" /\ key = "tab" /\ buf = <<>>
  /\ stage' = "done"
  /\ UNCHANGED <<vars, key, token, store, kept, asked, failed, shown>>

Understood == seen.result \in {"complete", "incomplete"}

\* TAB asks for no keyword; ? would.
Asked == (seen.matched \cap Demand) \ (IF key = "tab" THEN Keyword ELSE {})

Look ==
  /\ stage = "parse" /\ key # "enter" /\ phase = "execute"
  /\ IF Understood THEN stage' = "ask" /\ asked' = Asked
                   ELSE stage' = "done" /\ UNCHANGED asked
  /\ UNCHANGED <<vars, key, token, store, kept, failed, shown>>

\* update_on_demand: the candidates are cleared, and filled if there is an answer.
\* A failed transfer leaves an empty body, whatever its status. Mutant: they are
\* not cleared.
Keeping(n, answer)    == [kept EXCEPT ![n] = @ \cup answer]
Candidates(n, answer) == [kept EXCEPT ![n] = answer]

\* What completion_matches takes of them. Mutant: all.
FitAll(set) == set
Fit(set)    == {v \in set : IsPrefix(token, v)}

Answer(n) ==
  /\ stage = "ask" /\ n \in asked
  /\ asked' = asked \ {n} /\ kept' = Candidates(n, store[n])
  /\ shown' = IF key = "tab" THEN shown \cup Fit(kept'[n]) ELSE shown
  /\ UNCHANGED <<vars, key, token, store, stage, failed>>

Fail(n) ==
  /\ stage = "ask" /\ n \in asked
  /\ asked' = asked \ {n} /\ kept' = Candidates(n, {}) /\ failed' = failed \cup {n}
  /\ shown' = IF key = "tab" THEN shown \cup Fit(kept'[n]) ELSE shown
  /\ UNCHANGED <<vars, key, token, store, stage>>

\* Mutant: what a node that is no keyword calls itself is offered too.
OfferedNamed == {Text[n] : n \in seen.matched}
Offered      == {Text[n] : n \in seen.matched \cap Keyword}

\* TAB adds the keywords, ? prints the candidates of every node with an update.
Show ==
  /\ stage = "ask" /\ asked = {}
  /\ stage' = "done"
  /\ shown' = IF key = "tab" THEN shown \cup Offered
              ELSE UNION {kept[n] : n \in seen.matched \cap (Demand \cup Boot)}
  /\ UNCHANGED <<vars, key, token, store, kept, asked, failed>>

CompleteNext ==
  \/ ParseLine \/ Enter \/ TabEmpty \/ Look \/ Show
  \/ \E n \in Demand : Answer(n) \/ Fail(n)

CompleteSpec == CompleteInit /\ [][CompleteNext]_allVars

-------------------------------------------------------------------------------
Ended(k) == stage = "done" /\ key = k /\ Understood

\* The word the cursor is behind.
Typed == Drop(buf, CHOOSE k \in 0..Len(buf) : /\ k = 0 \/ buf[k] = " "
                                              /\ \A i \in (k + 1)..Len(buf) : buf[i] # " ")

Served(n) == IF n \in failed THEN {} ELSE store[n]

\* What ? prints is what the server answered to this ?, never what an earlier key
\* left at the node; what the nodes of boot time were given is always there.
HelpFresh ==
  Ended("help") => shown = UNION ({Served(n) : n \in seen.matched \cap Demand}
                                    \cup {kept[n] : n \in seen.matched \cap Boot})

\* TAB offers what begins with the typed word and can stand there: with the offer
\* in its place, Enter's choice among the nodes is one node, and that is the
\* keyword, or the node the value was served for now.
OffersRight ==
  Ended("tab") => \A v \in shown :
    /\ IsPrefix(Typed, v)
    /\ \E n \in Next[seen.at] :
         /\ Best(Matching(seen.at, v), v) = {n}
         /\ IF n \in Keyword THEN v = Text[n] ELSE n \in Demand /\ v \in Served(n)

\* TAB leaves out nothing that could stand there, hidden nodes and the values
\* after a space apart: the keywords, and what the server has answered.
NothingMissed ==
  Ended("tab") => \A n \in Visible(Next[seen.at]) :
    /\ (n \in Keyword /\ IsPrefix(Typed, Text[n])) => Text[n] \in shown
    /\ (n \in Demand \ Keyword /\ Typed # <<>>) => \A v \in Served(n) : IsPrefix(Typed, v) => v \in shown

\* "We want to complete on-demand candidate from existing configuration": with no
\* word begun, that is every candidate.
ValuesOffered ==
  Ended("tab") => \A n \in seen.matched \cap Demand : Typed = <<>> => Served(n) \subseteq shown
===============================================================================
