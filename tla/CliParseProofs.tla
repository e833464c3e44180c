---------------------------- MODULE CliParseProofs ----------------------------
(***************************************************************************)
(* For every tree, every matcher of its nodes and every line: the marker of  *)
(* an error is under the line; TAB and ? leave the two parsers as CliParse   *)
(* has them; what ? prints is what the server answered to it, whichever      *)
(* requests fail and whatever earlier keys left at the nodes; ? and Enter    *)
(* agree; and TAB offers what can stand at the cursor, and all of it.        *)
(***************************************************************************)
EXTENDS CliComplete, TLAPS, SequenceTheorems, WellFoundedInduction, FiniteSetTheorems

Alphabet == Chars \cup {" "}

\* A set of numbers has a least one: the choices of Ahead and of Cut rest on it.
LEMMA Least ==
  ASSUME NEW T, T \subseteq Nat, T # {}
  PROVE  \E m \in T : \A k \in T : m <= k
<1> DEFINE R == OpToRel(<, Nat)
<1>1. IsWellFoundedOn(R, Nat)
  BY NatLessThanWellFounded
<1>2. \A k, m \in T : k < m => <<k, m>> \in R
  BY DEF OpToRel
<1> HIDE DEF R
<1>3. PICK m \in T : \A k \in T : ~(<<k, m>> \in R)
  BY <1>1, WFMin
<1>4. \A k \in T : k \in Nat /\ (k < m \/ m <= k)
  OBVIOUS
<1>5. QED
  BY <1>2, <1>3, <1>4

-------------------------------------------------------------------------------
(***************************************************************************)
(* The helpers that read a line                                             *)
(***************************************************************************)
\* Ahead counts the characters of the line up to the first that is not of the set.
LEMMA AheadInLine ==
  ASSUME NEW l \in Seq(Alphabet), NEW set
  PROVE  /\ Ahead(l, set) \in 0..Len(l)
         /\ Ahead(l, set) = Len(l) \/ l[Ahead(l, set) + 1] \notin set
         /\ \A i \in 1..Ahead(l, set) : l[i] \in set
<1> DEFINE Stops(n) == (\A i \in 1..n : l[i] \in set) /\ (n = Len(l) \/ l[n + 1] \notin set)
           T == {i \in 1..Len(l) : l[i] \notin set}
<1>1. Len(l) \in Nat
  OBVIOUS
<1>2. \E n \in 0..Len(l) : Stops(n)
  <2>1. CASE T = {}
    BY <1>1, <2>1
  <2>2. CASE T # {}
    <3>1. T \subseteq Nat
      OBVIOUS
    <3> HIDE DEF T
    <3>2. PICK m \in T : \A k \in T : m <= k
      BY <2>2, <3>1, Least
    <3>3. Stops(m - 1) /\ m - 1 \in 0..Len(l)
      BY <1>1, <3>2 DEF T
    <3>4. QED
      BY <3>3
  <2>3. QED
    BY <2>1, <2>2
<1>3. QED
  BY <1>2 DEF Ahead

\* Dropping n characters leaves a line, n shorter.
LEMMA DropLength ==
  ASSUME NEW l \in Seq(Alphabet), NEW n \in 0..Len(l)
  PROVE  Drop(l, n) \in Seq(Alphabet) /\ Len(Drop(l, n)) = Len(l) - n
<1>1. Len(l) \in Nat /\ n + 1 \in Int /\ \A i \in (n + 1)..Len(l) : l[i] \in Alphabet
  BY ElementOfSeq
<1>2. QED
  BY <1>1, SubSeqProperties DEF Drop

\* The next word is behind the spaces, what is left behind the word.
LEMMA Reading ==
  ASSUME line \in Seq(Alphabet)
  PROVE  /\ Spaces \in Nat /\ Len(line) \in Nat
         /\ Input \in Seq(Alphabet) /\ Len(Input) = Len(line) - Spaces /\ Len(Input) \in Nat
         /\ Len(Word) \in Nat
         /\ Rest \in Seq(Alphabet) /\ Len(Rest) = Len(Input) - Len(Word) /\ Len(Rest) \in Nat
<1>1. Len(line) \in Nat
  OBVIOUS
<1> DEFINE blank == {" "}
<1>a. Spaces = Ahead(line, blank)
  BY DEF Spaces
<1> HIDE DEF blank
<1>b. Spaces \in 0..Len(line)
  BY <1>a, AheadInLine
<1>2. Input \in Seq(Alphabet) /\ Len(Input) = Len(line) - Spaces /\ Len(Input) \in Nat
  BY <1>1, <1>b, DropLength DEF Input
<1> DEFINE n == Ahead(Input, Chars)
<1>3. n \in 0..Len(Input)
  BY <1>2, AheadInLine
<1> HIDE DEF n
<1>4. Len(Word) = n
  <2>1. \A i \in 1..n : Input[i] \in Alphabet
    BY <1>2, <1>3, ElementOfSeq
  <2>2. Len(SubSeq(Input, 1, n)) = n
    BY <1>2, <1>3, <2>1, SubSeqProperties
  <2>3. QED
    BY <2>2 DEF Word, n
<1>5. Rest \in Seq(Alphabet) /\ Len(Rest) = Len(Input) - Len(Word)
  BY <1>2, <1>3, <1>4, DropLength DEF Rest
<1>6. QED
  BY <1>1, <1>b, <1>2, <1>3, <1>4, <1>5

-------------------------------------------------------------------------------
(***************************************************************************)
(* match_shorter                                                            *)
(***************************************************************************)
Shorter(w, k) == SubSeq(w, 1, Len(w) - k)

\* Cut drops as few characters as it takes for the word to match, and one more
\* than there are if nothing does.
LEMMA CutFound ==
  ASSUME NEW n, NEW w, Len(w) \in Nat
  PROVE  /\ Cut(n, w) \in 0..(Len(w) + 1)
         /\ Cut(n, w) <= Len(w) => Visible(Matching(n, Shorter(w, Cut(n, w)))) # {}
         /\ \A j \in 0..(Cut(n, w) - 1) : Visible(Matching(n, Shorter(w, j))) = {}
<1> DEFINE Some(k) == Visible(Matching(n, Shorter(w, k))) # {}
           T == {k \in 0..(Len(w) + 1) : k <= Len(w) => Some(k)}
           Chose(k) == (k <= Len(w) => Some(k)) /\ \A j \in 0..(k - 1) : ~Some(j)
<1> HIDE DEF Some
<1>1. Len(w) + 1 \in T /\ T \subseteq Nat
  OBVIOUS
<1>2. PICK m \in T : \A k \in T : m <= k
  BY <1>1, Least
<1>3. m \in 0..(Len(w) + 1) /\ Chose(m)
  BY <1>2
<1>4. Cut(n, w) = CHOOSE k \in 0..(Len(w) + 1) : Chose(k)
  BY DEF Cut, Some, Shorter
<1>5. Cut(n, w) \in 0..(Len(w) + 1) /\ Chose(Cut(n, w))
  BY <1>3, <1>4
<1>6. QED
  BY <1>5 DEF Some

\* At the top something always matches: a keyword takes the empty word.
LEMMA CutAtTop ==
  ASSUME NEW w, Len(w) \in Nat
  PROVE  Cut(0, w) <= Len(w)
<1>1. Shorter(w, Len(w)) = <<>>
  BY SubSeqEmpty DEF Shorter
<1>2. Visible(Matching(0, <<>>)) # {}
  BY TopAssumption DEF Visible, Matching
<1>3. QED
  BY <1>1, <1>2, CutFound

\* Where nothing may follow nothing matches.
LEMMA CutAtEnd ==
  ASSUME NEW n, NEW w, Len(w) \in Nat, Next[n] = {}
  PROVE  Cut(n, w) = Len(w) + 1
<1>1. \A v : Visible(Matching(n, v)) = {}
  BY DEF Visible, Matching
<1>2. QED
  BY <1>1, CutFound

-------------------------------------------------------------------------------
(***************************************************************************)
(* The marker                                                               *)
(***************************************************************************)
\* What is left to read is no longer than the line, with the space in front of it
\* only as long as no word has been read.
Reads ==
  /\ buf \in Seq(Alphabet) /\ line \in Seq(Alphabet)
  /\ curr \in Nodes /\ (\A n \in Nodes : Next[n] \subseteq Nodes)
  /\ Len(line) <= Len(buf) + (IF curr = 0 THEN 1 ELSE 0)

ParseInv == Reads /\ CaretInLine

\* The two ways to compute the marker stay in the line.
LEMMA CaretBound ==
  ASSUME Reads, Spaces > 0
  PROVE  /\ Caret \in 0..Len(buf)
         /\ Next[curr] = {} => (Caret + 1) % 65536 \in 0..Len(buf)
<1> DEFINE c == Cut(curr, Word)
           d == Len(buf) - Len(Rest) - c
<1>1. /\ Len(buf) \in Nat /\ Len(line) \in Nat /\ Spaces \in Nat /\ Len(Word) \in Nat /\ Len(Rest) \in Nat
      /\ Len(Rest) = Len(line) - Spaces - Len(Word)
  BY Reading DEF Reads
<1>2. c \in 0..(Len(Word) + 1)
  BY <1>1, CutFound
<1>3. curr = 0 => c <= Len(Word)
  BY <1>1, CutAtTop
<1>4. Next[curr] = {} => c = Len(Word) + 1
  BY <1>1, CutAtEnd
<1> HIDE DEF c
<1>5. d \in 0..Len(buf) /\ (c > 0 => d + 1 <= Len(buf))
  BY <1>1, <1>2, <1>3 DEF Reads
<1>6. d % 65536 \in 0..d
  BY <1>1, <1>5
<1>7. Caret = d % 65536
  BY DEF Caret, c
<1>8. Next[curr] = {} => c > 0
  BY <1>1, <1>4
<1> HIDE DEF d
<1>9. \A x \in Nat : x % 65536 \in 0..x
  OBVIOUS
<1>10. QED
  BY <1>1, <1>5, <1>6, <1>7, <1>8, <1>9

\* Init and the step back to the beginning of the line.
LEMMA Beginning ==
  ASSUME NEW b \in Seq(Alphabet)
  PROVE  <<" ">> \o b \in Seq(Alphabet) /\ Len(<<" ">> \o b) = Len(b) + 1
<1>1. " " \in Alphabet
  BY DEF Alphabet
<1>2. \A S : \A x \in S : <<x>> \in Seq(S) /\ Len(<<x>>) = 1
  OBVIOUS
<1> DEFINE s == <<" ">>
<1>3. s \in Seq(Alphabet) /\ Len(s) = 1
  BY <1>1, <1>2
<1> HIDE DEF s
<1>4. s \o b \in Seq(Alphabet) /\ Len(s \o b) = Len(s) + Len(b)
  BY <1>3, ConcatProperties
<1>5. Len(s \o b) = Len(b) + 1
  BY <1>3, <1>4
<1>6. QED
  BY <1>4, <1>5, Zenon DEF s

\* Both parsers begin with the whole line.
LEMMA ParseInit == Init => ParseInv
<1> SUFFICES ASSUME Init PROVE ParseInv
  OBVIOUS
<1>1. buf \in Seq(Alphabet)
  BY LinesAssumption DEF Init, Alphabet
<1>2. line \in Seq(Alphabet) /\ Len(line) = Len(buf) + 1
  BY <1>1, Beginning DEF Init
<1>3. Len(buf) \in Nat
  BY <1>1, LenProperties
<1>4. Reads
  <2>1. curr = 0
    BY DEF Init
  <2>2. QED
    BY <1>1, <1>2, <1>3, <2>1, TreeAssumption DEF Reads
<1>5. seen.result = "none" /\ ran.result = "none"
  BY DEF Init, Nothing
<1>6. CaretInLine
  BY <1>5 DEF CaretInLine
<1>7. QED
  BY <1>4, <1>6 DEF ParseInv

\* parse has come to an end, and parse_execute begins.
LEMMA DescribesKeeps ==
  ASSUME ParseInv, NEW result, NEW caret, NEW node, NEW matched, Describes(result, caret, node, matched),
         result = "unrecognized" => caret \in 0..Len(buf)
  PROVE  ParseInv'
<1>1. buf' = buf /\ line' = <<" ">> \o buf /\ curr' = 0 /\ ran' = ran
  BY DEF Describes
<1>2. line' \in Seq(Alphabet) /\ Len(line') = Len(buf) + 1
  BY <1>1, Beginning DEF ParseInv, Reads
<1>3. Reads'
  <2>1. buf \in Seq(Alphabet) /\ Len(buf) \in Nat
    BY DEF ParseInv, Reads
  <2>2. buf' = buf /\ curr' = 0
    BY <1>1
  <2>3. QED
    BY <1>2, <2>1, <2>2, TreeAssumption DEF Reads
<1>4. seen'.result = result /\ seen'.caret = caret
  BY DEF Describes, Nothing
<1>5. CaretInLine'
  BY <1>1, <1>4 DEF ParseInv, CaretInLine
<1>6. QED
  BY <1>3, <1>5 DEF ParseInv

\* parse_execute has come to an end.
LEMMA ExecutesKeeps ==
  ASSUME ParseInv, NEW result, NEW caret, NEW nodes, Executes(result, caret, nodes),
         result = "unrecognized" => caret \in 0..Len(buf)
  PROVE  ParseInv'
<1>1. buf' = buf /\ line' = line /\ curr' = curr /\ seen' = seen
  BY DEF Executes
<1>2. ran'.result = result /\ ran'.caret = caret
  BY DEF Executes, Nothing
<1>3. QED
  BY <1>1, <1>2 DEF ParseInv, Reads, CaretInLine

\* A word is read, and the parser goes on with the node that it matched.
LEMMA DeeperKeeps ==
  ASSUME ParseInv, Spaces > 0, curr' \in Next[curr], line' = Rest, UNCHANGED <<buf, seen, ran>>
  PROVE  ParseInv'
<1>1. line' \in Seq(Alphabet) /\ Len(line') <= Len(buf) /\ Len(buf) \in Nat
  BY Reading DEF ParseInv, Reads
<1>2. curr' \in Nodes
  BY DEF ParseInv, Reads
<1>3. Len(line') <= Len(buf) + (IF curr' = 0 THEN 1 ELSE 0)
  BY <1>1
<1>4. QED
  BY <1>1, <1>2, <1>3 DEF ParseInv, Reads, CaretInLine

\* Each way to read a word, or to stop at it, keeps the marker in the line.
LEMMA ParseStep == ParseInv /\ [Step]_vars => ParseInv'
<1> SUFFICES ASSUME ParseInv, [Step]_vars PROVE ParseInv'
  OBVIOUS
<1>0. Spaces > 0 => /\ Caret \in 0..Len(buf)
                    /\ Next[curr] = {} => (Caret + 1) % 65536 \in 0..Len(buf)
  BY CaretBound DEF ParseInv
<1>1. CASE DescribeEnd
  BY <1>1, DescribesKeeps DEF DescribeEnd, ByCmd
<1>2. CASE DescribeLast
  BY <1>2, DescribesKeeps DEF DescribeLast, ByCmd
<1>3. CASE DescribeMore
  <2>1. curr' \in Next[curr]
    BY <1>3 DEF DescribeMore, Shown, Best, Visible, Matching
  <2>2. QED
    BY <1>3, <2>1, DeeperKeeps DEF DescribeMore
<1>4. CASE DescribeAmbiguous
  BY <1>4, DescribesKeeps DEF DescribeAmbiguous
<1>5. CASE DescribeRefuse
  BY <1>0, <1>5, DescribesKeeps DEF DescribeRefuse
<1>6. CASE ExecuteEnd
  BY <1>6, ExecutesKeeps DEF ExecuteEnd, ByCmd
<1>7. CASE ExecuteTooMuch
  <2>1. (Len(buf) - Len(Input)) % 65536 \in 0..Len(buf)
    <3> DEFINE d == Len(buf) - Len(Input)
    <3>1. d \in 0..Len(buf) /\ Len(buf) \in Nat
      BY <1>7, Reading DEF ParseInv, Reads, ExecuteTooMuch
    <3> HIDE DEF d
    <3>2. d % 65536 \in 0..d
      BY <3>1
    <3>3. QED
      BY <3>1, <3>2 DEF d
  <2>2. QED
    BY <1>7, <2>1, ExecutesKeeps DEF ExecuteTooMuch
<1>8. CASE ExecuteMore
  <2>1. curr' \in Next[curr]
    BY <1>8 DEF ExecuteMore, Chosen, Best, Matching
  <2>2. QED
    BY <1>8, <2>1, DeeperKeeps DEF ExecuteMore
<1>9. CASE ExecuteLast
  BY <1>9, ExecutesKeeps DEF ExecuteLast, ByCmd
<1>10. CASE ExecuteAmbiguous
  BY <1>10, ExecutesKeeps DEF ExecuteAmbiguous
<1>11. CASE ExecuteRefuse
  BY <1>0, <1>11, ExecutesKeeps DEF ExecuteRefuse
<1>12. CASE UNCHANGED vars
  BY <1>12 DEF vars, ParseInv, Reads, CaretInLine
<1>13. QED
  BY <1>1, <1>2, <1>3, <1>4, <1>5, <1>6, <1>7, <1>8, <1>9, <1>10, <1>11, <1>12
     DEF Step, Describe, Execute

\* Wherever the two parsers stop in a line, the marker they compute, a difference
\* of lengths that is 16 bits wide, is under the line or right after it.
THEOREM CaretStaysInLine == Spec => []CaretInLine
<1>1. ParseInv => CaretInLine
  BY DEF ParseInv
<1>2. QED
  BY <1>1, ParseInit, ParseStep, PTL DEF Spec

-------------------------------------------------------------------------------
(***************************************************************************)
(* Completion                                                               *)
(***************************************************************************)
\* TAB and ? do to the line what parse does, Enter what parse_execute does, and
\* the requests in between do nothing to it.
THEOREM KeysParse == CompleteSpec => Spec
<1>1. CompleteInit => Init
  BY DEF CompleteInit
<1>2. [CompleteNext]_allVars => [Step]_vars
  BY DEF CompleteNext, ParseLine, Enter, TabEmpty, Look, Answer, Fail, Show, Step, allVars
<1>3. QED
  BY <1>1, <1>2, PTL DEF CompleteSpec, Spec

\* A node the server was asked for has what it answered, none if it did not.
AnsweredInv ==
  /\ DOMAIN kept = Demand \cup Boot
  /\ stage = "parse" => failed = {}
  /\ asked \cap failed = {}
  /\ (key = "help" /\ stage = "ask") =>
       \A n \in (seen.matched \cap Demand) \ asked : kept[n] = Served(n)

FreshInv == AnsweredInv /\ HelpFresh

\* No node has been asked for.
LEMMA FreshInit == CompleteInit => FreshInv
<1> SUFFICES ASSUME CompleteInit PROVE FreshInv
  OBVIOUS
<1>1. DOMAIN kept = Demand \cup Boot
  BY DEF CompleteInit, Holdings
<1>2. QED
  BY <1>1 DEF CompleteInit, FreshInv, AnsweredInv, HelpFresh, Ended

\* An answer or a failure is one node's, and those of the others stay.
LEMMA FreshStep == FreshInv /\ [CompleteNext]_allVars => FreshInv'
<1> SUFFICES ASSUME FreshInv, [CompleteNext]_allVars PROVE FreshInv'
  OBVIOUS
<1> USE DEF FreshInv, AnsweredInv
<1>1. CASE ParseLine
  BY <1>1 DEF ParseLine, HelpFresh, Ended
<1>2. CASE Enter
  BY <1>2 DEF Enter, kvars, HelpFresh, Ended
<1>3. CASE TabEmpty
  BY <1>3 DEF TabEmpty, vars, HelpFresh, Ended
<1>4. CASE Look
  <2>1. seen' = seen /\ kept' = kept /\ failed' = failed /\ failed = {} /\ key' = key
    BY <1>4 DEF Look, vars
  <2>2. CASE Understood
    BY <1>4, <2>1, <2>2 DEF Look, Asked, HelpFresh, Ended
  <2>3. CASE ~Understood
    BY <1>4, <2>1, <2>3 DEF Look, HelpFresh, Ended, Understood
  <2>4. QED
    BY <2>2, <2>3
<1>5. ASSUME NEW n \in Demand, Answer(n) PROVE FreshInv'
  <2>1. /\ stage = "ask" /\ stage' = "ask" /\ n \in asked /\ asked' = asked \ {n} /\ key' = key
        /\ kept' = [kept EXCEPT ![n] = store[n]] /\ failed' = failed /\ store' = store /\ seen' = seen
    BY <1>5 DEF Answer, Candidates, vars
  <2>2. \A m \in Demand : kept'[m] = IF m = n THEN store[n] ELSE kept[m]
    BY <2>1
  <2>3. \A m : Served(m)' = Served(m)
    BY <2>1 DEF Served
  <2>4. Served(n) = store[n]
    BY <2>1 DEF Served
  <2>5. QED
    BY <2>1, <2>2, <2>3, <2>4 DEF HelpFresh, Ended
<1>6. ASSUME NEW n \in Demand, Fail(n) PROVE FreshInv'
  <2>1. /\ stage = "ask" /\ stage' = "ask" /\ n \in asked /\ asked' = asked \ {n} /\ key' = key
        /\ kept' = [kept EXCEPT ![n] = {}] /\ failed' = failed \cup {n} /\ store' = store /\ seen' = seen
    BY <1>6 DEF Fail, Candidates, vars
  <2>2. \A m \in Demand : kept'[m] = IF m = n THEN {} ELSE kept[m]
    BY <2>1
  <2>3. \A m : Served(m)' = IF m = n THEN {} ELSE Served(m)
    BY <2>1 DEF Served
  <2>4. QED
    BY <2>1, <2>2, <2>3 DEF HelpFresh, Ended
<1>7. CASE Show
  <2>1. /\ stage = "ask" /\ asked = {} /\ stage' = "done" /\ asked' = asked /\ key' = key /\ kept' = kept
        /\ failed' = failed /\ store' = store /\ seen' = seen
    BY <1>7 DEF Show, vars
  <2>2. key = "help" => shown' = UNION {kept[n] : n \in seen.matched \cap (Demand \cup Boot)}
    BY <1>7 DEF Show
  <2>3. key = "help" => \A n \in seen.matched \cap Demand : kept[n] = Served(n)
    BY <2>1
  <2>4. key = "help" => shown' = UNION ({Served(n) : n \in seen.matched \cap Demand}
                                        \cup {kept[n] : n \in seen.matched \cap Boot})
    BY <2>2, <2>3
  <2>5. \A m : Served(m)' = Served(m)
    BY <2>1 DEF Served
  <2>6. HelpFresh'
    BY <2>1, <2>4, <2>5 DEF HelpFresh, Ended
  <2>7. QED
    BY <2>1, <2>6
<1>8. CASE UNCHANGED allVars
  BY <1>8 DEF allVars, vars, kvars, HelpFresh, Ended, Understood, Served
<1>9. QED
  BY <1>1, <1>2, <1>3, <1>4, <1>5, <1>6, <1>7, <1>8 DEF CompleteNext

\* Whichever of the requests fail, and whatever earlier keys left at the nodes, ?
\* prints what the server answered to it, for every tree and every line.
THEOREM HelpStaysFresh == CompleteSpec => []HelpFresh
<1>1. FreshInv => HelpFresh
  BY DEF FreshInv
<1>2. QED
  BY <1>1, FreshInit, FreshStep, PTL DEF CompleteSpec

-------------------------------------------------------------------------------
(***************************************************************************)
(* Where ? and Enter agree. The proof follows parse_execute with the rest of *)
(* the way that parse went from the same place: as long as Enter has taken   *)
(* no hidden node it goes the same way, so it comes to a stop where parse    *)
(* stopped, or before, and there is only one way that parse can go from a    *)
(* place.                                                                   *)
(***************************************************************************)

-------------------------------------------------------------------------------
(***************************************************************************)
(* What the parsers read and choose, of any line and node                   *)
(***************************************************************************)
Sp(l) == Ahead(l, {" "})
In(l) == Drop(l, Sp(l))
Wd(l) == SubSeq(In(l), 1, Ahead(In(l), Chars))
Rs(l) == Drop(In(l), Len(Wd(l)))

Fits(l, n)     == Matching(n, Wd(l))
ShownAt(l, n)  == IF Rs(l) = <<>> THEN Visible(Fits(l, n)) ELSE Best(Visible(Fits(l, n)), Wd(l))
ChosenAt(l, n) == Best(Fits(l, n), Wd(l))
CaretAt(l, n)  == (Len(buf) - Len(Rs(l)) - Cut(n, Wd(l))) % 65536

\* The two parsers read and choose this of the line and the node they are at.
LEMMA Here ==
  /\ Spaces = Sp(line) /\ Input = In(line) /\ Word = Wd(line) /\ Rest = Rs(line)
  /\ Matching(curr, Word) = Fits(line, curr) /\ Shown = ShownAt(line, curr)
  /\ Chosen = ChosenAt(line, curr) /\ Caret = CaretAt(line, curr)
<1>1. Spaces = Sp(line)
  BY DEF Spaces, Sp
<1>2. Input = In(line)
  BY <1>1 DEF Input, In
<1>3. Word = Wd(line)
  BY <1>2 DEF Word, Wd
<1>4. Rest = Rs(line)
  BY <1>2, <1>3 DEF Rest, Rs
<1>5. Matching(curr, Word) = Fits(line, curr)
  BY <1>3 DEF Fits
<1>6. QED
  BY <1>1, <1>2, <1>3, <1>4, <1>5 DEF Shown, ShownAt, Chosen, ChosenAt, Caret, CaretAt

-------------------------------------------------------------------------------
(***************************************************************************)
(* Reading a word                                                           *)
(***************************************************************************)
\* A part of a part of a line is a part of the line.
LEMMA PartOfPart ==
  ASSUME NEW s \in Seq(Alphabet), NEW i \in 1..(Len(s) + 1), NEW t, t = SubSeq(s, i, Len(s)),
         NEW m \in 1..(Len(t) + 1), NEW n \in 0..Len(t)
  PROVE  SubSeq(t, m, n) = SubSeq(s, i + m - 1, i + n - 1)
<1>1. Len(s) \in Nat /\ \A k \in i..Len(s) : s[k] \in Alphabet
  BY LenProperties, ElementOfSeq
<1>2. t \in Seq(Alphabet) /\ Len(t) = Len(s) - i + 1 /\ Len(t) \in Nat
  BY <1>1, SubSeqProperties
<1>3. CASE n < m
  <2>1. SubSeq(t, m, n) = <<>>
    BY <1>2, <1>3, SubSeqEmpty
  <2>2. i + m - 1 \in Int /\ i + n - 1 \in Int /\ i + n - 1 < i + m - 1
    BY <1>1, <1>2, <1>3
  <2>3. SubSeq(s, i + m - 1, i + n - 1) = <<>>
    BY <2>2, SubSeqEmpty
  <2>4. QED
    BY <2>1, <2>3
<1>4. CASE m <= n
  <2>1. i \in 1..Len(s) /\ Len(s) \in 1..Len(s) /\ m \in 1..(Len(s) - i + 1) /\ n \in 1..(Len(s) - i + 1)
    BY <1>1, <1>2, <1>4
  <2>2. QED
    BY <2>1, SubSeqOfSubSeq
<1>5. QED
  BY <1>2, <1>3, <1>4

\* What is behind n characters of the rest of a line is a rest of the line.
Rests(s) == {SubSeq(s, k, Len(s)) : k \in 1..(Len(s) + 1)}

LEMMA DropIsRest ==
  ASSUME NEW s \in Seq(Alphabet), NEW l \in Rests(s), NEW n \in 0..Len(l)
  PROVE  Drop(l, n) \in Rests(s) /\ l \in Seq(Alphabet)
<1>1. PICK k \in 1..(Len(s) + 1) : l = SubSeq(s, k, Len(s))
  BY DEF Rests
<1>2. Len(s) \in Nat /\ \A i \in k..Len(s) : s[i] \in Alphabet
  BY LenProperties, ElementOfSeq
<1>3. l \in Seq(Alphabet) /\ Len(l) = Len(s) - k + 1 /\ Len(l) \in Nat
  BY <1>1, <1>2, SubSeqProperties
<1>4. n + 1 \in 1..(Len(l) + 1) /\ Len(l) \in 0..Len(l)
  BY <1>3
<1>5. Drop(l, n) = SubSeq(s, k + (n + 1) - 1, k + Len(l) - 1)
  BY <1>1, <1>4, PartOfPart DEF Drop
<1>6. k + (n + 1) - 1 = k + n /\ k + Len(l) - 1 = Len(s) /\ k + n \in 1..(Len(s) + 1)
  BY <1>2, <1>3
<1>7. Drop(l, n) = SubSeq(s, k + n, Len(s))
  BY <1>5, <1>6
<1>8. QED
  BY <1>3, <1>6, <1>7 DEF Rests

\* There is a word if there is something besides spaces; it is a part of the line,
\* and what is behind it is a rest of the line.
LEMMA WordFacts ==
  ASSUME NEW s \in Seq(Alphabet), NEW l \in Rests(s)
  PROVE  /\ (Wd(l) = <<>>) <=> (In(l) = <<>>)
         /\ Wd(l) # <<>> => \E i, j \in 1..Len(s) : Wd(l) = SubSeq(s, i, j)
         /\ Rs(l) \in Rests(s)
         /\ Len(Wd(l)) \in Nat /\ Len(Rs(l)) = Len(In(l)) - Len(Wd(l)) /\ Len(In(l)) \in Nat
<1> DEFINE blank == {" "}
           b == Ahead(In(l), Chars)
<1>1. l \in Seq(Alphabet)
  <2>1. PICK k \in 1..(Len(s) + 1) : l = SubSeq(s, k, Len(s))
    BY DEF Rests
  <2>2. Len(s) \in Nat /\ \A i \in k..Len(s) : s[i] \in Alphabet
    BY LenProperties, ElementOfSeq
  <2>3. QED
    BY <2>1, <2>2, SubSeqProperties
<1>2a. Sp(l) = Ahead(l, blank)
  BY DEF Sp
<1>2b. \A x \in Alphabet : x \notin blank => x \in Chars
  BY Zenon DEF Alphabet
<1> HIDE DEF blank
<1>2. Sp(l) \in 0..Len(l) /\ (Sp(l) = Len(l) \/ l[Sp(l) + 1] \notin blank)
  BY <1>1, <1>2a, AheadInLine
<1>3. In(l) \in Rests(s) /\ In(l) \in Seq(Alphabet) /\ Len(In(l)) = Len(l) - Sp(l)
  BY <1>1, <1>2, DropIsRest, DropLength DEF In
<1>4. Len(l) \in Nat /\ Len(In(l)) \in Nat
  BY <1>1, <1>3, LenProperties
<1>5. b \in 0..Len(In(l)) /\ (b = Len(In(l)) \/ In(l)[b + 1] \notin Chars)
  BY <1>3, AheadInLine
<1>6. Len(In(l)) > 0 => In(l)[1] \in Chars
  <2> SUFFICES ASSUME Len(In(l)) > 0 PROVE In(l)[1] \in Chars
    OBVIOUS
  <2> DEFINE m == Sp(l) + 1
  <2>1. m \in 1..Len(l) /\ Len(l) \in Int
    BY <1>2, <1>3, <1>4
  <2>a. l[m] \notin blank
    BY <1>2, <1>3, <1>4
  <2>2. In(l) = SubSeq(l, m, Len(l))
    BY DEF In, Drop
  <2> HIDE DEF m
  <2>3. \A i \in m..Len(l) : l[i] \in Alphabet
    <3>1. \A i \in m..Len(l) : i \in 1..Len(l)
      BY <2>1
    <3>2. QED
      BY <1>1, <3>1, ElementOfSeq
  <2>b. 1 \in 1..(Len(l) - m + 1) /\ m + 1 - 1 = m
    BY <2>1
  <2>4. In(l)[1] = l[m + 1 - 1]
    <3>1. \A i \in 1..(Len(l) - m + 1) : SubSeq(l, m, Len(l))[i] = l[m + i - 1]
      BY <2>1, <2>3, SubSeqProperties
    <3>2. QED
      BY <2>2, <2>b, <3>1
  <2>6. In(l)[1] = l[m] /\ l[m] \in Alphabet
    <3>1. m \in 1..Len(l)
      BY <2>1
    <3>2. QED
      BY <1>1, <2>b, <2>4, <3>1, ElementOfSeq
  <2>7. QED
    BY <1>2b, <2>a, <2>6
<1>7. Len(In(l)) > 0 => b > 0
  BY <1>4, <1>5, <1>6
<1> HIDE DEF b
<1>8. Len(Wd(l)) = b /\ Wd(l) \in Seq(Alphabet)
  <2>1. \A i \in 1..b : In(l)[i] \in Alphabet
    BY <1>3, <1>4, <1>5, ElementOfSeq
  <2>2. Len(SubSeq(In(l), 1, b)) = b /\ SubSeq(In(l), 1, b) \in Seq(Alphabet)
    BY <1>4, <1>5, <2>1, SubSeqProperties
  <2>3. QED
    BY <2>2 DEF Wd, b
<1>9. (Wd(l) = <<>>) <=> (In(l) = <<>>)
  <2>1. (Wd(l) = <<>>) <=> (Len(Wd(l)) = 0)
    BY <1>8, EmptySeq
  <2>2. (In(l) = <<>>) <=> (Len(In(l)) = 0)
    BY <1>3, EmptySeq
  <2>3. QED
    BY <1>4, <1>5, <1>7, <1>8, <2>1, <2>2
<1>10. Rs(l) \in Rests(s) /\ Len(Rs(l)) = Len(In(l)) - Len(Wd(l))
  BY <1>3, <1>5, <1>8, DropIsRest, DropLength DEF Rs
<1>11. Wd(l) # <<>> => \E i, j \in 1..Len(s) : Wd(l) = SubSeq(s, i, j)
  <2> SUFFICES ASSUME Wd(l) # <<>> PROVE \E i, j \in 1..Len(s) : Wd(l) = SubSeq(s, i, j)
    OBVIOUS
  <2>1. PICK k \in 1..(Len(s) + 1) : In(l) = SubSeq(s, k, Len(s))
    BY <1>3 DEF Rests
  <2>2. Len(s) \in Nat /\ \A i \in k..Len(s) : s[i] \in Alphabet
    BY LenProperties, ElementOfSeq
  <2>3. Len(In(l)) = Len(s) - k + 1
    BY <1>4, <2>1, <2>2, SubSeqProperties
  <2>4. b > 0
    BY <1>5, <1>8, EmptySeq
  <2>5. 1 \in 1..(Len(In(l)) + 1)
    BY <1>4
  <2>6. Wd(l) = SubSeq(s, k + 1 - 1, k + b - 1)
    BY <1>5, <2>1, <2>5, PartOfPart DEF Wd, b
  <2>7. k + 1 - 1 \in 1..Len(s) /\ k + b - 1 \in 1..Len(s)
    BY <1>4, <1>5, <2>2, <2>3, <2>4
  <2>8. QED
    BY <2>6, <2>7
<1>11a. Len(Wd(l)) \in Nat
  BY <1>5, <1>8
<1>12. QED
  BY <1>4, <1>9, <1>10, <1>11, <1>11a

\* A word of what is left to read is one that the nodes match in one of the four
\* ways.
LEMMA WordFlag ==
  ASSUME NEW b \in Lines, NEW l \in Rests(<<" ">> \o b), Wd(l) # <<>>, NEW n \in Nodes
  PROVE  Flag(n, Wd(l)) \in 0..3
<1> DEFINE full == <<" ">> \o b
<1>1. b \in Seq(Alphabet)
  BY LinesAssumption DEF Alphabet
<1>2. full \in Seq(Alphabet)
  BY <1>1, Beginning
<1>3. l \in Rests(full)
  OBVIOUS
<1>4. \A i, j \in 1..Len(full) : Flag(n, SubSeq(full, i, j)) \in Full..None
  BY FlagAssumption
<1> HIDE DEF full
<1>5. \E i, j \in 1..Len(full) : Wd(l) = SubSeq(full, i, j)
  BY <1>2, <1>3, WordFacts
<1>6. QED
  BY <1>4, <1>5 DEF Full, None

-------------------------------------------------------------------------------
(***************************************************************************)
(* filter_matched, with and without the hidden nodes                        *)
(***************************************************************************)
\* If a node matches in full or in part, one of them is chosen.
LEMMA SomeBest ==
  ASSUME NEW M, NEW w, \A m \in M : Flag(m, w) \in 0..3
  PROVE  Best(M, w) = {} => \A m \in M : Flag(m, w) > 1
<1> SUFFICES ASSUME NEW m \in M, Flag(m, w) <= 1 PROVE Best(M, w) # {}
  OBVIOUS
<1> DEFINE T == {Flag(k, w) : k \in {x \in M : Flag(x, w) <= 1}}
<1>1. T \subseteq Nat /\ T # {}
  OBVIOUS
<1>2. PICK f \in T : \A g \in T : f <= g
  BY <1>1, Least
<1>3. PICK k \in M : Flag(k, w) <= 1 /\ f = Flag(k, w)
  BY <1>2
<1>4. k \in Best(M, w)
  BY <1>2, <1>3 DEF Best, Partial
<1>5. QED
  BY <1>4

\* A choice that has no hidden node in it is made among the shown ones, too.
LEMMA SameBest ==
  ASSUME NEW M, NEW w, \A m \in M : Flag(m, w) \in 0..3, Best(M, w) # {}, Best(M, w) \cap Hidden = {}
  PROVE  Best(Visible(M), w) = Best(M, w)
<1> DEFINE valid == {m \in M : Flag(m, w) <= 1}
<1>1. Best(M, w) = {m \in valid : \A k \in valid : Flag(m, w) <= Flag(k, w)}
  BY DEF Best, Partial
<1>2. Best(Visible(M), w) = {m \in valid \ Hidden : \A k \in valid \ Hidden : Flag(m, w) <= Flag(k, w)}
  BY DEF Best, Visible, Partial
<1>3. PICK c \in valid : c \notin Hidden /\ \A k \in valid : Flag(c, w) <= Flag(k, w)
  BY <1>1
<1>4. \A k \in valid : Flag(k, w) \in Int
  OBVIOUS
<1> HIDE DEF valid
<1>5. Best(M, w) \subseteq Best(Visible(M), w)
  BY <1>1, <1>2
<1>6. ASSUME NEW m \in Best(Visible(M), w) PROVE m \in Best(M, w)
  <2>1. m \in valid /\ Flag(m, w) <= Flag(c, w)
    BY <1>2, <1>3, <1>6
  <2>2. \A k \in valid : Flag(m, w) <= Flag(k, w)
    BY <1>3, <1>4, <2>1
  <2>3. QED
    BY <1>1, <2>1, <2>2
<1>7. QED
  BY <1>5, <1>6

\* If nothing can be chosen, nothing can be among the shown ones.
LEMMA NoBest ==
  ASSUME NEW M, NEW w, \A m \in M : Flag(m, w) \in 0..3, Best(M, w) = {}
  PROVE  Best(Visible(M), w) = {}
<1>1. \A m \in M : Flag(m, w) > 1 /\ Flag(m, w) \in 0..3
  BY SomeBest
<1>2. \A m \in M : ~(Flag(m, w) <= 1)
  BY <1>1
<1>3. QED
  BY <1>2 DEF Best, Visible, Partial

-------------------------------------------------------------------------------
(***************************************************************************)
(* The way parse goes                                                       *)
(***************************************************************************)
\* A place is what is left to read and the node reached. From p parse goes on to q.
More(p, q) ==
  /\ Sp(p[1]) > 0 /\ Wd(p[1]) # <<>> /\ Rs(p[1]) # <<>>
  /\ q[1] = Rs(p[1]) /\ ShownAt(p[1], p[2]) = {q[2]} /\ q = <<q[1], q[2]>>

\* It comes from p to e, in any number of words: e is in every set that has p and
\* that parse does not leave.
Leads(p, e) == \A S : (p \in S /\ \A x \in S : \A y : More(x, y) => y \in S) => e \in S

LEMMA LeadsOn ==
  ASSUME NEW p, NEW x, NEW y, Leads(p, x), More(x, y)
  PROVE  Leads(p, y)
BY DEF Leads

\* There is one way to go on.
LEMMA OneWay ==
  ASSUME NEW p, NEW q, NEW r, More(p, q), More(p, r)
  PROVE  q = r
BY DEF More

LEMMA LeadsFrom ==
  ASSUME NEW p, NEW q, NEW e, Leads(p, e), More(p, q), p # e
  PROVE  Leads(q, e)
<1> SUFFICES ASSUME NEW S, q \in S, \A x \in S : \A y : More(x, y) => y \in S
             PROVE  e \in S
  BY DEF Leads
<1> DEFINE T == S \cup {p}
<1>1. \A y : More(p, y) => y = q
  BY OneWay
<1>2. p \in T /\ \A x \in T : \A y : More(x, y) => y \in T
  BY <1>1
<1>3. e \in T
  BY <1>2 DEF Leads
<1>4. QED
  BY <1>3

LEMMA LeadsNowhere ==
  ASSUME NEW p, NEW e, Leads(p, e), \A q : ~More(p, q)
  PROVE  e = p
<1> DEFINE T == {p}
<1>1. p \in T /\ \A x \in T : \A y : More(x, y) => y \in T
  OBVIOUS
<1>2. e \in T
  BY <1>1 DEF Leads
<1>3. QED
  BY <1>2

-------------------------------------------------------------------------------
(***************************************************************************)
(* The invariant                                                            *)
(***************************************************************************)
\* What parse makes of the line when it stops at the node n with l left to read:
\* the end, the last word, several matches before the last word, none.
Stopped(l, n) ==
  LET word == Sp(l) > 0 /\ Wd(l) # <<>>
      node == IF Cardinality(ShownAt(l, n)) = 1 THEN CHOOSE m \in ShownAt(l, n) : TRUE ELSE n
  IN  \/ /\ ~word /\ seen.result = ByCmd(n) /\ (seen.isCmd => n \in Cmd)
      \/ /\ word /\ Rs(l) = <<>> /\ ShownAt(l, n) # {}
         /\ seen.result = ByCmd(node) /\ (seen.isCmd => node \in Cmd) /\ seen.matched = ShownAt(l, n)
      \/ /\ word /\ Rs(l) # <<>> /\ Cardinality(ShownAt(l, n)) > 1
         /\ seen.result = "ambiguous" /\ ~seen.isCmd
      \/ /\ word /\ ShownAt(l, n) = {}
         /\ seen.result = "unrecognized" /\ ~seen.isCmd
         /\ seen.caret = IF Next[n] = {} THEN (CaretAt(l, n) + 1) % 65536 ELSE CaretAt(l, n)

Whole == <<" ">> \o buf
Place == <<line, curr>>

\* parse has come here from the beginning of the line; parse_execute has not left
\* its way, unless it took a hidden node.
AgreeInv ==
  /\ buf \in Lines /\ line \in Rests(Whole) /\ curr \in Nodes /\ path \in Seq(Nodes)
  /\ phase \in {"describe", "execute", "done"}
  /\ phase # "done" => ran = Nothing
  /\ phase = "describe" => path = <<>> /\ Leads(<<Whole, 0>>, Place)
  /\ phase = "execute" =>
       \E l, n : Stopped(l, n) /\ (ToSet(path) \cap Hidden = {} => Leads(Place, <<l, n>>))
  /\ CaretAgrees /\ HelpAgrees /\ CrRuns

\* Only one node is more than none.
LEMMA OneOrMore ==
  ASSUME NEW n \in Nodes, NEW l
  PROVE  /\ Fits(l, n) \subseteq Next[n] /\ Fits(l, n) \subseteq Nodes
         /\ ShownAt(l, n) \subseteq Fits(l, n) /\ ChosenAt(l, n) \subseteq Fits(l, n)
         /\ \A S \in SUBSET Fits(l, n) :
              /\ IsFiniteSet(S) /\ Cardinality(S) \in Nat
              /\ Cardinality(S) = 1 <=> \E x : S = {x}
              /\ Cardinality(S) = 0 <=> S = {}
              /\ \A T \in SUBSET S : Cardinality(T) <= Cardinality(S)
<1>1. Fits(l, n) \subseteq Next[n] /\ Fits(l, n) \subseteq Nodes
  BY TreeAssumption DEF Fits, Matching
<1>2. ShownAt(l, n) \subseteq Fits(l, n) /\ ChosenAt(l, n) \subseteq Fits(l, n)
  BY DEF ShownAt, ChosenAt, Best, Visible
<1>3. ASSUME NEW S \in SUBSET Fits(l, n)
      PROVE  /\ IsFiniteSet(S) /\ Cardinality(S) \in Nat
             /\ Cardinality(S) = 1 <=> \E x : S = {x}
             /\ Cardinality(S) = 0 <=> S = {}
             /\ \A T \in SUBSET S : Cardinality(T) <= Cardinality(S)
  <2>1. S \in SUBSET Nodes /\ IsFiniteSet(Nodes)
    BY <1>1, TreeAssumption
  <2>2. IsFiniteSet(S)
    BY <2>1, FS_Subset
  <2>3. Cardinality(S) \in Nat
    BY <2>2, FS_CardinalityType
  <2>4. Cardinality(S) = 1 <=> \E x : S = {x}
    BY <2>2, FS_Singleton
  <2>5. Cardinality(S) = 0 <=> S = {}
    BY <2>2, FS_EmptySet
  <2>6. \A T \in SUBSET S : Cardinality(T) <= Cardinality(S)
    BY <2>2, FS_Subset
  <2>7. QED
    BY <2>2, <2>3, <2>4, <2>5, <2>6
<1>4. QED
  BY <1>1, <1>2, <1>3

\* Where parse stops it does not go on.
LEMMA StoppedEnds ==
  ASSUME NEW n \in Nodes, NEW l, Stopped(l, n)
  PROVE  \A q : ~More(<<l, n>>, q)
<1> SUFFICES ASSUME NEW q, More(<<l, n>>, q) PROVE FALSE
  OBVIOUS
<1>1. Sp(l) > 0 /\ Wd(l) # <<>> /\ Rs(l) # <<>> /\ ShownAt(l, n) = {q[2]}
  BY DEF More
<1>2. ShownAt(l, n) # {} /\ Cardinality(ShownAt(l, n)) = 1
  BY <1>1, OneOrMore
<1>3. QED
  BY <1>1, <1>2 DEF Stopped

LEMMA WholeIsRest ==
  ASSUME NEW b \in Lines
  PROVE  <<" ">> \o b \in Seq(Alphabet) /\ <<" ">> \o b \in Rests(<<" ">> \o b)
<1> DEFINE full == <<" ">> \o b
<1>1. full \in Seq(Alphabet)
  BY LinesAssumption, Beginning DEF Alphabet
<1> HIDE DEF full
<1>2. full = SubSeq(full, 1, Len(full)) /\ 1 \in 1..(Len(full) + 1)
  BY <1>1, SubSeqFull, LenProperties
<1>3. full \in Rests(full)
  BY <1>2 DEF Rests
<1>4. QED
  BY <1>1, <1>3 DEF full

LEMMA AgreeInit == Init => AgreeInv
<1> SUFFICES ASSUME Init PROVE AgreeInv
  OBVIOUS
<1>1. /\ buf \in Lines /\ line = Whole /\ curr = 0 /\ path = <<>> /\ phase = "describe"
      /\ seen.result = "none" /\ ran = Nothing /\ ran.result = "none"
  BY DEF Init, Whole, Nothing
<1>2. line \in Rests(Whole)
  BY <1>1, WholeIsRest DEF Whole
<1>3. Leads(<<Whole, 0>>, Place)
  BY <1>1 DEF Leads, Place
<1>4. CaretAgrees /\ HelpAgrees /\ CrRuns
  BY <1>1 DEF CaretAgrees, HelpAgrees, CrRuns
<1>5. QED
  <2>1. curr \in Nodes /\ path \in Seq(Nodes)
    BY <1>1, TreeAssumption, EmptySeq
  <2>2. QED
    BY <1>1, <1>2, <1>3, <1>4, <2>1 DEF AgreeInv

\* parse reads a word and goes on.
LEMMA DescribeGoesOn == AgreeInv /\ DescribeMore => AgreeInv'
<1> SUFFICES ASSUME AgreeInv, DescribeMore PROVE AgreeInv'
  OBVIOUS
<1>1. /\ phase = "describe" /\ Sp(line) > 0 /\ Wd(line) # <<>> /\ Rs(line) # <<>>
      /\ Cardinality(ShownAt(line, curr)) = 1 /\ curr' \in ShownAt(line, curr) /\ line' = Rs(line)
      /\ UNCHANGED <<buf, phase, path, seen, ran>>
  BY Here DEF DescribeMore
<1>2. buf \in Lines /\ line \in Rests(Whole) /\ curr \in Nodes /\ path = <<>> /\ Leads(<<Whole, 0>>, Place)
  BY <1>1 DEF AgreeInv
<1>3. ShownAt(line, curr) = {curr'} /\ curr' \in Nodes
  BY <1>1, <1>2, OneOrMore
<1>4. More(Place, Place')
  BY <1>1, <1>3 DEF More, Place
<1>5. Leads(<<Whole, 0>>, Place')
  BY <1>2, <1>4, LeadsOn
<1>6. Whole' = Whole /\ line' \in Rests(Whole)
  <2>1. Whole \in Seq(Alphabet)
    BY <1>2, WholeIsRest DEF Whole
  <2>2. Rs(line) \in Rests(Whole)
    BY <1>2, <2>1, WordFacts
  <2>3. QED
    BY <1>1, <2>2 DEF Whole
<1>7. (CaretAgrees /\ HelpAgrees /\ CrRuns)'
  <2>1. ran' = Nothing /\ phase' # "done" /\ ran'.result = "none"
    BY <1>1 DEF AgreeInv, Nothing
  <2>2. QED
    BY <2>1 DEF CaretAgrees, HelpAgrees, CrRuns
<1>8. QED
  BY <1>1, <1>2, <1>3, <1>5, <1>6, <1>7 DEF AgreeInv

\* parse stops, and parse_execute begins where parse began.
LEMMA DescribeStops ==
  ASSUME AgreeInv, phase = "describe", NEW l, NEW n, l = line, n = curr,
         phase' = "execute", line' = <<" ">> \o buf, curr' = 0, UNCHANGED <<buf, path, ran>>,
         Stopped(l, n)'
  PROVE  AgreeInv'
<1>1. buf \in Lines /\ path = <<>> /\ Leads(<<Whole, 0>>, Place) /\ ran = Nothing
  BY DEF AgreeInv
<1>2. Whole' = Whole /\ line' = Whole /\ Place' = <<Whole, 0>> /\ Place = <<l, n>>
  BY DEF Whole, Place
<1>3. line' \in Rests(Whole)
  BY <1>1, <1>2, WholeIsRest DEF Whole
<1>4. Leads(Place', <<l, n>>)
  BY <1>1, <1>2
<1>5. (CaretAgrees /\ HelpAgrees /\ CrRuns)'
  <2>1. ran' = Nothing /\ phase' # "done" /\ ran'.result = "none"
    BY <1>1 DEF Nothing
  <2>2. QED
    BY <2>1 DEF CaretAgrees, HelpAgrees, CrRuns
<1>6. curr' \in Nodes /\ path' \in Seq(Nodes) /\ path' = <<>>
  BY <1>1, TreeAssumption, EmptySeq
<1>7. QED
  BY <1>1, <1>2, <1>3, <1>4, <1>5, <1>6 DEF AgreeInv

\* The three ways to stop at a word and the one to stop at the end.
LEMMA DescribeStep == AgreeInv /\ Describe => AgreeInv'
<1> SUFFICES ASSUME AgreeInv, Describe PROVE AgreeInv'
  OBVIOUS
<1>0. PICK l, n : l = line /\ n = curr
  OBVIOUS
<1>1. /\ Spaces = Sp(l) /\ Input = In(l) /\ Word = Wd(l) /\ Rest = Rs(l)
      /\ Shown = ShownAt(l, n) /\ Caret = CaretAt(l, n)
  BY <1>0, Here
<1>2. n \in Nodes /\ 0 \notin Cmd
  BY <1>0, TreeAssumption DEF AgreeInv
<1>3. CaretAt(l, n)' = CaretAt(l, n) \/ buf' # buf
  BY DEF CaretAt
<1>4. ASSUME NEW result, NEW caret, NEW node, NEW matched, Describes(result, caret, node, matched)
      PROVE  /\ phase' = "execute" /\ line' = <<" ">> \o buf /\ curr' = 0 /\ UNCHANGED <<buf, path, ran>>
             /\ seen'.result = result /\ seen'.caret = caret /\ seen'.matched = matched
             /\ (seen'.isCmd => node \in Cmd)
             /\ CaretAt(l, n)' = CaretAt(l, n)
  <2>1. /\ phase' = "execute" /\ line' = <<" ">> \o buf /\ curr' = 0 /\ UNCHANGED <<buf, path, ran>>
        /\ seen'.result = result /\ seen'.caret = caret /\ seen'.matched = matched
    BY <1>4 DEF Describes, Nothing
  <2>2. seen'.isCmd = (node \in Cmd)
    BY <1>4 DEF Describes, Nothing
  <2>3. QED
    BY <1>3, <2>1, <2>2
<1>5. CASE DescribeEnd
  <2> DEFINE fit == IF Spaces = 0 THEN {} ELSE Visible(Next[curr])
  <2>1. phase = "describe" /\ (Sp(l) = 0 \/ Wd(l) = <<>>) /\ Describes(ByCmd(n), 0, n, fit)
    BY <1>0, <1>1, <1>5 DEF DescribeEnd
  <2> HIDE DEF fit
  <2>2. seen'.result = ByCmd(n) /\ (seen'.isCmd => n \in Cmd)
    BY <1>4, <2>1
  <2>3. Stopped(l, n)'
    BY <2>1, <2>2 DEF Stopped
  <2>4. QED
    BY <1>0, <1>4, <2>1, <2>3, DescribeStops
<1>6. CASE DescribeLast
  <2> DEFINE node == IF Cardinality(ShownAt(l, n)) = 1 THEN CHOOSE m \in ShownAt(l, n) : TRUE ELSE n
  <2>1. /\ phase = "describe" /\ Sp(l) > 0 /\ Wd(l) # <<>> /\ Rs(l) = <<>> /\ ShownAt(l, n) # {}
        /\ Describes(ByCmd(node), 0, node, ShownAt(l, n))
    BY <1>0, <1>1, <1>6 DEF DescribeLast
  <2>2. seen'.result = ByCmd(node) /\ (seen'.isCmd => node \in Cmd) /\ seen'.matched = ShownAt(l, n)
    BY <1>4, <2>1
  <2>3. Stopped(l, n)'
    BY <2>1, <2>2 DEF Stopped
  <2>4. QED
    BY <1>0, <1>4, <2>1, <2>3, DescribeStops
<1>7. CASE DescribeMore
  BY <1>7, DescribeGoesOn
<1>8. CASE DescribeAmbiguous
  <2>1. /\ phase = "describe" /\ Sp(l) > 0 /\ Wd(l) # <<>> /\ Rs(l) # <<>> /\ Cardinality(ShownAt(l, n)) > 1
        /\ Describes("ambiguous", 0, 0, ShownAt(l, n))
    BY <1>0, <1>1, <1>8 DEF DescribeAmbiguous
  <2>2. seen'.result = "ambiguous" /\ ~seen'.isCmd
    BY <1>2, <1>4, <2>1
  <2>3. Stopped(l, n)'
    BY <2>1, <2>2 DEF Stopped
  <2>4. QED
    BY <1>0, <1>4, <2>1, <2>3, DescribeStops
<1>9. CASE DescribeRefuse
  <2>0. PICK caret : caret = IF Next[n] = {} THEN (CaretAt(l, n) + 1) % 65536 ELSE CaretAt(l, n)
    OBVIOUS
  <2>1. phase = "describe" /\ Sp(l) > 0 /\ Wd(l) # <<>> /\ ShownAt(l, n) = {}
    BY <1>0, <1>1, <1>9 DEF DescribeRefuse
  <2>a. Describes("unrecognized", caret, 0, {})
    BY <1>0, <1>1, <1>9, <2>0 DEF DescribeRefuse
  <2>2. seen'.result = "unrecognized" /\ ~seen'.isCmd /\ seen'.caret = caret
    BY <1>2, <1>4, <2>a
  <2>b. caret = IF Next[n] = {} THEN (CaretAt(l, n)' + 1) % 65536 ELSE CaretAt(l, n)'
    <3>1. CaretAt(l, n)' = CaretAt(l, n)
      BY <1>4, <2>a
    <3>2. QED
      BY <2>0, <3>1
  <2>3. Stopped(l, n)'
    BY <2>1, <2>2, <2>b DEF Stopped
  <2>4. QED
    BY <1>0, <1>4, <2>1, <2>a, <2>3, DescribeStops
<1>10. QED
  BY <1>5, <1>6, <1>7, <1>8, <1>9 DEF Describe

\* What the nodes that follow make of the next word, while there is one.
LEMMA FitFlags ==
  ASSUME AgreeInv, Wd(line) # <<>>
  PROVE  /\ \A m \in Fits(line, curr) : Flag(m, Wd(line)) \in 0..3
         /\ \A m \in Fits(line, curr) : Flag(m, Wd(line)) # 3
<1>1. buf \in Lines /\ line \in Rests(<<" ">> \o buf) /\ curr \in Nodes
  BY DEF AgreeInv, Whole
<1>2. Fits(line, curr) \subseteq Nodes /\ \A m \in Fits(line, curr) : Flag(m, Wd(line)) # None
  BY <1>1, OneOrMore DEF Fits, Matching
<1>3. \A m \in Nodes : Flag(m, Wd(line)) \in 0..3
  BY <1>1, WordFlag
<1>4. QED
  BY <1>2, <1>3 DEF None

\* The path has one node more.
LEMMA AppendTaken ==
  ASSUME NEW nodes \in Seq(Nodes), NEW n \in Nodes
  PROVE  ToSet(Append(nodes, n)) = ToSet(nodes) \cup {n}
<1>1. /\ Append(nodes, n) \in Seq(Nodes) /\ Len(Append(nodes, n)) = Len(nodes) + 1
      /\ \A i \in 1..Len(nodes) : Append(nodes, n)[i] = nodes[i]
      /\ Append(nodes, n)[Len(nodes) + 1] = n
  BY AppendProperties
<1>2. Len(nodes) \in Nat /\ DOMAIN nodes = 1..Len(nodes) /\ DOMAIN Append(nodes, n) = 1..(Len(nodes) + 1)
  BY <1>1, LenProperties
<1>3. \A i \in 1..(Len(nodes) + 1) : i \in 1..Len(nodes) \/ i = Len(nodes) + 1
  BY <1>2
<1>4. Len(nodes) + 1 \in 1..(Len(nodes) + 1) /\ 1..Len(nodes) \subseteq 1..(Len(nodes) + 1)
  BY <1>2
<1>5. QED
  BY <1>1, <1>2, <1>3, <1>4 DEF ToSet

LEMMA WordOrNot == AgreeInv => ((Wd(line) = <<>>) <=> (In(line) = <<>>)) /\ Rs(line) \in Rests(Whole)
<1> SUFFICES ASSUME AgreeInv PROVE ((Wd(line) = <<>>) <=> (In(line) = <<>>)) /\ Rs(line) \in Rests(Whole)
  OBVIOUS
<1>1. Whole \in Seq(Alphabet) /\ line \in Rests(Whole)
  BY WholeIsRest DEF Whole, AgreeInv
<1>2. QED
  BY <1>1, WordFacts

\* parse_execute takes a word, and if the node is shown parse went on with it.
LEMMA ExecuteGoesOn == AgreeInv /\ ExecuteMore => AgreeInv'
<1> SUFFICES ASSUME AgreeInv, ExecuteMore PROVE AgreeInv'
  OBVIOUS
<1>1. /\ phase = "execute" /\ Sp(line) > 0 /\ In(line) # <<>> /\ Rs(line) # <<>>
      /\ Cardinality(ChosenAt(line, curr)) = 1 /\ curr' \in ChosenAt(line, curr) /\ line' = Rs(line)
      /\ path' = Append(path, CHOOSE n \in ChosenAt(line, curr) : TRUE)
      /\ UNCHANGED <<buf, phase, seen, ran>>
  BY Here DEF ExecuteMore
<1>2. curr \in Nodes /\ path \in Seq(Nodes) /\ ran = Nothing
  BY <1>1 DEF AgreeInv
<1>3. ChosenAt(line, curr) = {curr'} /\ curr' \in Nodes /\ path' = Append(path, curr')
  <2>1. ChosenAt(line, curr) = {curr'} /\ curr' \in Nodes
    BY <1>1, <1>2, OneOrMore
  <2>2. QED
    BY <1>1, <2>1
<1>4. Wd(line) # <<>> /\ line' \in Rests(Whole) /\ Whole' = Whole
  BY <1>1, WordOrNot DEF Whole
<1>5. path' \in Seq(Nodes) /\ ToSet(path') = ToSet(path) \cup {curr'}
  <2>1. path' \in Seq(Nodes)
    BY <1>2, <1>3, AppendProperties
  <2>2. ToSet(path') = ToSet(path) \cup {curr'}
    BY <1>2, <1>3, AppendTaken
  <2>3. QED
    BY <2>1, <2>2
<1>6. PICK l, n : Stopped(l, n) /\ (ToSet(path) \cap Hidden = {} => Leads(Place, <<l, n>>))
  BY <1>1 DEF AgreeInv
<1>7. Stopped(l, n)'
  BY <1>1, <1>6 DEF Stopped, CaretAt
<1>8. ASSUME ToSet(path') \cap Hidden = {} PROVE Leads(Place', <<l, n>>)
  <2>1. ToSet(path) \cap Hidden = {} /\ curr' \notin Hidden
    BY <1>5, <1>8
  <2>2. Leads(Place, <<l, n>>)
    BY <1>6, <2>1
  <2>3. ShownAt(line, curr) = {curr'}
    <3>1. Best(Fits(line, curr), Wd(line)) = {curr'}
      BY <1>3 DEF ChosenAt
    <3>2. Best(Visible(Fits(line, curr)), Wd(line)) = {curr'}
      BY <1>4, <2>1, <3>1, FitFlags, SameBest
    <3>3. QED
      BY <1>1, <3>2 DEF ShownAt
  <2>4. More(Place, Place')
    BY <1>1, <1>4, <2>3 DEF More, Place
  <2>5. CASE Place = <<l, n>>
    <3>1. n \in Nodes
      BY <1>2, <2>5 DEF Place
    <3>2. QED
      BY <1>6, <2>4, <2>5, <3>1, StoppedEnds
  <2>6. CASE Place # <<l, n>>
    BY <2>2, <2>4, <2>6, LeadsFrom
  <2>7. QED
    BY <2>5, <2>6
<1>9. (CaretAgrees /\ HelpAgrees /\ CrRuns)'
  <2>1. phase' # "done" /\ ran'.result = "none"
    BY <1>1, <1>2 DEF Nothing
  <2>2. QED
    BY <2>1 DEF CaretAgrees, HelpAgrees, CrRuns
<1>10. QED
  <2>1. \E k, m : Stopped(k, m)' /\ (ToSet(path') \cap Hidden = {} => Leads(Place', <<k, m>>))
    BY <1>7, <1>8
  <2>2. /\ buf' \in Lines /\ line' \in Rests(Whole') /\ curr' \in Nodes /\ path' \in Seq(Nodes)
        /\ phase' = "execute" /\ ran' = Nothing
    BY <1>1, <1>2, <1>3, <1>4, <1>5 DEF AgreeInv
  <2>3. QED
    BY <1>9, <2>1, <2>2 DEF AgreeInv

\* If there is no way on from here, parse stopped here too.
LEMMA SameStop ==
  ASSUME AgreeInv, phase = "execute", ToSet(path) \cap Hidden = {}, \A q : ~More(Place, q)
  PROVE  Stopped(line, curr)
<1>1. PICK l, n : Stopped(l, n) /\ Leads(Place, <<l, n>>)
  BY DEF AgreeInv
<1>2. <<l, n>> = <<line, curr>>
  BY <1>1, LeadsNowhere DEF Place
<1>3. l = line /\ n = curr
  BY <1>2
<1>4. QED
  BY <1>1, <1>3

\* parse_execute has come to an end. What the three properties say of it.
LEMMA ExecuteStops ==
  ASSUME AgreeInv, phase = "execute", NEW result, NEW caret, NEW nodes, Executes(result, caret, nodes),
         ToSet(nodes) \cap Hidden = {} =>
           /\ (seen.result = "unrecognized" /\ result = "unrecognized") => seen.caret = caret
           /\ result \in {"complete", "incomplete"} => seen.result \in {"complete", "incomplete"}
           /\ (seen.isCmd /\ result # "complete") =>
                \/ result \in {"ambiguous", "incomplete"} /\ Cardinality(seen.matched) > 1
                \/ result = "ambiguous" /\ ChosenAt(line, curr) \cap Hidden # {}
                \/ result = "unrecognized" /\ \A m \in Fits(line, curr) : Flag(m, Wd(line)) = Incomplete
  PROVE  AgreeInv'
<1>1. phase' = "done" /\ UNCHANGED <<buf, line, curr, path, seen>>
  BY DEF Executes
<1>2. ran'.result = result /\ ran'.caret = caret /\ ran'.path = nodes
  BY DEF Executes, Nothing
<1>3. /\ Chosen' = ChosenAt(line, curr) /\ Matching(curr, Word)' = Fits(line, curr) /\ Word' = Wd(line)
  <2>1. Word' = Word /\ Chosen' = Chosen /\ Matching(curr, Word)' = Matching(curr, Word)
    BY <1>1 DEF Chosen, Word, Input, Spaces
  <2>2. QED
    BY <2>1, Here
<1>4. CaretAgrees'
  BY <1>1, <1>2 DEF CaretAgrees
<1>5. HelpAgrees'
  BY <1>1, <1>2 DEF HelpAgrees
<1>6. CrRuns'
  BY <1>1, <1>2, <1>3 DEF CrRuns
<1>7. Whole' = Whole
  BY <1>1 DEF Whole
<1>8. QED
  BY <1>1, <1>4, <1>5, <1>6, <1>7 DEF AgreeInv

LEMMA EndAgrees == AgreeInv /\ ExecuteEnd => AgreeInv'
<1> SUFFICES ASSUME AgreeInv, ExecuteEnd PROVE AgreeInv'
  OBVIOUS
<1>1. phase = "execute" /\ (Sp(line) = 0 \/ In(line) = <<>>) /\ Executes(ByCmd(curr), 0, path)
  BY Here DEF ExecuteEnd
<1>2. ~(Sp(line) > 0 /\ Wd(line) # <<>>)
  BY <1>1, WordOrNot
<1>3. ASSUME ToSet(path) \cap Hidden = {}
      PROVE  seen.result = ByCmd(curr) /\ (seen.isCmd => curr \in Cmd)
  <2>1. \A q : ~More(Place, q)
    BY <1>2 DEF More, Place
  <2>2. Stopped(line, curr)
    BY <1>1, <1>3, <2>1, SameStop
  <2>3. QED
    BY <1>2, <2>2 DEF Stopped
<1>4. QED
  BY <1>1, <1>3, ExecuteStops DEF ByCmd

\* Where nothing may follow the markers are at the same place: of the word no
\* beginning matches, and parse goes one ahead.
LEMMA SameMarker ==
  ASSUME AgreeInv, Next[curr] = {}
  PROVE  (CaretAt(line, curr) + 1) % 65536 = (Len(buf) - Len(In(line))) % 65536
<1>1. Len(Wd(line)) \in Nat /\ Len(Rs(line)) = Len(In(line)) - Len(Wd(line)) /\ Len(In(line)) \in Nat
  <2>1. Whole \in Seq(Alphabet) /\ line \in Rests(Whole)
    BY WholeIsRest DEF Whole, AgreeInv
  <2>2. QED
    BY <2>1, WordFacts
<1>2. Cut(curr, Wd(line)) = Len(Wd(line)) + 1
  BY <1>1, CutAtEnd
<1>3. Len(buf) \in Nat
  BY LinesAssumption, LenProperties DEF AgreeInv
<1>4. CaretAt(line, curr) = (Len(buf) - Len(In(line)) - 1) % 65536
  BY <1>1, <1>2, <1>3 DEF CaretAt
<1>5. \A x \in Int : (((x - 1) % 65536) + 1) % 65536 = x % 65536
  OBVIOUS
<1>6. Len(buf) - Len(In(line)) \in Int
  BY <1>1, <1>3
<1>7. QED
  BY <1>4, <1>5, <1>6

LEMMA TooMuchAgrees == AgreeInv /\ ExecuteTooMuch => AgreeInv'
<1> SUFFICES ASSUME AgreeInv, ExecuteTooMuch PROVE AgreeInv'
  OBVIOUS
<1>1. /\ phase = "execute" /\ Sp(line) > 0 /\ In(line) # <<>> /\ Next[curr] = {}
      /\ Executes("unrecognized", (Len(buf) - Len(In(line))) % 65536, path)
  BY Here DEF ExecuteTooMuch
<1>2. Wd(line) # <<>>
  BY <1>1, WordOrNot
<1>3. ShownAt(line, curr) = {}
  BY <1>1 DEF ShownAt, Fits, Matching, Visible, Best
<1>4. ASSUME ToSet(path) \cap Hidden = {}
      PROVE  ~seen.isCmd /\ seen.caret = (Len(buf) - Len(In(line))) % 65536
  <2>1. \A q : ~More(Place, q)
    BY <1>3 DEF More, Place
  <2>2. Stopped(line, curr)
    BY <1>1, <1>4, <2>1, SameStop
  <2>3. Cardinality(ShownAt(line, curr)) = 0
    BY <1>3, FS_EmptySet
  <2>4. ~seen.isCmd /\ seen.caret = (CaretAt(line, curr) + 1) % 65536
    BY <1>1, <1>2, <1>3, <2>2, <2>3 DEF Stopped
  <2>5. QED
    BY <1>1, <2>4, SameMarker
<1>5. QED
  BY <1>1, <1>4, ExecuteStops

\* Of the last word parse has the node that parse_execute took among its matches.
LEMMA LastAgrees == AgreeInv /\ ExecuteLast => AgreeInv'
<1> SUFFICES ASSUME AgreeInv, ExecuteLast PROVE AgreeInv'
  OBVIOUS
<1>1. PICK k \in ChosenAt(line, curr) :
        /\ phase = "execute" /\ Sp(line) > 0 /\ In(line) # <<>> /\ Rs(line) = <<>>
        /\ Cardinality(ChosenAt(line, curr)) = 1 /\ Executes(ByCmd(k), 0, Append(path, k))
  BY Here DEF ExecuteLast
<1>2. curr \in Nodes /\ path \in Seq(Nodes)
  BY DEF AgreeInv
<1>3. k \in Nodes /\ k \in Fits(line, curr) /\ ToSet(Append(path, k)) = ToSet(path) \cup {k}
  BY <1>2, OneOrMore, AppendTaken
<1>4. Wd(line) # <<>>
  BY <1>1, WordOrNot
<1> DEFINE shows == ShownAt(line, curr)
<1>5. ASSUME ToSet(Append(path, k)) \cap Hidden = {}
      PROVE  /\ seen.result \in {"complete", "incomplete"}
             /\ seen.isCmd => k \in Cmd \/ Cardinality(seen.matched) > 1
  <2>1. ToSet(path) \cap Hidden = {} /\ k \notin Hidden
    BY <1>3, <1>5
  <2>2. k \in shows
    BY <1>1, <1>3, <2>1 DEF ShownAt, Visible
  <2>3. \A q : ~More(Place, q)
    BY <1>1 DEF More, Place
  <2>4. Stopped(line, curr)
    BY <1>1, <2>1, <2>3, SameStop
  <2>5. PICK node : /\ node = IF Cardinality(shows) = 1 THEN CHOOSE m \in shows : TRUE ELSE curr
                    /\ seen.result = ByCmd(node) /\ (seen.isCmd => node \in Cmd) /\ seen.matched = shows
    BY <1>1, <1>4, <2>2, <2>4 DEF Stopped
  <2>6. Cardinality(shows) \in Nat /\ Cardinality(shows) # 0 /\ (Cardinality(shows) = 1 => shows = {k})
    BY <1>2, <2>2, OneOrMore
  <2>7. CASE Cardinality(shows) = 1
    BY <2>5, <2>6, <2>7 DEF ByCmd
  <2>8. CASE Cardinality(shows) > 1
    BY <2>5, <2>8 DEF ByCmd
  <2>9. QED
    BY <2>6, <2>7, <2>8
<1>6. QED
  <2>1. ByCmd(k) \in {"complete", "incomplete"} /\ (k \in Cmd => ByCmd(k) = "complete")
        /\ (ByCmd(k) # "complete" => ByCmd(k) = "incomplete")
    BY DEF ByCmd
  <2>2. PICK r : r = ByCmd(k)
    OBVIOUS
  <2>3. r # "unrecognized"
    BY <2>1, <2>2
  <2>4. QED
    BY <1>1, <1>5, <2>1, <2>2, <2>3, ExecuteStops

LEMMA AmbiguousAgrees == AgreeInv /\ ExecuteAmbiguous => AgreeInv'
<1> SUFFICES ASSUME AgreeInv, ExecuteAmbiguous PROVE AgreeInv'
  OBVIOUS
<1> DEFINE takes == ChosenAt(line, curr)
           shows == ShownAt(line, curr)
<1>1. /\ phase = "execute" /\ Sp(line) > 0 /\ In(line) # <<>> /\ Cardinality(takes) > 1
      /\ Executes("ambiguous", 0, path)
  BY Here DEF ExecuteAmbiguous
<1>2. Wd(line) # <<>> /\ curr \in Nodes
  BY <1>1, WordOrNot DEF AgreeInv
<1>3. /\ takes \subseteq Fits(line, curr) /\ takes # {}
      /\ \A S \in SUBSET Fits(line, curr) : Cardinality(S) = 1 <=> \E x : S = {x}
  <2>1. takes \subseteq Fits(line, curr)
        /\ \A S \in SUBSET Fits(line, curr) : Cardinality(S) = 1 <=> \E x : S = {x}
    BY <1>2, OneOrMore
  <2>2. Cardinality(takes) # 0
    BY <1>1
  <2>3. takes # {}
    BY <2>2, FS_EmptySet
  <2>4. QED
    BY <2>1, <2>3
<1>4. ASSUME ToSet(path) \cap Hidden = {}, takes \cap Hidden = {}
      PROVE  seen.isCmd => Cardinality(seen.matched) > 1
  <2>1. takes \subseteq shows /\ (Rs(line) # <<>> => shows = takes)
    <3>1. Rs(line) = <<>> => shows = Visible(Fits(line, curr))
      BY DEF ShownAt
    <3>2. Rs(line) # <<>> => shows = takes
      BY <1>2, <1>3, <1>4, FitFlags, SameBest DEF ShownAt, ChosenAt
    <3>3. QED
      BY <1>3, <1>4, <3>1, <3>2 DEF Visible
  <2>2. Cardinality(shows) > 1 /\ shows # {}
    <3>1. shows \in SUBSET Fits(line, curr) /\ takes \in SUBSET shows
      BY <1>2, <2>1, OneOrMore
    <3>2. Cardinality(takes) <= Cardinality(shows) /\ Cardinality(takes) \in Nat /\ Cardinality(shows) \in Nat
      BY <1>2, <1>3, <3>1, OneOrMore
    <3>3. QED
      BY <1>1, <1>3, <2>1, <3>2
  <2>3. \A q : ~More(Place, q)
    <3>1. ASSUME NEW q, More(Place, q) PROVE FALSE
      <4>1. shows = {q[2]}
        BY <3>1 DEF More, Place
      <4>2. Cardinality(shows) = 1
        BY <4>1, FS_Singleton
      <4>3. QED
        BY <2>2, <4>2
    <3>2. QED
      BY <3>1
  <2>4. Stopped(line, curr)
    BY <1>1, <1>4, <2>3, SameStop
  <2>5. QED
    BY <1>1, <1>2, <2>2, <2>4 DEF Stopped
<1>5. QED
  BY <1>1, <1>4, ExecuteStops

\* Where parse_execute finds nothing parse finds at most what matches as the
\* beginning of an address.
LEMMA RefuseAgrees == AgreeInv /\ ExecuteRefuse => AgreeInv'
<1> SUFFICES ASSUME AgreeInv, ExecuteRefuse PROVE AgreeInv'
  OBVIOUS
<1>1. /\ phase = "execute" /\ Sp(line) > 0 /\ In(line) # <<>> /\ Next[curr] # {} /\ ChosenAt(line, curr) = {}
      /\ Executes("unrecognized", CaretAt(line, curr), path)
  BY Here DEF ExecuteRefuse
<1>2. Wd(line) # <<>>
  BY <1>1, WordOrNot
<1>3. \A m \in Fits(line, curr) : Flag(m, Wd(line)) = Incomplete
  <2>1. \A m \in Fits(line, curr) : Flag(m, Wd(line)) > 1
    BY <1>1, <1>2, FitFlags, SomeBest DEF ChosenAt
  <2>2. QED
    BY <1>2, <2>1, FitFlags DEF Incomplete
<1>4. Rs(line) # <<>> => ShownAt(line, curr) = {}
  BY <1>1, <1>2, FitFlags, NoBest DEF ShownAt, ChosenAt
<1>5. ASSUME ToSet(path) \cap Hidden = {}
      PROVE  seen.result = "unrecognized" => seen.caret = CaretAt(line, curr)
  <2>1. \A q : ~More(Place, q)
    BY <1>4 DEF More, Place
  <2>2. Stopped(line, curr)
    BY <1>1, <1>5, <2>1, SameStop
  <2>3. CASE ShownAt(line, curr) = {}
    <3>1. Cardinality(ShownAt(line, curr)) = 0
      BY <2>3, FS_EmptySet
    <3>2. QED
      BY <1>1, <1>2, <2>2, <2>3, <3>1 DEF Stopped
  <2>4. CASE ShownAt(line, curr) # {}
    <3>1. \E k : seen.result = ByCmd(k)
      BY <1>1, <1>2, <1>4, <2>2, <2>4 DEF Stopped
    <3>2. QED
      BY <3>1 DEF ByCmd
  <2>5. QED
    BY <2>3, <2>4
<1>6. QED
  BY <1>1, <1>3, <1>5, ExecuteStops

LEMMA AgreeStep == AgreeInv /\ [Step]_vars => AgreeInv'
<1> SUFFICES ASSUME AgreeInv, [Step]_vars PROVE AgreeInv'
  OBVIOUS
<1>1. CASE Describe
  BY <1>1, DescribeStep
<1>2. CASE Execute
  BY <1>2, EndAgrees, TooMuchAgrees, ExecuteGoesOn, LastAgrees, AmbiguousAgrees, RefuseAgrees DEF Execute
<1>3. CASE UNCHANGED vars
  <2>1. Whole' = Whole /\ Place' = Place /\ \A l, n : Stopped(l, n)' <=> Stopped(l, n)
    BY <1>3 DEF vars, Whole, Place, Stopped, CaretAt
  <2>2. Chosen' = Chosen /\ Word' = Word /\ Matching(curr, Word)' = Matching(curr, Word)
    BY <1>3 DEF vars, Chosen, Word, Input, Spaces
  <2>3. (CaretAgrees /\ HelpAgrees /\ CrRuns)'
    BY <1>3, <2>2 DEF vars, AgreeInv, CaretAgrees, HelpAgrees, CrRuns
  <2>4. QED
    BY <1>3, <2>1, <2>3 DEF vars, AgreeInv
<1>4. QED
  BY <1>1, <1>2, <1>3 DEF Step

-------------------------------------------------------------------------------
\* Where ? and Enter both refuse a line they put the marker at the same place,
\* though they compute it in two ways, unless Enter took a hidden node.
THEOREM MarkersAgree == Spec => []CaretAgrees
<1>1. AgreeInv => CaretAgrees
  BY DEF AgreeInv
<1>2. QED
  BY <1>1, AgreeInit, AgreeStep, PTL DEF Spec

\* What Enter understands without a hidden node ? understands.
THEOREM HelpStaysTrue == Spec => []HelpAgrees
<1>1. AgreeInv => HelpAgrees
  BY DEF AgreeInv
<1>2. QED
  BY <1>1, AgreeInit, AgreeStep, PTL DEF Spec

\* Where ? shows <cr> Enter runs the command, but for four cases: these are all,
\* for every tree, every matcher of its nodes and every line.
THEOREM CrIsTrue == Spec => []CrRuns
<1>1. AgreeInv => CrRuns
  BY DEF AgreeInv
<1>2. QED
  BY <1>1, AgreeInit, AgreeStep, PTL DEF Spec

-------------------------------------------------------------------------------
(***************************************************************************)
(* The word behind the cursor                                               *)
(***************************************************************************)
\* What is behind n characters of a rest, character by character.
LEMMA DropMember ==
  ASSUME NEW s \in Seq(Alphabet), NEW n \in 0..Len(s)
  PROVE  /\ Drop(s, n) \in Seq(Alphabet) /\ Len(Drop(s, n)) = Len(s) - n
         /\ \A i \in 1..(Len(s) - n) : Drop(s, n)[i] = s[n + i]
<1>1. Len(s) \in Nat /\ n \in Nat /\ n + 1 \in Int /\ \A i \in (n + 1)..Len(s) : s[i] \in Alphabet
  BY LenProperties, ElementOfSeq
<1>2. /\ Drop(s, n) \in Seq(Alphabet) /\ Len(Drop(s, n)) = Len(s) - n
      /\ \A i \in 1..(Len(s) - (n + 1) + 1) : Drop(s, n)[i] = s[(n + 1) + i - 1]
  <2>1. Drop(s, n) \in Seq(Alphabet) /\ Len(Drop(s, n)) = Len(s) - n
    BY DropLength
  <2>2. \A i \in 1..(Len(s) - (n + 1) + 1) : SubSeq(s, n + 1, Len(s))[i] = s[(n + 1) + i - 1]
    BY <1>1, SubSeqProperties
  <2> QED BY <2>1, <2>2 DEF Drop
<1>3. \A i \in 1..(Len(s) - n) : i \in 1..(Len(s) - (n + 1) + 1) /\ (n + 1) + i - 1 = n + i
  BY <1>1
<1> QED BY <1>2, <1>3

\* parse always has a space before it.
Spaced(l) == l # <<>> /\ l[1] = " "

LEMMA SpacedFacts ==
  ASSUME NEW l \in Seq(Alphabet), Spaced(l)
  PROVE  Sp(l) > 0 /\ Sp(l) \in 1..Len(l) /\ Len(l) \in Nat
<1> DEFINE blank == {" "}
<1>1. Sp(l) = Ahead(l, blank) /\ l[1] \in blank
  BY DEF Sp, Spaced
<1> HIDE DEF blank
<1>2. Sp(l) \in 0..Len(l) /\ (Sp(l) = Len(l) \/ l[Sp(l) + 1] \notin blank)
  BY <1>1, AheadInLine
<1>3. Len(l) \in Nat /\ Len(l) # 0
  BY LenProperties, EmptySeq DEF Spaced
<1>4. Sp(l) # 0
  <2> SUFFICES ASSUME Sp(l) = 0 PROVE FALSE
    OBVIOUS
  <2>1. l[0 + 1] \notin blank /\ 0 + 1 = 1
    BY <1>2, <1>3
  <2> QED BY <1>1, <2>1
<1> QED BY <1>2, <1>3, <1>4

\* What is left after a word has a space before it again.
LEMMA RestSpaced ==
  ASSUME NEW s \in Seq(Alphabet), NEW l \in Rests(s), Rs(l) # <<>>
  PROVE  Spaced(Rs(l))
<1> DEFINE b == Ahead(In(l), Chars)
           blank == {" "}
<1>1. l \in Seq(Alphabet)
  <2>1. PICK k \in 1..(Len(s) + 1) : l = SubSeq(s, k, Len(s))
    BY DEF Rests
  <2>2. Len(s) \in Nat /\ \A i \in k..Len(s) : s[i] \in Alphabet
    BY LenProperties, ElementOfSeq
  <2> QED BY <2>1, <2>2, SubSeqProperties
<1>2. Sp(l) = Ahead(l, blank)
  BY DEF Sp
<1> HIDE DEF blank
<1>3. In(l) \in Seq(Alphabet) /\ Len(In(l)) \in Nat
  <2>1. Sp(l) \in 0..Len(l)
    BY <1>1, <1>2, AheadInLine
  <2>2. In(l) \in Seq(Alphabet)
    BY <1>1, <2>1, DropLength DEF In
  <2> QED BY <2>2, LenProperties
<1>4. b \in 0..Len(In(l)) /\ (b = Len(In(l)) \/ In(l)[b + 1] \notin Chars)
  BY <1>3, AheadInLine
<1>5. Len(Wd(l)) = b
  <2>1. \A i \in 1..b : In(l)[i] \in Alphabet
    BY <1>3, <1>4, ElementOfSeq
  <2>2. Len(SubSeq(In(l), 1, b)) = b
    BY <1>3, <1>4, <2>1, SubSeqProperties
  <2> QED BY <2>2 DEF Wd
<1> HIDE DEF b
<1>6. Rs(l) = Drop(In(l), b)
  BY <1>5 DEF Rs
<1>7. /\ Rs(l) \in Seq(Alphabet) /\ Len(Rs(l)) = Len(In(l)) - b
      /\ \A i \in 1..(Len(In(l)) - b) : Rs(l)[i] = In(l)[b + i]
  BY <1>3, <1>4, <1>6, DropMember
<1>8. b < Len(In(l))
  <2>1. Len(Rs(l)) # 0 /\ Len(Rs(l)) \in Nat
    BY <1>7, EmptySeq, LenProperties
  <2> QED BY <1>3, <1>4, <1>7, <2>1
<1>9. Rs(l)[1] = In(l)[b + 1] /\ In(l)[b + 1] \in Alphabet /\ In(l)[b + 1] \notin Chars
  <2>1. 1 \in 1..(Len(In(l)) - b) /\ b + 1 \in 1..Len(In(l)) /\ b # Len(In(l))
    BY <1>3, <1>4, <1>8
  <2> QED BY <1>3, <1>4, <1>7, <2>1, ElementOfSeq
<1>10. \A x \in Alphabet : x \notin Chars => x = " "
  BY Zenon DEF Alphabet
<1> QED BY <1>9, <1>10 DEF Spaced

\* The whole line is the line buffer with a space in front.
LEMMA WholeIs ==
  ASSUME NEW b \in Seq(Alphabet)
  PROVE  /\ <<" ">> \o b \in Seq(Alphabet) /\ Len(<<" ">> \o b) = Len(b) + 1
         /\ (<<" ">> \o b)[1] = " "
         /\ \A i \in 1..Len(b) : (<<" ">> \o b)[i + 1] = b[i]
<1> DEFINE s == <<" ">>
<1>s. s[1] = " "
  OBVIOUS
<1>1. s \in Seq(Alphabet) /\ Len(s) = 1
  <2>1. " " \in Alphabet
    BY DEF Alphabet
  <2>2. \A S : \A x \in S : <<x>> \in Seq(S) /\ Len(<<x>>) = 1
    OBVIOUS
  <2> QED BY <2>1, <2>2
<1> HIDE DEF s
<1>2. Len(b) \in Nat
  BY LenProperties
<1>3. /\ Len(s \o b) = Len(s) + Len(b)
      /\ \A i \in 1..(Len(s) + Len(b)) : (s \o b)[i] = IF i <= Len(s) THEN s[i] ELSE b[i - Len(s)]
  BY <1>1, ConcatProperties
<1>4. (s \o b)[1] = " "
  <2>1. 1 \in 1..(Len(s) + Len(b)) /\ 1 <= Len(s)
    BY <1>1, <1>2
  <2> QED BY <1>s, <1>3, <2>1
<1>5. ASSUME NEW i \in 1..Len(b) PROVE (s \o b)[i + 1] = b[i]
  <2>1. i + 1 \in 1..(Len(s) + Len(b)) /\ ~(i + 1 <= Len(s)) /\ i + 1 - Len(s) = i
    BY <1>1, <1>2
  <2> QED BY <1>3, <2>1
<1>6. s \o b \in Seq(Alphabet) /\ Len(s \o b) = Len(b) + 1
  <2>1. <<" ">> \o b \in Seq(Alphabet) /\ Len(<<" ">> \o b) = Len(b) + 1
    BY Beginning
  <2> QED BY <2>1 DEF s
<1> QED BY <1>4, <1>5, <1>6 DEF s

\* The word that parse reads last is the word behind the cursor; if it finds only
\* spaces there is none.
LEMMA TypedIs ==
  ASSUME buf \in Seq(Alphabet), line \in Rests(Whole), Spaced(line), Rs(line) = <<>> \/ Wd(line) = <<>>
  PROVE  Typed = Wd(line) /\ \E n \in 0..Len(buf) : Typed = Drop(buf, n)
<1> DEFINE full  == <<" ">> \o buf
           blank == {" "}
           sp    == Sp(line)
           in    == In(line)
           space == " "
<1>1. /\ full \in Seq(Alphabet) /\ Len(full) = Len(buf) + 1
      /\ \A i \in 1..Len(buf) : full[i + 1] = buf[i]
  BY WholeIs DEF full
<1>2. line \in Rests(full)
  BY DEF Whole
<1>a. sp = Ahead(line, blank)
  BY DEF Sp
<1> HIDE DEF full, blank, space
<1>3. PICK k \in 1..(Len(full) + 1) : line = SubSeq(full, k, Len(full))
  BY <1>2 DEF Rests
<1>4. Len(buf) \in Nat /\ k \in Nat /\ k - 1 \in 0..Len(full)
  BY <1>1, LenProperties
<1>5. /\ line \in Seq(Alphabet) /\ Len(line) = Len(full) - (k - 1)
      /\ \A i \in 1..(Len(full) - (k - 1)) : line[i] = full[(k - 1) + i]
  <2>1. (k - 1) + 1 = k
    BY <1>4
  <2>2. line = Drop(full, k - 1)
    BY <1>3, <2>1 DEF Drop
  <2> QED BY <1>1, <1>4, <2>2, DropMember
<1>6. sp \in 1..Len(line) /\ Len(line) \in Nat /\ line[sp] = space
  <2>1. sp \in 1..Len(line) /\ Len(line) \in Nat
    BY <1>5, SpacedFacts
  <2>2. line[sp] \in blank
    BY <1>5, <1>a, <2>1, AheadInLine
  <2> QED BY <2>1, <2>2 DEF blank, space
<1>7. /\ in \in Seq(Alphabet) /\ Len(in) = Len(line) - sp /\ Len(in) \in Nat
      /\ \A i \in 1..(Len(line) - sp) : in[i] = line[sp + i]
  <2>1. sp \in 0..Len(line)
    BY <1>6
  <2>2. in = Drop(line, sp)
    BY DEF In
  <2> HIDE DEF in, sp
  <2>3. /\ in \in Seq(Alphabet) /\ Len(in) = Len(line) - sp
        /\ \A i \in 1..(Len(line) - sp) : in[i] = line[sp + i]
    BY <1>5, <2>1, <2>2, DropMember
  <2> QED BY <2>3, LenProperties
<1> HIDE DEF sp
<1>8. Wd(line) = in /\ \A i \in 1..Len(in) : in[i] \in Chars
  <2> DEFINE n == Ahead(in, Chars)
  <2>1. n \in 0..Len(in) /\ \A i \in 1..n : in[i] \in Chars
    BY <1>7, AheadInLine
  <2>2. /\ Wd(line) = <<>> => in = <<>>
        /\ Len(Rs(line)) = Len(in) - Len(Wd(line)) /\ Len(Wd(line)) \in Nat
    BY <1>1, <1>2, WordFacts
  <2>3. CASE Wd(line) = <<>>
    BY <1>7, <2>2, <2>3, EmptySeq
  <2>4. CASE Rs(line) = <<>>
    <3>1. Len(Wd(line)) = n
      <4>1. \A i \in 1..n : in[i] \in Alphabet
        BY <1>7, <2>1, ElementOfSeq
      <4>2. Len(SubSeq(in, 1, n)) = n
        BY <1>7, <2>1, <4>1, SubSeqProperties
      <4> QED BY <4>2 DEF Wd
    <3>2. Len(Rs(line)) = 0
      BY <2>4, EmptySeq
    <3> HIDE DEF n
    <3>3. n = Len(in)
      BY <1>7, <2>1, <2>2, <3>1, <3>2
    <3>4. Wd(line) = SubSeq(in, 1, Len(in))
      BY <3>3 DEF Wd, n
    <3> QED BY <1>7, <2>1, <3>3, <3>4, SubSeqFull
  <2> QED BY <2>3, <2>4
<1> HIDE DEF in
<1> DEFINE p == k + sp - 2
           Good(q) == (q = 0 \/ buf[q] = space) /\ \A i \in (q + 1)..Len(buf) : buf[i] # space
<1>9. p \in 0..Len(buf) /\ Len(in) = Len(buf) - p /\ k + sp - 1 = p + 1 /\ (k - 1) + sp = p + 1
  BY <1>1, <1>4, <1>5, <1>6, <1>7
<1>10. \A i \in 1..Len(in) : in[i] = buf[p + i] /\ p + i \in 1..Len(buf)
  <2> SUFFICES ASSUME NEW i \in 1..Len(in) PROVE in[i] = buf[p + i] /\ p + i \in 1..Len(buf)
    OBVIOUS
  <2>1. /\ i \in 1..(Len(line) - sp) /\ sp + i \in 1..(Len(full) - (k - 1))
        /\ (k - 1) + (sp + i) = (p + i) + 1 /\ p + i \in 1..Len(buf)
    BY <1>1, <1>4, <1>5, <1>6, <1>7, <1>9
  <2>2. in[i] = line[sp + i] /\ line[sp + i] = full[(k - 1) + (sp + i)]
    BY <1>5, <1>7, <2>1
  <2> QED BY <1>1, <2>1, <2>2
<1>11. Good(p)
  <2>1. ASSUME p # 0 PROVE buf[p] = space
    <3>1. p \in 1..Len(buf) /\ sp \in 1..(Len(full) - (k - 1))
      BY <1>4, <1>5, <1>6, <1>9, <2>1
    <3>2. line[sp] = full[p + 1]
      BY <1>5, <1>9, <3>1
    <3> QED BY <1>1, <1>6, <3>1, <3>2
  <2>2. ASSUME NEW i \in (p + 1)..Len(buf) PROVE buf[i] # space
    <3>1. i - p \in 1..Len(in) /\ p + (i - p) = i
      BY <1>4, <1>9
    <3>2. buf[i] \in Chars
      <4>1. in[i - p] \in Chars /\ in[i - p] = buf[p + (i - p)]
        BY <1>8, <1>10, <3>1
      <4> QED BY <3>1, <4>1
    <3>3. space \notin Chars
      BY DEF Chars, space
    <3> QED BY <3>2, <3>3
  <2> QED BY <2>1, <2>2
<1> HIDE DEF p
<1>12. ASSUME NEW q \in 0..Len(buf), Good(q) PROVE q = p
  <2>1. ~(q < p)
    BY <1>4, <1>9, <1>11, <1>12
  <2>2. ~(p < q)
    BY <1>4, <1>9, <1>11, <1>12
  <2> QED BY <1>4, <1>9, <2>1, <2>2
<1>13. Typed = Drop(buf, CHOOSE q \in 0..Len(buf) : Good(q))
  BY DEF Typed, space
<1>14. Typed = Drop(buf, p)
  <2> HIDE DEF Good
  <2> QED BY <1>9, <1>11, <1>12, <1>13
<1>15. /\ Typed \in Seq(Alphabet) /\ Len(Typed) = Len(buf) - p
       /\ \A i \in 1..(Len(buf) - p) : Typed[i] = buf[p + i]
  BY <1>9, <1>14, DropMember
<1>16. Typed = in
  BY <1>7, <1>9, <1>10, <1>15, SeqEqual
<1> QED BY <1>8, <1>9, <1>14, <1>16

-------------------------------------------------------------------------------
(***************************************************************************)
(* What parse hands over to completion                                      *)
(***************************************************************************)
\* The word the cursor is behind is the one in token_, if there is one, and the
\* nodes are those that match it.
HandedOver ==
  /\ seen.at \in Nodes /\ (Typed = <<>> \/ token = Typed) /\ \E n \in 0..Len(buf) : Typed = Drop(buf, n)
  /\ seen.matched = IF Typed = <<>> THEN Visible(Next[seen.at]) ELSE Visible(Matching(seen.at, Typed))

ReadInv ==
  /\ AgreeInv
  /\ phase = "describe" => Spaced(line) /\ seen = Nothing
  /\ Understood => HandedOver

LEMMA ReadInit == CompleteInit => ReadInv
<1> SUFFICES ASSUME CompleteInit PROVE ReadInv
  OBVIOUS
<1>1. Init
  BY DEF CompleteInit
<1>2. buf \in Seq(Alphabet) /\ line = <<" ">> \o buf /\ seen = Nothing
  BY <1>1, LinesAssumption DEF Init, Alphabet
<1>3. Spaced(line)
  <2>1. line \in Seq(Alphabet) /\ Len(line) = Len(buf) + 1 /\ line[1] = " " /\ Len(buf) \in Nat
    BY <1>2, WholeIs, LenProperties
  <2>2. Len(line) # 0
    <3>1. \A n \in Nat : n + 1 # 0
      OBVIOUS
    <3> QED BY <2>1, <3>1, Zenon
  <2> QED BY <2>1, <2>2, EmptySeq DEF Spaced
<1>4. ~Understood
  BY <1>2 DEF Understood, Nothing
<1> QED BY <1>1, <1>2, <1>3, <1>4, AgreeInit DEF ReadInv

\* parse comes to the last word, or to the space behind it.
LEMMA ReadEnds ==
  ASSUME ReadInv, phase = "describe", DescribeEnd \/ DescribeLast,
         token' = IF Spaces > 0 /\ Word # <<>> THEN Word ELSE token
  PROVE  HandedOver'
<1>1. /\ buf \in Lines /\ line \in Rests(Whole) /\ curr \in Nodes /\ Spaced(line)
  BY DEF ReadInv, AgreeInv
<1>2. buf \in Seq(Alphabet)
  BY <1>1, LinesAssumption DEF Alphabet
<1>3. line \in Seq(Alphabet)
  <2>1. Whole \in Seq(Alphabet)
    BY <1>2, Beginning DEF Whole
  <2>2. PICK k \in 1..(Len(Whole) + 1) : line = SubSeq(Whole, k, Len(Whole))
    BY <1>1 DEF Rests
  <2>3. Len(Whole) \in Nat /\ \A i \in k..Len(Whole) : Whole[i] \in Alphabet
    BY <2>1, LenProperties, ElementOfSeq
  <2> QED BY <2>2, <2>3, SubSeqProperties
<1>4. Spaces > 0 /\ Word = Wd(line) /\ Rest = Rs(line)
  BY <1>1, <1>3, SpacedFacts, Here
<1>5. Word = <<>> \/ Rest = <<>>
  BY <1>4 DEF DescribeEnd, DescribeLast
<1>6. Typed = Word /\ \E n \in 0..Len(buf) : Typed = Drop(buf, n)
  BY <1>1, <1>2, <1>4, <1>5, TypedIs
<1>7. Typed' = Typed /\ Len(buf)' = Len(buf) /\ \A n : Drop(buf, n)' = Drop(buf, n)
  <2>1. buf' = buf
    BY DEF DescribeEnd, DescribeLast, Describes
  <2> QED BY <2>1 DEF Typed, Drop
<1>8. seen'.at = curr /\ seen'.matched = IF Word = <<>> THEN Visible(Next[curr]) ELSE Visible(Matching(curr, Word))
  <2>1. CASE DescribeEnd
    <3>1. Word = <<>> /\ Spaces # 0
      BY <1>4, <2>1 DEF DescribeEnd
    <3>2. seen'.at = curr /\ seen'.matched = IF Spaces = 0 THEN {} ELSE Visible(Next[curr])
      BY <2>1 DEF DescribeEnd, Describes, Nothing
    <3> QED BY <3>1, <3>2
  <2>2. CASE DescribeLast
    <3>1. Word # <<>> /\ seen'.at = curr /\ seen'.matched = Shown /\ Rest = <<>>
      BY <2>2 DEF DescribeLast, Describes, Nothing
    <3> QED BY <3>1 DEF Shown
  <2> QED BY <2>1, <2>2
<1>9. token' = IF Word # <<>> THEN Word ELSE token
  BY <1>4
<1>10. \A n, w : Visible(Matching(n, w))' = Visible(Matching(n, w)) /\ Visible(Next[n])' = Visible(Next[n])
  BY DEF Visible, Matching
<1> QED BY <1>1, <1>6, <1>7, <1>8, <1>9, <1>10 DEF HandedOver

LEMMA ReadStep == ReadInv /\ [CompleteNext]_allVars => ReadInv'
<1> SUFFICES ASSUME ReadInv, [CompleteNext]_allVars PROVE ReadInv'
  OBVIOUS
<1>1. AgreeInv'
  <2>1. [Step]_vars
    BY DEF CompleteNext, ParseLine, Enter, TabEmpty, Look, Answer, Fail, Show, Step, allVars
  <2> QED BY <2>1, AgreeStep DEF ReadInv
<1>2. CASE ParseLine
  <2>1. /\ phase = "describe" /\ seen = Nothing /\ Describe
        /\ token' = IF Spaces > 0 /\ Word # <<>> THEN Word ELSE token
    BY <1>2 DEF ParseLine, Describe, DescribeEnd, DescribeLast, DescribeMore, DescribeAmbiguous, DescribeRefuse, ReadInv
  <2>2. CASE DescribeEnd \/ DescribeLast
    <3>1. HandedOver' /\ phase' = "execute"
      BY <2>1, <2>2, ReadEnds DEF DescribeEnd, DescribeLast, Describes
    <3> QED BY <1>1, <3>1 DEF ReadInv
  <2>3. CASE DescribeMore
    <3>1. Rest # <<>> /\ line' = Rest /\ seen' = Nothing /\ Rest = Rs(line)
      BY <2>1, <2>3, Here DEF DescribeMore
    <3>2. Spaced(line')
      <4>1. buf \in Lines /\ line \in Rests(Whole)
        BY DEF ReadInv, AgreeInv
      <4>2. Whole \in Seq(Alphabet)
        BY <4>1, LinesAssumption, Beginning DEF Whole, Alphabet
      <4> QED BY <3>1, <4>1, <4>2, RestSpaced
    <3>3. ~Understood'
      BY <3>1 DEF Understood, Nothing
    <3> QED BY <1>1, <3>1, <3>2, <3>3 DEF ReadInv, Spaced
  <2>4. CASE DescribeAmbiguous \/ DescribeRefuse
    <3>1. seen'.result \in {"ambiguous", "unrecognized"} /\ phase' = "execute"
      <4>1. CASE DescribeAmbiguous
        BY <4>1 DEF DescribeAmbiguous, Describes, Nothing
      <4>2. CASE DescribeRefuse
        <5> DEFINE caret == IF Next[curr] = {} THEN (Caret + 1) % 65536 ELSE Caret
        <5>1. Describes("unrecognized", caret, 0, {})
          BY <4>2 DEF DescribeRefuse
        <5> HIDE DEF caret
        <5> QED BY <5>1 DEF Describes, Nothing
      <4> QED BY <2>4, <4>1, <4>2
    <3>2. ~Understood'
      BY <3>1 DEF Understood
    <3> QED BY <1>1, <3>1, <3>2 DEF ReadInv
  <2> QED BY <2>1, <2>2, <2>3, <2>4 DEF Describe
<1>3. CASE ~ParseLine
  <2>1. buf' = buf /\ seen' = seen /\ token' = token /\ (phase' = "describe" => phase = "describe" /\ line' = line)
    <3>1. CASE Enter
      <4>1. Execute /\ token' = token
        BY <3>1 DEF Enter, kvars
      <4>2. CASE ExecuteEnd
        BY <4>1, <4>2 DEF ExecuteEnd, Executes
      <4>3. CASE ExecuteTooMuch
        <5> DEFINE caret == (Len(buf) - Len(Input)) % 65536
        <5>1. Executes("unrecognized", caret, path) /\ phase = "execute"
          BY <4>3 DEF ExecuteTooMuch
        <5> QED BY <4>1, <5>1 DEF Executes
      <4>4. CASE ExecuteMore
        BY <4>1, <4>4 DEF ExecuteMore
      <4>5. CASE ExecuteLast
        BY <4>1, <4>5 DEF ExecuteLast, Executes
      <4>6. CASE ExecuteAmbiguous
        BY <4>1, <4>6 DEF ExecuteAmbiguous, Executes
      <4>7. CASE ExecuteRefuse
        BY <4>1, <4>7 DEF ExecuteRefuse, Executes
      <4> QED BY <4>1, <4>2, <4>3, <4>4, <4>5, <4>6, <4>7 DEF Execute
    <3>2. CASE UNCHANGED <<vars, token>>
      BY <3>2 DEF vars
    <3>3. Enter \/ UNCHANGED <<vars, token>>
      BY <1>3 DEF CompleteNext, TabEmpty, Look, Answer, Fail, Show, allVars, kvars
    <3> QED BY <3>1, <3>2, <3>3
  <2>2. (HandedOver' <=> HandedOver) /\ (Understood' <=> Understood)
    BY <2>1 DEF HandedOver, Understood, Typed, Drop, Visible, Matching
  <2> QED BY <1>1, <2>1, <2>2 DEF ReadInv, Spaced
<1> QED BY <1>2, <1>3

-------------------------------------------------------------------------------
(***************************************************************************)
(* What TAB makes of it                                                     *)
(***************************************************************************)
\* Of the nodes TAB asks for, those it has asked have had what the server gave
\* compared with token_.
TabInv ==
  /\ DOMAIN kept = Demand \cup Boot
  /\ \A n \in Demand : store[n] \subseteq Values[n]
  /\ key = "tab" /\ buf = <<>> => seen = Nothing
  /\ stage = "parse" => failed = {} /\ shown = {}
  /\ asked \cap failed = {}
  /\ (key = "tab" /\ stage = "ask") => /\ Understood /\ asked \subseteq Asked
                                       /\ shown = UNION {Fit(Served(n)) : n \in Asked \ asked}
  /\ Ended("tab") => shown = (UNION {Fit(Served(n)) : n \in Asked}) \cup Offered

LEMMA TabInit == CompleteInit => TabInv
<1> SUFFICES ASSUME CompleteInit PROVE TabInv
  OBVIOUS
<1>1. DOMAIN kept = Demand \cup Boot /\ \A n \in Demand : store[n] \subseteq Values[n]
  BY DEF CompleteInit, Holdings
<1> QED BY <1>1 DEF CompleteInit, Init, TabInv, Ended

\* The server answers or does not: one more node is asked.
LEMMA AskedOne ==
  ASSUME TabInv, NEW n \in asked, NEW answer, n \in Demand, key = "tab", stage = "ask",
         UNCHANGED <<vars, key, token, store, stage>>, asked' = asked \ {n}, Served(n)' = answer,
         \A m : m # n => Served(m)' = Served(m), kept' = Candidates(n, answer), asked' \cap failed' = {},
         shown' = shown \cup Fit(kept'[n])
  PROVE  TabInv'
<1>1. kept'[n] = answer /\ DOMAIN kept' = DOMAIN kept
  BY DEF Candidates, TabInv
<1>2. Asked' = Asked /\ (Understood' <=> Understood) /\ \A set : Fit(set)' = Fit(set)
  BY DEF Asked, Understood, Fit, vars
<1>3. shown' = UNION {Fit(Served(m)') : m \in Asked \ asked'}
  <2> DEFINE was(m) == Fit(Served(m))
             is(m)  == Fit(Served(m)')
  <2>1. shown = UNION {was(m) : m \in Asked \ asked} /\ asked \subseteq Asked /\ shown' = shown \cup is(n)
    BY <1>1 DEF TabInv
  <2>2. \A m \in Asked \ asked : is(m) = was(m)
    OBVIOUS
  <2> HIDE DEF was, is
  <2>3. Asked \ asked' = (Asked \ asked) \cup {n}
    BY <2>1
  <2>4. UNION {is(m) : m \in (Asked \ asked) \cup {n}} = (UNION {was(m) : m \in Asked \ asked}) \cup is(n)
    BY <2>2
  <2>5. shown' = UNION {is(m) : m \in Asked \ asked'}
    BY <2>1, <2>3, <2>4
  <2> QED BY <2>5 DEF is
<1>4. \A m : Fit(Served(m))' = Fit(Served(m)')
  BY <1>2
<1>5. shown' = (UNION {Fit(Served(m)) : m \in Asked \ asked})'
  BY <1>2, <1>3, <1>4
<1>6. asked' \subseteq Asked' /\ Understood'
  BY <1>2 DEF TabInv
<1>7. /\ DOMAIN kept' = Demand \cup Boot /\ (\A m \in Demand : store'[m] \subseteq Values[m])
      /\ (key' = "tab" /\ buf' = <<>> => seen' = Nothing) /\ stage' = "ask"
  BY <1>1 DEF TabInv, vars
<1> QED BY <1>5, <1>6, <1>7 DEF TabInv, Ended

LEMMA TabStep == TabInv /\ [CompleteNext]_allVars => TabInv'
<1> SUFFICES ASSUME TabInv, [CompleteNext]_allVars PROVE TabInv'
  OBVIOUS
<1>1. CASE ParseLine
  <2>1. /\ stage' = "parse" /\ stage = "parse" /\ ~(key = "tab" /\ buf = <<>>) /\ buf' = buf
        /\ UNCHANGED <<key, store, kept, asked, failed, shown>>
    <3>1. DescribeMore \/ \E result, caret, node, matched : Describes(result, caret, node, matched)
      <4>1. CASE DescribeRefuse
        <5> DEFINE caret == IF Next[curr] = {} THEN (Caret + 1) % 65536 ELSE Caret
        <5>1. Describes("unrecognized", caret, 0, {})
          BY <4>1 DEF DescribeRefuse
        <5> QED BY <5>1
      <4>2. CASE DescribeLast
        <5> DEFINE node == IF Cardinality(Shown) = 1 THEN CHOOSE n \in Shown : TRUE ELSE curr
        <5>1. Describes(ByCmd(node), 0, node, Shown)
          BY <4>2 DEF DescribeLast
        <5> QED BY <5>1
      <4> QED BY <1>1, <4>1, <4>2, Zenon DEF ParseLine, Describe, DescribeEnd, DescribeAmbiguous
    <3>2. buf' = buf
      BY <3>1 DEF DescribeMore, Describes
    <3> QED BY <1>1, <3>2 DEF ParseLine
  <2> QED BY <2>1 DEF TabInv, Ended
<1>2. CASE Enter
  <2>1. key = "enter" /\ UNCHANGED kvars
    BY <1>2 DEF Enter
  <2> QED BY <2>1 DEF TabInv, Ended, kvars
<1>3. CASE TabEmpty
  <2>1. /\ stage' = "done" /\ key = "tab" /\ buf = <<>> /\ seen' = seen /\ buf' = buf
        /\ UNCHANGED <<key, store, kept, asked, failed>>
    BY <1>3 DEF TabEmpty, vars
  <2>2. ~Understood'
    BY <2>1 DEF TabInv, Understood, Nothing
  <2> QED BY <2>1, <2>2 DEF TabInv, Ended
<1>4. CASE Look
  <2>1. /\ stage = "parse" /\ failed = {} /\ shown = {} /\ (Understood' <=> Understood) /\ Asked' = Asked
        /\ UNCHANGED <<buf, seen, key, store, kept, failed, shown>>
    BY <1>4 DEF Look, vars, TabInv, Understood, Asked
  <2>2. CASE Understood
    <3>1. stage' = "ask" /\ asked' = Asked
      BY <1>4, <2>2 DEF Look
    <3> QED BY <2>1, <2>2, <3>1 DEF TabInv, Ended
  <2>3. CASE ~Understood
    <3>1. stage' = "done" /\ asked' = asked
      BY <1>4, <2>3 DEF Look
    <3> QED BY <2>1, <2>3, <3>1 DEF TabInv, Ended
  <2> QED BY <2>2, <2>3
<1>5. ASSUME NEW n \in Demand, Answer(n) PROVE TabInv'
  <2>1. /\ stage = "ask" /\ n \in asked /\ asked' = asked \ {n} /\ kept' = Candidates(n, store[n]) /\ failed' = failed
        /\ UNCHANGED <<vars, key, token, store, stage>>
        /\ shown' = IF key = "tab" THEN shown \cup Fit(kept'[n]) ELSE shown
    BY <1>5 DEF Answer
  <2>2. /\ Served(n)' = store[n] /\ (\A m : m # n => Served(m)' = Served(m)) /\ asked' \cap failed' = {}
    BY <2>1 DEF Served, TabInv
  <2>3. CASE key = "tab"
    BY <2>1, <2>2, <2>3, AskedOne
  <2>4. CASE key # "tab"
    BY <2>1, <2>2, <2>4 DEF TabInv, Ended, Candidates, vars
  <2> QED BY <2>3, <2>4
<1>6. ASSUME NEW n \in Demand, Fail(n) PROVE TabInv'
  <2> DEFINE none == {}
  <2>1. /\ stage = "ask" /\ n \in asked /\ asked' = asked \ {n} /\ kept' = Candidates(n, none)
        /\ failed' = failed \cup {n} /\ UNCHANGED <<vars, key, token, store, stage>>
        /\ shown' = IF key = "tab" THEN shown \cup Fit(kept'[n]) ELSE shown
    BY <1>6 DEF Fail
  <2>2. /\ Served(n)' = none /\ (\A m : m # n => Served(m)' = Served(m)) /\ asked' \cap failed' = {}
    BY <2>1 DEF Served, TabInv
  <2> HIDE DEF none
  <2>3. CASE key = "tab"
    BY <2>1, <2>2, <2>3, AskedOne
  <2>4. CASE key # "tab"
    BY <2>1, <2>2, <2>4 DEF TabInv, Ended, Candidates, vars
  <2> QED BY <2>3, <2>4
<1>7. CASE Show
  <2>1. /\ stage = "ask" /\ asked = {} /\ stage' = "done" /\ asked' = asked /\ failed' = failed
        /\ UNCHANGED <<buf, seen, key, token, store, kept>>
        /\ key = "tab" => shown' = shown \cup Offered
    BY <1>7 DEF Show, vars
  <2>2. Asked' = Asked /\ Offered' = Offered /\ \A m : Fit(Served(m))' = Fit(Served(m))
    BY <2>1 DEF Asked, Offered, Fit, Served
  <2>3. key = "tab" => shown = UNION {Fit(Served(n)) : n \in Asked}
    BY <2>1 DEF TabInv
  <2>4. key = "tab" => shown' = (UNION {Fit(Served(n)) : n \in Asked}) \cup Offered
    BY <2>1, <2>3
  <2>5. Ended("tab")' => shown' = ((UNION {Fit(Served(n)) : n \in Asked}) \cup Offered)'
    BY <2>1, <2>2, <2>4 DEF Ended
  <2> QED BY <2>1, <2>5 DEF TabInv
<1>8. CASE UNCHANGED allVars
  BY <1>8 DEF allVars, vars, kvars, TabInv, Ended, Understood, Asked, Fit, Served, Offered
<1> QED BY <1>1, <1>2, <1>3, <1>4, <1>5, <1>6, <1>7, <1>8 DEF CompleteNext

\* A beginning of a sequence.
LEMMA PrefixFacts ==
  ASSUME NEW s, Len(s) \in Nat, s = [i \in 1..Len(s) |-> s[i]]
  PROVE  /\ IsPrefix(<<>>, s)
         /\ \A w : IsPrefix(w, s) /\ w \in Seq(Alphabet) /\ w # <<>> =>
              \E i \in 1..Len(s) : w = SubSeq(s, 1, i)
<1>1. IsPrefix(<<>>, s)
  <2>1. SubSeq(s, 1, 0) = <<>> /\ SubSeq(<<>>, 1, 0) = <<>>
    BY SubSeqEmpty
  <2> QED BY <2>1 DEF IsPrefix
<1>2. ASSUME NEW w, IsPrefix(w, s), w \in Seq(Alphabet), w # <<>>
      PROVE  \E i \in 1..Len(s) : w = SubSeq(s, 1, i)
  <2>1. Len(w) \in Nat /\ Len(w) # 0 /\ SubSeq(w, 1, Len(w)) = w
    BY <1>2, LenProperties, EmptySeq, SubSeqFull
  <2>2. Len(w) <= Len(s) /\ SubSeq(w, 1, Len(w)) = SubSeq(s, 1, Len(w))
    BY <1>2 DEF IsPrefix
  <2>3. Len(w) \in 1..Len(s) /\ w = SubSeq(s, 1, Len(w))
    BY <2>1, <2>2
  <2> QED BY <2>3
<1> QED BY <1>1, <1>2

\* What is typed of a word is a part of a line.
LEMMA TypedPart ==
  ASSUME ReadInv, Understood
  PROVE  /\ Typed \in Seq(Alphabet)
         /\ Typed # <<>> => Typed \in UNION {{SubSeq(l, i, j) : i, j \in 1..Len(l)} : l \in Lines}
<1>1. PICK n \in 0..Len(buf) : Typed = Drop(buf, n)
  BY DEF ReadInv, HandedOver
<1>2. buf \in Lines /\ buf \in Seq(Alphabet) /\ Len(buf) \in Nat
  BY LinesAssumption, LenProperties DEF ReadInv, AgreeInv, Alphabet
<1>3. Typed \in Seq(Alphabet) /\ Len(Typed) = Len(buf) - n
  BY <1>1, <1>2, DropLength
<1>4. ASSUME Typed # <<>> PROVE \E i, j \in 1..Len(buf) : Typed = SubSeq(buf, i, j)
  <2>1. Len(Typed) # 0
    BY <1>3, <1>4, EmptySeq
  <2>2. n + 1 \in 1..Len(buf) /\ Len(buf) \in 1..Len(buf)
    BY <1>2, <1>3, <2>1
  <2> QED BY <1>1, <2>2 DEF Drop
<1> QED BY <1>2, <1>3, <1>4

\* A node that TAB asks for or that is a keyword it shows may follow, and matches
\* what is typed.
LEMMA MatchedNode ==
  ASSUME ReadInv, Understood
  PROVE  /\ seen.at \in Nodes /\ Next[seen.at] \subseteq Nodes /\ seen.matched \subseteq Visible(Next[seen.at])
         /\ seen.matched \subseteq Next[seen.at]
         /\ \A n \in Visible(Next[seen.at]) : n \in seen.matched <=> Typed = <<>> \/ Flag(n, Typed) # None
<1>1. /\ seen.at \in Nodes
      /\ seen.matched = IF Typed = <<>> THEN Visible(Next[seen.at]) ELSE Visible(Matching(seen.at, Typed))
  BY DEF ReadInv, HandedOver
<1>2. Next[seen.at] \subseteq Nodes
  BY <1>1, TreeAssumption
<1> QED BY <1>1, <1>2 DEF Visible, Matching

\* What a node offers is taken by it and by no other node.
LEMMA OfferTaken ==
  ASSUME NEW at \in Nodes, NEW n \in Next[at], NEW v,
         \/ n \in Keyword /\ v = Text[n]
         \/ n \in Demand \ Keyword /\ v \in Values[n]
  PROVE  Best(Matching(at, v), v) = {n}
<1>1. /\ Flag(n, v) \in 0..1
      /\ \A k \in Next[at] \ {n} : Flag(k, v) \in (Flag(n, v) + 1)..3
  <2>1. CASE n \in Keyword /\ v = Text[n]
    <3>1. Flag(n, v) = 0 /\ \A k \in Next[at] \ {n} : Flag(k, v) \in 1..3
      BY <2>1, KeywordAssumption DEF Full, Partial, None
    <3> QED BY <3>1
  <2>2. CASE n \in Demand \ Keyword /\ v \in Values[n]
    BY <2>2, ValueAssumption DEF Full, Partial, None
  <2> QED BY <2>1, <2>2
<1>2. n \in Matching(at, v)
  BY <1>1 DEF Matching, None
<1>3. \A k \in Matching(at, v) : k = n \/ (k \in Next[at] \ {n} /\ Flag(k, v) \in (Flag(n, v) + 1)..3)
  BY <1>1 DEF Matching
<1>4. n \in Best(Matching(at, v), v)
  <2>1. \A k \in Matching(at, v) : Flag(n, v) <= Flag(k, v)
    BY <1>1, <1>3
  <2> QED BY <1>1, <1>2, <2>1 DEF Best, Partial
<1>5. ASSUME NEW k \in Best(Matching(at, v), v) PROVE k = n
  <2>1. k \in Matching(at, v) /\ Flag(k, v) <= Flag(n, v)
    BY <1>1, <1>2 DEF Best, Partial
  <2> QED BY <1>1, <1>3, <2>1
<1> QED BY <1>4, <1>5

LEMMA OffersAreRight == ReadInv /\ TabInv => OffersRight
<1> SUFFICES ASSUME ReadInv, TabInv, Ended("tab"), NEW v \in shown
             PROVE  /\ IsPrefix(Typed, v)
                    /\ \E n \in Next[seen.at] :
                         /\ Best(Matching(seen.at, v), v) = {n}
                         /\ IF n \in Keyword THEN v = Text[n] ELSE n \in Demand /\ v \in Served(n)
  BY DEF OffersRight
<1>1. Understood /\ shown = (UNION {Fit(Served(n)) : n \in Asked}) \cup Offered /\ key = "tab"
  BY DEF TabInv, Ended
<1>2. Typed = <<>> \/ token = Typed
  BY <1>1 DEF ReadInv, HandedOver
<1>3. CASE v \in Offered
  <2>1. PICK n \in seen.matched \cap Keyword : v = Text[n]
    BY <1>3 DEF Offered
  <2>2. n \in Next[seen.at] /\ n \in Visible(Next[seen.at])
    BY <1>1, <2>1, MatchedNode
  <2>3. Best(Matching(seen.at, v), v) = {n}
    BY <1>1, <2>1, <2>2, MatchedNode, OfferTaken
  <2>4. IsPrefix(Typed, v)
    <3>1. CASE Typed = <<>>
      <4>1. n \in Nodes
        BY <1>1, <2>2, MatchedNode
      <4> QED BY <2>1, <3>1, <4>1, PrefixFacts, UpdateAssumption
    <3>2. CASE Typed # <<>>
      <4>1. Flag(n, Typed) # None
        BY <1>1, <2>1, <2>2, <3>2, MatchedNode
      <4>2. Typed \in UNION {{SubSeq(l, i, j) : i, j \in 1..Len(l)} : l \in Lines}
        BY <1>1, <3>2, TypedPart
      <4> QED BY <2>1, <3>2, <4>1, <4>2, KeywordAssumption
    <3> QED BY <3>1, <3>2
  <2> QED BY <2>1, <2>2, <2>3, <2>4
<1>4. CASE v \notin Offered
  <2>1. PICK n \in Asked : v \in Fit(Served(n))
    BY <1>1, <1>4
  <2>2. n \in seen.matched /\ n \in Demand \ Keyword
    BY <1>1, <2>1 DEF Asked
  <2>3. v \in Served(n) /\ IsPrefix(token, v)
    BY <2>1 DEF Fit
  <2>4. v \in Values[n]
    BY <2>2, <2>3 DEF Served, TabInv
  <2>5. n \in Next[seen.at] /\ seen.at \in Nodes
    BY <1>1, <2>2, MatchedNode
  <2>6. Best(Matching(seen.at, v), v) = {n}
    BY <2>2, <2>4, <2>5, OfferTaken
  <2>7. IsPrefix(<<>>, v)
    BY <2>2, <2>4, PrefixFacts, UpdateAssumption
  <2> QED BY <1>2, <2>2, <2>3, <2>5, <2>6, <2>7
<1> QED BY <1>3, <1>4

LEMMA NothingIsMissed == ReadInv /\ TabInv => NothingMissed
<1> SUFFICES ASSUME ReadInv, TabInv, Ended("tab"), NEW n \in Visible(Next[seen.at])
             PROVE  /\ (n \in Keyword /\ IsPrefix(Typed, Text[n])) => Text[n] \in shown
                    /\ (n \in Demand \ Keyword /\ Typed # <<>>) =>
                         \A v \in Served(n) : IsPrefix(Typed, v) => v \in shown
  BY DEF NothingMissed
<1>1. Understood /\ shown = (UNION {Fit(Served(m)) : m \in Asked}) \cup Offered /\ key = "tab"
  BY DEF TabInv, Ended
<1>2. n \in Next[seen.at] /\ n \in Nodes
  BY <1>1, MatchedNode DEF Visible
<1>3. ASSUME n \in Keyword, IsPrefix(Typed, Text[n]) PROVE Text[n] \in shown
  <2>1. Typed = <<>> \/ Flag(n, Typed) # None
    <3> SUFFICES ASSUME Typed # <<>> PROVE Flag(n, Typed) # None
      OBVIOUS
    <3>1. Typed \in UNION {{SubSeq(l, i, j) : i, j \in 1..Len(l)} : l \in Lines}
      BY <1>1, TypedPart
    <3> QED BY <1>3, <3>1, KeywordAssumption
  <2>2. n \in seen.matched
    BY <1>1, <2>1, MatchedNode
  <2> QED BY <1>1, <1>3, <2>2 DEF Offered
<1>4. ASSUME n \in Demand \ Keyword, Typed # <<>>, NEW v \in Served(n), IsPrefix(Typed, v) PROVE v \in shown
  <2>1. v \in Values[n]
    BY <1>4 DEF Served, TabInv
  <2>2. Flag(n, Typed) # None
    <3>1. PICK i \in 1..Len(v) : Typed = SubSeq(v, 1, i)
      <4>1. Len(v) \in Nat /\ v = [i \in 1..Len(v) |-> v[i]]
        BY <1>4, <2>1, UpdateAssumption
      <4>2. Typed \in Seq(Alphabet)
        BY <1>1, TypedPart
      <4> QED BY <1>4, <4>1, <4>2, PrefixFacts
    <3>2. seen.at \in Nodes
      BY <1>1, MatchedNode
    <3> QED BY <1>2, <1>4, <2>1, <3>1, <3>2, ValueAssumption
  <2>3. n \in Asked
    BY <1>1, <1>4, <2>2, MatchedNode DEF Asked
  <2>4. v \in Fit(Served(n))
    BY <1>1, <1>4 DEF Fit, ReadInv, HandedOver
  <2> QED BY <1>1, <2>3, <2>4
<1> QED BY <1>3, <1>4

-------------------------------------------------------------------------------
\* TAB offers what begins with the word behind the cursor, and what Enter would
\* take there for the node that offers it, whichever requests fail.
THEOREM OffersStayRight == CompleteSpec => []OffersRight
BY ReadInit, ReadStep, TabInit, TabStep, OffersAreRight, PTL DEF CompleteSpec

\* TAB leaves out no keyword, and once a word is begun no value that the server has
\* answered.
THEOREM NothingStaysMissed == CompleteSpec => []NothingMissed
BY ReadInit, ReadStep, TabInit, TabStep, NothingIsMissed, PTL DEF CompleteSpec
===============================================================================
