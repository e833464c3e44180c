------------------------------- MODULE CliMatch -------------------------------
(***************************************************************************)
(* cli_match of the nodes that are not keywords (cli_tree.cpp): a node of   *)
(* some kind reads a word character by character. read holds the locals of  *)
(* its loop after the characters so far; once it has refused it reads no    *)
(* further, as the loop returns. The loop of a range is strtoull.           *)
(***************************************************************************)
EXTENDS Integers, Sequences, FiniteSets, SequencesExt

CONSTANTS
  Kinds,                \* the kinds of nodes
  Chars,                \* the characters that are typed for each
  Value(_), Hex(_),     \* the value of a digit; whether isxdigit
  MaxOctet, MaxLength4, \* 255 and 32
  MaxXdigits, Groups,   \* 4 and 8: digits of a group, groups of an IPv6 address
  MaxLength6,           \* 128
  MaxPart,              \* 65535: either side of a community
  RangeMin, RangeMax, ULLong,     \* a range; the values of unsigned long long, 2^64
  MaxWord               \* bound: the longest word of each kind

Digits  == {c \in UNION {Chars[k] : k \in Kinds} : Value(c) \in 0..9}
Xdigits == {c \in UNION {Chars[k] : k \in Kinds} : Hex(c)}

ASSUME KindAssumption ==
  Kinds \subseteq {"Range", "IPv4Address", "IPv4Prefix", "IPv6Address", "IPv6Prefix", "Community"}
ASSUME CharAssumption ==
  Digits \subseteq Xdigits /\ Xdigits # {} /\ {".", ":", "/", "-", "+"} \cap Xdigits = {}
ASSUME LimitAssumption ==
  /\ {MaxOctet, MaxLength4, MaxLength6, MaxPart, RangeMin, RangeMax} \subseteq Nat
  /\ MaxWord \in [Kinds -> Nat]
  /\ {MaxXdigits, ULLong} \subseteq Nat \ {0} /\ Groups \in Nat \ {0, 1}
  /\ \A max \in {MaxOctet, MaxLength4, MaxLength6, MaxPart, RangeMax + 1} : max < ULLong
  /\ \A max \in {MaxOctet, MaxPart} : 9 <= max

VARIABLES
  kind, \* the kind of node
  word, \* the word so far
  read  \* the locals of its matcher

vars == <<kind, word, read>>

Refused == [state |-> "refused"]
Start4  == [state |-> "init", val |-> 0, dots |-> 0, octets |-> 0, plen |-> 0]
Start6  == [state |-> "init", firstColon |-> FALSE, doubleColon |-> FALSE, xdigits |-> 0,
            xdigitsCount |-> 0, colonCount |-> 0, plen |-> 0]
StartC  == [state |-> "init", part |-> 0]
StartR  == [state |-> "init", negative |-> FALSE, val |-> 0]

Init ==
  /\ word = <<>>
  /\ \/ kind \in Kinds \cap {"IPv4Address", "IPv4Prefix"} /\ read = Start4
     \/ kind \in Kinds \cap {"IPv6Address", "IPv6Prefix"} /\ read = Start6
     \/ kind \in Kinds \cap {"Community"} /\ read = StartC
     \/ kind \in Kinds \cap {"Range"} /\ read = StartR

-------------------------------------------------------------------------------
\* Mutant: the greatest length is refused.
PlenOpen(r, c, max) ==
  CASE r.state = "slash" /\ c \in Digits -> [r EXCEPT !.state = "plen", !.plen = Value(c)]
    [] r.state = "plen" /\ c \in Digits /\ r.plen * 10 + Value(c) < max -> [r EXCEPT !.plen = @ * 10 + Value(c)]
    [] OTHER -> Refused

\* A length after the slash.
Plen(r, c, max) ==
  CASE r.state = "slash" /\ c \in Digits -> [r EXCEPT !.state = "plen", !.plen = Value(c)]
    [] r.state = "plen" /\ c \in Digits /\ r.plen * 10 + Value(c) <= max -> [r EXCEPT !.plen = @ * 10 + Value(c)]
    [] OTHER -> Refused

\* Mutant: the value goes on into the next octet.
IPv4Carried(r, c) ==
  CASE r.state \in {"init", "dot"} /\ c \in Digits -> [r EXCEPT !.state = "digit", !.octets = @ + 1]
    [] r.state = "digit" /\ c = "." /\ r.dots < 3 -> [r EXCEPT !.state = "dot", !.dots = @ + 1]
    [] r.state = "digit" /\ c = "/" /\ kind = "IPv4Prefix" -> [r EXCEPT !.state = "slash"]
    [] r.state = "digit" /\ c \in Digits /\ r.val * 10 + Value(c) <= MaxOctet -> [r EXCEPT !.val = @ * 10 + Value(c)]
    [] OTHER -> Plen(r, c, MaxLength4)

IPv4(r, c) ==
  CASE r.state \in {"init", "dot"} /\ c \in Digits ->
         [r EXCEPT !.state = "digit", !.octets = @ + 1, !.val = Value(c)]
    [] r.state = "digit" /\ c = "." /\ r.dots < 3 -> [r EXCEPT !.state = "dot", !.dots = @ + 1]
    [] r.state = "digit" /\ c = "/" /\ kind = "IPv4Prefix" -> [r EXCEPT !.state = "slash"]
    [] r.state = "digit" /\ c \in Digits /\ r.val * 10 + Value(c) <= MaxOctet ->
         [r EXCEPT !.val = @ * 10 + Value(c)]
    [] OTHER -> Plen(r, c, MaxLength4)

\* Where a character leads. An address takes a slash after a digit and forgets it.
IPv6Next(r, c) ==
  CASE r.state = "init" /\ c = ":" -> [r EXCEPT !.state = "colon1", !.firstColon = TRUE, !.colonCount = @ + 1]
    [] (r.state \in {"init", "xdigit"} \/ (r.state = "colon1" /\ ~r.firstColon)) /\ c \in Xdigits ->
         [r EXCEPT !.state = "xdigit", !.xdigits = @ + 1]
    [] r.state = "xdigit" /\ c = ":" ->
         [r EXCEPT !.state = "colon1", !.xdigits = 0, !.xdigitsCount = @ + 1, !.colonCount = @ + 1]
    [] r.state = "xdigit" /\ c = "/" ->
         IF kind = "IPv6Prefix" THEN [r EXCEPT !.state = "slash", !.xdigitsCount = @ + 1] ELSE r
    [] r.state = "colon1" /\ c = ":" -> [r EXCEPT !.state = "colon2", !.colonCount = @ + 1]
    [] r.state = "colon2" /\ c \in Xdigits -> [r EXCEPT !.state = "xdigit", !.xdigits = 1, !.doubleColon = TRUE]
    [] r.state = "colon2" /\ c = "/" ->
         [r EXCEPT !.state = IF kind = "IPv6Prefix" THEN "slash" ELSE @, !.doubleColon = TRUE]
    [] OTHER -> Plen(r, c, MaxLength6)

\* Mutant: a second double colon is not refused.
WithinOnce(r) == r.colonCount <= Groups - 1 /\ r.xdigits <= MaxXdigits /\ r.xdigitsCount <= Groups
\* Mutant: the digits of all groups count.
WithinAll(r)  == r.colonCount <= Groups - 1 /\ r.xdigits + r.xdigitsCount <= MaxXdigits
Within(r)     ==
  /\ r.colonCount <= Groups - 1 /\ r.xdigits <= MaxXdigits /\ r.xdigitsCount <= Groups
  /\ ~(r.doubleColon /\ r.state = "colon2")

\* Mutant: the limits are looked at before the character is counted.
IPv6Late(r, c) == IF Within(r) THEN IPv6Next(r, c) ELSE Refused

IPv6(r, c) ==
  LET n == IPv6Next(r, c) IN IF n # Refused /\ Within(n) THEN n ELSE Refused

\* Mutant: the number after the colon goes on from the one before.
CommunityOn(r, c) ==
  CASE r.state \in {"init", "aa"} /\ c \in Digits /\ r.part * 10 + Value(c) <= MaxPart ->
         [state |-> "aa", part |-> r.part * 10 + Value(c)]
    [] r.state = "aa" /\ c = ":" -> [r EXCEPT !.state = "colon"]
    [] r.state \in {"colon", "nn"} /\ c \in Digits /\ r.part * 10 + Value(c) <= MaxPart ->
         [state |-> "nn", part |-> r.part * 10 + Value(c)]
    [] OTHER -> Refused

\* The first digit of a number is taken as it is.
Community(r, c) ==
  CASE r.state \in {"init", "colon"} /\ c \in Digits ->
         [state |-> IF r.state = "init" THEN "aa" ELSE "nn", part |-> Value(c)]
    [] r.state = "aa" /\ c = ":" -> [r EXCEPT !.state = "colon"]
    [] r.state \in {"aa", "nn"} /\ c \in Digits /\ r.part * 10 + Value(c) <= MaxPart ->
         [r EXCEPT !.part = @ * 10 + Value(c)]
    [] OTHER -> Refused

\* strtoull: what does not fit is the greatest value.
ReadRange(r, c) ==
  CASE r.state = "init" /\ c \in {"-", "+"} -> [r EXCEPT !.state = "sign", !.negative = (c = "-")]
    [] c \in Digits -> LET val == r.val * 10 + Value(c)
                       IN  [r EXCEPT !.state = "digit", !.val = IF val < ULLong THEN val ELSE ULLong]
    [] OTHER -> Refused

Matcher(r, c) ==
  CASE r = Refused -> r
    [] r # Refused /\ kind \in {"IPv4Address", "IPv4Prefix"} -> IPv4(r, c)
    [] r # Refused /\ kind \in {"IPv6Address", "IPv6Prefix"} -> IPv6(r, c)
    [] r # Refused /\ kind = "Community" -> Community(r, c)
    [] r # Refused /\ kind = "Range" -> ReadRange(r, c)

\* Parts of a word, between separators.
At(w, sep)      == {i \in DOMAIN w : w[i] = sep}
Part(w, sep, i) == LET ends == {j \in At(w, sep) \cup {Len(w) + 1} : j > i}
                   IN  SubSeq(w, i + 1, (CHOOSE j \in ends : \A k \in ends : j <= k) - 1)
LastAt(w, sep)  == CHOOSE i \in At(w, sep) \cup {0} : \A j \in At(w, sep) : j <= i

Doubles(w)  == {i \in DOMAIN w : i < Len(w) /\ w[i] = ":" /\ w[i + 1] = ":"}
GroupsOf(w) == {i \in At(w, ":") \cup {0} : Part(w, ":", i) # <<>>}

\* The words that are typed: what has been refused goes on only where the whole may
\* yet be what the token names.
GoesOn ==
  \/ read # Refused \/ kind \in {"Community", "Range"}
  \/ /\ kind \in {"IPv6Address", "IPv6Prefix"}
     /\ Cardinality(At(word, ":")) <= Groups /\ Cardinality(Doubles(word)) <= 1
     /\ Cardinality(At(word, "/")) <= 1
     /\ \A i \in GroupsOf(word) : At(word, "/") = {} => Len(Part(word, ":", i)) <= MaxXdigits

Read(c) ==
  /\ Len(word) < MaxWord[kind] /\ GoesOn
  /\ word' = Append(word, c)
  /\ read' = Matcher(read, c)
  /\ UNCHANGED kind

Next == \E c \in Chars[kind] : Read(c)

Spec == Init /\ [][Next]_vars

-------------------------------------------------------------------------------
\* A minus takes the value from 2^64. The empty word is 0.
Strtoull(r) == IF r.val = ULLong THEN ULLong - 1 ELSE IF r.negative THEN (ULLong - r.val) % ULLong ELSE r.val

\* Mutant: the limits do not belong to the range.
InRangeOpen(r) == r.state # "sign" /\ Strtoull(r) > RangeMin /\ Strtoull(r) < RangeMax
InRange(r)     == r.state # "sign" /\ Strtoull(r) >= RangeMin /\ Strtoull(r) <= RangeMax

\* The answer at the end of the word.
Complete ==
  CASE kind = "IPv4Address" -> read.octets = 4
    [] kind \in {"IPv4Prefix", "IPv6Prefix"} -> read.state = "plen"
    [] kind = "IPv6Address" -> read.state = "xdigit"
    [] kind = "Community" -> read.state = "nn"
    [] kind = "Range" -> InRange(read)

Full       == read # Refused /\ Complete
Incomplete == read # Refused /\ ~Complete /\ kind # "Range"

-------------------------------------------------------------------------------
(***************************************************************************)
(* What the words are, read off the whole word.                             *)
(***************************************************************************)
\* As far as ULLong, which no limit reaches.
Number(w) ==
  LET number[i \in 0..Len(w)] ==
        IF i = 0 THEN 0
        ELSE LET n == number[i - 1] * 10 + Value(w[i]) IN IF n < ULLong THEN n ELSE ULLong
  IN  number[Len(w)]

IsNumber(w) == w # <<>> /\ ToSet(w) \subseteq Digits

IsOctet(w) == IsNumber(w) /\ Number(w) <= MaxOctet

IsIPv4(w)     == Cardinality(At(w, ".")) = 3 /\ \A i \in At(w, ".") \cup {0} : IsOctet(Part(w, ".", i))
BeginsIPv4(w) ==
  /\ Cardinality(At(w, ".")) <= 3
  /\ \A i \in At(w, ".") \cup {0} :
       IsOctet(Part(w, ".", i)) \/ (i = LastAt(w, ".") /\ Part(w, ".", i) = <<>>)

Slash      == LastAt(word, "/")
Before     == SubSeq(word, 1, Slash - 1)
After      == SubSeq(word, Slash + 1, Len(word))
IsLength(max) == IsNumber(After) /\ Number(After) <= max

IsIPv6(w) ==
  /\ \A i \in GroupsOf(w) : LET g == Part(w, ":", i) IN ToSet(g) \subseteq Xdigits /\ Len(g) <= MaxXdigits
  /\ \/ Doubles(w) = {} /\ GroupsOf(w) = At(w, ":") \cup {0} /\ Cardinality(GroupsOf(w)) = Groups
     \/ /\ Cardinality(Doubles(w)) = 1 /\ Cardinality(GroupsOf(w)) < Groups
        /\ w[1] = ":" => 1 \in Doubles(w)
        /\ Last(w) = ":" => Len(w) - 1 \in Doubles(w)

\* What the matcher of addresses does not take: a double colon at the end, or with
\* the full number of groups around it, or at the beginning before two groups.
Untaken(w) ==
  \/ Last(w) = ":" \/ Cardinality(At(w, ":")) = Groups
  \/ (w[1] = ":" /\ Cardinality(GroupsOf(w)) > 1)

-------------------------------------------------------------------------------
\* A word is an address, the beginning of one or refused, as its whole says. Every
\* A.B.C.D/M is taken, and while it is typed it is not refused.
IPv4Exact ==
  /\ kind = "IPv4Address" => (Full <=> IsIPv4(word)) /\ (read = Refused <=> ~BeginsIPv4(word))
  /\ kind = "IPv4Prefix" =>
       /\ (Slash > 0 /\ IsIPv4(Before) /\ IsLength(MaxLength4)) => Full
       /\ (BeginsIPv4(word) \/ (Slash = Len(word) /\ Slash > 0 /\ IsIPv4(Before))) => Incomplete

\* AA:NN, both within 16 bits.
CommunityExact ==
  kind = "Community" =>
    (Full <=> LET i == LastAt(word, ":")
                  Fits(w) == IsNumber(w) /\ Number(w) <= MaxPart
              IN  i > 0 /\ Fits(SubSeq(word, 1, i - 1)) /\ Fits(SubSeq(word, i + 1, Len(word))))

\* A number without a sign is in the range or it is not, however long it is, and
\* the empty word, which match_shorter tries last, counts as 0.
RangeExact ==
  (kind = "Range" /\ (word = <<>> \/ IsNumber(word))) => (Full <=> Number(word) \in RangeMin..RangeMax)

\* What the matcher of IPv6 addresses does not refuse can become an address.
IPv6AddressSound ==
  (kind = "IPv6Address" /\ read # Refused /\ At(word, "/") = {}) =>
    \E x \in Xdigits : \E tail \in {<<>>, <<x>>, <<":">>, <<":", ":">>} : IsIPv6(word \o tail)

\* It takes the addresses but those of Untaken, and the matcher of prefixes takes
\* an address of those and a length.
IPv6Taken ==
  /\ (kind = "IPv6Address" /\ word # <<>> /\ IsIPv6(word) /\ ~Untaken(word)) => Full
  /\ (kind = "IPv6Prefix" /\ Slash > 1 /\ IsIPv6(Before) /\ ~Untaken(Before) /\ IsLength(MaxLength6)) => Full
===============================================================================
