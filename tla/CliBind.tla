-------------------------------- MODULE CliBind --------------------------------
(***************************************************************************)
(* The parameter binding of a command (handle_actions, CliUtils), token by  *)
(* token, and what the conversions make of the words. When the bindings of a *)
(* command that has stored a row are done, the row can come back as a       *)
(* candidate for completion, and be typed again.                            *)
(*                                                                          *)
(* An address has Octets numbers below Base, Width bits in all, in place of *)
(* four below 256. A value is a text: the numbers of an address, a length   *)
(* after a slash, or a plain text. A number keeps its leading zeros.        *)
(***************************************************************************)
EXTENDS Integers, Sequences, FiniteSets, SequencesExt

CONSTANTS
  Octets, Bits, \* numbers of an address, bits of each
  Digits,       \* digits that area_id_str has room for
  Typed(_),     \* for each list of bindings, what handle_actions may find in input before it binds
  Binds,        \* the bindings of the commands: cond, left, right, and on the
                \* right terms: a functor and its arguments, or no functor and a word
  Listed, Field \* the commands whose rows completion reads, and the field of that

Base  == 2^Bits
Width == Octets * Bits

Words   == STRING \ {"", "(", ")", ","}
Cond    == [kind : {"always", "present", "absent"}, key : STRING]
Term    == [fn : {""}, args : [1..1 -> Words]] \cup [fn : Words, args : Seq(Words)]
Binding == [cond : Cond, left : Seq(Words) \ {<<>>}, right : Seq(Term) \ {<<>>}]

ASSUME BindAssumption ==
  /\ Octets \in Nat \ {0} /\ Bits \in Nat \ {0} /\ Digits \in Nat \ {0}
  /\ Listed \subseteq Binds
  /\ Binds \subseteq Seq(Binding)

\* The x-th term of the a-th binding calls for a name that nothing says is there.
CallsFor(b, a, x, k) ==
  /\ b[a].right[x].fn # "" /\ k # "NULL" /\ k \in ToSet(b[a].right[x].args)
  /\ b[a].cond # [kind |-> "present", key |-> k]

\* input[token] makes an entry of such a name. No condition and no word of the
\* definitions looks at one after that.
ASSUME AbsentAssumption ==
  \A b \in Binds : \A a \in 1..Len(b) : \A x \in 1..Len(b[a].right) : \A k \in ToSet(b[a].right[x].args) :
    CallsFor(b, a, x, k) => \A c \in a..Len(b) :
      /\ c > a => b[c].cond.kind = "always" \/ b[c].cond.key # k
      /\ \A y \in 1..Len(b[c].right) : (c > a \/ y > x) => b[c].right[y] # [fn |-> "", args |-> <<k>>]

VARIABLES
  typed, binds, \* what the line gives, and the command's bindings: fixed
  cleared,      \* what a shift by the whole width clears: "all" or "none"
  round,        \* 1: the line; 2: the candidate for what the line stored
  phase,        \* "cond", "expand", "assign", "field" or "done"
  todo,         \* the bindings that are left
  input,        \* ParamsMap
  right, left,  \* what is left of the statement
  func, inParams, tmp, params, values, \* the locals of expand
  stored        \* ADDRESS and MASKLEN of the request that stored the row

locals == <<func, inParams, tmp, params, values>>
fixed  == <<typed, binds, cleared>>
vars   == <<fixed, round, phase, todo, input, right, left, locals, stored>>

-------------------------------------------------------------------------------
Empty     == [text |-> "", parts |-> <<>>, len |-> <<>>]
Text(s)   == [Empty EXCEPT !.text = s]
Addr(p)   == [Empty EXCEPT !.parts = p]
Plain(n)  == [zeros |-> 0, value |-> n]
Dotted(n) == Addr([i \in 1..Octets |-> Plain((n \div Base^(Octets - i)) % Base)])

\* inet_aton: a leading zero makes a number octal, the last number has all the
\* bits that are left.
Octal(n) ==
  LET octal[m \in 0..n.value] == IF m = 0 THEN 0 ELSE 8 * octal[m \div 10] + (m % 10)
  IN  octal[n.value]
Read(n)  == IF n.zeros = 0 THEN n.value ELSE Octal(n)
Bad(n)   == n.zeros > 0 /\ \E k \in 0..(Width - 1) : (n.value \div 10^k) % 10 > 7
IsAddr(a) == a.parts # <<>> /\ a.len = <<>> /\ \A i \in 1..Len(a.parts) : ~Bad(a.parts[i])
Number(a) ==
  FoldLeft(LAMBDA n, i : n + Read(a.parts[i]) * (IF i = Len(a.parts) THEN 1 ELSE Base^(Octets - i)),
           0, [i \in 1..Len(a.parts) |-> i])

\* A text that inet_aton does not take leaves the address unset; the result is
\* compared with INADDR_NONE, which it never returns.
Aton(a) == IF IsAddr(a) THEN {Number(a)} ELSE 0..(2^Width - 1)

Atoi(v) == IF v.parts = <<>> THEN 0 ELSE v.parts[1].value

\* masklen2mask, and what it leaves of an address. A shift of a word by its width
\* is undefined: it shifts by nothing, or everything out (c). Mutant: one bit less.
MaskedLess(c, n, len) == IF len \in 1..Width THEN n - (n % 2^(Width - len + 1)) ELSE n
Masked(c, n, len) ==
  IF len \in 1..Width THEN n - (n % 2^(Width - len)) ELSE IF c = "all" THEN 0 ELSE n

\* snprintf cuts the number after Digits digits. Mutant: one earlier.
Length(n) == n.zeros + (CHOOSE d \in 1..Width : 10^d > n.value /\ (d = 1 \/ 10^(d - 1) <= n.value))
CutTo(n, d) ==
  IF Length(n) <= d THEN n
  ELSE IF n.zeros < d THEN [n EXCEPT !.value = @ \div 10^(Length(n) - d)]
  ELSE [zeros |-> d - 1, value |-> 0]
PrintedShort(v) == [v EXCEPT !.parts = [i \in 1..Len(v.parts) |-> CutTo(v.parts[i], Digits - 1)]]
Printed(v)      == [v EXCEPT !.parts = [i \in 1..Len(v.parts) |-> CutTo(v.parts[i], Digits)]]

-------------------------------------------------------------------------------
(***************************************************************************)
(* The functors: what each may return                                       *)
(***************************************************************************)
AreaIdAndFormat(addr, num) ==
  IF addr # Empty
  THEN {<<Printed(Addr(<<Plain(n)>>)), Text("ipv4")>> : n \in Aton(addr)}
  ELSE {<<Printed(num), Text("integer")>>}

\* Without a slash both are the whole text.
Split(v) == IF v.len = <<>> THEN {<<v, v>>} ELSE {<<[v EXCEPT !.len = <<>>], Addr(v.len)>>}

\* Mutant: the other way round.
JoinSwapped(a, m) == {<<[m EXCEPT !.len = a.parts]>>}
Join(a, m)        == {<<[a EXCEPT !.len = m.parts]>>}

ApplyMask(c, a, m) == {<<Dotted(Masked(c, n, Atoi(m)))>> : n \in Aton(a)}

\* A name that is no functor's gives nothing.
Call(c, f, p) ==
  CASE f = "area_id_and_format"        -> AreaIdAndFormat(p[1], p[2])
    [] f = "ipv4prefix2address_masklen" -> Split(p[1])
    [] f = "address_masklen2ipv4prefix" -> Join(p[1], p[2])
    [] f = "apply_mask_ipv4"            -> ApplyMask(c, p[1], p[2])
    [] OTHER -> {<<>>}

-------------------------------------------------------------------------------
(***************************************************************************)
(* handle_actions and bind_interpreter                                      *)
(***************************************************************************)
Get(in, k)    == IF k \in DOMAIN in THEN in[k] ELSE Empty
Put(in, k, v) == [x \in DOMAIN in \cup {k} |-> IF x = k THEN v ELSE in[x]]

\* The text of the right side, as get_bind_token cuts it up.
Listing(words) ==
  LET from[n \in 0..Len(words)] ==
        IF n = 0 THEN <<>>
        ELSE words[Len(words) - n + 1] \o (IF n = 1 THEN <<>> ELSE <<",">> \o from[n - 1])
  IN  from[Len(words)]
Written(t) ==
  IF t.fn = "" THEN t.args
  ELSE <<t.fn, "(">> \o Listing([i \in 1..Len(t.args) |-> <<t.args[i]>>]) \o <<")">>
Tokens(terms) == Listing([i \in 1..Len(terms) |-> Written(terms[i])])

Fresh == func' = "" /\ inParams' = FALSE /\ tmp' = "" /\ params' = <<>> /\ values' = <<>>

Init ==
  /\ binds \in Binds /\ typed \in Typed(binds) /\ cleared \in {"all", "none"}
  /\ round = 1 /\ phase = "cond" /\ todo = binds /\ input = typed /\ right = <<>> /\ left = <<>>
  /\ func = "" /\ inParams = FALSE /\ tmp = "" /\ params = <<>> /\ values = <<>>
  /\ stored = <<>>

Holds(cond, in) ==
  CASE cond.kind = "always"  -> TRUE
    [] cond.kind = "present" -> cond.key \in DOMAIN in
    [] cond.kind = "absent"  -> cond.key \notin DOMAIN in

Take ==
  /\ phase = "cond" /\ todo # <<>>
  /\ todo' = Tail(todo)
  /\ IF Holds(Head(todo).cond, input)
     THEN phase' = "expand" /\ right' = Tokens(Head(todo).right) /\ left' = Head(todo).left
     ELSE UNCHANGED <<phase, right, left>>
  /\ Fresh /\ UNCHANGED <<fixed, round, input, stored>>

\* expand, one token of get_bind_token.
Open ==
  /\ phase \in {"expand", "field"} /\ right # <<>> /\ Head(right) = "("
  /\ right' = Tail(right) /\ inParams' = TRUE /\ func' = tmp /\ tmp' = ""
  /\ UNCHANGED <<fixed, round, phase, todo, input, left, params, values, stored>>

\* Mutant: tmp_token is kept.
CloseKeeping ==
  /\ phase \in {"expand", "field"} /\ right # <<>> /\ Head(right) = ")"
  /\ right' = Tail(right) /\ inParams' = FALSE /\ params' = <<>>
  /\ \E out \in Call(cleared, func, params) : values' = values \o out
  /\ tmp' = func
  /\ UNCHANGED <<fixed, round, phase, todo, input, left, func, stored>>
Close ==
  /\ phase \in {"expand", "field"} /\ right # <<>> /\ Head(right) = ")"
  /\ right' = Tail(right) /\ inParams' = FALSE /\ params' = <<>> /\ tmp' = ""
  /\ \E out \in Call(cleared, func, params) : values' = values \o out
  /\ UNCHANGED <<fixed, round, phase, todo, input, left, func, stored>>

\* The value of a word that is no parameter: the key's, or the word itself.
Pushed(word) == IF word = "" THEN <<>> ELSE <<IF word \in DOMAIN input THEN input[word] ELSE Text(word)>>

Comma ==
  /\ phase \in {"expand", "field"} /\ right # <<>> /\ Head(right) = ","
  /\ right' = Tail(right) /\ values' = IF inParams THEN values ELSE values \o Pushed(tmp)
  /\ UNCHANGED <<fixed, round, phase, todo, input, left, func, inParams, tmp, params, stored>>

\* input[token] makes an entry of a key that is not there.
Word ==
  /\ phase \in {"expand", "field"} /\ right # <<>> /\ Head(right) \notin {"(", ")", ","}
  /\ right' = Tail(right)
  /\ LET t == Head(right)
     IN  IF inParams
         THEN /\ params' = Append(params, IF t = "NULL" THEN Empty ELSE Get(input, t))
              /\ input' = IF t = "NULL" THEN input ELSE Put(input, t, Get(input, t))
              /\ UNCHANGED tmp
         ELSE tmp' = t /\ UNCHANGED <<params, input>>
  /\ UNCHANGED <<fixed, round, phase, todo, left, func, inParams, values, stored>>

EndOfStatement ==
  /\ phase = "expand" /\ right = <<>>
  /\ phase' = "assign" /\ values' = values \o Pushed(tmp)
  /\ UNCHANGED <<fixed, round, todo, input, right, left, func, inParams, tmp, params, stored>>

\* One name on the left; with no value left the rest of the names stay unbound.
Assign ==
  /\ phase = "assign"
  /\ IF left = <<>> \/ values = <<>>
     THEN phase' = "cond" /\ UNCHANGED <<input, left, values>>
     ELSE /\ input' = Put(input, Head(left), Head(values))
          /\ left' = Tail(left) /\ values' = Tail(values) /\ UNCHANGED phase
  /\ UNCHANGED <<fixed, round, todo, right, func, inParams, tmp, params, stored>>

Done ==
  /\ phase = "cond" /\ todo = <<>>
  /\ phase' = "done"
  /\ UNCHANGED <<fixed, round, todo, input, right, left, locals, stored>>

\* The row is stored, its length as a number, and completion reads it:
\* candidates_by_field.
AskBack ==
  /\ phase = "done" /\ round = 1 /\ binds \in Listed
  /\ LET row == [address |-> input["ADDRESS"], masklen |-> Addr(<<Plain(Atoi(input["MASKLEN"]))>>)]
     IN  stored' = <<row.address, row.masklen>> /\ input' = row
  /\ phase' = "field" /\ round' = 2 /\ right' = Tokens(Field)
  /\ Fresh /\ UNCHANGED <<fixed, todo, left>>

\* The candidate is typed for the word the line had.
TypeCandidate ==
  /\ phase = "field" /\ right = <<>>
  /\ phase' = "cond" /\ todo' = binds
  /\ input' = [typed EXCEPT !["PREFIX"] = (values \o Pushed(tmp))[1]]
  /\ UNCHANGED <<fixed, round, right, left, locals, stored>>

Next == Take \/ Open \/ Close \/ Comma \/ Word \/ EndOfStatement \/ Assign \/ Done \/ AskBack \/ TypeCandidate

Spec == Init /\ [][Next]_vars
-------------------------------------------------------------------------------
(***************************************************************************)
(* What a list of bindings says, statement by statement                     *)
(***************************************************************************)
Eval(c, t, in) ==
  IF t.fn = "" THEN {<<IF t.args[1] \in DOMAIN in THEN in[t.args[1]] ELSE Text(t.args[1])>>}
  ELSE Call(c, t.fn, [i \in 1..Len(t.args) |-> IF t.args[i] = "NULL" THEN Empty ELSE Get(in, t.args[i])])

EvalAll(c, terms, in) ==
  LET outs[n \in 0..Len(terms)] ==
        IF n = 0 THEN {<<>>} ELSE {o \o e : o \in outs[n - 1], e \in Eval(c, terms[n], in)}
  IN  outs[Len(terms)]

Bound(names, vals, in) ==
  LET last == IF Len(names) < Len(vals) THEN Len(names) ELSE Len(vals)
      put[n \in 0..last] == IF n = 0 THEN in ELSE Put(put[n - 1], names[n], vals[n])
  IN  put[last]

After(c, b, in) == IF Holds(b.cond, in) THEN {Bound(b.left, v, in) : v \in EvalAll(c, b.right, in)} ELSE {in}

Meaning(c, list, line) ==
  LET means[n \in 0..Len(list)] ==
        IF n = 0 THEN {line} ELSE UNION {After(c, list[n], in) : in \in means[n - 1]}
  IN  means[Len(list)]

\* What the interpreter leaves in the parameters, token by token and with its
\* locals carried along, is what the bindings say one after the other. Names of
\* arguments that are not there come in with an empty value, no others.
BoundAsWritten ==
  (phase = "done" /\ round = 1) => \E in \in Meaning(cleared, binds, typed) :
    /\ \A k \in DOMAIN in : k \in DOMAIN input /\ input[k] = in[k]
    /\ \A k \in DOMAIN input \ DOMAIN in : input[k] = Empty

Canonical(v) == Len(v.parts) = Octets /\ \A i \in 1..Octets : v.parts[i].zeros = 0
Masks == \E i \in 1..Len(binds) : \E j \in 1..Len(binds[i].right) : binds[i].right[j].fn = "apply_mask_ipv4"

\* The addresses of a prefix, and the first of them.
InPrefix(v)  == {n \in 0..(2^Width - 1) :
                   n \div 2^(Width - v.len[1].value) = Number(Addr(v.parts)) \div 2^(Width - v.len[1].value)}
FirstOf(set) == CHOOSE n \in set : \A m \in set : n <= m

\* A request for a network names the first address of the prefix that was typed,
\* and its length: two ways to write one network name one row. Addresses that are
\* shortened or have leading zeros, which the token takes, are left out, and the
\* length 0.
NetworkBound ==
  (phase = "done" /\ Masks /\ Canonical(input["PREFIX"]) /\ input["PREFIX"].len[1].value > 0) =>
    /\ input["ADDRESS"] = Dotted(FirstOf(InPrefix(input["PREFIX"])))
    /\ Atoi(input["MASKLEN"]) = input["PREFIX"].len[1].value

\* An area is requested by its number, whichever way it was typed, if without
\* leading zeros.
AreaBound ==
  (phase = "done" /\ "AREA-ID-NUM" \in DOMAIN input) =>
    /\ ("NUM" \in DOMAIN typed /\ typed["NUM"].parts[1].zeros = 0) =>
         input["AREA-ID-NUM"] = typed["NUM"] /\ input["AREA-ID-FORMAT"] = Text("integer")
    /\ ("ADDR" \in DOMAIN typed /\ Canonical(typed["ADDR"])) =>
         Atoi(input["AREA-ID-NUM"]) = Number(typed["ADDR"]) /\ input["AREA-ID-FORMAT"] = Text("ipv4")

\* A row that TAB offers after no network is the row that the request names when
\* the offer is taken, whatever was typed to make it.
RoundTrip ==
  (phase = "done" /\ round = 2) =>
    input["ADDRESS"] = stored[1] /\ Atoi(input["MASKLEN"]) = Atoi(stored[2])
===============================================================================
