----------------------------- MODULE CliBindProofs -----------------------------
(***************************************************************************)
(* For every list of bindings and whatever the line gives: the interpreter,  *)
(* which reads a statement token by token with its locals carried along,     *)
(* leaves in the parameters what the statements mean one after the other.    *)
(*                                                                          *)
(* The meaning is defined by recursive functions over the terms of a         *)
(* statement, its names and the list of bindings, the text by one over its   *)
(* words. For each of them there is a lemma that it exists and one that      *)
(* unfolds it once; nothing is computed.                                     *)
(***************************************************************************)
EXTENDS CliBind, TLAPS, SequenceTheorems, WellFoundedInduction

LEMMA Least ==
  ASSUME NEW T, T \subseteq Nat, T # {}
  PROVE  \E m \in T : \A k \in T : m <= k
<1> DEFINE R == OpToRel(<, Nat)
<1>1. IsWellFoundedOn(R, Nat)
  BY NatLessThanWellFounded
<1>2. \A k, m \in T : k < m => <<k, m>> \in R
  BY DEF OpToRel
<1> HIDE DEF R
<1>3. PICK m \in T : \A k \in T : ~(<<k, m>> \in R)
  BY <1>1, WFMin
<1>4. \A k \in T : k \in Nat /\ (k < m \/ m <= k)
  OBVIOUS
<1>5. QED
  BY <1>2, <1>3, <1>4

-------------------------------------------------------------------------------
(***************************************************************************)
(* The recursive functions                                                  *)
(***************************************************************************)
\* The text of the last words of a list.
OneMore(words, i, text) == words[Len(words) - i + 1] \o (IF i = 1 THEN <<>> ELSE <<",">> \o text)
Lists(f, words, n)      == f = [i \in 0..n |-> IF i = 0 THEN <<>> ELSE OneMore(words, i, f[i - 1])]
Lister(words, n)        == CHOOSE f : Lists(f, words, n)

LEMMA ListingIs ==
  ASSUME NEW words
  PROVE  Listing(words) = Lister(words, Len(words))[Len(words)]
BY DEF Listing, Lister, Lists, OneMore

\* The text of a list of any length exists.
LEMMA ListerExists ==
  ASSUME NEW words, NEW n \in Nat
  PROVE  Lists(Lister(words, n), words, n)
<1> DEFINE Exists(m) == \E f : Lists(f, words, m)
           T == {m \in Nat : ~Exists(m)}
<1>1. Exists(0)
  <2>1. Lists([i \in 0..0 |-> <<>>], words, 0)
    BY DEF Lists
  <2> QED BY <2>1
<1>2. ASSUME NEW m \in Nat, Exists(m)
      PROVE  Exists(m + 1)
  <2>1. PICK f : Lists(f, words, m)
    BY <1>2
  <2> DEFINE g == [i \in 0..(m + 1) |-> IF i = m + 1 THEN OneMore(words, m + 1, f[m]) ELSE f[i]]
  <2>2. \A i \in 0..(m + 1) : g[i] = IF i = 0 THEN <<>> ELSE OneMore(words, i, g[i - 1])
    <3> SUFFICES ASSUME NEW i \in 0..(m + 1)
                 PROVE  g[i] = IF i = 0 THEN <<>> ELSE OneMore(words, i, g[i - 1])
      OBVIOUS
    <3>1. CASE i = m + 1
      <4>1. g[i] = OneMore(words, m + 1, f[m]) /\ g[m] = f[m]
        BY <3>1
      <4>2. i - 1 = m /\ i # 0
        BY <3>1
      <4> QED BY <4>1, <4>2, <3>1
    <3>2. CASE i # m + 1
      <4>1. g[i] = f[i] /\ i \in 0..m
        BY <3>2
      <4>2. i # 0 => g[i - 1] = f[i - 1]
        BY <3>2
      <4> QED BY <2>1, <4>1, <4>2 DEF Lists
    <3> QED BY <3>1, <3>2
  <2>3. g = [i \in 0..(m + 1) |-> g[i]]
    OBVIOUS
  <2> HIDE DEF g
  <2>4. Lists(g, words, m + 1)
    BY <2>2, <2>3 DEF Lists
  <2> QED BY <2>4
<1>3. T = {}
  <2> SUFFICES ASSUME T # {} PROVE FALSE
    OBVIOUS
  <2>1. T \subseteq Nat
    OBVIOUS
  <2>2. PICK m \in T : \A k \in T : m <= k
    BY <2>1, Least
  <2>3. m \in Nat /\ m # 0
    BY <1>1
  <2>4. m - 1 \in Nat /\ m - 1 \notin T
    BY <2>2, <2>3
  <2>5. Exists(m - 1 + 1)
    BY <1>2, <2>4
  <2> QED BY <2>3, <2>5
<1> QED BY <1>3 DEF Lister

\* One more word.
LEMMA ListerStep ==
  ASSUME NEW words, NEW n \in Nat
  PROVE  /\ Lister(words, n)[0] = <<>>
         /\ \A i \in 1..n : Lister(words, n)[i] = OneMore(words, i, Lister(words, n)[i - 1])
<1> DEFINE f == Lister(words, n)
<1>1. f = [i \in 0..n |-> IF i = 0 THEN <<>> ELSE OneMore(words, i, f[i - 1])]
  BY ListerExists DEF Lists
<1> HIDE DEF f
<1>2. f[0] = <<>>
  BY <1>1
<1>3. ASSUME NEW i \in 1..n PROVE f[i] = OneMore(words, i, f[i - 1])
  <2>1. i \in 0..n /\ i # 0
    OBVIOUS
  <2> QED BY <1>1, <2>1
<1> QED BY <1>2, <1>3 DEF f

\* The values of the first terms of a statement.
OneTerm(c, terms, in, i, outs) == {o \o e : o \in outs, e \in Eval(c, terms[i], in)}
Evals(f, c, terms, in, n)      == f = [i \in 0..n |-> IF i = 0 THEN {<<>>} ELSE OneTerm(c, terms, in, i, f[i - 1])]
Evaluator(c, terms, in, n)     == CHOOSE f : Evals(f, c, terms, in, n)

LEMMA EvalAllIs ==
  ASSUME NEW c, NEW terms, NEW in
  PROVE  EvalAll(c, terms, in) = Evaluator(c, terms, in, Len(terms))[Len(terms)]
BY DEF EvalAll, Evaluator, Evals, OneTerm

\* The values of any number of terms exist.
LEMMA EvaluatorExists ==
  ASSUME NEW c, NEW terms, NEW in, NEW n \in Nat
  PROVE  Evals(Evaluator(c, terms, in, n), c, terms, in, n)
<1> DEFINE Exists(m) == \E f : Evals(f, c, terms, in, m)
           T == {m \in Nat : ~Exists(m)}
<1>1. Exists(0)
  <2>1. Evals([i \in 0..0 |-> {<<>>}], c, terms, in, 0)
    BY DEF Evals
  <2> QED BY <2>1
<1>2. ASSUME NEW m \in Nat, Exists(m)
      PROVE  Exists(m + 1)
  <2>1. PICK f : Evals(f, c, terms, in, m)
    BY <1>2
  <2> DEFINE g == [i \in 0..(m + 1) |-> IF i = m + 1 THEN OneTerm(c, terms, in, m + 1, f[m]) ELSE f[i]]
  <2>2. \A i \in 0..(m + 1) : g[i] = IF i = 0 THEN {<<>>} ELSE OneTerm(c, terms, in, i, g[i - 1])
    <3> SUFFICES ASSUME NEW i \in 0..(m + 1)
                 PROVE  g[i] = IF i = 0 THEN {<<>>} ELSE OneTerm(c, terms, in, i, g[i - 1])
      OBVIOUS
    <3>1. CASE i = m + 1
      <4>1. g[i] = OneTerm(c, terms, in, m + 1, f[m]) /\ g[m] = f[m]
        BY <3>1
      <4>2. i - 1 = m /\ i # 0
        BY <3>1
      <4> QED BY <4>1, <4>2, <3>1
    <3>2. CASE i # m + 1
      <4>1. g[i] = f[i] /\ i \in 0..m
        BY <3>2
      <4>2. i # 0 => g[i - 1] = f[i - 1]
        BY <3>2
      <4> QED BY <2>1, <4>1, <4>2 DEF Evals
    <3> QED BY <3>1, <3>2
  <2>3. g = [i \in 0..(m + 1) |-> g[i]]
    OBVIOUS
  <2> HIDE DEF g
  <2>4. Evals(g, c, terms, in, m + 1)
    BY <2>2, <2>3 DEF Evals
  <2> QED BY <2>4
<1>3. T = {}
  <2> SUFFICES ASSUME T # {} PROVE FALSE
    OBVIOUS
  <2>1. T \subseteq Nat
    OBVIOUS
  <2>2. PICK m \in T : \A k \in T : m <= k
    BY <2>1, Least
  <2>3. m \in Nat /\ m # 0
    BY <1>1
  <2>4. m - 1 \in Nat /\ m - 1 \notin T
    BY <2>2, <2>3
  <2>5. Exists(m - 1 + 1)
    BY <1>2, <2>4
  <2> QED BY <2>3, <2>5
<1> QED BY <1>3 DEF Evaluator

\* One more term.
LEMMA EvaluatorStep ==
  ASSUME NEW c, NEW terms, NEW in, NEW n \in Nat
  PROVE  /\ Evaluator(c, terms, in, n)[0] = {<<>>}
         /\ \A i \in 1..n : Evaluator(c, terms, in, n)[i] = OneTerm(c, terms, in, i, Evaluator(c, terms, in, n)[i - 1])
<1> DEFINE f == Evaluator(c, terms, in, n)
<1>1. f = [i \in 0..n |-> IF i = 0 THEN {<<>>} ELSE OneTerm(c, terms, in, i, f[i - 1])]
  BY EvaluatorExists DEF Evals
<1> HIDE DEF f
<1>2. f[0] = {<<>>}
  BY <1>1
<1>3. ASSUME NEW i \in 1..n PROVE f[i] = OneTerm(c, terms, in, i, f[i - 1])
  <2>1. i \in 0..n /\ i # 0
    OBVIOUS
  <2> QED BY <1>1, <2>1
<1> QED BY <1>2, <1>3 DEF f

\* The parameters after the first names of a statement.
Puts(f, names, vals, in, n) == f = [i \in 0..n |-> IF i = 0 THEN in ELSE Put(f[i - 1], names[i], vals[i])]
Putter(names, vals, in, n)  == CHOOSE f : Puts(f, names, vals, in, n)
Fewer(m, n)                 == IF m < n THEN m ELSE n

LEMMA BoundIs ==
  ASSUME NEW names, NEW vals, NEW in
  PROVE  Bound(names, vals, in) =
           Putter(names, vals, in, Fewer(Len(names), Len(vals)))[Fewer(Len(names), Len(vals))]
BY DEF Bound, Putter, Puts, Fewer

\* The parameters after any number of names exist.
LEMMA PutterExists ==
  ASSUME NEW names, NEW vals, NEW in, NEW n \in Nat
  PROVE  Puts(Putter(names, vals, in, n), names, vals, in, n)
<1> DEFINE Exists(m) == \E f : Puts(f, names, vals, in, m)
           T == {m \in Nat : ~Exists(m)}
<1>1. Exists(0)
  <2>1. Puts([i \in 0..0 |-> in], names, vals, in, 0)
    BY DEF Puts
  <2> QED BY <2>1
<1>2. ASSUME NEW m \in Nat, Exists(m)
      PROVE  Exists(m + 1)
  <2>1. PICK f : Puts(f, names, vals, in, m)
    BY <1>2
  <2> DEFINE g == [i \in 0..(m + 1) |-> IF i = m + 1 THEN Put(f[m], names[m + 1], vals[m + 1]) ELSE f[i]]
  <2>2. \A i \in 0..(m + 1) : g[i] = IF i = 0 THEN in ELSE Put(g[i - 1], names[i], vals[i])
    <3> SUFFICES ASSUME NEW i \in 0..(m + 1)
                 PROVE  g[i] = IF i = 0 THEN in ELSE Put(g[i - 1], names[i], vals[i])
      OBVIOUS
    <3>1. CASE i = m + 1
      <4>1. g[i] = Put(f[m], names[m + 1], vals[m + 1]) /\ g[m] = f[m]
        BY <3>1
      <4>2. i - 1 = m /\ i # 0
        BY <3>1
      <4> QED BY <4>1, <4>2, <3>1
    <3>2. CASE i # m + 1
      <4>1. g[i] = f[i] /\ i \in 0..m
        BY <3>2
      <4>2. i # 0 => g[i - 1] = f[i - 1]
        BY <3>2
      <4> QED BY <2>1, <4>1, <4>2 DEF Puts
    <3> QED BY <3>1, <3>2
  <2>3. g = [i \in 0..(m + 1) |-> g[i]]
    OBVIOUS
  <2> HIDE DEF g
  <2>4. Puts(g, names, vals, in, m + 1)
    BY <2>2, <2>3 DEF Puts
  <2> QED BY <2>4
<1>3. T = {}
  <2> SUFFICES ASSUME T # {} PROVE FALSE
    OBVIOUS
  <2>1. T \subseteq Nat
    OBVIOUS
  <2>2. PICK m \in T : \A k \in T : m <= k
    BY <2>1, Least
  <2>3. m \in Nat /\ m # 0
    BY <1>1
  <2>4. m - 1 \in Nat /\ m - 1 \notin T
    BY <2>2, <2>3
  <2>5. Exists(m - 1 + 1)
    BY <1>2, <2>4
  <2> QED BY <2>3, <2>5
<1> QED BY <1>3 DEF Putter

\* One more name.
LEMMA PutterStep ==
  ASSUME NEW names, NEW vals, NEW in, NEW n \in Nat
  PROVE  /\ Putter(names, vals, in, n)[0] = in
         /\ \A i \in 1..n : Putter(names, vals, in, n)[i] = Put(Putter(names, vals, in, n)[i - 1], names[i], vals[i])
<1> DEFINE f == Putter(names, vals, in, n)
<1>1. f = [i \in 0..n |-> IF i = 0 THEN in ELSE Put(f[i - 1], names[i], vals[i])]
  BY PutterExists DEF Puts
<1> HIDE DEF f
<1>2. f[0] = in
  BY <1>1
<1>3. ASSUME NEW i \in 1..n PROVE f[i] = Put(f[i - 1], names[i], vals[i])
  <2>1. i \in 0..n /\ i # 0
    OBVIOUS
  <2> QED BY <1>1, <2>1
<1> QED BY <1>2, <1>3 DEF f

\* What the parameters may be after the first bindings of a list.
OneBinding(c, list, i, ins) == UNION {After(c, list[i], in) : in \in ins}
Means(f, c, list, in, n)    == f = [i \in 0..n |-> IF i = 0 THEN {in} ELSE OneBinding(c, list, i, f[i - 1])]
Meaner(c, list, in, n)      == CHOOSE f : Means(f, c, list, in, n)

LEMMA MeaningIs ==
  ASSUME NEW c, NEW list, NEW in
  PROVE  Meaning(c, list, in) = Meaner(c, list, in, Len(list))[Len(list)]
BY DEF Meaning, Meaner, Means, OneBinding

\* The meaning of a list of any length exists.
LEMMA MeanerExists ==
  ASSUME NEW c, NEW list, NEW in, NEW n \in Nat
  PROVE  Means(Meaner(c, list, in, n), c, list, in, n)
<1> DEFINE Exists(m) == \E f : Means(f, c, list, in, m)
           T == {m \in Nat : ~Exists(m)}
<1>1. Exists(0)
  <2>1. Means([i \in 0..0 |-> {in}], c, list, in, 0)
    BY DEF Means
  <2> QED BY <2>1
<1>2. ASSUME NEW m \in Nat, Exists(m)
      PROVE  Exists(m + 1)
  <2>1. PICK f : Means(f, c, list, in, m)
    BY <1>2
  <2> DEFINE g == [i \in 0..(m + 1) |-> IF i = m + 1 THEN OneBinding(c, list, m + 1, f[m]) ELSE f[i]]
  <2>2. \A i \in 0..(m + 1) : g[i] = IF i = 0 THEN {in} ELSE OneBinding(c, list, i, g[i - 1])
    <3> SUFFICES ASSUME NEW i \in 0..(m + 1)
                 PROVE  g[i] = IF i = 0 THEN {in} ELSE OneBinding(c, list, i, g[i - 1])
      OBVIOUS
    <3>1. CASE i = m + 1
      <4>1. g[i] = OneBinding(c, list, m + 1, f[m]) /\ g[m] = f[m]
        BY <3>1
      <4>2. i - 1 = m /\ i # 0
        BY <3>1
      <4> QED BY <4>1, <4>2, <3>1
    <3>2. CASE i # m + 1
      <4>1. g[i] = f[i] /\ i \in 0..m
        BY <3>2
      <4>2. i # 0 => g[i - 1] = f[i - 1]
        BY <3>2
      <4> QED BY <2>1, <4>1, <4>2 DEF Means
    <3> QED BY <3>1, <3>2
  <2>3. g = [i \in 0..(m + 1) |-> g[i]]
    OBVIOUS
  <2> HIDE DEF g
  <2>4. Means(g, c, list, in, m + 1)
    BY <2>2, <2>3 DEF Means
  <2> QED BY <2>4
<1>3. T = {}
  <2> SUFFICES ASSUME T # {} PROVE FALSE
    OBVIOUS
  <2>1. T \subseteq Nat
    OBVIOUS
  <2>2. PICK m \in T : \A k \in T : m <= k
    BY <2>1, Least
  <2>3. m \in Nat /\ m # 0
    BY <1>1
  <2>4. m - 1 \in Nat /\ m - 1 \notin T
    BY <2>2, <2>3
  <2>5. Exists(m - 1 + 1)
    BY <1>2, <2>4
  <2> QED BY <2>3, <2>5
<1> QED BY <1>3 DEF Meaner

\* One more binding.
LEMMA MeanerStep ==
  ASSUME NEW c, NEW list, NEW in, NEW n \in Nat
  PROVE  /\ Meaner(c, list, in, n)[0] = {in}
         /\ \A i \in 1..n : Meaner(c, list, in, n)[i] = OneBinding(c, list, i, Meaner(c, list, in, n)[i - 1])
<1> DEFINE f == Meaner(c, list, in, n)
<1>1. f = [i \in 0..n |-> IF i = 0 THEN {in} ELSE OneBinding(c, list, i, f[i - 1])]
  BY MeanerExists DEF Means
<1> HIDE DEF f
<1>2. f[0] = {in}
  BY <1>1
<1>3. ASSUME NEW i \in 1..n PROVE f[i] = OneBinding(c, list, i, f[i - 1])
  <2>1. i \in 0..n /\ i # 0
    OBVIOUS
  <2> QED BY <1>1, <2>1
<1> QED BY <1>2, <1>3 DEF f

-------------------------------------------------------------------------------
(***************************************************************************)
(* The text of a statement                                                  *)
(***************************************************************************)
\* The tokens of a text.
Str == STRING \cup {"(", ")", ","}

LEMMA Strings == Words \subseteq Str /\ "(" \in Str /\ ")" \in Str /\ "," \in Str
BY DEF Words, Str

LEMMA Single ==
  ASSUME NEW S, NEW x \in S
  PROVE  <<x>> \in Seq(S) /\ Len(<<x>>) = 1 /\ <<x>>[1] = x
OBVIOUS

\* What is left of a listing after its first k words: before the next word, and
\* before the comma.
From(words, k) == Lister(words, Len(words))[Len(words) - k]
Rest(words, k) == IF k = Len(words) THEN <<>> ELSE <<",">> \o From(words, k)

LEMMA FromSteps ==
  ASSUME NEW words, Len(words) \in Nat
  PROVE  /\ Listing(words) = From(words, 0)
         /\ From(words, Len(words)) = <<>>
         /\ \A k \in 0..(Len(words) - 1) : From(words, k) = words[k + 1] \o Rest(words, k + 1)
<1> DEFINE n == Len(words)
           f == Lister(words, n)
<1>1. f[0] = <<>>
  BY ListerStep
<1>2. \A i \in 1..n : f[i] = OneMore(words, i, f[i - 1])
  BY ListerStep
<1>3. n - 0 = n /\ n - n = 0
  OBVIOUS
<1>4. ASSUME NEW k \in 0..(n - 1)
      PROVE  f[n - k] = words[k + 1] \o Rest(words, k + 1)
  <2>1. n - k \in 1..n /\ n - (n - k) + 1 = k + 1 /\ (n - k) - 1 = n - (k + 1)
    OBVIOUS
  <2>2. n - k = 1 <=> k + 1 = n
    OBVIOUS
  <2>3. f[n - k] = words[k + 1] \o (IF n - k = 1 THEN <<>> ELSE <<",">> \o f[n - (k + 1)])
    BY <1>2, <2>1 DEF OneMore
  <2> HIDE DEF f
  <2> QED BY <2>2, <2>3 DEF Rest, From, f
<1>5. Listing(words) = f[n]
  BY ListingIs
<1> HIDE DEF f
<1> QED BY <1>1, <1>3, <1>4, <1>5 DEF From, f

LEMMA FromType ==
  ASSUME NEW words \in Seq(Seq(Str)), NEW k \in 0..Len(words)
  PROVE  From(words, k) \in Seq(Str) /\ Rest(words, k) \in Seq(Str)
<1> DEFINE n == Len(words)
           T == {i \in Nat : i <= n /\ From(words, n - i) \notin Seq(Str)}
<1>0. n \in Nat /\ \A i \in 1..n : words[i] \in Seq(Str)
  OBVIOUS
<1>1. From(words, n) = <<>> /\ \A j \in 0..(n - 1) : From(words, j) = words[j + 1] \o Rest(words, j + 1)
  BY <1>0, FromSteps
<1>2. ASSUME NEW j \in 0..n, From(words, j) \in Seq(Str)
      PROVE  Rest(words, j) \in Seq(Str)
  <2>1. <<",">> \in Seq(Str)
    BY Strings, Single
  <2> QED BY <1>2, <2>1, ConcatProperties, EmptySeq DEF Rest
<1>3. T = {}
  <2> SUFFICES ASSUME T # {} PROVE FALSE
    OBVIOUS
  <2>1. T \subseteq Nat
    OBVIOUS
  <2>2. PICK m \in T : \A i \in T : m <= i
    BY <2>1, Least
  <2>3. m \in Nat /\ m <= n /\ From(words, n - m) \notin Seq(Str)
    BY <2>2
  <2>4. m # 0
    <3>1. n - 0 = n
      BY <1>0
    <3>2. <<>> \in Seq(Str)
      BY EmptySeq
    <3> QED BY <1>1, <2>3, <3>1, <3>2
  <2>5. m - 1 \in Nat /\ m - 1 <= n /\ m - 1 \notin T
    <3>1. m - 1 \in Nat /\ m - 1 <= n /\ ~(m <= m - 1)
      BY <1>0, <2>3, <2>4
    <3> HIDE DEF T
    <3> QED BY <2>2, <3>1
  <2>6. n - (m - 1) = (n - m) + 1 /\ n - m \in 0..(n - 1) /\ (n - m) + 1 \in 0..n
    BY <1>0, <2>3, <2>4
  <2>7. From(words, (n - m) + 1) \in Seq(Str)
    BY <2>5, <2>6
  <2>8. Rest(words, (n - m) + 1) \in Seq(Str)
    BY <1>2, <2>6, <2>7
  <2>9. words[(n - m) + 1] \in Seq(Str)
    BY <1>0, <2>6
  <2> QED BY <1>1, <2>3, <2>6, <2>8, <2>9, ConcatProperties
<1>4. n - k \in Nat /\ n - k <= n /\ n - (n - k) = k
  BY <1>0
<1>5. From(words, k) \in Seq(Str)
  BY <1>3, <1>4
<1> QED BY <1>2, <1>5

LEMMA OneToken ==
  ASSUME NEW x \in Str, NEW s \in Seq(Str)
  PROVE  /\ <<x>> \o s \in Seq(Str) /\ <<x>> \o s # <<>>
         /\ Head(<<x>> \o s) = x /\ Tail(<<x>> \o s) = s
<1>1. <<x>> \in Seq(Str) /\ Len(<<x>>) = 1 /\ <<x>>[1] = x
  OBVIOUS
<1> DEFINE y == <<x>> \o s
<1>2. y \in Seq(Str) /\ Len(y) = 1 + Len(s)
      /\ \A i \in 1..(1 + Len(s)) : y[i] = IF i <= 1 THEN <<x>>[i] ELSE s[i - 1]
  BY <1>1, ConcatProperties
<1>3. Len(s) \in Nat
  OBVIOUS
<1> HIDE DEF y
<1>4. y # <<>> /\ y[1] = x
  BY <1>1, <1>2, <1>3, EmptySeq
<1>5. Head(y) = y[1]
  BY <1>2, <1>4
<1>6. Tail(y) \in Seq(Str) /\ Len(Tail(y)) = Len(s) /\ \A i \in 1..Len(s) : Tail(y)[i] = y[i + 1]
  BY <1>2, <1>3, <1>4, HeadTailProperties
<1>7. \A i \in 1..Len(s) : Tail(y)[i] = s[i]
  BY <1>2, <1>3, <1>6
<1>8. Tail(y) = s
  BY <1>6, <1>7, SeqEqual
<1> QED BY <1>2, <1>4, <1>5, <1>8 DEF y

\* The words that Tokens and Written list.
Args(t)  == [i \in 1..Len(t.args) |-> <<t.args[i]>>]
Texts(b) == [i \in 1..Len(b.right) |-> Written(b.right[i])]

\* The call of a functor after its name, and from its k-th argument on.
Called(t, s)   == <<"(">> \o (From(Args(t), 0) \o (<<")">> \o s))
Inside(t, k, s) == From(Args(t), k) \o (<<")">> \o s)
Closing(t, k, s) == Rest(Args(t), k) \o (<<")">> \o s)

LEMMA TermParts ==
  ASSUME NEW t \in Term
  PROVE  \/ t.fn = "" /\ t.args[1] \in Words /\ t.args = <<t.args[1]>>
         \/ t.fn # "" /\ t.fn \in Words /\ t.args \in Seq(Words)
<1>1. CASE t \in [fn : {""}, args : [1..1 -> Words]]
  <2>1. t.fn = "" /\ t.args \in [1..1 -> Words]
    BY <1>1
  <2>3. t.args[1] \in Words /\ t.args \in Seq(Words) /\ Len(t.args) = 1
    <3> DEFINE r == t.args
    <3>1. r \in [1..1 -> Words]
      BY <2>1
    <3> HIDE DEF r
    <3>2. r[1] \in Words /\ r = [i \in 1..1 |-> r[i]]
      BY <3>1
    <3>3. [i \in 1..1 |-> r[i]] \in Seq(Words) /\ Len([i \in 1..1 |-> r[i]]) = 1
      BY <3>2
    <3> QED BY <3>2, <3>3 DEF r
  <2>4. <<t.args[1]>> \in Seq(Words) /\ Len(<<t.args[1]>>) = 1 /\ <<t.args[1]>>[1] = t.args[1]
    BY <2>3, Single
  <2>5. \A i \in 1..Len(t.args) : t.args[i] = <<t.args[1]>>[i]
    BY <2>3, <2>4
  <2>2. t.args = <<t.args[1]>> /\ t.args[1] \in Words
    BY <2>3, <2>4, <2>5, SeqEqual
  <2> QED BY <2>1, <2>2
<1>2. CASE t \in [fn : Words, args : Seq(Words)]
  BY <1>2 DEF Words
<1> QED BY <1>1, <1>2 DEF Term

LEMMA ArgsText ==
  ASSUME NEW t, t.args \in Seq(Words)
  PROVE  /\ Args(t) \in Seq(Seq(Str)) /\ Len(Args(t)) = Len(t.args) /\ Len(t.args) \in Nat
         /\ \A k \in 1..Len(t.args) : Args(t)[k] = <<t.args[k]>> /\ t.args[k] \in Words /\ t.args[k] \in Str
         /\ Listing(Args(t)) = From(Args(t), 0)
<1>1. Len(t.args) \in Nat /\ \A k \in 1..Len(t.args) : t.args[k] \in Words /\ t.args[k] \in Str
  <2>1. Len(t.args) \in Nat /\ \A k \in 1..Len(t.args) : t.args[k] \in Words
    OBVIOUS
  <2> QED BY <2>1, Strings
<1>2. \A k \in 1..Len(t.args) : <<t.args[k]>> \in Seq(Str)
  BY <1>1
<1>3. Args(t) \in Seq(Seq(Str)) /\ Len(Args(t)) = Len(t.args)
      /\ \A k \in 1..Len(t.args) : Args(t)[k] = <<t.args[k]>>
  BY <1>1, <1>2 DEF Args
<1>4. Listing(Args(t)) = From(Args(t), 0)
  BY <1>1, <1>3, FromSteps
<1> QED BY <1>1, <1>3, <1>4

LEMMA WrittenText ==
  ASSUME NEW t \in Term, NEW s \in Seq(Str)
  PROVE  /\ Written(t) \in Seq(Str)
         /\ t.fn = "" => Written(t) \o s = <<t.args[1]>> \o s
         /\ t.fn # "" => Called(t, s) \in Seq(Str) /\ Written(t) \o s = <<t.fn>> \o Called(t, s)
<1>1. CASE t.fn = ""
  <2>1. t.args = <<t.args[1]>> /\ t.args[1] \in Str
    BY <1>1, TermParts, Strings
  <2>2. Written(t) = <<t.args[1]>>
    BY <1>1, <2>1 DEF Written
  <2>3. <<t.args[1]>> \in Seq(Str)
    BY <2>1
  <2> QED BY <1>1, <2>2, <2>3
<1>2. CASE t.fn # ""
  <2>1. t.fn \in Str /\ t.args \in Seq(Words)
    BY <1>2, TermParts, Strings
  <2> DEFINE l == From(Args(t), 0)
             a == <<t.fn, "(">>
             z == <<")">>
  <2>2. l \in Seq(Str) /\ Listing(Args(t)) = l
    <3>1. 0 \in 0..Len(Args(t))
      BY <2>1, ArgsText
    <3> QED BY <2>1, <3>1, ArgsText, FromType
  <2>3. Written(t) = a \o l \o z
    BY <1>2, <2>2 DEF Written, Args
  <2> DEFINE o == "("
             c == <<t.fn>> \o <<o>>
  <2>4. a \in Seq(Str) /\ z \in Seq(Str) /\ <<"(">> \in Seq(Str) /\ <<t.fn>> \in Seq(Str)
        /\ a = <<t.fn>> \o <<"(">>
    <3>1. z \in Seq(Str)
      BY Strings, Single
    <3>2. o \in Str
      BY Strings
    <3> HIDE DEF o
    <3>3. <<o>> \in Seq(Str) /\ <<t.fn>> \in Seq(Str) /\ Len(<<o>>) = 1 /\ Len(<<t.fn>>) = 1
          /\ <<o>>[1] = o /\ <<t.fn>>[1] = t.fn
      BY <2>1, <3>2, Single
    <3>4. <<t.fn, o>> \in Seq(Str) /\ Len(<<t.fn, o>>) = 2
          /\ <<t.fn, o>>[1] = t.fn /\ <<t.fn, o>>[2] = o
      BY <2>1, <3>2
    <3>5. c \in Seq(Str) /\ Len(c) = 2 /\ c[1] = t.fn /\ c[2] = o
      BY <3>3, ConcatProperties
    <3> HIDE DEF c
    <3>6. \A i \in 1..2 : <<t.fn, o>>[i] = c[i]
      BY <3>4, <3>5
    <3>7. <<t.fn, o>> = c
      BY <3>4, <3>5, <3>6, SeqEqual
    <3> QED BY <3>1, <3>3, <3>4, <3>7 DEF o, c
  <2> HIDE DEF l, a, z, c
  <2>5. a \o l \in Seq(Str) /\ Written(t) \in Seq(Str) /\ z \o s \in Seq(Str)
    BY <2>2, <2>3, <2>4, ConcatProperties
  <2>6. l \o (z \o s) \in Seq(Str)
    BY <2>2, <2>5, ConcatProperties
  <2>7. Written(t) \o s = (a \o l) \o (z \o s)
    BY <2>3, <2>4, <2>5, ConcatAssociative
  <2>8. (a \o l) \o (z \o s) = a \o (l \o (z \o s))
    <3> DEFINE y == z \o s
    <3>1. a \in Seq(Str) /\ l \in Seq(Str) /\ y \in Seq(Str)
      BY <2>2, <2>4, <2>5
    <3> HIDE DEF y
    <3>2. (a \o l) \o y = a \o (l \o y)
      BY <3>1, ConcatAssociative
    <3> QED BY <3>2 DEF y
  <2>9. a \o (l \o (z \o s)) = <<t.fn>> \o (<<"(">> \o (l \o (z \o s)))
    BY <2>4, <2>6, ConcatAssociative
  <2>10. Called(t, s) = <<"(">> \o (l \o (z \o s))
    BY DEF Called, l, z
  <2>11. Called(t, s) \in Seq(Str)
    BY <2>4, <2>6, <2>10, ConcatProperties
  <2> QED BY <1>2, <2>5, <2>7, <2>8, <2>9, <2>10, <2>11
<1> QED BY <1>1, <1>2

LEMMA TextsOf ==
  ASSUME NEW b \in Binding
  PROVE  /\ Texts(b) \in Seq(Seq(Str)) /\ Len(Texts(b)) = Len(b.right) /\ Len(b.right) \in Nat \ {0}
         /\ \A i \in 1..Len(b.right) : Texts(b)[i] = Written(b.right[i]) /\ b.right[i] \in Term
         /\ Tokens(b.right) = From(Texts(b), 0)
<1>1. b.right \in Seq(Term) /\ b.right # <<>>
  BY DEF Binding
<1>2. Len(b.right) \in Nat \ {0} /\ \A i \in 1..Len(b.right) : b.right[i] \in Term
  BY <1>1, EmptySeq
<1>3. \A i \in 1..Len(b.right) : Written(b.right[i]) \in Seq(Str)
  <2>1. <<>> \in Seq(Str)
    OBVIOUS
  <2> QED BY <1>2, <2>1, WrittenText
<1>4. Texts(b) \in Seq(Seq(Str)) /\ Len(Texts(b)) = Len(b.right)
      /\ \A i \in 1..Len(b.right) : Texts(b)[i] = Written(b.right[i])
  BY <1>2, <1>3 DEF Texts
<1>5. Tokens(b.right) = Listing(Texts(b))
  BY DEF Tokens, Texts
<1> QED BY <1>2, <1>4, <1>5, FromSteps

-------------------------------------------------------------------------------
(***************************************************************************)
(* The meaning, one step at a time                                          *)
(***************************************************************************)
\* The values of the first i terms of a binding, the parameters when its first p
\* names have theirs, and what they may be after the first k bindings.
Outs(c, b, in, i)        == Evaluator(c, b.right, in, Len(b.right))[i]
Given(b, vals, in, p)    == Putter(b.left, vals, in, Fewer(Len(b.left), Len(vals)))[p]
MeantBy(c, list, line, k) == Meaner(c, list, line, Len(list))[k]

LEMMA OneTermHas ==
  ASSUME NEW c, NEW terms, NEW in, NEW i, NEW outs, NEW o \in outs, NEW e \in Eval(c, terms[i], in)
  PROVE  o \o e \in OneTerm(c, terms, in, i, outs)
<1> DEFINE ends == Eval(c, terms[i], in)
<1>1. e \in ends
  OBVIOUS
<1> HIDE DEF ends
<1>2. o \o e \in {x \o y : x \in outs, y \in ends}
  BY <1>1
<1> QED BY <1>2 DEF OneTerm, ends

LEMMA OutsSteps ==
  ASSUME NEW c, NEW b, Len(b.right) \in Nat, NEW in
  PROVE  /\ <<>> \in Outs(c, b, in, 0)
         /\ \A i \in 1..Len(b.right) : \A o \in Outs(c, b, in, i - 1) : \A e \in Eval(c, b.right[i], in) :
              o \o e \in Outs(c, b, in, i)
         /\ EvalAll(c, b.right, in) = Outs(c, b, in, Len(b.right))
<1> DEFINE n == Len(b.right)
           f == Evaluator(c, b.right, in, n)
<1>1. f[0] = {<<>>} /\ \A i \in 1..n : f[i] = OneTerm(c, b.right, in, i, f[i - 1])
  BY EvaluatorStep
<1>2. EvalAll(c, b.right, in) = f[n]
  BY EvalAllIs
<1> HIDE DEF f
<1>3. ASSUME NEW i \in 1..n, NEW o \in f[i - 1], NEW e \in Eval(c, b.right[i], in)
      PROVE  o \o e \in f[i]
  <2>1. o \o e \in OneTerm(c, b.right, in, i, f[i - 1])
    BY OneTermHas
  <2> QED BY <1>1, <2>1
<1> QED BY <1>1, <1>2, <1>3 DEF Outs, f

LEMMA GivenNone ==
  ASSUME NEW b, NEW vals, NEW in, Len(b.left) \in Nat, Len(vals) \in Nat
  PROVE  Given(b, vals, in, 0) = in
<1> DEFINE n == Fewer(Len(b.left), Len(vals))
           f == Putter(b.left, vals, in, n)
<1>1. n \in Nat
  BY DEF Fewer
<1> HIDE DEF n
<1>2. f[0] = in
  BY <1>1, PutterStep
<1> HIDE DEF f
<1> QED BY <1>2 DEF Given, f, n

LEMMA GivenAll ==
  ASSUME NEW b, NEW vals, NEW in, NEW last, last = Fewer(Len(b.left), Len(vals))
  PROVE  Given(b, vals, in, last) = Bound(b.left, vals, in)
BY BoundIs DEF Given

LEMMA GivenOne ==
  ASSUME NEW b, NEW vals, NEW in, Len(b.left) \in Nat, Len(vals) \in Nat,
         NEW q \in 1..Fewer(Len(b.left), Len(vals))
  PROVE  Given(b, vals, in, q) = Put(Given(b, vals, in, q - 1), b.left[q], vals[q])
<1> DEFINE n == Fewer(Len(b.left), Len(vals))
           f == Putter(b.left, vals, in, n)
<1>1. n \in Nat
  BY DEF Fewer
<1>2. q \in 1..n
  OBVIOUS
<1> HIDE DEF n
<1>3. f[q] = Put(f[q - 1], b.left[q], vals[q])
  BY <1>1, <1>2, PutterStep
<1> HIDE DEF f
<1> QED BY <1>3 DEF Given, f, n

LEMMA MeantSteps ==
  ASSUME NEW c, NEW list, NEW line, Len(list) \in Nat
  PROVE  /\ MeantBy(c, list, line, 0) = {line}
         /\ \A k \in 1..Len(list) : \A in \in MeantBy(c, list, line, k - 1) :
              After(c, list[k], in) \subseteq MeantBy(c, list, line, k)
         /\ Meaning(c, list, line) = MeantBy(c, list, line, Len(list))
<1> DEFINE n == Len(list)
           f == Meaner(c, list, line, n)
<1>1. f[0] = {line} /\ \A k \in 1..n : f[k] = OneBinding(c, list, k, f[k - 1])
  BY MeanerStep
<1>2. Meaning(c, list, line) = f[n]
  BY MeaningIs
<1> HIDE DEF f
<1>3. ASSUME NEW k \in 1..n, NEW in \in f[k - 1], NEW x \in After(c, list[k], in)
      PROVE  x \in f[k]
  <2>1. x \in OneBinding(c, list, k, f[k - 1])
    BY DEF OneBinding
  <2> QED BY <1>1, <2>1
<1>4. \A k \in 1..n : \A in \in f[k - 1] : After(c, list[k], in) \subseteq f[k]
  BY <1>3
<1> QED BY <1>1, <1>2, <1>4 DEF MeantBy, f

LEMMA PutIs ==
  ASSUME NEW in, NEW k, NEW v
  PROVE  /\ DOMAIN Put(in, k, v) = DOMAIN in \cup {k}
         /\ Put(in, k, v)[k] = v
         /\ \A x \in DOMAIN in : x # k => Put(in, k, v)[x] = in[x]
BY DEF Put

\* Values are sequences, of whatever the functors make.
AnySeq(v) == \E S : v \in Seq(S)

LEMMA NoValue == AnySeq(<<>>)
<1>1. <<>> \in Seq({})
  BY EmptySeq
<1> QED BY <1>1 DEF AnySeq

LEMMA OneValue ==
  ASSUME NEW x
  PROVE  AnySeq(<<x>>)
<1>1. <<x>> \in Seq({x})
  BY Single
<1> QED BY <1>1 DEF AnySeq

LEMMA TwoValues ==
  ASSUME NEW x, NEW y
  PROVE  AnySeq(<<x, y>>)
<1>1. <<x, y>> \in Seq({x, y})
  OBVIOUS
<1> QED BY <1>1 DEF AnySeq

LEMMA JoinSeqs ==
  ASSUME NEW a, NEW b, AnySeq(a), AnySeq(b)
  PROVE  AnySeq(a \o b) /\ a \o <<>> = a
<1>1. PICK S : a \in Seq(S)
  BY DEF AnySeq
<1>2. PICK U : b \in Seq(U)
  BY DEF AnySeq
<1>3. a \in Seq(S \cup U) /\ b \in Seq(S \cup U)
  <2>1. S \subseteq S \cup U /\ U \subseteq S \cup U
    OBVIOUS
  <2> QED BY <1>1, <1>2, <2>1, SeqMonotonic
<1>4. a \o b \in Seq(S \cup U)
  BY <1>3, ConcatProperties
<1>5. a \o <<>> = a
  BY <1>1, ConcatEmptySeq
<1> QED BY <1>4, <1>5 DEF AnySeq

LEMMA SeqParts ==
  ASSUME NEW a, AnySeq(a)
  PROVE  /\ Len(a) \in Nat /\ (a = <<>> <=> Len(a) = 0)
         /\ a # <<>> => /\ Head(a) = a[1] /\ AnySeq(Tail(a)) /\ Len(Tail(a)) = Len(a) - 1
                        /\ \A i \in 1..(Len(a) - 1) : Tail(a)[i] = a[i + 1]
<1>1. PICK S : a \in Seq(S)
  BY DEF AnySeq
<1>2. Len(a) \in Nat /\ (a = <<>> <=> Len(a) = 0)
  BY <1>1, EmptySeq
<1>3. ASSUME a # <<>>
      PROVE  /\ Head(a) = a[1] /\ Tail(a) \in Seq(S) /\ Len(Tail(a)) = Len(a) - 1
             /\ \A i \in 1..(Len(a) - 1) : Tail(a)[i] = a[i + 1]
  <2>1. Tail(a) \in Seq(S) /\ Len(Tail(a)) = Len(a) - 1 /\ \A i \in 1..Len(Tail(a)) : Tail(a)[i] = a[i + 1]
    BY <1>1, <1>3, HeadTailProperties
  <2>2. Head(a) = a[1]
    BY <1>1, <1>3
  <2> QED BY <2>1, <2>2
<1> QED BY <1>2, <1>3 DEF AnySeq

LEMMA CallGives ==
  ASSUME NEW c, NEW f, NEW p, NEW out \in Call(c, f, p)
  PROVE  AnySeq(out)
<1>1. CASE f = "area_id_and_format"
  <2>1. \E x, y : out = <<x, y>>
    BY <1>1 DEF Call, AreaIdAndFormat
  <2> QED BY <2>1, TwoValues
<1>2. CASE f = "ipv4prefix2address_masklen"
  <2>1. \E x, y : out = <<x, y>>
    BY <1>2 DEF Call, Split
  <2> QED BY <2>1, TwoValues
<1>3. CASE f = "address_masklen2ipv4prefix"
  <2>1. \E x : out = <<x>>
    BY <1>3 DEF Call, Join
  <2> QED BY <2>1, OneValue
<1>4. CASE f = "apply_mask_ipv4"
  <2>1. \E x : out = <<x>>
    BY <1>4 DEF Call, ApplyMask
  <2> QED BY <2>1, OneValue
<1>5. CASE f \notin {"area_id_and_format", "ipv4prefix2address_masklen", "address_masklen2ipv4prefix",
                     "apply_mask_ipv4"}
  <2>1. out = <<>>
    BY <1>5 DEF Call
  <2> QED BY <2>1, NoValue
<1> QED BY <1>1, <1>2, <1>3, <1>4, <1>5

\* One more argument.
LEMMA OneMoreArgument ==
  ASSUME NEW f, NEW j \in Nat
  PROVE  Append([i \in 1..j |-> f[i]], f[j + 1]) = [i \in 1..(j + 1) |-> f[i]]
<1> DEFINE S == {f[i] : i \in 1..(j + 1)}
           s == [i \in 1..j |-> f[i]]
           e == f[j + 1]
           r == [i \in 1..(j + 1) |-> f[i]]
<1>1. s \in Seq(S) /\ Len(s) = j /\ \A i \in 1..j : s[i] = f[i]
  OBVIOUS
<1>2. e \in S
  OBVIOUS
<1>3. r \in Seq(S) /\ Len(r) = j + 1 /\ \A i \in 1..(j + 1) : r[i] = f[i]
  OBVIOUS
<1>0. e = f[j + 1]
  OBVIOUS
<1> HIDE DEF s, S, e, r
<1>4. Append(s, e) \in Seq(S) /\ Len(Append(s, e)) = j + 1
      /\ \A i \in 1..(j + 1) : Append(s, e)[i] = IF i <= j THEN s[i] ELSE e
  BY <1>1, <1>2, AppendProperties
<1>5. \A i \in 1..(j + 1) : Append(s, e)[i] = r[i]
  BY <1>0, <1>1, <1>3, <1>4
<1>6. Append(s, e) = r
  BY <1>3, <1>4, <1>5, SeqEqual
<1> QED BY <1>6 DEF s, e, r

-------------------------------------------------------------------------------
(***************************************************************************)
(* What is read next, wherever the interpreter is in a statement            *)
(***************************************************************************)
\* (Texts are compared behind a name here, and below.)
IsCall(t)      == t.fn # ""
IsNull(w)      == w = "NULL"
Reads(r, x, s) == r # <<>> /\ Head(r) = x /\ Tail(r) = s

OpenMark  == "("
CloseMark == ")"
CommaMark == ","

LEMMA Marked ==
  /\ OpenMark # CloseMark /\ OpenMark # CommaMark /\ CloseMark # CommaMark
  /\ \A w \in Words : w # OpenMark /\ w # CloseMark /\ w # CommaMark
BY DEF Words, OpenMark, CloseMark, CommaMark

LEMMA TermAt ==
  ASSUME NEW b \in Binding, NEW i \in 1..Len(b.right), NEW t, t = b.right[i], NEW s, s = Rest(Texts(b), i)
  PROVE  /\ t \in Term /\ s \in Seq(Str)
         /\ ~IsCall(t) => Reads(From(Texts(b), i - 1), t.args[1], s)
         /\ IsCall(t) => Reads(From(Texts(b), i - 1), t.fn, Called(t, s))
         /\ i = Len(b.right) => s = <<>>
         /\ i < Len(b.right) => Reads(s, CommaMark, From(Texts(b), i))
<1> DEFINE words == Texts(b)
           n == Len(b.right)
<1>1. words \in Seq(Seq(Str)) /\ Len(words) = n /\ n \in Nat \ {0} /\ t \in Term /\ words[i] = Written(t)
  BY TextsOf
<1> HIDE DEF words, n
<1>2. i \in 0..n /\ i - 1 \in 0..(n - 1) /\ (i - 1) + 1 = i
  BY <1>1 DEF n
<1>3. s \in Seq(Str) /\ From(words, i) \in Seq(Str)
  BY <1>1, <1>2, FromType DEF words
<1>4. From(words, i - 1) = Written(t) \o s
  <2>1. From(words, i - 1) = words[(i - 1) + 1] \o Rest(words, (i - 1) + 1)
    BY <1>1, <1>2, FromSteps
  <2> QED BY <1>1, <1>2, <2>1 DEF words
<1>5. ASSUME ~IsCall(t) PROVE Reads(From(words, i - 1), t.args[1], s)
  <2>1. t.args[1] \in Str
    BY <1>1, <1>5, TermParts, Strings DEF IsCall
  <2>2. From(words, i - 1) = <<t.args[1]>> \o s
    BY <1>1, <1>3, <1>4, <1>5, WrittenText DEF IsCall
  <2> QED BY <1>3, <2>1, <2>2, OneToken DEF Reads
<1>6. ASSUME IsCall(t) PROVE Reads(From(words, i - 1), t.fn, Called(t, s))
  <2>1. t.fn \in Str
    BY <1>1, <1>6, TermParts, Strings DEF IsCall
  <2>2. From(words, i - 1) = <<t.fn>> \o Called(t, s) /\ Called(t, s) \in Seq(Str)
    BY <1>1, <1>3, <1>4, <1>6, WrittenText DEF IsCall
  <2> QED BY <2>1, <2>2, OneToken DEF Reads
<1>7. i = n => s = <<>>
  BY <1>1 DEF Rest, words
<1>8. ASSUME i < n PROVE Reads(s, CommaMark, From(words, i))
  <2>1. i # Len(words)
    BY <1>1, <1>2, <1>8
  <2>2. s = <<",">> \o From(words, i)
    BY <2>1 DEF Rest, words
  <2> QED BY <1>3, <2>2, Strings, OneToken DEF Reads, CommaMark
<1> QED BY <1>1, <1>3, <1>5, <1>6, <1>7, <1>8 DEF words, n

LEMMA CallAt ==
  ASSUME NEW t \in Term, IsCall(t), NEW s \in Seq(Str)
  PROVE  /\ Len(t.args) \in Nat /\ \A j \in 1..Len(t.args) : t.args[j] \in Words
         /\ Reads(Called(t, s), OpenMark, Inside(t, 0, s))
         /\ Len(t.args) = 0 => Inside(t, 0, s) = Closing(t, 0, s)
         /\ Reads(Closing(t, Len(t.args), s), CloseMark, s)
         /\ \A j \in 0..(Len(t.args) - 1) : /\ Reads(Inside(t, j, s), t.args[j + 1], Closing(t, j + 1, s))
                                            /\ Reads(Closing(t, j, s), CommaMark, Inside(t, j, s))
<1> DEFINE words == Args(t)
           n == Len(t.args)
           z == <<")">> \o s
<1>1. t.args \in Seq(Words)
  BY TermParts DEF IsCall
<1>2. words \in Seq(Seq(Str)) /\ Len(words) = n /\ n \in Nat
      /\ \A k \in 1..n : words[k] = <<t.args[k]>> /\ t.args[k] \in Words /\ t.args[k] \in Str
  BY <1>1, ArgsText
<1>10. n \in Nat
  BY <1>2
<1>3. z \in Seq(Str) /\ z # <<>> /\ Head(z) = ")" /\ Tail(z) = s
  BY Strings, OneToken
<1>11. z \in Seq(Str)
  BY <1>3
<1>0. \A j : Inside(t, j, s) = From(words, j) \o z /\ Closing(t, j, s) = Rest(words, j) \o z
  BY DEF Inside, Closing
<1>9. Called(t, s) = <<"(">> \o (From(words, 0) \o z)
  BY DEF Called
<1> HIDE DEF words, n, z
<1>4. \A j \in 0..n : From(words, j) \in Seq(Str) /\ Rest(words, j) \in Seq(Str)
  BY <1>2, FromType
<1>5. ASSUME NEW j \in 0..n PROVE Inside(t, j, s) \in Seq(Str) /\ Closing(t, j, s) \in Seq(Str)
  <2> DEFINE f == From(words, j)
             r == Rest(words, j)
  <2>1. f \in Seq(Str) /\ r \in Seq(Str)
    BY <1>4
  <2> HIDE DEF f, r
  <2>2. f \o z \in Seq(Str) /\ r \o z \in Seq(Str)
    BY <1>11, <2>1, ConcatProperties
  <2> QED BY <1>0, <2>2 DEF f, r
<1>6. Reads(Called(t, s), OpenMark, Inside(t, 0, s))
  <2>1. 0 \in 0..n
    BY <1>10
  <2>2. Called(t, s) = <<"(">> \o Inside(t, 0, s)
    BY <1>0, <1>9
  <2> QED BY <1>5, <2>1, <2>2, Strings, OneToken DEF Reads, OpenMark
<1>7. Closing(t, n, s) = z /\ (n = 0 => Inside(t, 0, s) = Closing(t, 0, s))
  <2>1. Rest(words, n) = <<>> /\ (n = 0 => From(words, 0) = <<>>)
    BY <1>2, FromSteps DEF Rest
  <2>2. <<>> \o z = z
    BY <1>3, ConcatEmptySeq
  <2>3. Closing(t, n, s) = z
    BY <1>0, <2>1, <2>2
  <2> QED BY <1>0, <2>1, <2>3
<1>8. ASSUME NEW j \in 0..(n - 1)
      PROVE  /\ Reads(Inside(t, j, s), t.args[j + 1], Closing(t, j + 1, s))
             /\ Reads(Closing(t, j, s), CommaMark, Inside(t, j, s))
  <2>1. j \in 0..n /\ j + 1 \in 1..n /\ j + 1 \in 0..n /\ j # n
    BY <1>10
  <2> DEFINE x == t.args[j + 1]
             m == ","
             r == Rest(words, j + 1)
             f == From(words, j)
  <2>2. x \in Str /\ <<x>> \in Seq(Str) /\ words[j + 1] = <<x>>
    BY <1>2, <2>1, Single
  <2>3. m \in Str /\ <<m>> \in Seq(Str)
    BY Strings, Single
  <2>4. f = <<x>> \o r
    BY <1>2, <2>2, FromSteps
  <2>5. Rest(words, j) = <<m>> \o f
    BY <1>2, <2>1 DEF Rest
  <2>6. r \in Seq(Str) /\ f \in Seq(Str)
    BY <1>4, <2>1
  <2>11. x \in Str /\ m \in Str
    BY <2>2, <2>3
  <2>12. <<x>> \in Seq(Str) /\ <<m>> \in Seq(Str)
    BY <2>2, <2>3
  <2>13. Inside(t, j, s) \in Seq(Str) /\ Closing(t, j + 1, s) \in Seq(Str)
    BY <1>5, <2>1
  <2> HIDE DEF x, m, r, f
  <2>7. Inside(t, j, s) = <<x>> \o Closing(t, j + 1, s)
    <3>1. (<<x>> \o r) \o z = <<x>> \o (r \o z)
      BY <1>11, <2>6, <2>12, ConcatAssociative
    <3> QED BY <1>0, <2>4, <3>1 DEF f, r
  <2>8. Closing(t, j, s) = <<m>> \o Inside(t, j, s)
    <3>1. (<<m>> \o f) \o z = <<m>> \o (f \o z)
      BY <1>11, <2>6, <2>12, ConcatAssociative
    <3> QED BY <1>0, <2>5, <3>1 DEF f
  <2>9. Reads(Inside(t, j, s), x, Closing(t, j + 1, s))
    BY <2>7, <2>11, <2>13, OneToken DEF Reads
  <2>10. Reads(Closing(t, j, s), m, Inside(t, j, s))
    BY <2>8, <2>11, <2>13, OneToken DEF Reads
  <2> QED BY <2>9, <2>10 DEF x, m, CommaMark
<1> QED BY <1>2, <1>3, <1>6, <1>7, <1>8 DEF n, Reads, CloseMark

-------------------------------------------------------------------------------
(***************************************************************************)
(* The parameters and what they mean                                        *)
(***************************************************************************)
\* A term not after the x-th of the a-th binding calls for a name that may not be
\* there; the parameters agree if they have no other names more than they mean.
AskedFor(l, k, a, x) ==
  \E c \in 1..a : \E y \in 1..Len(l[c].right) : (c < a \/ y <= x) /\ CallsFor(l, c, y, k)
Agrees(l, in, m, a, x) ==
  /\ \A k \in DOMAIN in : k \in DOMAIN m /\ m[k] = in[k]
  /\ \A k \in DOMAIN m \ DOMAIN in : m[k] = Empty /\ AskedFor(l, k, a, x)

LEMMA ListParts ==
  ASSUME NEW l \in Binds
  PROVE  /\ l \in Seq(Binding) /\ Len(l) \in Nat
         /\ \A a \in 1..Len(l) : /\ l[a] \in Binding /\ l[a].cond \in Cond
                                 /\ l[a].left \in Seq(Words) /\ Len(l[a].left) \in Nat
                                 /\ Len(l[a].right) \in Nat \ {0}
                                 /\ \A x \in 1..Len(l[a].right) : l[a].right[x] \in Term
<1>1. l \in Seq(Binding)
  BY BindAssumption
<1>2. ASSUME NEW b \in Binding
      PROVE  /\ b.cond \in Cond /\ b.left \in Seq(Words) /\ Len(b.left) \in Nat
             /\ Len(b.right) \in Nat \ {0} /\ \A x \in 1..Len(b.right) : b.right[x] \in Term
  <2>1. b.cond \in Cond /\ b.left \in Seq(Words)
    BY DEF Binding
  <2> QED BY <2>1, TextsOf
<1> QED BY <1>1, <1>2

LEMMA PlainTerm ==
  ASSUME NEW t \in Term, ~IsCall(t)
  PROVE  t = [fn |-> "", args |-> <<t.args[1]>>]
<1>1. t.fn = "" /\ t.args = <<t.args[1]>>
  BY TermParts DEF IsCall
<1>2. t = [fn |-> t.fn, args |-> t.args]
  <2>1. CASE t \in [fn : {""}, args : [1..1 -> Words]]
    BY <2>1
  <2>2. CASE t \in [fn : Words, args : Seq(Words)]
    BY <2>2
  <2> QED BY <2>1, <2>2 DEF Term
<1> QED BY <1>1, <1>2

LEMMA AgreesLater ==
  ASSUME NEW l \in Binds, NEW a \in 1..Len(l), NEW in, NEW m, NEW x \in Nat, Agrees(l, in, m, a, x)
  PROVE  Agrees(l, in, m, a, x + 1) /\ Agrees(l, in, m, a + 1, 0)
<1>1. ASSUME NEW k, AskedFor(l, k, a, x)
      PROVE  AskedFor(l, k, a, x + 1) /\ AskedFor(l, k, a + 1, 0)
  <2>1. PICK c, y : c \in 1..a /\ y \in 1..Len(l[c].right) /\ (c < a \/ y <= x) /\ CallsFor(l, c, y, k)
    BY <1>1 DEF AskedFor
  <2>2. (c < a \/ y <= x + 1) /\ c \in 1..(a + 1) /\ c < a + 1
    <3>1. Len(l) \in Nat /\ c \in 1..Len(l)
      <4>1. Len(l) \in Nat
        BY ListParts
      <4> QED BY <2>1, <4>1
    <3>2. y \in Int /\ c \in Int /\ a \in Int
      <4>1. Len(l[c].right) \in Nat /\ y \in 1..Len(l[c].right)
        BY <2>1, <3>1, ListParts
      <4> QED BY <3>1, <4>1
    <3> QED BY <2>1, <3>2
  <2> QED BY <2>1, <2>2 DEF AskedFor
<1> QED BY <1>1 DEF Agrees

\* A condition holds of the parameters if it holds of what they mean.
LEMMA AgreesCond ==
  ASSUME NEW l \in Binds, NEW a \in 1..Len(l), NEW in, NEW m, Agrees(l, in, m, a, 0)
  PROVE  Holds(l[a].cond, m) <=> Holds(l[a].cond, in)
<1> DEFINE d == l[a].cond
<1>1. d \in Cond /\ Len(l) \in Nat
  BY ListParts
<1>2. d.kind \in {"always", "present", "absent"}
  BY <1>1 DEF Cond
<1>3. ASSUME d.kind # "always"
      PROVE  d.key \in DOMAIN m <=> d.key \in DOMAIN in
  <2>1. d.key \in DOMAIN in => d.key \in DOMAIN m
    BY DEF Agrees
  <2>2. ASSUME d.key \in DOMAIN m, d.key \notin DOMAIN in
        PROVE  FALSE
    <3> DEFINE k == d.key
    <3>1. AskedFor(l, k, a, 0)
      BY <2>2 DEF Agrees
    <3>2. PICK c, y : c \in 1..a /\ y \in 1..Len(l[c].right) /\ (c < a \/ y <= 0) /\ CallsFor(l, c, y, k)
      BY <3>1 DEF AskedFor
    <3>3. c < a /\ c \in 1..Len(l) /\ a \in c..Len(l) /\ a > c
      <4>1. c \in 1..Len(l)
        BY <1>1, <3>2
      <4>2. Len(l[c].right) \in Nat /\ y \in 1..Len(l[c].right)
        BY <3>2, <4>1, ListParts
      <4>3. ~(y <= 0)
        BY <4>2
      <4> QED BY <1>1, <3>2, <4>1, <4>3
    <3>4. k \in ToSet(l[c].right[y].args)
      BY <3>2 DEF CallsFor
    <3>5. l[a].cond.kind = "always" \/ l[a].cond.key # k
      BY <3>2, <3>3, <3>4, AbsentAssumption
    <3> QED BY <1>3, <3>5
  <2> QED BY <2>1, <2>2
<1> QED BY <1>2, <1>3 DEF Holds

\* A word of a statement stands for what it means.
LEMMA AgreesWord ==
  ASSUME NEW l \in Binds, NEW a \in 1..Len(l), NEW x \in 1..Len(l[a].right), NEW in, NEW m,
         Agrees(l, in, m, a, x), ~IsCall(l[a].right[x]), NEW w, w = l[a].right[x].args[1]
  PROVE  /\ w \in DOMAIN m <=> w \in DOMAIN in
         /\ w \in DOMAIN in => m[w] = in[w]
<1>1. w \in DOMAIN in => w \in DOMAIN m /\ m[w] = in[w]
  BY DEF Agrees
<1>2. ASSUME w \in DOMAIN m, w \notin DOMAIN in
      PROVE  FALSE
  <2>1. AskedFor(l, w, a, x)
    BY <1>2 DEF Agrees
  <2>2. PICK c, y : c \in 1..a /\ y \in 1..Len(l[c].right) /\ (c < a \/ y <= x) /\ CallsFor(l, c, y, w)
    BY <2>1 DEF AskedFor
  <2>3. w \in ToSet(l[c].right[y].args) /\ IsCall(l[c].right[y])
    BY <2>2 DEF CallsFor, IsCall
  <2>4. c < a \/ y # x
    <3>1. Len(l) \in Nat
      BY ListParts
    <3>2. c = a \/ c < a
      BY <2>2, <3>1
    <3> QED BY <2>3, <3>2
  <2>5. Len(l) \in Nat /\ c \in 1..Len(l) /\ a \in c..Len(l) /\ (a > c \/ x > y)
    <3>1. Len(l) \in Nat
      BY ListParts
    <3>2. c \in 1..Len(l) /\ a \in c..Len(l) /\ (c = a \/ a > c)
      BY <2>2, <3>1
    <3>3. Len(l[c].right) \in Nat /\ y \in 1..Len(l[c].right) /\ Len(l[a].right) \in Nat
      BY <2>2, <3>2, ListParts
    <3>4. y \in Int /\ x \in Int
      BY <3>3
    <3>5. c = a => x > y
      <4>1. c = a => y <= x /\ y # x
        BY <2>2, <2>4, <3>1
      <4> QED BY <3>4, <4>1
    <3> QED BY <3>1, <3>2, <3>5
  <2>6. l[a].right[x] # [fn |-> "", args |-> <<w>>]
    BY <2>2, <2>3, <2>5, AbsentAssumption
  <2>7. l[a].right[x] \in Term
    BY ListParts
  <2> QED BY <2>6, <2>7, PlainTerm
<1> QED BY <1>1, <1>2

\* An argument has its value, or comes in with the empty one.
LEMMA AgreesGet ==
  ASSUME NEW l, NEW in, NEW m, NEW a, NEW x, Agrees(l, in, m, a, x), NEW w
  PROVE  Get(m, w) = Get(in, w)
BY DEF Agrees, Get

LEMMA AgreesArgument ==
  ASSUME NEW l \in Binds, NEW a \in 1..Len(l), NEW x \in 1..Len(l[a].right), NEW in, NEW m,
         Agrees(l, in, m, a, x), Holds(l[a].cond, in), IsCall(l[a].right[x]),
         NEW j \in 1..Len(l[a].right[x].args), NEW w, w = l[a].right[x].args[j], ~IsNull(w)
  PROVE  Agrees(l, in, Put(m, w, Get(m, w)), a, x)
<1> DEFINE u == Put(m, w, Get(m, w))
<1>2. DOMAIN u = DOMAIN m \cup {w} /\ u[w] = Get(m, w) /\ \A k \in DOMAIN m : k # w => u[k] = m[k]
  BY DEF Put
<1> HIDE DEF u
<1>3. \A k \in DOMAIN m : u[k] = m[k]
  BY <1>2 DEF Get
<1>4. ASSUME w \notin DOMAIN m
      PROVE  u[w] = Empty /\ AskedFor(l, w, a, x)
  <2>1. u[w] = Empty
    BY <1>2, <1>4 DEF Get
  <2>2. w \notin DOMAIN in
    BY <1>4 DEF Agrees
  <2>3. l[a].cond # [kind |-> "present", key |-> w]
    <3>1. ASSUME l[a].cond = [kind |-> "present", key |-> w] PROVE FALSE
      <4>1. l[a].cond.kind = "present" /\ l[a].cond.key = w
        BY <3>1
      <4>2. w \in DOMAIN in
        BY <4>1 DEF Holds
      <4> QED BY <2>2, <4>2
    <3> QED BY <3>1
  <2>4. l[a].right[x] \in Term
    BY ListParts
  <2>5. w \in ToSet(l[a].right[x].args)
    <3>1. l[a].right[x].args \in Seq(Words)
      BY <2>4, TermParts DEF IsCall
    <3>2. ToSet(l[a].right[x].args) = {l[a].right[x].args[k] : k \in DOMAIN l[a].right[x].args}
      BY DEF ToSet
    <3>3. j \in DOMAIN l[a].right[x].args
      BY <3>1, LenProperties
    <3> QED BY <3>2, <3>3
  <2>8. w # "NULL"
    BY DEF IsNull
  <2>6. CallsFor(l, a, x, w)
    BY <2>3, <2>5, <2>8 DEF CallsFor, IsCall
  <2>7. a \in 1..a /\ x <= x
    <3>1. Len(l) \in Nat /\ Len(l[a].right) \in Nat
      BY ListParts
    <3> QED BY <3>1
  <2> QED BY <2>1, <2>6, <2>7 DEF AskedFor
<1>5. Agrees(l, in, u, a, x)
  BY <1>2, <1>3, <1>4 DEF Agrees
<1> QED BY <1>5 DEF u

\* A name that is bound is bound in both.
LEMMA AgreesPut ==
  ASSUME NEW l, NEW in, NEW m, NEW a, NEW x, Agrees(l, in, m, a, x), NEW k, NEW v
  PROVE  Agrees(l, Put(in, k, v), Put(m, k, v), a, x)
<1>1. DOMAIN Put(in, k, v) = DOMAIN in \cup {k} /\ Put(in, k, v)[k] = v
      /\ \A y \in DOMAIN in : y # k => Put(in, k, v)[y] = in[y]
  BY DEF Put
<1>2. DOMAIN Put(m, k, v) = DOMAIN m \cup {k} /\ Put(m, k, v)[k] = v
      /\ \A y \in DOMAIN m : y # k => Put(m, k, v)[y] = m[y]
  BY DEF Put
<1> QED BY <1>1, <1>2 DEF Agrees

-------------------------------------------------------------------------------
(***************************************************************************)
(* The invariant: where the interpreter is, and what it has so far           *)
(***************************************************************************)
At       == Len(binds) - Len(todo)
Meant(k) == MeantBy(cleared, binds, typed, k)
Outside  == inParams = FALSE /\ params = <<>>
NoName   == tmp = ""

ArgsOf(t, in) == [k \in 1..Len(t.args) |-> IF t.args[k] = "NULL" THEN Empty ELSE Get(in, t.args[k])]

\* Before the i-th term; after a plain term; after the name of a functor.
Waiting(b, in, i) == /\ Outside /\ right = From(Texts(b), i - 1)
                     /\ values \in Outs(cleared, b, in, i - 1)
Passed(b, in, i)  == /\ Outside /\ ~IsCall(b.right[i]) /\ tmp = b.right[i].args[1]
                     /\ right = Rest(Texts(b), i) /\ values \in Outs(cleared, b, in, i - 1)
Named(b, in, i)   == /\ Outside /\ IsCall(b.right[i]) /\ tmp = b.right[i].fn
                     /\ right = Called(b.right[i], Rest(Texts(b), i))
                     /\ values \in Outs(cleared, b, in, i - 1)

\* In a call, j arguments read; after the call.
Has(b, in, i, j)  == /\ inParams = TRUE /\ IsCall(b.right[i]) /\ func = b.right[i].fn /\ NoName
                     /\ params = [k \in 1..j |-> ArgsOf(b.right[i], in)[k]]
                     /\ values \in Outs(cleared, b, in, i - 1)
InCall(b, in, i)  == \E j \in 0..Len(b.right[i].args) :
                       /\ Has(b, in, i, j)
                       /\ \/ j < Len(b.right[i].args) /\ right = Inside(b.right[i], j, Rest(Texts(b), i))
                          \/ right = Closing(b.right[i], j, Rest(Texts(b), i))
Gone(b, in, i)    == /\ Outside /\ NoName /\ right = Rest(Texts(b), i)
                     /\ values \in Outs(cleared, b, in, i)

Place(b, in, i) ==
  Waiting(b, in, i) \/ Passed(b, in, i) \/ Named(b, in, i) \/ InCall(b, in, i) \/ Gone(b, in, i)

\* The first p names are bound.
Left(b, p)      == /\ left \in Seq(Words) /\ Len(left) = Len(b.left) - p
                   /\ \A k \in 1..(Len(b.left) - p) : left[k] = b.left[k + p]
Values(vals, p) == /\ Len(values) = Len(vals) - p
                   /\ \A k \in 1..(Len(vals) - p) : values[k] = vals[k + p]

TodoInv == /\ todo \in Seq(Binding) /\ Len(todo) <= Len(binds)
           /\ \A k \in 1..Len(todo) : todo[k] = binds[At + k]
ReadyInv ==
  phase \in {"cond", "done"} => /\ phase = "done" => todo = <<>>
                                /\ \E in \in Meant(At) : Agrees(binds, in, input, At + 1, 0)
ExpandInv ==
  phase = "expand" => /\ At >= 1 /\ left = binds[At].left
                      /\ \E in \in Meant(At - 1) :
                           /\ Holds(binds[At].cond, in)
                           /\ \E i \in 1..Len(binds[At].right) :
                                Agrees(binds, in, input, At, i) /\ Place(binds[At], in, i)
AssignInv ==
  phase = "assign" => /\ At >= 1
                      /\ \E in \in Meant(At - 1) :
                           /\ Holds(binds[At].cond, in)
                           /\ \E vals \in Outs(cleared, binds[At], in, Len(binds[At].right)) :
                              \E p \in 0..Fewer(Len(binds[At].left), Len(vals)) :
                                /\ AnySeq(vals) /\ Left(binds[At], p) /\ Values(vals, p)
                                /\ Agrees(binds, Given(binds[At], vals, in, p), input, At + 1, 0)

BindInv ==
  /\ binds \in Binds
  /\ round = 1 => /\ phase \in {"cond", "expand", "assign", "done"} /\ AnySeq(values)
                  /\ TodoInv /\ ReadyInv /\ ExpandInv /\ AssignInv

\* What is read where.
PlainWord(b, in, i) == Waiting(b, in, i) /\ ~IsCall(b.right[i])
                       /\ Reads(right, b.right[i].args[1], Rest(Texts(b), i))
NameWord(b, in, i)  == Waiting(b, in, i) /\ IsCall(b.right[i])
                       /\ Reads(right, b.right[i].fn, Called(b.right[i], Rest(Texts(b), i)))
ArgWord(b, in, i)   == \E j \in 0..(Len(b.right[i].args) - 1) :
                         /\ Has(b, in, i, j)
                         /\ Reads(right, b.right[i].args[j + 1], Closing(b.right[i], j + 1, Rest(Texts(b), i)))
OpenRead(b, in, i)  == Named(b, in, i) /\ Reads(right, OpenMark, Inside(b.right[i], 0, Rest(Texts(b), i)))
CloseRead(b, in, i) == Has(b, in, i, Len(b.right[i].args)) /\ Reads(right, CloseMark, Rest(Texts(b), i))
ArgComma(b, in, i)  == \E j \in 0..(Len(b.right[i].args) - 1) :
                         Has(b, in, i, j) /\ Reads(right, CommaMark, Inside(b.right[i], j, Rest(Texts(b), i)))
TermComma(b, in, i) == /\ Passed(b, in, i) \/ Gone(b, in, i)
                       /\ i < Len(b.right) /\ Reads(right, CommaMark, From(Texts(b), i))
EndRead(b, in, i)   == /\ Passed(b, in, i) \/ Gone(b, in, i)
                       /\ i = Len(b.right) /\ right = <<>>

LEMMA PlaceReads ==
  ASSUME NEW b \in Binding, NEW in, NEW i \in 1..Len(b.right), Place(b, in, i)
  PROVE  /\ b.right[i] \in Term
         /\ \/ PlainWord(b, in, i) \/ NameWord(b, in, i) \/ ArgWord(b, in, i) \/ OpenRead(b, in, i)
            \/ CloseRead(b, in, i) \/ ArgComma(b, in, i) \/ TermComma(b, in, i) \/ EndRead(b, in, i)
<1> DEFINE t == b.right[i]
           s == Rest(Texts(b), i)
<1>1. /\ t \in Term /\ s \in Seq(Str)
      /\ ~IsCall(t) => Reads(From(Texts(b), i - 1), t.args[1], s)
      /\ IsCall(t) => Reads(From(Texts(b), i - 1), t.fn, Called(t, s))
      /\ i = Len(b.right) => s = <<>>
      /\ i < Len(b.right) => Reads(s, CommaMark, From(Texts(b), i))
  BY TermAt
<1>2. Len(b.right) \in Nat /\ (i = Len(b.right) \/ i < Len(b.right))
  BY TextsOf
<1> HIDE DEF s
<1>3. CASE Waiting(b, in, i)
  <2>1. right = From(Texts(b), i - 1)
    BY <1>3 DEF Waiting
  <2> QED BY <1>1, <1>3, <2>1 DEF PlainWord, NameWord, s
<1>4. CASE Passed(b, in, i) \/ Gone(b, in, i)
  <2>1. right = s
    BY <1>4 DEF Passed, Gone, s
  <2> QED BY <1>1, <1>2, <1>4, <2>1 DEF TermComma, EndRead
<1>5. CASE Named(b, in, i)
  <2>1. IsCall(t) /\ right = Called(t, s)
    BY <1>5 DEF Named, s
  <2>2. Reads(right, OpenMark, Inside(t, 0, s))
    BY <1>1, <2>1, CallAt
  <2> QED BY <1>1, <1>5, <2>2 DEF OpenRead, s
<1>6. CASE InCall(b, in, i)
  <2>1. PICK j \in 0..Len(t.args) :
          Has(b, in, i, j) /\ ((j < Len(t.args) /\ right = Inside(t, j, s)) \/ right = Closing(t, j, s))
    BY <1>6 DEF InCall, s
  <2>2. IsCall(t)
    BY <2>1 DEF Has
  <2>3. /\ Len(t.args) \in Nat
        /\ Reads(Closing(t, Len(t.args), s), CloseMark, s)
        /\ \A k \in 0..(Len(t.args) - 1) : /\ Reads(Inside(t, k, s), t.args[k + 1], Closing(t, k + 1, s))
                                            /\ Reads(Closing(t, k, s), CommaMark, Inside(t, k, s))
    BY <1>1, <2>2, CallAt
  <2>4. j = Len(t.args) \/ (j \in 0..(Len(t.args) - 1) /\ j < Len(t.args))
    BY <2>3
  <2>5. CASE j = Len(t.args)
    <3>1. right = Closing(t, Len(t.args), s)
      BY <2>1, <2>3, <2>5
    <3> QED BY <1>1, <2>1, <2>3, <2>5, <3>1 DEF CloseRead, s
  <2>6. CASE j \in 0..(Len(t.args) - 1) /\ right = Inside(t, j, s)
    BY <1>1, <2>1, <2>3, <2>6 DEF ArgWord, s
  <2>7. CASE j \in 0..(Len(t.args) - 1) /\ right = Closing(t, j, s)
    BY <1>1, <2>1, <2>3, <2>7 DEF ArgComma, s
  <2> QED BY <2>1, <2>4, <2>5, <2>6, <2>7
<1> QED BY <1>3, <1>4, <1>5, <1>6 DEF Place

\* Only one kind of token is read.
LEMMA OneKind ==
  ASSUME NEW b \in Binding, NEW in, NEW i \in 1..Len(b.right), Place(b, in, i)
  PROVE  /\ right = <<>> => EndRead(b, in, i)
         /\ right # <<>> /\ Head(right) = OpenMark => OpenRead(b, in, i)
         /\ right # <<>> /\ Head(right) = CloseMark => CloseRead(b, in, i)
         /\ right # <<>> /\ Head(right) = CommaMark => ArgComma(b, in, i) \/ TermComma(b, in, i)
         /\ right # <<>> /\ Head(right) \notin {OpenMark, CloseMark, CommaMark} =>
              PlainWord(b, in, i) \/ NameWord(b, in, i) \/ ArgWord(b, in, i)
<1> DEFINE t == b.right[i]
<1>1. t \in Term
  BY PlaceReads
<1>2. ASSUME PlainWord(b, in, i)
      PROVE  right # <<>> /\ Head(right) \in Words
  <2>1. t.args[1] \in Words
    BY <1>1, <1>2, TermParts DEF PlainWord, IsCall
  <2> QED BY <1>2, <2>1 DEF PlainWord, Reads
<1>3. ASSUME NameWord(b, in, i)
      PROVE  right # <<>> /\ Head(right) \in Words
  <2>1. t.fn \in Words
    BY <1>1, <1>3, TermParts DEF NameWord, IsCall
  <2> QED BY <1>3, <2>1 DEF NameWord, Reads
<1>4. ASSUME ArgWord(b, in, i)
      PROVE  right # <<>> /\ Head(right) \in Words
  <2>1. PICK j \in 0..(Len(t.args) - 1) : Has(b, in, i, j) /\ right # <<>> /\ Head(right) = t.args[j + 1]
    BY <1>4 DEF ArgWord, Reads
  <2>2. IsCall(t)
    BY <2>1 DEF Has
  <2>3. Len(t.args) \in Nat /\ \A k \in 1..Len(t.args) : t.args[k] \in Words
    <3>1. <<>> \in Seq(Str)
      BY EmptySeq
    <3> QED BY <1>1, <2>2, <3>1, CallAt
  <2>4. j + 1 \in 1..Len(t.args)
    BY <2>3
  <2> QED BY <2>1, <2>3, <2>4
<1>5. OpenRead(b, in, i) => right # <<>> /\ Head(right) = OpenMark
  BY DEF OpenRead, Reads
<1>6. CloseRead(b, in, i) => right # <<>> /\ Head(right) = CloseMark
  BY DEF CloseRead, Reads
<1>7. ArgComma(b, in, i) \/ TermComma(b, in, i) => right # <<>> /\ Head(right) = CommaMark
  BY DEF ArgComma, TermComma, Reads
<1>8. EndRead(b, in, i) => right = <<>>
  BY DEF EndRead
<1> QED BY <1>2, <1>3, <1>4, <1>5, <1>6, <1>7, <1>8, PlaceReads, Marked

-------------------------------------------------------------------------------
(***************************************************************************)
(* Each step keeps the invariant                                            *)
(***************************************************************************)
Kept == /\ typed' = typed /\ binds' = binds /\ cleared' = cleared
        /\ round' = round /\ phase' = phase /\ todo' = todo /\ left' = left

LEMMA OutsKept ==
  ASSUME cleared' = cleared, NEW b, NEW in, NEW i
  PROVE  Outs(cleared, b, in, i)' = Outs(cleared, b, in, i)
OBVIOUS

LEMMA MeantKept ==
  ASSUME typed' = typed, binds' = binds, cleared' = cleared, NEW k
  PROVE  Meant(k)' = Meant(k)
BY DEF Meant

LEMMA AtKept ==
  ASSUME binds' = binds, todo' = todo
  PROVE  At' = At
BY DEF At

\* The binding that is taken up.
LEMMA Current ==
  ASSUME BindInv, round = 1, At >= 1
  PROVE  /\ At \in 1..Len(binds) /\ Len(binds) \in Nat /\ binds[At] \in Binding /\ binds \in Binds
         /\ Len(binds[At].right) \in Nat \ {0} /\ \A x \in 1..Len(binds[At].right) : binds[At].right[x] \in Term
         /\ Len(binds[At].left) \in Nat /\ binds[At].left \in Seq(Words)
<1>1. binds \in Binds /\ TodoInv
  BY DEF BindInv
<1>2. Len(binds) \in Nat /\ Len(todo) \in Nat
  BY <1>1, ListParts DEF TodoInv
<1>3. At \in 1..Len(binds)
  BY <1>2 DEF At
<1> QED BY <1>1, <1>2, <1>3, ListParts

\* What is left to show when a token is read.
LEMMA StillExpands ==
  ASSUME BindInv, round = 1, phase = "expand", Kept, AnySeq(values)',
         NEW in, in \in Meant(At - 1), NEW b, b = binds[At], Holds(b.cond, in),
         NEW i \in 1..Len(b.right), Agrees(binds, in, input', At, i), Place(b, in, i)'
  PROVE  BindInv'
<1>1. binds' = binds /\ round' = round /\ phase' = phase /\ todo' = todo /\ left' = left /\ At' = At
  BY AtKept DEF Kept
<1>2. Meant(At - 1)' = Meant(At - 1)
  BY <1>1, MeantKept DEF Kept, Meant
<1>3. TodoInv'
  <2>1. TodoInv
    BY DEF BindInv
  <2> QED BY <1>1, <2>1 DEF TodoInv
<1>4. ExpandInv'
  <2>1. At >= 1 /\ left = binds[At].left
    BY DEF BindInv, ExpandInv
  <2>2. At' >= 1 /\ left' = binds'[At'].left /\ in \in Meant(At - 1)' /\ b = binds'[At']
        /\ Agrees(binds', in, input', At', i)
    BY <1>1, <1>2, <2>1
  <2> QED BY <2>2 DEF ExpandInv
<1>5. ReadyInv' /\ AssignInv'
  BY <1>1 DEF ReadyInv, AssignInv
<1> QED BY <1>1, <1>3, <1>4, <1>5 DEF BindInv

\* Where the interpreter is when it reads.
LEMMA Expands ==
  ASSUME BindInv, round = 1, phase \in {"expand", "field"}
  PROVE  /\ phase = "expand" /\ At >= 1 /\ AnySeq(values)
         /\ \E in \in Meant(At - 1) :
              /\ Holds(binds[At].cond, in)
              /\ \E i \in 1..Len(binds[At].right) : Agrees(binds, in, input, At, i) /\ Place(binds[At], in, i)
<1>1. phase = "expand"
  BY DEF BindInv
<1> QED BY <1>1 DEF BindInv, ExpandInv

LEMMA OpenStep ==
  ASSUME BindInv, round = 1, Open
  PROVE  BindInv'
<1>1. /\ phase = "expand" /\ At >= 1 /\ AnySeq(values)
      /\ \E in \in Meant(At - 1) :
           /\ Holds(binds[At].cond, in)
           /\ \E i \in 1..Len(binds[At].right) : Agrees(binds, in, input, At, i) /\ Place(binds[At], in, i)
  BY Expands DEF Open
<1> DEFINE b == binds[At]
<1>2. b \in Binding /\ Len(b.right) \in Nat
  BY <1>1, Current
<1>3. PICK in \in Meant(At - 1) :
        /\ Holds(b.cond, in)
        /\ \E i \in 1..Len(b.right) : Agrees(binds, in, input, At, i) /\ Place(b, in, i)
  BY <1>1
<1>4. PICK i \in 1..Len(b.right) : Agrees(binds, in, input, At, i) /\ Place(b, in, i)
  BY <1>3
<1>5. /\ right # <<>> /\ Head(right) = OpenMark /\ right' = Tail(right)
      /\ inParams' = TRUE /\ func' = tmp /\ NoName' /\ params' = params /\ values' = values
      /\ input' = input /\ Kept
  BY DEF Open, OpenMark, NoName, Kept, fixed
<1>6. OpenRead(b, in, i)
  BY <1>2, <1>4, <1>5, OneKind
<1>7. PICK c : c = b
  OBVIOUS
<1> HIDE DEF b
<1> DEFINE t == c.right[i]
           s == Rest(Texts(c), i)
<1>8. /\ Outside /\ IsCall(t) /\ tmp = t.fn /\ values \in Outs(cleared, c, in, i - 1)
      /\ Tail(right) = Inside(t, 0, s)
  BY <1>6, <1>7 DEF OpenRead, Named, Reads
<1>9. t \in Term /\ s \in Seq(Str)
  BY <1>2, <1>7, TermAt
<1>10. Len(t.args) \in Nat /\ (Len(t.args) = 0 => Inside(t, 0, s) = Closing(t, 0, s))
  BY <1>8, <1>9, CallAt
<1>11. params' = [k \in 1..0 |-> ArgsOf(t, in)[k]]
  <2>1. params' = <<>>
    BY <1>5, <1>8 DEF Outside
  <2> DEFINE f == ArgsOf(t, in)
  <2> HIDE DEF f
  <2>2. [k \in 1..0 |-> f[k]] = <<>>
    OBVIOUS
  <2> QED BY <2>1, <2>2 DEF f
<1>12. Has(c, in, i, 0)'
  BY <1>5, <1>8, <1>11 DEF Has, Kept
<1>13. InCall(c, in, i)'
  <2>1. 0 \in 0..Len(t.args) /\ (0 < Len(t.args) \/ Len(t.args) = 0)
    BY <1>10
  <2>2. right' = Inside(t, 0, s)
    BY <1>5, <1>8
  <2> QED BY <1>10, <1>12, <2>1, <2>2 DEF InCall
<1>14. Place(c, in, i)'
  BY <1>13 DEF Place
<1>15. AnySeq(values)' /\ Agrees(binds, in, input', At, i)
  BY <1>1, <1>4, <1>5
<1> QED BY <1>1, <1>3, <1>5, <1>7, <1>14, <1>15, StillExpands DEF b

LEMMA WordStep ==
  ASSUME BindInv, round = 1, Word
  PROVE  BindInv'
<1>1. /\ phase = "expand" /\ At >= 1 /\ AnySeq(values)
      /\ \E in \in Meant(At - 1) :
           /\ Holds(binds[At].cond, in)
           /\ \E i \in 1..Len(binds[At].right) : Agrees(binds, in, input, At, i) /\ Place(binds[At], in, i)
  BY Expands DEF Word
<1> DEFINE b == binds[At]
<1>2. b \in Binding /\ Len(b.right) \in Nat
  BY <1>1, Current
<1>3. PICK in \in Meant(At - 1) :
        /\ Holds(b.cond, in)
        /\ \E i \in 1..Len(b.right) : Agrees(binds, in, input, At, i) /\ Place(b, in, i)
  BY <1>1
<1>4. PICK i \in 1..Len(b.right) : Agrees(binds, in, input, At, i) /\ Place(b, in, i)
  BY <1>3
<1> DEFINE w == Head(right)
           e == IF IsNull(w) THEN Empty ELSE Get(input, w)
           m == IF IsNull(w) THEN input ELSE Put(input, w, Get(input, w))
<1>5. /\ right # <<>> /\ w \notin {OpenMark, CloseMark, CommaMark} /\ right' = Tail(right)
      /\ inParams' = inParams /\ func' = func /\ values' = values /\ Kept
  BY DEF Word, OpenMark, CloseMark, CommaMark, Kept, fixed
<1>6. inParams = FALSE => tmp' = w /\ params' = params /\ input' = input
  BY DEF Word
<1>7. inParams = TRUE => tmp' = tmp /\ params' = Append(params, e) /\ input' = m
  BY DEF Word, IsNull
<1>8. PlainWord(b, in, i) \/ NameWord(b, in, i) \/ ArgWord(b, in, i)
  BY <1>2, <1>4, <1>5, OneKind
<1>9. PICK c : c = b
  OBVIOUS
<1> HIDE DEF b, w, e, m
<1> DEFINE t == c.right[i]
           s == Rest(Texts(c), i)
<1>10. CASE PlainWord(c, in, i)
  <2>1. /\ Outside /\ ~IsCall(t) /\ values \in Outs(cleared, c, in, i - 1)
        /\ w = t.args[1] /\ Tail(right) = s
    BY <1>10 DEF PlainWord, Waiting, Reads, w
  <2>2. tmp' = w /\ params' = params /\ input' = input
    BY <1>6, <2>1 DEF Outside
  <2>3. Passed(c, in, i)'
    BY <1>5, <2>1, <2>2 DEF Passed, Outside, Kept
  <2>4. AnySeq(values)' /\ Agrees(binds, in, input', At, i) /\ Place(c, in, i)'
    BY <1>1, <1>4, <1>5, <2>2, <2>3 DEF Place
  <2> QED BY <1>1, <1>3, <1>5, <1>9, <2>4, StillExpands DEF b
<1>11. CASE NameWord(c, in, i)
  <2>1. /\ Outside /\ IsCall(t) /\ values \in Outs(cleared, c, in, i - 1)
        /\ w = t.fn /\ Tail(right) = Called(t, s)
    BY <1>11 DEF NameWord, Waiting, Reads, w
  <2>2. tmp' = w /\ params' = params /\ input' = input
    BY <1>6, <2>1 DEF Outside
  <2>3. Named(c, in, i)'
    BY <1>5, <2>1, <2>2 DEF Named, Outside, Kept
  <2>4. AnySeq(values)' /\ Agrees(binds, in, input', At, i) /\ Place(c, in, i)'
    BY <1>1, <1>4, <1>5, <2>2, <2>3 DEF Place
  <2> QED BY <1>1, <1>3, <1>5, <1>9, <2>4, StillExpands DEF b
<1>12. CASE ArgWord(c, in, i)
  <2>1. PICK j \in 0..(Len(t.args) - 1) :
          Has(c, in, i, j) /\ w = t.args[j + 1] /\ Tail(right) = Closing(t, j + 1, s)
    BY <1>12 DEF ArgWord, Reads, w
  <2>2. /\ inParams = TRUE /\ IsCall(t) /\ func = t.fn /\ NoName /\ values \in Outs(cleared, c, in, i - 1)
        /\ params = [k \in 1..j |-> ArgsOf(t, in)[k]]
    BY <2>1 DEF Has
  <2>3. t \in Term /\ Len(t.args) \in Nat
    <3>1. t \in Term /\ s \in Seq(Str)
      BY <1>2, <1>9, TermAt
    <3> QED BY <2>2, <3>1, CallAt
  <2>4. j \in Nat /\ j + 1 \in 1..Len(t.args) /\ j + 1 \in 0..Len(t.args)
    BY <2>3
  <2>5. /\ ~IsNull(w) => Get(input, w) = Get(in, w)
        /\ Agrees(binds, in, m, At, i)
    <3>1. CASE IsNull(w)
      BY <1>4, <3>1 DEF m
    <3>2. CASE ~IsNull(w)
      <4>1. binds \in Binds /\ At \in 1..Len(binds)
        BY <1>1, Current
      <4>2. i \in 1..Len(binds[At].right) /\ binds[At].right[i] = t
        BY <1>9 DEF b
      <4>3. Get(input, w) = Get(in, w) /\ Agrees(binds, in, Put(input, w, Get(input, w)), At, i)
        <5>1. Holds(binds[At].cond, in) /\ Agrees(binds, in, input, At, i)
          BY <1>3, <1>4 DEF b
        <5>2. PICK k : k = j + 1
          OBVIOUS
        <5>3. IsCall(binds[At].right[i]) /\ k \in 1..Len(binds[At].right[i].args)
              /\ w = binds[At].right[i].args[k]
          BY <2>1, <2>2, <2>4, <4>2, <5>2
        <5> HIDE DEF t
        <5>4. PICK l, a, n : l = binds /\ a = At /\ n = input
          OBVIOUS
        <5>5. l \in Binds /\ a \in 1..Len(l) /\ i \in 1..Len(l[a].right)
          BY <4>1, <4>2, <5>4
        <5>6. Agrees(l, in, n, a, i) /\ Holds(l[a].cond, in) /\ IsCall(l[a].right[i])
          BY <5>1, <5>3, <5>4
        <5>7. k \in 1..Len(l[a].right[i].args) /\ w = l[a].right[i].args[k]
          BY <5>3, <5>4
        <5>8. Get(n, w) = Get(in, w)
          BY <5>6, AgreesGet
        <5>9. Agrees(l, in, Put(n, w, Get(n, w)), a, i)
          BY ONLY <3>2, <5>5, <5>6, <5>7, AgreesArgument
        <5> QED BY <5>4, <5>8, <5>9
      <4> QED BY <3>2, <4>3 DEF m
    <3> QED BY <3>1, <3>2
  <2>6. e = ArgsOf(t, in)[j + 1]
    <3>1. ArgsOf(t, in)[j + 1] = IF IsNull(w) THEN Empty ELSE Get(in, w)
      BY <2>1, <2>4 DEF ArgsOf, IsNull
    <3> QED BY <2>5, <3>1 DEF e
  <2>7. params' = [k \in 1..(j + 1) |-> ArgsOf(t, in)[k]]
    <3> DEFINE f == ArgsOf(t, in)
    <3>1. params' = Append([k \in 1..j |-> f[k]], f[j + 1])
      BY <1>7, <2>2, <2>6
    <3> HIDE DEF f
    <3>2. Append([k \in 1..j |-> f[k]], f[j + 1]) = [k \in 1..(j + 1) |-> f[k]]
      BY <2>4, OneMoreArgument
    <3> QED BY <3>1, <3>2 DEF f
  <2>8. tmp' = tmp /\ input' = m
    BY <1>7, <2>2
  <2>9. Has(c, in, i, j + 1)'
    BY <1>5, <2>2, <2>7, <2>8 DEF Has, Kept, NoName
  <2>10. right' = Closing(t, j + 1, s)
    BY <1>5, <2>1
  <2>11. InCall(c, in, i)'
    BY <2>4, <2>9, <2>10 DEF InCall
  <2>12. AnySeq(values)' /\ Agrees(binds, in, input', At, i) /\ Place(c, in, i)'
    BY <1>1, <1>5, <2>5, <2>8, <2>11 DEF Place
  <2> QED BY <1>1, <1>3, <1>5, <1>9, <2>12, StillExpands DEF b
<1> QED BY <1>8, <1>9, <1>10, <1>11, <1>12

LEMMA CloseStep ==
  ASSUME BindInv, round = 1, Close
  PROVE  BindInv'
<1>1. /\ phase = "expand" /\ At >= 1 /\ AnySeq(values)
      /\ \E in \in Meant(At - 1) :
           /\ Holds(binds[At].cond, in)
           /\ \E i \in 1..Len(binds[At].right) : Agrees(binds, in, input, At, i) /\ Place(binds[At], in, i)
  BY Expands DEF Close
<1> DEFINE b == binds[At]
<1>2. b \in Binding /\ Len(b.right) \in Nat
  BY <1>1, Current
<1>3. PICK in \in Meant(At - 1) :
        /\ Holds(b.cond, in)
        /\ \E i \in 1..Len(b.right) : Agrees(binds, in, input, At, i) /\ Place(b, in, i)
  BY <1>1
<1>4. PICK i \in 1..Len(b.right) : Agrees(binds, in, input, At, i) /\ Place(b, in, i)
  BY <1>3
<1>5. /\ right # <<>> /\ Head(right) = CloseMark /\ right' = Tail(right)
      /\ inParams' = FALSE /\ params' = <<>> /\ NoName' /\ input' = input /\ Kept
  BY DEF Close, CloseMark, NoName, Kept, fixed
<1>6. PICK out \in Call(cleared, func, params) : values' = values \o out
  BY DEF Close
<1>7. CloseRead(b, in, i)
  BY <1>2, <1>4, <1>5, OneKind
<1>8. PICK c : c = b
  OBVIOUS
<1> HIDE DEF b
<1> DEFINE t == c.right[i]
           s == Rest(Texts(c), i)
<1>9. /\ IsCall(t) /\ func = t.fn /\ values \in Outs(cleared, c, in, i - 1)
      /\ params = [k \in 1..Len(t.args) |-> ArgsOf(t, in)[k]] /\ Tail(right) = s
  BY <1>7, <1>8 DEF CloseRead, Has, Reads
<1>10. params = ArgsOf(t, in)
  <2>1. ArgsOf(t, in) = [k \in 1..Len(t.args) |-> ArgsOf(t, in)[k]]
    BY DEF ArgsOf
  <2> QED BY <1>9, <2>1
<1>11. out \in Eval(cleared, t, in)
  BY <1>6, <1>9, <1>10 DEF Eval, IsCall, ArgsOf
<1>12. values' \in Outs(cleared, c, in, i)
  <2>1. Len(c.right) \in Nat /\ i \in 1..Len(c.right)
    BY <1>2, <1>8
  <2> QED BY <1>6, <1>9, <1>11, <2>1, OutsSteps
<1>13. Gone(c, in, i)'
  BY <1>5, <1>9, <1>12 DEF Gone, Outside, Kept
<1>14. AnySeq(values')
  <2>1. AnySeq(out)
    BY <1>6, CallGives
  <2> QED BY <1>1, <1>6, <2>1, JoinSeqs
<1>15. AnySeq(values)' /\ Agrees(binds, in, input', At, i) /\ Place(c, in, i)'
  BY <1>4, <1>5, <1>13, <1>14 DEF Place, AnySeq
<1> QED BY <1>1, <1>3, <1>5, <1>8, <1>15, StillExpands DEF b

\* What a term that is read without a call leaves to be pushed.
LEMMA PushedIs ==
  ASSUME NEW in, NEW i, AnySeq(values), binds \in Binds, At \in 1..Len(binds),
         i \in 1..Len(binds[At].right), Agrees(binds, in, input, At, i),
         Passed(binds[At], in, i) \/ Gone(binds[At], in, i)
  PROVE  AnySeq(values \o Pushed(tmp)) /\ values \o Pushed(tmp) \in Outs(cleared, binds[At], in, i)
<1> DEFINE b == binds[At]
           t == b.right[i]
           w == t.args[1]
<1>1. b \in Binding /\ Len(b.right) \in Nat /\ t \in Term
  BY ListParts
<1>2. CASE Passed(b, in, i)
  <2>1. ~IsCall(t) /\ tmp = w /\ values \in Outs(cleared, b, in, i - 1)
    BY <1>2 DEF Passed
  <2>2. w \in Words /\ t.fn = ""
    BY <1>1, <2>1, TermParts DEF IsCall
  <2>3. (w \in DOMAIN input <=> w \in DOMAIN in) /\ (w \in DOMAIN in => input[w] = in[w])
    BY <2>1, AgreesWord
  <2> DEFINE e == <<IF w \in DOMAIN in THEN in[w] ELSE Text(w)>>
  <2>4. Pushed(tmp) = e
    BY <2>1, <2>2, <2>3 DEF Pushed, Words
  <2>5. e \in Eval(cleared, t, in)
    BY <2>2 DEF Eval
  <2>6. AnySeq(e)
    BY OneValue
  <2> HIDE DEF e
  <2>7. values \o e \in Outs(cleared, b, in, i)
    BY <1>1, <2>1, <2>5, OutsSteps
  <2> QED BY <2>4, <2>6, <2>7, JoinSeqs
<1>3. CASE Gone(b, in, i)
  <2>1. values \in Outs(cleared, b, in, i) /\ Pushed(tmp) = <<>>
    BY <1>3 DEF Gone, NoName, Pushed
  <2>2. values \o <<>> = values
    BY NoValue, JoinSeqs
  <2> QED BY <2>1, <2>2
<1> QED BY <1>2, <1>3

LEMMA CommaStep ==
  ASSUME BindInv, round = 1, Comma
  PROVE  BindInv'
<1>1. /\ phase = "expand" /\ At >= 1 /\ AnySeq(values)
      /\ \E in \in Meant(At - 1) :
           /\ Holds(binds[At].cond, in)
           /\ \E i \in 1..Len(binds[At].right) : Agrees(binds, in, input, At, i) /\ Place(binds[At], in, i)
  BY Expands DEF Comma
<1> DEFINE b == binds[At]
<1>2. b \in Binding /\ Len(b.right) \in Nat /\ binds \in Binds /\ At \in 1..Len(binds)
  BY <1>1, Current
<1>3. PICK in \in Meant(At - 1) :
        /\ Holds(b.cond, in)
        /\ \E i \in 1..Len(b.right) : Agrees(binds, in, input, At, i) /\ Place(b, in, i)
  BY <1>1
<1>4. PICK i \in 1..Len(b.right) : Agrees(binds, in, input, At, i) /\ Place(b, in, i)
  BY <1>3
<1>5. /\ right # <<>> /\ Head(right) = CommaMark /\ right' = Tail(right)
      /\ inParams' = inParams /\ params' = params /\ func' = func /\ tmp' = tmp /\ input' = input /\ Kept
  BY DEF Comma, CommaMark, Kept, fixed
<1>6. (inParams = TRUE => values' = values) /\ (inParams = FALSE => values' = values \o Pushed(tmp))
  BY DEF Comma
<1>7. ArgComma(b, in, i) \/ TermComma(b, in, i)
  BY <1>2, <1>4, <1>5, OneKind
<1>8. PICK c : c = b
  OBVIOUS
<1> HIDE DEF b
<1> DEFINE t == c.right[i]
           s == Rest(Texts(c), i)
<1>9. CASE ArgComma(c, in, i)
  <2>1. PICK j \in 0..(Len(t.args) - 1) : Has(c, in, i, j) /\ Tail(right) = Inside(t, j, s)
    BY <1>9 DEF ArgComma, Reads
  <2>2. inParams = TRUE /\ IsCall(t)
    BY <2>1 DEF Has
  <2>3. Len(t.args) \in Nat
    <3>1. t \in Term /\ s \in Seq(Str)
      BY <1>2, <1>8, TermAt
    <3> QED BY <2>2, <3>1, CallAt
  <2>4. j \in 0..Len(t.args) /\ j < Len(t.args)
    BY <2>3
  <2>5. values' = values
    BY <1>6, <2>2
  <2>6. Has(c, in, i, j)'
    BY <1>5, <2>1, <2>5 DEF Has, Kept, NoName
  <2>7. right' = Inside(t, j, s)
    BY <1>5, <2>1
  <2>8. InCall(c, in, i)'
    BY <2>4, <2>6, <2>7 DEF InCall
  <2>9. AnySeq(values)' /\ Agrees(binds, in, input', At, i) /\ Place(c, in, i)'
    BY <1>1, <1>4, <1>5, <2>5, <2>8 DEF Place
  <2> QED BY <1>1, <1>3, <1>5, <1>8, <2>9, StillExpands DEF b
<1>10. CASE TermComma(c, in, i)
  <2>1. /\ Passed(c, in, i) \/ Gone(c, in, i)
        /\ i < Len(c.right) /\ Tail(right) = From(Texts(c), i)
    BY <1>10 DEF TermComma, Reads
  <2>2. Outside
    BY <2>1 DEF Passed, Gone
  <2>3. i + 1 \in 1..Len(c.right) /\ (i + 1) - 1 = i /\ i \in Nat
    BY <1>2, <1>8, <2>1
  <2>4. values' = values \o Pushed(tmp)
    BY <1>6, <2>2 DEF Outside
  <2>5. AnySeq(values') /\ values' \in Outs(cleared, c, in, i)
    BY <1>1, <1>2, <1>4, <1>8, <2>1, <2>4, PushedIs DEF b
  <2>6. right' = From(Texts(c), (i + 1) - 1) /\ values' \in Outs(cleared, c, in, (i + 1) - 1)
    BY <1>5, <2>1, <2>3, <2>5
  <2>7. Waiting(c, in, i + 1)'
    BY <1>5, <2>2, <2>6 DEF Waiting, Outside, Kept
  <2>8. Agrees(binds, in, input', At, i + 1)
    BY <1>2, <1>4, <1>5, <2>3, AgreesLater
  <2>9. AnySeq(values)' /\ Place(c, in, i + 1)'
    BY <2>5, <2>7 DEF Place, AnySeq
  <2> QED BY <1>1, <1>3, <1>5, <1>8, <2>3, <2>8, <2>9, StillExpands DEF b
<1> QED BY <1>7, <1>8, <1>9, <1>10

LEMMA EndStep ==
  ASSUME BindInv, round = 1, EndOfStatement
  PROVE  BindInv'
<1>0. phase = "expand" /\ phase' = "assign"
  BY DEF EndOfStatement
<1>1. /\ phase = "expand" /\ At >= 1 /\ AnySeq(values)
      /\ \E in \in Meant(At - 1) :
           /\ Holds(binds[At].cond, in)
           /\ \E i \in 1..Len(binds[At].right) : Agrees(binds, in, input, At, i) /\ Place(binds[At], in, i)
  BY <1>0, Expands
<1> DEFINE b == binds[At]
<1>2. /\ b \in Binding /\ Len(b.right) \in Nat /\ binds \in Binds /\ At \in 1..Len(binds)
      /\ Len(b.left) \in Nat /\ b.left \in Seq(Words)
  BY <1>1, Current
<1>3. PICK in \in Meant(At - 1) :
        /\ Holds(b.cond, in)
        /\ \E i \in 1..Len(b.right) : Agrees(binds, in, input, At, i) /\ Place(b, in, i)
  BY <1>1
<1>4. PICK i \in 1..Len(b.right) : Agrees(binds, in, input, At, i) /\ Place(b, in, i)
  BY <1>3
<1>5. /\ right = <<>> /\ values' = values \o Pushed(tmp) /\ input' = input
      /\ typed' = typed /\ binds' = binds /\ cleared' = cleared
      /\ round' = round /\ todo' = todo /\ left' = left
  BY DEF EndOfStatement, fixed
<1>6. EndRead(b, in, i)
  BY <1>2, <1>4, <1>5, OneKind
<1>7. i = Len(b.right) /\ (Passed(b, in, i) \/ Gone(b, in, i))
  BY <1>6 DEF EndRead
<1>8. AnySeq(values') /\ values' \in Outs(cleared, b, in, i)
  BY <1>1, <1>2, <1>4, <1>5, <1>7, PushedIs
<1>9. left = b.left
  BY <1>1 DEF BindInv, ExpandInv
<1>10. PICK vals : vals = values'
  OBVIOUS
<1>11. AnySeq(vals) /\ vals \in Outs(cleared, b, in, Len(b.right)) /\ Len(vals) \in Nat
  BY <1>7, <1>8, <1>10, SeqParts DEF AnySeq
<1>12. Given(b, vals, in, 0) = in /\ 0 \in 0..Fewer(Len(b.left), Len(vals))
  <2>1. Given(b, vals, in, 0) = in
    BY <1>2, <1>11, GivenNone
  <2>2. Fewer(Len(b.left), Len(vals)) \in Nat
    BY <1>2, <1>11 DEF Fewer
  <2> QED BY <2>1, <2>2
<1>13. Agrees(binds, Given(b, vals, in, 0), input, At + 1, 0)
  <2>1. i \in Nat
    BY <1>2
  <2>2. Agrees(binds, in, input, At + 1, 0)
    BY <1>2, <1>4, <2>1, AgreesLater
  <2> QED BY <1>12, <2>2
<1>14. Left(b, 0)' /\ Values(vals, 0)'
  <2>1. left' \in Seq(Words) /\ Len(left') = Len(b.left) - 0 /\ \A k \in 1..(Len(b.left) - 0) : left'[k] = b.left[k + 0]
    BY <1>2, <1>5, <1>9
  <2>2. Len(values') = Len(vals) - 0 /\ \A k \in 1..(Len(vals) - 0) : values'[k] = vals[k + 0]
    BY <1>10, <1>11
  <2>3. PICK c : c = b
    OBVIOUS
  <2>4. Left(c, 0)'
    BY <1>5, <1>9, <2>1, <2>3 DEF Left
  <2>5. Values(vals, 0)'
    BY <2>2 DEF Values
  <2>6. b' = b
    BY <1>5, AtKept
  <2> QED BY <2>3, <2>4, <2>5, <2>6 DEF Left
<1>15. At' = At /\ Meant(At - 1)' = Meant(At - 1) /\ b' = b
  <2>1. At' = At
    BY <1>5, AtKept
  <2> QED BY <1>5, <2>1, MeantKept DEF Meant
<1>16. AssignInv'
  <2>1. At' >= 1 /\ in \in Meant(At - 1)' /\ Holds(binds'[At'].cond, in)
    BY <1>1, <1>3, <1>5, <1>15
  <2>2. vals \in Outs(cleared', binds'[At'], in, Len(binds'[At'].right))
    BY <1>5, <1>11, <1>15
  <2>3. 0 \in 0..Fewer(Len(binds'[At'].left), Len(vals))
    BY <1>5, <1>12, <1>15
  <2>4. Left(binds[At], 0)' /\ Values(vals, 0)'
    BY <1>14
  <2>5. Agrees(binds', Given(binds'[At'], vals, in, 0), input', At' + 1, 0)
    BY <1>5, <1>13, <1>15
  <2> QED BY <1>11, <2>1, <2>2, <2>3, <2>4, <2>5 DEF AssignInv
<1>17. TodoInv'
  <2>1. TodoInv
    BY DEF BindInv
  <2> QED BY <1>5, <1>15, <2>1 DEF TodoInv
<1>18. ReadyInv' /\ ExpandInv'
  BY <1>0 DEF ReadyInv, ExpandInv
<1>19. AnySeq(values)' /\ phase' \in {"cond", "expand", "assign", "done"}
  BY <1>0, <1>8 DEF AnySeq
<1> QED BY <1>2, <1>5, <1>16, <1>17, <1>18, <1>19 DEF BindInv

\* A binding is done: what it means is among what the list means so far.
LEMMA BindingDone ==
  ASSUME NEW in, binds \in Binds, At \in 1..Len(binds), in \in Meant(At - 1), NEW x,
         x \in After(cleared, binds[At], in)
  PROVE  x \in Meant(At)
<1>1. Len(binds) \in Nat
  BY ListParts
<1> QED BY <1>1, MeantSteps DEF Meant

LEMMA AssignStep ==
  ASSUME BindInv, round = 1, Assign
  PROVE  BindInv'
<1>0. phase = "assign"
  BY DEF Assign
<1>1. At >= 1 /\ AnySeq(values) /\ AssignInv
  BY <1>0 DEF BindInv, AssignInv
<1> DEFINE b == binds[At]
<1>2. /\ b \in Binding /\ Len(b.right) \in Nat /\ binds \in Binds /\ At \in 1..Len(binds)
      /\ Len(b.left) \in Nat /\ b.left \in Seq(Words)
  BY <1>1, Current
<1>3. PICK in \in Meant(At - 1) :
        /\ Holds(b.cond, in)
        /\ \E vals \in Outs(cleared, b, in, Len(b.right)) : \E p \in 0..Fewer(Len(b.left), Len(vals)) :
             /\ AnySeq(vals) /\ Left(b, p) /\ Values(vals, p)
             /\ Agrees(binds, Given(b, vals, in, p), input, At + 1, 0)
  BY <1>0, <1>1 DEF AssignInv
<1>4. PICK vals \in Outs(cleared, b, in, Len(b.right)) : \E p \in 0..Fewer(Len(b.left), Len(vals)) :
        /\ AnySeq(vals) /\ Left(b, p) /\ Values(vals, p)
        /\ Agrees(binds, Given(b, vals, in, p), input, At + 1, 0)
  BY <1>3
<1>5. PICK p \in 0..Fewer(Len(b.left), Len(vals)) :
        /\ AnySeq(vals) /\ Left(b, p) /\ Values(vals, p)
        /\ Agrees(binds, Given(b, vals, in, p), input, At + 1, 0)
  BY <1>4
<1> DEFINE n == Len(b.left)
           v == Len(vals)
           last == Fewer(n, v)
<1>6. v \in Nat /\ n \in Nat /\ last \in Nat /\ last <= n /\ last <= v /\ (last = n \/ last = v)
  <2>1. v \in Nat /\ n \in Nat
    BY <1>2, <1>5, SeqParts
  <2> QED BY <2>1 DEF Fewer
<1>7. /\ Given(b, vals, in, last) = Bound(b.left, vals, in)
      /\ \A q \in 1..last : Given(b, vals, in, q) = Put(Given(b, vals, in, q - 1), b.left[q], vals[q])
  <2>1. Len(b.left) \in Nat /\ Len(vals) \in Nat
    BY <1>6
  <2>2. last = Fewer(Len(b.left), Len(vals))
    OBVIOUS
  <2>3. Given(b, vals, in, last) = Bound(b.left, vals, in)
    BY <2>1, <2>2, GivenAll
  <2>4. ASSUME NEW q \in 1..last
        PROVE  Given(b, vals, in, q) = Put(Given(b, vals, in, q - 1), b.left[q], vals[q])
    BY <2>1, GivenOne
  <2> QED BY <2>3, <2>4
<1>8. /\ left \in Seq(Words) /\ Len(left) = n - p /\ \A k \in 1..(n - p) : left[k] = b.left[k + p]
      /\ Len(values) = v - p /\ \A k \in 1..(v - p) : values[k] = vals[k + p]
  BY <1>5 DEF Left, Values
<1> HIDE DEF n, v, last
<1>9. p \in Nat /\ p <= last /\ p <= n /\ p <= v
  BY <1>5, <1>6 DEF n, v, last
<1>15. n \in Nat /\ v \in Nat /\ p \in Nat
  BY <1>6, <1>9
<1>10. /\ typed' = typed /\ binds' = binds /\ cleared' = cleared
       /\ round' = round /\ todo' = todo
  BY DEF Assign, fixed
<1>11. At' = At /\ Meant(At - 1)' = Meant(At - 1) /\ Meant(At)' = Meant(At)
  <2>1. At' = At
    BY <1>10, AtKept
  <2> QED BY <1>10, <2>1, MeantKept DEF Meant
<1>12. TodoInv'
  <2>1. TodoInv
    BY DEF BindInv
  <2> QED BY <1>10, <1>11, <2>1 DEF TodoInv
<1>13. CASE left = <<>> \/ values = <<>>
  <2>1. phase' = "cond" /\ input' = input /\ values' = values
    BY <1>13 DEF Assign
  <2>2. Len(left) = 0 \/ Len(values) = 0
    BY <1>1, <1>13, SeqParts
  <2>3. p = last
    BY <1>6, <1>8, <1>9, <2>2
  <2>4. Given(b, vals, in, p) = Bound(b.left, vals, in)
    BY <1>7, <2>3
  <2>5. Bound(b.left, vals, in) \in After(cleared, b, in)
    <3>1. vals \in EvalAll(cleared, b.right, in)
      BY <1>2, <1>4, OutsSteps
    <3> QED BY <1>3, <3>1 DEF After
  <2>6. Given(b, vals, in, p) \in Meant(At)
    BY <1>2, <2>4, <2>5, BindingDone
  <2>7. Agrees(binds', Given(b, vals, in, p), input', At' + 1, 0)
    BY <1>5, <1>10, <1>11, <2>1
  <2>8. Given(b, vals, in, p) \in Meant(At)'
    BY <1>11, <2>6
  <2>9. ReadyInv'
    BY <2>1, <2>7, <2>8 DEF ReadyInv
  <2>10. ExpandInv' /\ AssignInv'
    BY <2>1 DEF ExpandInv, AssignInv
  <2>11. AnySeq(values)' /\ phase' \in {"cond", "expand", "assign", "done"}
    BY <1>1, <2>1
  <2> QED BY <1>2, <1>10, <1>12, <2>9, <2>10, <2>11 DEF BindInv
<1>14. CASE left # <<>> /\ values # <<>>
  <2>1. /\ phase' = phase /\ input' = Put(input, Head(left), Head(values))
        /\ left' = Tail(left) /\ values' = Tail(values)
    BY <1>14 DEF Assign
  <2>2. /\ Len(values) # 0 /\ Head(values) = values[1] /\ AnySeq(Tail(values)) /\ Len(Tail(values)) = Len(values) - 1
        /\ \A i \in 1..(Len(values) - 1) : Tail(values)[i] = values[i + 1]
    BY <1>1, <1>14, SeqParts
  <2>3. /\ Len(left) # 0 /\ Head(left) = left[1] /\ Tail(left) \in Seq(Words) /\ Len(Tail(left)) = Len(left) - 1
        /\ \A i \in 1..Len(Tail(left)) : Tail(left)[i] = left[i + 1]
    BY <1>8, <1>14, EmptySeq, HeadTailProperties
  <2>4. p + 1 <= n /\ p + 1 <= v /\ p + 1 \in 1..last /\ (p + 1) - 1 = p
    BY <1>6, <1>8, <1>9, <2>2, <2>3
  <2>5. Head(left) = b.left[p + 1] /\ Head(values) = vals[p + 1]
    <3>1. 1 \in 1..(n - p) /\ 1 \in 1..(v - p) /\ 1 + p = p + 1
      BY <1>6, <1>9, <2>4
    <3> QED BY <1>8, <2>2, <2>3, <3>1
  <2>6. Given(b, vals, in, p + 1) = Put(Given(b, vals, in, p), Head(left), Head(values))
    BY <1>7, <2>4, <2>5
  <2>7. Agrees(binds, Given(b, vals, in, p + 1), input', At + 1, 0)
    BY <1>5, <2>1, <2>6, AgreesPut
  <2>8. /\ left' \in Seq(Words) /\ Len(left') = n - (p + 1)
        /\ \A k \in 1..(n - (p + 1)) : left'[k] = b.left[k + (p + 1)]
    <3>1. Len(left') = n - (p + 1)
      BY <1>6, <1>8, <1>9, <2>1, <2>3
    <3>2. ASSUME NEW k \in 1..(n - (p + 1))
          PROVE  left'[k] = b.left[k + (p + 1)]
      <4>2. Len(Tail(left)) = n - (p + 1)
        BY <2>1, <3>1
      <4>3. k + 1 \in 1..(n - p) /\ (k + 1) + p = k + (p + 1)
        BY <1>15
      <4>1. k \in 1..Len(Tail(left)) /\ k + 1 \in 1..(n - p) /\ (k + 1) + p = k + (p + 1)
        BY <4>2, <4>3
      <4> QED BY <1>8, <2>1, <2>3, <4>1
    <3> QED BY <2>1, <2>3, <3>1, <3>2
  <2>9. /\ Len(values') = v - (p + 1)
        /\ \A k \in 1..(v - (p + 1)) : values'[k] = vals[k + (p + 1)]
    <3>1. Len(values') = v - (p + 1)
      BY <1>6, <1>8, <1>9, <2>1, <2>2
    <3>2. ASSUME NEW k \in 1..(v - (p + 1))
          PROVE  values'[k] = vals[k + (p + 1)]
      <4>1. k \in 1..(Len(values) - 1) /\ k + 1 \in 1..(v - p) /\ (k + 1) + p = k + (p + 1)
        BY <1>6, <1>8, <1>9, <2>2
      <4> QED BY <1>8, <2>1, <2>2, <4>1
    <3> QED BY <3>1, <3>2
  <2>10. PICK c : c = b
    OBVIOUS
  <2>11. Left(c, p + 1)' /\ Values(vals, p + 1)'
    BY <2>8, <2>9, <2>10 DEF Left, Values, n, v
  <2>12. c = binds'[At'] /\ Left(binds[At], p + 1)'
    BY <1>10, <1>11, <2>10, <2>11 DEF Left
  <2>13. AssignInv'
    <3>1. At' >= 1 /\ in \in Meant(At - 1)' /\ Holds(binds'[At'].cond, in)
      BY <1>1, <1>3, <1>10, <1>11
    <3>2. vals \in Outs(cleared', binds'[At'], in, Len(binds'[At'].right))
      BY <1>4, <1>10, <1>11
    <3>3. p + 1 \in 0..Fewer(Len(binds'[At'].left), Len(vals))
      BY <1>6, <1>10, <1>11, <2>4 DEF n, v, last
    <3>4. Agrees(binds', Given(binds'[At'], vals, in, p + 1), input', At' + 1, 0)
      BY <1>10, <1>11, <2>7
    <3> QED BY <1>5, <2>11, <2>12, <3>1, <3>2, <3>3, <3>4 DEF AssignInv
  <2>14. ReadyInv' /\ ExpandInv'
    BY <1>0, <2>1 DEF ReadyInv, ExpandInv
  <2>15. AnySeq(values)' /\ phase' \in {"cond", "expand", "assign", "done"}
    BY <1>0, <2>1, <2>2 DEF AnySeq
  <2> QED BY <1>2, <1>10, <1>12, <2>13, <2>14, <2>15 DEF BindInv
<1> QED BY <1>13, <1>14

LEMMA TakeStep ==
  ASSUME BindInv, round = 1, Take
  PROVE  BindInv'
<1>0. phase = "cond" /\ todo # <<>> /\ todo' = Tail(todo) /\ input' = input /\ values' = <<>>
      /\ inParams' = FALSE /\ params' = <<>>
      /\ typed' = typed /\ binds' = binds /\ cleared' = cleared /\ round' = round
  BY DEF Take, Fresh, fixed
<1>1. TodoInv /\ ReadyInv /\ binds \in Binds
  BY DEF BindInv
<1>2. PICK in \in Meant(At) : Agrees(binds, in, input, At + 1, 0)
  BY <1>0, <1>1 DEF ReadyInv
<1> DEFINE a == At + 1
           b == binds[a]
<1>3. /\ Len(todo) \in Nat \ {0} /\ Tail(todo) \in Seq(Binding) /\ Len(Tail(todo)) = Len(todo) - 1
      /\ \A k \in 1..(Len(todo) - 1) : Tail(todo)[k] = todo[k + 1]
      /\ Head(todo) = todo[1]
  <2>1. todo \in Seq(Binding)
    BY <1>1 DEF TodoInv
  <2>2. AnySeq(todo)
    BY <2>1 DEF AnySeq
  <2> QED BY <1>0, <2>1, <2>2, SeqParts, HeadTailProperties
<1>4. /\ Len(binds) \in Nat /\ Len(todo) <= Len(binds)
      /\ \A k \in 1..Len(todo) : todo[k] = binds[At + k]
  BY <1>1, ListParts DEF TodoInv
<1>5. At \in Nat /\ a \in 1..Len(binds) /\ a - 1 = At /\ At = Len(binds) - Len(todo)
  BY <1>3, <1>4 DEF At
<1>6. At' = a
  <2>1. At' = Len(binds) - Len(Tail(todo))
    BY <1>0 DEF At
  <2> QED BY <1>3, <1>4, <1>5, <2>1
<1>7. Head(todo) = b
  <2>1. 1 \in 1..Len(todo)
    BY <1>3
  <2> QED BY <1>3, <1>4, <2>1
<1>8. TodoInv'
  <2>1. ASSUME NEW k \in 1..Len(Tail(todo)) PROVE Tail(todo)[k] = binds[a + k]
    <3>1. k \in 1..(Len(todo) - 1) /\ k + 1 \in 1..Len(todo) /\ At + (k + 1) = a + k
      BY <1>3, <1>5
    <3> QED BY <1>3, <1>4, <3>1
  <2>2. Len(Tail(todo)) <= Len(binds)
    BY <1>3, <1>4
  <2> QED BY <1>0, <1>3, <1>6, <2>1, <2>2 DEF TodoInv
<1>9. Holds(b.cond, input) <=> Holds(b.cond, in)
  BY <1>1, <1>2, <1>5, AgreesCond
<1>10. AnySeq(values)'
  BY <1>0, NoValue DEF AnySeq
<1>11. Meant(At)' = MeantBy(cleared, binds, typed, a) /\ MeantBy(cleared, binds, typed, a - 1) = Meant(At)
  BY <1>0, <1>5, <1>6 DEF Meant
<1>12. Agrees(binds, in, input, a, 1) /\ Agrees(binds, in, input, a + 1, 0)
  <2>1. 0 \in Nat /\ 0 + 1 = 1
    OBVIOUS
  <2> QED BY <1>1, <1>2, <1>5, <2>1, AgreesLater
<1> HIDE DEF a
<1>13. CASE ~Holds(b.cond, input)
  <2>1. phase' = phase
    BY <1>7, <1>13 DEF Take
  <2>2. in \in After(cleared, b, in)
    BY <1>9, <1>13 DEF After
  <2>3. in \in MeantBy(cleared, binds, typed, a)
    BY <1>2, <1>4, <1>5, <1>11, <2>2, MeantSteps
  <2>4. in \in Meant(At)' /\ Agrees(binds', in, input', At' + 1, 0)
    BY <1>0, <1>6, <1>11, <1>12, <2>3
  <2>5. ReadyInv'
    BY <1>0, <2>1, <2>4 DEF ReadyInv
  <2>6. ExpandInv' /\ AssignInv' /\ phase' \in {"cond", "expand", "assign", "done"}
    BY <1>0, <2>1 DEF ExpandInv, AssignInv
  <2> QED BY <1>0, <1>1, <1>8, <1>10, <2>5, <2>6 DEF BindInv
<1>14. CASE Holds(b.cond, input)
  <2>1. phase' = "expand" /\ right' = Tokens(b.right) /\ left' = b.left
    BY <1>7, <1>14 DEF Take
  <2>2. PICK c : c = b
    OBVIOUS
  <2>3. c \in Binding /\ Len(c.right) \in Nat \ {0} /\ 1 \in 1..Len(c.right) /\ Tokens(c.right) = From(Texts(c), 1 - 1)
    <3>1. c \in Binding
      BY <1>1, <1>5, <2>2, ListParts
    <3>2. Len(c.right) \in Nat \ {0} /\ Tokens(c.right) = From(Texts(c), 0)
      BY <3>1, TextsOf
    <3> QED BY <3>1, <3>2
  <2>4. <<>> \in Outs(cleared, c, in, 1 - 1)
    <3>1. 1 - 1 = 0 /\ Len(c.right) \in Nat
      BY <2>3
    <3>2. <<>> \in Outs(cleared, c, in, 0)
      BY <3>1, OutsSteps
    <3> QED BY <3>1, <3>2
  <2>5. Waiting(c, in, 1)'
    BY <1>0, <2>1, <2>2, <2>3, <2>4 DEF Waiting, Outside
  <2>6. c = binds'[At'] /\ Place(c, in, 1)'
    BY <1>0, <1>6, <2>2, <2>5 DEF Place
  <2>7. At' >= 1 /\ left' = binds'[At'].left /\ Holds(binds'[At'].cond, in) /\ 1 \in 1..Len(binds'[At'].right)
    BY <1>0, <1>5, <1>6, <1>9, <1>14, <2>1, <2>2, <2>3
  <2>8. in \in Meant(At - 1)'
    <3>1. Meant(At - 1)' = MeantBy(cleared, binds, typed, a - 1)
      BY <1>0, <1>6 DEF Meant
    <3> QED BY <1>2, <1>11, <3>1
  <2>9. Agrees(binds', in, input', At', 1) /\ Place(binds[At], in, 1)'
    BY <1>0, <1>6, <1>12, <2>6
  <2>10. ExpandInv'
    BY <2>7, <2>8, <2>9 DEF ExpandInv
  <2>11. ReadyInv' /\ AssignInv' /\ phase' \in {"cond", "expand", "assign", "done"}
    BY <2>1 DEF ReadyInv, AssignInv
  <2> QED BY <1>0, <1>1, <1>8, <1>10, <2>10, <2>11 DEF BindInv
<1> QED BY <1>13, <1>14

LEMMA DoneStep ==
  ASSUME BindInv, round = 1, Done
  PROVE  BindInv'
<1>1. /\ phase = "cond" /\ todo = <<>> /\ phase' = "done" /\ values' = values /\ input' = input
      /\ todo' = todo /\ typed' = typed /\ binds' = binds /\ cleared' = cleared /\ round' = round
  BY DEF Done, fixed, locals
<1>2. At' = At /\ Meant(At)' = Meant(At)
  <2>1. At' = At
    BY <1>1, AtKept
  <2> QED BY <1>1, <2>1, MeantKept DEF Meant
<1>3. TodoInv'
  BY <1>1, <1>2 DEF BindInv, TodoInv
<1>4. ReadyInv'
  <2>1. PICK in \in Meant(At) : Agrees(binds, in, input, At + 1, 0)
    BY <1>1 DEF BindInv, ReadyInv
  <2>2. in \in Meant(At)' /\ Agrees(binds', in, input', At' + 1, 0)
    BY <1>1, <1>2, <2>1
  <2> QED BY <1>1, <2>2 DEF ReadyInv
<1>5. ExpandInv' /\ AssignInv' /\ AnySeq(values)' /\ phase' \in {"cond", "expand", "assign", "done"}
  BY <1>1 DEF ExpandInv, AssignInv, BindInv
<1> QED BY <1>1, <1>3, <1>4, <1>5 DEF BindInv

\* The invariant holds at the start.
LEMMA BindInit ==
  ASSUME Init
  PROVE  BindInv
<1>1. /\ binds \in Binds /\ phase = "cond" /\ todo = binds /\ input = typed /\ values = <<>>
  BY DEF Init
<1>2. binds \in Seq(Binding) /\ Len(binds) \in Nat
  BY <1>1, ListParts
<1>3. At = 0
  BY <1>1, <1>2 DEF At
<1>4. TodoInv
  <2>1. \A k \in 1..Len(todo) : At + k = k
    BY <1>1, <1>2, <1>3
  <2> QED BY <1>1, <1>2, <2>1 DEF TodoInv
<1>5. ReadyInv
  <2>1. typed \in Meant(At)
    BY <1>2, <1>3, MeantSteps DEF Meant
  <2>2. Agrees(binds, typed, input, At + 1, 0)
    BY <1>1 DEF Agrees
  <2> QED BY <1>1, <2>1, <2>2 DEF ReadyInv
<1>6. ExpandInv /\ AssignInv /\ AnySeq(values)
  BY <1>1, NoValue DEF ExpandInv, AssignInv
<1> QED BY <1>1, <1>4, <1>5, <1>6 DEF BindInv

LEMMA BindStep ==
  ASSUME BindInv, [Next]_vars
  PROVE  BindInv'
<1>1. CASE round = 1
  <2>1. CASE Take
    BY <1>1, <2>1, TakeStep
  <2>2. CASE Open
    BY <1>1, <2>2, OpenStep
  <2>3. CASE Close
    BY <1>1, <2>3, CloseStep
  <2>4. CASE Comma
    BY <1>1, <2>4, CommaStep
  <2>5. CASE Word
    BY <1>1, <2>5, WordStep
  <2>6. CASE EndOfStatement
    BY <1>1, <2>6, EndStep
  <2>7. CASE Assign
    BY <1>1, <2>7, AssignStep
  <2>8. CASE Done
    BY <1>1, <2>8, DoneStep
  <2>9. CASE AskBack
    <3>1. round' = 2 /\ binds' = binds
      BY <2>9 DEF AskBack, fixed
    <3> QED BY <3>1 DEF BindInv
  <2>10. CASE TypeCandidate
    <3>1. phase = "field"
      BY <2>10 DEF TypeCandidate
    <3> QED BY <1>1, <3>1 DEF BindInv
  <2>11. CASE UNCHANGED vars
    <3>1. /\ typed' = typed /\ binds' = binds /\ cleared' = cleared /\ round' = round /\ phase' = phase
          /\ todo' = todo /\ input' = input /\ right' = right /\ left' = left /\ func' = func
          /\ inParams' = inParams /\ tmp' = tmp /\ params' = params /\ values' = values
      BY <2>11 DEF vars, fixed, locals
    <3>2. Meant(At)' = Meant(At) /\ Meant(At - 1)' = Meant(At - 1) /\ At' = At
      BY <3>1, AtKept DEF Meant
    <3>3. TodoInv' /\ ReadyInv'
      <4>1. TodoInv /\ ReadyInv
        BY <1>1 DEF BindInv
      <4>2. TodoInv'
        BY <3>1, <3>2, <4>1 DEF TodoInv
      <4>3. ASSUME phase' \in {"cond", "done"}
            PROVE  /\ phase' = "done" => todo' = <<>>
                   /\ \E in \in Meant(At)' : Agrees(binds', in, input', At' + 1, 0)
        <5>1. /\ phase = "done" => todo = <<>>
              /\ \E in \in Meant(At) : Agrees(binds, in, input, At + 1, 0)
          BY <3>1, <4>1, <4>3 DEF ReadyInv
        <5>2. PICK in \in Meant(At) : Agrees(binds, in, input, At + 1, 0)
          BY <5>1
        <5>3. in \in Meant(At)' /\ Agrees(binds', in, input', At' + 1, 0)
          BY <3>1, <3>2, <5>2
        <5> QED BY <3>1, <5>1, <5>3
      <4> QED BY <4>2, <4>3 DEF ReadyInv
    <3>4. ExpandInv'
      <4>1. ASSUME NEW b, NEW in, NEW i, Place(b, in, i)
            PROVE  Place(b, in, i)'
        <5>1. CASE Waiting(b, in, i)
          BY <3>1, <5>1 DEF Place, Waiting, Outside
        <5>2. CASE Passed(b, in, i)
          BY <3>1, <5>2 DEF Place, Passed, Outside
        <5>3. CASE Named(b, in, i)
          BY <3>1, <5>3 DEF Place, Named, Outside
        <5>4. CASE InCall(b, in, i)
          <6>1. \A j : Has(b, in, i, j)' <=> Has(b, in, i, j)
            BY <3>1 DEF Has, NoName
          <6> QED BY <3>1, <5>4, <6>1 DEF Place, InCall
        <5>5. CASE Gone(b, in, i)
          BY <3>1, <5>5 DEF Place, Gone, Outside, NoName
        <5> QED BY <4>1, <5>1, <5>2, <5>3, <5>4, <5>5 DEF Place
      <4>2. ASSUME phase' = "expand"
            PROVE  /\ At' >= 1 /\ left' = binds'[At'].left
                   /\ \E in \in Meant(At - 1)' :
                        /\ Holds(binds'[At'].cond, in)
                        /\ \E i \in 1..Len(binds'[At'].right) :
                             Agrees(binds', in, input', At', i) /\ Place(binds[At], in, i)'
        <5>1. /\ At >= 1 /\ left = binds[At].left
              /\ \E in \in Meant(At - 1) :
                   /\ Holds(binds[At].cond, in)
                   /\ \E i \in 1..Len(binds[At].right) :
                        Agrees(binds, in, input, At, i) /\ Place(binds[At], in, i)
          BY <1>1, <3>1, <4>2 DEF BindInv, ExpandInv
        <5>2. PICK in \in Meant(At - 1) :
                /\ Holds(binds[At].cond, in)
                /\ \E i \in 1..Len(binds[At].right) :
                     Agrees(binds, in, input, At, i) /\ Place(binds[At], in, i)
          BY <5>1
        <5>3. PICK i \in 1..Len(binds[At].right) :
                Agrees(binds, in, input, At, i) /\ Place(binds[At], in, i)
          BY <5>2
        <5>4. PICK b : b = binds[At]
          OBVIOUS
        <5>5. b = binds'[At'] /\ Place(b, in, i)'
          BY <3>1, <3>2, <4>1, <5>3, <5>4
        <5>6. Place(binds[At], in, i)'
          BY <5>5
        <5> QED BY <3>1, <3>2, <5>1, <5>2, <5>3, <5>6
      <4> QED BY <4>2 DEF ExpandInv
    <3>5. AssignInv' <=> AssignInv
      BY <3>1, <3>2 DEF AssignInv, Left, Values
    <3> QED BY <1>1, <3>1, <3>3, <3>4, <3>5 DEF BindInv, AnySeq
  <2> QED BY <2>1, <2>2, <2>3, <2>4, <2>5, <2>6, <2>7, <2>8, <2>9, <2>10, <2>11 DEF Next
<1>2. CASE round # 1
  <2>1. round' # 1 /\ binds' = binds
    BY <1>2 DEF Next, Take, Open, Close, Comma, Word, EndOfStatement, Assign, Done, AskBack, TypeCandidate,
                fixed, vars
  <2> QED BY <2>1 DEF BindInv
<1> QED BY <1>1, <1>2

\* Wherever the interpreter is, what it has is what the statements mean so far.
THEOREM BindCorrect == Spec => []BindInv
<1>1. Init => BindInv
  BY BindInit
<1>2. BindInv /\ [Next]_vars => BindInv'
  BY BindStep
<1> QED BY <1>1, <1>2, PTL DEF Spec

\* For every list of bindings and every line: what the interpreter leaves in the
\* parameters, token by token and with its locals carried along, is what the
\* bindings say one after the other; names of arguments that are not there come
\* in with an empty value, no others.
THEOREM BindingAsWritten == Spec => []BoundAsWritten
<1>1. ASSUME BindInv PROVE BoundAsWritten
  <2> SUFFICES ASSUME phase = "done", round = 1
               PROVE  \E in \in Meaning(cleared, binds, typed) :
                        /\ \A k \in DOMAIN in : k \in DOMAIN input /\ input[k] = in[k]
                        /\ \A k \in DOMAIN input \ DOMAIN in : input[k] = Empty
    BY DEF BoundAsWritten
  <2>1. todo = <<>> /\ binds \in Binds /\ \E in \in Meant(At) : Agrees(binds, in, input, At + 1, 0)
    BY <1>1 DEF BindInv, ReadyInv
  <2>2. Len(binds) \in Nat
    BY <2>1, ListParts
  <2>3. At = Len(binds)
    <3>1. Len(todo) = 0
      BY <2>1, NoValue, SeqParts
    <3> QED BY <2>2, <3>1 DEF At
  <2>4. Meant(At) = Meaning(cleared, binds, typed)
    BY <2>2, <2>3, MeantSteps DEF Meant
  <2> QED BY <2>1, <2>4 DEF Agrees
<1> QED BY <1>1, BindCorrect, PTL

===============================================================================
