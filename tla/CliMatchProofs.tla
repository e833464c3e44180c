---------------------------- MODULE CliMatchProofs ----------------------------
(***************************************************************************)
(* For words of any length and any limits: what the matchers take and refuse *)
(* is what the names of their tokens say.                                    *)
(*                                                                          *)
(* The properties read the whole word, the matchers one character after the  *)
(* other. So there is a lemma for every operator that reads a word (Number,  *)
(* At, Part, Doubles, GroupsOf) which says what one more character makes of  *)
(* it, and an invariant for every matcher which says what its locals are in  *)
(* terms of the word. No number is computed: Number is the function that its *)
(* definition chooses, which exists for words of any length.                *)
(***************************************************************************)
EXTENDS CliMatch, TLAPS, SequenceTheorems, WellFoundedInduction, FiniteSetTheorems

LEMMA Least ==
  ASSUME NEW T, T \subseteq Nat, T # {}
  PROVE  \E m \in T : \A k \in T : m <= k
<1> DEFINE R == OpToRel(<, Nat)
<1>1. IsWellFoundedOn(R, Nat)
  BY NatLessThanWellFounded
<1>2. \A k, m \in T : k < m => <<k, m>> \in R
  BY DEF OpToRel
<1> HIDE DEF R
<1>3. PICK m \in T : \A k \in T : ~(<<k, m>> \in R)
  BY <1>1, WFMin
<1>4. \A k \in T : k \in Nat /\ (k < m \/ m <= k)
  OBVIOUS
<1>5. QED
  BY <1>2, <1>3, <1>4

-------------------------------------------------------------------------------
(***************************************************************************)
(* Numbers                                                                  *)
(***************************************************************************)
\* What one more digit makes of a number.
More(n, v)      == IF n * 10 + v < ULLong THEN n * 10 + v ELSE ULLong
Counts(f, w, n) == f = [i \in 0..n |-> IF i = 0 THEN 0 ELSE More(f[i - 1], Value(w[i]))]
Counter(w, n)   == CHOOSE f : Counts(f, w, n)

LEMMA NumberIs ==
  ASSUME NEW w
  PROVE  Number(w) = Counter(w, Len(w))[Len(w)]
BY DEF Number, Counter, Counts, More

\* The function that Number chooses exists, for a word of any length.
LEMMA CounterExists ==
  ASSUME NEW w, NEW n \in Nat
  PROVE  Counts(Counter(w, n), w, n)
<1> DEFINE Exists(m) == \E f : Counts(f, w, m)
           T == {m \in Nat : ~Exists(m)}
<1>1. Exists(0)
  <2>1. Counts([i \in 0..0 |-> 0], w, 0)
    BY DEF Counts
  <2> QED BY <2>1
<1>2. ASSUME NEW m \in Nat, Exists(m)
      PROVE  Exists(m + 1)
  <2>1. PICK f : Counts(f, w, m)
    BY <1>2
  <2> DEFINE g == [i \in 0..(m + 1) |-> IF i = m + 1 THEN More(f[m], Value(w[m + 1])) ELSE f[i]]
  <2>2. \A i \in 0..(m + 1) : g[i] = IF i = 0 THEN 0 ELSE More(g[i - 1], Value(w[i]))
    BY <2>1 DEF Counts
  <2>3. g = [i \in 0..(m + 1) |-> g[i]]
    OBVIOUS
  <2> HIDE DEF g
  <2>4. Counts(g, w, m + 1)
    BY <2>2, <2>3 DEF Counts
  <2> QED BY <2>4
<1>3. T = {}
  <2> SUFFICES ASSUME T # {} PROVE FALSE
    OBVIOUS
  <2>1. T \subseteq Nat
    OBVIOUS
  <2>2. PICK m \in T : \A k \in T : m <= k
    BY <2>1, Least
  <2>3. m \in Nat /\ m # 0
    BY <1>1
  <2>4. m - 1 \in Nat /\ m - 1 \notin T
    BY <2>2, <2>3
  <2>5. Exists(m - 1 + 1)
    BY <1>2, <2>4
  <2> QED BY <2>3, <2>5
<1> QED BY <1>3 DEF Counter

\* One step of the count, and its type.
LEMMA CounterStep ==
  ASSUME NEW w, NEW n \in Nat
  PROVE  /\ Counter(w, n)[0] = 0
         /\ \A i \in 1..n : Counter(w, n)[i] = More(Counter(w, n)[i - 1], Value(w[i]))
<1> DEFINE f == Counter(w, n)
<1>1. f = [i \in 0..n |-> IF i = 0 THEN 0 ELSE More(f[i - 1], Value(w[i]))]
  BY CounterExists DEF Counts
<1> HIDE DEF f
<1>2. f[0] = 0 /\ \A i \in 1..n : f[i] = More(f[i - 1], Value(w[i]))
  BY <1>1
<1> QED BY <1>2 DEF f

\* Two words count alike as far as they are alike.
LEMMA CounterSame ==
  ASSUME NEW w, NEW u, NEW n \in Nat, NEW m \in Nat, NEW k \in Nat, k <= n, k <= m,
         \A i \in 1..k : w[i] = u[i]
  PROVE  Counter(w, n)[k] = Counter(u, m)[k]
<1> DEFINE f == Counter(w, n)
           g == Counter(u, m)
           T == {i \in 0..k : f[i] # g[i]}
<1>1. f[0] = 0 /\ g[0] = 0
  BY CounterStep
<1>2. \A i \in 1..k : f[i] = More(f[i - 1], Value(w[i])) /\ g[i] = More(g[i - 1], Value(w[i]))
  <2>1. \A i \in 1..n : f[i] = More(f[i - 1], Value(w[i]))
    BY CounterStep
  <2>2. \A i \in 1..m : g[i] = More(g[i - 1], Value(u[i]))
    BY CounterStep
  <2>3. \A i \in 1..k : i \in 1..n /\ i \in 1..m /\ w[i] = u[i]
    OBVIOUS
  <2> HIDE DEF f, g
  <2> QED BY <2>1, <2>2, <2>3
<1> HIDE DEF f, g
<1>3. T = {}
  <2> SUFFICES ASSUME T # {} PROVE FALSE
    OBVIOUS
  <2>1. T \subseteq Nat
    OBVIOUS
  <2>2. PICK i \in T : \A j \in T : i <= j
    BY <2>1, Least
  <2>3. i \in 1..k
    BY <1>1
  <2>4. i - 1 \in 0..k /\ f[i - 1] = g[i - 1]
    BY <2>2, <2>3
  <2> QED BY <1>2, <2>3, <2>4
<1>4. k \in 0..k
  OBVIOUS
<1>5. f[k] = g[k]
  BY <1>3, <1>4
<1> QED BY <1>5 DEF f, g

\* Number, read as it is written: nothing is 0, and every digit is one More.
LEMMA NumberEmpty == Number(<<>>) = 0
BY CounterStep, NumberIs

LEMMA NumberAppend ==
  ASSUME NEW S, NEW w \in Seq(S), NEW c \in S
  PROVE  Number(Append(w, c)) = More(Number(w), Value(c))
<1> DEFINE u == Append(w, c)
           n == Len(w)
<1>1. n \in Nat /\ Len(u) = n + 1 /\ (\A i \in 1..n : u[i] = w[i]) /\ u[n + 1] = c
  BY LenProperties, AppendProperties
<1> HIDE DEF u, n
<1>2. Counter(u, n + 1)[n + 1] = More(Counter(u, n + 1)[n], Value(c))
  <2>1. n + 1 \in Nat /\ n + 1 \in 1..(n + 1) /\ n + 1 - 1 = n
    BY <1>1
  <2>2. \A i \in 1..(n + 1) : Counter(u, n + 1)[i] = More(Counter(u, n + 1)[i - 1], Value(u[i]))
    BY <2>1, CounterStep
  <2> QED BY <1>1, <2>1, <2>2
<1>3. Counter(u, n + 1)[n] = Counter(w, n)[n]
  <2>1. n + 1 \in Nat /\ n <= n /\ n <= n + 1
    BY <1>1
  <2> QED BY <1>1, <2>1, CounterSame
<1> QED BY <1>1, <1>2, <1>3, NumberIs DEF u, n

LEMMA DigitValue == \A c \in Digits : Value(c) \in 0..9 /\ Value(c) \in Nat
BY DEF Digits

LEMMA MoreType ==
  ASSUME NEW n \in Nat, NEW v \in Nat
  PROVE  More(n, v) \in Nat /\ More(n, v) <= ULLong /\ (n <= ULLong => n <= More(n, v))
<1>1. ULLong \in Nat
  BY LimitAssumption
<1> QED BY <1>1 DEF More

\* A word of digits has a number, not above ULLong.
LEMMA NumberType ==
  ASSUME NEW S, NEW w \in Seq(S), ToSet(w) \subseteq Digits
  PROVE  Number(w) \in Nat /\ Number(w) <= ULLong
<1> DEFINE n == Len(w)
           f == Counter(w, n)
           T == {i \in 0..n : ~(f[i] \in Nat /\ f[i] <= ULLong)}
<1>1. n \in Nat /\ ULLong \in Nat /\ ULLong > 0
  BY LenProperties, LimitAssumption
<1>2. f[0] = 0 /\ \A i \in 1..n : f[i] = More(f[i - 1], Value(w[i]))
  BY <1>1, CounterStep
<1>3. \A i \in 1..n : Value(w[i]) \in Nat
  BY DigitValue, LenProperties DEF ToSet
<1> HIDE DEF f, n
<1>4. T = {}
  <2> SUFFICES ASSUME T # {} PROVE FALSE
    OBVIOUS
  <2>1. T \subseteq Nat
    BY <1>1
  <2>2. PICK i \in T : \A j \in T : i <= j
    BY <2>1, Least
  <2>3. i \in 1..n
    BY <1>1, <1>2
  <2>4. f[i - 1] \in Nat /\ f[i - 1] <= ULLong
    BY <1>1, <2>2, <2>3
  <2>5. f[i] \in Nat /\ f[i] <= ULLong
    <3>1. f[i] = More(f[i - 1], Value(w[i])) /\ Value(w[i]) \in Nat
      BY <1>2, <1>3, <2>3
    <3> QED BY <2>4, <3>1, MoreType
  <2> QED BY <2>5
<1>5. f[n] \in Nat /\ f[n] <= ULLong
  BY <1>1, <1>4
<1> QED BY <1>5, NumberIs DEF f, n

LEMMA AppendSet ==
  ASSUME NEW S, NEW w \in Seq(S), NEW c \in S
  PROVE  ToSet(Append(w, c)) = ToSet(w) \cup {c}
<1> DEFINE u == Append(w, c)
           n == Len(w)
<1>1. /\ n \in Nat /\ DOMAIN w = 1..n /\ u \in Seq(S) /\ Len(u) = n + 1
      /\ (\A i \in 1..n : u[i] = w[i]) /\ u[n + 1] = c
  BY LenProperties, AppendProperties
<1>2. DOMAIN u = 1..(n + 1)
  BY <1>1, LenProperties
<1> HIDE DEF u, n
<1>3. 1..(n + 1) = (1..n) \cup {n + 1}
  BY <1>1
<1>4. {u[i] : i \in 1..(n + 1)} = {w[i] : i \in 1..n} \cup {c}
  BY <1>1, <1>3
<1> QED BY <1>1, <1>2, <1>4 DEF ToSet, u

\* A number with one more digit: what it is, and that it is no less.
LEMMA NumberMore ==
  ASSUME NEW S, NEW w \in Seq(S), NEW c \in S
  PROVE  /\ IsNumber(Append(w, c)) <=> c \in Digits /\ (w = <<>> \/ IsNumber(w))
         /\ IsNumber(Append(w, c)) => /\ Number(w) \in Nat
                                      /\ Number(Append(w, c)) = More(Number(w), Value(c))
                                      /\ Number(w) <= Number(Append(w, c))
<1>1. Append(w, c) # <<>> /\ ToSet(Append(w, c)) = ToSet(w) \cup {c}
  BY AppendProperties, AppendSet
<1>2. w = <<>> => ToSet(w) = {}
  BY DEF ToSet
<1>3. IsNumber(Append(w, c)) <=> c \in Digits /\ (w = <<>> \/ IsNumber(w))
  BY <1>1, <1>2 DEF IsNumber
<1>4. ASSUME IsNumber(Append(w, c))
      PROVE  /\ Number(w) \in Nat
             /\ Number(Append(w, c)) = More(Number(w), Value(c))
             /\ Number(w) <= Number(Append(w, c))
  <2>1. ToSet(w) \subseteq Digits /\ c \in Digits
    BY <1>1, <1>4 DEF IsNumber
  <2>2. Number(w) \in Nat /\ Number(w) <= ULLong /\ Value(c) \in Nat /\ ULLong \in Nat
    BY <2>1, NumberType, DigitValue, LimitAssumption
  <2>3. Number(Append(w, c)) = More(Number(w), Value(c))
    BY NumberAppend
  <2> QED BY <2>2, <2>3 DEF More
<1> QED BY <1>3, <1>4

-------------------------------------------------------------------------------
(***************************************************************************)
(* Separators and the parts between them, as a word grows                   *)
(***************************************************************************)
LEMMA AppendAt ==
  ASSUME NEW S, NEW w \in Seq(S), NEW c \in S, NEW sep
  PROVE  At(Append(w, c), sep) = IF c = sep THEN At(w, sep) \cup {Len(w) + 1} ELSE At(w, sep)
<1> DEFINE u == Append(w, c)
           n == Len(w)
<1>1. /\ n \in Nat /\ DOMAIN w = 1..n /\ u \in Seq(S) /\ Len(u) = n + 1
      /\ (\A i \in 1..n : u[i] = w[i]) /\ u[n + 1] = c
  BY LenProperties, AppendProperties
<1>2. DOMAIN u = 1..(n + 1)
  BY <1>1, LenProperties
<1> HIDE DEF u, n
<1>3. {i \in 1..(n + 1) : u[i] = sep} = IF c = sep THEN {i \in 1..n : w[i] = sep} \cup {n + 1}
                                                    ELSE {i \in 1..n : w[i] = sep}
  BY <1>1
<1> QED BY <1>1, <1>2, <1>3 DEF At, u, n

LEMMA AtWithin ==
  ASSUME NEW S, NEW w \in Seq(S), NEW sep
  PROVE  /\ Len(w) \in Nat /\ At(w, sep) \subseteq 1..Len(w)
         /\ IsFiniteSet(At(w, sep)) /\ Cardinality(At(w, sep)) \in Nat
         /\ At(<<>>, sep) = {}
<1>1. Len(w) \in Nat /\ At(w, sep) \subseteq 1..Len(w)
  BY LenProperties DEF At
<1>2. IsFiniteSet(1..Len(w))
  BY <1>1, FS_Interval
<1>3. IsFiniteSet(At(w, sep))
  BY <1>1, <1>2, FS_Subset
<1>4. At(<<>>, sep) = {}
  BY DEF At
<1> QED BY <1>1, <1>3, <1>4, FS_CardinalityType

LEMMA AtCount ==
  ASSUME NEW S, NEW w \in Seq(S), NEW c \in S, NEW sep
  PROVE  Cardinality(At(Append(w, c), sep)) = Cardinality(At(w, sep)) + (IF c = sep THEN 1 ELSE 0)
<1>1. /\ At(Append(w, c), sep) = IF c = sep THEN At(w, sep) \cup {Len(w) + 1} ELSE At(w, sep)
      /\ Len(w) \in Nat /\ At(w, sep) \subseteq 1..Len(w)
      /\ IsFiniteSet(At(w, sep)) /\ Cardinality(At(w, sep)) \in Nat
  BY AppendAt, AtWithin
<1>2. Len(w) + 1 \notin At(w, sep)
  BY <1>1
<1>3. Cardinality(At(w, sep) \cup {Len(w) + 1}) = Cardinality(At(w, sep)) + 1
  BY <1>1, <1>2, FS_AddElement
<1> QED BY <1>1, <1>3

\* The last separator, and that it is the one after which there is none.
LEMMA LastAtIs ==
  ASSUME NEW S, NEW w \in Seq(S), NEW sep
  PROVE  /\ LastAt(w, sep) \in At(w, sep) \cup {0} /\ LastAt(w, sep) \in 0..Len(w)
         /\ \A j \in At(w, sep) : j <= LastAt(w, sep)
         /\ \A i \in At(w, sep) \cup {0} : (\A j \in At(w, sep) : j <= i) => i = LastAt(w, sep)
<1> DEFINE A == At(w, sep)
           n == Len(w)
           T == {n - i : i \in A \cup {0}}
<1>1. n \in Nat /\ A \subseteq 1..n
  BY AtWithin
<1> HIDE DEF A, n
<1>2. T \subseteq Nat /\ T # {}
  BY <1>1
<1>3. PICK m \in T : \A k \in T : m <= k
  BY <1>2, Least
<1>4. PICK i \in A \cup {0} : m = n - i
  OBVIOUS
<1>5. \A j \in A : j <= i
  <2> TAKE j \in A
  <2>1. n - j \in T
    OBVIOUS
  <2>2. n - i <= n - j /\ i \in Nat /\ j \in Nat
    <3>1. n - i <= n - j
      BY <1>3, <1>4, <2>1
    <3>2. i \in Nat /\ j \in Nat
      BY <1>1
    <3> QED BY <3>1, <3>2
  <2> QED BY <1>1, <2>2
<1>6. LastAt(w, sep) \in A \cup {0} /\ \A j \in A : j <= LastAt(w, sep)
  BY <1>5 DEF LastAt, A
<1>7. A \cup {0} \subseteq 0..n
  BY <1>1
<1>8. \A k \in A \cup {0} : (\A j \in A : j <= k) => k = LastAt(w, sep)
  <2> TAKE k \in A \cup {0}
  <2> HAVE \A j \in A : j <= k
  <2> DEFINE l == LastAt(w, sep)
  <2>1. k \in Nat /\ l \in Nat /\ l \in A \cup {0}
    <3>1. l \in A \cup {0} /\ A \cup {0} \subseteq Nat
      BY <1>1, <1>6
    <3> HIDE DEF l
    <3> QED BY <3>1
  <2> HIDE DEF l
  <2>2. l <= k /\ k <= l
    BY <1>6, <2>1 DEF l
  <2> QED BY <2>1, <2>2 DEF l
<1> QED BY <1>6, <1>7, <1>8 DEF A, n

LEMMA AppendLastAt ==
  ASSUME NEW S, NEW w \in Seq(S), NEW c \in S, NEW sep
  PROVE  LastAt(Append(w, c), sep) = IF c = sep THEN Len(w) + 1 ELSE LastAt(w, sep)
<1> DEFINE u == Append(w, c)
<1>1. /\ u \in Seq(S) /\ Len(w) \in Nat /\ At(w, sep) \subseteq 1..Len(w)
      /\ At(u, sep) = IF c = sep THEN At(w, sep) \cup {Len(w) + 1} ELSE At(w, sep)
  BY AppendProperties, AppendAt, AtWithin
<1>2. /\ LastAt(w, sep) \in At(w, sep) \cup {0}
      /\ \A j \in At(w, sep) : j <= LastAt(w, sep)
  BY LastAtIs
<1> HIDE DEF u
<1>3. \A i \in At(u, sep) \cup {0} : (\A j \in At(u, sep) : j <= i) => i = LastAt(u, sep)
  BY <1>1, LastAtIs
<1>4. CASE c = sep
  <2>1. Len(w) + 1 \in At(u, sep) /\ \A j \in At(u, sep) : j <= Len(w) + 1
    BY <1>1, <1>4
  <2> QED BY <1>3, <1>4, <2>1 DEF u
<1>5. CASE c # sep
  BY <1>1, <1>2, <1>3, <1>5 DEF u
<1> QED BY <1>4, <1>5

\* Between a place and the next separator, or the end.
Ends(w, sep, i, e) ==
  e \in At(w, sep) \cup {Len(w) + 1} /\ e > i /\ \A k \in At(w, sep) : k > i => e <= k

LEMMA PartIs ==
  ASSUME NEW S, NEW w \in Seq(S), NEW sep, NEW i \in 0..Len(w), NEW e, Ends(w, sep, i, e)
  PROVE  Part(w, sep, i) = SubSeq(w, i + 1, e - 1)
<1> DEFINE ends == {j \in At(w, sep) \cup {Len(w) + 1} : j > i}
           P(j) == j \in ends /\ \A k \in ends : j <= k
           d == CHOOSE j : P(j)
<1>1. Len(w) \in Nat /\ At(w, sep) \subseteq 1..Len(w)
  BY AtWithin
<1>2. P(e)
  BY <1>1 DEF Ends
<1>3. P(d)
  BY <1>2
<1>4. d = (CHOOSE j \in ends : \A k \in ends : j <= k)
  OBVIOUS
<1>5. d \in Nat /\ e \in Nat /\ d <= e /\ e <= d
  BY <1>1, <1>2, <1>3
<1> HIDE DEF d
<1>6. d = e
  BY <1>5
<1> QED BY <1>4, <1>6 DEF Part

LEMMA PartEnds ==
  ASSUME NEW S, NEW w \in Seq(S), NEW sep, NEW i \in 0..Len(w)
  PROVE  \E e \in (i + 1)..(Len(w) + 1) : Ends(w, sep, i, e)
<1> DEFINE T == {j \in At(w, sep) \cup {Len(w) + 1} : j > i}
<1>1. Len(w) \in Nat /\ At(w, sep) \subseteq 1..Len(w)
  BY AtWithin
<1>2. T \subseteq Nat /\ Len(w) + 1 \in T
  BY <1>1
<1>3. PICK e \in T : \A k \in T : e <= k
  BY <1>2, Least
<1>4. e \in (i + 1)..(Len(w) + 1) /\ Ends(w, sep, i, e)
  BY <1>1, <1>2, <1>3 DEF Ends
<1> QED BY <1>4

\* What Append leaves of a part of a word that it does not touch, and of one at its end.
LEMMA SubSeqAppend ==
  ASSUME NEW S, NEW w \in Seq(S), NEW c \in S, NEW a \in Nat \ {0}, NEW b \in 0..Len(w)
  PROVE  /\ SubSeq(Append(w, c), a, b) = SubSeq(w, a, b)
         /\ a <= Len(w) + 1 => SubSeq(Append(w, c), a, Len(w) + 1) = Append(SubSeq(w, a, Len(w)), c)
         /\ SubSeq(w, a, b) \in Seq(S)
<1> DEFINE u == Append(w, c)
           n == Len(w)
<1>1. /\ n \in Nat /\ (\A i \in 1..n : w[i] \in S) /\ u \in Seq(S) /\ Len(u) = n + 1
      /\ (\A i \in 1..n : u[i] = w[i]) /\ u[n + 1] = c
  BY LenProperties, AppendProperties
<1> HIDE DEF u, n
<1>2. b \in 0..n /\ a \in Int /\ b \in Int /\ n + 1 \in Int /\ n \in Int
  BY <1>1 DEF n
<1>3. \A i \in 1..(n + 1) : u[i] \in S
  BY <1>1
<1>4. /\ SubSeq(w, a, b) \in Seq(S) /\ Len(SubSeq(w, a, b)) = IF a <= b THEN b - a + 1 ELSE 0
      /\ \A i \in 1..(b - a + 1) : SubSeq(w, a, b)[i] = w[a + i - 1]
  <2>1. \A i \in a..b : w[i] \in S
    BY <1>1, <1>2
  <2> QED BY <1>2, <2>1, SubSeqProperties
<1>5. /\ SubSeq(u, a, b) \in Seq(S) /\ Len(SubSeq(u, a, b)) = IF a <= b THEN b - a + 1 ELSE 0
      /\ \A i \in 1..(b - a + 1) : SubSeq(u, a, b)[i] = u[a + i - 1]
  <2>1. \A i \in a..b : u[i] \in S
    BY <1>2, <1>3
  <2> QED BY <1>2, <2>1, SubSeqProperties
<1>6. SubSeq(u, a, b) = SubSeq(w, a, b)
  <2>1. \A i \in 1..(b - a + 1) : u[a + i - 1] = w[a + i - 1]
    BY <1>1, <1>2
  <2>2. \A i \in 1..Len(SubSeq(u, a, b)) : i \in 1..(b - a + 1)
    BY <1>2, <1>5
  <2> QED BY <1>4, <1>5, <2>1, <2>2, SeqEqual
<1>7. ASSUME a <= n + 1
      PROVE  SubSeq(u, a, n + 1) = Append(SubSeq(w, a, n), c)
  <2> DEFINE s == SubSeq(w, a, n)
             t == SubSeq(u, a, n + 1)
  <2>1. s \in Seq(S) /\ Len(s) = n - a + 1 /\ \A i \in 1..(n - a + 1) : s[i] = w[a + i - 1]
    <3>1. \A i \in a..n : w[i] \in S
      BY <1>1
    <3>2. s \in Seq(S) /\ Len(s) = (IF a <= n THEN n - a + 1 ELSE 0)
          /\ \A i \in 1..(n - a + 1) : s[i] = w[a + i - 1]
      BY <1>2, <3>1, SubSeqProperties
    <3> HIDE DEF s
    <3> QED BY <1>1, <1>7, <3>2
  <2>2. t \in Seq(S) /\ Len(t) = n - a + 2 /\ \A i \in 1..(n - a + 2) : t[i] = u[a + i - 1]
    <3>1. \A i \in a..(n + 1) : u[i] \in S
      BY <1>1, <1>3
    <3>2. t \in Seq(S) /\ Len(t) = (IF a <= n + 1 THEN n + 1 - a + 1 ELSE 0)
          /\ \A i \in 1..(n + 1 - a + 1) : t[i] = u[a + i - 1]
      BY <1>2, <3>1, SubSeqProperties
    <3>3. n + 1 - a + 1 = n - a + 2
      BY <1>1
    <3> HIDE DEF t
    <3> QED BY <1>7, <3>2, <3>3
  <2> HIDE DEF s, t
  <2>3. /\ Append(s, c) \in Seq(S) /\ Len(Append(s, c)) = n - a + 2
        /\ (\A i \in 1..(n - a + 1) : Append(s, c)[i] = s[i]) /\ Append(s, c)[n - a + 2] = c
    <3>1. n - a + 1 + 1 = n - a + 2
      BY <1>1
    <3> QED BY <2>1, <3>1, AppendProperties
  <2>4. \A i \in 1..(n - a + 2) : t[i] = Append(s, c)[i]
    <3> TAKE i \in 1..(n - a + 2)
    <3>1. CASE i = n - a + 2
      <4>1. a + i - 1 = n + 1
        BY <1>1, <3>1
      <4> QED BY <1>1, <2>2, <2>3, <3>1, <4>1
    <3>2. CASE i # n - a + 2
      <4>1. i \in 1..(n - a + 1) /\ a + i - 1 \in 1..n
        BY <1>1, <1>7, <3>2
      <4> QED BY <1>1, <2>1, <2>2, <2>3, <4>1
    <3> QED BY <3>1, <3>2
  <2>5. t = Append(s, c)
    BY <2>2, <2>3, <2>4, SeqEqual
  <2> QED BY <2>5 DEF s, t
<1> QED BY <1>4, <1>6, <1>7 DEF u, n

LEMMA SubSeqGrow ==
  ASSUME NEW S, NEW w \in Seq(S), NEW c \in S, NEW a \in 1..(Len(w) + 1)
  PROVE  SubSeq(Append(w, c), a, Len(w) + 1) = Append(SubSeq(w, a, Len(w)), c)
<1>1. Len(w) \in Nat /\ 0 \in 0..Len(w) /\ a \in Nat \ {0} /\ a <= Len(w) + 1
  BY LenProperties
<1> QED BY <1>1, SubSeqAppend

\* A part is a word; it is empty where a separator, or the end, follows at once.
LEMMA PartType ==
  ASSUME NEW S, NEW w \in Seq(S), NEW sep, NEW i \in 0..Len(w)
  PROVE  /\ Part(w, sep, i) \in Seq(S)
         /\ Part(w, sep, i) = <<>> <=> i = Len(w) \/ w[i + 1] = sep
<1> DEFINE n == Len(w)
           p == Part(w, sep, i)
<1>1. PICK e \in (i + 1)..(n + 1) : Ends(w, sep, i, e)
  BY PartEnds
<1>2. n \in Nat /\ (\A k \in 1..n : w[k] \in S) /\ At(w, sep) \subseteq 1..n
  BY LenProperties, AtWithin
<1>3. p = SubSeq(w, i + 1, e - 1)
  BY <1>1, PartIs
<1>4. \A k \in (i + 1)..(e - 1) : w[k] \in S
  BY <1>1, <1>2
<1>5. p \in Seq(S) /\ Len(p) = IF i + 1 <= e - 1 THEN e - 1 - (i + 1) + 1 ELSE 0
  <2>1. i + 1 \in Int /\ e - 1 \in Int
    BY <1>1, <1>2
  <2> QED BY <1>3, <1>4, <2>1, SubSeqProperties
<1> HIDE DEF p, n
<1>6. p = <<>> <=> e = i + 1
  <2>1. p = <<>> <=> Len(p) = 0
    BY <1>5, EmptySeq
  <2> QED BY <1>1, <1>2, <1>5, <2>1 DEF n
<1>7. e = i + 1 <=> i = n \/ w[i + 1] = sep
  <2>1. i \in 0..n
    BY DEF n
  <2>2. ASSUME e = i + 1
        PROVE  i = n \/ w[i + 1] = sep
    BY <1>1, <1>2, <2>1, <2>2 DEF Ends, At, n
  <2>3. ASSUME i # n, w[i + 1] = sep
        PROVE  e = i + 1
    <3>1. i + 1 \in At(w, sep)
      <4>1. i + 1 \in 1..n /\ DOMAIN w = 1..n
        BY <1>2, <2>1, <2>3, LenProperties DEF n
      <4> QED BY <2>3, <4>1 DEF At
    <3> QED BY <1>1, <1>2, <2>1, <3>1 DEF Ends
  <2>4. i = n => e = i + 1
    BY <1>1, <1>2, <2>1
  <2> QED BY <2>2, <2>3, <2>4
<1> QED BY <1>5, <1>6, <1>7 DEF p, n

\* A character more: only the last part changes, and a separator begins a new one.
LEMMA AppendPart ==
  ASSUME NEW S, NEW w \in Seq(S), NEW c \in S, NEW sep, NEW i \in 0..Len(w)
  PROVE  /\ (c = sep \/ \E k \in At(w, sep) : k > i) => Part(Append(w, c), sep, i) = Part(w, sep, i)
         /\ (c # sep /\ \A k \in At(w, sep) : k <= i)
              => Part(Append(w, c), sep, i) = Append(Part(w, sep, i), c)
<1> DEFINE u == Append(w, c)
           n == Len(w)
<1>1. PICK e \in (i + 1)..(n + 1) : Ends(w, sep, i, e)
  BY PartEnds
<1>2. /\ n \in Nat /\ At(w, sep) \subseteq 1..n /\ u \in Seq(S) /\ Len(u) = n + 1
      /\ At(u, sep) = IF c = sep THEN At(w, sep) \cup {n + 1} ELSE At(w, sep)
  BY AtWithin, AppendAt, AppendProperties
<1>3. Part(w, sep, i) = SubSeq(w, i + 1, e - 1)
  BY <1>1, PartIs
<1> HIDE DEF u, n
<1>4. i \in 0..n /\ i \in 0..Len(u) /\ i + 1 \in Nat \ {0} /\ e - 1 \in 0..n
  BY <1>1, <1>2 DEF n
<1>5. ASSUME c = sep \/ \E k \in At(w, sep) : k > i
      PROVE  Part(u, sep, i) = Part(w, sep, i)
  <2>1. Ends(u, sep, i, e)
    BY <1>1, <1>2, <1>4, <1>5 DEF Ends, n
  <2>2. Part(u, sep, i) = SubSeq(u, i + 1, e - 1)
    BY <1>2, <1>4, <2>1, PartIs
  <2> QED BY <1>3, <1>4, <2>2, SubSeqAppend DEF u, n
<1>6. ASSUME c # sep, \A k \in At(w, sep) : k <= i
      PROVE  Part(u, sep, i) = Append(Part(w, sep, i), c)
  <2>1. e = n + 1
    BY <1>1, <1>2, <1>4, <1>6 DEF Ends, n
  <2> DEFINE d == n + 2
  <2>2. Ends(u, sep, i, d)
    BY <1>2, <1>4, <1>6 DEF Ends
  <2>3. d - 1 = n + 1 /\ e - 1 = n /\ i + 1 \in 1..(n + 1)
    BY <1>2, <1>4, <2>1
  <2> HIDE DEF d
  <2>4. Part(u, sep, i) = SubSeq(u, i + 1, d - 1)
    BY <1>2, <1>4, <2>2, PartIs
  <2>5. SubSeq(u, i + 1, n + 1) = Append(SubSeq(w, i + 1, n), c)
    BY <2>3, SubSeqGrow DEF u, n
  <2> QED BY <1>3, <2>3, <2>4, <2>5
<1> QED BY <1>5, <1>6 DEF u

\* The part that is being typed.
Typed(w, sep) == Part(w, sep, LastAt(w, sep))

LEMMA AppendTyped ==
  ASSUME NEW S, NEW w \in Seq(S), NEW c \in S, NEW sep
  PROVE  /\ Typed(w, sep) \in Seq(S)
         /\ Typed(Append(w, c), sep) = IF c = sep THEN <<>> ELSE Append(Typed(w, sep), c)
         /\ \A i \in At(w, sep) \cup {0} : (c = sep \/ i # LastAt(w, sep))
              => Part(Append(w, c), sep, i) = Part(w, sep, i)
<1> DEFINE u == Append(w, c)
           l == LastAt(w, sep)
<1>1. /\ Len(w) \in Nat /\ At(w, sep) \subseteq 1..Len(w) /\ u \in Seq(S) /\ Len(u) = Len(w) + 1
      /\ LastAt(u, sep) = IF c = sep THEN Len(w) + 1 ELSE l
  BY AtWithin, AppendProperties, AppendLastAt
<1>2. l \in At(w, sep) \cup {0} /\ l \in 0..Len(w) /\ \A j \in At(w, sep) : j <= l
  BY LastAtIs
<1> HIDE DEF u, l
<1>3. Typed(w, sep) \in Seq(S)
  BY <1>2, PartType DEF Typed, l
<1>4. CASE c = sep
  <2>1. Len(w) + 1 \in 0..Len(u)
    BY <1>1
  <2>2. Typed(u, sep) = <<>>
    BY <1>1, <1>4, <2>1, PartType DEF Typed
  <2>3. \A i \in At(w, sep) \cup {0} : Part(u, sep, i) = Part(w, sep, i)
    <3> TAKE i \in At(w, sep) \cup {0}
    <3>1. i \in 0..Len(w)
      BY <1>1
    <3> QED BY <1>4, <3>1, AppendPart DEF u
  <2> QED BY <1>3, <1>4, <2>2, <2>3 DEF u
<1>5. CASE c # sep
  <2>1. Typed(u, sep) = Append(Typed(w, sep), c)
    BY <1>1, <1>2, <1>5, AppendPart DEF Typed, u, l
  <2>2. \A i \in At(w, sep) \cup {0} : i # l => Part(u, sep, i) = Part(w, sep, i)
    <3> TAKE i \in At(w, sep) \cup {0}
    <3> HAVE i # l
    <3>1. i \in 0..Len(w)
      BY <1>1
    <3>2. l \in At(w, sep) /\ l > i
      BY <1>1, <1>2
    <3> QED BY <3>1, <3>2, AppendPart DEF u
  <2> QED BY <1>3, <1>5, <2>1, <2>2 DEF u, l
<1> QED BY <1>4, <1>5

LEMMA NoWord ==
  ASSUME NEW sep
  PROVE  At(<<>>, sep) = {} /\ LastAt(<<>>, sep) = 0 /\ Typed(<<>>, sep) = <<>>
         /\ Part(<<>>, sep, 0) = <<>> /\ Cardinality(At(<<>>, sep)) = 0
<1>1. <<>> \in Seq({}) /\ Len(<<>>) = 0
  BY EmptySeq
<1>2. At(<<>>, sep) = {}
  BY <1>1, AtWithin
<1>3. LastAt(<<>>, sep) = 0
  BY <1>1, <1>2, LastAtIs
<1>4. 0 \in 0..Len(<<>>)
  BY <1>1
<1>5. Part(<<>>, sep, 0) = <<>>
  BY <1>1, <1>4, PartType
<1> QED BY <1>2, <1>3, <1>5, FS_EmptySet DEF Typed

-------------------------------------------------------------------------------
(***************************************************************************)
(* Numbers between separators: octets between dots, the two sides of a      *)
(* community                                                                *)
(***************************************************************************)
NumberTo(w, max) == IsNumber(w) /\ Number(w) <= max

\* Up to n separators, numbers between them, and maybe nothing yet after the last.
Listed(w, sep, max, n) ==
  /\ Cardinality(At(w, sep)) <= n
  /\ \A i \in At(w, sep) \cup {0} :
       NumberTo(Part(w, sep, i), max) \/ (i = LastAt(w, sep) /\ Part(w, sep, i) = <<>>)

\* n separators, and numbers between all of them.
Whole(w, sep, max, n) ==
  Cardinality(At(w, sep)) = n /\ \A i \in At(w, sep) \cup {0} : NumberTo(Part(w, sep, i), max)

LEMMA ListedWhole ==
  ASSUME NEW S, NEW w \in Seq(S), NEW sep, NEW max, NEW n \in Nat
  PROVE  Whole(w, sep, max, n) <=>
           Listed(w, sep, max, n) /\ Cardinality(At(w, sep)) = n /\ Typed(w, sep) # <<>>
<1>1. LastAt(w, sep) \in At(w, sep) \cup {0}
  BY LastAtIs
<1>2. \A p : NumberTo(p, max) => p # <<>>
  BY DEF NumberTo, IsNumber
<1> QED BY <1>1, <1>2 DEF Whole, Listed, Typed

\* The part that is typed is a number within the limit, or nothing yet.
LEMMA ListedTyped ==
  ASSUME NEW S, NEW w \in Seq(S), NEW sep, NEW max, NEW n, Listed(w, sep, max, n)
  PROVE  Typed(w, sep) = <<>> \/ (NumberTo(Typed(w, sep), max) /\ Number(Typed(w, sep)) \in Nat)
<1>1. LastAt(w, sep) \in At(w, sep) \cup {0}
  BY LastAtIs
<1>2. Typed(w, sep) \in Seq(S)
  BY <1>1, LastAtIs, PartType DEF Typed
<1> QED BY <1>1, <1>2, NumberType DEF Listed, NumberTo, IsNumber, Typed

LEMMA DigitMore ==
  ASSUME NEW S, NEW p \in Seq(S), NEW c \in S, NEW max \in 9..(ULLong - 1)
  PROVE  NumberTo(Append(p, c), max) <=>
           c \in Digits /\ (p = <<>> \/ (NumberTo(p, max) /\ Number(p) * 10 + Value(c) <= max))
<1>1. ULLong \in Nat /\ max \in Nat /\ 9 <= max /\ max < ULLong
  BY LimitAssumption
<1>2. /\ IsNumber(Append(p, c)) <=> c \in Digits /\ (p = <<>> \/ IsNumber(p))
      /\ IsNumber(Append(p, c)) => /\ Number(p) \in Nat
                                   /\ Number(Append(p, c)) = More(Number(p), Value(c))
                                   /\ Number(p) <= Number(Append(p, c))
  BY NumberMore
<1>3. \A v \in Nat, d \in Nat : More(v, d) <= max <=> v * 10 + d <= max
  BY <1>1 DEF More
<1>4. \A v \in Nat, d \in Nat : v * 10 + d <= max => v <= max
  BY <1>1
<1>5. c \in Digits => Value(c) \in Nat /\ Value(c) <= max
  BY <1>1, DigitValue
<1>6. CASE p = <<>>
  <2>1. Number(p) = 0 /\ 0 \in Nat
    BY <1>6, NumberEmpty
  <2>2. c \in Digits => More(0, Value(c)) <= max
    BY <1>3, <1>5
  <2> QED BY <1>2, <1>6, <2>1, <2>2 DEF NumberTo
<1>7. CASE p # <<>>
  BY <1>2, <1>3, <1>4, <1>5, <1>7 DEF NumberTo
<1> QED BY <1>6, <1>7

\* What a character makes of the beginning of a list of numbers.
LEMMA AppendListed ==
  ASSUME NEW S, NEW w \in Seq(S), NEW c \in S, NEW sep, sep \notin Digits,
         NEW max \in 9..(ULLong - 1), NEW n \in Nat
  PROVE  Listed(Append(w, c), sep, max, n) <=>
           /\ Listed(w, sep, max, n)
           /\ \/ c = sep /\ Typed(w, sep) # <<>> /\ Cardinality(At(w, sep)) < n
              \/ c \in Digits /\ (Typed(w, sep) = <<>> \/ Number(Typed(w, sep)) * 10 + Value(c) <= max)
<1> DEFINE u == Append(w, c)
           l == LastAt(w, sep)
           A == At(w, sep)
           t == Typed(w, sep)
           To(p) == NumberTo(p, max)
<1>1. /\ Len(w) \in Nat /\ A \subseteq 1..Len(w) /\ Cardinality(A) \in Nat
      /\ LastAt(u, sep) = IF c = sep THEN Len(w) + 1 ELSE l
      /\ At(u, sep) = IF c = sep THEN A \cup {Len(w) + 1} ELSE A
      /\ Cardinality(At(u, sep)) = Cardinality(A) + (IF c = sep THEN 1 ELSE 0)
  BY AtWithin, AppendLastAt, AppendAt, AtCount
<1>2. l \in A \cup {0} /\ l \in 0..Len(w) /\ t = Part(w, sep, l) /\ Len(w) + 1 \notin A \cup {0}
  BY <1>1, LastAtIs DEF Typed
<1>3. /\ t \in Seq(S)
      /\ Typed(u, sep) = IF c = sep THEN <<>> ELSE Append(t, c)
      /\ \A i \in A \cup {0} : (c = sep \/ i # l) => Part(u, sep, i) = Part(w, sep, i)
  <2>1. t \in Seq(S) /\ Typed(u, sep) = IF c = sep THEN <<>> ELSE Append(t, c)
    BY AppendTyped
  <2>2. \A i \in A \cup {0} : (c = sep \/ i # l) => Part(u, sep, i) = Part(w, sep, i)
    BY AppendTyped
  <2> QED BY <2>1, <2>2
<1>4. Part(u, sep, LastAt(u, sep)) = Typed(u, sep)
  BY DEF Typed
<1>5. /\ ~To(<<>>)
      /\ To(Append(t, c)) <=> c \in Digits /\ (t = <<>> \/ (To(t) /\ Number(t) * 10 + Value(c) <= max))
      /\ Append(t, c) # <<>>
  BY <1>3, DigitMore, AppendProperties DEF NumberTo, IsNumber
<1>6. Listed(w, sep, max, n) <=>
        /\ Cardinality(A) <= n
        /\ \A i \in A \cup {0} : i # l => To(Part(w, sep, i))
        /\ To(t) \/ t = <<>>
  <2>1. \A i \in A \cup {0} : i = l => Part(w, sep, i) = t
    BY <1>2
  <2> HIDE DEF l, A, t
  <2> QED BY <1>2, <1>5, <2>1 DEF Listed, l, A
<1> HIDE DEF u, l, A, t, To
<1>7. CASE c = sep
  <2>1. Listed(u, sep, max, n) <=> Cardinality(A) < n /\ \A i \in A \cup {0} : To(Part(w, sep, i))
    <3>1. Part(u, sep, Len(w) + 1) = <<>>
      BY <1>1, <1>3, <1>4, <1>7
    <3>2. \A i \in A \cup {0} : i # Len(w) + 1 /\ Part(u, sep, i) = Part(w, sep, i)
      BY <1>2, <1>3, <1>7
    <3>3. Listed(u, sep, max, n) <=>
            /\ Cardinality(A) + 1 <= n
            /\ \A i \in (A \cup {0}) \cup {Len(w) + 1} :
                 To(Part(u, sep, i)) \/ (i = Len(w) + 1 /\ Part(u, sep, i) = <<>>)
      BY <1>1, <1>7 DEF Listed, To
    <3>4. Cardinality(A) + 1 <= n <=> Cardinality(A) < n
      BY <1>1
    <3> QED BY <3>1, <3>2, <3>3, <3>4
  <2>2. (\A i \in A \cup {0} : To(Part(w, sep, i)))
          <=> To(t) /\ \A i \in A \cup {0} : i # l => To(Part(w, sep, i))
    BY <1>2
  <2>3. Cardinality(A) < n => Cardinality(A) <= n
    BY <1>1
  <2> QED BY <1>5, <1>6, <1>7, <2>1, <2>2, <2>3 DEF u, A, t
<1>8. CASE c # sep
  <2>1. Part(u, sep, l) = Append(t, c)
    BY <1>1, <1>3, <1>4, <1>8
  <2>2. \A i \in A \cup {0} : i # l => Part(u, sep, i) = Part(w, sep, i)
    BY <1>3
  <2>3. Listed(u, sep, max, n) <=>
          /\ Cardinality(A) <= n
          /\ \A i \in A \cup {0} : To(Part(u, sep, i)) \/ (i = l /\ Part(u, sep, i) = <<>>)
    <3>1. Cardinality(At(u, sep)) = Cardinality(A)
      BY <1>1, <1>8
    <3> QED BY <1>1, <1>8, <3>1 DEF Listed, To
  <2>4. Listed(u, sep, max, n) <=>
          /\ Cardinality(A) <= n
          /\ \A i \in A \cup {0} : i # l => To(Part(w, sep, i))
          /\ To(Append(t, c))
    BY <1>2, <1>5, <2>1, <2>2, <2>3
  <2> QED BY <1>5, <1>6, <1>8, <2>4 DEF u, A, t
<1> QED BY <1>7, <1>8

LEMMA NothingListed ==
  ASSUME NEW sep, NEW max, NEW n \in Nat
  PROVE  Listed(<<>>, sep, max, n)
BY NoWord DEF Listed

-------------------------------------------------------------------------------
(***************************************************************************)
(* The words of every kind                                                  *)
(***************************************************************************)
All == UNION {Chars[k] : k \in Kinds}

TypeInv == kind \in Kinds /\ word \in Seq(All)

LEMMA Typing == Spec => []TypeInv
<1>1. Init => TypeInv
  BY EmptySeq DEF Init, TypeInv
<1>2. TypeInv /\ [Next]_vars => TypeInv'
  <2> SUFFICES ASSUME TypeInv, [Next]_vars
               PROVE  TypeInv'
    OBVIOUS
  <2>1. CASE Next
    <3>1. PICK c \in Chars[kind] : Read(c)
      BY <2>1 DEF Next
    <3>2. c \in All
      BY DEF TypeInv, All
    <3> QED BY <3>1, <3>2, AppendProperties DEF TypeInv, Read
  <2>2. CASE UNCHANGED vars
    BY <2>2 DEF TypeInv, vars
  <2> QED BY <2>1, <2>2
<1> QED BY <1>1, <1>2, PTL DEF Spec

\* A step is a character more.
LEMMA OneMore ==
  ASSUME TypeInv, Next
  PROVE  \E c \in All : word' = Append(word, c) /\ read' = Matcher(read, c) /\ kind' = kind
<1>1. PICK c \in Chars[kind] : Read(c)
  BY DEF Next
<1>2. c \in All
  BY DEF TypeInv, All
<1> QED BY <1>1, <1>2 DEF Read

LEMMA Separators ==
  /\ Digits \subseteq Xdigits /\ \E x : x \in Xdigits
  /\ "." \notin Xdigits /\ ":" \notin Xdigits /\ "/" \notin Xdigits
  /\ "-" \notin Xdigits /\ "+" \notin Xdigits
BY CharAssumption

LEMMA Limits ==
  /\ MaxOctet \in 9..(ULLong - 1) /\ MaxPart \in 9..(ULLong - 1)
  /\ MaxLength4 \in 0..(ULLong - 1) /\ MaxLength6 \in 0..(ULLong - 1)
  /\ RangeMin \in Nat /\ RangeMax \in Nat /\ RangeMax + 1 < ULLong
  /\ ULLong \in Nat /\ ULLong > 0 /\ Groups \in Nat /\ Groups > 1
  /\ MaxXdigits \in Nat /\ MaxXdigits > 0
BY LimitAssumption

-------------------------------------------------------------------------------
(***************************************************************************)
(* Ranges                                                                   *)
(***************************************************************************)
\* What has been read of a number is the number.
RangeInv ==
  kind = "Range" =>
    /\ word = <<>> => read = StartR
    /\ IsNumber(word) => read = [state |-> "digit", negative |-> FALSE, val |-> Number(word)]

LEMMA RangeStep == TypeInv /\ RangeInv /\ [Next]_vars => RangeInv'
<1> SUFFICES ASSUME TypeInv, RangeInv, [Next]_vars
             PROVE  RangeInv'
  OBVIOUS
<1>1. CASE Next
  <2> SUFFICES ASSUME kind = "Range"
               PROVE  RangeInv'
    BY <1>1, OneMore DEF RangeInv
  <2>1. PICK c \in All : word' = Append(word, c) /\ read' = Matcher(read, c) /\ kind' = kind
    BY <1>1, OneMore
  <2>2. word \in Seq(All) /\ word' # <<>>
    BY <2>1, AppendProperties DEF TypeInv
  <2> SUFFICES ASSUME IsNumber(word')
               PROVE  read' = [state |-> "digit", negative |-> FALSE, val |-> Number(word')]
    BY <2>1, <2>2 DEF RangeInv
  <2>3. /\ c \in Digits /\ (word = <<>> \/ IsNumber(word))
        /\ Number(word) \in Nat /\ Number(word') = More(Number(word), Value(c))
    BY <2>1, <2>2, NumberMore
  <2>4. c \notin {"-", "+"}
    BY <2>3, Separators
  <2>5. \E s : read = [state |-> s, negative |-> FALSE, val |-> Number(word)] /\ s # "refused"
    <3>1. CASE word = <<>>
      BY <3>1, NumberEmpty DEF RangeInv, StartR
    <3>2. CASE IsNumber(word)
      BY <3>2 DEF RangeInv
    <3> QED BY <2>3, <3>1, <3>2
  <2>6. read # Refused
    BY <2>5 DEF Refused
  <2>7. read' = ReadRange(read, c)
    BY <2>1, <2>6 DEF Matcher
  <2>8. read' = [read EXCEPT !.state = "digit", !.val = More(read.val, Value(c))]
    BY <2>3, <2>4, <2>7 DEF ReadRange, More
  <2>9. PICK s : read = [state |-> s, negative |-> FALSE, val |-> Number(word)]
    BY <2>5
  <2> DEFINE m == Number(word)
             n == Number(word')
             k == More(m, Value(c))
  <2>10. m = Number(word) /\ n = k /\ read.val = m
    BY <2>3, <2>9
  <2> HIDE DEF k, m, n
  <2>11. read = [state |-> s, negative |-> FALSE, val |-> m]
    BY <2>9, <2>10
  <2>12. read' = [read EXCEPT !.state = "digit", !.val = k]
    BY <2>8, <2>10 DEF k
  <2>13. read' = [state |-> "digit", negative |-> FALSE, val |-> k]
    BY <2>11, <2>12
  <2> QED BY <2>10, <2>13 DEF n
<1>2. CASE UNCHANGED vars
  BY <1>2 DEF RangeInv, vars, StartR, IsNumber, Number
<1> QED BY <1>1, <1>2

\* A number without a sign is in the range or not, however long it is: what does
\* not fit an unsigned long long is above every range that a definition can hold,
\* and the empty word is 0 (CliNodeRange::cli_match).
THEOREM RangeCorrect == Spec => []RangeExact
<1>1. Init => RangeInv
  BY DEF Init, RangeInv, IsNumber, StartR
<1>2. TypeInv /\ RangeInv => RangeExact
  <2> SUFFICES ASSUME TypeInv, RangeInv, kind = "Range", word = <<>> \/ IsNumber(word)
               PROVE  Full <=> Number(word) \in RangeMin..RangeMax
    BY DEF RangeExact
  <2>1. \E s \in {"init", "digit"} : read = [state |-> s, negative |-> FALSE, val |-> Number(word)]
    <3>1. CASE word = <<>>
      BY <3>1, NumberEmpty DEF RangeInv, StartR
    <3>2. CASE IsNumber(word)
      BY <3>2 DEF RangeInv
    <3> QED BY <3>1, <3>2
  <2>2. read # Refused /\ read.state # "sign" /\ ~read.negative /\ read.val = Number(word)
    BY <2>1 DEF Refused
  <2>3. Number(word) \in Nat /\ Number(word) <= ULLong
    <3>1. ToSet(word) \subseteq Digits
      BY DEF IsNumber, ToSet
    <3> QED BY <3>1, NumberType DEF TypeInv
  <2>4. Full <=> InRange(read)
    BY <2>2 DEF Full, Complete
  <2>5. Strtoull(read) = IF Number(word) = ULLong THEN ULLong - 1 ELSE Number(word)
    BY <2>2 DEF Strtoull
  <2> DEFINE n == Number(word)
  <2> HIDE DEF n
  <2>6. n \in Nat => ((IF n = ULLong THEN ULLong - 1 ELSE n) >= RangeMin
                       /\ (IF n = ULLong THEN ULLong - 1 ELSE n) <= RangeMax /\ n <= ULLong
                       <=> n \in RangeMin..RangeMax)
    BY Limits
  <2> QED BY <2>2, <2>3, <2>4, <2>5, <2>6 DEF InRange, n
<1> QED BY <1>1, <1>2, Typing, RangeStep, PTL DEF Spec

\* The number with one more digit, within a limit.
LEMMA AppendNumber ==
  ASSUME NEW S, NEW p \in Seq(S), NEW c \in S, NEW max \in 0..(ULLong - 1), NumberTo(Append(p, c), max)
  PROVE  /\ c \in Digits /\ (p = <<>> \/ (NumberTo(p, max) /\ Number(p) * 10 + Value(c) <= max))
         /\ Number(Append(p, c)) = IF p = <<>> THEN Value(c) ELSE Number(p) * 10 + Value(c)
<1>1. ULLong \in Nat /\ max \in Nat /\ max < ULLong
  BY LimitAssumption
<1>2. /\ c \in Digits /\ (p = <<>> \/ IsNumber(p))
      /\ Number(p) \in Nat /\ Number(Append(p, c)) = More(Number(p), Value(c))
  BY NumberMore DEF NumberTo
<1>3. Value(c) \in Nat /\ Value(c) <= 9
  BY <1>2, DigitValue
<1>4. Number(Append(p, c)) = Number(p) * 10 + Value(c)
  BY <1>1, <1>2, <1>3 DEF NumberTo, More
<1>5. p = <<>> => Number(p) * 10 + Value(c) = Value(c)
  BY <1>3, NumberEmpty
<1>6. Number(p) * 10 + Value(c) <= max /\ Number(p) <= max
  BY <1>1, <1>2, <1>3, <1>4 DEF NumberTo
<1> QED BY <1>2, <1>4, <1>5, <1>6 DEF NumberTo

LEMMA TypedWord ==
  ASSUME NEW S, NEW w \in Seq(S), NEW sep
  PROVE  /\ Cardinality(At(w, sep)) = 0 <=> At(w, sep) = {}
         /\ At(w, sep) = {} => (Typed(w, sep) = <<>> <=> w = <<>>)
         /\ w = <<>> => Typed(w, sep) = <<>>
<1>1. IsFiniteSet(At(w, sep)) /\ LastAt(w, sep) \in At(w, sep) \cup {0} /\ Len(w) \in Nat
  BY AtWithin, LastAtIs
<1>2. Cardinality(At(w, sep)) = 0 <=> At(w, sep) = {}
  BY <1>1, FS_EmptySet
<1>3. w = <<>> => Typed(w, sep) = <<>>
  BY NoWord
<1>4. ASSUME At(w, sep) = {}, Typed(w, sep) = <<>>
      PROVE  w = <<>>
  <2>1. 0 \in 0..Len(w) /\ Part(w, sep, 0) = <<>>
    BY <1>1, <1>4 DEF Typed
  <2>2. 0 = Len(w) \/ w[1] = sep
    BY <2>1, PartType
  <2>3. ASSUME Len(w) # 0
        PROVE  FALSE
    <3>1. 1 \in DOMAIN w
      BY <1>1, <2>3, LenProperties
    <3> QED BY <1>4, <2>2, <2>3, <3>1 DEF At
  <2> QED BY <2>3, EmptySeq
<1> QED BY <1>2, <1>3, <1>4

-------------------------------------------------------------------------------
(***************************************************************************)
(* Communities                                                              *)
(***************************************************************************)
CommunityAt(w) ==
  IF w = <<>> THEN "init" ELSE IF Typed(w, ":") = <<>> THEN "colon"
  ELSE IF At(w, ":") = {} THEN "aa" ELSE "nn"

\* What has been read of the number that is typed is the number; what cannot become
\* a community any more is refused, and nothing else.
CommunityInv ==
  kind = "Community" =>
    IF Listed(word, ":", MaxPart, 1)
    THEN \E p : /\ read = [state |-> CommunityAt(word), part |-> p]
                /\ Typed(word, ":") # <<>> => p = Number(Typed(word, ":"))
    ELSE read = Refused

LEMMA CommunityStep == TypeInv /\ CommunityInv /\ [Next]_vars => CommunityInv'
<1> DEFINE colon == ":"
<1>0. colon \notin Digits /\ colon = ":"
  BY Separators
<1> HIDE DEF colon
<1> SUFFICES ASSUME TypeInv, CommunityInv, [Next]_vars
             PROVE  CommunityInv'
  OBVIOUS
<1>1. CASE Next
  <2> SUFFICES ASSUME kind = "Community"
               PROVE  CommunityInv'
    BY <1>1, OneMore DEF CommunityInv
  <2>1. PICK c \in All : word' = Append(word, c) /\ read' = Matcher(read, c) /\ kind' = kind
    BY <1>1, OneMore
  <2> DEFINE t == Typed(word, colon)
             u == Typed(word', colon)
             L(w) == Listed(w, colon, MaxPart, 1)
  <2>2. word \in Seq(All) /\ word' # <<>> /\ word' \in Seq(All)
    BY <2>1, AppendProperties DEF TypeInv
  <2>3. L(word') <=> /\ L(word)
                     /\ \/ c = colon /\ t # <<>> /\ Cardinality(At(word, colon)) < 1
                        \/ c \in Digits /\ (t = <<>> \/ Number(t) * 10 + Value(c) <= MaxPart)
    <3>1. MaxPart \in 9..(ULLong - 1) /\ 1 \in Nat
      BY Limits
    <3> QED BY <1>0, <2>1, <2>2, <3>1, AppendListed
  <2>4. t \in Seq(All) /\ u = IF c = colon THEN <<>> ELSE Append(t, c)
    BY <2>1, <2>2, AppendTyped
  <2>5. At(word', colon) = IF c = colon THEN At(word, colon) \cup {Len(word) + 1} ELSE At(word, colon)
    BY <2>1, <2>2, AppendAt
  <2>6. /\ Cardinality(At(word, colon)) \in Nat
        /\ Cardinality(At(word, colon)) < 1 <=> At(word, colon) = {}
    BY <2>2, AtWithin, TypedWord
  <2>7. L(word') /\ u # <<>> => u = Append(t, c) /\ c \in Digits
                                /\ Number(u) = IF t = <<>> THEN Value(c) ELSE Number(t) * 10 + Value(c)
    <3> SUFFICES ASSUME L(word'), u # <<>>
                 PROVE  u = Append(t, c) /\ c \in Digits
                        /\ Number(u) = IF t = <<>> THEN Value(c) ELSE Number(t) * 10 + Value(c)
      OBVIOUS
    <3>1. NumberTo(u, MaxPart)
      BY <2>2, ListedTyped
    <3>2. u = Append(t, c) /\ c \in Digits
      BY <1>0, <2>3, <2>4
    <3>3. MaxPart \in 0..(ULLong - 1)
      BY Limits
    <3> QED BY <2>4, <3>1, <3>2, <3>3, AppendNumber
  <2>8. t # <<>> => word # <<>>
    BY <2>2, TypedWord
  <2>9. u = <<>> <=> c = colon
    BY <2>4, AppendProperties
  <2> HIDE DEF t, u, L
  <2>10. CASE ~L(word)
    <3>1. read = Refused
      BY <1>0, <2>10 DEF CommunityInv, L
    <3>2. read' = Refused
      BY <2>1, <3>1 DEF Matcher
    <3> QED BY <1>0, <2>1, <2>3, <2>10, <3>2 DEF CommunityInv, L
  <2>11. CASE L(word)
    <3>1. PICK p : /\ read = [state |-> CommunityAt(word), part |-> p]
                   /\ t # <<>> => p = Number(t)
      BY <1>0, <2>11 DEF CommunityInv, L, t
    <3> DEFINE st == CommunityAt(word)
    <3>2. /\ st \in {"init", "colon", "aa", "nn"} /\ (st = "init" <=> word = <<>>)
          /\ st \in {"init", "colon"} <=> t = <<>>
          /\ (st = "aa" <=> t # <<>> /\ At(word, colon) = {})
      BY <1>0, <2>8 DEF CommunityAt, t
    <3>3. read # Refused /\ read.state = st /\ read.part = p
      BY <3>1, <3>2 DEF Refused
    <3>4. read' = Community(read, c)
      BY <2>1, <3>3 DEF Matcher
    <3>5. CommunityAt(word') = IF u = <<>> THEN "colon" ELSE IF At(word', colon) = {} THEN "aa" ELSE "nn"
      BY <1>0, <2>2 DEF CommunityAt, u
    <3> HIDE DEF st
    <3> DEFINE next == [state |-> IF st = "init" THEN "aa" ELSE "nn", part |-> Value(c)]
               more == p * 10 + Value(c)
    <3>6. CASE c = colon
      <4>1. c \notin Digits
        BY <1>0, <3>6
      <4>2. L(word') <=> st = "aa"
        BY <2>3, <2>6, <2>11, <3>2, <3>6, <4>1
      <4>3. read' = IF st = "aa" THEN [read EXCEPT !.state = "colon"] ELSE Refused
        BY <1>0, <3>3, <3>4, <3>6, <4>1 DEF Community
      <4>4. st = "aa" => read' = [state |-> CommunityAt(word'), part |-> p] /\ u = <<>>
        BY <2>9, <3>1, <3>5, <3>6, <4>3
      <4> QED BY <1>0, <4>2, <4>3, <4>4 DEF CommunityInv, L, u
    <3>7. CASE c \in Digits /\ t = <<>>
      <4>1. L(word') /\ c # colon
        BY <1>0, <2>3, <2>11, <3>7
      <4>2. st \in {"init", "colon"} /\ At(word', colon) = At(word, colon)
        BY <2>5, <3>2, <3>7, <4>1
      <4>3. st = "init" <=> At(word, colon) = {}
        <5>1. At(word, colon) = {} => (t = <<>> <=> word = <<>>)
          BY <2>2, TypedWord DEF t
        <5>2. word = <<>> => At(word, colon) = {}
          BY NoWord
        <5> QED BY <3>2, <3>7, <5>1, <5>2
      <4>4. read' = next
        BY <3>3, <3>4, <3>7, <4>2 DEF Community
      <4>5. read' = [state |-> CommunityAt(word'), part |-> Value(c)]
        BY <2>9, <3>5, <4>1, <4>2, <4>3, <4>4
      <4>6. u # <<>> /\ Number(u) = Value(c)
        BY <2>7, <2>9, <3>7, <4>1
      <4> QED BY <1>0, <4>1, <4>5, <4>6 DEF CommunityInv, L, u
    <3>8. CASE c \in Digits /\ t # <<>>
      <4>1. c # colon /\ (L(word') <=> more <= MaxPart)
        BY <1>0, <2>3, <2>11, <3>1, <3>8
      <4>2. st \in {"aa", "nn"} /\ st \notin {"init", "colon"} /\ At(word', colon) = At(word, colon)
        BY <2>5, <3>2, <3>8, <4>1
      <4>3. read' = IF more <= MaxPart THEN [read EXCEPT !.part = more] ELSE Refused
        BY <1>0, <3>3, <3>4, <3>8, <4>1, <4>2 DEF Community
      <4>4. more <= MaxPart => read' = [state |-> CommunityAt(word'), part |-> more]
        <5>1. st = CommunityAt(word')
          BY <2>9, <3>2, <3>5, <3>8, <4>1, <4>2
        <5> HIDE DEF more
        <5> QED BY <3>1, <4>3, <5>1 DEF st
      <4>5. L(word') => u # <<>> /\ Number(u) = more
        BY <2>7, <2>9, <3>1, <3>8, <4>1
      <4> QED BY <1>0, <4>1, <4>3, <4>4, <4>5 DEF CommunityInv, L, u
    <3>9. CASE c # colon /\ c \notin Digits
      <4>1. ~L(word')
        BY <2>3, <3>9
      <4>2. read' = Refused
        BY <1>0, <3>3, <3>4, <3>9 DEF Community
      <4> QED BY <1>0, <4>1, <4>2 DEF CommunityInv, L
    <3> QED BY <3>6, <3>7, <3>8, <3>9
  <2> QED BY <2>10, <2>11
<1>2. CASE UNCHANGED vars
  BY <1>2 DEF CommunityInv, vars
<1> QED BY <1>1, <1>2

\* A community is two numbers with a colon between them.
LEMMA WholeCommunity ==
  ASSUME NEW S, NEW w \in Seq(S), NEW sep, sep \notin Digits, NEW max
  PROVE  LET i == LastAt(w, sep)
         IN  (i > 0 /\ NumberTo(SubSeq(w, 1, i - 1), max) /\ NumberTo(SubSeq(w, i + 1, Len(w)), max))
               <=> Whole(w, sep, max, 1)
<1> DEFINE i == LastAt(w, sep)
           A == At(w, sep)
           n == Len(w)
<1>1. /\ n \in Nat /\ A \subseteq 1..n /\ IsFiniteSet(A) /\ Cardinality(A) \in Nat
      /\ i \in A \cup {0} /\ i \in 0..n /\ \A j \in A : j <= i
  BY AtWithin, LastAtIs
<1>2. \A k \in 0..n : \A e : Ends(w, sep, k, e) => Part(w, sep, k) = SubSeq(w, k + 1, e - 1)
  BY PartIs DEF n
<1>3. A = {i} => Part(w, sep, 0) = SubSeq(w, 1, i - 1) /\ Part(w, sep, i) = SubSeq(w, i + 1, n)
  <2> SUFFICES ASSUME A = {i}
               PROVE  Part(w, sep, 0) = SubSeq(w, 1, i - 1) /\ Part(w, sep, i) = SubSeq(w, i + 1, n)
    OBVIOUS
  <2> DEFINE e == n + 1
  <2>1. Ends(w, sep, 0, i) /\ Ends(w, sep, i, e)
    <3> HIDE DEF A, n, i
    <3>1. i \in 1..n /\ \A k \in A : k = i
      BY <1>1
    <3> QED BY <1>1, <3>1 DEF Ends, A, n
  <2>2. 0 \in 0..n /\ i \in 0..n /\ 0 + 1 = 1 /\ e - 1 = n
    BY <1>1
  <2> HIDE DEF n, i, e
  <2>3. Part(w, sep, 0) = SubSeq(w, 0 + 1, i - 1)
    BY <1>2, <2>1, <2>2
  <2>4. Part(w, sep, i) = SubSeq(w, i + 1, e - 1)
    BY <1>2, <2>1, <2>2
  <2> QED BY <2>2, <2>3, <2>4
<1> HIDE DEF i, A, n
<1>4. ASSUME i > 0, NumberTo(SubSeq(w, 1, i - 1), max), NumberTo(SubSeq(w, i + 1, n), max)
      PROVE  Whole(w, sep, max, 1)
  <2>1. i \in A /\ i \in 1..n
    BY <1>1, <1>4
  <2>2. A = {i}
    <3> SUFFICES ASSUME NEW j \in A, j # i
                 PROVE  FALSE
      BY <2>1
    <3>1. j \in 1..(i - 1) /\ w[j] = sep
      BY <1>1, <2>1 DEF A, At
    <3>2. \A k \in 1..(i - 1) : w[k] \in S
      BY <1>1, <2>1, ElementOfSeq DEF n
    <3> DEFINE s == SubSeq(w, 1, i - 1)
    <3>3. s \in Seq(S) /\ Len(s) = i - 1 /\ \A k \in 1..(i - 1) : s[k] = w[k]
      <4>1. 1 \in Int /\ i - 1 \in Int /\ i - 1 - 1 + 1 = i - 1
        BY <1>1, <2>1
      <4>2. Len(s) = (IF 1 <= i - 1 THEN i - 1 - 1 + 1 ELSE 0)
            /\ s \in Seq(S) /\ \A k \in 1..(i - 1 - 1 + 1) : s[k] = w[1 + k - 1]
        BY <3>2, <4>1, SubSeqProperties
      <4> HIDE DEF s
      <4>3. \A k \in 1..(i - 1) : 1 + k - 1 = k
        BY <1>1
      <4> QED BY <1>1, <2>1, <4>1, <4>2, <4>3
    <3> HIDE DEF s
    <3>4. j \in DOMAIN s
      BY <3>1, <3>3, LenProperties
    <3>5. s[j] \in Digits
      BY <1>4, <3>4 DEF NumberTo, IsNumber, ToSet, s
    <3> QED BY <3>1, <3>3, <3>5
  <2>3. Cardinality(A) = 1
    BY <2>2, FS_Singleton
  <2> QED BY <1>3, <1>4, <2>2, <2>3 DEF Whole, A
<1>5. ASSUME Whole(w, sep, max, 1)
      PROVE  i > 0 /\ NumberTo(SubSeq(w, 1, i - 1), max) /\ NumberTo(SubSeq(w, i + 1, n), max)
  <2>1. PICK j : A = {j}
    BY <1>1, <1>5, FS_Singleton DEF Whole, A
  <2>2. i = j /\ i > 0 /\ A = {i}
    BY <1>1, <2>1
  <2> QED BY <1>3, <1>5, <2>2 DEF Whole, A
<1> QED BY <1>4, <1>5 DEF i, n

\* A word is a community, AA:NN with both sides within 16 bits, exactly if the
\* matcher takes it (CliNodeCommunity::cli_match).
THEOREM CommunityCorrect == Spec => []CommunityExact
<1>1. Init => CommunityInv
  <2> SUFFICES ASSUME Init, kind = "Community"
               PROVE  CommunityInv
    BY DEF CommunityInv
  <2>1. word = <<>> /\ read = StartC
    BY DEF Init
  <2>2. Listed(word, ":", MaxPart, 1) /\ Typed(word, ":") = <<>>
    BY <2>1, NothingListed, NoWord
  <2>3. read = [state |-> CommunityAt(word), part |-> 0]
    BY <2>1 DEF CommunityAt, StartC
  <2> QED BY <2>2, <2>3 DEF CommunityInv
<1>2. TypeInv /\ CommunityInv => CommunityExact
  <2> DEFINE colon == ":"
  <2>0. colon \notin Digits /\ colon = ":"
    BY Separators
  <2> HIDE DEF colon
  <2> SUFFICES ASSUME TypeInv, CommunityInv, kind = "Community"
               PROVE  CommunityExact
    BY DEF CommunityExact
  <2> DEFINE t == Typed(word, colon)
             A == At(word, colon)
  <2>1. CommunityExact <=> (Full <=> Whole(word, colon, MaxPart, 1))
    <3>1. LET i == LastAt(word, colon)
          IN  (i > 0 /\ NumberTo(SubSeq(word, 1, i - 1), MaxPart)
                 /\ NumberTo(SubSeq(word, i + 1, Len(word)), MaxPart))
                <=> Whole(word, colon, MaxPart, 1)
      BY <2>0, WholeCommunity DEF TypeInv
    <3> QED BY <2>0, <3>1 DEF CommunityExact, NumberTo
  <2>2. Whole(word, colon, MaxPart, 1) <=>
          Listed(word, colon, MaxPart, 1) /\ Cardinality(A) = 1 /\ t # <<>>
    <3>1. 1 \in Nat
      OBVIOUS
    <3> QED BY <3>1, ListedWhole DEF TypeInv
  <2>3. /\ Cardinality(A) \in Nat /\ (Cardinality(A) = 0 <=> A = {})
        /\ t # <<>> => word # <<>>
    BY AtWithin, TypedWord DEF TypeInv
  <2> HIDE DEF t, A
  <2>4. CASE ~Listed(word, colon, MaxPart, 1)
    <3>1. read = Refused
      BY <2>0, <2>4 DEF CommunityInv
    <3> QED BY <2>1, <2>2, <2>4, <3>1 DEF Full
  <2>5. CASE Listed(word, colon, MaxPart, 1)
    <3>1. PICK p : read = [state |-> CommunityAt(word), part |-> p]
      BY <2>0, <2>5 DEF CommunityInv
    <3>2. /\ CommunityAt(word) \in {"init", "colon", "aa", "nn"}
          /\ CommunityAt(word) = "nn" <=> t # <<>> /\ A # {}
      BY <2>0, <2>3 DEF CommunityAt, t, A
    <3>3. Full <=> CommunityAt(word) = "nn"
      BY <3>1, <3>2 DEF Full, Complete, Refused
    <3>4. Cardinality(A) <= 1
      BY <2>5 DEF Listed, A
    <3>5. A # {} <=> Cardinality(A) = 1
      BY <2>3, <3>4
    <3> QED BY <2>1, <2>2, <2>5, <3>2, <3>3, <3>5
  <2> QED BY <2>4, <2>5
<1> QED BY <1>1, <1>2, Typing, CommunityStep, PTL DEF Spec

-------------------------------------------------------------------------------
(***************************************************************************)
(* The length after the slash of a prefix                                   *)
(***************************************************************************)
\* What is before the last slash; Typed(w, "/") is what is after it.
UpTo(w, sep) == SubSeq(w, 1, LastAt(w, sep) - 1)

LEMMA AppendUpTo ==
  ASSUME NEW S, NEW w \in Seq(S), NEW c \in S, NEW sep
  PROVE  /\ Typed(w, sep) = SubSeq(w, LastAt(w, sep) + 1, Len(w))
         /\ c = sep => UpTo(Append(w, c), sep) = w /\ LastAt(Append(w, c), sep) = Len(w) + 1
         /\ c # sep => LastAt(Append(w, c), sep) = LastAt(w, sep)
         /\ c # sep /\ LastAt(w, sep) > 0 => UpTo(Append(w, c), sep) = UpTo(w, sep)
<1> DEFINE l == LastAt(w, sep)
           n == Len(w)
           u == Append(w, c)
           e == n + 1
<1>1. /\ n \in Nat /\ l \in 0..n /\ LastAt(u, sep) = IF c = sep THEN n + 1 ELSE l
      /\ \A j \in At(w, sep) : j <= l
  BY AtWithin, LastAtIs, AppendLastAt
<1>2. \A b \in 0..n : SubSeq(u, 1, b) = SubSeq(w, 1, b)
  <2>1. 1 \in Nat \ {0}
    OBVIOUS
  <2> QED BY <2>1, SubSeqAppend
<1>3. SubSeq(w, 1, n) = w
  BY SubSeqFull
<1>4. Ends(w, sep, l, e)
  <2>1. l \in Nat /\ e \in Nat /\ e > l /\ \A j \in At(w, sep) : ~(j > l)
    <3> HIDE DEF l, n
    <3>1. At(w, sep) \subseteq 1..n
      BY AtWithin DEF n
    <3> QED BY <1>1, <3>1
  <2> HIDE DEF l
  <2> QED BY <2>1 DEF Ends
<1>5. e - 1 = n /\ l \in 0..n
  BY <1>1
<1> HIDE DEF l, n, u, e
<1>6. Part(w, sep, l) = SubSeq(w, l + 1, e - 1)
  BY <1>4, <1>5, PartIs DEF n
<1>7. n + 1 - 1 = n /\ n \in 0..n /\ (l > 0 => l - 1 \in 0..n)
  BY <1>1
<1>8. c = sep => UpTo(u, sep) = w
  BY <1>1, <1>2, <1>3, <1>7 DEF UpTo
<1>9. c # sep /\ l > 0 => UpTo(u, sep) = UpTo(w, sep)
  BY <1>1, <1>2, <1>7 DEF UpTo, l
<1> QED BY <1>1, <1>5, <1>6, <1>8, <1>9 DEF Typed, l, n, u

\* After a slash, Plen reads a number.
AtLength(r, n) == [r EXCEPT !.state = "plen", !.plen = n]

LEMMA PlenReads ==
  ASSUME NEW r, NEW S, NEW p \in Seq(S), NEW c \in S, NEW max \in 0..(ULLong - 1),
         r.state = IF p = <<>> THEN "slash" ELSE "plen", p # <<>> => r.plen = Number(p),
         NumberTo(Append(p, c), max)
  PROVE  Plen(r, c, max) = AtLength(r, Number(Append(p, c)))
<1>1. /\ c \in Digits /\ (p = <<>> \/ (NumberTo(p, max) /\ Number(p) * 10 + Value(c) <= max))
      /\ Number(Append(p, c)) = IF p = <<>> THEN Value(c) ELSE Number(p) * 10 + Value(c)
  BY AppendNumber
<1>2. CASE p = <<>>
  <2>1. r.state = "slash"
    BY <1>2
  <2> QED BY <1>1, <1>2, <2>1 DEF Plen, AtLength
<1>3. CASE p # <<>>
  <2> DEFINE v == Number(p) * 10 + Value(c)
  <2>1. r.state = "plen" /\ v <= max /\ v = r.plen * 10 + Value(c)
    BY <1>1, <1>3
  <2>2. Plen(r, c, max) = [r EXCEPT !.plen = v]
    BY <1>1, <2>1 DEF Plen
  <2> HIDE DEF v
  <2>3. [r EXCEPT !.plen = v] = [r EXCEPT !.state = "plen", !.plen = v]
    BY <2>1
  <2> QED BY <1>1, <1>3, <2>2, <2>3 DEF v, AtLength
<1> QED BY <1>2, <1>3

-------------------------------------------------------------------------------
(***************************************************************************)
(* IPv4 addresses and prefixes                                              *)
(***************************************************************************)
In4 == {"IPv4Address", "IPv4Prefix"}

IPv4At(w) ==
  IF w = <<>> THEN "init" ELSE IF Typed(w, ".") = <<>> THEN "dot" ELSE "digit"

LEMMA BeginsListed ==
  ASSUME NEW w
  PROVE  /\ BeginsIPv4(w) <=> Listed(w, ".", MaxOctet, 3)
         /\ IsIPv4(w) <=> Whole(w, ".", MaxOctet, 3)
BY DEF BeginsIPv4, IsIPv4, IsOctet, Listed, Whole, NumberTo

\* Before a slash, the locals say of the word how many octets it has, and the one
\* that is typed; what cannot become an address is refused, and nothing else.
IPv4Reads ==
  kind \in In4 /\ (kind = "IPv4Address" \/ At(word, "/") = {}) =>
    IF BeginsIPv4(word)
    THEN \E v : /\ read = [state |-> IPv4At(word), val |-> v, dots |-> Cardinality(At(word, ".")),
                           octets |-> Cardinality(At(word, ".")) + (IF Typed(word, ".") = <<>> THEN 0 ELSE 1),
                           plen |-> 0]
                /\ Typed(word, ".") # <<>> => v = Number(Typed(word, "."))
    ELSE read = Refused

\* After the slash of an address, the locals say of the word which length it has.
IPv4Length ==
  (kind = "IPv4Prefix" /\ LastAt(word, "/") > 0 /\ IsIPv4(UpTo(word, "/"))
     /\ (Typed(word, "/") = <<>> \/ NumberTo(Typed(word, "/"), MaxLength4))) =>
    \E v, d, o, p :
      /\ read = [state |-> IF Typed(word, "/") = <<>> THEN "slash" ELSE "plen",
                 val |-> v, dots |-> d, octets |-> o, plen |-> p]
      /\ Typed(word, "/") # <<>> => p = Number(Typed(word, "/"))

IPv4Inv ==
  /\ kind \in In4 => (BeginsIPv4(word) => At(word, "/") = {})
  /\ IPv4Reads
  /\ IPv4Length

\* A character more, before a slash.
LEMMA IPv4Char ==
  ASSUME TypeInv, NEW c \in All, word' = Append(word, c)
  PROVE  /\ BeginsIPv4(word') <=>
              /\ BeginsIPv4(word)
              /\ \/ c = "." /\ Typed(word, ".") # <<>> /\ Cardinality(At(word, ".")) < 3
                 \/ /\ c \in Digits
                    /\ \/ Typed(word, ".") = <<>>
                       \/ Number(Typed(word, ".")) * 10 + Value(c) <= MaxOctet
         /\ BeginsIPv4(word') => c # "/"
         /\ BeginsIPv4(word') /\ c # "." =>
              Number(Typed(word', ".")) = IF Typed(word, ".") = <<>> THEN Value(c)
                                          ELSE Number(Typed(word, ".")) * 10 + Value(c)
<1> DEFINE dot == "."
           slash == "/"
           t == Typed(word, dot)
<1>1. dot = "." /\ slash = "/" /\ dot \notin Digits /\ slash \notin Digits /\ dot # slash
  BY Separators
<1> HIDE DEF dot, slash
<1>2. /\ MaxOctet \in 9..(ULLong - 1) /\ MaxOctet \in 0..(ULLong - 1)
      /\ 3 \in Nat /\ word \in Seq(All) /\ word' \in Seq(All)
  BY Limits, AppendProperties DEF TypeInv
<1>3. BeginsIPv4(word') <=> Listed(Append(word, c), dot, MaxOctet, 3)
  BY <1>1, BeginsListed
<1>4. Listed(Append(word, c), dot, MaxOctet, 3) <=>
        /\ Listed(word, dot, MaxOctet, 3)
        /\ \/ c = dot /\ t # <<>> /\ Cardinality(At(word, dot)) < 3
           \/ c \in Digits /\ (t = <<>> \/ Number(t) * 10 + Value(c) <= MaxOctet)
  BY <1>1, <1>2, AppendListed
<1>5. BeginsIPv4(word) <=> Listed(word, dot, MaxOctet, 3)
  BY <1>1, BeginsListed
<1>6. BeginsIPv4(word') => c # slash
  BY <1>1, <1>3, <1>4
<1>7. t \in Seq(All) /\ Typed(word', dot) = IF c = dot THEN <<>> ELSE Append(t, c)
  BY <1>2, AppendTyped
<1>8. ASSUME BeginsIPv4(word'), c # dot
      PROVE  Number(Typed(word', dot)) = IF t = <<>> THEN Value(c) ELSE Number(t) * 10 + Value(c)
  <2>1. Typed(word', dot) = Append(t, c) /\ Append(t, c) # <<>>
    BY <1>7, <1>8, AppendProperties
  <2>2. NumberTo(Typed(word', dot), MaxOctet)
    BY <1>2, <1>3, <1>8, <2>1, ListedTyped
  <2> HIDE DEF t
  <2> QED BY <1>2, <1>7, <2>1, <2>2, AppendNumber
<1> HIDE DEF t
<1> QED BY <1>1, <1>3, <1>4, <1>5, <1>6, <1>8 DEF t

LEMMA IPv4ReadsStep ==
  ASSUME TypeInv, IPv4Reads, Next, kind \in In4, kind = "IPv4Address" \/ At(word', "/") = {}
  PROVE  IPv4Reads'
<1> DEFINE dot == "."
           slash == "/"
<1>0. dot = "." /\ slash = "/" /\ dot \notin Digits /\ slash \notin Digits /\ dot # slash
  BY Separators
<1> HIDE DEF dot, slash
<1>1. PICK c \in All : word' = Append(word, c) /\ read' = Matcher(read, c) /\ kind' = kind
  BY OneMore
<1> DEFINE t == Typed(word, dot)
           u == Typed(word', dot)
           k == Cardinality(At(word, dot))
           B == BeginsIPv4(word)
           C == BeginsIPv4(word')
<1>2. word \in Seq(All) /\ word' # <<>> /\ word' \in Seq(All)
  BY <1>1, AppendProperties DEF TypeInv
<1>3. /\ C <=> /\ B
               /\ \/ c = dot /\ t # <<>> /\ k < 3
                  \/ c \in Digits /\ (t = <<>> \/ Number(t) * 10 + Value(c) <= MaxOctet)
      /\ C => c # slash
      /\ C /\ c # dot => Number(u) = IF t = <<>> THEN Value(c) ELSE Number(t) * 10 + Value(c)
  BY <1>0, <1>1, IPv4Char
<1>4. t \in Seq(All) /\ u = IF c = dot THEN <<>> ELSE Append(t, c)
  BY <1>1, <1>2, AppendTyped
<1>5. k \in Nat /\ Cardinality(At(word', dot)) = k + (IF c = dot THEN 1 ELSE 0)
  BY <1>1, <1>2, AtWithin, AtCount
<1>6. At(word', slash) = IF c = slash THEN At(word, slash) \cup {Len(word) + 1} ELSE At(word, slash)
  BY <1>1, <1>2, AppendAt
<1>7. kind = "IPv4Address" \/ (At(word, slash) = {} /\ c # slash)
  BY <1>0, <1>6
<1>8. u = <<>> <=> c = dot
  BY <1>4, AppendProperties
<1>9. t # <<>> => word # <<>>
  BY <1>2, TypedWord
<1> HIDE DEF t, u, k, B, C
<1>10. CASE ~B
  <2>1. read = Refused
    BY <1>0, <1>7, <1>10 DEF IPv4Reads, B
  <2>2. read' = Refused
    BY <1>1, <2>1 DEF Matcher
  <2> QED BY <1>0, <1>1, <1>3, <1>10, <2>2 DEF IPv4Reads, C
<1>11. CASE B
  <2>1. PICK v : /\ read = [state |-> IPv4At(word), val |-> v, dots |-> k,
                            octets |-> k + (IF t = <<>> THEN 0 ELSE 1), plen |-> 0]
                 /\ t # <<>> => v = Number(t)
    BY <1>0, <1>7, <1>11 DEF IPv4Reads, B, k, t
  <2> DEFINE st == IPv4At(word)
             o == k + (IF t = <<>> THEN 0 ELSE 1)
  <2>2. st \in {"init", "dot", "digit"} /\ (st = "digit" <=> t # <<>>)
    BY <1>0, <1>9 DEF IPv4At, t
  <2>3. read # Refused /\ read.state = st /\ read.val = v /\ read.dots = k
    BY <2>1, <2>2 DEF Refused
  <2>4. read' = IPv4(read, c)
    BY <1>1, <2>3 DEF Matcher, In4
  <2>5. IPv4At(word') = IF u = <<>> THEN "dot" ELSE "digit"
    BY <1>0, <1>2 DEF IPv4At, u
  <2>6. Plen(read, c, MaxLength4) = Refused
    BY <2>2, <2>3 DEF Plen
  <2>7. k + (IF u = <<>> THEN 0 ELSE 1) = IF c = dot THEN k ELSE k + 1
    BY <1>5, <1>8
  <2> DEFINE more == v * 10 + Value(c)
             k1 == k + 1
  <2>8. ASSUME C
        PROVE  \E x : /\ read' = [state |-> IPv4At(word'), val |-> x, dots |-> Cardinality(At(word', dot)),
                                  octets |-> Cardinality(At(word', dot)) + (IF u = <<>> THEN 0 ELSE 1),
                                  plen |-> 0]
                      /\ u # <<>> => x = Number(u)
    <3>1. CASE c = dot
      <4>1. t # <<>> /\ k < 3 /\ c \notin Digits
        BY <1>0, <1>3, <2>8, <3>1
      <4>2. read' = [read EXCEPT !.state = "dot", !.dots = @ + 1]
        BY <1>0, <2>2, <2>3, <2>4, <3>1, <4>1 DEF IPv4
      <4>3. o = k1 /\ read.dots + 1 = k1
        BY <1>5, <2>3, <4>1
      <4>4. Cardinality(At(word', dot)) = k1 /\ k1 + (IF u = <<>> THEN 0 ELSE 1) = k1
        BY <1>5, <1>8, <3>1
      <4>5. IPv4At(word') = "dot" /\ u = <<>>
        BY <1>8, <2>5, <3>1
      <4> HIDE DEF k1, st
      <4>6. read' = [state |-> "dot", val |-> v, dots |-> k1, octets |-> k1, plen |-> 0]
        BY <2>1, <4>2, <4>3 DEF st
      <4> QED BY <4>4, <4>5, <4>6
    <3>2. CASE c # dot
      <4>1. /\ c \in Digits /\ Cardinality(At(word', dot)) = k /\ k + (IF u = <<>> THEN 0 ELSE 1) = k1
            /\ IPv4At(word') = "digit"
        BY <1>3, <1>5, <1>8, <2>5, <2>8, <3>2
      <4>2. CASE t = <<>>
        <5>1. read' = [read EXCEPT !.state = "digit", !.octets = @ + 1, !.val = Value(c)]
          BY <2>2, <2>3, <2>4, <4>1, <4>2 DEF IPv4
        <5>2. o = k /\ Number(u) = Value(c)
          BY <1>3, <1>5, <2>8, <3>2, <4>2
        <5>3. read' = [state |-> "digit", val |-> Value(c), dots |-> k, octets |-> k1, plen |-> 0]
          <6> HIDE DEF k1, st
          <6>1. read = [state |-> st, val |-> v, dots |-> k, octets |-> k, plen |-> 0]
            BY <2>1, <5>2 DEF st
          <6> QED BY <5>1, <6>1 DEF k1
        <5> HIDE DEF k1
        <5> QED BY <4>1, <5>2, <5>3
      <4>3. CASE t # <<>>
        <5>1. more <= MaxOctet /\ Number(u) = more
          BY <1>3, <2>1, <2>8, <3>2, <4>3
        <5>2. read.state = "digit" /\ c # "." /\ c # "/" /\ c \in Digits /\ read.val * 10 + Value(c) <= MaxOctet
          BY <1>0, <1>3, <2>2, <2>3, <2>8, <3>2, <4>1, <4>3, <5>1
        <5>3. read' = [read EXCEPT !.val = @ * 10 + Value(c)]
          BY <2>4, <5>2 DEF IPv4
        <5>4. st = "digit" /\ o = k1 /\ read.val * 10 + Value(c) = more
          BY <2>2, <2>3, <4>3
        <5>5. read' = [state |-> "digit", val |-> more, dots |-> k, octets |-> k1, plen |-> 0]
          <6> HIDE DEF k1, st, more
          <6>1. read = [state |-> "digit", val |-> v, dots |-> k, octets |-> k1, plen |-> 0]
            BY <2>1, <5>4 DEF st
          <6> QED BY <5>3, <5>4, <6>1
        <5> HIDE DEF more, k1
        <5> QED BY <4>1, <5>1, <5>5
      <4> QED BY <4>2, <4>3
    <3> QED BY <3>1, <3>2
  <2>9. ASSUME ~C
        PROVE  read' = Refused
    <3> HIDE DEF more
    <3>1. CASE c = dot
      <4>1. ~(t # <<>> /\ k < 3) /\ c \notin Digits
        BY <1>0, <1>3, <1>11, <2>9, <3>1
      <4>2. c # "/" /\ ~(read.state = "digit" /\ read.dots < 3)
        BY <1>0, <2>2, <2>3, <3>1, <4>1
      <4> QED BY <1>0, <2>4, <2>6, <4>1, <4>2 DEF IPv4
    <3>2. CASE c \in Digits
      <4>1. t # <<>> /\ ~(more <= MaxOctet)
        BY <1>3, <1>11, <2>1, <2>9, <3>2 DEF more
      <4>2. read.state = "digit" /\ c # "." /\ c # "/" /\ ~(read.val * 10 + Value(c) <= MaxOctet)
        BY <1>0, <2>2, <2>3, <3>2, <4>1 DEF more
      <4> QED BY <2>4, <2>6, <4>2 DEF IPv4
    <3>3. CASE c # dot /\ c \notin Digits
      <4>1. c # "." /\ ~(c = "/" /\ kind = "IPv4Prefix")
        BY <1>0, <1>7, <3>3
      <4> QED BY <2>4, <2>6, <3>3, <4>1 DEF IPv4
    <3> QED BY <3>1, <3>2, <3>3
  <2> QED BY <1>0, <1>1, <2>8, <2>9 DEF IPv4Reads, C, u
<1> QED BY <1>10, <1>11

LEMMA IPv4LengthStep ==
  ASSUME TypeInv, IPv4Inv, Next
  PROVE  IPv4Length'
<1> DEFINE slash == "/"
           p == Typed(word, slash)
           q == Typed(word', slash)
<1>0. slash = "/" /\ slash \notin Digits
  BY Separators
<1> HIDE DEF slash
<1>1. PICK c \in All : word' = Append(word, c) /\ read' = Matcher(read, c) /\ kind' = kind
  BY OneMore
<1>2. word \in Seq(All) /\ word' \in Seq(All)
  BY <1>1, AppendProperties DEF TypeInv
<1>3. /\ c = slash => UpTo(word', slash) = word
      /\ c # slash => LastAt(word', slash) = LastAt(word, slash)
      /\ c # slash /\ LastAt(word, slash) > 0 => UpTo(word', slash) = UpTo(word, slash)
  BY <1>1, <1>2, AppendUpTo
<1>4. p \in Seq(All) /\ q = IF c = slash THEN <<>> ELSE Append(p, c)
  BY <1>1, <1>2, AppendTyped
<1>5. MaxLength4 \in 0..(ULLong - 1)
  BY Limits
<1> HIDE DEF p, q
<1> SUFFICES ASSUME kind = "IPv4Prefix", LastAt(word', slash) > 0, IsIPv4(UpTo(word', slash)),
                    q = <<>> \/ NumberTo(q, MaxLength4)
             PROVE  \E v, d, o, n :
                      /\ read' = [state |-> IF q = <<>> THEN "slash" ELSE "plen",
                                  val |-> v, dots |-> d, octets |-> o, plen |-> n]
                      /\ q # <<>> => n = Number(q)
  BY <1>0, <1>1 DEF IPv4Length, q
<1>6. CASE c = slash
  <2> DEFINE dot == "."
  <2>1. Listed(word, dot, MaxOctet, 3) /\ Typed(word, dot) # <<>>
    <3>1. Whole(word, dot, MaxOctet, 3) /\ 3 \in Nat
      BY <1>3, <1>6, BeginsListed
    <3> QED BY <1>2, <3>1, ListedWhole
  <2>2. BeginsIPv4(word) /\ word # <<>> /\ At(word, "/") = {} /\ kind \in In4
    <3>1. word # <<>>
      BY <1>2, <2>1, TypedWord
    <3> QED BY <2>1, <3>1, BeginsListed DEF IPv4Inv, In4
  <2>3. IPv4At(word) = "digit"
    BY <2>1, <2>2 DEF IPv4At
  <2>4. PICK v, d, o : read = [state |-> "digit", val |-> v, dots |-> d, octets |-> o, plen |-> 0]
    BY <2>2, <2>3 DEF IPv4Inv, IPv4Reads
  <2>5. read' = IPv4(read, c)
    BY <1>1, <2>2, <2>4 DEF Matcher, In4, Refused
  <2>6. read' = [read EXCEPT !.state = "slash"]
    BY <1>0, <1>6, <2>4, <2>5 DEF IPv4
  <2>7. read' = [state |-> "slash", val |-> v, dots |-> d, octets |-> o, plen |-> 0] /\ q = <<>>
    BY <1>4, <1>6, <2>4, <2>6
  <2> QED BY <2>7
<1>7. CASE c # slash
  <2>1. q = Append(p, c) /\ q # <<>>
    BY <1>4, <1>7, AppendProperties
  <2>2. /\ c \in Digits /\ (p = <<>> \/ NumberTo(p, MaxLength4))
    BY <1>4, <1>5, <2>1, AppendNumber
  <2>3. LastAt(word, slash) > 0 /\ IsIPv4(UpTo(word, slash))
    BY <1>3, <1>7
  <2>4. PICK v, d, o, n : /\ read = [state |-> IF p = <<>> THEN "slash" ELSE "plen",
                                     val |-> v, dots |-> d, octets |-> o, plen |-> n]
                          /\ p # <<>> => n = Number(p)
    BY <1>0, <2>2, <2>3 DEF IPv4Inv, IPv4Length, p
  <2> DEFINE st == IF p = <<>> THEN "slash" ELSE "plen"
             m == Number(Append(p, c))
  <2>5. read # Refused /\ read.state = st /\ st \in {"slash", "plen"} /\ (p # <<>> => read.plen = Number(p))
    BY <2>4 DEF Refused
  <2>6. read' = IPv4(read, c)
    BY <1>1, <2>5 DEF Matcher
  <2>7. read' = Plen(read, c, MaxLength4)
    BY <2>5, <2>6 DEF IPv4
  <2>8. read' = [read EXCEPT !.state = "plen", !.plen = m]
    <3>1. NumberTo(Append(p, c), MaxLength4) /\ p \in Seq(All)
      BY <1>4, <2>1
    <3>2. read.state = IF p = <<>> THEN "slash" ELSE "plen"
      BY <2>5
    <3>3. Plen(read, c, MaxLength4) = AtLength(read, Number(Append(p, c)))
      BY <1>5, <2>5, <3>1, <3>2, PlenReads
    <3> QED BY <2>7, <3>3 DEF AtLength
  <2> HIDE DEF st, m
  <2>9. read = [state |-> st, val |-> v, dots |-> d, octets |-> o, plen |-> n]
    BY <2>4 DEF st
  <2>10. read' = [state |-> "plen", val |-> v, dots |-> d, octets |-> o, plen |-> m]
    BY <2>8, <2>9
  <2> QED BY <2>1, <2>10 DEF m
<1> QED BY <1>6, <1>7

LEMMA IPv4Step == TypeInv /\ IPv4Inv /\ [Next]_vars => IPv4Inv'
<1> SUFFICES ASSUME TypeInv, IPv4Inv, [Next]_vars
             PROVE  IPv4Inv'
  OBVIOUS
<1>1. CASE Next
  <2> DEFINE slash == "/"
  <2>1. PICK c \in All : word' = Append(word, c) /\ kind' = kind
    BY <1>1, OneMore
  <2>2. (BeginsIPv4(word') => BeginsIPv4(word) /\ c # slash) /\ word \in Seq(All)
    BY <2>1, IPv4Char DEF TypeInv
  <2>3. At(word', slash) = IF c = slash THEN At(word, slash) \cup {Len(word) + 1} ELSE At(word, slash)
    BY <2>1, <2>2, AppendAt
  <2>4. kind \in In4 => (BeginsIPv4(word') => At(word', slash) = {})
    BY <2>2, <2>3 DEF IPv4Inv
  <2>5. IPv4Reads'
    <3>1. CASE kind \in In4 /\ (kind = "IPv4Address" \/ At(word', slash) = {})
      BY <1>1, <3>1, IPv4ReadsStep DEF IPv4Inv
    <3>2. CASE ~(kind \in In4 /\ (kind = "IPv4Address" \/ At(word', slash) = {}))
      BY <2>1, <3>2 DEF IPv4Reads
    <3> QED BY <3>1, <3>2
  <2>6. IPv4Length'
    BY <1>1, IPv4LengthStep
  <2> QED BY <2>1, <2>4, <2>5, <2>6 DEF IPv4Inv
<1>2. CASE UNCHANGED vars
  BY <1>2 DEF IPv4Inv, IPv4Reads, IPv4Length, vars
<1> QED BY <1>1, <1>2

LEMMA IPv4Init == Init => IPv4Inv
<1> SUFFICES ASSUME Init PROVE IPv4Inv
  OBVIOUS
<1>1. word = <<>> /\ (kind \in In4 => read = Start4)
  BY DEF Init, In4
<1>2. At(word, "/") = {} /\ LastAt(word, "/") = 0
  BY <1>1, NoWord
<1>3. Cardinality(At(word, ".")) = 0 /\ Typed(word, ".") = <<>> /\ IPv4At(word) = "init"
  BY <1>1, NoWord DEF IPv4At
<1>4. kind \in In4 =>
        read = [state |-> IPv4At(word), val |-> 0, dots |-> Cardinality(At(word, ".")),
                octets |-> Cardinality(At(word, ".")) + (IF Typed(word, ".") = <<>> THEN 0 ELSE 1),
                plen |-> 0]
  BY <1>1, <1>3 DEF Start4
<1>5. BeginsIPv4(word)
  BY <1>1, NothingListed, BeginsListed
<1> QED BY <1>2, <1>3, <1>4, <1>5 DEF IPv4Inv, IPv4Reads, IPv4Length

\* A word is an IPv4 address, the beginning of one, or refused, as its whole says;
\* every prefix A.B.C.D/M is taken, and not refused while it is typed
\* (CliNodeIPv4Address::cli_match, CliNodeIPv4Prefix::cli_match).
THEOREM IPv4Correct == Spec => []IPv4Exact
<1>1. TypeInv /\ IPv4Inv => IPv4Exact
  <2> DEFINE dot == "."
             slash == "/"
             k == Cardinality(At(word, dot))
             t == Typed(word, dot)
             p == Typed(word, slash)
  <2>0. dot = "." /\ slash = "/"
    OBVIOUS
  <2> HIDE DEF dot, slash
  <2> SUFFICES ASSUME TypeInv, IPv4Inv
               PROVE  IPv4Exact
    OBVIOUS
  <2>1. word \in Seq(All) /\ 3 \in Nat /\ k \in Nat
    BY AtWithin DEF TypeInv
  <2>2. IsIPv4(word) <=> BeginsIPv4(word) /\ k = 3 /\ t # <<>>
    <3>1. Whole(word, dot, MaxOctet, 3) <=> Listed(word, dot, MaxOctet, 3) /\ k = 3 /\ t # <<>>
      BY <2>1, ListedWhole
    <3> QED BY <2>0, <3>1, BeginsListed
  <2>3. BeginsIPv4(word) => k <= 3
    BY <2>0 DEF BeginsIPv4
  <2> DEFINE o == k + (IF t = <<>> THEN 0 ELSE 1)
  <2>4. BeginsIPv4(word) => (o = 4 <=> k = 3 /\ t # <<>>)
    BY <2>1, <2>3
  <2>5. kind \in In4 /\ (kind = "IPv4Address" \/ At(word, slash) = {}) =>
          IF BeginsIPv4(word)
          THEN \E v : read = [state |-> IPv4At(word), val |-> v, dots |-> k, octets |-> o, plen |-> 0]
          ELSE read = Refused
    BY <2>0 DEF IPv4Inv, IPv4Reads
  <2>6. IPv4At(word) \in {"init", "dot", "digit"}
    BY DEF IPv4At
  <2> HIDE DEF k, t, o
  <2>7. ASSUME kind = "IPv4Address"
        PROVE  (Full <=> IsIPv4(word)) /\ (read = Refused <=> ~BeginsIPv4(word))
    <3>1. CASE ~BeginsIPv4(word)
      BY <2>2, <2>5, <2>7, <3>1 DEF Full, In4
    <3>2. CASE BeginsIPv4(word)
      <4>1. PICK v : read = [state |-> IPv4At(word), val |-> v, dots |-> k, octets |-> o, plen |-> 0]
        BY <2>5, <2>7, <3>2 DEF In4
      <4>2. read # Refused /\ read.octets = o
        BY <2>6, <4>1 DEF Refused
      <4>3. Full <=> o = 4
        BY <2>7, <4>2 DEF Full, Complete
      <4> QED BY <2>2, <2>4, <3>2, <4>2, <4>3
    <3> QED BY <3>1, <3>2
  <2>8. ASSUME kind = "IPv4Prefix", Slash > 0, IsIPv4(Before), After = <<>> \/ IsLength(MaxLength4)
        PROVE  read # Refused /\ read.state = (IF After = <<>> THEN "slash" ELSE "plen")
    <3>1. Slash = LastAt(word, slash) /\ Before = UpTo(word, slash)
      BY <2>0 DEF Slash, Before, UpTo
    <3>2. After = p
      <4>1. Typed(word, slash) = SubSeq(word, LastAt(word, slash) + 1, Len(word))
        BY <2>1, AppendUpTo, Separators
      <4> QED BY <3>1, <4>1 DEF After
    <3>3. p = <<>> \/ NumberTo(p, MaxLength4)
      BY <2>8, <3>2 DEF IsLength, NumberTo
    <3>4. PICK v, d, oc, n : read = [state |-> IF p = <<>> THEN "slash" ELSE "plen",
                                    val |-> v, dots |-> d, octets |-> oc, plen |-> n]
      BY <2>0, <2>8, <3>1, <3>3 DEF IPv4Inv, IPv4Length
    <3> QED BY <3>2, <3>4 DEF Refused
  <2>9. ASSUME kind = "IPv4Prefix", Slash > 0, IsIPv4(Before), IsLength(MaxLength4)
        PROVE  Full
    <3>1. After # <<>>
      BY <2>9 DEF IsLength, IsNumber
    <3> QED BY <2>8, <2>9, <3>1 DEF Full, Complete
  <2>10. ASSUME kind = "IPv4Prefix", BeginsIPv4(word)
         PROVE  Incomplete
    <3>1. At(word, slash) = {} /\ kind \in In4
      BY <2>0, <2>10 DEF IPv4Inv, In4
    <3>2. PICK v : read = [state |-> IPv4At(word), val |-> v, dots |-> k, octets |-> o, plen |-> 0]
      BY <2>5, <2>10, <3>1
    <3> QED BY <2>6, <2>10, <3>2 DEF Incomplete, Complete, Refused
  <2>11. ASSUME kind = "IPv4Prefix", Slash = Len(word), Slash > 0, IsIPv4(Before)
         PROVE  Incomplete
    <3>1. After = <<>>
      <4>1. Len(word) \in Nat
        BY <2>1, LenProperties
      <4>2. Slash + 1 \in Int /\ Len(word) \in Int /\ Len(word) < Slash + 1
        BY <2>11, <4>1
      <4> QED BY <4>2, SubSeqEmpty DEF After
    <3> QED BY <2>8, <2>11, <3>1 DEF Incomplete, Complete
  <2> QED BY <2>7, <2>9, <2>10, <2>11 DEF IPv4Exact
<1> QED BY <1>1, IPv4Init, Typing, IPv4Step, PTL DEF Spec

-------------------------------------------------------------------------------
(***************************************************************************)
(* Groups and double colons                                                 *)
(***************************************************************************)
LEMMA DoublesAre ==
  ASSUME NEW S, NEW w \in Seq(S)
  PROVE  /\ Len(w) \in Nat /\ (w = <<>> <=> Len(w) = 0)
         /\ \A i : i \in Doubles(w) <=> i \in 1..(Len(w) - 1) /\ w[i] = ":" /\ w[i + 1] = ":"
         /\ IsFiniteSet(Doubles(w)) /\ Cardinality(Doubles(w)) \in Nat
<1> DEFINE n == Len(w)
<1>1. n \in Nat /\ DOMAIN w = 1..n /\ (w = <<>> <=> n = 0)
  BY LenProperties, EmptySeq
<1> HIDE DEF n
<1>2. \A i : i \in Doubles(w) <=> i \in 1..(n - 1) /\ w[i] = ":" /\ w[i + 1] = ":"
  BY <1>1 DEF Doubles, n
<1>3. IsFiniteSet(Doubles(w)) /\ Cardinality(Doubles(w)) \in Nat
  <2>1. IsFiniteSet(1..n)
    BY <1>1, FS_Interval
  <2>2. \A i \in Doubles(w) : i \in 1..n
    BY <1>1, <1>2
  <2>3. IsFiniteSet(Doubles(w))
    BY <2>1, <2>2, FS_Subset
  <2> QED BY <2>3, FS_CardinalityType
<1> QED BY <1>1, <1>2, <1>3 DEF n

LEMMA AppendDoubles ==
  ASSUME NEW S, NEW w \in Seq(S), NEW c \in S
  PROVE  Doubles(Append(w, c)) = IF c = ":" /\ Len(w) # 0 /\ w[Len(w)] = ":"
                                 THEN Doubles(w) \cup {Len(w)} ELSE Doubles(w)
<1> DEFINE u == Append(w, c)
           n == Len(w)
<1>1. /\ n \in Nat /\ u \in Seq(S) /\ Len(u) = n + 1
      /\ (\A i \in 1..n : u[i] = w[i]) /\ u[n + 1] = c
  BY LenProperties, AppendProperties
<1> HIDE DEF u, n
<1>2. n + 1 - 1 = n
  BY <1>1
<1>3. \A i : i \in Doubles(w) <=> i \in 1..(n - 1) /\ w[i] = ":" /\ w[i + 1] = ":"
  BY DoublesAre DEF n
<1>4. \A i : i \in Doubles(u) <=> i \in 1..n /\ u[i] = ":" /\ u[i + 1] = ":"
  BY <1>1, <1>2, DoublesAre
<1>5. \A i : i \in Doubles(u) <=> i \in Doubles(w) \/ (i = n /\ n # 0 /\ c = ":" /\ w[n] = ":")
  <2> TAKE i
  <2>1. CASE i \in 1..(n - 1)
    <3>1. u[i] = w[i] /\ u[i + 1] = w[i + 1] /\ i \in 1..n /\ i # n
      BY <1>1, <2>1
    <3> QED BY <1>3, <1>4, <2>1, <3>1
  <2>2. CASE i = n /\ n # 0
    <3>1. i \in 1..n /\ i \notin 1..(n - 1) /\ u[i] = w[i] /\ u[i + 1] = c
      BY <1>1, <2>2
    <3> QED BY <1>3, <1>4, <2>2, <3>1
  <2>3. CASE i \notin 1..n
    <3>1. i \notin 1..(n - 1) /\ ~(i = n /\ n # 0)
      BY <1>1, <2>3
    <3> QED BY <1>3, <1>4, <2>3, <3>1
  <2>4. i \in 1..n => i \in 1..(n - 1) \/ (i = n /\ n # 0)
    BY <1>1
  <2> QED BY <2>1, <2>2, <2>3, <2>4
<1>6. Doubles(u) = IF c = ":" /\ n # 0 /\ w[n] = ":" THEN Doubles(w) \cup {n} ELSE Doubles(w)
  <2>1. CASE c = ":" /\ n # 0 /\ w[n] = ":"
    <3>1. \A i : i \in Doubles(u) <=> i \in Doubles(w) \cup {n}
      BY <1>5, <2>1
    <3>2. Doubles(u) = Doubles(w) \cup {n}
      BY <3>1
    <3> QED BY <2>1, <3>2
  <2>2. CASE ~(c = ":" /\ n # 0 /\ w[n] = ":")
    <3>1. \A i : i \in Doubles(u) <=> i \in Doubles(w)
      BY <1>5, <2>2
    <3>2. Doubles(u) = Doubles(w)
      BY <3>1
    <3> QED BY <2>2, <3>2
  <2> QED BY <2>1, <2>2
<1> QED BY <1>6 DEF u, n

\* A part of a word is a group unless a colon, or the end, follows at once; the last is
\* empty after a colon, and in the empty word.
LEMMA GroupsAre ==
  ASSUME NEW S, NEW w \in Seq(S)
  PROVE  /\ \A i \in At(w, ":") \cup {0} :
              i \in GroupsOf(w) <=> i # Len(w) /\ w[i + 1] # ":"
         /\ GroupsOf(w) \subseteq At(w, ":") \cup {0}
         /\ Typed(w, ":") = <<>> <=> LastAt(w, ":") \notin GroupsOf(w)
         /\ Typed(w, ":") = <<>> <=> Len(w) = 0 \/ w[Len(w)] = ":"
         /\ IsFiniteSet(GroupsOf(w)) /\ Cardinality(GroupsOf(w)) \in Nat
         /\ Cardinality(At(w, ":") \cup {0}) = Cardinality(At(w, ":")) + 1
         /\ IsFiniteSet(At(w, ":") \cup {0})
<1> DEFINE sep == ":"
           A == At(w, sep)
           l == LastAt(w, sep)
           n == Len(w)
<1>0. sep = ":"
  OBVIOUS
<1> HIDE DEF sep
<1>1. /\ n \in Nat /\ A \subseteq 1..n /\ IsFiniteSet(A) /\ Cardinality(A) \in Nat
      /\ l \in A \cup {0} /\ l \in 0..n /\ \A j \in A : j <= l
  BY AtWithin, LastAtIs
<1>2. \A i \in 0..n : Part(w, sep, i) = <<>> <=> i = n \/ w[i + 1] = sep
  BY PartType
<1>3. A = {i \in 1..n : w[i] = sep}
  BY LenProperties DEF At
<1>4. GroupsOf(w) = {i \in A \cup {0} : Part(w, sep, i) # <<>>}
  BY <1>0 DEF GroupsOf
<1>5. Typed(w, sep) = <<>> <=> l \notin GroupsOf(w)
  BY <1>1, <1>4 DEF Typed
<1> HIDE DEF A, l, n
<1>6. A \cup {0} \subseteq 0..n
  BY <1>1
<1>7. \A i \in A \cup {0} : i \in GroupsOf(w) <=> i # n /\ w[i + 1] # sep
  BY <1>2, <1>4, <1>6
<1>8. l \notin GroupsOf(w) <=> n = 0 \/ w[n] = sep
  <2>1. l \notin GroupsOf(w) <=> l = n \/ w[l + 1] = sep
    BY <1>1, <1>7
  <2>2. l # n => w[l + 1] # sep
    <3> SUFFICES ASSUME l # n, w[l + 1] = sep
                 PROVE  FALSE
      OBVIOUS
    <3>1. l + 1 \in 1..n
      BY <1>1, <1>6
    <3>2. l + 1 \in A
      BY <1>3, <3>1
    <3> QED BY <1>1, <1>6, <3>2
  <2>3. l = n <=> n = 0 \/ w[n] = sep
    <3>1. ASSUME n # 0, w[n] = sep
          PROVE  l = n
      <4>1. n \in A
        BY <1>1, <1>3, <3>1
      <4> QED BY <1>1, <4>1
    <3>2. ASSUME l = n, n # 0
          PROVE  w[n] = sep
      BY <1>1, <1>3, <3>2
    <3>3. n = 0 => l = n
      BY <1>1
    <3> QED BY <3>1, <3>2, <3>3
  <2> QED BY <2>1, <2>2, <2>3
<1>9. IsFiniteSet(A \cup {0}) /\ Cardinality(A \cup {0}) = Cardinality(A) + 1
  <2>1. 0 \notin A
    BY <1>1
  <2> QED BY <1>1, <2>1, FS_AddElement
<1>10. IsFiniteSet(GroupsOf(w)) /\ Cardinality(GroupsOf(w)) \in Nat
  <2>1. GroupsOf(w) \subseteq A \cup {0}
    BY <1>4
  <2>2. IsFiniteSet(GroupsOf(w))
    BY <1>9, <2>1, FS_Subset
  <2> QED BY <2>2, FS_CardinalityType
<1> QED BY <1>0, <1>4, <1>5, <1>7, <1>8, <1>9, <1>10 DEF A, l, n

LEMMA AppendGroups ==
  ASSUME NEW S, NEW w \in Seq(S), NEW c \in S
  PROVE  /\ c = ":" => GroupsOf(Append(w, c)) = GroupsOf(w)
         /\ c # ":" => GroupsOf(Append(w, c)) = GroupsOf(w) \cup {LastAt(w, ":")}
<1> DEFINE sep == ":"
           u == Append(w, c)
           A == At(w, sep)
           l == LastAt(w, sep)
<1>0. sep = ":"
  OBVIOUS
<1> HIDE DEF sep
<1>1. /\ Len(w) \in Nat /\ A \subseteq 1..Len(w)
      /\ LastAt(u, sep) = IF c = sep THEN Len(w) + 1 ELSE l
      /\ At(u, sep) = IF c = sep THEN A \cup {Len(w) + 1} ELSE A
  BY AtWithin, AppendLastAt, AppendAt
<1>2. l \in A \cup {0}
  BY LastAtIs
<1>3. Typed(w, sep) \in Seq(S) /\ Typed(u, sep) = IF c = sep THEN <<>> ELSE Append(Typed(w, sep), c)
  BY AppendTyped
<1>4. \A i \in A \cup {0} : (c = sep \/ i # l) => Part(u, sep, i) = Part(w, sep, i)
  BY AppendTyped
<1>5. /\ GroupsOf(w) = {i \in A \cup {0} : Part(w, sep, i) # <<>>}
      /\ GroupsOf(u) = {i \in At(u, sep) \cup {0} : Part(u, sep, i) # <<>>}
  BY <1>0 DEF GroupsOf
<1>6. Part(u, sep, LastAt(u, sep)) = Typed(u, sep)
  BY DEF Typed
<1>7. Append(Typed(w, sep), c) # <<>>
  BY <1>3, AppendProperties
<1> HIDE DEF u, A, l
<1>8. CASE c = sep
  <2>1. Part(u, sep, Len(w) + 1) = <<>> /\ At(u, sep) = A \cup {Len(w) + 1}
    BY <1>1, <1>3, <1>6, <1>8
  <2>2. \A i \in A \cup {0} : Part(u, sep, i) = Part(w, sep, i)
    BY <1>4, <1>8
  <2>3. GroupsOf(u) = GroupsOf(w)
    BY <1>5, <2>1, <2>2
  <2> QED BY <1>0, <1>8, <2>3 DEF u
<1>9. CASE c # sep
  BY <1>0, <1>1, <1>2, <1>3, <1>4, <1>5, <1>6, <1>7, <1>9 DEF u, l
<1> QED BY <1>8, <1>9

-------------------------------------------------------------------------------
(***************************************************************************)
(* IPv6 addresses: what may become one                                      *)
(***************************************************************************)
GroupOf(g) == ToSet(g) \subseteq Xdigits /\ Len(g) <= MaxXdigits
Fitting(w) == \A i \in GroupsOf(w) : GroupOf(Part(w, ":", i))

\* A colon at the beginning is the first of a double colon, with at most one group.
Leads(w) ==
  Len(w) # 0 /\ w[1] = ":" => (Len(w) = 1 \/ 1 \in Doubles(w)) /\ Cardinality(GroupsOf(w)) <= 1

\* The beginnings of what the matcher of IPv6 addresses takes.
BeginsIPv6(w) ==
  /\ Fitting(w)
  /\ Cardinality(Doubles(w)) <= 1 /\ Cardinality(At(w, ":")) <= Groups - 1
  /\ Leads(w)

\* A colon that is not the second of a double colon ends the word.
OneColon(w) == Len(w) # 0 /\ w[Len(w)] = ":" /\ Len(w) - 1 \notin Doubles(w)

LEMMA FewDoubles ==
  ASSUME NEW S, NEW w \in Seq(S), Cardinality(Doubles(w)) <= 1
  PROVE  \A i, j \in Doubles(w) : i = j
<1> SUFFICES ASSUME NEW i \in Doubles(w), NEW j \in Doubles(w), i # j
             PROVE  FALSE
  OBVIOUS
<1> DEFINE D == Doubles(w)
           one == {i}
           both == one \cup {j}
<1>1. IsFiniteSet(D) /\ Cardinality(D) \in Nat
  BY DoublesAre
<1>2. IsFiniteSet(one) /\ Cardinality(one) = 1 /\ j \notin one
  BY FS_Singleton
<1>3. both \subseteq D
  OBVIOUS
<1> HIDE DEF D, one
<1>4. Cardinality(both) = Cardinality(one) + 1
  BY <1>2, FS_AddElement
<1> HIDE DEF both
<1>5. Cardinality(both) <= Cardinality(D)
  BY <1>1, <1>3, FS_Subset
<1>6. Cardinality(D) <= 1
  BY DEF D
<1> QED BY <1>1, <1>2, <1>4, <1>5, <1>6

LEMMA AppendLeads ==
  ASSUME NEW S, NEW w \in Seq(S), NEW c \in S, Cardinality(Doubles(w)) <= 1
  PROVE  /\ c = ":" => (Leads(Append(w, c)) <=> Leads(w))
         /\ c # ":" => (Leads(Append(w, c)) <=> Leads(w) /\ ~(OneColon(w) /\ w[1] = ":"))
<1> DEFINE sep == ":"
           u == Append(w, c)
           A == At(w, sep)
           l == LastAt(w, sep)
           n == Len(w)
           G == GroupsOf(w)
           D == Doubles(w)
<1>0. sep = ":"
  OBVIOUS
<1> HIDE DEF sep
<1>1. /\ n \in Nat /\ Len(u) = n + 1 /\ (\A i \in 1..n : u[i] = w[i]) /\ u[n + 1] = c
      /\ \A i : i \in D <=> i \in 1..(n - 1) /\ w[i] = sep /\ w[i + 1] = sep
      /\ Doubles(u) = IF c = sep /\ n # 0 /\ w[n] = sep THEN D \cup {n} ELSE D
      /\ \A i, j \in D : i = j
  BY <1>0, DoublesAre, AppendDoubles, FewDoubles, AppendProperties
<1>2. /\ \A i \in A \cup {0} : i \in G <=> i # n /\ w[i + 1] # sep
      /\ G \subseteq A \cup {0}
      /\ IsFiniteSet(G) /\ Cardinality(G) \in Nat
      /\ (l \notin G <=> n = 0 \/ w[n] = sep)
  BY <1>0, GroupsAre
<1>3. /\ c = sep => GroupsOf(u) = G
      /\ c # sep => GroupsOf(u) = G \cup {l}
  BY <1>0, AppendGroups
<1>4. l \in A \cup {0} /\ (\A j \in A : j <= l) /\ A = {i \in 1..n : w[i] = sep}
  BY LastAtIs, LenProperties DEF At
<1>5. Cardinality(G \cup {l}) = IF l \in G THEN Cardinality(G) ELSE Cardinality(G) + 1
  BY <1>2, FS_AddElement
<1>6. G = {} => Cardinality(G) = 0
  BY FS_EmptySet
<1>7. /\ Leads(w) <=> (n # 0 /\ w[1] = sep => (n = 1 \/ 1 \in D) /\ Cardinality(G) <= 1)
      /\ Leads(u) <=> (n + 1 # 0 /\ u[1] = sep => (n + 1 = 1 \/ 1 \in Doubles(u)) /\ Cardinality(GroupsOf(u)) <= 1)
      /\ OneColon(w) <=> n # 0 /\ w[n] = sep /\ n - 1 \notin D
  BY <1>0, <1>1 DEF Leads, OneColon
<1> HIDE DEF u, A, l, n, G, D
<1>8. n = 0 => G = {}
  BY <1>2, <1>4
<1>9. ASSUME c = sep
      PROVE  Leads(u) <=> Leads(w)
  <2>1. CASE n = 0
    BY <1>1, <1>3, <1>6, <1>7, <1>8, <1>9, <2>1
  <2>2. CASE n = 1
    BY <1>1, <1>3, <1>7, <1>9, <2>2
  <2>3. CASE n > 1
    <3>1. 1 \in Doubles(u) <=> 1 \in D
      BY <1>1, <2>3
    <3>2. u[1] = w[1]
      BY <1>1, <2>3
    <3> QED BY <1>1, <1>3, <1>7, <1>9, <2>3, <3>1, <3>2
  <2> QED BY <1>1, <2>1, <2>2, <2>3
<1>10. ASSUME c # sep, n = 0
       PROVE  Leads(u) /\ Leads(w) /\ ~OneColon(w)
  BY <1>1, <1>7, <1>10
<1>11. ASSUME c # sep, n # 0, w[1] # sep
       PROVE  Leads(u) /\ Leads(w)
  <2>1. u[1] = w[1]
    BY <1>1, <1>11
  <2> QED BY <1>7, <1>11, <2>1
<1>12. ASSUME c # sep, n # 0, w[1] = sep
       PROVE  Leads(u) <=> Leads(w) /\ ~OneColon(w)
  <2>1. u[1] = w[1] /\ Doubles(u) = D /\ GroupsOf(u) = G \cup {l} /\ n + 1 # 1 /\ n + 1 # 0
    BY <1>1, <1>3, <1>12
  <2>2. Leads(u) <=> 1 \in D /\ Cardinality(G \cup {l}) <= 1
    BY <1>7, <1>12, <2>1
  <2>3. Leads(w) <=> (n = 1 \/ 1 \in D) /\ Cardinality(G) <= 1
    BY <1>7, <1>12
  <2>4. ASSUME Leads(u)
        PROVE  Leads(w) /\ ~OneColon(w)
    <3>1. 1 \in D /\ Cardinality(G) <= 1
      BY <1>2, <1>5, <2>2, <2>4
    <3> SUFFICES ASSUME OneColon(w)
                 PROVE  FALSE
      BY <2>3, <3>1
    <3>2. n \in Nat /\ w[2] = sep /\ w[n] = sep /\ n - 1 \notin D /\ n >= 3
      <4>1. 1 \in 1..(n - 1) /\ w[2] = sep
        BY <1>1, <3>1
      <4>2. w[n] = sep /\ n - 1 \notin D /\ n - 1 # 1
        BY <1>7, <3>1
      <4> QED BY <1>1, <4>1, <4>2
    <3>3. w[3] # sep
      <4> SUFFICES ASSUME w[3] = sep
                   PROVE  FALSE
        OBVIOUS
      <4>1. 2 \in 1..(n - 1) /\ 2 + 1 = 3
        BY <3>2
      <4>2. 2 \in D
        BY <1>1, <3>2, <4>1
      <4> QED BY <1>1, <3>1, <4>2
    <3>4. 2 \in G
      <4>1. 2 \in A /\ 2 # n /\ 2 + 1 = 3
        BY <1>4, <3>2, <3>3
      <4> QED BY <1>2, <3>3, <4>1
    <3>5. l \notin G
      BY <1>2, <3>2
    <3>6. Cardinality(G) # 0
      BY <1>2, <3>4, FS_EmptySet
    <3> QED BY <1>2, <1>5, <2>2, <2>4, <3>5, <3>6
  <2>5. ASSUME Leads(w), ~OneColon(w)
        PROVE  Leads(u)
    <3>1. CASE w[n] # sep
      <4>1. n # 1 /\ 1 \in D /\ l \in G
        BY <1>2, <1>12, <2>3, <2>5, <3>1
      <4> QED BY <1>5, <2>2, <2>3, <2>5, <4>1
    <3>2. CASE w[n] = sep
      <4>1. n - 1 \in D
        BY <1>7, <1>12, <2>5, <3>2
      <4>2. n # 1
        BY <1>1, <4>1
      <4>3. 1 \in D
        BY <2>3, <2>5, <4>2
      <4>4. n = 2
        <5>1. n - 1 = 1
          BY <1>1, <4>1, <4>3
        <5> QED BY <1>1, <5>1
      <4>5. G = {}
        <5> SUFFICES ASSUME NEW i \in G
                     PROVE  FALSE
          OBVIOUS
        <5>1. i \in {0, 1, 2}
          BY <1>2, <1>4, <4>4
        <5>2. i # 2 /\ w[i + 1] # sep
          BY <1>2, <4>4
        <5>3. 0 + 1 = 1 /\ 1 + 1 = 2
          OBVIOUS
        <5> QED BY <1>12, <3>2, <4>4, <5>1, <5>2, <5>3
      <4> QED BY <1>5, <1>6, <2>2, <4>3, <4>5
    <3> QED BY <3>1, <3>2
  <2> QED BY <2>4, <2>5
<1>13. c # sep => (Leads(u) <=> Leads(w) /\ ~(OneColon(w) /\ w[1] = sep))
  BY <1>10, <1>11, <1>12
<1> QED BY <1>0, <1>9, <1>13 DEF u

LEMMA AppendFitting ==
  ASSUME NEW S, NEW w \in Seq(S), NEW c \in S
  PROVE  /\ c = ":" => (Fitting(Append(w, c)) <=> Fitting(w))
         /\ c # ":" => (Fitting(Append(w, c)) <=>
                          Fitting(w) /\ c \in Xdigits /\ Len(Typed(w, ":")) + 1 <= MaxXdigits)
<1> DEFINE sep == ":"
           u == Append(w, c)
           A == At(w, sep)
           l == LastAt(w, sep)
           G == GroupsOf(w)
           t == Typed(w, sep)
<1>0. sep = ":"
  OBVIOUS
<1> HIDE DEF sep
<1>1. G \subseteq A \cup {0} /\ (t = <<>> <=> l \notin G)
  BY <1>0, GroupsAre
<1>2. (c = sep => GroupsOf(u) = G) /\ (c # sep => GroupsOf(u) = G \cup {l})
  BY <1>0, AppendGroups
<1>3. t = Part(w, sep, l) /\ LastAt(u, sep) = IF c = sep THEN Len(w) + 1 ELSE l
  BY AppendLastAt DEF Typed
<1>4. t \in Seq(S) /\ Typed(u, sep) = IF c = sep THEN <<>> ELSE Append(t, c)
  BY AppendTyped
<1>5. \A i \in A \cup {0} : (c = sep \/ i # l) => Part(u, sep, i) = Part(w, sep, i)
  BY AppendTyped
<1>6. c # sep => Part(u, sep, l) = Append(t, c)
  BY <1>3, <1>4 DEF Typed
<1>7. /\ GroupOf(Append(t, c)) <=> GroupOf(t) /\ c \in Xdigits /\ Len(t) + 1 <= MaxXdigits
      /\ GroupOf(<<>>)
  <2>1. Len(t) \in Nat /\ Len(Append(t, c)) = Len(t) + 1 /\ ToSet(Append(t, c)) = ToSet(t) \cup {c}
    BY <1>4, LenProperties, AppendProperties, AppendSet
  <2>2. Len(<<>>) = 0 /\ ToSet(<<>>) = {}
    BY EmptySeq DEF ToSet
  <2>3. MaxXdigits \in Nat
    BY Limits
  <2> HIDE DEF t
  <2> QED BY <2>1, <2>2, <2>3 DEF GroupOf
<1>8. /\ Fitting(w) <=> \A i \in G : GroupOf(Part(w, sep, i))
      /\ Fitting(u) <=> \A i \in GroupsOf(u) : GroupOf(Part(u, sep, i))
  BY <1>0 DEF Fitting
<1> HIDE DEF u, A, l, G, t
<1>9. c = sep => (Fitting(u) <=> Fitting(w))
  BY <1>1, <1>2, <1>5, <1>8
<1>10. ASSUME c # sep
       PROVE  Fitting(u) <=> Fitting(w) /\ c \in Xdigits /\ Len(t) + 1 <= MaxXdigits
  <2>1. Fitting(u) <=> GroupOf(Append(t, c)) /\ \A i \in G : i # l => GroupOf(Part(w, sep, i))
    <3>1. \A i \in G : i # l => Part(u, sep, i) = Part(w, sep, i)
      BY <1>1, <1>5
    <3> QED BY <1>2, <1>6, <1>8, <1>10, <3>1
  <2>2. Fitting(w) <=> GroupOf(t) /\ \A i \in G : i # l => GroupOf(Part(w, sep, i))
    <3>1. CASE l \in G
      BY <1>3, <1>8, <3>1
    <3>2. CASE l \notin G
      BY <1>1, <1>7, <1>8, <3>2
    <3> QED BY <3>1, <3>2
  <2> QED BY <1>7, <2>1, <2>2
<1> QED BY <1>0, <1>9, <1>10 DEF u, t

\* What a character makes of the beginning of an address.
LEMMA AppendBeginsIPv6 ==
  ASSUME NEW S, NEW w \in Seq(S), NEW c \in S
  PROVE  BeginsIPv6(Append(w, c)) <=>
           /\ BeginsIPv6(w)
           /\ \/ /\ c = ":" /\ Cardinality(At(w, ":")) + 1 <= Groups - 1
                 /\ Len(w) # 0 /\ w[Len(w)] = ":" => Doubles(w) = {}
              \/ /\ c \in Xdigits /\ Len(Typed(w, ":")) + 1 <= MaxXdigits
                 /\ ~(OneColon(w) /\ w[1] = ":")
<1> DEFINE sep == ":"
           u == Append(w, c)
           A == At(w, sep)
           n == Len(w)
           D == Doubles(w)
           t == Typed(w, sep)
<1>0. sep = ":" /\ sep \notin Xdigits
  BY Separators
<1> HIDE DEF sep
<1>1. /\ n \in Nat /\ IsFiniteSet(D) /\ Cardinality(D) \in Nat
      /\ Doubles(u) = IF c = sep /\ n # 0 /\ w[n] = sep THEN D \cup {n} ELSE D
      /\ n \notin D
  <2>1. \A i : i \in D <=> i \in 1..(n - 1) /\ w[i] = sep /\ w[i + 1] = sep
    BY <1>0, DoublesAre
  <2>2. n \in Nat /\ n \notin 1..(n - 1)
    BY DoublesAre
  <2> QED BY <1>0, <2>1, <2>2, DoublesAre, AppendDoubles
<1>2. Cardinality(A) \in Nat /\ Cardinality(At(u, sep)) = Cardinality(A) + (IF c = sep THEN 1 ELSE 0)
  BY AtWithin, AtCount
<1>3. Groups \in Nat /\ Groups > 1
  BY Limits
<1>4. /\ Cardinality(D) = 0 <=> D = {}
      /\ Cardinality(D \cup {n}) = Cardinality(D) + 1
  BY <1>1, FS_EmptySet, FS_AddElement
<1>5. Cardinality(D) <= 1 =>
        /\ c = sep => (Leads(u) <=> Leads(w))
        /\ c # sep => (Leads(u) <=> Leads(w) /\ ~(OneColon(w) /\ w[1] = sep))
  BY <1>0, AppendLeads
<1>6. /\ BeginsIPv6(w) <=> (Fitting(w) /\ Cardinality(D) <= 1 /\ Cardinality(A) <= Groups - 1 /\ Leads(w))
      /\ BeginsIPv6(u) <=> (Fitting(u) /\ Cardinality(Doubles(u)) <= 1
                              /\ Cardinality(At(u, sep)) <= Groups - 1 /\ Leads(u))
  BY <1>0 DEF BeginsIPv6
<1>7. /\ c = sep => (Fitting(u) <=> Fitting(w))
      /\ c # sep => (Fitting(u) <=> Fitting(w) /\ c \in Xdigits /\ Len(t) + 1 <= MaxXdigits)
  BY <1>0, AppendFitting
<1> HIDE DEF u, A, n, D, t
<1>8. CASE c = sep
  <2>1. c \notin Xdigits /\ (Fitting(u) <=> Fitting(w))
    BY <1>0, <1>7, <1>8
  <2>2. Cardinality(At(u, sep)) = Cardinality(A) + 1
    BY <1>2, <1>8
  <2>3. Cardinality(A) + 1 <= Groups - 1 => Cardinality(A) <= Groups - 1
    BY <1>2, <1>3
  <2>4. Cardinality(Doubles(u)) <= 1 <=> Cardinality(D) <= 1 /\ (n # 0 /\ w[n] = sep => D = {})
    BY <1>1, <1>4, <1>8
  <2>5. BeginsIPv6(u) <=> BeginsIPv6(w) /\ Cardinality(A) + 1 <= Groups - 1 /\ (n # 0 /\ w[n] = sep => D = {})
    BY <1>5, <1>6, <1>8, <2>1, <2>2, <2>3, <2>4
  <2> QED BY <1>0, <1>8, <2>1, <2>5 DEF u, A, n, D
<1>9. CASE c # sep
  <2>1. Doubles(u) = D /\ Cardinality(At(u, sep)) = Cardinality(A)
    BY <1>1, <1>2, <1>9
  <2>2. BeginsIPv6(u) <=> /\ BeginsIPv6(w) /\ c \in Xdigits /\ Len(t) + 1 <= MaxXdigits
                          /\ ~(OneColon(w) /\ w[1] = sep)
    BY <1>5, <1>6, <1>7, <1>9, <2>1
  <2> QED BY <1>0, <1>9, <2>2 DEF u, t
<1> QED BY <1>8, <1>9

\* The word that is not there yet begins every address.
LEMMA NothingIPv6 ==
  /\ BeginsIPv6(<<>>) /\ Doubles(<<>>) = {} /\ GroupsOf(<<>>) = {} /\ Len(<<>>) = 0
<1>1. <<>> \in Seq({}) /\ Len(<<>>) = 0
  BY EmptySeq
<1>2. Doubles(<<>>) = {}
  BY DEF Doubles
<1>3. GroupsOf(<<>>) = {}
  BY <1>1, NoWord DEF GroupsOf
<1>4. Cardinality({}) = 0 /\ Groups \in Nat /\ Groups > 1
  BY FS_EmptySet, Limits
<1>5. Cardinality(At(<<>>, ":")) = 0
  BY NoWord
<1> QED BY <1>1, <1>2, <1>3, <1>4, <1>5 DEF BeginsIPv6, Leads, Fitting

\* An address, in the same words.
LEMMA IPv6Is ==
  ASSUME NEW S, NEW w \in Seq(S)
  PROVE  IsIPv6(w) <=>
           /\ Fitting(w)
           /\ \/ /\ Doubles(w) = {} /\ GroupsOf(w) = At(w, ":") \cup {0}
                 /\ Cardinality(GroupsOf(w)) = Groups
              \/ /\ Cardinality(Doubles(w)) = 1 /\ Cardinality(GroupsOf(w)) < Groups
                 /\ w[1] = ":" => 1 \in Doubles(w)
                 /\ w[Len(w)] = ":" => Len(w) - 1 \in Doubles(w)
BY DEF IsIPv6, Fitting, GroupOf, Last

\* A place that is no group leaves no more groups than there are colons.
LEMMA FewGroups ==
  ASSUME NEW S, NEW w \in Seq(S)
  PROVE  /\ Cardinality(GroupsOf(w)) \in Nat /\ Cardinality(At(w, ":")) \in Nat
         /\ Cardinality(GroupsOf(w)) <= Cardinality(At(w, ":")) + 1
         /\ \A i \in At(w, ":") \cup {0} :
              i \notin GroupsOf(w) => Cardinality(GroupsOf(w)) <= Cardinality(At(w, ":"))
         /\ Doubles(w) # {} => Cardinality(GroupsOf(w)) <= Cardinality(At(w, ":"))
<1> DEFINE sep == ":"
           A == At(w, sep)
           G == GroupsOf(w)
           k == Cardinality(A)
<1>0. sep = ":"
  OBVIOUS
<1> HIDE DEF sep
<1>1. k \in Nat /\ A = {i \in 1..Len(w) : w[i] = sep}
  <2>1. k \in Nat
    BY AtWithin
  <2>2. A = {i \in 1..Len(w) : w[i] = sep}
    BY LenProperties DEF At
  <2> QED BY <2>1, <2>2
<1>2. /\ \A i \in A \cup {0} : i \in G <=> i # Len(w) /\ w[i + 1] # sep
      /\ G \subseteq A \cup {0} /\ IsFiniteSet(G) /\ Cardinality(G) \in Nat
      /\ Cardinality(A \cup {0}) = k + 1 /\ IsFiniteSet(A \cup {0})
  BY <1>0, GroupsAre
<1>3. \A i : i \in Doubles(w) <=> i \in 1..(Len(w) - 1) /\ w[i] = sep /\ w[i + 1] = sep
  BY <1>0, DoublesAre
<1>4. Len(w) \in Nat
  BY LenProperties
<1> HIDE DEF A, G, k
<1>5. Cardinality(G) <= k + 1
  BY <1>2, FS_Subset
<1>6. \A i \in A \cup {0} : i \notin G => Cardinality(G) <= k
  <2> TAKE i \in A \cup {0}
  <2> HAVE i \notin G
  <2>1. /\ IsFiniteSet((A \cup {0}) \ {i})
        /\ Cardinality((A \cup {0}) \ {i}) = Cardinality(A \cup {0}) - 1
    BY <1>2, FS_RemoveElement
  <2>2. G \in SUBSET ((A \cup {0}) \ {i})
    BY <1>2
  <2>3. Cardinality(G) <= Cardinality((A \cup {0}) \ {i})
    BY <2>1, <2>2, FS_Subset
  <2> QED BY <1>1, <1>2, <2>1, <2>3
<1>7. \A i \in Doubles(w) : i \in A \cup {0} /\ i \notin G
  BY <1>1, <1>2, <1>3, <1>4
<1> QED BY <1>0, <1>1, <1>2, <1>5, <1>6, <1>7 DEF A, G, k

LEMMA Two ==
  ASSUME NEW a
  PROVE  Append(<<a>>, a) = <<a, a>>
<1> DEFINE s == Append(<<a>>, a)
           t == <<a, a>>
<1>1. <<a>> \in Seq({a}) /\ Len(<<a>>) = 1 /\ <<a>>[1] = a /\ a \in {a}
  OBVIOUS
<1>2. s \in Seq({a}) /\ Len(s) = 2 /\ s[1] = a /\ s[2] = a
  BY <1>1, AppendProperties
<1>3. t \in Seq({a}) /\ Len(t) = 2 /\ t[1] = a /\ t[2] = a
  OBVIOUS
<1> HIDE DEF s, t
<1>4. Len(s) = Len(t) /\ \A i \in 1..Len(s) : s[i] = t[i]
  BY <1>2, <1>3
<1>5. s = t
  BY <1>2, <1>3, <1>4, SeqEqual
<1> QED BY <1>5 DEF s, t

\* What may become an address becomes one, with two characters more at most.
LEMMA EndIPv6 ==
  ASSUME NEW S, Xdigits \subseteq S, ":" \in S, NEW w \in Seq(S), BeginsIPv6(w)
  PROVE  \E x \in Xdigits : \E tail \in {<<>>, <<x>>, <<":">>, <<":", ":">>} : IsIPv6(w \o tail)
<1> DEFINE sep == ":"
           A == At(w, sep)
           n == Len(w)
           D == Doubles(w)
           G == GroupsOf(w)
<1>0. sep = ":" /\ sep \notin Xdigits /\ sep \in S
  BY Separators
<1> HIDE DEF sep
<1>1. PICK x \in Xdigits : TRUE
  BY Separators
<1> DEFINE wc == Append(w, sep)
           wcc == Append(wc, sep)
           wx == Append(w, x)
<1>2. x \in S /\ x # sep /\ wc \in Seq(S) /\ wcc \in Seq(S) /\ wx \in Seq(S)
  BY <1>0, <1>1, AppendProperties
<1>3. /\ w \o <<>> = w /\ w \o <<x>> = wx /\ w \o <<sep>> = wc /\ w \o <<sep, sep>> = wcc
  <2>1. w \o <<>> = w
    BY ConcatEmptySeq
  <2>2. w \o <<x>> = wx /\ w \o <<sep>> = wc /\ wc \o <<sep>> = wcc
    BY <1>0, <1>2, AppendIsConcat
  <2>3. <<sep>> \in Seq(S)
    BY <1>0
  <2>5. <<sep>> \o <<sep>> = <<sep, sep>>
    <3>1. Append(<<sep>>, sep) = <<sep>> \o <<sep>>
      BY <1>0, <2>3, AppendIsConcat
    <3> QED BY <3>1, Two
  <2>4. (w \o <<sep>>) \o <<sep>> = w \o (<<sep>> \o <<sep>>)
    BY <2>3, ConcatAssociative
  <2> QED BY <2>2, <2>1, <2>4, <2>5
<1> SUFFICES IsIPv6(w) \/ IsIPv6(wx) \/ IsIPv6(wc) \/ IsIPv6(wcc)
  <2>1. \A tail \in {<<>>, <<x>>, <<sep>>, <<sep, sep>>} :
          IsIPv6(w \o tail) => \E y \in Xdigits : \E z \in {<<>>, <<y>>, <<":">>, <<":", ":">>} : IsIPv6(w \o z)
    BY <1>0
  <2> QED BY <1>3, <2>1
<1>4. /\ n \in Nat /\ (n # 0 => 1 \in 1..n /\ n \in 1..n)
      /\ Len(wc) = n + 1 /\ Len(wcc) = n + 2 /\ Len(wx) = n + 1
      /\ wx[n + 1] = x /\ wc[n + 1] = sep /\ wcc[n + 2] = sep /\ wcc[n + 1] = sep
      /\ \A i \in 1..n : wc[i] = w[i] /\ wcc[i] = w[i] /\ wx[i] = w[i]
  <2>1. n \in Nat
    BY LenProperties
  <2>2. /\ Len(wc) = n + 1 /\ wc[n + 1] = sep /\ \A i \in 1..n : wc[i] = w[i]
        /\ Len(wx) = n + 1 /\ wx[n + 1] = x /\ \A i \in 1..n : wx[i] = w[i]
    BY <1>0, <1>2, AppendProperties
  <2>3. /\ Len(wcc) = Len(wc) + 1 /\ wcc[Len(wc) + 1] = sep
        /\ \A i \in 1..Len(wc) : wcc[i] = wc[i]
    BY <1>0, <1>2, AppendProperties
  <2> HIDE DEF wc, wcc, wx, n
  <2> QED BY <2>1, <2>2, <2>3
<1>5. /\ \A i : i \in D <=> i \in 1..(n - 1) /\ w[i] = sep /\ w[i + 1] = sep
      /\ IsFiniteSet(D) /\ Cardinality(D) \in Nat
      /\ Cardinality(D) = 0 <=> D = {}
  <2>1. \A i : i \in D <=> i \in 1..(n - 1) /\ w[i] = sep /\ w[i + 1] = sep
    BY <1>0, DoublesAre
  <2> QED BY <2>1, DoublesAre, FS_EmptySet
<1>6. /\ Doubles(wc) = IF n # 0 /\ w[n] = sep THEN D \cup {n} ELSE D
      /\ Doubles(wx) = D
      /\ Doubles(wcc) = Doubles(wc) \cup {n + 1}
  <2>1. /\ Doubles(wc) = IF n # 0 /\ w[n] = sep THEN D \cup {n} ELSE D
        /\ Doubles(wx) = D
    BY <1>0, <1>2, AppendDoubles
  <2>2. Doubles(wcc) = IF Len(wc) # 0 /\ wc[Len(wc)] = sep THEN Doubles(wc) \cup {Len(wc)} ELSE Doubles(wc)
    BY <1>0, <1>2, AppendDoubles
  <2> HIDE DEF wc, wcc, wx, n
  <2> QED BY <1>4, <2>1, <2>2
<1>7. /\ GroupsOf(wc) = G /\ GroupsOf(wcc) = G
      /\ GroupsOf(wx) = G \cup {LastAt(w, sep)} /\ At(wx, sep) = A
  <2>1. GroupsOf(wc) = G /\ GroupsOf(wx) = G \cup {LastAt(w, sep)}
    BY <1>0, <1>2, AppendGroups
  <2>2. GroupsOf(wcc) = GroupsOf(wc)
    <3> HIDE DEF wc
    <3> QED BY <1>0, <1>2, AppendGroups
  <2>3. At(wx, sep) = A
    BY <1>2, AppendAt
  <2> QED BY <2>1, <2>2, <2>3
<1>8. /\ \A i \in A \cup {0} : i \in G <=> i # n /\ w[i + 1] # sep
      /\ G \subseteq A \cup {0} /\ Cardinality(A \cup {0}) = Cardinality(A) + 1
  BY <1>0, GroupsAre
<1>9. A = {i \in 1..n : w[i] = sep}
  BY LenProperties DEF At
<1>10. /\ Cardinality(G) \in Nat /\ Cardinality(A) \in Nat /\ Cardinality(G) <= Cardinality(A) + 1
       /\ \A i \in A \cup {0} : i \notin G => Cardinality(G) <= Cardinality(A)
       /\ D # {} => Cardinality(G) <= Cardinality(A)
       /\ D # {} => Cardinality(GroupsOf(wx)) <= Cardinality(A)
  <2>1. /\ Cardinality(G) \in Nat /\ Cardinality(A) \in Nat /\ Cardinality(G) <= Cardinality(A) + 1
        /\ \A i \in A \cup {0} : i \notin G => Cardinality(G) <= Cardinality(A)
        /\ D # {} => Cardinality(G) <= Cardinality(A)
    BY <1>0, FewGroups
  <2>2. Doubles(wx) # {} => Cardinality(GroupsOf(wx)) <= Cardinality(At(wx, sep))
    BY <1>0, <1>2, FewGroups
  <2> QED BY <1>6, <1>7, <2>1, <2>2
<1>11. /\ Fitting(w) /\ Cardinality(D) <= 1 /\ Cardinality(A) <= Groups - 1
       /\ n # 0 /\ w[1] = sep => (n = 1 \/ 1 \in D)
       /\ Groups \in Nat /\ Groups > 1
  BY <1>0, Limits DEF BeginsIPv6, Leads
<1>12. /\ Fitting(wc) /\ Fitting(wcc)
       /\ w[n] = sep /\ n # 0 => Fitting(wx)
  <2>1. Fitting(wc)
    BY <1>0, <1>2, <1>11, AppendFitting
  <2>2. Fitting(wcc)
    BY <1>0, <1>2, <2>1, AppendFitting
  <2>3. ASSUME w[n] = sep, n # 0
        PROVE  Fitting(wx)
    <3>1. Typed(w, sep) = <<>>
      BY <1>0, <2>3, GroupsAre
    <3>2. Len(Typed(w, sep)) + 1 <= MaxXdigits
      BY <3>1, Limits, EmptySeq
    <3> QED BY <1>0, <1>1, <1>2, <1>11, <3>2, AppendFitting
  <2> QED BY <2>1, <2>2, <2>3
<1>13. /\ IsIPv6(w) <=>
            /\ Fitting(w)
            /\ \/ D = {} /\ G = A \cup {0} /\ Cardinality(G) = Groups
               \/ /\ Cardinality(D) = 1 /\ Cardinality(G) < Groups
                  /\ w[1] = sep => 1 \in D
                  /\ w[n] = sep => n - 1 \in D
       /\ \A u \in {wx, wc, wcc} :
            /\ Fitting(u) /\ Cardinality(Doubles(u)) = 1 /\ Cardinality(GroupsOf(u)) < Groups
            /\ u[1] = sep => 1 \in Doubles(u)
            /\ u[Len(u)] = sep => Len(u) - 1 \in Doubles(u)
            => IsIPv6(u)
  <2>1. \A u \in Seq(S) :
          /\ Fitting(u) /\ Cardinality(Doubles(u)) = 1 /\ Cardinality(GroupsOf(u)) < Groups
          /\ u[1] = sep => 1 \in Doubles(u)
          /\ u[Len(u)] = sep => Len(u) - 1 \in Doubles(u)
          => IsIPv6(u)
    BY <1>0, IPv6Is
  <2>2. IsIPv6(w) <=>
            /\ Fitting(w)
            /\ \/ D = {} /\ G = A \cup {0} /\ Cardinality(G) = Groups
               \/ /\ Cardinality(D) = 1 /\ Cardinality(G) < Groups
                  /\ w[1] = sep => 1 \in D
                  /\ w[n] = sep => n - 1 \in D
    BY <1>0, IPv6Is
  <2> QED BY <1>2, <2>1, <2>2
<1> HIDE DEF wc, wcc, wx, n, A, D, G
<1>14. CASE D # {} /\ ~(n # 0 /\ w[n] = sep /\ n - 1 \notin D)
  <2>1. n > 1 /\ Cardinality(D) = 1 /\ Cardinality(G) < Groups
    BY <1>4, <1>5, <1>10, <1>11, <1>14
  <2> QED BY <1>4, <1>11, <1>13, <1>14, <2>1
<1>15. CASE D # {} /\ n # 0 /\ w[n] = sep /\ n - 1 \notin D
  <2>1. n > 1 /\ Cardinality(D) = 1 /\ Cardinality(GroupsOf(wx)) < Groups
    <3>1. Cardinality(GroupsOf(wx)) \in Nat
      BY <1>2, FewGroups
    <3>2. Cardinality(GroupsOf(wx)) < Groups
      BY <1>10, <1>11, <1>15, <3>1
    <3>3. Cardinality(D) = 1
      BY <1>5, <1>11, <1>15
    <3>4. n > 1
      BY <1>4, <1>5, <1>15
    <3> QED BY <3>2, <3>3, <3>4
  <2>2. wx[1] = sep => 1 \in Doubles(wx)
    BY <1>4, <1>6, <1>11, <2>1
  <2>3. wx[Len(wx)] # sep
    BY <1>2, <1>4
  <2> QED BY <1>6, <1>12, <1>13, <1>15, <2>1, <2>2, <2>3
<1>16. CASE D = {} /\ n # 0 /\ w[n] = sep
  <2>1. Doubles(wc) = {n} /\ Cardinality({n}) = 1
    BY <1>6, <1>16, FS_Singleton
  <2>2. n \in A \cup {0} /\ n \notin G
    BY <1>4, <1>8, <1>9, <1>16
  <2>3. Cardinality(GroupsOf(wc)) < Groups
    BY <1>7, <1>10, <1>11, <2>2
  <2>4. wc[1] = sep => 1 = n
    BY <1>4, <1>11, <1>16
  <2>5. Len(wc) - 1 = n
    BY <1>4
  <2> QED BY <1>12, <1>13, <2>1, <2>3, <2>4, <2>5
<1>17. CASE D = {} /\ ~(n # 0 /\ w[n] = sep) /\ Cardinality(A) + 1 # Groups
  <2> DEFINE e == n + 1
  <2>1. Doubles(wcc) = {e} /\ Cardinality({e}) = 1
    BY <1>6, <1>17, FS_Singleton
  <2>2. Cardinality(GroupsOf(wcc)) < Groups
    BY <1>7, <1>10, <1>11, <1>17
  <2>3. wcc[1] = sep => 1 = e
    BY <1>4, <1>11, <1>17
  <2>4. Len(wcc) - 1 = e
    BY <1>4
  <2> HIDE DEF e
  <2> QED BY <1>12, <1>13, <2>1, <2>2, <2>3, <2>4
<1>18. CASE D = {} /\ ~(n # 0 /\ w[n] = sep) /\ Cardinality(A) + 1 = Groups
  <2>1. n # 0
    <3> SUFFICES ASSUME n = 0
                 PROVE  FALSE
      OBVIOUS
    <3>1. A = {}
      BY <1>9
    <3> QED BY <1>11, <1>18, <3>1, FS_EmptySet
  <2>2. w[1] # sep
    BY <1>11, <1>18, <2>1
  <2>3. \A i \in A \cup {0} : i \in G
    <3> TAKE i \in A \cup {0}
    <3>1. CASE i = 0
      <4>1. 0 + 1 = 1
        OBVIOUS
      <4> QED BY <1>8, <2>1, <2>2, <3>1, <4>1
    <3>2. CASE i \in A
      <4>1. i \in 1..(n - 1) /\ w[i] = sep
        BY <1>4, <1>9, <1>18, <3>2
      <4>2. w[i + 1] # sep
        BY <1>5, <1>18, <4>1
      <4>3. i # n
        BY <1>4, <4>1
      <4> QED BY <1>8, <3>2, <4>2, <4>3
    <3> QED BY <3>1, <3>2
  <2>4. G = A \cup {0}
    BY <1>8, <2>3
  <2> QED BY <1>8, <1>11, <1>13, <1>18, <2>4
<1> QED BY <1>14, <1>15, <1>16, <1>17, <1>18

\* What IPv6Taken says is taken begins as what may become an address, and ends with a digit.
LEMMA TakenBegins ==
  ASSUME NEW S, NEW w \in Seq(S), w # <<>>, IsIPv6(w), ~Untaken(w)
  PROVE  BeginsIPv6(w) /\ Len(w) # 0 /\ w[Len(w)] # ":"
<1> DEFINE sep == ":"
           A == At(w, sep)
           n == Len(w)
           D == Doubles(w)
           G == GroupsOf(w)
<1>0. sep = ":"
  OBVIOUS
<1> HIDE DEF sep
<1>1. n \in Nat /\ n # 0 /\ w[n] # sep /\ Cardinality(A) # Groups /\ (w[1] = sep => ~(Cardinality(G) > 1))
  BY <1>0, DoublesAre DEF Untaken, Last
<1>2. /\ \A i : i \in D <=> i \in 1..(n - 1) /\ w[i] = sep /\ w[i + 1] = sep
      /\ IsFiniteSet(D) /\ Cardinality(D) \in Nat
  BY <1>0, DoublesAre
<1>3. /\ \A i \in A \cup {0} : i \in G <=> i # n /\ w[i + 1] # sep
      /\ IsFiniteSet(G) /\ Cardinality(G) \in Nat
      /\ Cardinality(A \cup {0}) = Cardinality(A) + 1
  BY <1>0, GroupsAre
<1>4. A = {i \in 1..n : w[i] = sep}
  BY LenProperties DEF At
<1>5. IsFiniteSet(A) /\ Cardinality(A) \in Nat
  BY AtWithin
<1>6. Groups \in Nat /\ Groups > 1
  BY Limits
<1>7. /\ Fitting(w)
      /\ \/ D = {} /\ G = A \cup {0} /\ Cardinality(G) = Groups
         \/ Cardinality(D) = 1 /\ Cardinality(G) < Groups /\ (w[1] = sep => 1 \in D)
  BY <1>0, IPv6Is
<1> HIDE DEF A, n, D, G
<1>8. CASE D = {} /\ G = A \cup {0} /\ Cardinality(G) = Groups
  <2>1. Cardinality(D) <= 1
    BY <1>8, FS_EmptySet
  <2>2. Cardinality(A) <= Groups - 1
    BY <1>3, <1>5, <1>6, <1>8
  <2>3. w[1] # sep
    <3>1. 0 \in G /\ 0 + 1 = 1 /\ 0 \in A \cup {0}
      BY <1>8
    <3> QED BY <1>3, <3>1
  <2> QED BY <1>0, <1>1, <1>7, <2>1, <2>2, <2>3 DEF BeginsIPv6, Leads, A, n, D
<1>9. CASE Cardinality(D) = 1 /\ Cardinality(G) < Groups /\ (w[1] = sep => 1 \in D)
  <2>1. PICK d \in D : TRUE
    BY <1>2, <1>9, FS_EmptySet
  <2>2. \A i \in D : i = d
    BY <1>9, <2>1, FewDoubles DEF D
  <2>3. A \ {d} \in SUBSET G
    <3> SUFFICES ASSUME NEW i \in A, i # d
                 PROVE  i \in G
      OBVIOUS
    <3>1. i # n
      BY <1>1, <1>4
    <3>2. w[i + 1] # sep
      <4> SUFFICES ASSUME w[i + 1] = sep
                   PROVE  FALSE
        OBVIOUS
      <4>1. i \in 1..(n - 1) /\ w[i] = sep
        BY <1>1, <1>4, <3>1
      <4>2. i \in D
        BY <1>2, <4>1
      <4> QED BY <2>2, <4>2
    <3> QED BY <1>3, <3>1, <3>2
  <2>4. d \in A
    BY <1>1, <1>2, <1>4, <2>1
  <2>5. Cardinality(A \ {d}) = Cardinality(A) - 1
    BY <1>5, <2>4, FS_RemoveElement
  <2>6. Cardinality(A \ {d}) <= Cardinality(G)
    BY <1>3, <2>3, FS_Subset
  <2>7. Cardinality(A) <= Groups - 1
    BY <1>1, <1>3, <1>5, <1>6, <1>9, <2>5, <2>6
  <2>8. w[1] = sep => 1 \in D /\ Cardinality(G) <= 1
    BY <1>1, <1>3, <1>9
  <2> QED BY <1>0, <1>1, <1>7, <1>9, <2>7, <2>8 DEF BeginsIPv6, Leads, A, n, D, G
<1> QED BY <1>7, <1>8, <1>9

-------------------------------------------------------------------------------
(***************************************************************************)
(* IPv6 addresses and prefixes: what the locals say of the word             *)
(***************************************************************************)
In6 == {"IPv6Address", "IPv6Prefix"}

States6 == {"init", "xdigit", "colon1", "colon2"}

IPv6At(w) ==
  IF Len(w) = 0 THEN "init" ELSE IF w[Len(w)] # ":" THEN "xdigit"
  ELSE IF Len(w) - 1 \in Doubles(w) THEN "colon2" ELSE "colon1"

FirstColon(w)  == Len(w) # 0 /\ w[1] = ":"
\* A double colon that is not the one at the end.
DoubleColon(w) == Doubles(w) \ {Len(w) - 1} # {}

Locals(st, fc, dc, x, y, k) ==
  [state |-> st, firstColon |-> fc, doubleColon |-> dc, xdigits |-> x,
   xdigitsCount |-> y, colonCount |-> k, plen |-> 0]

LEMMA IPv6States ==
  ASSUME NEW S, NEW w \in Seq(S)
  PROVE  /\ IPv6At(w) \in States6
         /\ IPv6At(w) = "init" <=> Len(w) = 0
         /\ IPv6At(w) = "xdigit" <=> Typed(w, ":") # <<>>
         /\ IPv6At(w) = "xdigit" <=> Len(w) # 0 /\ w[Len(w)] # ":"
         /\ IPv6At(w) = "colon1" <=> OneColon(w)
         /\ IPv6At(w) = "colon2" <=> Len(w) - 1 \in Doubles(w)
         /\ IPv6At(w) \in {"colon1", "colon2"} <=> Len(w) # 0 /\ w[Len(w)] = ":"
         /\ Len(Typed(w, ":")) \in Nat /\ (Typed(w, ":") = <<>> <=> Len(Typed(w, ":")) = 0)
<1>1. Typed(w, ":") = <<>> <=> Len(w) = 0 \/ w[Len(w)] = ":"
  BY GroupsAre
<1>2. Len(w) - 1 \in Doubles(w) => Len(w) # 0 /\ w[Len(w)] = ":"
  <2> DEFINE n == Len(w)
             sep == ":"
  <2>0. sep = ":"
    OBVIOUS
  <2> HIDE DEF sep
  <2>1. n \in Nat
    BY LenProperties
  <2>2. \A i : i \in Doubles(w) <=> i \in 1..(n - 1) /\ w[i] = sep /\ w[i + 1] = sep
    BY <2>0, DoublesAre
  <2> HIDE DEF n
  <2>3. n - 1 + 1 = n /\ (n - 1 \in 1..(n - 1) => n # 0)
    BY <2>1
  <2> QED BY <2>0, <2>2, <2>3 DEF n
<1>3. Len(Typed(w, ":")) \in Nat /\ (Typed(w, ":") = <<>> <=> Len(Typed(w, ":")) = 0)
  <2>1. Typed(w, ":") \in Seq(S)
    BY LastAtIs, PartType DEF Typed
  <2> QED BY <2>1, DoublesAre
<1> QED BY <1>1, <1>2, <1>3 DEF IPv6At, States6, OneColon

LEMMA AppendLocals ==
  ASSUME NEW S, NEW w \in Seq(S), NEW c \in S
  PROVE  /\ IPv6At(Append(w, c)) = IF c # ":" THEN "xdigit"
                                   ELSE IF IPv6At(w) \in {"colon1", "colon2"} THEN "colon2" ELSE "colon1"
         /\ FirstColon(Append(w, c)) <=> IF Len(w) = 0 THEN c = ":" ELSE w[1] = ":"
         /\ DoubleColon(Append(w, c)) <=> Doubles(w) # {}
         /\ Len(Typed(Append(w, c), ":")) = IF c = ":" THEN 0 ELSE Len(Typed(w, ":")) + 1
         /\ Cardinality(At(Append(w, c), ":")) = Cardinality(At(w, ":")) + (IF c = ":" THEN 1 ELSE 0)
         /\ Cardinality(At(w, ":")) \in Nat
<1> DEFINE sep == ":"
           u == Append(w, c)
           n == Len(w)
           D == Doubles(w)
           e == n + 1
<1>0. sep = ":"
  OBVIOUS
<1> HIDE DEF sep
<1>1. /\ n \in Nat /\ Len(u) = e /\ u[e] = c
      /\ (\A i \in 1..n : u[i] = w[i])
  BY LenProperties, AppendProperties
<1>2. /\ Doubles(u) = IF c = sep /\ n # 0 /\ w[n] = sep THEN D \cup {n} ELSE D
  BY <1>0, AppendDoubles
<1>3. n \notin D
  <2>1. \A i : i \in D => i \in 1..(n - 1)
    BY <1>0, DoublesAre
  <2> HIDE DEF n, D
  <2>2. n \notin 1..(n - 1)
    BY <1>1
  <2> QED BY <2>1, <2>2
<1>4. /\ Typed(w, sep) \in Seq(S)
      /\ Typed(u, sep) = IF c = sep THEN <<>> ELSE Append(Typed(w, sep), c)
  BY AppendTyped
<1>5. Len(Typed(u, sep)) = IF c = sep THEN 0 ELSE Len(Typed(w, sep)) + 1
  BY <1>4, AppendProperties, EmptySeq
<1>6. /\ Cardinality(At(u, sep)) = Cardinality(At(w, sep)) + (IF c = sep THEN 1 ELSE 0)
      /\ Cardinality(At(w, sep)) \in Nat
  BY AtWithin, AtCount
<1>7. IPv6At(w) \in {"colon1", "colon2"} <=> n # 0 /\ w[n] = sep
  BY <1>0, IPv6States
<1> HIDE DEF u, n, D
<1>8. e - 1 = n /\ e # 0 /\ (n # 0 => u[1] = w[1]) /\ (n = 0 => u[1] = c)
  <2>1. n # 0 => 1 \in 1..n
    BY <1>1
  <2>2. n = 0 => e = 1
    OBVIOUS
  <2> QED BY <1>1, <2>1, <2>2
<1> HIDE DEF e
<1>9. Doubles(u) \ {e - 1} = D
  BY <1>2, <1>3, <1>8
<1>10. n \in Doubles(u) <=> c = sep /\ n # 0 /\ w[n] = sep
  BY <1>2, <1>3
<1>11. IPv6At(u) = IF c # sep THEN "xdigit" ELSE IF n \in Doubles(u) THEN "colon2" ELSE "colon1"
  BY <1>0, <1>1, <1>8 DEF IPv6At
<1>12. IPv6At(u) = IF c # sep THEN "xdigit"
                   ELSE IF IPv6At(w) \in {"colon1", "colon2"} THEN "colon2" ELSE "colon1"
  BY <1>7, <1>10, <1>11
<1>13. FirstColon(u) <=> IF n = 0 THEN c = sep ELSE w[1] = sep
  BY <1>0, <1>1, <1>8 DEF FirstColon
<1>14. DoubleColon(u) <=> D # {}
  BY <1>1, <1>9 DEF DoubleColon
<1> QED BY <1>0, <1>5, <1>6, <1>12, <1>13, <1>14 DEF u, n, D

\* The assignments to one of the locals.
ToState(r, v)  == [r EXCEPT !.state = v]
ToFirst(r, v)  == [r EXCEPT !.firstColon = v]
ToDouble(r, v) == [r EXCEPT !.doubleColon = v]
ToDigits(r, v) == [r EXCEPT !.xdigits = v]
ToCount(r, v)  == [r EXCEPT !.xdigitsCount = v]
ToColons(r, v) == [r EXCEPT !.colonCount = v]

LEMMA OneLocal ==
  ASSUME NEW st, NEW fc, NEW dc, NEW x, NEW y, NEW k, NEW v
  PROVE  /\ ToState(Locals(st, fc, dc, x, y, k), v) = Locals(v, fc, dc, x, y, k)
         /\ ToFirst(Locals(st, fc, dc, x, y, k), v) = Locals(st, v, dc, x, y, k)
         /\ ToDouble(Locals(st, fc, dc, x, y, k), v) = Locals(st, fc, v, x, y, k)
         /\ ToDigits(Locals(st, fc, dc, x, y, k), v) = Locals(st, fc, dc, v, y, k)
         /\ ToCount(Locals(st, fc, dc, x, y, k), v) = Locals(st, fc, dc, x, v, k)
         /\ ToColons(Locals(st, fc, dc, x, y, k), v) = Locals(st, fc, dc, x, y, v)
<1>1. ToState(Locals(st, fc, dc, x, y, k), v) = Locals(v, fc, dc, x, y, k)
  BY DEF Locals, ToState
<1>2. ToFirst(Locals(st, fc, dc, x, y, k), v) = Locals(st, v, dc, x, y, k)
  BY DEF Locals, ToFirst
<1>3. ToDouble(Locals(st, fc, dc, x, y, k), v) = Locals(st, fc, v, x, y, k)
  BY DEF Locals, ToDouble
<1>4. ToDigits(Locals(st, fc, dc, x, y, k), v) = Locals(st, fc, dc, v, y, k)
  BY DEF Locals, ToDigits
<1>5. ToCount(Locals(st, fc, dc, x, y, k), v) = Locals(st, fc, dc, x, v, k)
  BY DEF Locals, ToCount
<1>6. ToColons(Locals(st, fc, dc, x, y, k), v) = Locals(st, fc, dc, x, y, v)
  BY DEF Locals, ToColons
<1> QED BY <1>1, <1>2, <1>3, <1>4, <1>5, <1>6

\* The table of the loop.
Table(m, c, st, fc, dc, x, y, k) ==
  /\ c = ":" /\ st = "init" => m = Locals("colon1", TRUE, dc, x, y, k + 1)
  /\ c = ":" /\ st = "xdigit" => m = Locals("colon1", fc, dc, 0, y + 1, k + 1)
  /\ c = ":" /\ st = "colon1" => m = Locals("colon2", fc, dc, x, y, k + 1)
  /\ c = ":" /\ st = "colon2" => m = Refused
  /\ c \in Xdigits /\ (st \in {"init", "xdigit"} \/ (st = "colon1" /\ ~fc)) =>
       m = Locals("xdigit", fc, dc, x + 1, y, k)
  /\ c \in Xdigits /\ st = "colon1" /\ fc => m = Refused
  /\ c \in Xdigits /\ st = "colon2" => m = Locals("xdigit", fc, TRUE, 1, y, k)
  /\ c # ":" /\ c \notin Xdigits => m = Refused

LEMMA IPv6NextIs ==
  ASSUME NEW c, c # "/", NEW st \in States6, NEW fc \in BOOLEAN, NEW dc \in BOOLEAN,
         NEW x \in Nat, NEW y \in Nat, NEW k \in Nat
  PROVE  Table(IPv6Next(Locals(st, fc, dc, x, y, k), c), c, st, fc, dc, x, y, k)
<1> DEFINE r == Locals(st, fc, dc, x, y, k)
<1>1. ":" \notin Xdigits
  BY Separators
<1>2. r.state = st /\ r.firstColon = fc
  BY DEF Locals
<1>3. Plen(r, c, MaxLength6) = Refused
  BY <1>2 DEF Plen, States6
<1> HIDE DEF r
<1>4. ASSUME c = ":", st = "init"
      PROVE  IPv6Next(r, c) = [r EXCEPT !.state = "colon1", !.firstColon = TRUE, !.colonCount = @ + 1]
  BY <1>1, <1>2, <1>4 DEF IPv6Next
<1>5. ASSUME c = ":", st = "xdigit"
      PROVE  IPv6Next(r, c) = [r EXCEPT !.state = "colon1", !.xdigits = 0, !.xdigitsCount = @ + 1, !.colonCount = @ + 1]
  BY <1>1, <1>2, <1>5 DEF IPv6Next
<1>6. ASSUME c = ":", st = "colon1"
      PROVE  IPv6Next(r, c) = [r EXCEPT !.state = "colon2", !.colonCount = @ + 1]
  BY <1>1, <1>2, <1>6 DEF IPv6Next
<1>7. ASSUME c = ":", st = "colon2"
      PROVE  IPv6Next(r, c) = Refused
  BY <1>1, <1>2, <1>3, <1>7 DEF IPv6Next
<1>8. ASSUME c \in Xdigits, st \in {"init", "xdigit"} \/ (st = "colon1" /\ ~fc)
      PROVE  IPv6Next(r, c) = [r EXCEPT !.state = "xdigit", !.xdigits = @ + 1]
  BY <1>1, <1>2, <1>8 DEF IPv6Next
<1>9. ASSUME c \in Xdigits, st = "colon1", fc
      PROVE  IPv6Next(r, c) = Refused
  BY <1>1, <1>2, <1>3, <1>9 DEF IPv6Next
<1>10. ASSUME c \in Xdigits, st = "colon2"
       PROVE  IPv6Next(r, c) = [r EXCEPT !.state = "xdigit", !.xdigits = 1, !.doubleColon = TRUE]
  BY <1>1, <1>2, <1>10 DEF IPv6Next
<1>11. ASSUME c # ":", c \notin Xdigits
       PROVE  IPv6Next(r, c) = Refused
  BY <1>2, <1>3, <1>11 DEF IPv6Next
<1>12. /\ [r EXCEPT !.state = "colon1", !.firstColon = TRUE, !.colonCount = @ + 1]
            = Locals("colon1", TRUE, dc, x, y, k + 1)
       /\ [r EXCEPT !.state = "colon1", !.xdigits = 0, !.xdigitsCount = @ + 1, !.colonCount = @ + 1]
            = Locals("colon1", fc, dc, 0, y + 1, k + 1)
       /\ [r EXCEPT !.state = "colon2", !.colonCount = @ + 1] = Locals("colon2", fc, dc, x, y, k + 1)
       /\ [r EXCEPT !.state = "xdigit", !.xdigits = @ + 1] = Locals("xdigit", fc, dc, x + 1, y, k)
       /\ [r EXCEPT !.state = "xdigit", !.xdigits = 1, !.doubleColon = TRUE] = Locals("xdigit", fc, TRUE, 1, y, k)
  <2> DEFINE x1 == x + 1
             y1 == y + 1
             k1 == k + 1
             yes == TRUE
  <2>1. r.xdigits + 1 = x1 /\ r.xdigitsCount + 1 = y1 /\ r.colonCount + 1 = k1
    BY DEF r, Locals
  <2>2. r = Locals(st, fc, dc, x, y, k)
    BY DEF r
  <2> HIDE DEF x1, y1, k1, yes
  <2>3. [r EXCEPT !.state = "colon1", !.firstColon = yes, !.colonCount = k1]
          = Locals("colon1", yes, dc, x, y, k1)
    <3>1. [r EXCEPT !.state = "colon1", !.firstColon = yes, !.colonCount = k1]
            = ToColons(ToFirst(ToState(r, "colon1"), yes), k1)
      BY DEF ToColons, ToFirst, ToState
    <3> QED BY <2>2, <3>1, OneLocal
  <2>4. [r EXCEPT !.state = "colon1", !.xdigits = 0, !.xdigitsCount = y1, !.colonCount = k1]
          = Locals("colon1", fc, dc, 0, y1, k1)
    <3>1. [r EXCEPT !.state = "colon1", !.xdigits = 0, !.xdigitsCount = y1, !.colonCount = k1]
            = ToColons(ToCount(ToDigits(ToState(r, "colon1"), 0), y1), k1)
      BY DEF ToColons, ToCount, ToDigits, ToState
    <3> QED BY <2>2, <3>1, OneLocal
  <2>5. [r EXCEPT !.state = "colon2", !.colonCount = k1] = Locals("colon2", fc, dc, x, y, k1)
    <3>1. [r EXCEPT !.state = "colon2", !.colonCount = k1]
            = ToColons(ToState(r, "colon2"), k1)
      BY DEF ToColons, ToState
    <3> QED BY <2>2, <3>1, OneLocal
  <2>6. [r EXCEPT !.state = "xdigit", !.xdigits = x1] = Locals("xdigit", fc, dc, x1, y, k)
    <3>1. [r EXCEPT !.state = "xdigit", !.xdigits = x1]
            = ToDigits(ToState(r, "xdigit"), x1)
      BY DEF ToDigits, ToState
    <3> QED BY <2>2, <3>1, OneLocal
  <2>7. [r EXCEPT !.state = "xdigit", !.xdigits = 1, !.doubleColon = yes] = Locals("xdigit", fc, yes, 1, y, k)
    <3>1. [r EXCEPT !.state = "xdigit", !.xdigits = 1, !.doubleColon = yes]
            = ToDouble(ToDigits(ToState(r, "xdigit"), 1), yes)
      BY DEF ToDigits, ToDouble, ToState
    <3> QED BY <2>2, <3>1, OneLocal
  <2> QED BY <2>1, <2>3, <2>4, <2>5, <2>6, <2>7 DEF x1, y1, k1, yes
<1> QED BY <1>4, <1>5, <1>6, <1>7, <1>8, <1>9, <1>10, <1>11, <1>12 DEF r, Table

LEMMA WithinIs ==
  ASSUME NEW st \in States6, NEW fc, NEW dc \in BOOLEAN, NEW x, NEW y, NEW k
  PROVE  /\ Locals(st, fc, dc, x, y, k) # Refused
         /\ Locals(st, fc, dc, x, y, k).state = st
         /\ Within(Locals(st, fc, dc, x, y, k)) <=>
              k <= Groups - 1 /\ x <= MaxXdigits /\ y <= Groups /\ ~(dc /\ st = "colon2")
<1> DEFINE r == Locals(st, fc, dc, x, y, k)
<1>1. r.state = st /\ r.doubleColon = dc /\ r.xdigits = x /\ r.xdigitsCount = y /\ r.colonCount = k
  BY DEF Locals
<1>2. r # Refused
  BY <1>1 DEF Refused, States6
<1> HIDE DEF r
<1> QED BY <1>1, <1>2 DEF Within, r

\* Before a slash, the locals say of the word where it stands, how many colons it has
\* and how many digits its last group; what cannot become an address is refused, and
\* nothing else.
IPv6Reads ==
  kind \in In6 /\ At(word, "/") = {} =>
    IF BeginsIPv6(word)
    THEN \E fc, dc \in BOOLEAN, y \in 0..Cardinality(At(word, ":")) :
           /\ read = Locals(IPv6At(word), fc, dc, Len(Typed(word, ":")), y, Cardinality(At(word, ":")))
           /\ fc <=> FirstColon(word)
           /\ dc <=> DoubleColon(word)
    ELSE read = Refused

Ended(st, fc, dc, x, y, k, p) ==
  [state |-> st, firstColon |-> fc, doubleColon |-> dc, xdigits |-> x,
   xdigitsCount |-> y, colonCount |-> k, plen |-> p]

\* After the slash of an address that is taken, they say which length it has.
IPv6Length ==
  (kind = "IPv6Prefix" /\ LastAt(word, "/") > 1 /\ IsIPv6(UpTo(word, "/")) /\ ~Untaken(UpTo(word, "/"))
     /\ (Typed(word, "/") = <<>> \/ NumberTo(Typed(word, "/"), MaxLength6))) =>
    \E fc, dc, x, y, k, p :
      /\ read = Ended(IF Typed(word, "/") = <<>> THEN "slash" ELSE "plen", fc, dc, x, y, k, p)
      /\ k <= Groups - 1 /\ x <= MaxXdigits /\ y <= Groups
      /\ Typed(word, "/") # <<>> => p = Number(Typed(word, "/"))

IPv6Inv ==
  /\ kind \in In6 => (BeginsIPv6(word) => At(word, "/") = {})
  /\ IPv6Reads
  /\ IPv6Length

LEMMA IPv6ReadsStep ==
  ASSUME TypeInv, IPv6Reads, Next, kind \in In6, At(word', "/") = {}
  PROVE  IPv6Reads'
<1> DEFINE sep == ":"
           slash == "/"
<1>0. sep = ":" /\ slash = "/" /\ sep \notin Xdigits /\ slash \notin Xdigits /\ sep # slash
  BY Separators
<1> HIDE DEF sep, slash
<1>1. PICK c \in All : word' = Append(word, c) /\ read' = Matcher(read, c) /\ kind' = kind
  BY OneMore
<1> DEFINE n == Len(word)
           k == Cardinality(At(word, sep))
           x == Len(Typed(word, sep))
           D == Doubles(word)
           st == IPv6At(word)
           B == BeginsIPv6(word)
           C == BeginsIPv6(word')
<1>2. word \in Seq(All) /\ word' \in Seq(All)
  BY <1>1, AppendProperties DEF TypeInv
<1>3. At(word', slash) = IF c = slash THEN At(word, slash) \cup {Len(word) + 1} ELSE At(word, slash)
  BY <1>1, <1>2, AppendAt
<1>4. At(word, slash) = {} /\ c # slash
  BY <1>0, <1>3
<1>5. C <=> /\ B
            /\ \/ c = sep /\ k + 1 <= Groups - 1 /\ (n # 0 /\ word[n] = sep => D = {})
               \/ c \in Xdigits /\ x + 1 <= MaxXdigits /\ ~(OneColon(word) /\ word[1] = sep)
  BY <1>0, <1>1, <1>2, AppendBeginsIPv6
<1>6. /\ IPv6At(word') = IF c # sep THEN "xdigit"
                         ELSE IF st \in {"colon1", "colon2"} THEN "colon2" ELSE "colon1"
      /\ FirstColon(word') <=> IF n = 0 THEN c = sep ELSE word[1] = sep
      /\ DoubleColon(word') <=> D # {}
      /\ Len(Typed(word', sep)) = IF c = sep THEN 0 ELSE x + 1
      /\ Cardinality(At(word', sep)) = k + (IF c = sep THEN 1 ELSE 0)
      /\ k \in Nat
  BY <1>0, <1>1, <1>2, AppendLocals
<1>7. /\ st \in States6
      /\ st = "init" <=> n = 0
      /\ st = "xdigit" <=> Typed(word, sep) # <<>>
      /\ st = "colon1" <=> OneColon(word)
      /\ st = "colon2" <=> n - 1 \in D
      /\ st \in {"colon1", "colon2"} <=> n # 0 /\ word[n] = sep
      /\ x \in Nat /\ (Typed(word, sep) = <<>> <=> x = 0)
  BY <1>0, <1>2, IPv6States
<1>8. Groups \in Nat /\ Groups > 1 /\ MaxXdigits \in Nat /\ MaxXdigits > 0
  BY Limits
<1>9. B => /\ Cardinality(D) <= 1 /\ k <= Groups - 1
           /\ n = 0 => D = {}
           /\ n - 1 \in D => D \ {n - 1} = {}
           /\ n # 0 => (FirstColon(word) <=> word[1] = sep)
           /\ n - 1 \notin D => (DoubleColon(word) <=> D # {})
  <2>1. B => Cardinality(D) <= 1 /\ k <= Groups - 1
    BY <1>0 DEF BeginsIPv6
  <2>2. B => (n - 1 \in D => D \ {n - 1} = {})
    <3> SUFFICES ASSUME B, n - 1 \in D
                 PROVE  D \ {n - 1} = {}
      OBVIOUS
    <3>1. \A i, j \in D : i = j
      BY <1>2, <2>1, FewDoubles
    <3> QED BY <3>1
  <2>3. n = 0 => D = {}
    <3>1. \A i : i \in D => i \in 1..(n - 1)
      BY <1>0, <1>2, DoublesAre
    <3> HIDE DEF n, D
    <3> SUFFICES ASSUME n = 0, NEW i \in D
                 PROVE  FALSE
      OBVIOUS
    <3> QED BY <3>1
  <2>4. n # 0 => (FirstColon(word) <=> word[1] = sep)
    BY <1>0 DEF FirstColon
  <2>5. n - 1 \notin D => (DoubleColon(word) <=> D # {})
    BY DEF DoubleColon
  <2> QED BY <2>1, <2>2, <2>3, <2>4, <2>5
<1> HIDE DEF n, k, x, D, st, B, C
<1> SUFFICES IF C
             THEN \E fc, dc \in BOOLEAN, y \in 0..Cardinality(At(word', sep)) :
                    /\ read' = Locals(IPv6At(word'), fc, dc, Len(Typed(word', sep)), y, Cardinality(At(word', sep)))
                    /\ fc <=> FirstColon(word')
                    /\ dc <=> DoubleColon(word')
             ELSE read' = Refused
  BY <1>0, <1>1 DEF IPv6Reads, C
<1>10. CASE ~B
  <2>1. read = Refused
    BY <1>0, <1>4, <1>10 DEF IPv6Reads, B
  <2>2. read' = Refused
    BY <1>1, <2>1 DEF Matcher
  <2> QED BY <1>5, <1>10, <2>2
<1>11. CASE B
  <2>1. PICK fc \in BOOLEAN, dc \in BOOLEAN, y \in 0..k :
          /\ read = Locals(st, fc, dc, x, y, k)
          /\ fc <=> FirstColon(word)
          /\ dc <=> DoubleColon(word)
    BY <1>0, <1>4, <1>11 DEF IPv6Reads, B, k, x, st
  <2>2. read # Refused /\ y \in Nat /\ y <= k /\ y + 1 \in Nat
    BY <1>6, <1>7, <2>1, WithinIs
  <2> DEFINE m == IPv6Next(read, c)
  <2>3. read' = IF m # Refused /\ Within(m) THEN m ELSE Refused
    <3>1. read' = IPv6(read, c)
      BY <1>1, <2>2 DEF Matcher, In6
    <3> QED BY <3>1 DEF IPv6
  <2> HIDE DEF m
  <2> DEFINE To(s, fd, dd, i, j, h) ==
               read' = IF h <= Groups - 1 /\ i <= MaxXdigits /\ j <= Groups /\ ~(dd /\ s = "colon2")
                       THEN Locals(s, fd, dd, i, j, h) ELSE Refused
  <2>4. ASSUME NEW s \in States6, NEW fd \in BOOLEAN, NEW dd \in BOOLEAN, NEW i \in Nat, NEW j \in Nat, NEW h \in Nat,
               m = Locals(s, fd, dd, i, j, h)
        PROVE  To(s, fd, dd, i, j, h)
    BY <2>3, <2>4, WithinIs
  <2>5. c # "/"
    BY <1>0, <1>4
  <2>6. /\ c = sep /\ st = "init" => m = Locals("colon1", TRUE, dc, x, y, k + 1)
        /\ c = sep /\ st = "xdigit" => m = Locals("colon1", fc, dc, 0, y + 1, k + 1)
        /\ c = sep /\ st = "colon1" => m = Locals("colon2", fc, dc, x, y, k + 1)
        /\ c = sep /\ st = "colon2" => m = Refused
        /\ c \in Xdigits /\ (st \in {"init", "xdigit"} \/ (st = "colon1" /\ ~fc)) =>
             m = Locals("xdigit", fc, dc, x + 1, y, k)
        /\ c \in Xdigits /\ st = "colon1" /\ fc => m = Refused
        /\ c \in Xdigits /\ st = "colon2" => m = Locals("xdigit", fc, TRUE, 1, y, k)
        /\ c # sep /\ c \notin Xdigits => m = Refused
    <3>1. m = IPv6Next(Locals(st, fc, dc, x, y, k), c)
      BY <2>1 DEF m
    <3>2. /\ st \in States6 /\ fc \in BOOLEAN /\ dc \in BOOLEAN
          /\ x \in Nat /\ y \in Nat /\ k \in Nat /\ c # "/"
      BY <1>6, <1>7, <2>2, <2>5
    <3> HIDE DEF To
    <3>3. Table(m, c, st, fc, dc, x, y, k)
      BY <3>1, <3>2, IPv6NextIs
    <3> QED BY <1>0, <3>3 DEF Table
  <2>7. /\ "colon1" \in States6 /\ "colon2" \in States6 /\ "xdigit" \in States6
        /\ k + 1 \in Nat /\ x + 1 \in Nat
    BY <1>6, <1>7 DEF States6
  <2> DEFINE Goal == IF C
                     THEN \E fd, dd \in BOOLEAN, j \in 0..Cardinality(At(word', sep)) :
                            /\ read' = Locals(IPv6At(word'), fd, dd, Len(Typed(word', sep)), j, Cardinality(At(word', sep)))
                            /\ fd <=> FirstColon(word')
                            /\ dd <=> DoubleColon(word')
                     ELSE read' = Refused
  <2> SUFFICES Goal
    OBVIOUS
  <2>8. ASSUME NEW s, NEW fd \in BOOLEAN, NEW dd \in BOOLEAN, NEW i, NEW j \in Nat, NEW h \in Nat,
               To(s, fd, dd, i, j, h), s = IPv6At(word'), i = Len(Typed(word', sep)),
               h = Cardinality(At(word', sep)), j <= h,
               fd <=> FirstColon(word'), dd <=> DoubleColon(word'),
               C <=> h <= Groups - 1 /\ i <= MaxXdigits /\ j <= Groups /\ ~(dd /\ s = "colon2")
        PROVE  Goal
    <3>1. CASE C
      <4>1. read' = Locals(IPv6At(word'), fd, dd, Len(Typed(word', sep)), j, Cardinality(At(word', sep)))
        BY <2>8, <3>1
      <4>2. j \in 0..Cardinality(At(word', sep))
        BY <2>8
      <4> HIDE DEF To
      <4> QED BY <2>8, <3>1, <4>1, <4>2
    <3>2. CASE ~C
      BY <2>8, <3>2
    <3> QED BY <3>1, <3>2
  <2>9. m = Refused /\ ~C => Goal
    BY <2>3
  <2> HIDE DEF Goal, To
  <2>10. CASE c = sep /\ st = "init"
    <3>1. To("colon1", TRUE, dc, x, y, k + 1)
      BY <2>1, <2>2, <1>7, <2>4, <2>6, <2>7, <2>10
    <3>2. n = 0 /\ D = {} /\ ~dc /\ x = 0 /\ st # "colon1" /\ st # "colon2"
      <4>1. n = 0 /\ st # "colon2" /\ st # "xdigit" /\ st # "colon1"
        BY <1>7, <2>10
      <4> QED BY <1>7, <1>9, <1>11, <2>1, <4>1
    <3>3. /\ IPv6At(word') = "colon1" /\ Len(Typed(word', sep)) = x /\ Cardinality(At(word', sep)) = k + 1
          /\ FirstColon(word') /\ ~DoubleColon(word')
      BY <1>6, <2>10, <3>2
    <3>4. C <=> k + 1 <= Groups - 1 /\ x <= MaxXdigits /\ y <= Groups /\ ~(dc /\ "colon1" = "colon2")
      <4>1. c \notin Xdigits
        BY <1>0, <2>10
      <4> QED BY <1>5, <1>6, <1>8, <1>9, <1>11, <2>2, <2>10, <3>2, <4>1
    <3>5. y <= k + 1 /\ (TRUE <=> FirstColon(word')) /\ (dc <=> DoubleColon(word'))
      BY <1>6, <2>2, <3>2, <3>3
    <3>6. TRUE \in BOOLEAN
      OBVIOUS
    <3> QED BY <2>1, <2>2, <2>7, <2>8, <3>1, <3>3, <3>4, <3>5, <3>6
  <2>11. CASE c = sep /\ st = "xdigit"
    <3>1. To("colon1", fc, dc, 0, y + 1, k + 1)
      BY <2>1, <2>2, <1>7, <2>4, <2>6, <2>7, <2>11
    <3>2. n # 0 /\ n - 1 \notin D /\ ~(n # 0 /\ word[n] = sep) /\ (fc <=> word[1] = sep) /\ (dc <=> D # {})
      <4>1. st # "init" /\ st # "colon1" /\ st # "colon2"
        BY <2>11
      <4> QED BY <1>7, <1>9, <1>11, <2>1, <4>1
    <3>3. /\ IPv6At(word') = "colon1" /\ Len(Typed(word', sep)) = 0 /\ Cardinality(At(word', sep)) = k + 1
          /\ (fc <=> FirstColon(word')) /\ (dc <=> DoubleColon(word'))
      <4>1. st \notin {"colon1", "colon2"}
        BY <2>11
      <4> QED BY <1>6, <2>11, <3>2, <4>1
    <3>4. C <=> k + 1 <= Groups - 1 /\ 0 <= MaxXdigits /\ y + 1 <= Groups /\ ~(dc /\ "colon1" = "colon2")
      <4>1. c \notin Xdigits
        BY <1>0, <2>11
      <4> QED BY <1>5, <1>6, <1>8, <1>9, <1>11, <2>2, <2>11, <3>2, <4>1
    <3>5. y + 1 <= k + 1
      BY <1>6, <2>2
    <3> QED BY <2>1, <2>2, <2>7, <2>8, <3>1, <3>3, <3>4, <3>5
  <2>12. CASE c = sep /\ st = "colon1"
    <3>1. To("colon2", fc, dc, x, y, k + 1)
      BY <2>1, <2>2, <1>7, <2>4, <2>6, <2>7, <2>12
    <3>2. n # 0 /\ n - 1 \notin D /\ word[n] = sep /\ (fc <=> word[1] = sep) /\ (dc <=> D # {}) /\ x = 0
      <4>1. st # "init" /\ st # "xdigit" /\ st # "colon2" /\ st \in {"colon1", "colon2"}
        BY <2>12
      <4> QED BY <1>7, <1>9, <1>11, <2>1, <4>1
    <3>3. /\ IPv6At(word') = "colon2" /\ Len(Typed(word', sep)) = x /\ Cardinality(At(word', sep)) = k + 1
          /\ (fc <=> FirstColon(word')) /\ (dc <=> DoubleColon(word'))
      BY <1>6, <2>12, <3>2
    <3>4. C <=> k + 1 <= Groups - 1 /\ x <= MaxXdigits /\ y <= Groups /\ ~(dc /\ "colon2" = "colon2")
      <4>1. c \notin Xdigits
        BY <1>0, <2>12
      <4> QED BY <1>5, <1>6, <1>8, <1>9, <1>11, <2>2, <2>12, <3>2, <4>1
    <3>5. y <= k + 1
      BY <1>6, <2>2
    <3> QED BY <2>1, <2>2, <2>7, <2>8, <3>1, <3>3, <3>4, <3>5
  <2>13. CASE c = sep /\ st = "colon2"
    <3>1. n # 0 /\ word[n] = sep /\ D # {} /\ c \notin Xdigits
      BY <1>0, <1>7, <2>13
    <3>2. ~C
      BY <1>5, <2>13, <3>1
    <3> QED BY <2>6, <2>9, <2>13, <3>2
  <2>14. CASE c \in Xdigits /\ (st \in {"init", "xdigit"} \/ (st = "colon1" /\ ~fc))
    <3>1. To("xdigit", fc, dc, x + 1, y, k)
      BY <2>1, <2>2, <1>6, <2>4, <2>6, <2>7, <2>14
    <3>2. c # sep /\ st # "colon2" /\ n - 1 \notin D
      BY <1>0, <1>7, <2>14
    <3>3. dc <=> D # {}
      BY <1>9, <1>11, <2>1, <3>2
    <3>4. /\ IPv6At(word') = "xdigit" /\ Len(Typed(word', sep)) = x + 1 /\ Cardinality(At(word', sep)) = k
          /\ (dc <=> DoubleColon(word'))
      BY <1>6, <3>2, <3>3
    <3>5. fc <=> FirstColon(word')
      BY <1>6, <1>9, <1>11, <2>1, <3>2 DEF FirstColon, n
    <3>6. C <=> k <= Groups - 1 /\ x + 1 <= MaxXdigits /\ y <= Groups /\ ~(dc /\ "xdigit" = "colon2")
      <4>1. ~(OneColon(word) /\ word[1] = sep)
        BY <1>7, <1>9, <1>11, <2>1, <2>14
      <4> QED BY <1>5, <1>6, <1>8, <1>9, <1>11, <2>2, <2>14, <3>2, <4>1
    <3> QED BY <2>1, <2>2, <2>7, <2>8, <3>1, <3>4, <3>5, <3>6, <1>6
  <2>15. CASE c \in Xdigits /\ st = "colon1" /\ fc
    <3>1. c # sep /\ OneColon(word) /\ n # 0
      BY <1>0, <1>7, <2>15
    <3>2. word[1] = sep
      BY <1>9, <1>11, <2>1, <2>15, <3>1
    <3>3. ~C
      BY <1>5, <3>1, <3>2
    <3> QED BY <2>6, <2>9, <2>15, <3>3
  <2>16. CASE c \in Xdigits /\ st = "colon2"
    <3>1. To("xdigit", fc, TRUE, 1, y, k)
      BY <2>1, <2>2, <1>6, <2>4, <2>6, <2>7, <2>16
    <3>2. c # sep /\ st # "colon1" /\ st # "xdigit" /\ n # 0 /\ D # {} /\ x = 0 /\ ~OneColon(word)
      BY <1>0, <1>7, <2>16
    <3>3. /\ IPv6At(word') = "xdigit" /\ Len(Typed(word', sep)) = 1 /\ Cardinality(At(word', sep)) = k
          /\ DoubleColon(word')
      BY <1>6, <3>2
    <3>4. fc <=> FirstColon(word')
      BY <1>6, <1>9, <1>11, <2>1, <3>2
    <3>5. C <=> k <= Groups - 1 /\ 1 <= MaxXdigits /\ y <= Groups /\ ~(TRUE /\ "xdigit" = "colon2")
      BY <1>5, <1>6, <1>8, <1>9, <1>11, <2>2, <2>16, <3>2
    <3> QED BY <2>1, <2>2, <2>7, <2>8, <3>1, <3>3, <3>4, <3>5, <1>6
  <2>17. CASE c # sep /\ c \notin Xdigits
    <3>1. ~C
      BY <1>5, <2>17
    <3> QED BY <2>6, <2>9, <2>17, <3>1
  <2>18. st = "init" \/ st = "xdigit" \/ st = "colon1" \/ st = "colon2"
    BY <1>7 DEF States6
  <2> QED BY <2>10, <2>11, <2>12, <2>13, <2>14, <2>15, <2>16, <2>17, <2>18
<1> QED BY <1>10, <1>11

LEMMA AtLengthEnded ==
  ASSUME NEW st, NEW fc, NEW dc, NEW x, NEW y, NEW k, NEW p, NEW v
  PROVE  AtLength(Ended(st, fc, dc, x, y, k, p), v) = Ended("plen", fc, dc, x, y, k, v)
<1> DEFINE r == Ended(st, fc, dc, x, y, k, p)
           q == Ended("plen", fc, dc, x, y, k, p)
<1>1. [r EXCEPT !.state = "plen"] = q
  BY DEF Ended
<1>2. [q EXCEPT !.plen = v] = Ended("plen", fc, dc, x, y, k, v)
  BY DEF Ended
<1> HIDE DEF r, q
<1>3. [r EXCEPT !.state = "plen", !.plen = v] = [[r EXCEPT !.state = "plen"] EXCEPT !.plen = v]
  OBVIOUS
<1>4. [r EXCEPT !.state = "plen", !.plen = v] = Ended("plen", fc, dc, x, y, k, v)
  BY <1>1, <1>2, <1>3
<1> QED BY <1>4 DEF AtLength, r

LEMMA WithinEnded ==
  ASSUME NEW st \in {"slash", "plen"}, NEW fc, NEW dc, NEW x, NEW y, NEW k, NEW p,
         k <= Groups - 1, x <= MaxXdigits, y <= Groups
  PROVE  /\ Ended(st, fc, dc, x, y, k, p) # Refused
         /\ Within(Ended(st, fc, dc, x, y, k, p))
         /\ Ended(st, fc, dc, x, y, k, p).state = st
         /\ Ended(st, fc, dc, x, y, k, p).plen = p
<1> DEFINE r == Ended(st, fc, dc, x, y, k, p)
<1>1. r.state = st /\ r.xdigits = x /\ r.xdigitsCount = y /\ r.colonCount = k /\ r.plen = p
  BY DEF Ended
<1>2. r # Refused
  BY <1>1 DEF Refused
<1> HIDE DEF r
<1> QED BY <1>1, <1>2 DEF Within, r

LEMMA IPv6LengthStep ==
  ASSUME TypeInv, IPv6Inv, Next
  PROVE  IPv6Length'
<1> DEFINE slash == "/"
           p == Typed(word, slash)
           q == Typed(word', slash)
<1>0. slash = "/" /\ slash \notin Xdigits /\ slash # ":" /\ Digits \subseteq Xdigits
  BY Separators
<1> HIDE DEF slash
<1>1. PICK c \in All : word' = Append(word, c) /\ read' = Matcher(read, c) /\ kind' = kind
  BY OneMore
<1>2. word \in Seq(All) /\ word' \in Seq(All)
  BY <1>1, AppendProperties DEF TypeInv
<1>3. /\ c = slash => UpTo(word', slash) = word /\ LastAt(word', slash) = Len(word) + 1
      /\ c # slash => LastAt(word', slash) = LastAt(word, slash)
      /\ c # slash /\ LastAt(word, slash) > 0 => UpTo(word', slash) = UpTo(word, slash)
      /\ LastAt(word, slash) > 1 => LastAt(word, slash) > 0
  <2>1. /\ c = slash => UpTo(word', slash) = word /\ LastAt(word', slash) = Len(word) + 1
        /\ c # slash => LastAt(word', slash) = LastAt(word, slash)
        /\ c # slash /\ LastAt(word, slash) > 0 => UpTo(word', slash) = UpTo(word, slash)
    BY <1>1, <1>2, AppendUpTo
  <2>2. LastAt(word, slash) \in 0..Len(word) /\ Len(word) \in Nat
    BY <1>2, LastAtIs, LenProperties
  <2> DEFINE l == LastAt(word, slash)
  <2> HIDE DEF l
  <2>3. l \in 0..Len(word) => (l > 1 => l > 0)
    OBVIOUS
  <2> QED BY <2>1, <2>2, <2>3 DEF l
<1>4. p \in Seq(All) /\ q = IF c = slash THEN <<>> ELSE Append(p, c)
  BY <1>1, <1>2, AppendTyped
<1>5. MaxLength6 \in 0..(ULLong - 1) /\ Groups \in Nat /\ Groups > 1
  BY Limits
<1> HIDE DEF p, q
<1> SUFFICES ASSUME kind = "IPv6Prefix", LastAt(word', slash) > 1, IsIPv6(UpTo(word', slash)),
                    ~Untaken(UpTo(word', slash)), q = <<>> \/ NumberTo(q, MaxLength6)
             PROVE  \E fc, dc, x, y, k, m :
                      /\ read' = Ended(IF q = <<>> THEN "slash" ELSE "plen", fc, dc, x, y, k, m)
                      /\ k <= Groups - 1 /\ x <= MaxXdigits /\ y <= Groups
                      /\ q # <<>> => m = Number(q)
  BY <1>0, <1>1 DEF IPv6Length, q
<1>6. CASE c = slash
  <2> DEFINE sep == ":"
             k == Cardinality(At(word, sep))
             x == Len(Typed(word, sep))
  <2>0. sep = ":"
    OBVIOUS
  <2> HIDE DEF sep
  <2>1. word # <<>> /\ IsIPv6(word) /\ ~Untaken(word)
    <3>1. Len(word) + 1 > 1 /\ Len(word) \in Nat
      BY <1>2, <1>3, <1>6, LenProperties
    <3>2. Len(word) # 0
      BY <3>1
    <3> QED BY <1>2, <1>3, <1>6, <3>2, DoublesAre
  <2>2. BeginsIPv6(word) /\ IPv6At(word) = "xdigit"
    <3>1. BeginsIPv6(word) /\ Len(word) # 0 /\ word[Len(word)] # sep
      BY <1>2, <2>0, <2>1, TakenBegins
    <3> QED BY <2>0, <3>1 DEF IPv6At
  <2>3. At(word, slash) = {} /\ kind \in In6
    BY <1>0, <2>2 DEF IPv6Inv, In6
  <2>4. PICK fc \in BOOLEAN, dc \in BOOLEAN, y \in 0..k :
          read = Locals("xdigit", fc, dc, x, y, k)
    BY <1>0, <2>0, <2>2, <2>3 DEF IPv6Inv, IPv6Reads
  <2>5. k \in Nat /\ k <= Groups - 1
    BY <1>2, <2>0, <2>2, AtWithin DEF BeginsIPv6
  <2>6. x <= MaxXdigits
    <3> DEFINE l == LastAt(word, sep)
    <3>1. l \in GroupsOf(word)
      <4>1. Typed(word, sep) # <<>>
        BY <1>2, <2>0, <2>2, IPv6States
      <4> QED BY <1>2, <2>0, <4>1, GroupsAre
    <3>2. GroupOf(Part(word, sep, l))
      BY <2>0, <2>2, <3>1 DEF BeginsIPv6, Fitting
    <3> QED BY <3>2 DEF GroupOf, Typed
  <2> HIDE DEF k, x
  <2> DEFINE e == y + 1
  <2>7. y \in Nat /\ e <= Groups
    BY <1>5, <2>4, <2>5
  <2>8. "xdigit" \in States6 /\ read.state = "xdigit" /\ read # Refused /\ read.xdigitsCount + 1 = e
    <3>1. read.state = "xdigit" /\ read.xdigitsCount = y
      BY <2>4 DEF Locals
    <3> QED BY <3>1 DEF States6, Refused
  <2>9. read' = IPv6(read, c)
    BY <1>1, <2>3, <2>8 DEF Matcher, In6
  <2>10. IPv6Next(read, c) = Ended("slash", fc, dc, x, e, k, 0)
    <3>1. IPv6Next(read, c) = [read EXCEPT !.state = "slash", !.xdigitsCount = e]
      BY <1>0, <1>6, <2>8 DEF IPv6Next
    <3> HIDE DEF e
    <3>2. [read EXCEPT !.state = "slash", !.xdigitsCount = e] = ToCount(ToState(read, "slash"), e)
      BY DEF ToCount, ToState
    <3>3. ToCount(ToState(read, "slash"), e) = Locals("slash", fc, dc, x, e, k)
      BY <2>4, OneLocal
    <3> QED BY <3>1, <3>2, <3>3 DEF Locals, Ended
  <2> HIDE DEF e
  <2>11. read' = Ended("slash", fc, dc, x, e, k, 0)
    BY <2>5, <2>6, <2>7, <2>9, <2>10, WithinEnded DEF IPv6
  <2> QED BY <1>4, <1>6, <2>5, <2>6, <2>7, <2>11
<1>7. CASE c # slash
  <2>1. q = Append(p, c) /\ q # <<>>
    BY <1>4, <1>7, AppendProperties
  <2>2. c \in Digits /\ (p = <<>> \/ NumberTo(p, MaxLength6))
    BY <1>4, <1>5, <2>1, AppendNumber
  <2>3. LastAt(word, slash) > 1 /\ IsIPv6(UpTo(word, slash)) /\ ~Untaken(UpTo(word, slash))
    BY <1>3, <1>7
  <2> DEFINE st == IF p = <<>> THEN "slash" ELSE "plen"
  <2>4. PICK fc, dc, x, y, k, m :
          /\ read = Ended(st, fc, dc, x, y, k, m)
          /\ k <= Groups - 1 /\ x <= MaxXdigits /\ y <= Groups
          /\ p # <<>> => m = Number(p)
    BY <1>0, <2>2, <2>3 DEF IPv6Inv, IPv6Length, p
  <2>5. st \in {"slash", "plen"}
    OBVIOUS
  <2> HIDE DEF st
  <2>6. read # Refused /\ read.state = st /\ (p # <<>> => read.plen = Number(p))
    BY <2>4, <2>5, WithinEnded
  <2> DEFINE v == Number(Append(p, c))
  <2>7. read' = IPv6(read, c)
    BY <1>1, <2>6 DEF Matcher
  <2>8. IPv6Next(read, c) = Plen(read, c, MaxLength6)
    <3>1. c # ":" /\ c # "/"
      BY <1>0, <1>7, <2>2, Separators
    <3> QED BY <2>5, <2>6, <3>1 DEF IPv6Next
  <2>9. Plen(read, c, MaxLength6) = AtLength(read, v)
    <3>1. NumberTo(Append(p, c), MaxLength6) /\ p \in Seq(All)
      BY <1>4, <2>1
    <3>2. read.state = IF p = <<>> THEN "slash" ELSE "plen"
      BY <2>6 DEF st
    <3> QED BY <1>5, <2>6, <3>1, <3>2, PlenReads
  <2> HIDE DEF v
  <2>10. IPv6Next(read, c) = Ended("plen", fc, dc, x, y, k, v)
    BY <2>4, <2>8, <2>9, AtLengthEnded
  <2>11. read' = Ended("plen", fc, dc, x, y, k, v)
    BY <2>4, <2>7, <2>10, WithinEnded DEF IPv6
  <2> QED BY <2>1, <2>4, <2>11 DEF v
<1> QED BY <1>6, <1>7

LEMMA IPv6Step == TypeInv /\ IPv6Inv /\ [Next]_vars => IPv6Inv'
<1> SUFFICES ASSUME TypeInv, IPv6Inv, [Next]_vars
             PROVE  IPv6Inv'
  OBVIOUS
<1>1. CASE Next
  <2> DEFINE slash == "/"
  <2>1. PICK c \in All : word' = Append(word, c) /\ kind' = kind
    BY <1>1, OneMore
  <2>2. word \in Seq(All)
    BY DEF TypeInv
  <2>3. BeginsIPv6(word') => BeginsIPv6(word) /\ c # slash
    <3>1. BeginsIPv6(word') => BeginsIPv6(word) /\ (c = ":" \/ c \in Xdigits)
      BY <2>1, <2>2, AppendBeginsIPv6
    <3> QED BY <3>1, Separators
  <2>4. At(word', slash) = IF c = slash THEN At(word, slash) \cup {Len(word) + 1} ELSE At(word, slash)
    BY <2>1, <2>2, AppendAt
  <2>5. kind \in In6 => (BeginsIPv6(word') => At(word', slash) = {})
    BY <2>3, <2>4 DEF IPv6Inv
  <2>6. IPv6Reads'
    <3>1. CASE kind \in In6 /\ At(word', slash) = {}
      BY <1>1, <3>1, IPv6ReadsStep DEF IPv6Inv
    <3>2. CASE ~(kind \in In6 /\ At(word', slash) = {})
      BY <2>1, <3>2 DEF IPv6Reads
    <3> QED BY <3>1, <3>2
  <2>7. IPv6Length'
    BY <1>1, IPv6LengthStep
  <2> QED BY <2>1, <2>5, <2>6, <2>7 DEF IPv6Inv
<1>2. CASE UNCHANGED vars
  BY <1>2 DEF IPv6Inv, IPv6Reads, IPv6Length, vars
<1> QED BY <1>1, <1>2

LEMMA IPv6Init == Init => IPv6Inv
<1> SUFFICES ASSUME Init PROVE IPv6Inv
  OBVIOUS
<1>1. word = <<>> /\ (kind \in In6 => read = Start6)
  BY DEF Init, In6
<1>2. At(word, "/") = {} /\ LastAt(word, "/") = 0 /\ ~(0 > 1)
  BY <1>1, NoWord
<1>3. BeginsIPv6(word) /\ Doubles(word) = {} /\ Len(word) = 0
  BY <1>1, NothingIPv6
<1>4. Cardinality(At(word, ":")) = 0 /\ Len(Typed(word, ":")) = 0
  BY <1>1, <1>3, NoWord
<1>5. IPv6At(word) = "init" /\ ~FirstColon(word) /\ ~DoubleColon(word)
  BY <1>3 DEF IPv6At, FirstColon, DoubleColon
<1>6. Start6 = Locals("init", FALSE, FALSE, 0, 0, 0)
  BY DEF Start6, Locals
<1>7. 0 \in 0..0 /\ FALSE \in BOOLEAN
  OBVIOUS
<1>8. IPv6Reads
  BY <1>1, <1>3, <1>4, <1>5, <1>6, <1>7 DEF IPv6Reads
<1> QED BY <1>2, <1>8 DEF IPv6Inv, IPv6Length

LEMMA IPv6Reading == Spec => [](TypeInv /\ IPv6Inv)
BY Typing, IPv6Init, IPv6Step, PTL DEF Spec

\* What the matcher of IPv6 addresses does not refuse can become an address
\* (CliNodeIPv6Address::cli_match).
THEOREM IPv6SoundCorrect == Spec => []IPv6AddressSound
<1>1. TypeInv /\ IPv6Inv => IPv6AddressSound
  <2> SUFFICES ASSUME TypeInv, IPv6Inv, kind = "IPv6Address", read # Refused, At(word, "/") = {}
               PROVE  \E x \in Xdigits : \E tail \in {<<>>, <<x>>, <<":">>, <<":", ":">>} : IsIPv6(word \o tail)
    BY DEF IPv6AddressSound
  <2>1. BeginsIPv6(word)
    BY DEF IPv6Inv, IPv6Reads, In6
  <2> DEFINE S == All \cup {":"}
  <2>2. word \in Seq(S)
    BY DEF TypeInv
  <2>3. Xdigits \subseteq S /\ ":" \in S
    BY DEF Xdigits, All
  <2> HIDE DEF S
  <2> QED BY <2>1, <2>2, <2>3, EndIPv6
<1> QED BY <1>1, IPv6Reading, PTL

\* It takes every address but those that Untaken names, and the matcher of prefixes
\* takes such an address and a length (CliNodeIPv6Address::cli_match,
\* CliNodeIPv6Prefix::cli_match).
THEOREM IPv6TakenCorrect == Spec => []IPv6Taken
<1>1. TypeInv /\ IPv6Inv => IPv6Taken
  <2> SUFFICES ASSUME TypeInv, IPv6Inv
               PROVE  IPv6Taken
    OBVIOUS
  <2> DEFINE slash == "/"
             p == Typed(word, slash)
  <2>0. slash = "/"
    OBVIOUS
  <2> HIDE DEF slash
  <2>1. word \in Seq(All)
    BY DEF TypeInv
  <2>2. ASSUME kind = "IPv6Address", word # <<>>, IsIPv6(word), ~Untaken(word)
        PROVE  Full
    <3>1. BeginsIPv6(word) /\ IPv6At(word) = "xdigit"
      <4>1. BeginsIPv6(word) /\ Len(word) # 0 /\ word[Len(word)] # ":"
        BY <2>1, <2>2, TakenBegins
      <4> QED BY <4>1 DEF IPv6At
    <3>2. At(word, "/") = {}
      BY <2>2, <3>1 DEF IPv6Inv, In6
    <3>3. \E fc, dc \in BOOLEAN : \E x, y, k : read = Locals("xdigit", fc, dc, x, y, k)
      BY <2>2, <3>1, <3>2 DEF IPv6Inv, IPv6Reads, In6
    <3>4. read # Refused /\ read.state = "xdigit"
      BY <3>3, WithinIs DEF States6
    <3> QED BY <2>2, <3>4 DEF Full, Complete
  <2>3. ASSUME kind = "IPv6Prefix", Slash > 1, IsIPv6(Before), ~Untaken(Before), IsLength(MaxLength6)
        PROVE  Full
    <3>1. Slash = LastAt(word, slash) /\ Before = UpTo(word, slash)
      BY <2>0 DEF Slash, Before, UpTo
    <3>2. After = p
      <4>1. Typed(word, slash) = SubSeq(word, LastAt(word, slash) + 1, Len(word))
        BY <2>1, AppendUpTo, Separators
      <4> QED BY <3>1, <4>1 DEF After
    <3>3. NumberTo(p, MaxLength6) /\ p # <<>>
      BY <2>3, <3>2 DEF IsLength, NumberTo, IsNumber
    <3> HIDE DEF p
    <3>4. PICK fc, dc, x, y, k, m :
            /\ read = Ended("plen", fc, dc, x, y, k, m)
            /\ k <= Groups - 1 /\ x <= MaxXdigits /\ y <= Groups
      BY <2>0, <2>3, <3>1, <3>3 DEF IPv6Inv, IPv6Length, p
    <3>5. read # Refused /\ read.state = "plen"
      BY <3>4, WithinEnded
    <3> QED BY <2>3, <3>5 DEF Full, Complete
  <2> QED BY <2>2, <2>3 DEF IPv6Taken
<1> QED BY <1>1, IPv6Reading, PTL
===============================================================================
