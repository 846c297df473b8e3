--------------------------- MODULE TemplatesProofs ---------------------------
(***************************************************************************)
(* Proofs about Templates: for any programs and any bounds, each use of a  *)
(* template gets the instance that C++ designates.                         *)
(***************************************************************************)
EXTENDS Templates, SequenceTheorems, FiniteSetTheorems, TLAPS

-----------------------------------------------------------------------------
(* Recursive functions: a set of natural numbers has a least element, and  *)
(* a function that is given by its own values at smaller places exists.    *)
(* Sets and functions stand where the theorems of NaturalsInduction have   *)
(* operators, so that a proof can choose them.                             *)

(* The counterexample to begin with, in a proof by induction.              *)
LEMMA Least ==
  ASSUME NEW T, T \subseteq Nat, T # {}
  PROVE  \E m \in T : \A k \in T : m <= k
<1> DEFINE R == OpToRel(<, Nat)
<1>1. IsWellFoundedOn(R, Nat)
  BY NatLessThanWellFounded
<1>2. PICK m \in T : \A k \in T : ~(<<k, m>> \in R)
  <2> HIDE DEF R
  <2>1. \E m \in T : \A k \in T : ~(<<k, m>> \in R)
    BY <1>1, WFMin
  <2>2. QED
    BY <2>1
<1>3. \A k \in T : ~(k < m)
  BY <1>2 DEF OpToRel
<1>4. QED
  BY <1>3

(* A set that has 0, and with each number the down one, has them all.      *)
LEMMA Induction ==
  ASSUME NEW T, 0 \in T, \A n \in Nat : n \in T => n + 1 \in T
  PROVE  \A n \in Nat : n \in T
<1>1. SUFFICES ASSUME NEW n \in Nat, n \notin T PROVE FALSE
  OBVIOUS
<1> DEFINE C == Nat \ T
<1>2. C \subseteq Nat /\ C # {}
  BY <1>1
<1>3. PICK m \in C : \A k \in C : m <= k
  <2> HIDE DEF C
  <2>1. QED
    BY <1>2, Least
<1>4. m # 0 /\ m \in Nat
  OBVIOUS
<1>5. m - 1 \in Nat /\ ~(m <= m - 1)
  BY <1>4
<1>6. m - 1 \in T
  BY <1>3, <1>5
<1>7. QED
  BY <1>4, <1>5, <1>6

(* A set of numbers that has a bound has a greatest element.               *)
LEMMA Greatest ==
  ASSUME NEW S, NEW n \in Nat, S \subseteq 0..n, S # {}
  PROVE  \E m \in S : \A k \in S : k <= m
<1> DEFINE T == {b \in Nat : \A k \in S : k <= b}
<1>1. T \subseteq Nat /\ n \in T
  OBVIOUS
<1>2. PICK m \in T : \A b \in T : m <= b
  <2> HIDE DEF T
  <2>1. QED
    BY <1>1, Least
<1>3. \A k \in S : k \in Nat /\ k <= m
  OBVIOUS
<1>4. m \in S
  <2>1. SUFFICES ASSUME m \notin S PROVE FALSE
    OBVIOUS
  <2>2. PICK k \in S : TRUE
    OBVIOUS
  <2>3. m \in Nat /\ m # 0
    BY <1>3, <2>1, <2>2
  <2>4. \A j \in S : j <= m - 1
    BY <1>3, <2>1, <2>3
  <2>5. m - 1 \in T
    BY <2>3, <2>4
  <2>6. m <= m - 1
    BY <1>2, <2>5
  <2>7. QED
    BY <2>3, <2>6
<1>5. QED
  BY <1>3, <1>4

(* The function on D that is base where it stops and that step makes of    *)
(* its value at a smaller place elsewhere.                                 *)
Descending(D, V, stop, base, down, step) ==
  /\ base \in [D -> V]
  /\ step \in [D -> [V -> V]]
  /\ \A i \in D : i \notin stop => down[i] \in D /\ down[i] < i

Descends(g, D, stop, base, down, step) ==
  \A i \in D : g[i] = IF i \in stop THEN base[i] ELSE step[i][g[down[i]]]

(* Where down leads to smaller places until it stops, there is such a      *)
(* function, so what is defined as one has the values its equation says.   *)
LEMMA Descent ==
  ASSUME NEW n \in Nat, NEW D, D \subseteq 0..n, NEW V, NEW stop, NEW base, NEW down,
         NEW step, Descending(D, V, stop, base, down, step)
  PROVE  \E g \in [D -> V] : Descends(g, D, stop, base, down, step)
<1> DEFINE Upto(g, m) ==
             \A i \in D : i < m =>
               g[i] = IF i \in stop THEN base[i] ELSE step[i][g[down[i]]]
           T == {m \in Nat : \E g \in [D -> V] : Upto(g, m)}
<1>1. 0 \in T
  <2>1. base \in [D -> V] /\ \A i \in D : ~(i < 0)
    BY DEF Descending
  <2>2. QED
    BY <2>1
<1>2. ASSUME NEW m \in Nat, m \in T
      PROVE  m + 1 \in T
  <2>1. PICK g \in [D -> V] : Upto(g, m)
    BY <1>2
  <2> DEFINE new == IF m \in stop THEN base[m] ELSE step[m][g[down[m]]]
             h == [i \in D |-> IF i = m THEN new ELSE g[i]]
  <2>2. m \in D => new \in V
    BY <2>1 DEF Descending
  <2>3. h \in [D -> V]
    <3> HIDE DEF new
    <3>1. QED
      BY <2>1, <2>2
  <2>4. ASSUME NEW i \in D, i < m + 1
        PROVE  h[i] = IF i \in stop THEN base[i] ELSE step[i][h[down[i]]]
    <3>1. i \notin stop => down[i] \in D /\ down[i] # m /\ h[down[i]] = g[down[i]]
      <4>1. SUFFICES ASSUME i \notin stop PROVE down[i] \in D /\ down[i] # m
        OBVIOUS
      <4>2. down[i] \in D /\ down[i] < i
        BY <4>1 DEF Descending
      <4>3. i \in Nat /\ down[i] \in Nat
        <5>1. \A x \in D : x \in Nat
          OBVIOUS
        <5>2. QED
          BY <4>2, <5>1
      <4>4. QED
        BY <2>4, <4>2, <4>3
    <3>2. CASE i = m
      <4>1. h[i] = new
        BY <3>2
      <4>2. QED
        BY <3>1, <3>2, <4>1
    <3>3. CASE i # m
      <4>1. i < m
        BY <2>4, <3>3
      <4>2. h[i] = g[i] /\ g[i] = IF i \in stop THEN base[i] ELSE step[i][g[down[i]]]
        BY <2>1, <3>3, <4>1
      <4>3. QED
        BY <3>1, <4>2
    <3>4. QED
      BY <3>2, <3>3
  <2>5. Upto(h, m + 1)
    BY <2>4
  <2> HIDE DEF Upto, h
  <2>6. QED
    BY <2>3, <2>5
<1>3. n + 1 \in T
  <2> HIDE DEF T
  <2>1. QED
    BY <1>1, <1>2, Induction
<1>4. PICK g \in [D -> V] : Upto(g, n + 1)
  BY <1>3
<1>5. \A i \in D : i < n + 1
  OBVIOUS
<1>6. QED
  BY <1>4, <1>5 DEF Descends

(* The same for a function that is given by its values at any places of a  *)
(* lower rank: step takes a place and a function, of which it uses those.  *)
Ranked(D, V, rank, step) ==
  /\ step \in [D -> [[D -> V] -> V]]
  /\ \A d \in D, g, h \in [D -> V] :
       (\A c \in D : rank[c] < rank[d] => g[c] = h[c]) => step[d][g] = step[d][h]

LEMMA RankedDescent ==
  ASSUME NEW D, NEW V, V # {}, NEW n \in Nat, NEW rank \in [D -> 0..n],
         NEW step, Ranked(D, V, rank, step)
  PROVE  \E g \in [D -> V] : \A d \in D : g[d] = step[d][g]
<1> DEFINE Upto(g, m) == \A d \in D : rank[d] < m => g[d] = step[d][g]
           T == {m \in Nat : \E g \in [D -> V] : Upto(g, m)}
<1>1. 0 \in T
  <2>1. PICK v \in V : TRUE
    OBVIOUS
  <2>2. [d \in D |-> v] \in [D -> V] /\ \A d \in D : ~(rank[d] < 0)
    OBVIOUS
  <2>3. QED
    BY <2>2
<1>2. ASSUME NEW m \in Nat, m \in T
      PROVE  m + 1 \in T
  <2>1. PICK g \in [D -> V] : Upto(g, m)
    BY <1>2
  <2> DEFINE h == [d \in D |-> step[d][g]]
  <2>2. h \in [D -> V]
    BY DEF Ranked
  <2>3. ASSUME NEW d \in D, rank[d] < m + 1
        PROVE  h[d] = step[d][h]
    <3>1. ASSUME NEW c \in D, rank[c] < rank[d]
          PROVE  g[c] = h[c]
      <4>1. rank[c] < m
        BY <2>3, <3>1
      <4>2. QED
        BY <2>1, <4>1
    <3>2. h[d] = step[d][g]
      OBVIOUS
    <3>3. step[d][g] = step[d][h]
      <4> HIDE DEF h
      <4>1. QED
        BY <2>1, <2>2, <3>1 DEF Ranked
    <3>4. QED
      BY <3>2, <3>3
  <2>4. Upto(h, m + 1)
    BY <2>3
  <2> HIDE DEF Upto, h
  <2>5. QED
    BY <2>2, <2>4
<1>3. n + 1 \in T
  <2> HIDE DEF T
  <2>1. QED
    BY <1>1, <1>2, Induction
<1>4. PICK g \in [D -> V] : Upto(g, n + 1)
  BY <1>3
<1>5. \A d \in D : rank[d] < n + 1
  OBVIOUS
<1>6. QED
  BY <1>4, <1>5

(* What holds of a place if it holds of all of a lower rank holds of each. *)
Hereditary(D, rank, T) ==
  \A d \in D : (\A c \in D : rank[c] < rank[d] => c \in T) => d \in T

LEMMA RankedInduction ==
  ASSUME NEW D, NEW n \in Nat, NEW rank \in [D -> 0..n], NEW T, Hereditary(D, rank, T)
  PROVE  D \subseteq T
<1>1. SUFFICES ASSUME NEW x \in D, x \notin T PROVE FALSE
  OBVIOUS
<1> DEFINE C == {rank[d] : d \in D \ T}
<1>2. C \subseteq Nat /\ C # {}
  BY <1>1
<1>3. PICK m \in C : \A k \in C : m <= k
  <2> HIDE DEF C
  <2>1. QED
    BY <1>2, Least
<1>4. PICK d \in D \ T : rank[d] = m
  BY <1>3
<1>5. ASSUME NEW c \in D, rank[c] < rank[d]
      PROVE  c \in T
  <2>1. SUFFICES ASSUME c \notin T PROVE FALSE
    OBVIOUS
  <2>2. m <= rank[c]
    BY <1>3, <2>1
  <2>3. rank[c] \in Nat /\ m \in Nat
    BY <1>2, <1>3
  <2>4. QED
    BY <1>4, <1>5, <2>2, <2>3
<1>6. QED
  BY <1>4, <1>5 DEF Hereditary

-----------------------------------------------------------------------------
(* Operators of the libraries.                                             *)

LEMMA MinIs ==
  ASSUME NEW S, S \subseteq Nat, S # {}
  PROVE  Min(S) \in S
<1>1. \E m \in S : \A k \in S : m <= k
  BY Least
<1>2. QED
  BY <1>1 DEF Min

Sequence(s) == s \in Seq(Range(s))

LEMMA SequenceIs ==
  ASSUME NEW s, Sequence(s)
  PROVE  Len(s) \in Nat /\ DOMAIN s = 1..Len(s) /\ (s = << >> <=> Len(s) = 0)
BY DEF Sequence

LEMMA SequenceOf ==
  ASSUME NEW n \in Nat, NEW f, DOMAIN f = 1..n, f = [i \in 1..n |-> f[i]]
  PROVE  Sequence(f) /\ Len(f) = n
<1>1. f \in [1..n -> Range(f)]
  BY DEF Range
<1>2. QED
  BY <1>1 DEF Sequence

LEMMA Appended ==
  ASSUME NEW s, Sequence(s), NEW x
  PROVE  /\ Sequence(Append(s, x)) /\ Len(Append(s, x)) = Len(s) + 1
         /\ DOMAIN Append(s, x) = 1..Len(s) + 1
         /\ \A i \in 1..Len(s) : Append(s, x)[i] = s[i]
         /\ Append(s, x)[Len(s) + 1] = x
<1> DEFINE S == Range(s) \union {x}
<1>1. \A i \in DOMAIN s : s[i] \in S
  BY DEF Range
<1>2. s \in Seq(S)
  BY DEF Sequence
<1> HIDE DEF S
<1>3. x \in S
  BY DEF S
<1> DEFINE a == Append(s, x)
<1>4. a \in Seq(S) /\ Len(a) = Len(s) + 1
  BY <1>2, <1>3
<1>5. (\A i \in 1..Len(s) : a[i] = s[i]) /\ a[Len(s) + 1] = x
  BY <1>2, <1>3
<1> HIDE DEF a
<1>6. Len(a) \in Nat /\ DOMAIN a = 1..Len(a) /\ a = [i \in 1..Len(a) |-> a[i]]
  BY <1>4
<1>7. Sequence(a)
  BY <1>6, SequenceOf
<1>8. QED
  BY <1>4, <1>5, <1>6, <1>7 DEF a

LEMMA Concatenated ==
  ASSUME NEW s, NEW t, Sequence(s), Sequence(t)
  PROVE  /\ Sequence(s \o t) /\ Len(s \o t) = Len(s) + Len(t)
         /\ DOMAIN (s \o t) = 1..Len(s) + Len(t)
         /\ \A i \in 1..Len(s) : (s \o t)[i] = s[i]
         /\ \A i \in Len(s) + 1..Len(s) + Len(t) : (s \o t)[i] = t[i - Len(s)]
<1> DEFINE S == Range(s) \union Range(t)
           a == s \o t
<1>1. s \in Seq(S) /\ t \in Seq(S)
  BY DEF Sequence
<1> HIDE DEF S
<1>2. a \in Seq(S) /\ Len(a) = Len(s) + Len(t)
  BY <1>1
<1>3. \A i \in 1..Len(s) : a[i] = s[i]
  BY <1>1
<1>4. \A i \in Len(s) + 1..Len(s) + Len(t) : a[i] = t[i - Len(s)]
  BY <1>1
<1> HIDE DEF a
<1>5. Len(a) \in Nat /\ DOMAIN a = 1..Len(a) /\ a = [i \in 1..Len(a) |-> a[i]]
  BY <1>2
<1>6. Sequence(a)
  BY <1>5, SequenceOf
<1>7. QED
  BY <1>2, <1>3, <1>4, <1>5, <1>6 DEF a

LEMMA FrontOf ==
  ASSUME NEW s, Sequence(s), s # << >>
  PROVE  /\ Len(s) \in Nat \ {0} /\ Last(s) = s[Len(s)]
         /\ Sequence(Front(s)) /\ Len(Front(s)) = Len(s) - 1
         /\ DOMAIN Front(s) = 1..Len(s) - 1
         /\ \A i \in 1..Len(s) - 1 : Front(s)[i] = s[i]
<1>1. Len(s) \in Nat \ {0} /\ Len(s) - 1 \in Nat
  BY SequenceIs
<1> DEFINE f == [i \in 1..Len(s) - 1 |-> s[i]]
<1>2. Front(s) = f
  BY <1>1 DEF Front
<1>3. DOMAIN f = 1..Len(s) - 1 /\ f = [i \in 1..Len(s) - 1 |-> f[i]]
  OBVIOUS
<1>4. \A i \in 1..Len(s) - 1 : f[i] = s[i]
  OBVIOUS
<1> HIDE DEF f
<1>5. Sequence(f) /\ Len(f) = Len(s) - 1
  BY <1>1, <1>3, SequenceOf
<1>6. QED
  BY <1>1, <1>2, <1>3, <1>4, <1>5 DEF Last

LEMMA TailIs ==
  ASSUME NEW s, Sequence(s), s # << >>
  PROVE  /\ Head(s) \in Range(s)
         /\ Sequence(Tail(s)) /\ Range(Tail(s)) \subseteq Range(s)
<1> DEFINE S == Range(s)
           t == Tail(s)
<1>1. s \in Seq(S)
  BY DEF Sequence
<1> HIDE DEF S
<1>2. Head(s) \in S /\ t \in Seq(S)
  BY <1>1
<1> HIDE DEF t
<1>3. Len(t) \in Nat /\ DOMAIN t = 1..Len(t) /\ t = [i \in 1..Len(t) |-> t[i]]
      /\ \A i \in DOMAIN t : t[i] \in S
  BY <1>2
<1>4. Sequence(t) /\ Range(t) \subseteq S
  BY <1>3, SequenceOf DEF Range
<1>5. QED
  BY <1>2, <1>4 DEF S, t

LEMMA Updated ==
  ASSUME NEW s, Sequence(s), NEW k, NEW x
  PROVE  LET u == [s EXCEPT ![k] = x] IN
         /\ Sequence(u) /\ Len(u) = Len(s) /\ DOMAIN u = DOMAIN s
         /\ \A i \in DOMAIN s : u[i] = IF i = k THEN x ELSE s[i]
<1> DEFINE u == [s EXCEPT ![k] = x]
<1>1. Len(s) \in Nat /\ DOMAIN s = 1..Len(s)
  BY SequenceIs
<1>2. DOMAIN u = 1..Len(s) /\ u = [i \in 1..Len(s) |-> u[i]]
  BY <1>1
<1>3. \A i \in DOMAIN s : u[i] = IF i = k THEN x ELSE s[i]
  OBVIOUS
<1> HIDE DEF u
<1>4. Sequence(u) /\ Len(u) = Len(s)
  BY <1>1, <1>2, SequenceOf
<1>5. QED
  BY <1>1, <1>2, <1>3, <1>4 DEF u

(* FlattenSeq joins sequences, and has what each of them has.              *)
Joined(ss, j) ==
  j = [i \in 1..Len(ss) |-> IF i = 1 THEN ss[i] ELSE j[i - 1] \o ss[i]]

(* Sequences without repetition that have nothing in common.               *)
Apart(ss) ==
  /\ \A k \in DOMAIN ss : IsInjective(ss[k])
  /\ \A k, l \in DOMAIN ss : k # l => Range(ss[k]) \intersect Range(ss[l]) = {}

LEMMA JoinedOnce ==
  ASSUME NEW S, NEW a \in Seq(S), NEW b \in Seq(S), IsInjective(a), IsInjective(b),
         Range(a) \intersect Range(b) = {}
  PROVE  IsInjective(a \o b)
<1>1. PICK m, n, c : m = Len(a) /\ n = Len(b) /\ c = a \o b
  OBVIOUS
<1>2. /\ m \in Nat /\ n \in Nat /\ DOMAIN a = 1..m /\ DOMAIN b = 1..n /\ DOMAIN c = 1..m + n
  BY <1>1
<1>3. /\ \A i \in 1..m : c[i] = a[i]
      /\ \A i \in m + 1..m + n : c[i] = b[i - m]
  BY <1>1
<1>4. /\ \A i \in 1..m + n : i \in 1..m \/ i \in m + 1..m + n
      /\ \A i \in m + 1..m + n : i - m \in 1..n
      /\ \A i, j \in m + 1..m + n : i - m = j - m => i = j
  BY <1>2
<1>5. ASSUME NEW i \in 1..m + n, NEW j \in 1..m + n, c[i] = c[j]
      PROVE  i = j
  <2>1. CASE i \in 1..m /\ j \in 1..m
    BY <1>2, <1>3, <1>5, <2>1 DEF IsInjective
  <2>2. CASE i \in m + 1..m + n /\ j \in m + 1..m + n
    <3>1. b[i - m] = b[j - m] /\ i - m \in DOMAIN b /\ j - m \in DOMAIN b
      BY <1>2, <1>3, <1>4, <1>5, <2>2
    <3>2. i - m = j - m
      BY <3>1 DEF IsInjective
    <3>3. QED
      BY <1>4, <2>2, <3>2
  <2>3. \A k \in 1..m, l \in m + 1..m + n : c[k] # c[l]
    <3>1. TAKE k \in 1..m, l \in m + 1..m + n
    <3>2. c[k] \in Range(a) /\ c[l] \in Range(b)
      BY <1>2, <1>3, <1>4 DEF Range
    <3>3. QED
      BY <3>2
  <2>4. QED
    BY <1>4, <1>5, <2>1, <2>2, <2>3
<1>6. QED
  BY <1>1, <1>2, <1>5 DEF IsInjective

LEMMA FlattenIs ==
  ASSUME NEW S, NEW ss \in Seq(Seq(S))
  PROVE  /\ FlattenSeq(ss) \in Seq(S)
         /\ \A x \in Range(FlattenSeq(ss)) : \E k \in DOMAIN ss : x \in Range(ss[k])
         /\ \A k \in DOMAIN ss : Range(ss[k]) \subseteq Range(FlattenSeq(ss))
         /\ Apart(ss) => IsInjective(FlattenSeq(ss))
<1> DEFINE n == Len(ss)
           D == 1..n
           V == Seq(S)
           base == ss
           down == [i \in D |-> i - 1]
           step == [i \in D |-> [v \in V |-> v \o ss[i]]]
           j == CHOOSE f : Joined(ss, f)
<1>1. n \in Nat /\ D = DOMAIN ss /\ \A k \in D : ss[k] \in V
  OBVIOUS
<1>2. CASE n = 0
  <2>1. FlattenSeq(ss) = ss
    BY <1>2 DEF FlattenSeq
  <2>2. ss = << >>
    BY <1>2
  <2>3. << >> \in Seq(S) /\ Range(<< >>) = {} /\ IsInjective(<< >>)
    BY DEF Range, IsInjective
  <2>4. QED
    BY <2>1, <2>2, <2>3
<1>3. CASE n # 0
  <2>1. Descending(D, V, {1}, base, down, step)
    <3>1. base \in [D -> V]
      OBVIOUS
    <3>2. step \in [D -> [V -> V]]
      <4>1. \A i \in D, v \in V : v \o ss[i] \in V
        OBVIOUS
      <4> HIDE DEF D, V
      <4>2. QED
        BY <4>1
    <3>3. \A i \in D : i \notin {1} => down[i] \in D /\ down[i] < i
      OBVIOUS
    <3> HIDE DEF D, V, base, down, step
    <3>4. QED
      BY <3>1, <3>2, <3>3 DEF Descending
  <2>2. PICK g \in [D -> V] : Descends(g, D, {1}, base, down, step)
    <3>1. D \subseteq 0..n
      OBVIOUS
    <3> HIDE DEF D, V, base, down, step, n
    <3>2. QED
      BY <1>1, <2>1, <3>1, Descent
  <2>3. Joined(ss, g)
    <3>1. \A i \in D : g[i] = IF i = 1 THEN ss[i] ELSE g[i - 1] \o ss[i]
      <4>1. TAKE i \in D
      <4>2. g[i] = IF i \in {1} THEN base[i] ELSE step[i][g[down[i]]]
        <5> HIDE DEF D, V, base, down, step
        <5>1. QED
          BY <2>2, <4>1 DEF Descends
      <4>3. i # 1 => down[i] = i - 1 /\ g[i - 1] \in V
        <5>1. i # 1 => down[i] = i - 1 /\ i - 1 \in D
          BY <1>1
        <5> HIDE DEF D, V, down
        <5>2. QED
          BY <2>2, <5>1
      <4>4. i # 1 => step[i][g[i - 1]] = g[i - 1] \o ss[i]
        BY <4>3
      <4>5. QED
        BY <4>2, <4>3, <4>4
    <3>2. QED
      BY <2>2, <3>1 DEF Joined
  <2>4. Joined(ss, j)
    BY <2>3
  <2>5. FlattenSeq(ss) = j[n]
    BY <1>3 DEF FlattenSeq, Joined
  <2> HIDE DEF j
  <2>6. \A i \in D : j[i] = IF i = 1 THEN ss[i] ELSE j[i - 1] \o ss[i]
    BY <2>4 DEF Joined
  <2> DEFINE Has(i) ==
               /\ j[i] \in V
               /\ \A x \in Range(j[i]) : \E k \in 1..i : x \in Range(ss[k])
               /\ \A k \in 1..i : Range(ss[k]) \subseteq Range(j[i])
               /\ Apart(ss) => IsInjective(j[i])
             T == {m \in Nat : m + 1 \in D => Has(m + 1)}
  <2>7. 0 \in T
    <3>1. 1 \in D /\ j[1] = ss[1] /\ 1..1 = {1}
      BY <1>1, <1>3, <2>6
    <3>2. Apart(ss) => IsInjective(ss[1])
      BY <1>1, <3>1 DEF Apart
    <3>3. QED
      BY <1>1, <3>1, <3>2
  <2>8. ASSUME NEW m \in Nat, m \in T
        PROVE  m + 1 \in T
    <3> DEFINE i == m + 1
    <3>1. SUFFICES ASSUME i + 1 \in D PROVE Has(i + 1)
      OBVIOUS
    <3>2. i \in D /\ i + 1 # 1 /\ (i + 1) - 1 = i /\ 1..(i + 1) = (1..i) \union {i + 1}
      BY <1>1, <3>1
    <3>3. Has(i)
      BY <2>8, <3>2
    <3>4. j[i + 1] = j[i] \o ss[i + 1] /\ ss[i + 1] \in V
      BY <1>1, <2>6, <3>1, <3>2
    <3>5. \A a, b \in V : a \o b \in V /\ Range(a \o b) = Range(a) \union Range(b)
      <4>1. TAKE a, b \in V
      <4>2. a \o b \in V /\ Len(a \o b) = Len(a) + Len(b)
        OBVIOUS
      <4>3. \A k \in 1..Len(a) : (a \o b)[k] = a[k]
        OBVIOUS
      <4>4. \A k \in 1..Len(b) : (a \o b)[Len(a) + k] = b[k] /\ Len(a) + k \in 1..Len(a \o b)
        OBVIOUS
      <4>5. \A k \in 1..Len(a \o b) :
              k \in 1..Len(a) \/ (k - Len(a) \in 1..Len(b) /\ Len(a) + (k - Len(a)) = k)
        BY <4>2
      <4>6. \A k \in 1..Len(a) : k \in 1..Len(a \o b)
        BY <4>2
      <4>7. DOMAIN a = 1..Len(a) /\ DOMAIN b = 1..Len(b) /\ DOMAIN (a \o b) = 1..Len(a \o b)
        BY <4>2
      <4>8. Range(a \o b) \subseteq Range(a) \union Range(b)
        BY <4>3, <4>4, <4>5, <4>7 DEF Range
      <4>9. Range(a) \subseteq Range(a \o b) /\ Range(b) \subseteq Range(a \o b)
        BY <4>3, <4>4, <4>6, <4>7 DEF Range
      <4>10. QED
        BY <4>2, <4>8, <4>9
    <3>6. j[i + 1] \in V /\ Range(j[i + 1]) = Range(j[i]) \union Range(ss[i + 1])
      BY <3>3, <3>4, <3>5
    <3>7. ASSUME Apart(ss)
          PROVE  IsInjective(j[i + 1])
      <4>1. IsInjective(j[i]) /\ IsInjective(ss[i + 1])
        BY <1>1, <3>1, <3>3, <3>7 DEF Apart
      <4>2. \A k \in 1..i : k \in D /\ k # i + 1
        BY <1>1, <3>1
      <4>3. Range(j[i]) \intersect Range(ss[i + 1]) = {}
        <5>1. \A x \in Range(j[i]) : \E k \in 1..i : x \in Range(ss[k])
          BY <3>3
        <5>2. \A k \in 1..i : Range(ss[k]) \intersect Range(ss[i + 1]) = {}
          BY <1>1, <3>1, <3>7, <4>2 DEF Apart
        <5>3. QED
          BY <5>1, <5>2
      <4>4. j[i] \in V /\ ss[i + 1] \in V
        BY <3>3, <3>4
      <4>5. IsInjective(j[i] \o ss[i + 1])
        BY <4>1, <4>3, <4>4, JoinedOnce
      <4>6. QED
        BY <3>4, <4>5
    <3>8. QED
      <4> HIDE DEF i, V
      <4>1. QED
        BY <3>2, <3>3, <3>6, <3>7
  <2>9. n - 1 \in Nat /\ (n - 1) + 1 = n /\ n \in D
    BY <1>1, <1>3
  <2>10. Has(n)
    <3>1. \A m \in Nat : m \in T
      <4> HIDE DEF T
      <4>1. QED
        BY <2>7, <2>8, Induction
    <3>2. n - 1 \in T
      BY <2>9, <3>1
    <3>3. QED
      BY <2>9, <3>2
  <2>11. QED
    BY <1>1, <2>5, <2>10
<1>4. QED
  BY <1>2, <1>3

-----------------------------------------------------------------------------
(* What a body owns.  Owning is a tree: a definition has a higher rank     *)
(* than the ones it owns.                                                  *)
Owned == \A d \in DOMAIN defs : defs[d].order \in Seq(DOMAIN defs)

LowerOwned(rank) ==
  \A d \in DOMAIN defs : \A k \in DOMAIN defs[d].order : rank[defs[d].order[k]] < rank[d]

Treelike == \E n \in Nat : \E rank \in [DOMAIN defs -> 0..n] : LowerOwned(rank)

Posts(from) ==
  from = [d \in DOMAIN defs |->
            FlattenSeq([k \in DOMAIN defs[d].order |-> from[defs[d].order[k]]]) \o <<d>>]

LEMMA PostsAre ==
  ASSUME Owned, Treelike, NEW body \in DOMAIN defs
  PROVE  \E from : PostOrder(body) = from[body] /\ Posts(from)
<1> DEFINE D == DOMAIN defs
           V == Seq(D)
           All(d, g) == [k \in DOMAIN defs[d].order |-> g[defs[d].order[k]]]
           step == [d \in D |-> [g \in [D -> V] |-> FlattenSeq(All(d, g)) \o <<d>>]]
           from == CHOOSE f : Posts(f)
<1>n. PICK n \in Nat : \E rank \in [D -> 0..n] : LowerOwned(rank)
  BY DEF Treelike
<1>1. PICK rank \in [D -> 0..n] : LowerOwned(rank)
  BY <1>n
<1>2. \A d \in D : /\ Len(defs[d].order) \in Nat
                    /\ DOMAIN defs[d].order = 1..Len(defs[d].order)
                    /\ \A k \in DOMAIN defs[d].order : defs[d].order[k] \in D
  BY DEF Owned
<1>3. ASSUME NEW d \in D, NEW g, \A k \in DOMAIN defs[d].order : g[defs[d].order[k]] \in V
      PROVE  /\ All(d, g) \in Seq(V) /\ DOMAIN All(d, g) = DOMAIN defs[d].order
             /\ FlattenSeq(All(d, g)) \in V
             /\ FlattenSeq(All(d, g)) \o <<d>> \in V
  <2>1. All(d, g) \in Seq(V) /\ DOMAIN All(d, g) = DOMAIN defs[d].order
    <3>1. All(d, g) \in [1..Len(defs[d].order) -> V]
      BY <1>2, <1>3
    <3>2. DOMAIN All(d, g) = DOMAIN defs[d].order
      OBVIOUS
    <3>3. \A m \in Nat : [1..m -> V] \subseteq Seq(V)
      OBVIOUS
    <3> HIDE DEF V, All
    <3>4. QED
      BY <1>2, <3>1, <3>2, <3>3
  <2>2. FlattenSeq(All(d, g)) \in V
    <3> HIDE DEF All, D
    <3>1. QED
      BY <2>1, FlattenIs
  <2>3. FlattenSeq(All(d, g)) \o <<d>> \in V
    <3> HIDE DEF All
    <3>1. QED
      BY <2>2
  <2>4. QED
    BY <2>1, <2>2, <2>3
<1>4. Ranked(D, V, rank, step)
  <2>1. step \in [D -> [[D -> V] -> V]]
    <3>1. \A d \in D, g \in [D -> V] : FlattenSeq(All(d, g)) \o <<d>> \in V
      BY <1>2, <1>3
    <3> HIDE DEF V, All
    <3>2. QED
      BY <3>1
  <2>2. ASSUME NEW d \in D, NEW g \in [D -> V], NEW h \in [D -> V],
               \A c \in D : rank[c] < rank[d] => g[c] = h[c]
        PROVE  step[d][g] = step[d][h]
    <3>1. \A k \in DOMAIN defs[d].order : g[defs[d].order[k]] = h[defs[d].order[k]]
      BY <1>1, <1>2, <2>2 DEF LowerOwned
    <3>2. All(d, g) = All(d, h)
      BY <3>1
    <3> HIDE DEF V, All, D
    <3>3. QED
      BY <3>2
  <2>3. QED
    BY <2>1, <2>2 DEF Ranked
<1>5. PICK g \in [D -> V] : \A d \in D : g[d] = step[d][g]
  <2>1. V # {}
    <3>1. << >> \in V
      OBVIOUS
    <3>2. QED
      BY Zenon, <3>1
  <2> HIDE DEF D, V, step
  <2>2. QED
    BY <1>1, <1>4, <2>1, RankedDescent
<1>6. Posts(g)
  <2>1. \A d \in D : g[d] = FlattenSeq(All(d, g)) \o <<d>>
    <3> HIDE DEF All, V
    <3>1. QED
      BY <1>5
  <2>2. g = [d \in D |-> FlattenSeq(All(d, g)) \o <<d>>]
    <3> HIDE DEF All
    <3>1. QED
      BY <1>5, <2>1
  <2>3. QED
    BY Zenon, <2>2 DEF Posts
<1>7. Posts(from)
  BY <1>6
<1>8. PostOrder(body) = from[body]
  BY DEF PostOrder, Posts
<1> HIDE DEF from
<1>9. QED
  BY <1>7, <1>8

(* What each definition owns comes before it.                              *)
LEMMA PostIs ==
  ASSUME Owned, NEW from, Posts(from), NEW d \in DOMAIN defs,
         \A k \in DOMAIN defs[d].order : from[defs[d].order[k]] \in Seq(DOMAIN defs)
  PROVE  /\ from[d] \in Seq(DOMAIN defs) /\ d \in Range(from[d])
         /\ \A x \in Range(from[d]) :
              x = d \/ \E k \in DOMAIN defs[d].order : x \in Range(from[defs[d].order[k]])
         /\ \A k \in DOMAIN defs[d].order :
              Range(from[defs[d].order[k]]) \subseteq Range(from[d])
         /\ /\ \A k \in DOMAIN defs[d].order :
                 /\ IsInjective(from[defs[d].order[k]])
                 /\ d \notin Range(from[defs[d].order[k]])
            /\ \A k, l \in DOMAIN defs[d].order :
                 k # l => Range(from[defs[d].order[k]])
                            \intersect Range(from[defs[d].order[l]]) = {}
            => IsInjective(from[d])
<1> DEFINE D == DOMAIN defs
           all == [k \in DOMAIN defs[d].order |-> from[defs[d].order[k]]]
<1>1. PICK flat : flat = FlattenSeq(all)
  OBVIOUS
<1>2. from[d] = flat \o <<d>>
  <2>1. from = [e \in D |->
                  FlattenSeq([k \in DOMAIN defs[e].order |-> from[defs[e].order[k]]]) \o <<e>>]
    BY Zenon DEF Posts
  <2>2. from[d] = FlattenSeq(all) \o <<d>>
    BY Zenon, <2>1
  <2>3. QED
    BY Zenon, <1>1, <2>2
<1>3. /\ DOMAIN all = DOMAIN defs[d].order
      /\ \A k \in DOMAIN defs[d].order : all[k] = from[defs[d].order[k]]
  OBVIOUS
<1>4. all \in Seq(Seq(D))
  <2>1. Len(defs[d].order) \in Nat /\ DOMAIN defs[d].order = 1..Len(defs[d].order)
    <3>1. defs[d].order \in Seq(D)
      BY DEF Owned
    <3>2. QED
      BY <3>1
  <2>2. all \in [1..Len(defs[d].order) -> Seq(D)]
    BY <2>1
  <2>3. \A m \in Nat : \A V : [1..m -> V] \subseteq Seq(V)
    OBVIOUS
  <2> HIDE DEF all
  <2>4. QED
    BY <2>1, <2>2, <2>3
<1> HIDE DEF all
<1>5. /\ flat \in Seq(D)
      /\ \A x \in Range(flat) : \E k \in DOMAIN all : x \in Range(all[k])
      /\ \A k \in DOMAIN all : Range(all[k]) \subseteq Range(flat)
      /\ Apart(all) => IsInjective(flat)
  BY <1>1, <1>4, FlattenIs
<1>6. PICK one : one = <<d>>
  OBVIOUS
<1>7. /\ one \in Seq(D) /\ Range(one) = {d} /\ IsInjective(one)
  <2>1. one \in Seq(D) /\ DOMAIN one = {1} /\ one[1] = d
    BY <1>6
  <2>2. QED
    BY <2>1 DEF Range, IsInjective
<1>8. flat \o one \in Seq(D) /\ Range(flat \o one) = Range(flat) \union {d}
  <2>1. /\ Len(flat \o one) = Len(flat) + 1 /\ Len(flat) \in Nat
        /\ flat \o one \in Seq(D)
        /\ \A k \in 1..Len(flat) : (flat \o one)[k] = flat[k]
        /\ (flat \o one)[Len(flat) + 1] = d
    BY <1>5, <1>6
  <2>2. DOMAIN flat = 1..Len(flat) /\ DOMAIN (flat \o one) = 1..Len(flat) + 1
    BY <1>5, <2>1
  <2>3. 1..Len(flat) + 1 = (1..Len(flat)) \union {Len(flat) + 1}
    BY <2>1
  <2>4. QED
    BY <2>1, <2>2, <2>3 DEF Range
<1>9. ASSUME \A k \in DOMAIN defs[d].order : /\ IsInjective(from[defs[d].order[k]])
                                            /\ d \notin Range(from[defs[d].order[k]]),
             \A k, l \in DOMAIN defs[d].order :
               k # l => Range(from[defs[d].order[k]])
                          \intersect Range(from[defs[d].order[l]]) = {}
      PROVE  IsInjective(from[d])
  <2>1. Apart(all)
    BY <1>3, <1>9 DEF Apart
  <2>2. d \notin Range(flat)
    BY <1>3, <1>5, <1>9
  <2>3. Range(flat) \intersect Range(one) = {}
    BY <1>7, <2>2
  <2>4. IsInjective(flat \o one)
    BY <1>5, <1>7, <2>1, <2>3, JoinedOnce
  <2>5. QED
    BY <1>2, <1>6, <2>4
<1>10. QED
  BY <1>2, <1>3, <1>5, <1>6, <1>8, <1>9

(* The sequence of what a body owns is of definitions, ends with the body  *)
(* and has, with each definition, what it owns.                            *)
Encloses(s, d) ==
  /\ s \in Seq(DOMAIN defs) /\ d \in Range(s)
  /\ \A x \in Range(s) : Range(defs[x].order) \subseteq Range(s)

LEMMA PostsEnclose ==
  ASSUME Owned, Treelike, NEW from, Posts(from), NEW body \in DOMAIN defs
  PROVE  Encloses(from[body], body)
<1> DEFINE D == DOMAIN defs
           T == {d \in D : Encloses(from[d], d)}
<1>1. PICK n \in Nat : \E rank \in [D -> 0..n] : LowerOwned(rank)
  BY DEF Treelike
<1>2. PICK rank \in [D -> 0..n] : LowerOwned(rank)
  BY <1>1
<1>3. \A d \in D : \A k \in DOMAIN defs[d].order : defs[d].order[k] \in D
  BY DEF Owned
<1>4. ASSUME NEW d \in D, \A c \in D : rank[c] < rank[d] => c \in T
      PROVE  d \in T
  <2>1. \A k \in DOMAIN defs[d].order :
          Encloses(from[defs[d].order[k]], defs[d].order[k])
    BY <1>2, <1>3, <1>4 DEF LowerOwned
  <2>2. \A k \in DOMAIN defs[d].order : from[defs[d].order[k]] \in Seq(D)
    BY <2>1 DEF Encloses
  <2>3. /\ from[d] \in Seq(D) /\ d \in Range(from[d])
        /\ \A x \in Range(from[d]) :
             x = d \/ \E k \in DOMAIN defs[d].order : x \in Range(from[defs[d].order[k]])
        /\ \A k \in DOMAIN defs[d].order :
             Range(from[defs[d].order[k]]) \subseteq Range(from[d])
    BY <2>2, PostIs
  <2>4. Range(defs[d].order) \subseteq Range(from[d])
    <3>1. SUFFICES ASSUME NEW k \in DOMAIN defs[d].order
                   PROVE  defs[d].order[k] \in Range(from[d])
      BY DEF Range
    <3>2. defs[d].order[k] \in Range(from[defs[d].order[k]])
      BY <2>1 DEF Encloses
    <3>3. QED
      BY <2>3, <3>2
  <2>5. \A x \in Range(from[d]) : Range(defs[x].order) \subseteq Range(from[d])
    <3>1. SUFFICES ASSUME NEW x \in Range(from[d]), x # d
                   PROVE  Range(defs[x].order) \subseteq Range(from[d])
      BY <2>4
    <3>2. PICK k \in DOMAIN defs[d].order : x \in Range(from[defs[d].order[k]])
      BY <2>3, <3>1
    <3>3. Range(defs[x].order) \subseteq Range(from[defs[d].order[k]])
      BY <2>1, <3>2 DEF Encloses
    <3>4. QED
      BY <2>3, <3>3
  <2>6. QED
    BY <2>3, <2>5 DEF Encloses
<1>5. Hereditary(D, rank, T)
  <2> HIDE DEF D, T
  <2>1. QED
    BY <1>4 DEF Hereditary
<1>6. D \subseteq T
  <2> HIDE DEF D, T
  <2>1. QED
    BY <1>1, <1>2, <1>5, RankedInduction
<1>7. QED
  BY <1>6

LEMMA PostOrderIs ==
  ASSUME Owned, Treelike, NEW body \in DOMAIN defs
  PROVE  Encloses(PostOrder(body), body)
BY PostsAre, PostsEnclose

-----------------------------------------------------------------------------
(* Specializations and keys.                                               *)

(* A key for n parameters.                                                 *)
Argued(n, key) ==
  /\ n \in Nat /\ DOMAIN key = 1..n /\ Len(key) = n
  /\ \A i \in 1..n : IsArgument(key[i])

(* What is kept of one of the patterns, for n parameters.                  *)
Patterned(n, spec) ==
  \E r \in program.patterns :
    /\ Len(r.args) = n /\ spec.pattern = r.args /\ spec.filter = FilterOf(r.args)
    /\ spec.inds = Positions(r.list, r.args)

LEMMA DeducibleIs ==
  ASSUME NEW list, NEW args, Deducible(list, args)
  PROVE  /\ Len(list) \in Nat /\ DOMAIN list = 1..Len(list)
         /\ Len(args) \in Nat /\ DOMAIN args = 1..Len(args)
<1>1. \A s : s \in Seq(Range(s)) => Len(s) \in Nat /\ DOMAIN s = 1..Len(s)
  OBVIOUS
<1>2. QED
  BY <1>1 DEF Deducible, WellFormed

(* A specialization has a merit for a key just when its filter matches and *)
(* its parameters stand for one argument each, which is when it fits.      *)
LEMMA MeritIs ==
  ASSUME program \in Programs, NEW n, NEW spec, Patterned(n, spec),
         NEW key, Argued(n, key)
  PROVE  /\ Merit(spec.inds, key) \in 0..n + 1
         /\ Matches(spec.filter, key) /\ Merit(spec.inds, key) > 0
              <=> Fits(spec.pattern, key)
<1>1. PICK r \in program.patterns :
        /\ Len(r.args) = n /\ spec.pattern = r.args /\ spec.filter = FilterOf(r.args)
        /\ spec.inds = Positions(r.list, r.args)
  BY DEF Patterned
<1> DEFINE list == r.list
           args == r.args
           inds == Positions(list, args)
<1>2. Deducible(list, args)
  BY ProgramsAssumption
<1>3. n \in Nat /\ DOMAIN args = 1..n /\ DOMAIN list = 1..Len(list) /\ Len(list) \in Nat
  BY <1>1, <1>2, DeducibleIs
<1>4. DOMAIN inds = DOMAIN list
  BY DEF Positions
<1>5. \A p \in DOMAIN list, i \in DOMAIN args :
        i \in inds[p] <=> args[i] = Argument("name", list[p].name)
  BY DEF Positions
<1>6. \A p \in DOMAIN list : inds[p] \subseteq 1..n
  BY <1>3 DEF Positions
<1> HIDE DEF list, args, inds
<1>7. Cardinality(Repeated(inds)) \in 0..n
  <2>1. Repeated(inds) \subseteq 1..n
    BY <1>4, <1>6 DEF Repeated, Range
  <2>2. IsFiniteSet(1..n) /\ Cardinality(1..n) = n
    <3>1. IsFiniteSet(1..n) /\ Cardinality(1..n) = IF 1 > n THEN 0 ELSE n - 1 + 1
      BY <1>3, FS_Interval
    <3>2. QED
      BY <1>3, <3>1
  <2>3. IsFiniteSet(Repeated(inds)) /\ Cardinality(Repeated(inds)) <= n
    BY <2>1, <2>2, FS_Subset
  <2>4. Cardinality(Repeated(inds)) \in Nat
    BY <2>3, FS_CardinalityType
  <2>5. QED
    BY <1>3, <2>3, <2>4
<1> DEFINE Differs == \E at \in Range(inds) : \E i, j \in at : key[i] # key[j]
<1>8. Merit(inds, key) \in 0..n + 1 /\ (Merit(inds, key) > 0 <=> ~Differs)
  <2>1. \A c \in 0..n : 1 + c \in 0..n + 1 /\ 1 + c > 0
    BY <1>3
  <2>2. 1 + Cardinality(Repeated(inds)) \in 0..n + 1 /\ 1 + Cardinality(Repeated(inds)) > 0
    BY <1>7, <2>1
  <2>3. Merit(inds, key) = IF Differs THEN 0 ELSE 1 + Cardinality(Repeated(inds))
    BY DEF Merit
  <2>4. 0 \in 0..n + 1 /\ ~(0 > 0)
    BY <1>3
  <2> HIDE DEF Differs
  <2>5. QED
    BY <2>2, <2>3, <2>4
<1>9. Matches(spec.filter, key)
        <=> \A i \in 1..n : args[i].kind # "name" => args[i] = key[i]
  <2>1. DOMAIN spec.filter = 1..n
    BY <1>1, <1>3 DEF FilterOf, args
  <2>2. ASSUME NEW i \in 1..n
        PROVE  (\/ IsAbstract(spec.filter[i])
                \/ /\ spec.filter[i].kind = key[i].kind
                   /\ spec.filter[i].kind = "type" => spec.filter[i].of = key[i].of)
               <=> (args[i].kind # "name" => args[i] = key[i])
    <3>1. spec.filter[i] = IF args[i].kind = "name" THEN Abstract("type") ELSE args[i]
      BY <1>1, <1>3 DEF FilterOf, args
    <3>2. CASE args[i].kind = "name"
      <4>1. IsAbstract(spec.filter[i])
        BY <3>1, <3>2 DEF IsAbstract, Abstract, Argument
      <4>2. QED
        BY <3>2, <4>1
    <3>3. CASE args[i].kind # "name"
      <4>1. spec.filter[i] = args[i] /\ args[i].kind = "type" /\ ~IsAbstract(args[i])
        BY <1>2, <1>3, <3>1, <3>3 DEF Deducible
      <4>2. args[i] = Argument(args[i].kind, args[i].of)
        BY <1>2, <1>3 DEF Deducible, IsArgument
      <4>3. key[i] = Argument(key[i].kind, key[i].of)
        BY DEF Argued, IsArgument
      <4>4. args[i] = key[i] <=> args[i].kind = key[i].kind /\ args[i].of = key[i].of
        BY <4>2, <4>3
      <4>5. QED
        BY <3>3, <4>1, <4>4
    <3>4. QED
      BY <3>2, <3>3
  <2>3. QED
    BY <2>1, <2>2 DEF Matches
<1>10. Differs <=> \E i, j \in 1..n : /\ args[i].kind = "name" /\ args[j] = args[i]
                                     /\ key[j] # key[i]
  <2>1. ASSUME NEW at \in Range(inds), NEW i \in at, NEW j \in at, key[i] # key[j]
        PROVE  \E a, b \in 1..n : args[a].kind = "name" /\ args[b] = args[a] /\ key[b] # key[a]
    <3>1. PICK p \in DOMAIN list : at = inds[p]
      BY <1>4 DEF Range
    <3>2. i \in 1..n /\ j \in 1..n
      BY <1>6, <3>1
    <3>3. args[i] = Argument("name", list[p].name) /\ args[j] = Argument("name", list[p].name)
      BY <1>3, <1>5, <2>1, <3>1, <3>2
    <3>4. args[i].kind = "name"
      BY <3>3 DEF Argument
    <3>5. QED
      BY <2>1, <3>2, <3>3, <3>4
  <2>2. ASSUME NEW i \in 1..n, NEW j \in 1..n, args[i].kind = "name", args[j] = args[i],
               key[j] # key[i]
        PROVE  Differs
    <3>1. PICK p \in DOMAIN list : list[p].name = args[i].of
      BY <1>2, <1>3, <2>2 DEF Deducible
    <3>2. args[i] = Argument("name", list[p].name)
      BY <1>2, <1>3, <2>2, <3>1 DEF Deducible, IsArgument
    <3>3. i \in inds[p] /\ j \in inds[p]
      BY <1>3, <1>5, <2>2, <3>1, <3>2
    <3>4. inds[p] \in Range(inds)
      BY <1>4, <3>1 DEF Range
    <3>5. QED
      BY <2>2, <3>3, <3>4
  <2>3. QED
    BY <2>1, <2>2
<1>11. Fits(args, key)
         <=> /\ \A i \in 1..n : args[i].kind # "name" => args[i] = key[i]
             /\ ~\E i, j \in 1..n : /\ args[i].kind = "name" /\ args[j] = args[i]
                                    /\ key[j] # key[i]
  BY <1>3 DEF Fits
<1>12. spec.inds = inds /\ spec.pattern = args
  BY <1>1 DEF inds, list, args
<1> HIDE DEF Differs
<1>13. QED
  BY <1>8, <1>9, <1>10, <1>11, <1>12

(* The key of a specialization is one argument for each of its parameters. *)
LEMMA SpecializedKeyIs ==
  ASSUME program \in Programs, NEW r \in program.patterns, NEW spec,
         spec.inds = Positions(r.list, r.args), NEW key, Argued(Len(r.args), key)
  PROVE  /\ Argued(Len(r.list), SpecializedKey(spec, key))
         /\ \A p \in 1..Len(r.list) : \E i \in DOMAIN key : SpecializedKey(spec, key)[p] = key[i]
<1>1. Deducible(r.list, r.args)
  BY ProgramsAssumption
<1>2. /\ Len(r.list) \in Nat /\ DOMAIN r.list = 1..Len(r.list)
      /\ Len(r.args) \in Nat /\ DOMAIN r.args = 1..Len(r.args)
  BY <1>1, DeducibleIs
<1>3. DOMAIN spec.inds = 1..Len(r.list)
  BY <1>2 DEF Positions
<1>4. ASSUME NEW p \in 1..Len(r.list)
      PROVE  IsArgument(key[Min(spec.inds[p])]) /\ Min(spec.inds[p]) \in DOMAIN key
  <2>1. spec.inds[p] = {i \in DOMAIN r.args : r.args[i] = Argument("name", r.list[p].name)}
    BY <1>2 DEF Positions
  <2>2. \E i \in DOMAIN r.args : r.args[i] = Argument("name", r.list[p].name)
    BY <1>1, <1>2 DEF Deducible
  <2>3. spec.inds[p] # {} /\ spec.inds[p] \subseteq Nat
    BY <1>2, <2>1, <2>2
  <2>4. Min(spec.inds[p]) \in 1..Len(r.args)
    <3>1. Min(spec.inds[p]) \in spec.inds[p]
      BY <2>3, MinIs
    <3>2. QED
      BY <1>2, <2>1, <3>1
  <2>5. QED
    BY <2>4 DEF Argued
<1> DEFINE new == SpecializedKey(spec, key)
<1>5. new = [p \in 1..Len(r.list) |-> key[Min(spec.inds[p])]]
  BY <1>3 DEF SpecializedKey
<1>6. DOMAIN new = 1..Len(r.list) /\ Len(new) = Len(r.list)
  BY <1>2, <1>5
<1>7. \A p \in 1..Len(r.list) : new[p] = key[Min(spec.inds[p])]
  BY <1>5
<1> HIDE DEF new
<1>8. \A p \in 1..Len(r.list) : IsArgument(new[p]) /\ \E i \in DOMAIN key : new[p] = key[i]
  BY <1>4, <1>7
<1>9. QED
  BY <1>2, <1>6, <1>8 DEF Argued, new

(* find_specialization returns one that fits if there is one.              *)
LEMMA SpecializationIs ==
  ASSUME program \in Programs, NEW t, NEW n, NEW key, Argued(n, key),
         Sequence(templates[t].specializations),
         \A s \in DOMAIN templates[t].specializations :
           Patterned(n, templates[t].specializations[s])
  PROVE  /\ Specialization(t, key) = 0 => Fitting(t, key) = {}
         /\ Specialization(t, key) # 0 => Specialization(t, key) \in Fitting(t, key)
<1> DEFINE specs == templates[t].specializations
           merits == Merits(t, key)
           best == {s \in DOMAIN merits : /\ merits[s] > 0
                                          /\ \A r \in DOMAIN merits : merits[r] <= merits[s]}
<1>1. DOMAIN specs = 1..Len(specs) /\ Len(specs) \in Nat /\ n \in Nat
  BY DEF Sequence, Argued
<1>2. DOMAIN merits = DOMAIN specs
  BY DEF Merits
<1>3. ASSUME NEW s \in DOMAIN specs
      PROVE  merits[s] \in 0..n + 1 /\ (merits[s] > 0 <=> s \in Fitting(t, key))
  <2>1. merits[s] = IF Matches(specs[s].filter, key) THEN Merit(specs[s].inds, key) ELSE 0
    BY DEF Merits
  <2>2. s \in Fitting(t, key) <=> Fits(specs[s].pattern, key)
    BY DEF Fitting
  <2>3. 0 \in 0..n + 1 /\ ~(0 > 0)
    BY <1>1
  <2>4. /\ Merit(specs[s].inds, key) \in 0..n + 1
        /\ Matches(specs[s].filter, key) /\ Merit(specs[s].inds, key) > 0
             <=> Fits(specs[s].pattern, key)
    <3>1. Patterned(n, specs[s])
      OBVIOUS
    <3> HIDE DEF specs
    <3>2. QED
      BY <3>1, MeritIs
  <2> HIDE DEF merits, specs
  <2>5. QED
    BY <2>1, <2>2, <2>3, <2>4
<1>4. Specialization(t, key) = IF best = {} THEN 0 ELSE Min(best)
  BY DEF Specialization
<1> HIDE DEF merits
<1>5. best # {} => Min(best) \in DOMAIN specs /\ Min(best) # 0 /\ merits[Min(best)] > 0
  <2>1. best \subseteq DOMAIN specs /\ best \subseteq Nat
    BY <1>1, <1>2
  <2>2. best # {} => Min(best) \in best
    <3> HIDE DEF best
    <3>1. QED
      BY <2>1, MinIs
  <2>3. QED
    BY <1>1, <1>2, <2>1, <2>2
<1>6. best = {} => Fitting(t, key) = {}
  <2>1. SUFFICES ASSUME Fitting(t, key) # {} PROVE best # {}
    OBVIOUS
  <2>2. PICK s \in DOMAIN specs : merits[s] > 0
    BY <1>3, <2>1 DEF Fitting
  <2> DEFINE S == {merits[r] : r \in DOMAIN specs}
  <2>3. S \subseteq 0..n + 1 /\ S # {} /\ n + 1 \in Nat
    BY <1>1, <1>3, <2>2
  <2>4. \E m \in S : \A k \in S : k <= m
    <3> HIDE DEF S
    <3>1. QED
      BY <2>3, Greatest
  <2>5. PICK b \in DOMAIN specs : \A k \in S : k <= merits[b]
    BY <2>4
  <2>6. \A r \in DOMAIN merits : merits[r] <= merits[b]
    BY <1>2, <2>5
  <2>7. merits[b] > 0
    <3>1. merits[s] <= merits[b] /\ merits[s] \in Nat /\ merits[b] \in Nat
      BY <1>2, <1>3, <2>2, <2>6
    <3>2. QED
      BY <2>2, <3>1
  <2>8. b \in best
    BY <1>2, <2>6, <2>7
  <2>9. QED
    BY <2>8
<1> HIDE DEF best
<1>7. QED
  BY <1>3, <1>4, <1>5, <1>6

-----------------------------------------------------------------------------
(* The arguments of a use.                                                 *)
DefaultsSound(n, ds) ==
  /\ n \in Nat /\ DOMAIN ds = 1..n
  /\ \A i \in 1..n :
       IF ds[i].kind = "parameter" THEN ds[i].of \in 1..i - 1 /\ ds[ds[i].of].kind = "none"
       ELSE IsArgument(ds[i]) /\ ~IsAbstract(ds[i])

(* As many as there are parameters, and defaults for the others.           *)
Given(t, args) ==
  /\ Len(args) \in 0..Arity(t) /\ \A i \in 1..Len(args) : IsArgument(args[i])
  /\ \A i \in Len(args) + 1..Arity(t) : templates[t].defaults[i].kind # "none"

GivenKey(t, args) ==
  [i \in 1..Arity(t) |->
     LET default == templates[t].defaults[i] IN
     IF i <= Len(args) THEN args[i]
     ELSE IF default.kind = "parameter" THEN args[default.of] ELSE default]

Expecting(t, args, key) ==
  key = [i \in 0..Arity(t) |->
           IF i = 0 THEN << >>
           ELSE LET default == templates[t].defaults[i] IN
                Append(key[i - 1],
                       IF i <= Len(args) THEN args[i]
                       ELSE IF default.kind = "parameter" THEN key[i - 1][default.of]
                       ELSE default)]

(* The key that is looked up is the one that C++ expects.                  *)
LEMMA KeyIs ==
  ASSUME NEW t, NEW args, DefaultsSound(Arity(t), templates[t].defaults), Given(t, args)
  PROVE  /\ Key(t, args) = Expected(t, args)
         /\ Key(t, args) = GivenKey(t, args)
         /\ Argued(Arity(t), Key(t, args))
         /\ (\A i \in 1..Len(args) : ~IsAbstract(args[i])) =>
              \A i \in DOMAIN Key(t, args) : ~IsAbstract(Key(t, args)[i])
<1> DEFINE n == Arity(t)
           ds == templates[t].defaults
           K == Key(t, args)
           g == [i \in 0..n |-> [j \in 1..i |-> K[j]]]
           e == CHOOSE f : Expecting(t, args, f)
<1>1. n \in Nat /\ Len(args) \in 0..n
  BY DEF DefaultsSound, Given
<1>2. ASSUME NEW i \in 1..n, ~(i <= Len(args)), ds[i].kind = "parameter"
      PROVE  ds[i].of \in 1..i - 1 /\ ds[i].of <= Len(args) /\ ds[i].of \in 1..n
  <2>1. ds[i].of \in 1..i - 1 /\ ds[ds[i].of].kind = "none"
    BY <1>2 DEF DefaultsSound
  <2>2. ds[i].of \in 1..n
    BY <1>1, <2>1
  <2>3. ~(ds[i].of \in Len(args) + 1..n)
    BY <2>1 DEF Given
  <2>4. QED
    BY <1>1, <2>1, <2>2, <2>3
<1>3. /\ K = [i \in 1..n |-> IF i <= Len(args) THEN args[i] ELSE Default(t, i, args)]
      /\ DOMAIN K = 1..n
  BY DEF Key
<1>4. \A i \in 1..n :
        K[i] = IF i <= Len(args) THEN args[i]
               ELSE IF ds[i].kind = "parameter" THEN args[ds[i].of] ELSE ds[i]
  <2>1. \A i \in 1..n : K[i] = IF i <= Len(args) THEN args[i] ELSE Default(t, i, args)
    BY <1>3
  <2>2. \A i \in 1..n : ~(i <= Len(args)) =>
          Default(t, i, args) = IF ds[i].kind = "parameter" THEN args[ds[i].of] ELSE ds[i]
    BY <1>2 DEF Default
  <2> HIDE DEF K, n, ds
  <2>3. QED
    BY <2>1, <2>2
<1> HIDE DEF K
<1>5. \A i \in 1..n : ds[i].kind # "parameter" => IsArgument(ds[i]) /\ ~IsAbstract(ds[i])
  BY DEF DefaultsSound
<1>6. Argued(n, K)
  <2>1. \A i \in 1..Len(args) : IsArgument(args[i])
    BY DEF Given
  <2>2. \A i \in 1..n : IsArgument(K[i])
    BY <1>1, <1>2, <1>4, <1>5, <2>1
  <2>3. Len(K) = n
    BY <1>1, <1>3
  <2> HIDE DEF n
  <2>4. QED
    BY <1>1, <1>3, <2>2, <2>3 DEF Argued
<1>7. (\A i \in 1..Len(args) : ~IsAbstract(args[i])) => \A i \in DOMAIN K : ~IsAbstract(K[i])
  BY <1>1, <1>2, <1>3, <1>4, <1>5
<1>8. ASSUME NEW i \in 1..n
      PROVE  K[i] = IF i <= Len(args) THEN args[i]
                    ELSE IF ds[i].kind = "parameter" THEN g[i - 1][ds[i].of] ELSE ds[i]
  <2>1. CASE ~(i <= Len(args)) /\ ds[i].kind = "parameter"
    <3>1. i - 1 \in 0..n /\ ds[i].of \in 1..i - 1 /\ ds[i].of <= Len(args)
      BY <1>1, <1>2, <2>1
    <3>2. g[i - 1][ds[i].of] = K[ds[i].of]
      BY <3>1
    <3>3. K[ds[i].of] = args[ds[i].of]
      BY <1>2, <1>4, <2>1
    <3>4. QED
      BY <1>4, <2>1, <3>2, <3>3
  <2>2. QED
    BY <1>4, <2>1
<1>9. g[0] = << >> /\ g[n] = K
  <2>1. 1..0 = {} /\ 0 \in 0..n /\ n \in 0..n
    BY <1>1
  <2>2. g[0] = [j \in 1..0 |-> K[j]] /\ g[n] = [j \in 1..n |-> K[j]]
    BY <2>1
  <2>3. [j \in {} |-> K[j]] = << >>
    OBVIOUS
  <2>4. K = [j \in 1..n |-> K[j]]
    BY <1>3
  <2>5. QED
    BY <2>1, <2>2, <2>3, <2>4
<1>10. \A i \in 1..n : g[i] = Append(g[i - 1], K[i])
  <2>1. TAKE i \in 1..n
  <2>2. i - 1 \in 0..n /\ i \in 0..n /\ i - 1 \in Nat /\ (i - 1) + 1 = i
    BY <1>1
  <2> DEFINE a == [j \in 1..i - 1 |-> K[j]]
             W == {K[j] : j \in 1..n}
  <2>3. g[i - 1] = a /\ g[i] = [j \in 1..i |-> K[j]]
    BY <2>2
  <2>4. \A j \in 1..i - 1 : K[j] \in W
    BY <1>1
  <2>5. a \in Seq(W) /\ Len(a) = i - 1 /\ \A j \in 1..i - 1 : a[j] = K[j]
    <3> HIDE DEF W
    <3>1. a \in [1..i - 1 -> W]
      BY <2>4
    <3>2. \A j \in 1..i - 1 : a[j] = K[j]
      OBVIOUS
    <3> HIDE DEF a
    <3>3. QED
      BY <2>2, <3>1, <3>2
  <2> DEFINE b == [j \in 1..i |-> K[j]]
  <2>6. K[i] \in W /\ \A j \in 1..i : K[j] \in W
    BY <1>1
  <2>7. b \in Seq(W) /\ Len(b) = i /\ \A j \in 1..i : b[j] = K[j]
    <3> HIDE DEF W
    <3>1. b \in [1..i -> W]
      BY <2>6
    <3>2. \A j \in 1..i : b[j] = K[j]
      OBVIOUS
    <3> HIDE DEF b
    <3>3. QED
      BY <2>2, <3>1, <3>2
  <2> HIDE DEF a, b, W
  <2>8. Append(a, K[i]) \in Seq(W) /\ Len(Append(a, K[i])) = i
    BY <2>2, <2>5, <2>6
  <2>9. \A j \in 1..i : Append(a, K[i])[j] = b[j]
    BY <2>2, <2>5, <2>6, <2>7
  <2>10. Append(a, K[i]) = b
    <3>1. \A x, y \in Seq(W) : Len(x) = Len(y) /\ (\A j \in 1..Len(x) : x[j] = y[j]) => x = y
      BY SeqEqual
    <3>2. QED
      BY <2>7, <2>8, <2>9, <3>1
  <2>11. QED
    BY <2>3, <2>10 DEF b
<1> DEFINE After(f, i) == IF i = 0 THEN << >>
                         ELSE Append(f[i - 1],
                                IF i <= Len(args) THEN args[i]
                                ELSE IF ds[i].kind = "parameter" THEN f[i - 1][ds[i].of]
                                ELSE ds[i])
<1>11. Expecting(t, args, g)
  <2>1. \A i \in 0..n : g[i] = After(g, i)
    <3>1. \A i \in 0..n : i # 0 => i \in 1..n
      BY <1>1
    <3> HIDE DEF g, ds, n
    <3>2. QED
      BY <1>8, <1>9, <1>10, <3>1
  <2>2. g = [i \in 0..n |-> g[i]]
    OBVIOUS
  <2> HIDE DEF g
  <2>3. g = [i \in 0..n |-> After(g, i)]
    <3> HIDE DEF After
    <3>1. QED
      BY <2>1, <2>2
  <2>4. QED
    BY <2>3 DEF Expecting
<1>12. Expecting(t, args, e)
  BY <1>11
<1>13. Expected(t, args) = e[n]
  BY DEF Expected, Expecting
<1> HIDE DEF e
<1>14. \A i \in 0..n : e[i] = After(e, i)
  <2>1. e = [i \in 0..n |-> After(e, i)]
    BY <1>12 DEF Expecting
  <2> HIDE DEF After
  <2>2. QED
    BY <2>1
<1> DEFINE T == {i \in Nat : i \in 0..n => e[i] = g[i]}
<1>15. 0 \in T
  <2>1. 0 \in 0..n
    BY <1>1
  <2>2. QED
    BY <1>9, <1>14, <2>1
<1>16. ASSUME NEW m \in Nat, m \in T
       PROVE  m + 1 \in T
  <2>1. SUFFICES ASSUME m + 1 \in 0..n PROVE e[m + 1] = g[m + 1]
    OBVIOUS
  <2>2. m \in 0..n /\ m + 1 \in 1..n /\ (m + 1) - 1 = m /\ m + 1 # 0
    BY <1>1, <2>1
  <2>3. e[m] = g[m]
    BY <1>16, <2>2
  <2>4. e[m + 1] = Append(e[m],
               IF m + 1 <= Len(args) THEN args[m + 1]
               ELSE IF ds[m + 1].kind = "parameter" THEN e[m][ds[m + 1].of] ELSE ds[m + 1])
    BY <1>14, <2>1, <2>2
  <2>5. K[m + 1] = IF m + 1 <= Len(args) THEN args[m + 1]
                   ELSE IF ds[m + 1].kind = "parameter" THEN g[m][ds[m + 1].of] ELSE ds[m + 1]
    BY <1>8, <2>2
  <2>6. g[m + 1] = Append(g[m], K[m + 1])
    BY <1>10, <2>2
  <2> HIDE DEF g, ds
  <2>7. QED
    BY <2>3, <2>4, <2>5, <2>6
<1>17. n \in T
  <2> HIDE DEF T
  <2>1. QED
    BY <1>1, <1>15, <1>16, Induction
<1>18. e[n] = K
  <2>1. n \in 0..n
    BY <1>1
  <2>2. e[n] = g[n]
    BY <1>17, <2>1
  <2> HIDE DEF g
  <2>3. QED
    BY <1>9, <2>2
<1>19. K = GivenKey(t, args)
  <2> HIDE DEF ds, n
  <2>1. K = [i \in 1..n |-> K[i]]
    BY <1>3
  <2>2. K = [i \in 1..n |-> IF i <= Len(args) THEN args[i]
                            ELSE IF ds[i].kind = "parameter" THEN args[ds[i].of] ELSE ds[i]]
    BY <1>4, <2>1
  <2>3. QED
    BY <2>2 DEF GivenKey, ds, n
<1>20. QED
  BY <1>6, <1>7, <1>13, <1>18, <1>19 DEF K

-----------------------------------------------------------------------------
(* The invariant.  It is of all but the values, types and names: which     *)
(* definitions own which, what the expressions of enumerators instantiate, *)
(* and what each call of instantiate is about to return.                   *)
DefinitionFields ==
  {"kind", "parent", "type", "value", "expr", "order", "general", "base", "spelt"}
TemplateFields ==
  {"params", "general", "names", "defaults", "def", "unread", "specializations",
   "instantiations", "of"}
FrameFields == {"temp", "key", "to", "of", "at", "def", "copies", "todo"}

(* What is instantiated has one parameter.                                 *)
ExpressionSound(e) ==
  /\ DOMAIN e = {"op", "def", "temp"}
  /\ e.op \in {"access", "recursion", "unbounded"} =>
       e.temp \in DOMAIN templates /\ Arity(e.temp) = 1

DefsSound ==
  /\ Sequence(defs) /\ Owned /\ Treelike
  /\ \A d \in DOMAIN defs :
       DOMAIN defs[d] = DefinitionFields /\ ExpressionSound(defs[d].expr)

(* Every specialization is of a pattern that the program may declare, and  *)
(* is a template that has none itself.                                     *)
SpecializationSound(t, spec) ==
  /\ Patterned(Arity(t), spec)
  /\ \E r \in program.patterns :
       /\ Len(r.args) = Arity(t) /\ spec.inds = Positions(r.list, r.args)
       /\ spec.temp \in DOMAIN templates /\ templates[spec.temp].of # 0
       /\ Arity(spec.temp) = Len(r.list)

InstancesSound(t) ==
  /\ Sequence(Instances(t))
  /\ \A i \in DOMAIN Instances(t) : Instances(t)[i].def \in Nat

TemplateSound(t) ==
  /\ DOMAIN templates[t] = TemplateFields
  /\ DefaultsSound(Arity(t), templates[t].defaults)
  /\ templates[t].def \in DOMAIN defs
  /\ Sequence(templates[t].specializations)
  /\ templates[t].of # 0 => templates[t].specializations = << >>
  /\ \A s \in DOMAIN templates[t].specializations :
       SpecializationSound(t, templates[t].specializations[s])
  /\ InstancesSound(t)

TemplatesSound == Sequence(templates) /\ \A t \in DOMAIN templates : TemplateSound(t)

OpenSound == DOMAIN open = {"temp", "scopes"} /\ open.temp \in 0..Len(templates)

(* What a use of t with a key is to get; nothing is promised once the      *)
(* limit of nesting was met.                                               *)
InstanceFor(t, key, d) ==
  LET specs == templates[t].specializations IN
  IF Fitting(t, key) = {} THEN IsInstance(t, key, d)
  ELSE \E s \in Fitting(t, key) :
         IsInstance(specs[s].temp, SpecializedKey(specs[s], key), d)

Designated(t, key, d) == d \in Nat /\ (exceeded \/ InstanceFor(t, key, d))

(* A call that is no more than one of a specialization.                    *)
Passing(i) == i < Len(frames) /\ frames[i + 1].to = "specialized"

PassedOn(f, g) ==
  \E s \in Fitting(f.temp, f.key) :
    LET spec == templates[f.temp].specializations[s] IN
    g.temp = spec.temp /\ g.key = SpecializedKey(spec, f.key)

(* The lowest call is that of the use, the highest is the one that runs.   *)
FrameSound(i) ==
  LET f == frames[i] IN
  /\ DOMAIN f = FrameFields
  /\ f.temp \in DOMAIN templates /\ Argued(Arity(f.temp), f.key)
  /\ Sequence(f.todo) /\ Range(f.todo) \subseteq DOMAIN defs
  /\ f.to \in {"use", "specialized", "enumerator"} /\ (f.to = "use" <=> i = 1)
  /\ f.at \in {"enter", "remap", "return"} /\ (i < Len(frames) => f.at = "remap")
  /\ f.at = "return" => Designated(f.temp, f.key, f.def)
  /\ f.at = "remap" /\ ~Passing(i) =>
       Fitting(f.temp, f.key) = {} /\ IsInstance(f.temp, f.key, f.def)
  /\ Passing(i) => PassedOn(f, frames[i + 1])

FramesSound == Sequence(frames) /\ \A i \in DOMAIN frames : FrameSound(i)

UseSound ==
  /\ uses \in Nat /\ DOMAIN result = {"temp", "args", "key", "def"} /\ result.def \in Nat
  /\ frames # << >> =>
       /\ uses # 0 /\ result.temp = 0
       /\ frames[1].key = GivenKey(frames[1].temp, result.args)
       /\ Given(frames[1].temp, result.args)
  /\ result.temp # 0 =>
       /\ uses # 0 /\ result.temp \in DOMAIN templates /\ Given(result.temp, result.args)
       /\ Designated(result.temp, GivenKey(result.temp, result.args), result.def)

Sound ==
  /\ program \in Programs /\ DefsSound /\ TemplatesSound /\ OpenSound
  /\ FramesSound /\ UseSound

TemplatesInv == exceeded \in BOOLEAN /\ Sound

-----------------------------------------------------------------------------
(* What steps keep of the definitions and templates that there are.        *)
Kept ==
  /\ DOMAIN defs \subseteq DOMAIN defs' /\ (exceeded => exceeded')
  /\ \A t \in DOMAIN templates :
       /\ t \in DOMAIN templates'
       /\ templates'[t].params = templates[t].params
       /\ templates'[t].defaults = templates[t].defaults
       /\ templates'[t].def = templates[t].def
       /\ templates'[t].specializations = templates[t].specializations
       /\ templates'[t].of = templates[t].of
       /\ \A i \in DOMAIN templates[t].instantiations :
            /\ i \in DOMAIN templates'[t].instantiations
            /\ templates'[t].instantiations[i] = templates[t].instantiations[i]

LEMMA KeptIs ==
  ASSUME TemplatesSound, Kept
  PROVE  \A t \in DOMAIN templates :
           /\ Arity(t)' = Arity(t)
           /\ \A key : Fitting(t, key)' = Fitting(t, key)
           /\ \A key, d : IsInstance(t, key, d) => IsInstance(t, key, d)'
           /\ \A key, d : Designated(t, key, d) => Designated(t, key, d)'
           /\ \A args : Given(t, args) => Given(t, args)'
           /\ \A args : GivenKey(t, args)' = GivenKey(t, args)
<1>1. ASSUME NEW t \in DOMAIN templates
      PROVE  /\ Arity(t)' = Arity(t)
             /\ \A key : Fitting(t, key)' = Fitting(t, key)
             /\ \A args : Given(t, args) => Given(t, args)'
             /\ \A args : GivenKey(t, args)' = GivenKey(t, args)
  <2>1. /\ templates'[t].params = templates[t].params
        /\ templates'[t].defaults = templates[t].defaults
        /\ templates'[t].specializations = templates[t].specializations
    BY DEF Kept
  <2>2. Arity(t)' = Arity(t)
    BY <2>1 DEF Arity
  <2>3. \A key : Fitting(t, key)' = Fitting(t, key)
    BY <2>1 DEF Fitting, Fits
  <2>4. \A args : Given(t, args) => Given(t, args)'
    BY <2>1, <2>2 DEF Given
  <2>5. \A args : GivenKey(t, args)' = GivenKey(t, args)
    BY <2>1, <2>2 DEF GivenKey
  <2>6. QED
    BY <2>2, <2>3, <2>4, <2>5
<1>2. ASSUME NEW t \in DOMAIN templates
      PROVE  \A key, d : IsInstance(t, key, d) => IsInstance(t, key, d)'
  <2>1. \A i \in DOMAIN templates[t].instantiations :
          /\ i \in DOMAIN templates'[t].instantiations
          /\ templates'[t].instantiations[i] = templates[t].instantiations[i]
    BY DEF Kept
  <2>2. QED
    BY <2>1 DEF IsInstance, Instances
<1>3. ASSUME NEW t \in DOMAIN templates, NEW key, NEW d, InstanceFor(t, key, d)
      PROVE  InstanceFor(t, key, d)'
  <2> DEFINE specs == templates[t].specializations
  <2>1. specs' = specs /\ Fitting(t, key)' = Fitting(t, key)
    BY <1>1 DEF Kept
  <2>2. CASE Fitting(t, key) = {}
    <3>1. IsInstance(t, key, d)
      BY <1>3, <2>2 DEF InstanceFor
    <3>2. IsInstance(t, key, d)'
      BY <1>2, <3>1
    <3>3. QED
      BY <2>1, <2>2, <3>2 DEF InstanceFor
  <2>3. CASE Fitting(t, key) # {}
    <3>1. PICK s \in Fitting(t, key) :
            IsInstance(specs[s].temp, SpecializedKey(specs[s], key), d)
      BY <1>3, <2>3 DEF InstanceFor
    <3>2. specs[s].temp \in DOMAIN templates
      <4>1. s \in DOMAIN specs
        BY <3>1 DEF Fitting
      <4>2. SpecializationSound(t, specs[s])
        BY <4>1 DEF TemplatesSound, TemplateSound
      <4>3. QED
        BY <4>2 DEF SpecializationSound
    <3> DEFINE k == SpecializedKey(specs[s], key)
    <3>3. IsInstance(specs[s].temp, k, d)'
      <4>1. \A u \in DOMAIN templates : \A kk, dd : IsInstance(u, kk, dd) => IsInstance(u, kk, dd)'
        BY <1>2
      <4>2. specs'[s].temp = specs[s].temp /\ k' = k
        BY <2>1 DEF SpecializedKey
      <4>3. IsInstance(specs[s].temp, k, d)
        BY <3>1
      <4> HIDE DEF specs, k
      <4>4. QED
        BY <3>2, <4>1, <4>2, <4>3
    <3>4. QED
      BY <2>1, <2>3, <3>3 DEF InstanceFor
  <2>4. QED
    BY <2>2, <2>3
<1>4. ASSUME NEW t \in DOMAIN templates, NEW key, NEW d, Designated(t, key, d)
      PROVE  Designated(t, key, d)'
  <2>1. d \in Nat /\ (exceeded \/ InstanceFor(t, key, d))
    BY <1>4 DEF Designated
  <2>2. InstanceFor(t, key, d) => InstanceFor(t, key, d)'
    BY <1>3
  <2>3. exceeded => exceeded'
    BY DEF Kept
  <2>4. QED
    BY <2>1, <2>2, <2>3 DEF Designated
<1>5. QED
  BY <1>1, <1>2, <1>4

(* The same but for the instances and the specializations.                 *)
ShapeKept ==
  /\ DOMAIN defs \subseteq DOMAIN defs'
  /\ \A t \in DOMAIN templates :
       /\ t \in DOMAIN templates'
       /\ templates'[t].params = templates[t].params
       /\ templates'[t].defaults = templates[t].defaults
       /\ templates'[t].def = templates[t].def
       /\ templates'[t].of = templates[t].of

LEMMA KeptShape ==
  ASSUME Kept
  PROVE  ShapeKept
BY DEF Kept, ShapeKept

LEMMA ExpressionKept ==
  ASSUME ShapeKept, NEW e, ExpressionSound(e)
  PROVE  ExpressionSound(e)'
<1>1. \A t \in DOMAIN templates : t \in DOMAIN templates' /\ Arity(t)' = Arity(t)
  BY DEF ShapeKept, Arity
<1>2. ExpressionSound(e)' <=>
        /\ DOMAIN e = {"op", "def", "temp"}
        /\ e.op \in {"access", "recursion", "unbounded"} =>
             e.temp \in DOMAIN templates' /\ Arity(e.temp)' = 1
  BY DEF ExpressionSound, Arity
<1>3. QED
  BY <1>1, <1>2 DEF ExpressionSound

LEMMA SpecializationKept ==
  ASSUME ShapeKept, program' = program, NEW t \in DOMAIN templates,
         NEW spec, SpecializationSound(t, spec)
  PROVE  SpecializationSound(t, spec)'
<1>1. \A u \in DOMAIN templates :
        u \in DOMAIN templates' /\ Arity(u)' = Arity(u) /\ templates'[u].of = templates[u].of
  BY DEF ShapeKept, Arity
<1>2. Patterned(Arity(t), spec)'
  BY <1>1 DEF SpecializationSound, Patterned
<1>3. PICK r \in program.patterns :
        /\ Len(r.args) = Arity(t) /\ spec.inds = Positions(r.list, r.args)
        /\ spec.temp \in DOMAIN templates /\ templates[spec.temp].of # 0
        /\ Arity(spec.temp) = Len(r.list)
  BY DEF SpecializationSound
<1>4. /\ spec.temp \in DOMAIN templates' /\ templates'[spec.temp].of # 0
      /\ Arity(spec.temp)' = Len(r.list)
  BY <1>1, <1>3
<1>5. QED
  BY <1>1, <1>2, <1>3, <1>4 DEF SpecializationSound

LEMMA TemplateKept ==
  ASSUME TemplatesSound, Kept, program' = program,
         NEW t \in DOMAIN templates, DOMAIN templates'[t] = TemplateFields,
         InstancesSound(t)'
  PROVE  TemplateSound(t)'
<1>1. TemplateSound(t) /\ ShapeKept
  BY KeptShape DEF TemplatesSound
<1>2. /\ templates'[t].params = templates[t].params
      /\ templates'[t].defaults = templates[t].defaults
      /\ templates'[t].def = templates[t].def
      /\ templates'[t].specializations = templates[t].specializations
      /\ templates'[t].of = templates[t].of
  BY DEF Kept
<1>3. DefaultsSound(Arity(t), templates[t].defaults)'
  BY <1>1, <1>2 DEF TemplateSound, DefaultsSound, Arity
<1>4. ASSUME NEW s \in DOMAIN templates[t].specializations
      PROVE  SpecializationSound(t, templates[t].specializations[s])'
  <2>1. PICK spec : spec = templates[t].specializations[s]
    OBVIOUS
  <2>2. SpecializationSound(t, spec)
    BY <1>1, <2>1 DEF TemplateSound
  <2>3. SpecializationSound(t, spec)'
    BY <1>1, <2>2, SpecializationKept
  <2>4. templates'[t].specializations[s] = spec
    BY <1>2, <2>1
  <2>5. QED
    BY <2>3, <2>4 DEF SpecializationSound, Patterned, Arity
<1>5. DOMAIN defs \subseteq DOMAIN defs'
  BY DEF Kept
<1>6. QED
  BY <1>1, <1>2, <1>3, <1>4, <1>5 DEF TemplateSound

(* A call that a step leaves alone is as sound as before.                  *)
LEMMA FrameKept ==
  ASSUME TemplatesSound, Kept, NEW i \in DOMAIN frames, FrameSound(i),
         frames'[i] = frames[i], Passing(i)' <=> Passing(i),
         Passing(i) => frames'[i + 1].temp = frames[i + 1].temp
                       /\ frames'[i + 1].key = frames[i + 1].key,
         i < Len(frames') => frames[i].at = "remap"
  PROVE  FrameSound(i)'
<1> DEFINE f == frames[i]
<1>1. f.temp \in DOMAIN templates
  BY DEF FrameSound
<1>2. /\ Arity(f.temp)' = Arity(f.temp)
      /\ Fitting(f.temp, f.key)' = Fitting(f.temp, f.key)
      /\ IsInstance(f.temp, f.key, f.def) => IsInstance(f.temp, f.key, f.def)'
      /\ Designated(f.temp, f.key, f.def) => Designated(f.temp, f.key, f.def)'
  <2>1. f' = f
    OBVIOUS
  <2> HIDE DEF f
  <2>2. \A t \in DOMAIN templates :
           /\ Arity(t)' = Arity(t)
           /\ \A key : Fitting(t, key)' = Fitting(t, key)
           /\ \A key, d : IsInstance(t, key, d) => IsInstance(t, key, d)'
           /\ \A key, d : Designated(t, key, d) => Designated(t, key, d)'
    BY KeptIs
  <2>3. QED
    BY <1>1, <2>1, <2>2
<1>3. f.temp \in DOMAIN templates' /\ Argued(Arity(f.temp), f.key)'
  BY SMTT(30), <1>1, <1>2 DEF Kept, FrameSound, Argued
<1>4. Passing(i) => PassedOn(f, frames[i + 1])'
  <2>1. SUFFICES ASSUME Passing(i) PROVE PassedOn(f, frames[i + 1])'
    OBVIOUS
  <2>2. PICK s \in Fitting(f.temp, f.key) :
          LET spec == templates[f.temp].specializations[s] IN
          frames[i + 1].temp = spec.temp /\ frames[i + 1].key = SpecializedKey(spec, f.key)
    BY <2>1 DEF FrameSound, PassedOn
  <2>3. templates'[f.temp].specializations = templates[f.temp].specializations
    BY <1>1 DEF Kept
  <2>4. LET spec == templates'[f.temp].specializations[s] IN
          frames'[i + 1].temp = spec.temp /\ frames'[i + 1].key = SpecializedKey(spec, f.key)
    BY <2>1, <2>2, <2>3
  <2>5. QED
    BY ZenonT(30), <1>2, <2>2, <2>4 DEF PassedOn, SpecializedKey
<1>5. /\ (f.at = "return" => Designated(f.temp, f.key, f.def))
      /\ (f.at = "remap" /\ ~Passing(i) =>
            Fitting(f.temp, f.key) = {} /\ IsInstance(f.temp, f.key, f.def))
      /\ DOMAIN f = FrameFields /\ f.to \in {"use", "specialized", "enumerator"}
      /\ (f.to = "use" <=> i = 1) /\ f.at \in {"enter", "remap", "return"}
  BY DEF FrameSound
<1>6. /\ (f.at = "return" => Designated(f.temp, f.key, f.def)')
      /\ (f.at = "remap" /\ ~Passing(i)' =>
            (Fitting(f.temp, f.key) = {})' /\ IsInstance(f.temp, f.key, f.def)')
  BY <1>2, <1>5
<1>7. /\ f' = f /\ (i < Len(frames') => f.at = "remap")
      /\ Sequence(f.todo) /\ Range(f.todo) \subseteq DOMAIN defs'
  BY DEF FrameSound, Kept
<1> HIDE DEF f
<1>8. FrameSound(i)' <=>
        /\ DOMAIN f' = FrameFields
        /\ f'.temp \in DOMAIN templates' /\ Argued(Arity(f.temp), f.key)'
        /\ Sequence(f'.todo) /\ Range(f'.todo) \subseteq DOMAIN defs'
        /\ f'.to \in {"use", "specialized", "enumerator"} /\ (f'.to = "use" <=> i = 1)
        /\ f'.at \in {"enter", "remap", "return"} /\ (i < Len(frames') => f'.at = "remap")
        /\ f'.at = "return" => Designated(f.temp, f.key, f.def)'
        /\ f'.at = "remap" /\ ~Passing(i)' =>
             (Fitting(f.temp, f.key) = {})' /\ IsInstance(f.temp, f.key, f.def)'
        /\ Passing(i)' => PassedOn(f, frames[i + 1])'
  BY DEF FrameSound, f
<1>9. QED
  BY <1>3, <1>4, <1>5, <1>6, <1>7, <1>8

(* Owning stays a tree when old definitions are given new ones to own, and *)
(* the new ones are ranked among themselves.                               *)
LEMMA Grown ==
  ASSUME Sequence(defs), Sequence(defs'), Owned, Treelike,
         Len(defs) <= Len(defs'), NEW m \in Nat,
         NEW low \in [Len(defs) + 1..Len(defs') -> 0..m],
         \A d \in DOMAIN defs : \A k \in DOMAIN defs'[d].order :
           \/ defs'[d].order[k] \in Range(defs[d].order)
           \/ defs'[d].order[k] \in Len(defs) + 1..Len(defs'),
         \A d \in Len(defs) + 1..Len(defs') : \A k \in DOMAIN defs'[d].order :
           /\ defs'[d].order[k] \in Len(defs) + 1..Len(defs')
           /\ low[defs'[d].order[k]] < low[d]
  PROVE  Treelike'
<1>n. PICK n \in Nat : \E rank \in [DOMAIN defs -> 0..n] : LowerOwned(rank)
  BY DEF Treelike
<1>1. PICK rank \in [DOMAIN defs -> 0..n] : LowerOwned(rank)
  BY <1>n
<1> DEFINE old == DOMAIN defs
           new == Len(defs) + 1..Len(defs')
           all == DOMAIN defs'
           above == [d \in all |-> IF d \in old THEN rank[d] + m + 1 ELSE low[d]]
<1>2. /\ Len(defs) \in Nat /\ old = 1..Len(defs)
      /\ Len(defs') \in Nat /\ all = 1..Len(defs')
  BY SequenceIs
<1>3. all = old \union new /\ \A d \in new : d \notin old
  BY <1>2
<1>4. ASSUME NEW d \in all, NEW k \in DOMAIN defs'[d].order
      PROVE  above[defs'[d].order[k]] < above[d]
  <2> DEFINE c == defs'[d].order[k]
  <2>0. SUFFICES above[c] < above[d]
    OBVIOUS
  <2>1. CASE d \in old /\ c \in Range(defs[d].order)
    <3>1. c \in old /\ rank[c] < rank[d]
      <4>1. PICK j \in DOMAIN defs[d].order : c = defs[d].order[j]
        BY <2>1 DEF Range
      <4>2. defs[d].order \in Seq(old)
        BY <2>1 DEF Owned
      <4>3. QED
        BY <1>1, <2>1, <4>1, <4>2 DEF LowerOwned
    <3>2. above[c] = rank[c] + m + 1 /\ above[d] = rank[d] + m + 1
      BY <1>3, <2>1, <3>1
    <3>3. rank[c] \in Nat /\ rank[d] \in Nat
      BY <2>1, <3>1
    <3> HIDE DEF c, above
    <3>4. QED
      BY <3>1, <3>2, <3>3
  <2>2. CASE d \in old /\ c \in new
    <3>1. above[c] = low[c] /\ above[d] = rank[d] + m + 1
      BY <1>3, <2>2
    <3>2. low[c] \in 0..m /\ rank[d] \in 0..n
      BY <2>2
    <3> HIDE DEF c, above
    <3>3. QED
      BY <3>1, <3>2
  <2>3. CASE d \in new
    <3>1. c \in new /\ low[c] < low[d]
      BY <2>3
    <3>2. above[c] = low[c] /\ above[d] = low[d]
      BY <1>3, <2>3, <3>1
    <3>3. QED
      BY <3>1, <3>2
  <2>4. d \in old => c \in Range(defs[d].order) \/ c \in new
    OBVIOUS
  <2>5. QED
    BY <1>3, <2>1, <2>2, <2>3, <2>4
<1>5. above \in [all -> 0..n + m + 1] /\ n + m + 1 \in Nat
  <2>1. \A d \in old : rank[d] + m + 1 \in 0..n + m + 1
    <3>1. \A r \in 0..n : r + m + 1 \in 0..n + m + 1
      OBVIOUS
    <3>2. QED
      BY <3>1
  <2>2. \A d \in new : low[d] \in 0..n + m + 1
    <3>1. \A r \in 0..m : r \in 0..n + m + 1
      OBVIOUS
    <3>2. QED
      BY <3>1
  <2> HIDE DEF old, new
  <2>3. QED
    BY <1>3, <2>1, <2>2
<1>6. \E r \in [all -> 0..n + m + 1] :
        \A d \in all : \A k \in DOMAIN defs'[d].order : r[defs'[d].order[k]] < r[d]
  <2> HIDE DEF above, all
  <2>1. \A d \in all : \A k \in DOMAIN defs'[d].order : above[defs'[d].order[k]] < above[d]
    BY <1>4
  <2>2. QED
    BY <1>5, <2>1
<1>7. QED
  BY <1>5, <1>6 DEF Treelike, LowerOwned

(* The lowest call stays that of the use.                                  *)
LEMMA UseKept ==
  ASSUME TemplatesSound, Kept, FramesSound, UseSound, uses' = uses, result' = result,
         frames' # << >> => /\ frames # << >>
                            /\ frames'[1].temp = frames[1].temp
                            /\ frames'[1].key = frames[1].key
  PROVE  UseSound'
<1>1. frames' # << >> =>
        /\ uses' # 0 /\ result'.temp = 0
        /\ frames'[1].key = GivenKey(frames[1].temp, result.args)'
        /\ Given(frames[1].temp, result.args)'
  <2>1. SUFFICES ASSUME frames' # << >>
                 PROVE  /\ uses' # 0 /\ result'.temp = 0
                        /\ frames'[1].key = GivenKey(frames[1].temp, result.args)'
                        /\ Given(frames[1].temp, result.args)'
    OBVIOUS
  <2> DEFINE t == frames[1].temp
             args == result.args
  <2>2. 1 \in DOMAIN frames
    BY <2>1, SequenceIs DEF FramesSound
  <2>3. t \in DOMAIN templates /\ Given(t, args) /\ t' = t /\ args' = args
    BY <2>1, <2>2 DEF FramesSound, FrameSound, UseSound
  <2>4. \A u \in DOMAIN templates :
          /\ \A as : Given(u, as) => Given(u, as)'
          /\ \A as : GivenKey(u, as)' = GivenKey(u, as)
    BY KeptIs
  <2>5. frames'[1].key = GivenKey(t, args)
    BY <2>1 DEF UseSound
  <2> HIDE DEF t, args
  <2>6. GivenKey(t, args)' = GivenKey(t, args) /\ Given(t, args)'
    BY <2>3, <2>4
  <2>7. uses' # 0 /\ result'.temp = 0
    BY <2>1 DEF UseSound
  <2>8. QED
    BY <2>5, <2>6, <2>7 DEF t, args
<1>2. result.temp # 0 =>
        /\ result.temp \in DOMAIN templates' /\ Given(result.temp, result.args)'
        /\ Designated(result.temp, GivenKey(result.temp, result.args), result.def)'
  <2>1. SUFFICES ASSUME result.temp # 0
                 PROVE  /\ result.temp \in DOMAIN templates' /\ Given(result.temp, result.args)'
                        /\ Designated(result.temp, GivenKey(result.temp, result.args),
                                      result.def)'
    OBVIOUS
  <2> DEFINE t == result.temp
             args == result.args
             d == result.def
             key == GivenKey(t, args)
  <2>2. /\ t \in DOMAIN templates /\ Given(t, args) /\ Designated(t, key, d)
        /\ t' = t /\ args' = args /\ d' = d
    BY <2>1 DEF UseSound
  <2>3. \A u \in DOMAIN templates :
          /\ \A as : Given(u, as) => Given(u, as)'
          /\ \A as : GivenKey(u, as)' = GivenKey(u, as)
          /\ \A k, x : Designated(u, k, x) => Designated(u, k, x)'
    BY KeptIs
  <2>4. key' = key
    <3> HIDE DEF t, args
    <3>1. QED
      BY <2>2, <2>3
  <2> HIDE DEF key, t, args, d
  <2>5. t \in DOMAIN templates' /\ Given(t, args)' /\ Designated(t, key, d)'
    BY <2>2, <2>3, <2>4 DEF Kept
  <2>6. QED
    BY <2>2, <2>5 DEF key, t, args, d
<1>3. QED
  BY <1>1, <1>2 DEF UseSound

(* No call is made and none returns.                                       *)
LEMMA CallsKept ==
  ASSUME TemplatesSound, Kept, FramesSound, UseSound,
         frames' = frames, uses' = uses, result' = result
  PROVE  FramesSound' /\ UseSound'
<1>1. \A i \in DOMAIN frames : FrameSound(i)'
  <2>1. TAKE i \in DOMAIN frames
  <2>2. FrameSound(i) /\ (i < Len(frames) => frames[i].at = "remap")
    BY DEF FramesSound, FrameSound
  <2>3. Passing(i)' <=> Passing(i)
    BY DEF Passing
  <2>4. QED
    BY <2>2, <2>3, FrameKept
<1>2. FramesSound'
  BY <1>1 DEF FramesSound
<1>3. QED
  BY <1>2, UseKept

(* The calls below one of them stay, and that one stays the same call,      *)
(* whether or not it calls.                                                *)
LEMMA CallsAbove ==
  ASSUME TemplatesSound, Kept, FramesSound, UseSound, uses' = uses, result' = result,
         frames # << >>, Sequence(frames'), NEW n \in 1..Len(frames), n <= Len(frames'),
         \A i \in 1..n - 1 : frames'[i] = frames[i],
         frames'[n].temp = frames[n].temp,
         frames'[n].key = frames[n].key,
         frames'[n].to = frames[n].to,
         \A i \in n..Len(frames') : FrameSound(i)'
  PROVE  FramesSound' /\ UseSound'
<1> DEFINE m == Len(frames')
<1>1. /\ n \in Nat /\ n # 0 /\ DOMAIN frames = 1..Len(frames)
      /\ m \in Nat /\ n <= m /\ DOMAIN frames' = 1..m
      /\ Len(frames) \in Nat /\ n <= Len(frames)
  BY SequenceIs DEF FramesSound
<1>2. ASSUME NEW i \in 1..n - 1
      PROVE  FrameSound(i)'
  <2>1. /\ i \in DOMAIN frames /\ i < Len(frames) /\ i < m /\ i + 1 \in 1..n
        /\ (i + 1 = n \/ i + 1 \in 1..n - 1)
    <3> HIDE DEF m
    <3>1. QED
      BY <1>1
  <2>2. FrameSound(i) /\ frames[i].at = "remap"
    BY <2>1 DEF FramesSound, FrameSound
  <2>3. /\ frames'[i + 1].temp = frames[i + 1].temp
        /\ frames'[i + 1].key = frames[i + 1].key
        /\ frames'[i + 1].to = frames[i + 1].to
    BY <2>1
  <2>4. Passing(i)' <=> Passing(i)
    BY <2>1, <2>3 DEF Passing
  <2>5. frames'[i] = frames[i]
    OBVIOUS
  <2>6. QED
    BY <2>1, <2>2, <2>3, <2>4, <2>5, FrameKept
<1>3. \A i \in 1..m : i \in 1..n - 1 \/ i \in n..m
  BY <1>1
<1>4. FramesSound'
  BY <1>1, <1>2, <1>3 DEF FramesSound
<1>5. frames'[1].temp = frames[1].temp /\ frames'[1].key = frames[1].key
  <2>1. n = 1 \/ 1 \in 1..n - 1
    BY <1>1
  <2>2. QED
    BY <2>1
<1>6. QED
  BY <1>4, <1>5, UseKept

LEMMA UnchangedKept ==
  ASSUME UNCHANGED <<templates, exceeded>>, DOMAIN defs \subseteq DOMAIN defs'
  PROVE  Kept
BY DEF Kept

LEMMA TemplatesUnchanged ==
  ASSUME TemplatesSound, UNCHANGED <<templates, program, exceeded>>, DOMAIN defs \subseteq DOMAIN defs'
  PROVE  TemplatesSound'
<1>1. Kept
  BY UnchangedKept
<1>2. ASSUME NEW t \in DOMAIN templates
      PROVE  TemplateSound(t)'
  <2>1. InstancesSound(t)' /\ DOMAIN templates'[t] = TemplateFields
    BY DEF TemplatesSound, TemplateSound, InstancesSound, Instances
  <2>2. QED
    BY <1>1, <2>1, TemplateKept
<1>3. QED
  BY <1>2 DEF TemplatesSound

(* One definition is changed, but not what it owns.                        *)
LEMMA OneChanged ==
  ASSUME DefsSound, TemplatesSound, Kept, NEW x, NEW r, defs' = [defs EXCEPT ![x] = r],
         x \in DOMAIN defs =>
           /\ DOMAIN r = DefinitionFields /\ r.order = defs[x].order
           /\ ExpressionSound(r.expr)
  PROVE  DefsSound' /\ DOMAIN defs' = DOMAIN defs
<1>1. /\ Sequence(defs') /\ DOMAIN defs' = DOMAIN defs
      /\ \A d \in DOMAIN defs : defs'[d] = IF d = x THEN r ELSE defs[d]
  BY Updated DEF DefsSound
<1>2. \A d \in DOMAIN defs : defs'[d].order = defs[d].order
  BY <1>1
<1>3. Owned'
  BY <1>1, <1>2 DEF Owned, DefsSound
<1>4. Treelike'
  BY <1>1, <1>2 DEF Treelike, LowerOwned, DefsSound
<1>5. ASSUME NEW d \in DOMAIN defs
      PROVE  DOMAIN defs'[d] = DefinitionFields /\ ExpressionSound(defs[d].expr)'
  <2>1. DOMAIN defs'[d] = DefinitionFields /\ ExpressionSound(defs'[d].expr)
    BY <1>1 DEF DefsSound
  <2> DEFINE e == defs'[d].expr
  <2>2. ExpressionSound(e)
    BY <2>1
  <2>3. \A t \in DOMAIN templates : t \in DOMAIN templates' /\ Arity(t)' = Arity(t)
    BY DEF Kept, Arity
  <2>4. ExpressionSound(defs[d].expr)' <=>
          /\ DOMAIN e = {"op", "def", "temp"}
          /\ e.op \in {"access", "recursion", "unbounded"} =>
               e.temp \in DOMAIN templates' /\ Len(templates'[e.temp].params) = 1
    BY DEF ExpressionSound, Arity
  <2>5. \A t \in DOMAIN templates : templates'[t].params = templates[t].params
    BY DEF Kept
  <2>6. ExpressionSound(e) <=>
          /\ DOMAIN e = {"op", "def", "temp"}
          /\ e.op \in {"access", "recursion", "unbounded"} =>
               e.temp \in DOMAIN templates /\ Len(templates[e.temp].params) = 1
    BY DEF ExpressionSound, Arity
  <2> HIDE DEF e
  <2>7. QED
    BY <2>1, <2>2, <2>3, <2>4, <2>5, <2>6
<1>6. QED
  BY <1>1, <1>3, <1>4, <1>5 DEF DefsSound

-----------------------------------------------------------------------------
(* The steps of instantiate.  First what the call that runs is.            *)
LEMMA TopIs ==
  ASSUME FramesSound, frames # << >>
  PROVE  /\ Len(frames) \in Nat \ {0} /\ Len(frames) \in DOMAIN frames
         /\ frame = frames[Len(frames)] /\ FrameSound(Len(frames)) /\ ~Passing(Len(frames))
         /\ DOMAIN frame = FrameFields /\ frame.temp \in DOMAIN templates
         /\ Sequence(frame.todo) /\ Range(frame.todo) \subseteq DOMAIN defs
         /\ Argued(Arity(frame.temp), frame.key)
         /\ Sequence(Caller) /\ Len(Caller) = Len(frames) - 1
         /\ \A i \in 1..Len(frames) - 1 : Caller[i] = frames[i]
<1>1. Sequence(frames)
  BY DEF FramesSound
<1>2. /\ Len(frames) \in Nat \ {0} /\ frame = frames[Len(frames)]
      /\ Sequence(Caller) /\ Len(Caller) = Len(frames) - 1
      /\ \A i \in 1..Len(frames) - 1 : Caller[i] = frames[i]
  BY <1>1, FrontOf DEF frame, Caller
<1>3. DOMAIN frames = 1..Len(frames)
  BY <1>1, SequenceIs
<1>4. Len(frames) \in DOMAIN frames /\ ~(Len(frames) < Len(frames))
  BY <1>2, <1>3
<1>5. FrameSound(Len(frames))
  BY <1>4 DEF FramesSound
<1>6. QED
  BY <1>2, <1>4, <1>5 DEF FrameSound, Passing

(* The call goes on.                                                       *)
LEMMA TopChanged ==
  ASSUME TemplatesSound, Kept, FramesSound, UseSound, uses' = uses, result' = result,
         frames # << >>, NEW f, frames' = Append(Caller, f),
         DOMAIN f = FrameFields, f.temp = frame.temp, f.key = frame.key, f.to = frame.to,
         Sequence(f.todo), Range(f.todo) \subseteq DOMAIN defs',
         f.at \in {"remap", "return"},
         f.at = "return" => Designated(f.temp, f.key, f.def)',
         f.at = "remap" => /\ Fitting(f.temp, f.key)' = {}
                           /\ IsInstance(f.temp, f.key, f.def)'
  PROVE  FramesSound' /\ UseSound'
<1> DEFINE n == Len(frames)
<1>1. /\ n \in Nat \ {0} /\ frame = frames[n] /\ FrameSound(n)
      /\ Sequence(Caller) /\ Len(Caller) = n - 1
      /\ \A i \in 1..n - 1 : Caller[i] = frames[i]
  BY TopIs
<1>2. /\ Sequence(frames') /\ Len(frames') = n - 1 + 1
      /\ \A i \in 1..n - 1 : frames'[i] = Caller[i]
      /\ frames'[n - 1 + 1] = f
  BY <1>1, Appended
<1>3. n - 1 + 1 = n /\ n..n = {n} /\ ~(n < n)
  BY <1>1
<1>4. f.temp \in DOMAIN templates' /\ Argued(Arity(f.temp), f.key)'
  <2>1. f.temp \in DOMAIN templates /\ Argued(Arity(f.temp), f.key)
    BY <1>1 DEF FrameSound
  <2>2. f.temp \in DOMAIN templates' /\ templates'[f.temp].params = templates[f.temp].params
    BY <2>1 DEF Kept
  <2>3. QED
    BY <2>1, <2>2 DEF Argued, Arity
<1>5. FrameSound(n)'
  <2>1. frames'[n] = f /\ Len(frames') = n
    BY <1>2, <1>3
  <2>2. frame.to \in {"use", "specialized", "enumerator"} /\ (frame.to = "use" <=> n = 1)
    BY <1>1 DEF FrameSound
  <2>3. n' = n
    BY <2>1
  <2>4. ~Passing(n)'
    BY <1>3, <2>1, <2>3 DEF Passing
  <2> HIDE DEF n
  <2>5. FrameSound(n)' <=>
        /\ DOMAIN f = FrameFields
        /\ f.temp \in DOMAIN templates' /\ Argued(Arity(f.temp), f.key)'
        /\ Sequence(f.todo) /\ Range(f.todo) \subseteq DOMAIN defs'
        /\ f.to \in {"use", "specialized", "enumerator"} /\ (f.to = "use" <=> n = 1)
        /\ f.at \in {"enter", "remap", "return"} /\ (n < Len(frames') => f.at = "remap")
        /\ f.at = "return" => Designated(f.temp, f.key, f.def)'
        /\ f.at = "remap" /\ ~Passing(n)' =>
             Fitting(f.temp, f.key)' = {} /\ IsInstance(f.temp, f.key, f.def)'
        /\ Passing(n)' => PassedOn(f, frames[n + 1])'
    <3>1. f = frames'[n'] /\ f' = f
      BY <2>1, <2>3
    <3>2. QED
      BY <2>3, <3>1 DEF FrameSound
  <2>6. QED
    BY <1>3, <1>4, <2>1, <2>2, <2>4, <2>5
<1>6. \A i \in n..Len(frames') : FrameSound(i)'
  BY <1>2, <1>3, <1>5
<1>7. frames'[n] = f /\ n <= Len(frames') /\ n \in 1..Len(frames)
  BY <1>1, <1>2, <1>3
<1>8. QED
  BY <1>1, <1>2, <1>6, <1>7, CallsAbove

LEMMA ReturnedIs ==
  ASSUME NEW g, DOMAIN g = FrameFields, NEW d
  PROVE  LET f == [g EXCEPT !.at = "return", !.def = d] IN
         /\ DOMAIN f = FrameFields /\ f.temp = g.temp /\ f.key = g.key /\ f.to = g.to
         /\ f.at = "return" /\ f.def = d /\ f.todo = g.todo
BY DEF FrameFields

LEMMA TodoIs ==
  ASSUME NEW g, DOMAIN g = FrameFields, NEW todo
  PROVE  LET f == [g EXCEPT !.todo = todo] IN
         /\ DOMAIN f = FrameFields /\ f.temp = g.temp /\ f.key = g.key /\ f.to = g.to
         /\ f.at = g.at /\ f.def = g.def /\ f.todo = todo
BY DEF FrameFields

(* A call that returns what is designated.                                 *)
LEMMA Returns ==
  ASSUME TemplatesSound, Kept, FramesSound, UseSound, uses' = uses, result' = result,
         frames # << >>, NEW d, frames' = Returning(d),
         Designated(frame.temp, frame.key, d)
  PROVE  FramesSound' /\ UseSound'
<1>1. PICK f : f = [frame EXCEPT !.at = "return", !.def = d]
  OBVIOUS
<1>2. /\ DOMAIN frame = FrameFields /\ frame.temp \in DOMAIN templates
      /\ Sequence(frame.todo) /\ Range(frame.todo) \subseteq DOMAIN defs'
  BY TopIs DEF Kept
<1>3. /\ DOMAIN f = FrameFields /\ f.temp = frame.temp /\ f.key = frame.key
      /\ f.to = frame.to /\ f.at = "return" /\ f.def = d /\ f.todo = frame.todo
  BY <1>1, <1>2, ReturnedIs
<1>4. frames' = Append(Caller, f)
  BY <1>1 DEF Returning
<1>5. Designated(f.temp, f.key, f.def)'
  <2>1. \A t \in DOMAIN templates : \A key, x : Designated(t, key, x) => Designated(t, key, x)'
    BY KeptIs
  <2>2. f.temp \in DOMAIN templates /\ Designated(f.temp, f.key, f.def)
    BY <1>2, <1>3
  <2>3. QED
    BY <2>1, <2>2
<1>6. QED
  BY <1>2, <1>3, <1>4, <1>5, TopChanged

LEMMA ChosenIs ==
  ASSUME program \in Programs, TemplatesSound, FramesSound, frames # << >>
  PROVE  /\ Chosen = 0 => Fitting(frame.temp, frame.key) = {}
         /\ Chosen # 0 => Chosen \in Fitting(frame.temp, frame.key)
<1>1. frame.temp \in DOMAIN templates /\ Argued(Arity(frame.temp), frame.key)
  BY TopIs
<1>2. \A t \in DOMAIN templates :
        /\ Sequence(templates[t].specializations)
        /\ \A s \in DOMAIN templates[t].specializations :
             Patterned(Arity(t), templates[t].specializations[s])
  BY DEF TemplatesSound, TemplateSound, SpecializationSound
<1>3. QED
  BY <1>1, <1>2, SpecializationIs DEF Chosen

LEMMA ReuseSound ==
  ASSUME Sound, Reuse
  PROVE  Sound'
<1>1. /\ frames # << >> /\ Chosen = 0 /\ Existing # {}
      /\ frames' = Returning(Instances(frame.temp)[Min(Existing)].def)
      /\ UNCHANGED <<program, defs, templates, open, uses, result, exceeded>>
  BY DEF Reuse, Entering
<1> DEFINE t == frame.temp
           key == frame.key
           d == Instances(t)[Min(Existing)].def
<1>2. t \in DOMAIN templates
  BY <1>1, TopIs DEF Sound
<1>3. Fitting(t, key) = {}
  BY <1>1, ChosenIs DEF Sound
<1>4. Min(Existing) \in Existing
  <2>1. DOMAIN Instances(t) \subseteq Nat
    <3>1. Sequence(Instances(t))
      BY <1>2 DEF Sound, TemplatesSound, TemplateSound, InstancesSound
    <3>2. QED
      BY <3>1, SequenceIs
  <2>2. Existing \subseteq Nat
    BY <2>1 DEF Existing
  <2>3. QED
    BY <1>1, <2>2, MinIs
<1>5. IsInstance(t, key, d)
  BY <1>4 DEF Existing, IsInstance
<1>6. Designated(t, key, d)
  <2>1. \A u \in DOMAIN templates : \A k, x : IsInstance(u, k, x) => x \in Nat
    BY DEF Sound, TemplatesSound, TemplateSound, InstancesSound, IsInstance
  <2>2. d \in Nat
    BY <1>2, <1>5, <2>1
  <2>3. QED
    BY <1>3, <1>5, <2>2 DEF Designated, InstanceFor
<1>7. Kept
  BY <1>1, UnchangedKept
<1>8. FramesSound' /\ UseSound'
  <2>1. PICK x : x = d
    OBVIOUS
  <2>2. Designated(frame.temp, frame.key, x) /\ frames' = Returning(x)
    BY <1>1, <1>6, <2>1
  <2>3. QED
    BY <1>1, <1>7, <2>2, Returns DEF Sound
<1>9. TemplatesSound' /\ DefsSound' /\ OpenSound' /\ program' \in Programs
  <2>1. TemplatesSound'
    BY <1>1, TemplatesUnchanged DEF Sound
  <2>2. DefsSound'
    BY <1>1 DEF Sound, DefsSound, Sequence, Range, Owned, Treelike, LowerOwned, ExpressionSound, Arity
  <2>3. QED
    BY <1>1, <2>1, <2>2 DEF Sound, OpenSound
<1>10. QED
  BY <1>8, <1>9 DEF Sound

(* The limit of nesting is met.                                            *)
LEMMA BailSound ==
  ASSUME Sound, Bail
  PROVE  Sound'
<1>1. /\ frames # << >> /\ frames' = Returning(0) /\ exceeded'
      /\ UNCHANGED <<program, defs, templates, open, uses, result>>
  BY DEF Bail, Entering
<1>2. Kept
  BY <1>1 DEF Kept
<1>3. FramesSound' /\ UseSound'
  <2>1. PICK f : f = [frame EXCEPT !.at = "return", !.def = 0]
    OBVIOUS
  <2>2. /\ DOMAIN frame = FrameFields
        /\ Sequence(frame.todo) /\ Range(frame.todo) \subseteq DOMAIN defs'
    BY <1>1, TopIs DEF Sound
  <2>3. /\ DOMAIN f = FrameFields /\ f.temp = frame.temp /\ f.key = frame.key
        /\ f.to = frame.to /\ f.at = "return" /\ f.def = 0 /\ f.todo = frame.todo
    BY <2>1, <2>2, ReturnedIs
  <2>4. frames' = Append(Caller, f)
    BY <1>1, <2>1 DEF Returning
  <2>5. Designated(f.temp, f.key, f.def)'
    BY <1>1, <2>3 DEF Designated
  <2>6. QED
    BY <1>1, <1>2, <2>2, <2>3, <2>4, <2>5, TopChanged DEF Sound
<1>4. TemplatesSound' /\ DefsSound' /\ OpenSound' /\ program' \in Programs
  <2>1. TemplatesSound'
    <3>1. ASSUME NEW t \in DOMAIN templates
          PROVE  TemplateSound(t)'
      <4>1. InstancesSound(t)' /\ DOMAIN templates'[t] = TemplateFields
        BY <1>1 DEF Sound, TemplatesSound, TemplateSound, InstancesSound, Instances
      <4>2. QED
        BY <1>1, <1>2, <4>1, TemplateKept DEF Sound
    <3>2. QED
      BY <1>1, <3>1 DEF Sound, TemplatesSound
  <2>2. DefsSound'
    BY <1>1 DEF Sound, DefsSound, Sequence, Range, Owned, Treelike, LowerOwned, ExpressionSound, Arity
  <2>3. QED
    BY <1>1, <2>1, <2>2 DEF Sound, OpenSound
<1>5. QED
  BY <1>3, <1>4 DEF Sound

LEMMA FinishSound ==
  ASSUME Sound, Finish
  PROVE  Sound'
<1>1. /\ frames # << >> /\ frame.at = "remap" /\ frames' = Returning(frame.def)
      /\ UNCHANGED <<program, defs, templates, open, uses, result, exceeded>>
  BY DEF Finish
<1>2. Fitting(frame.temp, frame.key) = {} /\ IsInstance(frame.temp, frame.key, frame.def)
  <2>1. FrameSound(Len(frames)) /\ ~Passing(Len(frames)) /\ frame = frames[Len(frames)]
    BY <1>1, TopIs DEF Sound
  <2>2. QED
    BY <1>1, <2>1 DEF FrameSound
<1>3. Designated(frame.temp, frame.key, frame.def)
  <2>1. \A u \in DOMAIN templates : \A k, x : IsInstance(u, k, x) => x \in Nat
    BY DEF Sound, TemplatesSound, TemplateSound, InstancesSound, IsInstance
  <2>2. frame.temp \in DOMAIN templates
    BY <1>1, TopIs DEF Sound
  <2>3. frame.def \in Nat
    BY <1>2, <2>1, <2>2
  <2>4. QED
    BY <1>2, <2>3 DEF Designated, InstanceFor
<1>4. Kept
  BY <1>1, UnchangedKept
<1>5. FramesSound' /\ UseSound'
  <2>1. PICK x : x = frame.def
    OBVIOUS
  <2>2. Designated(frame.temp, frame.key, x) /\ frames' = Returning(x)
    BY <1>1, <1>3, <2>1
  <2>3. QED
    BY <1>1, <1>4, <2>2, Returns DEF Sound
<1>6. TemplatesSound' /\ DefsSound' /\ OpenSound' /\ program' \in Programs
  <2>1. TemplatesSound'
    BY <1>1, TemplatesUnchanged DEF Sound
  <2>2. DefsSound'
    BY <1>1 DEF Sound, DefsSound, Sequence, Range, Owned, Treelike, LowerOwned, ExpressionSound, Arity
  <2>3. QED
    BY <1>1, <2>1, <2>2 DEF Sound, OpenSound
<1>7. QED
  BY <1>5, <1>6 DEF Sound

LEMMA RemappedIs ==
  ASSUME NEW g, DOMAIN g = DefinitionFields
  PROVE  /\ DOMAIN Remapped(g) = DefinitionFields
         /\ Remapped(g).order = g.order /\ Remapped(g).expr = g.expr
<1>1. CASE g.kind = "typed"
  <2>1. Remapped(g) = [g EXCEPT !.type = filter(g.type), !.parent = filter(g.parent)]
    BY <1>1 DEF Remapped
  <2>2. QED
    BY <2>1 DEF DefinitionFields
<1>2. CASE g.kind = "class"
  <2> DEFINE general == [x \in DOMAIN g.general |-> filter(g.general[x])]
  <2>1. Remapped(g) = [g EXCEPT !.parent = filter(g.parent), !.base = RemappedBase(g.base),
                                !.general = general]
    BY <1>2 DEF Remapped, DefinitionFields
  <2> HIDE DEF general
  <2>2. QED
    BY <2>1 DEF DefinitionFields
<1>3. CASE g.kind # "typed" /\ g.kind # "class"
  <2>1. Remapped(g) = g
    BY <1>3 DEF Remapped
  <2>2. QED
    BY <2>1
<1>4. QED
  BY <1>1, <1>2, <1>3

(* The call takes the next definition that it has to remap.                *)
LEMMA Proceeds ==
  ASSUME TemplatesSound, Kept, FramesSound, UseSound, uses' = uses, result' = result,
         Remapping, frames' = Done
  PROVE  FramesSound' /\ UseSound'
<1>1. PICK f : f = [frame EXCEPT !.todo = Tail(frame.todo)]
  OBVIOUS
<1>2. /\ frames # << >> /\ frame.at = "remap" /\ frame.todo # << >>
  BY DEF Remapping
<1>3. /\ DOMAIN frame = FrameFields /\ frame.temp \in DOMAIN templates
      /\ Sequence(frame.todo) /\ Range(frame.todo) \subseteq DOMAIN defs'
      /\ Fitting(frame.temp, frame.key) = {} /\ IsInstance(frame.temp, frame.key, frame.def)
  <2>1. /\ DOMAIN frame = FrameFields /\ frame.temp \in DOMAIN templates
        /\ Sequence(frame.todo) /\ Range(frame.todo) \subseteq DOMAIN defs
        /\ FrameSound(Len(frames)) /\ ~Passing(Len(frames)) /\ frame = frames[Len(frames)]
    BY <1>2, TopIs
  <2>2. QED
    BY <1>2, <2>1 DEF FrameSound, Kept
<1>4. /\ DOMAIN f = FrameFields /\ f.temp = frame.temp /\ f.key = frame.key
      /\ f.to = frame.to /\ f.at = frame.at /\ f.def = frame.def
      /\ f.todo = Tail(frame.todo)
  BY <1>1, <1>3, TodoIs
<1>5. Sequence(f.todo) /\ Range(f.todo) \subseteq DOMAIN defs'
  BY <1>2, <1>3, <1>4, TailIs
<1>6. frames' = Append(Caller, f)
  BY <1>1 DEF Done
<1>7. Fitting(f.temp, f.key)' = {} /\ IsInstance(f.temp, f.key, f.def)'
  <2>1. \A t \in DOMAIN templates :
          /\ \A key : Fitting(t, key)' = Fitting(t, key)
          /\ \A key, x : IsInstance(t, key, x) => IsInstance(t, key, x)'
    BY KeptIs
  <2>2. /\ f.temp \in DOMAIN templates /\ IsInstance(f.temp, f.key, f.def)
        /\ Fitting(f.temp, f.key) = {}
    BY <1>3, <1>4
  <2>3. QED
    BY <2>1, <2>2
<1>8. f.at = "remap"
  BY <1>2, <1>4
<1>9. QED
  BY <1>2, <1>4, <1>5, <1>6, <1>7, <1>8, TopChanged

LEMMA RemapSound ==
  ASSUME Sound, Remap
  PROVE  Sound'
<1>1. /\ Remapping /\ defs' = [defs EXCEPT ![next] = Remapped(defs[next])]
      /\ frames' = Done /\ UNCHANGED <<program, templates, open, uses, result, exceeded>>
  BY DEF Remap
<1>2. next \in DOMAIN defs => DOMAIN defs[next] = DefinitionFields
                               /\ ExpressionSound(defs[next].expr)
  BY DEF Sound, DefsSound
<1>3. next \in DOMAIN defs =>
        /\ DOMAIN Remapped(defs[next]) = DefinitionFields
        /\ Remapped(defs[next]).order = defs[next].order
        /\ Remapped(defs[next]).expr = defs[next].expr
  BY <1>2, RemappedIs
<1>4. DOMAIN defs' = DOMAIN defs
  BY <1>1
<1>5. Kept
  BY <1>1, <1>4, UnchangedKept
<1>6. DefsSound'
  <2>1. PICK x, r : x = next /\ r = Remapped(defs[next])
    OBVIOUS
  <2>2. /\ defs' = [defs EXCEPT ![x] = r]
        /\ x \in DOMAIN defs => /\ DOMAIN r = DefinitionFields /\ r.order = defs[x].order
                                /\ ExpressionSound(r.expr)
    BY <1>1, <1>2, <1>3, <2>1
  <2>3. QED
    BY <1>5, <2>2, OneChanged DEF Sound
<1>7. FramesSound' /\ UseSound'
  BY <1>1, <1>5, Proceeds DEF Sound
<1>8. TemplatesSound'
  BY <1>1, <1>4, TemplatesUnchanged DEF Sound
<1>9. QED
  BY <1>1, <1>6, <1>7, <1>8 DEF Sound, OpenSound

LEMMA FrameIs ==
  ASSUME NEW t, NEW key, NEW to, NEW of
  PROVE  LET f == Frame(t, key, to, of) IN
         /\ DOMAIN f = FrameFields /\ f.temp = t /\ f.key = key /\ f.to = to /\ f.of = of
         /\ f.at = "enter" /\ Sequence(f.todo) /\ Range(f.todo) = {}
<1>1. Sequence(<< >>) /\ Range(<< >>) = {}
  BY DEF Sequence, Range
<1>2. QED
  BY <1>1 DEF Frame, FrameFields

(* The call that runs makes another.                                       *)
LEMMA CallMade ==
  ASSUME TemplatesSound, Kept, FramesSound, UseSound, uses' = uses, result' = result,
         frames # << >>, NEW f, NEW g,
         Sequence(frames'), Len(frames') = Len(frames) + 1,
         \A i \in 1..Len(frames) - 1 : frames'[i] = frames[i],
         frames'[Len(frames)] = f, frames'[Len(frames) + 1] = g,
         DOMAIN f = FrameFields, f.temp = frame.temp, f.key = frame.key, f.to = frame.to,
         f.at = "remap", Sequence(f.todo), Range(f.todo) \subseteq DOMAIN defs',
         DOMAIN g = FrameFields, g.at = "enter", Sequence(g.todo), Range(g.todo) = {},
         g.temp \in DOMAIN templates, Argued(Arity(g.temp), g.key),
         g.to \in {"specialized", "enumerator"},
         g.to = "specialized" => PassedOn(f, g),
         g.to = "enumerator" => Fitting(f.temp, f.key) = {} /\ IsInstance(f.temp, f.key, f.def)
  PROVE  FramesSound' /\ UseSound'
<1>0. PICK n : n = Len(frames)
  OBVIOUS
<1>1. n \in Nat \ {0} /\ frame = frames[n] /\ FrameSound(n) /\ frame.temp \in DOMAIN templates
  BY <1>0, TopIs
<1>2. /\ n < Len(frames') /\ ~(n + 1 < Len(frames')) /\ n + 1 # 1 /\ n <= Len(frames')
      /\ \A i \in n..Len(frames') : i = n \/ i = n + 1
  BY <1>0, <1>1
<1>3. \A t \in DOMAIN templates :
        /\ t \in DOMAIN templates' /\ Arity(t)' = Arity(t)
        /\ \A key : Fitting(t, key)' = Fitting(t, key)
        /\ \A key, x : IsInstance(t, key, x) => IsInstance(t, key, x)'
        /\ templates'[t].specializations = templates[t].specializations
  BY KeptIs DEF Kept
<1>4. f' = f /\ g' = g
  OBVIOUS
<1>5. Argued(Arity(f.temp), f.key)' /\ Argued(Arity(g.temp), g.key)'
  <2>1. Argued(Arity(f.temp), f.key)
    BY <1>1 DEF FrameSound
  <2>2. Arity(f.temp)' = Arity(f.temp) /\ Arity(g.temp)' = Arity(g.temp)
    BY <1>1, <1>3
  <2>3. QED
    BY <2>1, <2>2 DEF Argued
<1>6. FrameSound(n)'
  <2>1. frames'[n] = f /\ frames'[n + 1] = g
    BY <1>0
  <2>2. frame.to \in {"use", "specialized", "enumerator"} /\ (frame.to = "use" <=> n = 1)
    BY <1>1 DEF FrameSound
  <2> DEFINE through == n < Len(frames') /\ frames'[n + 1].to = "specialized"
             sound == /\ DOMAIN f = FrameFields
                      /\ f.temp \in DOMAIN templates' /\ Argued(Arity(f.temp), f.key)'
                      /\ Sequence(f.todo) /\ Range(f.todo) \subseteq DOMAIN defs'
                      /\ f.to \in {"use", "specialized", "enumerator"}
                      /\ (f.to = "use" <=> n = 1)
                      /\ f.at \in {"enter", "remap", "return"}
                      /\ (n < Len(frames') => f.at = "remap")
                      /\ f.at = "return" => Designated(f.temp, f.key, f.def)'
                      /\ f.at = "remap" /\ ~through =>
                           Fitting(f.temp, f.key)' = {} /\ IsInstance(f.temp, f.key, f.def)'
                      /\ through => PassedOn(f, g)'
  <2>3. through <=> g.to = "specialized"
    BY <1>2, <2>1
  <2>4. g.to = "enumerator" =>
          Fitting(f.temp, f.key)' = {} /\ IsInstance(f.temp, f.key, f.def)'
    <3>1. SUFFICES ASSUME g.to = "enumerator"
                   PROVE  Fitting(f.temp, f.key)' = {} /\ IsInstance(f.temp, f.key, f.def)'
      OBVIOUS
    <3>2. f.temp \in DOMAIN templates
      BY Zenon, <1>1
    <3>3. QED
      BY <1>3, <3>1, <3>2
  <2>5. g.to = "specialized" => PassedOn(f, g)'
    <3>1. SUFFICES ASSUME g.to = "specialized" PROVE PassedOn(f, g)'
      OBVIOUS
    <3>2. /\ Fitting(f.temp, f.key)' = Fitting(f.temp, f.key)
          /\ templates'[f.temp].specializations = templates[f.temp].specializations
      BY <1>1, <1>3
    <3>3. PICK s \in Fitting(f.temp, f.key) :
            LET spec == templates[f.temp].specializations[s] IN
            g.temp = spec.temp /\ g.key = SpecializedKey(spec, f.key)
      BY <3>1 DEF PassedOn
    <3>4. LET spec == templates'[f.temp].specializations[s] IN
          g.temp = spec.temp /\ g.key = SpecializedKey(spec, f.key)
      BY <3>2, <3>3
    <3>5. QED
      BY Zenon, <3>2, <3>3, <3>4 DEF PassedOn, SpecializedKey, Fitting, Fits
  <2>6. f.temp \in DOMAIN templates'
    BY <1>1, <1>3
  <2>7. sound
    <3> HIDE DEF through
    <3>1. QED
      BY <1>5, <2>2, <2>3, <2>4, <2>5, <2>6
  <2>8. Passing(n)' = through
    BY DEF Passing
  <2> HIDE DEF through
  <2>9. FrameSound(n)' <=> sound
    BY <2>1, <2>8 DEF FrameSound
  <2>10. QED
    <3> HIDE DEF sound
    <3>1. QED
      BY <2>7, <2>9
<1>7. FrameSound(n + 1)'
  <2>1. n + 1 # 1 /\ ~(n + 1 < Len(frames')) /\ frames'[n + 1] = g
    BY <1>0, <1>2
  <2>2. PICK m : m = n + 1
    OBVIOUS
  <2>3. ~Passing(m)'
    BY <2>1, <2>2 DEF Passing
  <2>4. g.temp \in DOMAIN templates'
    BY <1>3
  <2>5. FrameSound(m)'
    BY <1>5, <2>1, <2>2, <2>3, <2>4 DEF FrameSound
  <2>6. QED
    BY <2>2, <2>5
<1>8. \A i \in n..Len(frames') : FrameSound(i)'
  BY <1>2, <1>6, <1>7
<1>9. n \in 1..Len(frames)
  BY <1>0, <1>1
<1>10. QED
  BY <1>0, <1>1, <1>2, <1>8, <1>9, CallsAbove

LEMMA SpecializedSound ==
  ASSUME Sound, Specialized
  PROVE  Sound'
<1>1. /\ frames # << >> /\ Chosen # 0
      /\ UNCHANGED <<program, defs, templates, open, uses, result, exceeded>>
  BY DEF Specialized, Entering
<1>2. PICK spec, f, g :
        /\ spec = templates[frame.temp].specializations[Chosen]
        /\ f = [frame EXCEPT !.at = "remap"]
        /\ g = Frame(spec.temp, SpecializedKey(spec, frame.key), "specialized", 0)
  OBVIOUS
<1>3. frames' = Caller \o <<f, g>>
  BY <1>2 DEF Specialized
<1>4. /\ Len(frames) \in Nat \ {0} /\ DOMAIN frame = FrameFields
      /\ frame.temp \in DOMAIN templates /\ Argued(Arity(frame.temp), frame.key)
      /\ Sequence(frame.todo) /\ Range(frame.todo) \subseteq DOMAIN defs
      /\ Sequence(Caller) /\ Len(Caller) = Len(frames) - 1
      /\ \A i \in 1..Len(frames) - 1 : Caller[i] = frames[i]
  BY <1>1, TopIs DEF Sound
<1>5. /\ DOMAIN f = FrameFields /\ f.temp = frame.temp /\ f.key = frame.key
      /\ f.to = frame.to /\ f.at = "remap" /\ f.todo = frame.todo
  BY <1>2, <1>4 DEF FrameFields
<1>6. /\ DOMAIN g = FrameFields /\ g.temp = spec.temp
      /\ g.key = SpecializedKey(spec, frame.key) /\ g.to = "specialized"
      /\ g.at = "enter" /\ Sequence(g.todo) /\ Range(g.todo) = {}
  BY <1>2, FrameIs
<1>7. Chosen \in Fitting(frame.temp, frame.key)
  BY <1>1, ChosenIs DEF Sound
<1>8. SpecializationSound(frame.temp, spec)
  BY <1>2, <1>4, <1>7 DEF Sound, TemplatesSound, TemplateSound, Fitting
<1>9. g.temp \in DOMAIN templates /\ Argued(Arity(g.temp), g.key)
  <2>1. PICK r \in program.patterns :
          /\ Len(r.args) = Arity(frame.temp) /\ spec.inds = Positions(r.list, r.args)
          /\ spec.temp \in DOMAIN templates /\ Arity(spec.temp) = Len(r.list)
    BY <1>8 DEF SpecializationSound
  <2>2. Argued(Len(r.args), frame.key)
    BY <1>4, <2>1
  <2>3. Argued(Len(r.list), SpecializedKey(spec, frame.key))
    BY Zenon, <2>1, <2>2, SpecializedKeyIs DEF Sound
  <2>4. QED
    BY <1>6, <2>1, <2>3
<1>10. PassedOn(f, g)
  BY Zenon, <1>2, <1>5, <1>6, <1>7 DEF PassedOn
<1>11. Kept
  BY <1>1, UnchangedKept
<1>12. /\ Sequence(frames') /\ Len(frames') = Len(frames) + 1
       /\ \A i \in 1..Len(frames) - 1 : frames'[i] = frames[i]
       /\ frames'[Len(frames)] = f /\ frames'[Len(frames) + 1] = g
  <2>1. PICK two : two = <<f, g>>
    OBVIOUS
  <2>2. /\ Sequence(two) /\ Len(two) = 2 /\ two[1] = f /\ two[2] = g
    <3>1. /\ two \in [1..2 -> {f, g}] /\ Len(two) = 2 /\ two[1] = f /\ two[2] = g
      BY <2>1
    <3>2. DOMAIN two = 1..2 /\ two = [i \in 1..2 |-> two[i]]
      BY <3>1
    <3>3. QED
      BY <3>1, <3>2, SequenceOf
  <2>3. /\ Sequence(frames') /\ Len(frames') = (Len(frames) - 1) + 2
        /\ \A i \in 1..Len(frames) - 1 : frames'[i] = Caller[i]
        /\ \A i \in (Len(frames) - 1) + 1..(Len(frames) - 1) + 2 :
             frames'[i] = two[i - (Len(frames) - 1)]
    BY <1>3, <1>4, <2>1, <2>2, Concatenated
  <2>4. /\ (Len(frames) - 1) + 2 = Len(frames) + 1
        /\ Len(frames) \in (Len(frames) - 1) + 1..(Len(frames) - 1) + 2
        /\ Len(frames) + 1 \in (Len(frames) - 1) + 1..(Len(frames) - 1) + 2
        /\ Len(frames) - (Len(frames) - 1) = 1 /\ (Len(frames) + 1) - (Len(frames) - 1) = 2
    BY <1>4
  <2>5. QED
    BY <1>4, <2>2, <2>3, <2>4
<1>13. Range(f.todo) \subseteq DOMAIN defs'
  BY <1>1, <1>4, <1>5
<1>14. FramesSound' /\ UseSound'
  BY <1>1, <1>4, <1>5, <1>6, <1>9, <1>10, <1>11, <1>12, <1>13, CallMade DEF Sound
<1>15. TemplatesSound' /\ DefsSound' /\ OpenSound' /\ program' \in Programs
  <2>1. TemplatesSound'
    BY <1>1, TemplatesUnchanged DEF Sound
  <2>2. DefsSound'
    BY <1>1 DEF Sound, DefsSound, Sequence, Range, Owned, Treelike, LowerOwned, ExpressionSound, Arity
  <2>3. QED
    BY <1>1, <2>1, <2>2 DEF Sound, OpenSound
<1>16. QED
  BY <1>14, <1>15 DEF Sound

(* An enumerator is given another expression, or a value instead of it.    *)
LEMMA ExpressionOf ==
  ASSUME NEW e, ExpressionSound(e), NEW d
  PROVE  LET r == [e EXCEPT !.def = d] IN
         ExpressionSound(r) /\ r.op = e.op /\ r.temp = e.temp
BY DEF ExpressionSound

LEMMA HereIs ==
  ASSUME NEW g, DOMAIN g = DefinitionFields, NEW p, NEW e
  PROVE  LET r == [g EXCEPT !.parent = p, !.expr = e] IN
         DOMAIN r = DefinitionFields /\ r.order = g.order /\ r.expr = e
BY DEF DefinitionFields

LEMMA SettledIs ==
  ASSUME NEW g, DOMAIN g = DefinitionFields, ExpressionSound(g.expr), NEW v
  PROVE  /\ DOMAIN Settled(g, v) = DefinitionFields /\ Settled(g, v).order = g.order
         /\ ExpressionSound(Settled(g, v).expr)
<1>1. PICK x : x = IF v = Dependent THEN g.expr ELSE NoExpression
  OBVIOUS
<1>2. Settled(g, v) = [g EXCEPT !.value = v, !.expr = x]
  BY <1>1 DEF Settled, DefinitionFields
<1>3. ExpressionSound(x)
  BY <1>1 DEF ExpressionSound, NoExpression, Expression
<1>4. QED
  BY <1>2, <1>3 DEF DefinitionFields

LEMMA RemapEnumeratorSound ==
  ASSUME Sound, RemapEnumerator
  PROVE  Sound'
<1>1. Remapping /\ UNCHANGED <<program, templates, open, uses, result, exceeded>>
  BY DEF RemapEnumerator
<1>2. /\ frames # << >> /\ frame.at = "remap" /\ frame.todo # << >>
      /\ DOMAIN frame = FrameFields /\ frame.temp \in DOMAIN templates
      /\ Sequence(frame.todo) /\ Range(frame.todo) \subseteq DOMAIN defs
      /\ Fitting(frame.temp, frame.key) = {} /\ IsInstance(frame.temp, frame.key, frame.def)
      /\ Len(frames) \in Nat \ {0} /\ Sequence(Caller) /\ Len(Caller) = Len(frames) - 1
      /\ \A i \in 1..Len(frames) - 1 : Caller[i] = frames[i]
  <2>1. frames # << >> /\ frame.at = "remap" /\ frame.todo # << >>
    BY <1>1 DEF Remapping
  <2>2. /\ DOMAIN frame = FrameFields /\ frame.temp \in DOMAIN templates
        /\ Sequence(frame.todo) /\ Range(frame.todo) \subseteq DOMAIN defs
        /\ FrameSound(Len(frames)) /\ ~Passing(Len(frames)) /\ frame = frames[Len(frames)]
        /\ Len(frames) \in Nat \ {0} /\ Sequence(Caller) /\ Len(Caller) = Len(frames) - 1
        /\ \A i \in 1..Len(frames) - 1 : Caller[i] = frames[i]
    BY <2>1, TopIs DEF Sound
  <2>3. QED
    BY <2>1, <2>2 DEF FrameSound
<1>3. next \in DOMAIN defs
  BY <1>2, TailIs DEF next
<1>4. DOMAIN defs[next] = DefinitionFields /\ ExpressionSound(defs[next].expr)
  BY <1>3 DEF Sound, DefsSound
<1>5. PICK e : e = [defs[next].expr EXCEPT !.def = filter(defs[next].expr.def)]
  OBVIOUS
<1>x. PICK x : x = IF e.def = 0 THEN None ELSE defs[e.def].value
  OBVIOUS
<1>h. PICK here, arg :
        /\ here = [defs[next] EXCEPT !.parent = filter(defs[next].parent), !.expr = e]
        /\ arg = IF e.op = "access" THEN x.n ELSE x.n - 1
  OBVIOUS
<1>6. IF Calls(e, x)
      THEN /\ defs' = [defs EXCEPT ![next] = here]
           /\ frames' = Append(Done, Frame(e.temp, <<Argument("value", arg)>>,
                                           "enumerator", next))
      ELSE /\ defs' = [defs EXCEPT ![next] =
                          IF e.op = "none" THEN here ELSE Settled(here, Evaluated(e, x))]
           /\ frames' = Done
  BY <1>5, <1>x, <1>h DEF RemapEnumerator
<1>7. ExpressionSound(e) /\ here.order = defs[next].order /\ here.expr = e
      /\ DOMAIN here = DefinitionFields
  BY <1>4, <1>5, <1>h, ExpressionOf, HereIs
<1>8. PICK k, r : /\ k = next
                  /\ r = IF Calls(e, x) \/ e.op = "none" THEN here
                         ELSE Settled(here, Evaluated(e, x))
  OBVIOUS
<1>9. defs' = [defs EXCEPT ![k] = r]
  BY <1>6, <1>8
<1>10. DOMAIN r = DefinitionFields /\ r.order = defs[k].order /\ ExpressionSound(r.expr)
  BY <1>7, <1>8, SettledIs
<1>11. DOMAIN defs' = DOMAIN defs
  BY <1>9
<1>12. Kept
  BY <1>1, <1>11, UnchangedKept
<1>13. DefsSound'
  BY <1>9, <1>10, <1>12, OneChanged DEF Sound
<1>14. FramesSound' /\ UseSound'
  <2>1. CASE ~Calls(e, x)
    BY <1>1, <1>6, <1>12, <2>1, Proceeds DEF Sound
  <2>2. CASE Calls(e, x)
    <3>1. PICK f, g : /\ f = [frame EXCEPT !.todo = Tail(frame.todo)]
                      /\ g = Frame(e.temp, <<Argument("value", arg)>>, "enumerator", next)
      OBVIOUS
    <3>2. frames' = Append(Append(Caller, f), g)
      BY <1>6, <2>2, <3>1 DEF Done
    <3>3. /\ DOMAIN f = FrameFields /\ f.temp = frame.temp /\ f.key = frame.key
          /\ f.to = frame.to /\ f.at = frame.at /\ f.def = frame.def
          /\ f.todo = Tail(frame.todo)
      BY <1>2, <3>1, TodoIs
    <3>4. Sequence(f.todo) /\ Range(f.todo) \subseteq DOMAIN defs'
      BY <1>2, <1>11, <3>3, TailIs
    <3>5. /\ DOMAIN g = FrameFields /\ g.temp = e.temp /\ g.key = <<Argument("value", arg)>>
          /\ g.to = "enumerator" /\ g.at = "enter" /\ Sequence(g.todo) /\ Range(g.todo) = {}
      BY <3>1, FrameIs
    <3>6. e.temp \in DOMAIN templates /\ Arity(e.temp) = 1
      BY <1>7, <2>2 DEF ExpressionSound, Calls
    <3>7. Argued(1, g.key)
      <4>1. IsArgument(Argument("value", arg))
        BY DEF IsArgument, Argument
      <4>2. DOMAIN g.key = 1..1 /\ Len(g.key) = 1 /\ g.key[1] = Argument("value", arg)
        BY <3>5
      <4>3. \A i \in 1..1 : i = 1
        OBVIOUS
      <4>4. QED
        BY <4>1, <4>2, <4>3 DEF Argued
    <3>8. /\ Sequence(frames') /\ Len(frames') = Len(frames) + 1
          /\ \A i \in 1..Len(frames) - 1 : frames'[i] = frames[i]
          /\ frames'[Len(frames)] = f /\ frames'[Len(frames) + 1] = g
      <4>1. PICK s : s = Append(Caller, f)
        OBVIOUS
      <4>2. /\ Sequence(s) /\ Len(s) = Len(frames) - 1 + 1
            /\ \A i \in 1..Len(frames) - 1 : s[i] = frames[i]
            /\ s[Len(frames) - 1 + 1] = f
        BY <1>2, <4>1, Appended
      <4>3. Len(frames) - 1 + 1 = Len(frames) /\ Len(frames) \in 1..Len(frames)
            /\ \A i \in 1..Len(frames) - 1 : i \in 1..Len(frames)
        BY <1>2
      <4>4. /\ Sequence(frames') /\ Len(frames') = Len(s) + 1
            /\ \A i \in 1..Len(s) : frames'[i] = s[i]
            /\ frames'[Len(s) + 1] = g
        BY <3>2, <4>1, <4>2, Appended
      <4>5. QED
        BY <4>2, <4>3, <4>4
    <3>9. QED
      BY <1>1, <1>2, <1>12, <3>3, <3>4, <3>5, <3>6, <3>7, <3>8, CallMade DEF Sound
  <2>3. QED
    BY <2>1, <2>2
<1>15. TemplatesSound'
  BY <1>1, <1>11, TemplatesUnchanged DEF Sound
<1>16. QED
  BY <1>1, <1>13, <1>14, <1>15 DEF Sound, OpenSound

LEMMA CallerReturns ==
  ASSUME NEW s, Sequence(s), NEW k \in DOMAIN s, NEW d, DOMAIN s[k] = FrameFields
  PROVE  LET u == [s EXCEPT ![k].at = "return", ![k].def = d] IN
         u = [s EXCEPT ![k] = [s[k] EXCEPT !.at = "return", !.def = d]]
BY DEF FrameFields

LEMMA ReturnSound ==
  ASSUME Sound, Return
  PROVE  Sound'
<1>1. /\ frames # << >> /\ frame.at = "return"
      /\ UNCHANGED <<program, templates, open, uses, exceeded>>
  BY DEF Return
<1>0. PICK n : n = Len(frames)
  OBVIOUS
<1>2. /\ n \in Nat \ {0} /\ n \in DOMAIN frames /\ frame = frames[n] /\ FrameSound(n)
      /\ DOMAIN frame = FrameFields /\ frame.temp \in DOMAIN templates
      /\ Sequence(Caller) /\ Len(Caller) = n - 1
      /\ \A i \in 1..n - 1 : Caller[i] = frames[i]
  BY <1>0, <1>1, TopIs DEF Sound
<1>3. /\ frame.to \in {"use", "specialized", "enumerator"} /\ (frame.to = "use" <=> n = 1)
      /\ Designated(frame.temp, frame.key, frame.def)
  BY <1>1, <1>2 DEF FrameSound
<1>4. DOMAIN frames = 1..n /\ DOMAIN Caller = 1..n - 1
  BY <1>0, <1>2, SequenceIs DEF Sound, FramesSound
<1>5. CASE frame.to = "use"
  <2>1. /\ frames' = Caller /\ UNCHANGED defs
        /\ result' = [result EXCEPT !.temp = frame.temp, !.key = frame.key,
                                    !.def = frame.def]
    BY <1>5 DEF Return
  <2>2. n = 1 /\ frames' = << >>
    <3>1. n = 1 /\ n - 1 = 0
      BY <1>3, <1>5
    <3>2. Len(Caller) = 0
      BY <1>2, <3>1
    <3>3. QED
      BY <1>2, <2>1, <3>1, <3>2, SequenceIs
  <2>3. FramesSound'
    BY <2>2 DEF FramesSound, Sequence, Range
  <2>4. Kept
    BY <1>1, <2>1, UnchangedKept
  <2>5. PICK t, args, d, key : t = frame.temp /\ args = result.args /\ d = frame.def
                                /\ key = frame.key
    OBVIOUS
  <2>6. /\ DOMAIN result' = {"temp", "args", "key", "def"}
        /\ result'.temp = t /\ result'.args = args /\ result'.def = d
    BY <2>1, <2>5 DEF Sound, UseSound
  <2>7. /\ uses \in Nat /\ uses # 0 /\ Given(t, args) /\ key = GivenKey(t, args)
        /\ t \in DOMAIN templates /\ Designated(t, key, d)
    BY <1>1, <1>2, <1>3, <2>2, <2>5 DEF Sound, UseSound
  <2>8. d \in Nat
    BY <2>7 DEF Designated
  <2>9. Given(t, args)' /\ GivenKey(t, args)' = key /\ Designated(t, key, d)'
    BY <2>4, <2>7, KeptIs DEF Sound
  <2>10. UseSound'
    BY <1>1, <2>2, <2>6, <2>7, <2>8, <2>9 DEF UseSound
  <2>11. TemplatesSound'
    BY <1>1, <2>1, TemplatesUnchanged DEF Sound
  <2>12. DefsSound'
    BY <1>1, <2>1 DEF Sound, DefsSound, Sequence, Range, Owned, Treelike, LowerOwned, ExpressionSound, Arity
  <2>13. QED
    BY <1>1, <2>3, <2>10, <2>11, <2>12 DEF Sound, OpenSound
<1>6. CASE frame.to # "use"
  <2>1. n - 1 \in 1..n - 1 /\ n - 1 \in DOMAIN frames /\ n - 1 < n /\ (n - 1) + 1 = n
        /\ n - 1 \in Nat \ {0}
    BY <1>2, <1>3, <1>4, <1>6
  <2>2. PICK m : m = n - 1
    OBVIOUS
  <2>a. /\ m \in DOMAIN Caller /\ m \in DOMAIN frames /\ m \in 1..n /\ m < n /\ m + 1 = n
        /\ Len(Caller) = m /\ m..m = {m} /\ m <= m
    BY <1>2, <1>4, <2>1, <2>2
  <2>b. FrameSound(m) /\ frames[m].at = "remap" /\ Caller[m] = frames[m]
    <3>1. FrameSound(m) /\ m < Len(frames) /\ m \in 1..n - 1
      BY <1>0, <1>4, <2>1, <2>2, <2>a DEF Sound, FramesSound
    <3>2. QED
      BY <1>2, <3>1 DEF FrameSound
  <2>3. /\ FrameSound(m) /\ frames[m].at = "remap" /\ Caller[m] = frames[m]
        /\ m \in DOMAIN Caller /\ m \in 1..n /\ m < n /\ m + 1 = n
        /\ m \in 1..Len(frames) /\ Len(Caller) = m /\ m..m = {m} /\ m <= m
    BY <1>0, <2>a, <2>b
  <2>4. CASE frame.to = "specialized"
    <3>1. /\ frames' = [Caller EXCEPT ![Len(Caller)].at = "return",
                                      ![Len(Caller)].def = frame.def]
          /\ UNCHANGED <<defs, result>>
      BY <2>4 DEF Return
    <3>2. PICK f : f = [frames[m] EXCEPT !.at = "return", !.def = frame.def]
      OBVIOUS
    <3>3. DOMAIN frames[m] = FrameFields
      BY <2>3 DEF FrameSound
    <3>4. frames' = [Caller EXCEPT ![m] = f]
      <4>1. PICK s, d : s = Caller /\ d = frame.def
        OBVIOUS
      <4>2. [s EXCEPT ![m].at = "return", ![m].def = d]
              = [s EXCEPT ![m] = [s[m] EXCEPT !.at = "return", !.def = d]]
        BY <1>2, <2>3, <3>3, <4>1, CallerReturns
      <4>3. QED
        BY <2>3, <3>1, <3>2, <4>1, <4>2
    <3>5. /\ DOMAIN f = FrameFields /\ f.temp = frames[m].temp /\ f.key = frames[m].key
          /\ f.to = frames[m].to /\ f.at = "return" /\ f.def = frame.def
          /\ f.todo = frames[m].todo
      BY <3>2, <3>3, ReturnedIs
    <3>6. /\ Sequence(frames') /\ Len(frames') = m /\ frames'[m] = f
          /\ \A i \in 1..m - 1 : frames'[i] = frames[i]
      <4>1. /\ Sequence(frames') /\ Len(frames') = Len(Caller)
            /\ \A i \in DOMAIN Caller : frames'[i] = IF i = m THEN f ELSE Caller[i]
        BY ZenonT(30), <1>2, <3>4, Updated
      <4>2. \A i \in 1..m - 1 : i \in DOMAIN Caller /\ i \in 1..n - 1 /\ i # m
        BY <1>4, <2>1, <2>2
      <4>3. QED
        BY <1>2, <2>3, <4>1, <4>2
    <3>7. Kept
      BY <1>1, <3>1, UnchangedKept
    <3>8. Designated(f.temp, f.key, f.def)
      <4>1. PassedOn(frames[m], frame)
        BY <1>0, <1>2, <2>3, <2>4 DEF FrameSound, Passing
      <4>2. PICK s \in Fitting(f.temp, f.key) :
              LET spec == templates[f.temp].specializations[s] IN
              frame.temp = spec.temp /\ frame.key = SpecializedKey(spec, f.key)
        BY <3>5, <4>1 DEF PassedOn
      <4>3. f.temp \in DOMAIN templates
        BY <2>3, <3>5 DEF FrameSound
      <4>4. templates[frame.temp].of # 0
        BY <4>2, <4>3 DEF Sound, TemplatesSound, TemplateSound, SpecializationSound, Fitting
      <4>5. templates[frame.temp].specializations = << >>
        BY <1>2, <4>4 DEF Sound, TemplatesSound, TemplateSound
      <4>6. Fitting(frame.temp, frame.key) = {}
        BY <4>5 DEF Fitting
      <4>7. /\ frame.def \in Nat
            /\ exceeded \/ IsInstance(frame.temp, frame.key, frame.def)
        BY <1>3, <4>6 DEF Designated, InstanceFor
      <4>8. IsInstance(frame.temp, frame.key, frame.def) => InstanceFor(f.temp, f.key, f.def)
        BY <3>5, <4>2 DEF InstanceFor
      <4>9. QED
        BY <3>5, <4>7, <4>8 DEF Designated
    <3>9. FrameSound(m)'
      <4>1. f.temp \in DOMAIN templates /\ Argued(Arity(f.temp), f.key)
            /\ Sequence(f.todo) /\ Range(f.todo) \subseteq DOMAIN defs
            /\ f.to \in {"use", "specialized", "enumerator"} /\ (f.to = "use" <=> m = 1)
        BY <2>3, <3>5 DEF FrameSound
      <4>2. f.temp \in DOMAIN templates' /\ Argued(Arity(f.temp), f.key)'
            /\ Designated(f.temp, f.key, f.def)'
        <5>1. /\ Arity(f.temp)' = Arity(f.temp) /\ Designated(f.temp, f.key, f.def)'
          BY <3>7, <3>8, <4>1, KeptIs DEF Sound
        <5>2. QED
          BY <1>1, <4>1, <5>1 DEF Argued
      <4>3. ~(m < Len(frames')) /\ ~Passing(m)' /\ frames'[m] = f
        BY <2>1, <2>2, <3>6 DEF Passing
      <4>4. Range(f.todo) \subseteq DOMAIN defs'
        BY <3>1, <4>1
      <4>5. QED
        BY <3>5, <4>1, <4>2, <4>3, <4>4 DEF FrameSound
    <3>10. FramesSound' /\ UseSound'
      <4>1. \A i \in m..Len(frames') : FrameSound(i)'
        BY <2>3, <3>6, <3>9
      <4>2. m <= Len(frames')
        BY <2>3, <3>6
      <4>3. QED
        BY <1>1, <2>3, <3>1, <3>5, <3>6, <3>7, <4>1, <4>2, CallsAbove DEF Sound
    <3>11. TemplatesSound'
      BY <1>1, <3>1, TemplatesUnchanged DEF Sound
    <3>12. DefsSound'
      BY <1>1, <3>1 DEF Sound, DefsSound, Sequence, Range, Owned, Treelike, LowerOwned, ExpressionSound, Arity
    <3>13. QED
      BY <1>1, <3>10, <3>11, <3>12 DEF Sound, OpenSound
  <2>5. CASE frame.to = "enumerator"
    <3>1. PICK x, r : /\ x = frame.of
                      /\ r = Settled(defs[frame.of],
                                     Found(defs[frame.of].expr, ValueIn(frame.def)))
      OBVIOUS
    <3>2. /\ frames' = Caller /\ UNCHANGED result /\ defs' = [defs EXCEPT ![x] = r]
      BY <2>5, <3>1 DEF Return
    <3>3. x \in DOMAIN defs => /\ DOMAIN r = DefinitionFields /\ r.order = defs[x].order
                               /\ ExpressionSound(r.expr)
      BY <3>1, SettledIs DEF Sound, DefsSound
    <3>4. DOMAIN defs' = DOMAIN defs
      BY <3>2
    <3>5. Kept
      BY <1>1, <3>4, UnchangedKept
    <3>6. DefsSound'
      BY <3>2, <3>3, <3>5, OneChanged DEF Sound
    <3>7. FrameSound(m)'
      <4>1. ~Passing(m)
        BY <1>0, <1>2, <2>3, <2>5 DEF Passing
      <4>2. Len(frames') = m /\ frames'[m] = frames[m]
        BY <2>3, <3>2
      <4>3. ~Passing(m)'
        BY <2>3, <4>2 DEF Passing
      <4>4. m \in DOMAIN frames
        BY <1>4, <2>3
      <4>5. QED
        BY <2>3, <3>5, <4>1, <4>2, <4>3, <4>4, FrameKept DEF Sound
    <3>8. FramesSound' /\ UseSound'
      <4>1. /\ Sequence(frames') /\ Len(frames') = m /\ frames'[m] = frames[m]
            /\ \A i \in 1..m - 1 : frames'[i] = frames[i]
        <5>1. \A i \in 1..m - 1 : i \in 1..n - 1
          BY <2>1, <2>2
        <5>2. QED
          BY <1>2, <2>3, <3>2, <5>1
      <4>2. \A i \in m..Len(frames') : FrameSound(i)'
        BY <2>3, <3>7, <4>1
      <4>3. m <= Len(frames')
        BY <2>3, <4>1
      <4>4. QED
        BY <1>1, <2>3, <3>2, <3>5, <4>1, <4>2, <4>3, CallsAbove DEF Sound
    <3>9. TemplatesSound'
      BY <1>1, <3>4, TemplatesUnchanged DEF Sound
    <3>10. QED
      BY <1>1, <3>6, <3>8, <3>9 DEF Sound, OpenSound
  <2>6. QED
    BY <1>3, <1>6, <2>4, <2>5
<1>7. QED
  BY <1>5, <1>6

(* New definitions follow the old ones, which may own them; the new ones   *)
(* own only new ones, and are ranked among themselves.                     *)
NewDefinition(g) ==
  DOMAIN g = DefinitionFields /\ ExpressionSound(g.expr)

Owning(old, n) ==
  \A d \in DOMAIN defs :
    /\ NewDefinition(old[d]) /\ old[d].order \in Seq(1..Len(defs) + n)
    /\ \A k \in DOMAIN old[d].order :
         \/ old[d].order[k] \in Range(defs[d].order)
         \/ old[d].order[k] \in Len(defs) + 1..Len(defs) + n

Rising(new, low) ==
  \A i \in DOMAIN new :
    /\ NewDefinition(new[i]) /\ new[i].order \in Seq(1..Len(defs) + Len(new))
    /\ \A k \in DOMAIN new[i].order :
         /\ new[i].order[k] \in Len(defs) + 1..Len(defs) + Len(new)
         /\ low[new[i].order[k] - Len(defs)] < low[i]

LEMMA DefsGrown ==
  ASSUME DefsSound, ShapeKept,
         NEW old, Sequence(old), Len(old) = Len(defs), NEW new, Sequence(new),
         defs' = old \o new,
         Owning(old, Len(new)),
         NEW h \in Nat, NEW low \in [1..Len(new) -> 0..h], Rising(new, low)
  PROVE  DefsSound'
<1>o. \A d \in DOMAIN defs :
        /\ NewDefinition(old[d]) /\ old[d].order \in Seq(1..Len(defs) + Len(new))
        /\ \A k \in DOMAIN old[d].order :
             \/ old[d].order[k] \in Range(defs[d].order)
             \/ old[d].order[k] \in Len(defs) + 1..Len(defs) + Len(new)
  BY DEF Owning
<1>r. \A i \in DOMAIN new :
        /\ NewDefinition(new[i]) /\ new[i].order \in Seq(1..Len(defs) + Len(new))
        /\ \A k \in DOMAIN new[i].order :
             /\ new[i].order[k] \in Len(defs) + 1..Len(defs) + Len(new)
             /\ low[new[i].order[k] - Len(defs)] < low[i]
  BY DEF Rising
<1>0. PICK D, N : D = Len(defs) /\ N = Len(new)
  OBVIOUS
<1>1. /\ D \in Nat /\ N \in Nat /\ DOMAIN defs = 1..D /\ DOMAIN new = 1..N /\ DOMAIN old = 1..D
  BY <1>0, SequenceIs DEF DefsSound
<1>2. /\ Sequence(defs') /\ Len(defs') = D + N /\ DOMAIN defs' = 1..D + N
      /\ \A i \in 1..D : defs'[i] = old[i]
      /\ \A i \in D + 1..D + N : defs'[i] = new[i - D]
  <2>1. /\ Sequence(old \o new) /\ Len(old \o new) = Len(old) + Len(new)
        /\ DOMAIN (old \o new) = 1..Len(old) + Len(new)
        /\ \A i \in 1..Len(old) : (old \o new)[i] = old[i]
        /\ \A i \in Len(old) + 1..Len(old) + Len(new) :
             (old \o new)[i] = new[i - Len(old)]
    BY Concatenated
  <2>2. Len(old) = D /\ Len(new) = N
    BY <1>0
  <2>3. QED
    BY <2>1, <2>2
<1>3. /\ \A i \in 1..D + N : i \in 1..D \/ i \in D + 1..D + N
      /\ \A i \in D + 1..D + N : i - D \in 1..N
  BY <1>1
<1>4. \A i \in DOMAIN defs' : NewDefinition(defs'[i]) /\ defs'[i].order \in Seq(1..D + N)
  BY <1>0, <1>1, <1>2, <1>3, <1>o, <1>r
<1>5. Owned'
  BY <1>2, <1>4 DEF Owned
<1>6. Treelike'
  <2> DEFINE above == [x \in D + 1..D + N |-> low[x - D]]
  <2>1. above \in [Len(defs) + 1..Len(defs') -> 0..h]
    BY <1>0, <1>2, <1>3
  <2>2. \A d \in DOMAIN defs : \A k \in DOMAIN defs'[d].order :
           \/ defs'[d].order[k] \in Range(defs[d].order)
           \/ defs'[d].order[k] \in Len(defs) + 1..Len(defs')
    BY <1>0, <1>1, <1>2, <1>o
  <2>3. ASSUME NEW d \in Len(defs) + 1..Len(defs'), NEW k \in DOMAIN defs'[d].order
        PROVE  /\ defs'[d].order[k] \in Len(defs) + 1..Len(defs')
               /\ above[defs'[d].order[k]] < above[d]
    <3>1. d \in D + 1..D + N /\ d - D \in DOMAIN new /\ defs'[d] = new[d - D]
      BY <1>0, <1>1, <1>2, <1>3
    <3>2. PICK c : c = defs'[d].order[k]
      OBVIOUS
    <3>3. c \in D + 1..D + N /\ low[c - D] < low[d - D]
      BY <1>0, <1>r, <3>1, <3>2
    <3>4. above[c] = low[c - D] /\ above[d] = low[d - D]
      BY <3>1, <3>3
    <3> HIDE DEF above
    <3>5. QED
      BY <1>0, <1>2, <3>2, <3>3, <3>4
  <2>4. Len(defs) <= Len(defs')
    BY <1>0, <1>1, <1>2
  <2> HIDE DEF above
  <2>5. QED
    BY <1>2, <2>1, <2>2, <2>3, <2>4, Grown DEF DefsSound
<1>7. ASSUME NEW i \in DOMAIN defs'
      PROVE  DOMAIN defs'[i] = DefinitionFields /\ ExpressionSound(defs[i].expr)'
  <2>1. PICK e : e = defs'[i].expr
    OBVIOUS
  <2>2. DOMAIN defs'[i] = DefinitionFields /\ ExpressionSound(e)
    BY <1>4, <2>1 DEF NewDefinition
  <2>3. ExpressionSound(e)'
    BY <2>2, ExpressionKept
  <2>4. QED
    BY <2>1, <2>2, <2>3 DEF ExpressionSound
<1>8. QED
  BY <1>2, <1>5, <1>6, <1>7 DEF DefsSound

(* A template has one more instance.                                       *)
LEMMA InstanceAdded ==
  ASSUME TemplatesSound, DOMAIN defs \subseteq DOMAIN defs', program' = program,
         exceeded' = exceeded,
         NEW u \in DOMAIN templates, NEW instance, instance.def \in Nat,
         templates' = [templates EXCEPT ![u].instantiations = Append(@, instance)]
  PROVE  /\ Kept /\ TemplatesSound'
         /\ IsInstance(u, instance.key, instance.def)'
<1>1. Sequence(templates) /\ TemplateSound(u)
  BY DEF TemplatesSound
<1>2. PICK r, was : /\ was = templates[u].instantiations
                    /\ r = [templates[u] EXCEPT !.instantiations = Append(was, instance)]
  OBVIOUS
<1>3. templates' = [templates EXCEPT ![u] = r]
  BY <1>2
<1>4. /\ DOMAIN r = TemplateFields /\ r.instantiations = Append(was, instance)
      /\ r.params = templates[u].params /\ r.defaults = templates[u].defaults
      /\ r.def = templates[u].def /\ r.specializations = templates[u].specializations
      /\ r.of = templates[u].of
  BY <1>1, <1>2 DEF TemplateSound, TemplateFields
<1>5. /\ Sequence(templates') /\ Len(templates') = Len(templates)
      /\ DOMAIN templates' = DOMAIN templates
      /\ \A t \in DOMAIN templates : templates'[t] = IF t = u THEN r ELSE templates[t]
  BY ZenonT(30), <1>1, <1>3, Updated
<1>6. Sequence(was) /\ \A i \in DOMAIN was : was[i].def \in Nat
  BY <1>1, <1>2 DEF TemplateSound, InstancesSound, Instances
<1>7. /\ Sequence(r.instantiations) /\ DOMAIN r.instantiations = 1..Len(was) + 1
      /\ \A i \in 1..Len(was) : r.instantiations[i] = was[i]
      /\ r.instantiations[Len(was) + 1] = instance
  BY <1>4, <1>6, Appended
<1>8. Len(was) \in Nat /\ DOMAIN was = 1..Len(was)
  BY <1>6, SequenceIs
<1>9. \A i \in 1..Len(was) + 1 : i \in 1..Len(was) \/ i = Len(was) + 1
  BY <1>8
<1>10. Kept
  <2>1. ASSUME NEW t \in DOMAIN templates
        PROVE  /\ t \in DOMAIN templates'
               /\ templates'[t].params = templates[t].params
               /\ templates'[t].defaults = templates[t].defaults
               /\ templates'[t].def = templates[t].def
               /\ templates'[t].specializations = templates[t].specializations
               /\ templates'[t].of = templates[t].of
    BY <1>4, <1>5
  <2>2. ASSUME NEW t \in DOMAIN templates, NEW i \in DOMAIN templates[t].instantiations
        PROVE  /\ i \in DOMAIN templates'[t].instantiations
               /\ templates'[t].instantiations[i] = templates[t].instantiations[i]
    <3>1. CASE t = u
      <4>1. i \in 1..Len(was) /\ i \in 1..Len(was) + 1
        BY <1>2, <1>8, <2>2, <3>1
      <4>2. QED
        BY <1>2, <1>5, <1>7, <3>1, <4>1
    <3>2. CASE t # u
      BY <1>5, <2>2, <3>2
    <3>3. QED
      BY <3>1, <3>2
  <2>3. QED
    BY <2>1, <2>2 DEF Kept
<1>11. ASSUME NEW t \in DOMAIN templates
       PROVE  TemplateSound(t)'
  <2>1. DOMAIN templates'[t] = TemplateFields
    BY <1>4, <1>5 DEF TemplatesSound, TemplateSound
  <2>2. InstancesSound(t)'
    <3>1. CASE t = u
      <4>1. templates'[t].instantiations = r.instantiations
        BY <1>5, <3>1
      <4>2. \A i \in DOMAIN r.instantiations : r.instantiations[i].def \in Nat
        BY <1>6, <1>7, <1>8, <1>9
      <4>3. QED
        BY <1>7, <4>1, <4>2 DEF InstancesSound, Instances
    <3>2. CASE t # u
      <4>1. templates'[t].instantiations = templates[t].instantiations
        BY <1>5, <3>2
      <4>2. QED
        BY <4>1 DEF InstancesSound, Instances, TemplatesSound, TemplateSound
    <3>3. QED
      BY <3>1, <3>2
  <2>3. QED
    BY <1>10, <2>1, <2>2, TemplateKept
<1>12. TemplatesSound'
  BY <1>5, <1>11 DEF TemplatesSound
<1>13. IsInstance(u, instance.key, instance.def)'
  <2>1. Len(was) + 1 \in DOMAIN r.instantiations
    BY <1>7, <1>8
  <2>2. templates'[u].instantiations = r.instantiations
    BY Zenon, <1>5
  <2>3. QED
    BY <1>7, <2>1, <2>2 DEF IsInstance, Instances
<1>14. QED
  BY <1>10, <1>12, <1>13

LEMMA MadeIs ==
  ASSUME NEW node
  PROVE  NewDefinition(MadeOf(node)) /\ MadeOf(node).order = << >>
<1>1. ExpressionSound(NoExpression)
  BY DEF ExpressionSound, NoExpression, Expression
<1>2. MadeOf(node).expr = NoExpression /\ DOMAIN MadeOf(node) = DefinitionFields
      /\ MadeOf(node).order = << >>
  BY DEF MadeOf, Definition, DefinitionFields
<1>3. QED
  BY <1>1, <1>2 DEF NewDefinition

LEMMA OrderIs ==
  ASSUME NEW g, DOMAIN g = DefinitionFields, NEW order
  PROVE  LET r == [g EXCEPT !.order = order] IN
         DOMAIN r = DefinitionFields /\ r.order = order /\ r.expr = g.expr
BY DEF DefinitionFields

LEMMA StartedIs ==
  ASSUME NEW g, DOMAIN g = FrameFields, NEW d, NEW copies, NEW todo
  PROVE  LET f == [g EXCEPT !.at = "remap", !.def = d, !.copies = copies, !.todo = todo] IN
         /\ DOMAIN f = FrameFields /\ f.temp = g.temp /\ f.key = g.key /\ f.to = g.to
         /\ f.at = "remap" /\ f.def = d /\ f.todo = todo
BY DEF FrameFields

CopiesOf(originals) ==
  [d \in Range(originals) |->
     Len(defs) + CHOOSE i \in DOMAIN originals : originals[i] = d]

(* What the call copies: D definitions that there are, m that the body     *)
(* owns, of which dups are the copies, and n arguments, of which mades are *)
(* the definitions.                                                        *)
Duplicating(u, body, originals, copies, made, dups, mades, new, D, m, n) ==
  /\ frames # << >> /\ Chosen = 0 /\ Existing = {}
  /\ UNCHANGED <<program, open, uses, result, exceeded>>
  /\ u = frame.temp /\ u \in DOMAIN templates /\ DOMAIN frame = FrameFields
  /\ Argued(Arity(u), frame.key) /\ n = Arity(u) /\ n \in Nat /\ DOMAIN frame.key = 1..n
  /\ body = templates[u].def /\ body \in DOMAIN defs
  /\ originals = PostOrder(body) /\ Encloses(originals, body)
  /\ D = Len(defs) /\ D \in Nat /\ DOMAIN defs = 1..D
  /\ m \in Nat /\ DOMAIN originals = 1..m /\ \A i \in 1..m : originals[i] \in DOMAIN defs
  /\ DOMAIN copies = Range(originals)
  /\ \A d \in Range(originals) :
       /\ copies[d] \in D + 1..D + m /\ copies[d] - D \in 1..m
       /\ originals[copies[d] - D] = d
  /\ made = [p \in Range(templates[u].params) |->
               D + m + CHOOSE i \in DOMAIN templates[u].params : templates[u].params[i] = p]
  /\ Sequence(dups) /\ Len(dups) = m
  /\ \A i \in 1..m :
       /\ NewDefinition(dups[i])
       /\ dups[i] = [defs[originals[i]] EXCEPT !.order =
                       [k \in DOMAIN defs[originals[i]].order |->
                          copies[defs[originals[i]].order[k]]]]
       /\ dups[i].order = [k \in DOMAIN defs[originals[i]].order |->
                             copies[defs[originals[i]].order[k]]]
  /\ Sequence(mades) /\ Len(mades) = n
  /\ \A i \in 1..n : /\ NewDefinition(mades[i]) /\ mades[i].order = << >>
                       /\ mades[i] = MadeOf(frame.key[i])
  /\ Sequence(new) /\ Len(new) = m + n /\ DOMAIN new = 1..m + n
  /\ \A i \in 1..m : new[i] = dups[i]
  /\ \A i \in m + 1..m + n : new[i] = mades[i - m]
  /\ defs' = defs \o new /\ Len(defs') = D + (m + n) /\ DOMAIN defs' = 1..D + (m + n)
  /\ frames' = Append(Caller, [frame EXCEPT !.at = "remap", !.def = copies[body],
                                 !.copies = Both(copies, made),
                                 !.todo = [i \in DOMAIN originals |-> D + i]])
  /\ templates' = [templates EXCEPT ![u].instantiations =
       Append(@, [key |-> frame.key, def |-> copies[body], copies |-> copies])]

LEMMA DuplicateIs ==
  ASSUME Sound, Duplicate
  PROVE  \E u, body, originals, copies, made, dups, mades, new, D, m, n :
           Duplicating(u, body, originals, copies, made, dups, mades, new, D, m, n)
<1>1. /\ frames # << >> /\ Chosen = 0 /\ Existing = {}
      /\ UNCHANGED <<program, open, uses, result, exceeded>>
  BY Zenon DEF Duplicate, Entering
<1>2. PICK u, body, originals :
        u = frame.temp /\ body = templates[frame.temp].def /\ originals = PostOrder(body)
  OBVIOUS
<1>3. PICK D, m : D = Len(defs) /\ m = Len(originals)
  OBVIOUS
<1>5. PICK copies, made :
        /\ copies = CopiesOf(originals)
        /\ made = [p \in Range(templates[u].params) |->
                     Len(defs) + Len(originals) + CHOOSE i \in DOMAIN templates[u].params :
                                                    templates[u].params[i] = p]
        /\ defs' = defs \o Duplicates(originals, copies)
                        \o [i \in DOMAIN frame.key |-> MadeOf(frame.key[i])]
        /\ frames' = Append(Caller,
              [frame EXCEPT !.at = "remap", !.def = copies[body],
                 !.copies = Both(copies, made),
                 !.todo = [i \in DOMAIN originals |-> Len(defs) + i]])
        /\ templates' = [templates EXCEPT ![u].instantiations =
              Append(@, [key |-> frame.key, def |-> copies[body], copies |-> copies])]
  <2> DEFINE t == templates[frame.temp]
             c == CopiesOf(PostOrder(t.def))
             md == [p \in Range(t.params) |->
                      Len(defs) + Len(PostOrder(t.def))
                        + CHOOSE i \in DOMAIN t.params : t.params[i] = p]
  <2>1. /\ defs' = defs \o Duplicates(PostOrder(t.def), c)
                        \o [i \in DOMAIN frame.key |-> MadeOf(frame.key[i])]
        /\ frames' = Append(Caller,
              [frame EXCEPT !.at = "remap", !.def = c[t.def],
                 !.copies = Both(c, md),
                 !.todo = [i \in DOMAIN PostOrder(t.def) |-> Len(defs) + i]])
        /\ templates' = [templates EXCEPT ![frame.temp].instantiations =
              Append(@, [key |-> frame.key, def |-> c[t.def], copies |-> c])]
    BY Zenon DEF Duplicate, CopiesOf
  <2>2. /\ c = CopiesOf(originals)
        /\ md = [p \in Range(templates[u].params) |->
                   Len(defs) + Len(originals) + CHOOSE i \in DOMAIN templates[u].params :
                                                  templates[u].params[i] = p]
    <3>1. c = CopiesOf(originals)
      BY Zenon, <1>2
    <3>2. t = templates[u] /\ Len(PostOrder(t.def)) = Len(originals)
      BY Zenon, <1>2
    <3>3. md = [p \in Range(templates[u].params) |->
                 Len(defs) + Len(originals) + CHOOSE i \in DOMAIN templates[u].params :
                                                templates[u].params[i] = p]
      BY <3>2
    <3>4. QED
      BY <3>1, <3>3
  <2> HIDE DEF c, md
  <2>3. QED
    BY Zenon, <1>2, <2>1, <2>2
<1>4. copies = [d \in Range(originals) |->
                  D + CHOOSE i \in DOMAIN originals : originals[i] = d]
  BY <1>3, <1>5 DEF CopiesOf
<1>6. PICK dups, mades, todo :
        /\ dups = Duplicates(originals, copies)
        /\ mades = [i \in DOMAIN frame.key |-> MadeOf(frame.key[i])]
        /\ todo = [i \in DOMAIN originals |-> D + i]
  OBVIOUS
<1>8. /\ defs' = defs \o dups \o mades
      /\ frames' = Append(Caller, [frame EXCEPT !.at = "remap", !.def = copies[body],
                                     !.copies = Both(copies, made), !.todo = todo])
      /\ templates' = [templates EXCEPT ![u].instantiations =
           Append(@, [key |-> frame.key, def |-> copies[body], copies |-> copies])]
  BY <1>3, <1>5, <1>6
<1>9. /\ DOMAIN frame = FrameFields /\ u \in DOMAIN templates
      /\ Argued(Arity(u), frame.key)
  BY <1>1, <1>2, TopIs DEF Sound
<1>10. body \in DOMAIN defs
  BY <1>2, <1>9 DEF Sound, TemplatesSound, TemplateSound
<1>11. Encloses(originals, body)
  BY <1>2, <1>10, PostOrderIs DEF Sound, DefsSound
<1>12. /\ D \in Nat /\ DOMAIN defs = 1..D /\ m \in Nat /\ DOMAIN originals = 1..m
       /\ \A i \in 1..m : originals[i] \in DOMAIN defs
  <2>1. D \in Nat /\ DOMAIN defs = 1..D
    BY <1>3, SequenceIs DEF Sound, DefsSound
  <2>2. originals \in Seq(DOMAIN defs)
    BY <1>11 DEF Encloses
  <2>3. m \in Nat /\ DOMAIN originals = 1..m /\ \A i \in 1..m : originals[i] \in DOMAIN defs
    BY <1>3, <2>2
  <2>4. QED
    BY <2>1, <2>3
<1>13. \A d \in Range(originals) :
         /\ copies[d] \in D + 1..D + m /\ copies[d] - D \in 1..m
         /\ originals[copies[d] - D] = d
  <2>1. TAKE d \in Range(originals)
  <2>2. PICK i : i = CHOOSE j \in DOMAIN originals : originals[j] = d
    OBVIOUS
  <2>3. i \in DOMAIN originals /\ originals[i] = d
    BY <2>2 DEF Range
  <2>4. copies[d] = D + i
    BY <1>4, <2>2
  <2>5. D + i \in D + 1..D + m /\ (D + i) - D = i
    BY <1>12, <2>3
  <2>6. QED
    BY <1>12, <2>3, <2>4, <2>5
<1>14. \A i \in 1..m : /\ originals[i] \in Range(originals)
                       /\ DOMAIN defs[originals[i]] = DefinitionFields
                       /\ ExpressionSound(defs[originals[i]].expr)
                       /\ defs[originals[i]].order \in Seq(DOMAIN defs)
                       /\ Range(defs[originals[i]].order) \subseteq Range(originals)
  <2>1. \A i \in 1..m : originals[i] \in Range(originals)
    BY <1>12 DEF Range
  <2>2. QED
    BY <1>11, <1>12, <2>1 DEF Sound, DefsSound, Owned, Encloses
<1>15. /\ Sequence(dups) /\ Len(dups) = m
       /\ \A i \in 1..m :
            /\ NewDefinition(dups[i])
            /\ dups[i] = [defs[originals[i]] EXCEPT !.order =
                            [k \in DOMAIN defs[originals[i]].order |->
                               copies[defs[originals[i]].order[k]]]]
            /\ dups[i].order = [k \in DOMAIN defs[originals[i]].order |->
                                  copies[defs[originals[i]].order[k]]]
  <2>1. /\ DOMAIN dups = 1..m /\ dups = [i \in 1..m |-> dups[i]]
    BY <1>6, <1>12 DEF Duplicates
  <2>2. ASSUME NEW i \in 1..m
        PROVE  /\ NewDefinition(dups[i])
               /\ dups[i] = [defs[originals[i]] EXCEPT !.order =
                               [k \in DOMAIN defs[originals[i]].order |->
                                  copies[defs[originals[i]].order[k]]]]
               /\ dups[i].order =
                    [k \in DOMAIN defs[originals[i]].order |->
                       copies[defs[originals[i]].order[k]]]
    <3>1. PICK g, order :
            /\ g = defs[originals[i]]
            /\ order = [k \in DOMAIN g.order |-> copies[g.order[k]]]
      OBVIOUS
    <3>2. DOMAIN g = DefinitionFields /\ ExpressionSound(g.expr)
      BY <1>14, <3>1
    <3>3. dups[i] = [g EXCEPT !.order = order]
      BY <1>6, <1>12, <3>1 DEF Duplicates
    <3>4. DOMAIN dups[i] = DefinitionFields /\ dups[i].order = order /\ dups[i].expr = g.expr
      BY <3>2, <3>3, OrderIs
    <3>5. QED
      BY <3>1, <3>2, <3>3, <3>4 DEF NewDefinition
  <2>3. Sequence(dups) /\ Len(dups) = m
    BY <1>12, <2>1, SequenceOf
  <2>4. QED
    BY <2>2, <2>3
<1>16. PICK n : n = Arity(u)
  OBVIOUS
<1>17. /\ n \in Nat /\ Sequence(mades) /\ Len(mades) = n
       /\ \A i \in 1..n : /\ NewDefinition(mades[i]) /\ mades[i].order = << >>
                            /\ mades[i] = MadeOf(frame.key[i])
  <2>1. n \in Nat /\ DOMAIN frame.key = 1..n
    BY <1>9, <1>16 DEF Argued
  <2>2. DOMAIN mades = 1..n /\ \A i \in 1..n : mades[i] = MadeOf(frame.key[i])
    BY <1>6, <2>1
  <2>3. mades = [i \in 1..n |-> mades[i]]
    BY <1>6, <2>1
  <2>4. QED
    BY <2>1, <2>2, <2>3, SequenceOf, MadeIs
<1>18. PICK new : new = dups \o mades
  OBVIOUS
<1>19. /\ Sequence(new) /\ Len(new) = m + n /\ DOMAIN new = 1..m + n
       /\ \A i \in 1..m : new[i] = dups[i]
       /\ \A i \in m + 1..m + n : new[i] = mades[i - m]
  <2>1. /\ Sequence(dups \o mades) /\ Len(dups \o mades) = Len(dups) + Len(mades)
        /\ DOMAIN (dups \o mades) = 1..Len(dups) + Len(mades)
        /\ \A i \in 1..Len(dups) : (dups \o mades)[i] = dups[i]
        /\ \A i \in Len(dups) + 1..Len(dups) + Len(mades) :
             (dups \o mades)[i] = mades[i - Len(dups)]
    BY <1>15, <1>17, Concatenated
  <2>2. QED
    BY <1>15, <1>17, <1>18, <2>1
<1>20. defs' = defs \o new
  <2>1. \A S : \A a, b, c \in Seq(S) : (a \o b) \o c = a \o (b \o c)
    OBVIOUS
  <2>2. PICK S : S = Range(defs) \union Range(dups) \union Range(mades)
    OBVIOUS
  <2>3. \A s, T : s \in Seq(Range(s)) /\ Range(s) \subseteq T => s \in Seq(T)
    OBVIOUS
  <2>4. defs \in Seq(S) /\ dups \in Seq(S) /\ mades \in Seq(S)
    BY <1>15, <1>17, <2>2, <2>3 DEF Sound, DefsSound, Sequence
  <2>5. QED
    BY <1>8, <1>18, <2>1, <2>4
<1>21. Len(defs') = D + (m + n) /\ DOMAIN defs' = 1..D + (m + n)
  <2>1. Sequence(defs)
    BY DEF Sound, DefsSound
  <2>2. /\ Len(defs \o new) = Len(defs) + Len(new)
        /\ DOMAIN (defs \o new) = 1..Len(defs) + Len(new)
    BY <1>19, <2>1, Concatenated
  <2>3. QED
    BY <1>3, <1>19, <1>20, <2>2
<1>22. DOMAIN copies = Range(originals)
  BY <1>4
<1>23. DOMAIN frame.key = 1..n /\ Argued(Arity(u), frame.key)
  BY <1>9, <1>16 DEF Argued
<1>24. made = [p \in Range(templates[u].params) |->
                 D + m + CHOOSE i \in DOMAIN templates[u].params : templates[u].params[i] = p]
  BY <1>3, <1>5
<1>25. Duplicating(u, body, originals, copies, made, dups, mades, new, D, m, n)
  BY Zenon, <1>1, <1>2, <1>3, <1>6, <1>8, <1>9, <1>10, <1>11, <1>12, <1>13, <1>15, <1>16,
     <1>17, <1>19, <1>20, <1>21, <1>22, <1>23, <1>24 DEF Duplicating
<1>26. QED
  BY Zenon, <1>25

LEMMA DuplicateSound ==
  ASSUME Sound, Duplicate
  PROVE  Sound'
<1>0. PICK u, body, originals, copies, made, dups, mades, new, D, m, n :
        Duplicating(u, body, originals, copies, made, dups, mades, new, D, m, n)
  BY Zenon, DuplicateIs
<1>1. /\ frames # << >> /\ Chosen = 0 /\ UNCHANGED <<program, open, uses, result, exceeded>>
  BY Zenon, <1>0 DEF Duplicating
<1>2. /\ u = frame.temp /\ u \in DOMAIN templates /\ DOMAIN frame = FrameFields
      /\ Argued(Arity(u), frame.key)
  BY Zenon, <1>0 DEF Duplicating
<1>3. D = Len(defs) /\ Encloses(originals, body)
  BY Zenon, <1>0 DEF Duplicating
<1>6. PICK todo : todo = [i \in DOMAIN originals |-> D + i]
  OBVIOUS
<1>7. PICK f, instance :
        /\ f = [frame EXCEPT !.at = "remap", !.def = copies[body],
                             !.copies = Both(copies, made), !.todo = todo]
        /\ instance = [key |-> frame.key, def |-> copies[body], copies |-> copies]
  OBVIOUS
<1>8. /\ frames' = Append(Caller, f)
      /\ templates' = [templates EXCEPT ![u].instantiations = Append(@, instance)]
  <2>1. /\ frames' = Append(Caller, [frame EXCEPT !.at = "remap", !.def = copies[body],
                                       !.copies = Both(copies, made),
                                       !.todo = [i \in DOMAIN originals |-> D + i]])
        /\ templates' = [templates EXCEPT ![u].instantiations =
             Append(@, [key |-> frame.key, def |-> copies[body], copies |-> copies])]
    BY Zenon, <1>0 DEF Duplicating
  <2>2. QED
    BY Zenon, <1>6, <1>7, <2>1
<1>12. /\ D \in Nat /\ DOMAIN defs = 1..D /\ m \in Nat /\ DOMAIN originals = 1..m
       /\ \A i \in 1..m : originals[i] \in DOMAIN defs
  BY Zenon, <1>0 DEF Duplicating
<1>13. \A d \in Range(originals) :
         /\ copies[d] \in D + 1..D + m /\ copies[d] - D \in 1..m
         /\ originals[copies[d] - D] = d
  BY Zenon, <1>0 DEF Duplicating
<1>14. \A i \in 1..m : /\ originals[i] \in Range(originals)
                       /\ defs[originals[i]].order \in Seq(DOMAIN defs)
                       /\ Range(defs[originals[i]].order) \subseteq Range(originals)
  <2>1. \A i \in 1..m : originals[i] \in Range(originals)
    BY <1>12 DEF Range
  <2>2. QED
    BY Zenon, <1>3, <1>12, <2>1 DEF Sound, DefsSound, Owned, Encloses
<1>15. \A i \in 1..m :
         /\ NewDefinition(dups[i])
         /\ dups[i].order = [k \in DOMAIN defs[originals[i]].order |->
                               copies[defs[originals[i]].order[k]]]
  BY Zenon, <1>0 DEF Duplicating
<1>17. n \in Nat /\ \A i \in 1..n : NewDefinition(mades[i]) /\ mades[i].order = << >>
  BY Zenon, <1>0 DEF Duplicating
<1>19. /\ Sequence(new) /\ Len(new) = m + n /\ DOMAIN new = 1..m + n
       /\ \A i \in 1..m : new[i] = dups[i]
       /\ \A i \in m + 1..m + n : new[i] = mades[i - m]
  BY Zenon, <1>0 DEF Duplicating
<1>20. defs' = defs \o new
  BY Zenon, <1>0 DEF Duplicating
<1>21. Len(defs') = D + (m + n) /\ DOMAIN defs' = 1..D + (m + n)
  BY Zenon, <1>0 DEF Duplicating
<1>22. DOMAIN defs \subseteq DOMAIN defs'
  BY <1>12, <1>17, <1>21
<1>23. copies[body] \in D + 1..D + m
  BY <1>3, <1>13 DEF Encloses
<1>24. instance.key = frame.key /\ instance.def = copies[body] /\ instance.def \in Nat
  BY <1>7, <1>12, <1>23
<1>25. Kept /\ TemplatesSound' /\ IsInstance(u, instance.key, instance.def)'
  BY <1>1, <1>2, <1>8, <1>22, <1>24, InstanceAdded DEF Sound
<1>26. DefsSound'
  <2>n. PICK h \in Nat : \E rank \in [DOMAIN defs -> 0..h] : LowerOwned(rank)
    BY DEF Sound, DefsSound, Treelike
  <2>1. PICK rank \in [DOMAIN defs -> 0..h] : LowerOwned(rank)
    BY <2>n
  <2>2. PICK low : low = [i \in 1..m + n |-> IF i <= m THEN rank[originals[i]] ELSE 0]
    OBVIOUS
  <2>3. /\ low \in [1..m + n -> 0..h]
        /\ \A i \in 1..m : low[i] = rank[originals[i]]
    <3>1. \A i \in 1..m + n : i <= m => i \in 1..m
      BY <1>12
    <3>2. \A i \in 1..m : i \in 1..m + n /\ i <= m
      BY <1>12, <1>17
    <3>3. 0 \in 0..h
      OBVIOUS
    <3>4. \A i \in 1..m : rank[originals[i]] \in 0..h
      BY <1>12
    <3>5. QED
      BY <2>2, <3>1, <3>2, <3>3, <3>4
  <2>4. \A d \in DOMAIN defs :
          /\ NewDefinition(defs[d]) /\ defs[d].order \in Seq(1..D + (m + n))
          /\ \A k \in DOMAIN defs[d].order : defs[d].order[k] \in Range(defs[d].order)
    <3>1. 1..D \subseteq 1..D + (m + n)
      BY <1>12, <1>17
    <3>2. \A s, S, T : s \in Seq(S) /\ S \subseteq T => s \in Seq(T)
      OBVIOUS
    <3>3. QED
      BY <1>12, <3>1, <3>2 DEF Sound, DefsSound, NewDefinition, Owned, Range
  <2>5. ASSUME NEW i \in DOMAIN new
        PROVE  /\ NewDefinition(new[i]) /\ new[i].order \in Seq(1..D + (m + n))
               /\ \A k \in DOMAIN new[i].order :
                    /\ new[i].order[k] \in D + 1..D + (m + n)
                    /\ low[new[i].order[k] - D] < low[i]
    <3>1. i \in 1..m \/ (i \in m + 1..m + n /\ i - m \in 1..n)
      BY <1>12, <1>17, <1>19
    <3>2. CASE i \in m + 1..m + n /\ i - m \in 1..n
      <4>1. NewDefinition(new[i]) /\ new[i].order = << >>
        BY <1>17, <1>19, <3>2
      <4>2. QED
        BY <4>1
    <3>3. CASE i \in 1..m
      <4>1. PICK was : was = defs[originals[i]].order
        OBVIOUS
      <4>2. NewDefinition(new[i]) /\ new[i].order = [k \in DOMAIN was |-> copies[was[k]]]
        BY <1>15, <1>19, <3>3, <4>1
      <4>3. /\ Len(was) \in Nat /\ DOMAIN was = 1..Len(was)
            /\ \A k \in DOMAIN was : was[k] \in Range(originals)
        <5>1. was \in Seq(DOMAIN defs) /\ Range(was) \subseteq Range(originals)
          BY <1>14, <3>3, <4>1
        <5>2. Len(was) \in Nat /\ DOMAIN was = 1..Len(was)
          BY <5>1
        <5>3. QED
          BY <5>1, <5>2 DEF Range
      <4>4. \A c \in D + 1..D + m : c \in D + 1..D + (m + n) /\ c \in 1..D + (m + n)
        BY <1>12, <1>17
      <4>5. PICK order : order = new[i].order
        OBVIOUS
      <4>6. /\ order = [k \in 1..Len(was) |-> copies[was[k]]]
            /\ \A k \in 1..Len(was) : copies[was[k]] \in 1..D + (m + n)
        BY <1>13, <4>2, <4>3, <4>4, <4>5
      <4>7. order \in Seq(1..D + (m + n))
        <5>1. \A S, j : j \in Nat => [1..j -> S] \subseteq Seq(S)
          OBVIOUS
        <5>2. order \in [1..Len(was) -> 1..D + (m + n)]
          BY <4>6
        <5>3. QED
          BY <4>3, <5>1, <5>2
      <4>8. ASSUME NEW k \in DOMAIN order
            PROVE  order[k] \in D + 1..D + (m + n) /\ low[order[k] - D] < low[i]
        <5>1. k \in DOMAIN was /\ order[k] = copies[was[k]]
          BY <4>3, <4>6, <4>8
        <5>2. /\ order[k] \in D + 1..D + m /\ order[k] - D \in 1..m
              /\ originals[order[k] - D] = was[k]
          BY <1>13, <4>3, <5>1
        <5>3. low[order[k] - D] = rank[was[k]] /\ low[i] = rank[originals[i]]
          BY <2>3, <3>3, <5>2
        <5>4. rank[was[k]] < rank[originals[i]]
          BY <1>12, <2>1, <3>3, <4>1, <5>1 DEF LowerOwned
        <5>5. QED
          BY <4>4, <5>2, <5>3, <5>4
      <4>9. QED
        BY <4>2, <4>5, <4>7, <4>8
    <3>4. QED
      BY <3>1, <3>2, <3>3
  <2>6. Owning(defs, Len(new)) /\ Rising(new, low)
    BY <1>3, <1>19, <2>4, <2>5 DEF Owning, Rising
  <2>7. QED
    BY <1>3, <1>19, <1>20, <1>25, <2>3, <2>6, KeptShape, DefsGrown DEF Sound, DefsSound
<1>27. FramesSound' /\ UseSound'
  <2>1. /\ DOMAIN f = FrameFields /\ f.temp = u /\ f.key = frame.key /\ f.to = frame.to
        /\ f.at = "remap" /\ f.def = copies[body] /\ f.todo = todo
    BY <1>2, <1>7, StartedIs
  <2>2. Sequence(todo) /\ Range(todo) \subseteq DOMAIN defs'
    <3>1. /\ DOMAIN todo = 1..m /\ todo = [i \in 1..m |-> todo[i]]
          /\ \A i \in 1..m : todo[i] = D + i
      BY <1>6, <1>12
    <3>2. \A i \in 1..m : D + i \in 1..D + (m + n)
      BY <1>12, <1>17
    <3>3. \A i \in DOMAIN todo : todo[i] \in DOMAIN defs'
      BY <1>21, <3>1, <3>2
    <3>4. QED
      BY <1>12, <3>1, <3>3, SequenceOf DEF Range
  <2>3. Fitting(u, f.key)' = {}
    <3>1. Fitting(u, f.key) = {}
      BY <1>1, <1>2, <2>1, ChosenIs DEF Sound
    <3>2. \A t \in DOMAIN templates : \A key : Fitting(t, key)' = Fitting(t, key)
      BY <1>25, KeptIs DEF Sound
    <3>3. QED
      BY <1>2, <3>1, <3>2
  <2>4. IsInstance(f.temp, f.key, f.def)'
    BY <1>24, <1>25, <2>1 DEF IsInstance
  <2>5. QED
    BY <1>1, <1>2, <1>8, <1>25, <2>1, <2>2, <2>3, <2>4, TopChanged DEF Sound
<1>28. QED
  BY <1>1, <1>8, <1>25, <1>26, <1>27 DEF Sound, OpenSound

-----------------------------------------------------------------------------
(* The steps of the program that is read: no call runs.                    *)
LEMMA TemplateChanged ==
  ASSUME TemplatesSound, DOMAIN defs \subseteq DOMAIN defs', program' = program,
         exceeded' = exceeded,
         NEW u \in DOMAIN templates, NEW r, templates' = [templates EXCEPT ![u] = r],
         DOMAIN r = TemplateFields, r.params = templates[u].params,
         r.defaults = templates[u].defaults, r.def = templates[u].def,
         r.specializations = templates[u].specializations, r.of = templates[u].of,
         r.instantiations = templates[u].instantiations
  PROVE  Kept /\ TemplatesSound'
<1>1. /\ Sequence(templates') /\ DOMAIN templates' = DOMAIN templates
      /\ \A t \in DOMAIN templates : templates'[t] = IF t = u THEN r ELSE templates[t]
  BY Updated DEF TemplatesSound
<1>2. Kept
  BY <1>1 DEF Kept
<1>3. ASSUME NEW t \in DOMAIN templates
      PROVE  TemplateSound(t)'
  <2>1. DOMAIN templates'[t] = TemplateFields
    BY <1>1 DEF TemplatesSound, TemplateSound
  <2>2. templates'[t].instantiations = templates[t].instantiations
    BY <1>1
  <2>3. InstancesSound(t)'
    BY <2>2 DEF InstancesSound, Instances, TemplatesSound, TemplateSound
  <2>4. QED
    BY <1>2, <2>1, <2>3, TemplateKept
<1>4. QED
  BY <1>1, <1>2, <1>3 DEF TemplatesSound

LEMMA DefsUnchanged ==
  ASSUME DefsSound, Kept, UNCHANGED defs
  PROVE  DefsSound'
<1>1. ASSUME NEW d \in DOMAIN defs
      PROVE  ExpressionSound(defs[d].expr)'
  <2>1. PICK e : e = defs[d].expr
    OBVIOUS
  <2>2. ExpressionSound(e)
    BY <2>1 DEF DefsSound
  <2>3. ExpressionSound(e)'
    BY <2>2, KeptShape, ExpressionKept
  <2>4. QED
    BY <2>1, <2>3 DEF ExpressionSound
<1>2. QED
  BY <1>1 DEF DefsSound, Sequence, Range, Owned, Treelike, LowerOwned

(* Parameters and a class.                                                 *)
LEMMA ParameterIs ==
  ASSUME NEW kind, NEW parent, NEW type
  PROVE  /\ NewDefinition(Definition(kind, parent, type))
         /\ Definition(kind, parent, type).order = << >>
<1>1. ExpressionSound(NoExpression)
  BY DEF ExpressionSound, NoExpression, Expression
<1>2. PICK g : g = Definition(kind, parent, type)
  OBVIOUS
<1>3. DOMAIN g = DefinitionFields /\ g.expr = NoExpression /\ g.order = << >>
  BY <1>2 DEF Definition, DefinitionFields
<1>4. QED
  BY <1>1, <1>2, <1>3 DEF NewDefinition

LEMMA FieldIs ==
  ASSUME NEW g, NewDefinition(g), NEW v
  PROVE  /\ NewDefinition([g EXCEPT !.value = v]) /\ NewDefinition([g EXCEPT !.spelt = v])
         /\ [g EXCEPT !.value = v].order = g.order /\ [g EXCEPT !.spelt = v].order = g.order
BY DEF NewDefinition, DefinitionFields

(* New definitions that own nothing.                                       *)
Plain(new) ==
  Sequence(new) /\ \A i \in DOMAIN new : NewDefinition(new[i]) /\ new[i].order = << >>

LEMMA ListIs ==
  ASSUME NEW list, WellFormed(list)
  PROVE  Len(list) \in Nat /\ DOMAIN list = 1..Len(list)
<1>1. \A s : s \in Seq(Range(s)) => Len(s) \in Nat /\ DOMAIN s = 1..Len(s)
  OBVIOUS
<1>2. QED
  BY <1>1 DEF WellFormed

(* Those of a new template refer to nothing.                               *)
Bare(g) ==
  /\ g.kind \in {"class", "type", "value"} /\ g.value.type \in {"none", "dependent"}
  /\ g.parent = 0 /\ g.type = 0 /\ g.base = 0 /\ g.expr.def = 0 /\ DOMAIN g.general = {}

LEMMA BareIs ==
  ASSUME NEW kind \in {"class", "type", "value"}, NEW v \in {None, Dependent}
  PROVE  Bare([Definition(kind, 0, 0) EXCEPT !.value = v]) /\ Bare(Definition(kind, 0, 0))
<1>1. PICK g : g = Definition(kind, 0, 0)
  OBVIOUS
<1>2. /\ DOMAIN g = DefinitionFields /\ g.kind = kind /\ g.parent = 0 /\ g.type = 0
      /\ g.base = 0 /\ g.expr = NoExpression /\ g.general = << >> /\ g.value = None
  BY <1>1 DEF Definition, DefinitionFields
<1>3. /\ NoExpression.def = 0 /\ DOMAIN << >> = {} /\ None.type = "none"
      /\ Dependent.type = "dependent"
  BY DEF NoExpression, Expression, None, Dependent, Value
<1>4. Bare(g)
  BY <1>2, <1>3 DEF Bare
<1>5. PICK r : r = [g EXCEPT !.value = v]
  OBVIOUS
<1>6. /\ r.kind = kind /\ r.parent = 0 /\ r.type = 0 /\ r.base = 0 /\ r.expr = NoExpression
      /\ r.general = << >> /\ r.value = v
  BY <1>2, <1>5 DEF DefinitionFields
<1>7. Bare(r)
  BY <1>3, <1>6 DEF Bare
<1>8. QED
  BY <1>1, <1>4, <1>5, <1>7

LEMMA AllocateIs ==
  ASSUME DefsSound, NEW list, WellFormed(list), Allocate(list)
  PROVE  \E new : /\ Plain(new) /\ Len(new) = Len(list) + 1 /\ defs' = defs \o new
                  /\ DOMAIN defs' = 1..Len(defs) + Len(list) + 1
                  /\ (\A i \in DOMAIN new : Bare(new[i])) /\ new[Len(list) + 1].kind = "class"
<1>1. PICK n : n = Len(list)
  OBVIOUS
<1>2. n \in Nat /\ DOMAIN list = 1..n
  BY <1>1, ListIs
<1>3. PICK ps, cs, new : /\ ps = Parameters(list) /\ cs = <<Definition("class", 0, 0)>>
                         /\ new = ps \o cs
  OBVIOUS
<1>4. /\ Sequence(ps) /\ Len(ps) = n
      /\ \A i \in 1..n : NewDefinition(ps[i]) /\ ps[i].order = << >> /\ Bare(ps[i])
  <2>1. DOMAIN ps = 1..n /\ ps = [i \in 1..n |-> ps[i]]
    BY <1>2, <1>3 DEF Parameters
  <2>2. ASSUME NEW i \in 1..n
        PROVE  NewDefinition(ps[i]) /\ ps[i].order = << >> /\ Bare(ps[i])
    <3>1. PICK v : v = IF list[i].kind = "value" THEN Dependent ELSE None
      OBVIOUS
    <3>2. PICK b, g : b = Definition(list[i].kind, 0, 0) /\ g = [b EXCEPT !.value = v]
      OBVIOUS
    <3>3. NewDefinition(g) /\ g.order = << >>
      <4>1. NewDefinition(b) /\ b.order = << >>
        BY Zenon, <3>2, ParameterIs
      <4>2. QED
        BY <3>2, <4>1, FieldIs
    <3>4. ps[i] = g
      BY <1>2, <1>3, <3>1, <3>2 DEF Parameters
    <3>5. Bare(g)
      <4>1. list[i].kind \in {"class", "type", "value"} /\ v \in {None, Dependent}
        BY <1>2, <3>1 DEF WellFormed
      <4>2. QED
        BY Zenon, <3>2, <4>1, BareIs
    <3>6. QED
      BY <3>3, <3>4, <3>5
  <2>3. QED
    BY <1>2, <2>1, <2>2, SequenceOf
<1>5. /\ Sequence(cs) /\ Len(cs) = 1 /\ NewDefinition(cs[1]) /\ cs[1].order = << >>
      /\ Bare(cs[1]) /\ cs[1].kind = "class"
  <2>1. PICK g : g = Definition("class", 0, 0)
    OBVIOUS
  <2>2. NewDefinition(g) /\ g.order = << >>
    BY Zenon, <2>1, ParameterIs
  <2>3. Len(cs) = 1 /\ cs[1] = g /\ DOMAIN cs = 1..1 /\ cs = [i \in 1..1 |-> cs[i]]
    BY <1>3, <2>1
  <2>4. Bare(g) /\ g.kind = "class"
    <3>1. g.kind = "class"
      BY <2>1 DEF Definition
    <3>2. QED
      BY <2>1, <3>1, BareIs
  <2>5. QED
    BY <2>2, <2>3, <2>4, SequenceOf
<1>6. /\ Sequence(new) /\ Len(new) = n + 1 /\ DOMAIN new = 1..n + 1
      /\ \A i \in 1..n : new[i] = ps[i]
      /\ \A i \in n + 1..n + 1 : new[i] = cs[i - n]
  <2>1. /\ Sequence(ps \o cs) /\ Len(ps \o cs) = Len(ps) + Len(cs)
        /\ DOMAIN (ps \o cs) = 1..Len(ps) + Len(cs)
        /\ \A i \in 1..Len(ps) : (ps \o cs)[i] = ps[i]
        /\ \A i \in Len(ps) + 1..Len(ps) + Len(cs) : (ps \o cs)[i] = cs[i - Len(ps)]
    BY <1>4, <1>5, Concatenated
  <2>2. QED
    BY <1>3, <1>4, <1>5, <2>1
<1>7. Plain(new)
  <2>1. \A i \in 1..n + 1 : i \in 1..n \/ (i \in n + 1..n + 1 /\ i - n = 1)
    BY <1>2
  <2>2. QED
    BY <1>4, <1>5, <1>6, <2>1 DEF Plain
<1>8. defs' = defs \o new
  <2>1. \A S : \A a, b, c \in Seq(S) : (a \o b) \o c = a \o (b \o c)
    OBVIOUS
  <2>2. PICK S : S = Range(defs) \union Range(ps) \union Range(cs)
    OBVIOUS
  <2>3. \A s, T : s \in Seq(Range(s)) /\ Range(s) \subseteq T => s \in Seq(T)
    OBVIOUS
  <2>4. defs \in Seq(S) /\ ps \in Seq(S) /\ cs \in Seq(S)
    BY <1>4, <1>5, <2>2, <2>3 DEF DefsSound, Sequence
  <2>5. defs' = (defs \o ps) \o cs
    BY <1>3 DEF Allocate
  <2>6. QED
    BY <1>3, <2>1, <2>4, <2>5
<1>9. DOMAIN defs' = 1..Len(defs) + Len(list) + 1
  <2>1. DOMAIN (defs \o new) = 1..Len(defs) + Len(new) /\ Len(defs) \in Nat
    BY <1>6, Concatenated, SequenceIs DEF DefsSound
  <2>2. Len(defs) + (n + 1) = Len(defs) + n + 1
    BY <1>2, <2>1
  <2>3. QED
    BY <1>1, <1>6, <1>8, <2>1, <2>2
<1>10. (\A i \in DOMAIN new : Bare(new[i])) /\ new[n + 1].kind = "class"
  <2>1. /\ \A i \in 1..n + 1 : i \in 1..n \/ (i \in n + 1..n + 1 /\ i - n = 1)
        /\ n + 1 \in n + 1..n + 1 /\ (n + 1) - n = 1
    BY <1>2
  <2>2. QED
    BY <1>4, <1>5, <1>6, <2>1
<1>11. QED
  BY <1>1, <1>6, <1>7, <1>8, <1>9, <1>10

LEMMA PlainGrown ==
  ASSUME DefsSound, ShapeKept, NEW new, Plain(new), defs' = defs \o new
  PROVE  DefsSound'
<1>1. PICK D, N : D = Len(defs) /\ N = Len(new)
  OBVIOUS
<1>2. D \in Nat /\ DOMAIN defs = 1..D /\ N \in Nat /\ DOMAIN new = 1..N
  BY <1>1, SequenceIs DEF DefsSound, Plain
<1>3. PICK low : low = [i \in 1..N |-> 0]
  OBVIOUS
<1>4. low \in [1..N -> 0..0] /\ 0 \in Nat
  BY <1>3
<1>5. \A d \in DOMAIN defs :
        /\ NewDefinition(defs[d]) /\ defs[d].order \in Seq(1..D + N)
        /\ \A k \in DOMAIN defs[d].order : defs[d].order[k] \in Range(defs[d].order)
  <2>1. 1..D \subseteq 1..D + N
    BY <1>2
  <2>2. \A s, S, T : s \in Seq(S) /\ S \subseteq T => s \in Seq(T)
    OBVIOUS
  <2>3. QED
    BY <1>2, <2>1, <2>2 DEF DefsSound, NewDefinition, Owned, Range
<1>6. \A i \in DOMAIN new : /\ NewDefinition(new[i]) /\ new[i].order \in Seq(1..D + N)
                            /\ DOMAIN new[i].order = {}
  <2>1. << >> \in Seq(1..D + N) /\ DOMAIN << >> = {}
    OBVIOUS
  <2>2. QED
    BY <2>1 DEF Plain
<1>7. Owning(defs, Len(new)) /\ Rising(new, low)
  BY <1>1, <1>5, <1>6 DEF Owning, Rising
<1>8. QED
  BY <1>1, <1>4, <1>7, DefsGrown DEF DefsSound, Plain

LEMMA NewTemplateIs ==
  ASSUME NEW list, WellFormed(list), NEW of
  PROVE  LET r == NewTemplate(list, of) IN
         /\ DOMAIN r = TemplateFields /\ Len(r.params) = Len(list)
         /\ DefaultsSound(Len(list), r.defaults)
         /\ r.def = Len(defs) + Len(list) + 1 /\ r.of = of
         /\ r.specializations = << >> /\ r.instantiations = << >>
<1>1. PICK n : n = Len(list)
  OBVIOUS
<1>2. n \in Nat /\ DOMAIN list = 1..n
  BY <1>1, ListIs
<1>3. PICK params, names, defaults, map, body :
        /\ params = [i \in DOMAIN list |-> Len(defs) + i]
        /\ names = [i \in DOMAIN list |-> list[i].name]
        /\ defaults = [i \in DOMAIN list |-> list[i].default]
        /\ NewTemplate(list, of) = Template(params, map, names, defaults, body, of)
        /\ body = Len(defs) + Len(list) + 1
  BY Zenon DEF NewTemplate, NewBody
<1>4. PICK r : r = Template(params, map, names, defaults, body, of)
  OBVIOUS
<1>5. /\ DOMAIN r = TemplateFields /\ r.params = params /\ r.defaults = defaults
      /\ r.def = body /\ r.of = of /\ r.specializations = << >> /\ r.instantiations = << >>
  BY <1>4 DEF Template, TemplateFields
<1>6. Len(params) = Len(list)
  <2>1. DOMAIN params = 1..n
    BY <1>2, <1>3
  <2>2. QED
    BY <1>1, <1>2, <2>1
<1>7. DefaultsSound(n, defaults)
  <2>1. DOMAIN defaults = 1..n /\ \A i \in 1..n : defaults[i] = list[i].default
    BY <1>2, <1>3
  <2>2. \A i \in 1..n : IF list[i].default.kind = "parameter"
                        THEN /\ list[i].default.of \in 1..i - 1
                             /\ list[list[i].default.of].default.kind = "none"
                        ELSE IsArgument(list[i].default) /\ ~IsAbstract(list[i].default)
    BY <1>2 DEF WellFormed
  <2>3. \A i \in 1..n : \A j \in 1..i - 1 : j \in 1..n
    BY <1>2
  <2>4. QED
    BY <1>2, <2>1, <2>2, <2>3 DEF DefaultsSound
<1>8. QED
  BY <1>1, <1>3, <1>4, <1>5, <1>6, <1>7

(* A new template has no instances and no specializations.                 *)
LEMMA NewTemplateSound ==
  ASSUME NEW t, t \in DOMAIN templates', NEW list, WellFormed(list), NEW of,
         DOMAIN defs' = 1..Len(defs) + Len(list) + 1, Len(defs) \in Nat,
         templates'[t] = NewTemplate(list, of)
  PROVE  TemplateSound(t)' /\ Arity(t)' = Len(list) /\ templates'[t].of = of
<1>1. PICK r : r = NewTemplate(list, of)
  OBVIOUS
<1>2. /\ DOMAIN r = TemplateFields /\ Len(r.params) = Len(list)
      /\ DefaultsSound(Len(list), r.defaults)
      /\ r.def = Len(defs) + Len(list) + 1 /\ r.of = of
      /\ r.specializations = << >> /\ r.instantiations = << >>
  BY <1>1, NewTemplateIs
<1>3. templates'[t] = r
  BY <1>1
<1>4. Arity(t)' = Len(list)
  BY <1>2, <1>3 DEF Arity
<1>5. Sequence(<< >>) /\ DOMAIN << >> = {}
  BY DEF Sequence, Range
<1>6. DefaultsSound(Arity(t), templates[t].defaults)'
  BY <1>2, <1>3, <1>4 DEF DefaultsSound
<1>7. InstancesSound(t)'
  BY <1>2, <1>3, <1>5 DEF InstancesSound, Instances
<1>8. Len(defs) + Len(list) + 1 \in DOMAIN defs'
  <2>1. Len(list) \in Nat
    BY ListIs
  <2>2. QED
    BY <2>1
<1>9. QED
  BY <1>2, <1>3, <1>4, <1>5, <1>6, <1>7, <1>8 DEF TemplateSound

LEMMA DeclareSound ==
  ASSUME Sound, NEW list \in program.lists, NEW forward, Declare(list, forward)
  PROVE  Sound'
<1>1. /\ AtOuter /\ Allocate(list) /\ UNCHANGED <<program, frames, uses, result, exceeded>>
      /\ IF forward THEN UNCHANGED open
         ELSE OpenBody(Len(templates) + 1, NewBody(list))
  BY DEF Declare
<1>2. WellFormed(list)
  BY ProgramsAssumption DEF Sound
<1>3. PICK new : /\ Plain(new) /\ Len(new) = Len(list) + 1 /\ defs' = defs \o new
                 /\ DOMAIN defs' = 1..Len(defs) + Len(list) + 1
  BY <1>1, <1>2, AllocateIs DEF Sound
<1>4. PICK r, L : r = NewTemplate(list, 0) /\ L = Len(templates)
  OBVIOUS
<1>5. templates' = Append(templates, r)
  BY <1>4 DEF Declare
<1>6. /\ L \in Nat /\ DOMAIN templates = 1..L /\ Sequence(templates') /\ Len(templates') = L + 1
      /\ DOMAIN templates' = 1..L + 1
      /\ \A t \in 1..L : templates'[t] = templates[t]
      /\ templates'[L + 1] = r
  BY <1>4, <1>5, Appended, SequenceIs DEF Sound, TemplatesSound
<1>7. Len(defs) \in Nat /\ DOMAIN defs = 1..Len(defs) /\ Len(list) \in Nat
  BY <1>2, ListIs, SequenceIs DEF Sound, DefsSound
<1>8. /\ DOMAIN defs \subseteq DOMAIN defs' /\ \A t \in 1..L : t \in 1..L + 1
      /\ L + 1 \in 1..L + 1 /\ \A t \in 1..L + 1 : t \in 1..L \/ t = L + 1
  BY <1>3, <1>6, <1>7
<1>9. Kept
  BY <1>1, <1>6, <1>8 DEF Kept
<1>10. TemplatesSound'
  <2>1. ASSUME NEW t \in 1..L
        PROVE  TemplateSound(t)'
    <3>1. t \in DOMAIN templates /\ templates'[t] = templates[t]
      BY <1>6
    <3>2. DOMAIN templates'[t] = TemplateFields /\ InstancesSound(t)'
      BY <3>1 DEF Sound, TemplatesSound, TemplateSound, InstancesSound, Instances
    <3>3. QED
      BY <1>1, <1>9, <3>1, <3>2, TemplateKept DEF Sound
  <2>2. ASSUME NEW t, t = L + 1
        PROVE  TemplateSound(t)'
    <3>1. t \in DOMAIN templates' /\ templates'[t] = NewTemplate(list, 0)
      BY <1>4, <1>6, <1>8, <2>2
    <3>2. QED
      BY <1>2, <1>3, <1>7, <3>1, NewTemplateSound
  <2>3. QED
    BY <1>6, <1>8, <2>1, <2>2 DEF TemplatesSound
<1>11. DefsSound'
  BY <1>3, <1>9, KeptShape, PlainGrown DEF Sound
<1>12. FramesSound' /\ UseSound'
  BY <1>1, <1>9, CallsKept DEF Sound
<1>13. OpenSound'
  <2>1. 0 \in 0..L + 1 /\ L + 1 \in 0..L + 1
    BY <1>6
  <2>2. CASE open' = open
    <3>1. open.temp = 0
      BY <1>1 DEF AtOuter
    <3>2. QED
      BY <1>6, <2>1, <2>2, <3>1 DEF Sound, OpenSound
  <2>3. CASE OpenBody(Len(templates) + 1, NewBody(list))
    <3>1. PICK body : open' = [temp |-> L + 1, scopes |-> <<body>>]
      BY <1>4, <2>3 DEF OpenBody
    <3>2. DOMAIN open' = {"temp", "scopes"} /\ open'.temp = L + 1
      BY <3>1
    <3>3. QED
      BY <1>6, <2>1, <3>2 DEF OpenSound
  <2>4. QED
    BY <1>1, <2>2, <2>3
<1>14. QED
  BY <1>1, <1>10, <1>11, <1>12, <1>13 DEF Sound

(* The body of a template that is there is opened.                         *)
LEMMA OpenedSound ==
  ASSUME NEW t, NEW body, OpenBody(t, body), t \in 0..Len(templates')
  PROVE  OpenSound'
<1>1. DOMAIN open' = {"temp", "scopes"} /\ open'.temp = t
  BY DEF OpenBody
<1>2. QED
  BY <1>1 DEF OpenSound

LEMMA RenamedIs ==
  ASSUME NEW g, DOMAIN g = TemplateFields, NEW map, NEW names
  PROVE  LET r == [g EXCEPT !.general = map, !.names = names] IN
         /\ DOMAIN r = TemplateFields /\ r.params = g.params /\ r.defaults = g.defaults
         /\ r.def = g.def /\ r.specializations = g.specializations /\ r.of = g.of
         /\ r.instantiations = g.instantiations
BY DEF TemplateFields

LEMMA ReadIs ==
  ASSUME NEW g, DOMAIN g = TemplateFields, NEW b
  PROVE  LET r == [g EXCEPT !.unread = b] IN
         /\ DOMAIN r = TemplateFields /\ r.params = g.params /\ r.defaults = g.defaults
         /\ r.def = g.def /\ r.specializations = g.specializations /\ r.of = g.of
         /\ r.instantiations = g.instantiations
BY DEF TemplateFields

LEMMA RedeclareSound ==
  ASSUME Sound, NEW u \in DOMAIN templates, NEW list, Redeclare(u, list)
  PROVE  Sound'
<1>1. /\ OpenBody(u, templates[u].def)
      /\ UNCHANGED <<program, defs, frames, uses, result, exceeded>>
  BY DEF Redeclare
<1>2. PICK map, names : /\ map = NamedAnew(u, list)
                        /\ names = [i \in DOMAIN list |-> list[i].name]
  OBVIOUS
<1>3. PICK g, r : g = templates[u] /\ r = [g EXCEPT !.general = map, !.names = names]
  OBVIOUS
<1>4. DOMAIN g = TemplateFields
  BY <1>3 DEF Sound, TemplatesSound, TemplateSound
<1>5. templates' = [templates EXCEPT ![u] = r]
  <2>1. templates' = [templates EXCEPT ![u].general = map, ![u].names = names]
    BY <1>2 DEF Redeclare
  <2>2. PICK s : s = templates
    OBVIOUS
  <2>3. [s EXCEPT ![u].general = map, ![u].names = names]
          = [s EXCEPT ![u] = [s[u] EXCEPT !.general = map, !.names = names]]
    BY <1>3, <1>4, <2>2 DEF TemplateFields
  <2>4. QED
    BY <1>3, <2>1, <2>2, <2>3
<1>6. /\ DOMAIN r = TemplateFields /\ r.params = g.params /\ r.defaults = g.defaults
      /\ r.def = g.def /\ r.specializations = g.specializations /\ r.of = g.of
      /\ r.instantiations = g.instantiations
  BY <1>3, <1>4, RenamedIs
<1>7. Kept /\ TemplatesSound'
  BY <1>1, <1>3, <1>5, <1>6, TemplateChanged DEF Sound
<1>8. FramesSound' /\ UseSound'
  BY <1>1, <1>7, CallsKept DEF Sound
<1>9. DefsSound'
  BY <1>1, <1>7, DefsUnchanged DEF Sound
<1>10. OpenSound'
  <2>1. u \in 0..Len(templates')
    <3>1. DOMAIN templates' = DOMAIN templates /\ Sequence(templates')
      BY <1>5, <1>7 DEF TemplatesSound
    <3>2. DOMAIN templates' = 1..Len(templates')
      BY <3>1, SequenceIs
    <3>3. QED
      BY <3>1, <3>2
  <2>2. QED
    BY <1>1, <2>1, OpenedSound
<1>11. QED
  BY <1>1, <1>7, <1>8, <1>9, <1>10 DEF Sound

LEMMA CloseScopeSound ==
  ASSUME Sound, CloseScope
  PROVE  Sound'
<1>1. Reading /\ open.temp # 0 /\ UNCHANGED <<program, defs, frames, uses, result, exceeded>>
  BY DEF CloseScope
<1>2. PICK L : L = Len(templates)
  OBVIOUS
<1>3. L \in Nat /\ DOMAIN templates = 1..L /\ open.temp \in DOMAIN templates
  <2>1. L \in Nat /\ DOMAIN templates = 1..L
    BY <1>2, SequenceIs DEF Sound, TemplatesSound
  <2>2. open.temp \in 0..L
    BY <1>2 DEF Sound, OpenSound
  <2>3. QED
    BY <1>1, <2>1, <2>2
<1>4. Kept /\ TemplatesSound' /\ Len(templates') = L
  <2>1. CASE templates' = templates
    <3>1. Kept
      BY <1>1, <2>1, UnchangedKept
    <3>2. TemplatesSound'
      BY <1>1, <2>1, TemplatesUnchanged DEF Sound
    <3>3. QED
      BY <1>2, <2>1, <3>1, <3>2
  <2>2. CASE templates' = [templates EXCEPT ![open.temp].unread = FALSE]
    <3>1. PICK u, g, r : u = open.temp /\ g = templates[u] /\ r = [g EXCEPT !.unread = FALSE]
      OBVIOUS
    <3>2. templates' = [templates EXCEPT ![u] = r]
      BY <2>2, <3>1
    <3>3. DOMAIN g = TemplateFields
      BY <1>3, <3>1 DEF Sound, TemplatesSound, TemplateSound
    <3>4. /\ DOMAIN r = TemplateFields /\ r.params = g.params /\ r.defaults = g.defaults
          /\ r.def = g.def /\ r.specializations = g.specializations /\ r.of = g.of
          /\ r.instantiations = g.instantiations
      BY <3>1, <3>3, ReadIs
    <3>5. Kept /\ TemplatesSound'
      BY <1>1, <1>3, <3>1, <3>2, <3>4, TemplateChanged DEF Sound
    <3>6. Len(templates') = L
      BY <1>2, <3>2, Updated DEF Sound, TemplatesSound
    <3>7. QED
      BY <3>5, <3>6
  <2>3. QED
    BY <2>1, <2>2 DEF CloseScope
<1>5. FramesSound' /\ UseSound'
  BY <1>1, <1>4, CallsKept DEF Sound
<1>6. DefsSound'
  BY <1>1, <1>4, DefsUnchanged DEF Sound
<1>7. OpenSound'
  <2>1. CASE open' = [open EXCEPT !.scopes = Front(open.scopes)]
    <3>1. DOMAIN open' = {"temp", "scopes"} /\ open'.temp = open.temp
      BY <2>1 DEF Sound, OpenSound
    <3>2. QED
      BY <1>2, <1>4, <3>1 DEF Sound, OpenSound
  <2>2. CASE open' = [temp |-> 0, scopes |-> << >>]
    <3>1. DOMAIN open' = {"temp", "scopes"} /\ open'.temp = 0
      BY <2>2
    <3>2. 0 \in 0..L
      BY <1>3
    <3>3. QED
      BY <1>4, <3>1, <3>2 DEF OpenSound
  <2>3. QED
    BY <2>1, <2>2 DEF CloseScope
<1>8. QED
  BY <1>1, <1>4, <1>5, <1>6, <1>7 DEF Sound

LEMMA SpecializedIs ==
  ASSUME NEW g, DOMAIN g = TemplateFields, NEW specs
  PROVE  LET r == [g EXCEPT !.specializations = specs] IN
         /\ DOMAIN r = TemplateFields /\ r.params = g.params /\ r.defaults = g.defaults
         /\ r.def = g.def /\ r.specializations = specs /\ r.of = g.of
         /\ r.instantiations = g.instantiations
BY DEF TemplateFields

LEMMA SpecializeSound ==
  ASSUME Sound, NEW u \in DOMAIN templates, NEW p \in program.patterns,
         Specialize(u, p.list, p.args)
  PROVE  Sound'
<1>1. /\ AtOuter /\ uses = 0 /\ templates[u].of = 0 /\ Len(p.args) = Arity(u)
      /\ Allocate(p.list) /\ OpenBody(Len(templates) + 1, NewBody(p.list))
      /\ UNCHANGED <<program, frames, uses, result, exceeded>>
  BY DEF Specialize
<1>2. Deducible(p.list, p.args) /\ WellFormed(p.list)
  BY ProgramsAssumption DEF Sound, Deducible
<1>3. PICK new : /\ Plain(new) /\ Len(new) = Len(p.list) + 1 /\ defs' = defs \o new
                 /\ DOMAIN defs' = 1..Len(defs) + Len(p.list) + 1
  BY <1>1, <1>2, AllocateIs DEF Sound
<1>4. PICK L, last : L = Len(templates) /\ last = NewTemplate(p.list, u)
  OBVIOUS
<1>5. PICK spec : spec = [filter |-> FilterOf(p.args), pattern |-> p.args,
                          inds |-> Positions(p.list, p.args), temp |-> L + 1]
  OBVIOUS
<1>6. PICK g, specs, r, changed :
        /\ g = templates[u] /\ specs = Append(g.specializations, spec)
        /\ r = [g EXCEPT !.specializations = specs]
        /\ changed = [templates EXCEPT ![u] = r]
  OBVIOUS
<1>7. templates' = Append(changed, last)
  BY <1>4, <1>5, <1>6 DEF Specialize
<1>8. TemplateSound(u) /\ DOMAIN g = TemplateFields /\ Sequence(g.specializations)
  BY <1>6 DEF Sound, TemplatesSound, TemplateSound
<1>9. /\ DOMAIN r = TemplateFields /\ r.params = g.params /\ r.defaults = g.defaults
      /\ r.def = g.def /\ r.specializations = specs /\ r.of = g.of
      /\ r.instantiations = g.instantiations
  BY <1>6, <1>8, SpecializedIs
<1>10. /\ Sequence(changed) /\ Len(changed) = L /\ DOMAIN changed = DOMAIN templates
       /\ \A t \in DOMAIN templates : changed[t] = IF t = u THEN r ELSE templates[t]
  <2>1. Sequence(templates)
    BY DEF Sound, TemplatesSound
  <2>2. LET w == [templates EXCEPT ![u] = r] IN
        /\ Sequence(w) /\ Len(w) = Len(templates) /\ DOMAIN w = DOMAIN templates
        /\ \A t \in DOMAIN templates : w[t] = IF t = u THEN r ELSE templates[t]
    BY <2>1, Updated
  <2>3. QED
    BY <1>4, <1>6, <2>2
<1>11. /\ L \in Nat /\ DOMAIN templates = 1..L /\ Sequence(templates') /\ Len(templates') = L + 1
       /\ DOMAIN templates' = 1..L + 1
       /\ \A t \in 1..L : templates'[t] = changed[t]
       /\ templates'[L + 1] = last
  BY <1>4, <1>7, <1>10, Appended, SequenceIs DEF Sound, TemplatesSound
<1>12. Len(defs) \in Nat /\ DOMAIN defs = 1..Len(defs) /\ Len(p.list) \in Nat
  BY <1>2, ListIs, SequenceIs DEF Sound, DefsSound
<1>13. /\ DOMAIN defs \subseteq DOMAIN defs' /\ \A t \in 1..L : t \in 1..L + 1
       /\ L + 1 \in 1..L + 1 /\ \A t \in 1..L + 1 : t \in 1..L \/ t = L + 1
       /\ L + 1 \in 0..L + 1 /\ u # 0
  BY <1>3, <1>11, <1>12
<1>14. \A t \in DOMAIN templates : templates'[t] = IF t = u THEN r ELSE templates[t]
  BY <1>10, <1>11
<1>15. ShapeKept
  <2>1. ASSUME NEW t \in DOMAIN templates
        PROVE  /\ t \in DOMAIN templates'
               /\ templates'[t].params = templates[t].params
               /\ templates'[t].defaults = templates[t].defaults
               /\ templates'[t].def = templates[t].def
               /\ templates'[t].of = templates[t].of
    BY <1>6, <1>9, <1>11, <1>13, <1>14
  <2>2. QED
    BY <1>13, <2>1 DEF ShapeKept
<1>16. DefsSound'
  BY <1>3, <1>15, PlainGrown DEF Sound
<1>17. TemplateSound(L + 1)' /\ Arity(L + 1)' = Len(p.list) /\ templates'[L + 1].of = u
  <2>1. PICK t : t = L + 1
    OBVIOUS
  <2>2. t \in DOMAIN templates' /\ templates'[t] = NewTemplate(p.list, u)
    BY <1>4, <1>11, <1>13, <2>1
  <2>3. TemplateSound(t)' /\ Arity(t)' = Len(p.list) /\ templates'[t].of = u
    BY <1>2, <1>3, <1>12, <2>2, NewTemplateSound
  <2>4. QED
    BY <2>1, <2>3
<1>18. SpecializationSound(u, spec)'
  <2>1. /\ spec.pattern = p.args /\ spec.filter = FilterOf(p.args)
        /\ spec.inds = Positions(p.list, p.args) /\ spec.temp = L + 1
    BY <1>5
  <2>2. Len(p.args) = Arity(u)'
    BY <1>1, <1>15 DEF ShapeKept, Arity
  <2>3. Patterned(Arity(u), spec)'
    BY <1>1, <2>1, <2>2 DEF Patterned
  <2>4. /\ spec.temp \in DOMAIN templates' /\ templates'[spec.temp].of # 0
        /\ Arity(spec.temp)' = Len(p.list)
    BY <1>11, <1>13, <1>17, <2>1
  <2>5. QED
    BY <1>1, <2>1, <2>2, <2>3, <2>4 DEF SpecializationSound
<1>19. ASSUME NEW t \in DOMAIN templates
       PROVE  TemplateSound(t)'
  <2>1. TemplateSound(t)
    BY DEF Sound, TemplatesSound
  <2>2. /\ DOMAIN templates'[t] = TemplateFields
        /\ templates'[t].params = templates[t].params
        /\ templates'[t].defaults = templates[t].defaults
        /\ templates'[t].def = templates[t].def
        /\ templates'[t].of = templates[t].of
        /\ templates'[t].instantiations = templates[t].instantiations
    BY <1>6, <1>9, <1>14, <2>1 DEF TemplateSound
  <2>3. DefaultsSound(Arity(t), templates[t].defaults)'
    BY <2>1, <2>2 DEF TemplateSound, DefaultsSound, Arity
  <2>4. InstancesSound(t)'
    BY <2>1, <2>2 DEF TemplateSound, InstancesSound, Instances
  <2>5. ASSUME NEW sp, SpecializationSound(t, sp)
        PROVE  SpecializationSound(t, sp)'
    BY <1>1, <1>15, <2>5, SpecializationKept
  <2>6. CASE t = u
    <3>1. templates'[t].specializations = specs /\ templates'[t].of = 0
      BY <1>1, <1>9, <1>14, <2>2, <2>6
    <3>2. PICK was : was = g.specializations
      OBVIOUS
    <3>3. /\ Sequence(specs) /\ DOMAIN specs = 1..Len(was) + 1
          /\ \A i \in 1..Len(was) : specs[i] = was[i]
          /\ specs[Len(was) + 1] = spec
          /\ Len(was) \in Nat /\ DOMAIN was = 1..Len(was)
      BY <1>6, <1>8, <3>2, Appended, SequenceIs
    <3>4. \A i \in 1..Len(was) + 1 : i \in 1..Len(was) \/ i = Len(was) + 1
      BY <3>3
    <3>5. ASSUME NEW i \in DOMAIN specs
          PROVE  SpecializationSound(t, templates[t].specializations[i])'
      <4>1. PICK sp : sp = specs[i]
        OBVIOUS
      <4>2. SpecializationSound(t, sp)'
        <5>1. CASE i = Len(was) + 1
          BY <1>18, <2>6, <3>3, <4>1, <5>1
        <5>2. CASE i \in 1..Len(was)
          <6>1. SpecializationSound(t, sp)
            BY <1>6, <2>1, <2>6, <3>2, <3>3, <4>1, <5>2 DEF TemplateSound
          <6>2. QED
            BY <2>5, <6>1
        <5>3. QED
          BY <3>3, <3>4, <5>1, <5>2
      <4>3. templates'[t].specializations[i] = sp
        BY <3>1, <4>1
      <4>4. QED
        BY <4>2, <4>3 DEF SpecializationSound, Patterned, Arity
    <3>6. QED
      BY <1>13, <2>1, <2>2, <2>3, <2>4, <3>1, <3>3, <3>5 DEF TemplateSound
  <2>7. CASE t # u
    <3>1. templates'[t].specializations = templates[t].specializations
      BY <1>14, <2>7
    <3>2. ASSUME NEW i \in DOMAIN templates[t].specializations
          PROVE  SpecializationSound(t, templates[t].specializations[i])'
      <4>1. PICK sp : sp = templates[t].specializations[i]
        OBVIOUS
      <4>2. SpecializationSound(t, sp)
        BY <2>1, <4>1 DEF TemplateSound
      <4>3. SpecializationSound(t, sp)'
        BY <2>5, <4>2
      <4>4. templates'[t].specializations[i] = sp
        BY <3>1, <4>1
      <4>5. QED
        BY <4>3, <4>4 DEF SpecializationSound, Patterned, Arity
    <3>3. QED
      BY <1>13, <2>1, <2>2, <2>3, <2>4, <3>1, <3>2 DEF TemplateSound
  <2>8. QED
    BY <2>6, <2>7
<1>20. TemplatesSound'
  BY <1>11, <1>13, <1>17, <1>19 DEF TemplatesSound
<1>21. FramesSound' /\ UseSound'
  <2>1. frames' = << >>
    BY <1>1 DEF AtOuter, Reading
  <2>2. FramesSound'
    BY <2>1 DEF FramesSound, Sequence, Range
  <2>3. UseSound'
    BY <1>1, <2>1 DEF Sound, UseSound
  <2>4. QED
    BY <2>2, <2>3
<1>22. OpenSound'
  <2>1. OpenBody(L + 1, NewBody(p.list)) /\ L + 1 \in 0..Len(templates')
    BY <1>1, <1>4, <1>11, <1>13
  <2>2. QED
    BY <2>1, OpenedSound
<1>23. QED
  BY <1>1, <1>16, <1>20, <1>21, <1>22 DEF Sound

(* A use calls instantiate, for no default leaves an argument abstract.    *)
LEMMA UseTemplateSound ==
  ASSUME Sound, NEW u \in DOMAIN templates, NEW args, NEW n \in 0..Arity(u),
         args \in [1..n -> Arguments("type") \union Arguments("value")], Use(u, args)
  PROVE  Sound'
<1>1. /\ AtOuter /\ uses' = uses + 1 /\ Len(args) <= Arity(u)
      /\ \A i \in 1..Arity(u) :
           IF i <= Len(args) THEN args[i] \in Arguments(KindOf(u, i))
           ELSE templates[u].defaults[i].kind # "none"
      /\ UNCHANGED <<program, defs, templates, open, exceeded>>
  BY DEF Use
<1>2. Arity(u) \in Nat /\ DefaultsSound(Arity(u), templates[u].defaults)
  BY DEF Sound, TemplatesSound, TemplateSound, DefaultsSound
<1>3. n \in Nat /\ Len(args) = n /\ DOMAIN args = 1..n
  BY <1>2
<1>4. result.def \in Nat /\ uses \in Nat
  BY DEF Sound, UseSound
<1>5. \A kind : \A a \in Arguments(kind) : IsArgument(a) /\ ~IsAbstract(a)
  <2>1. \A k, of : IsArgument(Argument(k, of)) /\ (of \in Nat => ~IsAbstract(Argument(k, of)))
    BY DEF IsArgument, IsAbstract, Argument
  <2>2. 0..program.value \subseteq Nat /\ {IntType, ClassType, result.def} \subseteq Nat
    BY <1>4 DEF IntType, ClassType
  <2>3. QED
    BY <2>1, <2>2 DEF Arguments
<1>6. Given(u, args) /\ \A i \in 1..Len(args) : ~IsAbstract(args[i])
  <2>1. \A i \in 1..n : i \in 1..Arity(u) /\ i <= n
    BY <1>2
  <2>2. \A i \in n + 1..Arity(u) : i \in 1..Arity(u) /\ ~(i <= n)
    BY <1>2, <1>3
  <2>3. \A i \in 1..n : IsArgument(args[i]) /\ ~IsAbstract(args[i])
    BY <1>1, <1>3, <1>5, <2>1
  <2>4. \A i \in n + 1..Arity(u) : templates[u].defaults[i].kind # "none"
    BY <1>1, <1>3, <2>2
  <2>5. QED
    BY <1>3, <2>3, <2>4 DEF Given
<1>7. PICK key : key = Key(u, args)
  OBVIOUS
<1>8. /\ key = GivenKey(u, args) /\ Argued(Arity(u), key)
      /\ \A i \in DOMAIN key : ~IsAbstract(key[i])
  BY <1>2, <1>6, <1>7, KeyIs
<1>9. /\ frames' = <<Frame(u, key, "use", 0)>>
      /\ result' = [temp |-> 0, args |-> args, key |-> << >>, def |-> 0]
  BY <1>7, <1>8 DEF Use
<1>10. PICK f : f = Frame(u, key, "use", 0)
  OBVIOUS
<1>11. /\ DOMAIN f = FrameFields /\ f.temp = u /\ f.key = key /\ f.to = "use"
       /\ f.at = "enter" /\ Sequence(f.todo) /\ Range(f.todo) = {}
  BY <1>10, FrameIs
<1>12. Sequence(frames') /\ Len(frames') = 1 /\ DOMAIN frames' = 1..1 /\ frames'[1] = f
  <2>1. PICK s : s = <<f>>
    OBVIOUS
  <2>2. Len(s) = 1 /\ DOMAIN s = 1..1 /\ s[1] = f /\ s = [i \in 1..1 |-> s[i]]
    BY <2>1
  <2>3. Sequence(s)
    BY <2>2, SequenceOf
  <2>4. QED
    BY <1>9, <1>10, <2>1, <2>2, <2>3
<1>13. Kept
  BY <1>1, UnchangedKept
<1>14. Given(u, args)' /\ GivenKey(u, args)' = key /\ Argued(Arity(u), key)'
  BY <1>1, <1>6, <1>8, <1>13, KeptIs DEF Sound, Argued, Arity
<1>15. FrameSound(1)'
  <2>1. ~(1 < Len(frames')) /\ ~Passing(1)'
    BY <1>12 DEF Passing
  <2>2. u \in DOMAIN templates'
    BY <1>1
  <2>3. QED
    BY <1>11, <1>12, <1>14, <2>1, <2>2 DEF FrameSound
<1>16. FramesSound'
  <2>1. \A i \in 1..1 : i = 1
    OBVIOUS
  <2>2. QED
    BY <1>12, <1>15, <2>1 DEF FramesSound
<1>17. UseSound'
  <2>1. /\ DOMAIN result' = {"temp", "args", "key", "def"} /\ result'.temp = 0
        /\ result'.args = args /\ result'.def = 0
    BY <1>9
  <2>2. uses' \in Nat /\ uses' # 0 /\ 0 \in Nat
    BY <1>1, <1>4
  <2>3. frames'[1].key = key /\ frames'[1].temp = u
    BY <1>11, <1>12
  <2>4. frames'[1].key = GivenKey(frames[1].temp, result.args)'
        /\ Given(frames[1].temp, result.args)'
    BY <1>14, <2>1, <2>3 DEF Given, GivenKey, Arity
  <2>5. QED
    BY <2>1, <2>2, <2>4 DEF UseSound
<1>18. TemplatesSound'
  BY <1>1, TemplatesUnchanged DEF Sound
<1>19. DefsSound'
  BY <1>1, <1>13, DefsUnchanged DEF Sound
<1>20. QED
  BY <1>1, <1>16, <1>17, <1>18, <1>19 DEF Sound, OpenSound

(* A definition is changed to own the first of some new ones.              *)
LEMMA MembersDeclared ==
  ASSUME Sound, Stay, NEW x, NEW g, NEW old, old = [defs EXCEPT ![x] = g],
         x \in DOMAIN defs =>
           /\ DOMAIN g = DefinitionFields /\ g.expr = defs[x].expr
           /\ g.order = Append(defs[x].order, Len(defs) + 1),
         NEW new, Sequence(new), Len(new) # 0, defs' = old \o new,
         NEW h \in Nat, NEW low \in [1..Len(new) -> 0..h], Rising(new, low)
  PROVE  program' \in Programs /\ DefsSound' /\ TemplatesSound' /\ FramesSound' /\ UseSound'
<1>0. UNCHANGED <<program, templates, frames, uses, result, exceeded>>
  BY DEF Stay
<1>1. PICK D, N : D = Len(defs) /\ N = Len(new)
  OBVIOUS
<1>2. /\ D \in Nat /\ DOMAIN defs = 1..D /\ N \in Nat /\ N # 0
      /\ Sequence(old) /\ Len(old) = D
      /\ \A d \in DOMAIN defs : old[d] = IF d = x THEN g ELSE defs[d]
  <2>1. Sequence(defs)
    BY DEF Sound, DefsSound
  <2>2. LET w == [defs EXCEPT ![x] = g] IN
        /\ Sequence(w) /\ Len(w) = Len(defs) /\ DOMAIN w = DOMAIN defs
        /\ \A d \in DOMAIN defs : w[d] = IF d = x THEN g ELSE defs[d]
    BY <2>1, Updated
  <2>3. D \in Nat /\ DOMAIN defs = 1..D /\ N \in Nat
    BY <1>1, <2>1, SequenceIs
  <2>4. QED
    BY <1>1, <2>2, <2>3
<1>3. 1..D \subseteq 1..D + N /\ D + 1 \in D + 1..D + N /\ D + 1 \in 1..D + N
  BY <1>2
<1>4. ASSUME NEW d \in DOMAIN defs
      PROVE  /\ NewDefinition(old[d]) /\ old[d].order \in Seq(1..D + N)
             /\ \A k \in DOMAIN old[d].order :
                  \/ old[d].order[k] \in Range(defs[d].order)
                  \/ old[d].order[k] \in D + 1..D + N
  <2>1. PICK order : order = defs[d].order
    OBVIOUS
  <2>2. order \in Seq(1..D) /\ NewDefinition(defs[d])
    BY <1>2, <2>1 DEF Sound, DefsSound, Owned, NewDefinition
  <2>3. order \in Seq(1..D + N)
    <3>1. \A S, T : \A s \in Seq(S) : S \subseteq T => s \in Seq(T)
      OBVIOUS
    <3>2. QED
      BY <1>3, <2>2, <3>1
  <2>4. \A k \in DOMAIN order : order[k] \in Range(order)
    BY DEF Range
  <2>5. CASE d = x
    <3>1. /\ NewDefinition(old[d]) /\ old[d].order = Append(order, D + 1)
      BY <1>1, <1>2, <2>1, <2>2, <2>5 DEF NewDefinition
    <3>2. Append(order, D + 1) \in Seq(1..D + N)
      BY <1>3, <2>3
    <3>3. /\ Len(order) \in Nat /\ DOMAIN order = 1..Len(order)
          /\ Sequence(order)
      <4>1. Len(order) \in Nat /\ DOMAIN order = 1..Len(order)
            /\ order = [i \in 1..Len(order) |-> order[i]]
        BY <2>3
      <4>2. QED
        BY <4>1, SequenceOf
    <3>4. /\ DOMAIN Append(order, D + 1) = 1..Len(order) + 1
          /\ \A i \in 1..Len(order) : Append(order, D + 1)[i] = order[i]
          /\ Append(order, D + 1)[Len(order) + 1] = D + 1
      BY <3>3, Appended
    <3>5. \A i \in 1..Len(order) + 1 : i \in 1..Len(order) \/ i = Len(order) + 1
      BY <3>3
    <3>6. QED
      BY <1>3, <2>1, <2>4, <3>1, <3>2, <3>3, <3>4, <3>5
  <2>6. CASE d # x
    BY <1>2, <2>1, <2>2, <2>3, <2>4, <2>6
  <2>7. QED
    BY <2>5, <2>6
<1>5. DOMAIN defs \subseteq DOMAIN defs'
  <2>1. DOMAIN (old \o new) = 1..Len(old) + Len(new)
    BY <1>2, Concatenated
  <2>2. QED
    BY <1>1, <1>2, <1>3, <2>1
<1>6. Kept /\ TemplatesSound'
  BY <1>0, <1>5, UnchangedKept, TemplatesUnchanged DEF Sound
<1>7. DefsSound'
  <2>1. Owning(old, Len(new))
    BY <1>1, <1>4 DEF Owning
  <2>2. ShapeKept /\ DefsSound /\ Sequence(old) /\ Len(old) = Len(defs)
    BY <1>1, <1>2, <1>6, KeptShape DEF Sound
  <2>3. QED
    BY <2>1, <2>2, DefsGrown
<1>8. FramesSound' /\ UseSound'
  BY <1>0, <1>6, CallsKept DEF Sound
<1>9. QED
  BY <1>0, <1>6, <1>7, <1>8 DEF Sound

LEMMA PlainDeclared ==
  ASSUME Sound, Stay, NEW new, Declared(new), Plain(new), Len(new) # 0
  PROVE  program' \in Programs /\ DefsSound' /\ TemplatesSound' /\ FramesSound' /\ UseSound'
<1>1. PICK x, order, d : /\ x = scope /\ d = defs[x]
                         /\ order = Append(defs[x].order, Len(defs) + 1)
  OBVIOUS
<1>2. PICK g : g = [d EXCEPT !.order = order]
  OBVIOUS
<1>3. PICK old : old = [defs EXCEPT ![x] = g]
  OBVIOUS
<1>4. defs' = old \o new
  BY <1>1, <1>2, <1>3 DEF Declared
<1>5. x \in DOMAIN defs =>
        /\ DOMAIN g = DefinitionFields /\ g.expr = defs[x].expr
        /\ g.order = Append(defs[x].order, Len(defs) + 1)
  <2>1. SUFFICES ASSUME x \in DOMAIN defs
                 PROVE  /\ DOMAIN g = DefinitionFields /\ g.expr = defs[x].expr
                        /\ g.order = Append(defs[x].order, Len(defs) + 1)
    OBVIOUS
  <2>2. DOMAIN d = DefinitionFields
    BY <1>1, <2>1 DEF Sound, DefsSound
  <2>3. QED
    BY <1>1, <1>2, <2>2, OrderIs
<1>6. Sequence(new) /\ Len(new) \in Nat /\ DOMAIN new = 1..Len(new)
  BY SequenceIs DEF Plain
<1>7. PICK low : low = [i \in 1..Len(new) |-> 0]
  OBVIOUS
<1>8. low \in [1..Len(new) -> 0..0] /\ 0 \in Nat
  BY <1>7
<1>9. \A i \in DOMAIN new : /\ NewDefinition(new[i]) /\ DOMAIN new[i].order = {}
                            /\ new[i].order \in Seq(1..Len(defs) + Len(new))
  <2>1. << >> \in Seq(1..Len(defs) + Len(new)) /\ DOMAIN << >> = {}
    OBVIOUS
  <2>2. QED
    BY <2>1 DEF Plain
<1>10. Rising(new, low)
  BY <1>9 DEF Rising
<1>11. QED
  BY <1>3, <1>4, <1>5, <1>6, <1>8, <1>10, MembersDeclared

LEMMA OnePlain ==
  ASSUME NEW g, NewDefinition(g), g.order = << >>
  PROVE  Plain(<<g>>) /\ Len(<<g>>) # 0
<1>1. PICK s : s = <<g>>
  OBVIOUS
<1>2. Len(s) = 1 /\ DOMAIN s = 1..1 /\ s[1] = g /\ s = [i \in 1..1 |-> s[i]]
  BY <1>1
<1>3. Sequence(s) /\ \A i \in 1..1 : i = 1
  BY <1>2, SequenceOf
<1>4. QED
  BY <1>1, <1>2, <1>3 DEF Plain

LEMMA MemberSound ==
  ASSUME Sound, NEW t, Member(t)
  PROVE  Sound'
<1>1. PICK d, g : d = Definition("typed", scope, t.type) /\ g = [d EXCEPT !.spelt = t.spelt]
  OBVIOUS
<1>2. Declared(<<g>>) /\ Stay /\ UNCHANGED open
  BY <1>1 DEF Member
<1>3. NewDefinition(d) /\ d.order = << >>
  BY Zenon, <1>1, ParameterIs
<1>4. NewDefinition(g) /\ g.order = << >>
  BY <1>1, <1>3, FieldIs
<1>5. PICK new : new = <<g>>
  OBVIOUS
<1>6. Plain(new) /\ Len(new) # 0 /\ Declared(new)
  BY <1>2, <1>4, <1>5, OnePlain
<1>7. program' \in Programs /\ DefsSound' /\ TemplatesSound' /\ FramesSound' /\ UseSound'
  BY <1>2, <1>6, PlainDeclared
<1>8. OpenSound'
  BY <1>2 DEF Sound, OpenSound, Stay
<1>9. QED
  BY <1>7, <1>8 DEF Sound

LEMMA DependentMemberSound ==
  ASSUME Sound, NEW y, NEW u, DependentMember(y, u)
  PROVE  Sound'
<1>1. PICK g, b, e, k : /\ g = Definition("typed", scope, Len(defs) + 2)
                        /\ b = Definition("hypothetical", scope, 0)
                        /\ e = Expression("instance", named[y], u)
                        /\ k = [b EXCEPT !.expr = e]
  OBVIOUS
<1>2. Declared(<<g, k>>) /\ Stay /\ UNCHANGED open
  BY <1>1 DEF DependentMember, Hypothetical
<1>3. NewDefinition(g) /\ g.order = << >> /\ NewDefinition(b) /\ b.order = << >>
  BY Zenon, <1>1, ParameterIs
<1>4. ExpressionSound(e)
  BY <1>1 DEF ExpressionSound, Expression
<1>5. NewDefinition(k) /\ k.order = << >>
  BY <1>1, <1>3, <1>4 DEF NewDefinition, DefinitionFields
<1>6. PICK new : new = <<g, k>>
  OBVIOUS
<1>7. Plain(new) /\ Len(new) # 0
  <2>1. /\ Len(new) = 2 /\ DOMAIN new = 1..2 /\ new[1] = g /\ new[2] = k
        /\ new = [i \in 1..2 |-> new[i]]
    BY <1>6
  <2>2. Sequence(new)
    <3>1. 2 \in Nat
      OBVIOUS
    <3>2. QED
      BY <2>1, <3>1, SequenceOf
  <2>3. \A i \in 1..2 : i = 1 \/ i = 2
    OBVIOUS
  <2>4. QED
    BY <1>3, <1>5, <2>1, <2>2, <2>3 DEF Plain
<1>8. program' \in Programs /\ DefsSound' /\ TemplatesSound' /\ FramesSound' /\ UseSound'
  BY <1>2, <1>6, <1>7, PlainDeclared
<1>9. OpenSound'
  BY <1>2 DEF Sound, OpenSound, Stay
<1>10. QED
  BY <1>8, <1>9 DEF Sound

LEMMA OpenClassSound ==
  ASSUME Sound, OpenClass
  PROVE  Sound'
<1>1. PICK g : g = Definition("class", scope, 0)
  OBVIOUS
<1>2. /\ Declared(<<g>>) /\ Stay
      /\ open' = [open EXCEPT !.scopes = Append(open.scopes, Len(defs) + 1)]
  BY <1>1 DEF OpenClass
<1>3. NewDefinition(g) /\ g.order = << >>
  BY Zenon, <1>1, ParameterIs
<1>4. PICK new : new = <<g>>
  OBVIOUS
<1>5. Plain(new) /\ Len(new) # 0 /\ Declared(new)
  BY <1>2, <1>3, <1>4, OnePlain
<1>6. program' \in Programs /\ DefsSound' /\ TemplatesSound' /\ FramesSound' /\ UseSound'
  BY <1>2, <1>5, PlainDeclared
<1>7. OpenSound'
  <2>1. DOMAIN open' = {"temp", "scopes"} /\ open'.temp = open.temp
    BY <1>2 DEF Sound, OpenSound
  <2>2. QED
    BY <1>2, <2>1 DEF Sound, OpenSound, Stay
<1>8. QED
  BY <1>6, <1>7 DEF Sound

LEMMA InheritSound ==
  ASSUME Sound, NEW t, Inherit(t)
  PROVE  Sound'
<1>1. /\ UNCHANGED <<program, templates, frames, uses, result, exceeded, open>>
      /\ defs' = [defs EXCEPT ![scope].base = Unrolled(t.type), ![scope].spelt = Spelt(t)]
  BY DEF Inherit, Stay
<1>2. PICK x, g, base, spelt : /\ x = scope /\ g = defs[x] /\ base = Unrolled(t.type)
                               /\ spelt = Spelt(t)
  OBVIOUS
<1>3. PICK r : r = [g EXCEPT !.base = base, !.spelt = spelt]
  OBVIOUS
<1>4. x \in DOMAIN defs => DOMAIN g = DefinitionFields /\ ExpressionSound(g.expr)
  BY <1>2 DEF Sound, DefsSound
<1>5. DOMAIN g = DefinitionFields =>
        DOMAIN r = DefinitionFields /\ r.order = g.order /\ r.expr = g.expr
  BY <1>3 DEF DefinitionFields
<1>6. defs' = [defs EXCEPT ![x] = r]
  <2>1. PICK s : s = defs
    OBVIOUS
  <2>2. defs' = [s EXCEPT ![x].base = base, ![x].spelt = spelt]
    BY <1>1, <1>2, <2>1
  <2>3. CASE x \in DOMAIN s
    <3>1. [s EXCEPT ![x].base = base, ![x].spelt = spelt]
            = [s EXCEPT ![x] = [s[x] EXCEPT !.base = base, !.spelt = spelt]]
      BY <1>2, <1>4, <2>1, <2>3 DEF DefinitionFields
    <3>2. QED
      BY <1>2, <1>3, <2>1, <2>2, <3>1
  <2>4. CASE x \notin DOMAIN s
    <3>1. [s EXCEPT ![x].base = base, ![x].spelt = spelt] = [s EXCEPT ![x] = r]
      BY <2>4
    <3>2. QED
      BY <2>1, <2>2, <3>1
  <2>5. QED
    BY <2>3, <2>4
<1>7. DOMAIN defs' = DOMAIN defs
  BY <1>6
<1>8. Kept /\ TemplatesSound'
  BY <1>1, <1>7, UnchangedKept, TemplatesUnchanged DEF Sound
<1>9. DefsSound'
  BY <1>2, <1>4, <1>5, <1>6, <1>8, OneChanged DEF Sound
<1>10. FramesSound' /\ UseSound'
  BY <1>1, <1>8, CallsKept DEF Sound
<1>11. QED
  BY <1>1, <1>8, <1>9, <1>10 DEF Sound, OpenSound

LEMMA EnumeratorIs ==
  ASSUME NEW parent, NEW e, ExpressionSound(e), NEW spelt
  PROVE  /\ NewDefinition(Enumerator(parent, e, spelt))
         /\ Enumerator(parent, e, spelt).order = << >>
<1>1. PICK b : b = Definition("constant", parent, IntType)
  OBVIOUS
<1>2. PICK v : v = Evaluated(e, IF e.def = 0 THEN None
                                ELSE IF e.def > Len(defs) THEN Dependent
                                ELSE defs[e.def].value)
  OBVIOUS
<1>3. PICK g : g = [b EXCEPT !.expr = e, !.spelt = spelt, !.value = v]
  OBVIOUS
<1>4. Enumerator(parent, e, spelt) = g
  BY Zenon, <1>1, <1>2, <1>3 DEF Enumerator
<1>5. NewDefinition(b) /\ b.order = << >>
  BY Zenon, <1>1, ParameterIs
<1>6. NewDefinition(g) /\ g.order = << >>
  BY <1>3, <1>5 DEF NewDefinition, DefinitionFields
<1>7. QED
  BY <1>4, <1>6

(* What an enumerator of a body may instantiate has one parameter.         *)
LEMMA ExpressionsAre ==
  ASSUME Sound, open.temp # 0, NEW e \in Expressions
  PROVE  ExpressionSound(e.expr)
<1>1. open.temp \in DOMAIN templates /\ \A u \in 1..open.temp - 1 : u \in DOMAIN templates
  <2>1. Len(templates) \in Nat /\ DOMAIN templates = 1..Len(templates)
    BY SequenceIs DEF Sound, TemplatesSound
  <2>2. QED
    BY <2>1 DEF Sound, OpenSound
<1>2. \/ e.expr = Expression("number", 0, 0)
      \/ \E y : e.expr = Expression("name", y, 0)
      \/ /\ Arity(open.temp) = 1
         /\ \E op, y : e.expr = Expression(op, y, open.temp)
      \/ \E y, u : /\ u \in 1..open.temp - 1 /\ Arity(u) = 1
                   /\ e.expr = Expression("access", y, u)
  <2>1. PICK empty : empty = NoName
    OBVIOUS
  <2> DEFINE Names == {[expr |-> Expression("name", named[x], 0), spelt |-> x] : x \in ValueNames}
  <2>2. \/ e \in {[expr |-> Expression("number", 0, 0), spelt |-> empty]}
        \/ e \in Names
        \/ ~(templates[open.temp].of # 0 \/ Arity(open.temp) # 1)
           /\ (e \in SelfAccesses \/ e \in Accesses)
    <3>1. Expressions =
            {[expr |-> Expression("number", 0, 0), spelt |-> NoName]} \union Names \union
              (IF templates[open.temp].of # 0 \/ Arity(open.temp) # 1 THEN {}
               ELSE SelfAccesses \union Accesses)
      BY Zenon DEF Expressions
    <3> HIDE DEF Names
    <3>2. QED
      BY Zenon, <2>1, <3>1
  <2>3. e \in Names => \E y : e.expr = Expression("name", y, 0)
    OBVIOUS
  <2>4. e \in SelfAccesses => \E op, y : e.expr = Expression(op, y, open.temp)
    BY DEF SelfAccesses
  <2>5. e \in Accesses => \E y, u : /\ u \in 1..open.temp - 1 /\ Arity(u) = 1
                                    /\ e.expr = Expression("access", y, u)
    BY DEF Accesses
  <2> HIDE DEF Names
  <2>6. QED
    BY <2>2, <2>3, <2>4, <2>5
<1>3. CASE e.expr = Expression("number", 0, 0) \/ \E y : e.expr = Expression("name", y, 0)
  <2>1. \A y : /\ DOMAIN Expression("name", y, 0) = {"op", "def", "temp"}
               /\ Expression("name", y, 0).op = "name"
    BY DEF Expression
  <2>2. /\ DOMAIN Expression("number", 0, 0) = {"op", "def", "temp"}
        /\ Expression("number", 0, 0).op = "number"
    BY DEF Expression
  <2>3. DOMAIN e.expr = {"op", "def", "temp"} /\ e.expr.op \in {"number", "name"}
    BY <1>3, <2>1, <2>2
  <2>4. QED
    BY <2>3 DEF ExpressionSound
<1>4. CASE Arity(open.temp) = 1 /\ \E op, y : e.expr = Expression(op, y, open.temp)
  <2>1. PICK op, y : e.expr = Expression(op, y, open.temp)
    BY <1>4
  <2>2. DOMAIN e.expr = {"op", "def", "temp"} /\ e.expr.temp = open.temp
    BY <2>1 DEF Expression
  <2>3. QED
    BY <1>1, <1>4, <2>2 DEF ExpressionSound
<1>5. CASE \E y, u : /\ u \in 1..open.temp - 1 /\ Arity(u) = 1
                     /\ e.expr = Expression("access", y, u)
  <2>1. PICK y, u : /\ u \in 1..open.temp - 1 /\ Arity(u) = 1
                    /\ e.expr = Expression("access", y, u)
    BY <1>5
  <2>2. DOMAIN e.expr = {"op", "def", "temp"} /\ e.expr.temp = u
    BY <2>1 DEF Expression
  <2>3. QED
    BY <1>1, <2>1, <2>2 DEF ExpressionSound
<1>6. QED
  BY <1>2, <1>3, <1>4, <1>5

LEMMA EnumerationSound ==
  ASSUME Sound, NEW e \in Expressions, Enumeration(e)
  PROVE  Sound'
<1> DEFINE n == Len(defs)
           a == Enumerator(n + 1, e.expr, e.spelt)
           b == [Enumerator(n + 1, Expression("next", n + 2, 0), NoName) EXCEPT
                   !.value = Evaluated(Expression("next", 0, 0), a.value)]
           c == [Definition("enum", scope, IntType) EXCEPT !.order = <<n + 2, n + 3>>]
           names == [x \in {"A", "B"} |-> IF x = "A" THEN n + 2 ELSE n + 3]
<1>1. /\ open.temp # 0 /\ Stay /\ UNCHANGED open
      /\ defs' = [defs EXCEPT ![scope].order = Append(@, n + 1), ![scope].general = names]
                 \o <<c, a, b>>
  BY Zenon DEF Enumeration, ReadingBody
<1>2. NewDefinition(a) /\ a.order = << >>
  BY <1>1, ExpressionsAre, EnumeratorIs
<1>3. NewDefinition(b) /\ b.order = << >>
  <2>1. PICK s, v : /\ s = Enumerator(n + 1, Expression("next", n + 2, 0), NoName)
                    /\ v = Evaluated(Expression("next", 0, 0), a.value)
    OBVIOUS
  <2>2. ExpressionSound(Expression("next", n + 2, 0))
    BY DEF ExpressionSound, Expression
  <2>3. NewDefinition(s) /\ s.order = << >>
    <3>1. PICK x : x = Expression("next", n + 2, 0)
      OBVIOUS
    <3> HIDE DEF n
    <3>2. QED
      BY Zenon, <2>1, <2>2, <3>1, EnumeratorIs
  <2>4. b = [s EXCEPT !.value = v]
    BY Zenon, <2>1
  <2> HIDE DEF b
  <2>5. QED
    BY <2>3, <2>4, FieldIs
<1>4. NewDefinition(c) /\ c.order = <<n + 2, n + 3>>
  <2>1. PICK s, order : s = Definition("enum", scope, IntType) /\ order = <<n + 2, n + 3>>
    OBVIOUS
  <2>2. NewDefinition(s)
    BY Zenon, <2>1, ParameterIs
  <2>3. c = [s EXCEPT !.order = order]
    BY Zenon, <2>1
  <2> HIDE DEF c
  <2>4. QED
    BY <2>1, <2>2, <2>3 DEF NewDefinition, DefinitionFields
<1>5. PICK D, x, g, general, order :
        /\ D = n /\ x = scope /\ g = defs[x] /\ general = names
        /\ order = Append(defs[x].order, D + 1)
  OBVIOUS
<1>6. PICK r : r = [g EXCEPT !.order = order, !.general = general]
  OBVIOUS
<1>7. PICK old : old = [defs EXCEPT ![x] = r]
  OBVIOUS
<1>8. PICK new : new = <<c, a, b>>
  OBVIOUS
<1>9. x \in DOMAIN defs =>
        /\ DOMAIN r = DefinitionFields /\ r.expr = defs[x].expr
        /\ r.order = Append(defs[x].order, Len(defs) + 1)
  <2>1. x \in DOMAIN defs => DOMAIN g = DefinitionFields
    BY <1>5 DEF Sound, DefsSound
  <2>2. QED
    BY <1>5, <1>6, <2>1 DEF DefinitionFields
<1>10. defs' = old \o new
  <2>1. [defs EXCEPT ![scope].order = Append(@, n + 1), ![scope].general = names] = old
    <3>1. PICK s : s = defs
      OBVIOUS
    <3>2. [defs EXCEPT ![scope].order = Append(@, n + 1), ![scope].general = names]
            = [s EXCEPT ![x].order = Append(@, D + 1), ![x].general = general]
      BY <1>5, <3>1
    <3>3. CASE x \in DOMAIN s
      <4>1. DOMAIN s[x] = DefinitionFields /\ s[x] = g /\ order = Append(s[x].order, D + 1)
        BY <1>5, <3>1, <3>3 DEF Sound, DefsSound
      <4>2. [s EXCEPT ![x].order = Append(@, D + 1), ![x].general = general]
              = [s EXCEPT ![x] = [s[x] EXCEPT !.order = order, !.general = general]]
        BY <4>1, <3>3 DEF DefinitionFields
      <4>3. QED
        BY <1>6, <1>7, <3>1, <3>2, <4>1, <4>2
    <3>4. CASE x \notin DOMAIN s
      <4>1. [s EXCEPT ![x].order = Append(@, D + 1), ![x].general = general]
              = [s EXCEPT ![x] = r]
        BY <3>4
      <4>2. QED
        BY <1>7, <3>1, <3>2, <4>1
    <3>5. QED
      BY <3>3, <3>4
  <2>2. QED
    BY Zenon, <1>1, <1>8, <2>1
<1>11. PICK low : low = [i \in 1..3 |-> IF i = 1 THEN 1 ELSE 0]
  OBVIOUS
<1>12. /\ Sequence(new) /\ Len(new) = 3 /\ Len(new) # 0 /\ DOMAIN new = 1..3
       /\ new[1] = c /\ new[2] = a /\ new[3] = b
  <2> HIDE DEF a, b, c
  <2>1. /\ Len(new) = 3 /\ DOMAIN new = 1..3 /\ new[1] = c /\ new[2] = a /\ new[3] = b
        /\ new = [i \in 1..3 |-> new[i]]
    BY <1>8
  <2>2. Sequence(new)
    <3>1. 3 \in Nat
      OBVIOUS
    <3>2. QED
      BY <2>1, <3>1, SequenceOf
  <2>3. QED
    BY <2>1, <2>2
<1>13. low \in [1..Len(new) -> 0..1] /\ 1 \in Nat /\ low[1] = 1 /\ low[2] = 0 /\ low[3] = 0
  <2>1. low \in [1..3 -> 0..1] /\ low[1] = 1 /\ low[2] = 0 /\ low[3] = 0
    BY <1>11
  <2>2. Len(new) = 3 /\ 1 \in Nat
    BY <1>12
  <2>3. QED
    BY <2>1, <2>2
<1>14. n \in Nat
  BY SequenceIs DEF Sound, DefsSound
<1>15. Rising(new, low)
  <2>1. << >> \in Seq(1..n + 3) /\ DOMAIN << >> = {}
    OBVIOUS
  <2>2. /\ <<n + 2, n + 3>> \in Seq(1..n + 3) /\ DOMAIN <<n + 2, n + 3>> = 1..2
        /\ <<n + 2, n + 3>>[1] = n + 2 /\ <<n + 2, n + 3>>[2] = n + 3
    <3>1. n + 2 \in 1..n + 3 /\ n + 3 \in 1..n + 3
      BY <1>14
    <3> HIDE DEF n
    <3>2. QED
      BY <3>1
  <2>3. /\ n + 2 \in n + 1..n + 3 /\ n + 3 \in n + 1..n + 3
        /\ (n + 2) - n = 2 /\ (n + 3) - n = 3
    BY <1>14
  <2>4. (\A k \in 1..2 : k = 1 \/ k = 2) /\ \A i \in 1..3 : i = 1 \/ i = 2 \/ i = 3
    OBVIOUS
  <2>5. ASSUME NEW i \in 1..3
        PROVE  /\ NewDefinition(new[i]) /\ new[i].order \in Seq(1..n + 3)
               /\ \A k \in DOMAIN new[i].order :
                    /\ new[i].order[k] \in n + 1..n + 3
                    /\ low[new[i].order[k] - n] < low[i]
    <3> HIDE DEF a, b, c, n
    <3>1. CASE i = 1
      <4>1. NewDefinition(new[i]) /\ new[i].order = <<n + 2, n + 3>> /\ low[i] = 1
        BY <1>4, <1>12, <1>13, <3>1
      <4>2. new[i].order \in Seq(1..n + 3)
        BY <2>2, <4>1
      <4>3. ASSUME NEW k \in DOMAIN new[i].order
            PROVE  /\ new[i].order[k] \in n + 1..n + 3
                   /\ low[new[i].order[k] - n] = 0
        <5>1. new[i].order[k] = n + 2 \/ new[i].order[k] = n + 3
          BY <2>2, <2>4, <4>1
        <5>2. QED
          BY <1>13, <2>3, <5>1
      <4>4. QED
        BY <4>1, <4>2, <4>3
    <3>2. CASE i # 1
      <4>1. NewDefinition(new[i]) /\ new[i].order = << >>
        BY <1>2, <1>3, <1>12, <2>4, <3>2
      <4>2. QED
        BY <2>1, <4>1
    <3>3. QED
      BY <3>1, <3>2
  <2>6. QED
    BY <1>12, <2>5 DEF Rising
<1>16. program' \in Programs /\ DefsSound' /\ TemplatesSound' /\ FramesSound' /\ UseSound'
  <2> HIDE DEF a, b, c, n, names
  <2>1. QED
    BY <1>1, <1>7, <1>9, <1>10, <1>12, <1>13, <1>15, MembersDeclared
<1>17. OpenSound'
  BY <1>1 DEF Sound, OpenSound, Stay
<1>18. QED
  BY <1>16, <1>17 DEF Sound

-----------------------------------------------------------------------------
(* The invariant holds at first and is kept by every step.                 *)
LEMMA InitSound ==
  ASSUME Init
  PROVE  Sound
<1>1. PICK a, b : a = Definition("atomic", 0, 0) /\ b = Definition("class", 0, 0)
  OBVIOUS
<1>2. /\ program \in Programs /\ defs = <<a, b>> /\ templates = << >> /\ frames = << >>
      /\ open = [temp |-> 0, scopes |-> << >>] /\ uses = 0
      /\ result = [temp |-> 0, args |-> << >>, key |-> << >>, def |-> 0]
  BY Zenon, <1>1 DEF Init
<1>3. NewDefinition(a) /\ a.order = << >> /\ NewDefinition(b) /\ b.order = << >>
  BY Zenon, <1>1, ParameterIs
<1>4. Sequence(<< >>) /\ DOMAIN << >> = {}
  BY DEF Sequence
<1>5. DefsSound
  <2>1. /\ DOMAIN defs = 1..2 /\ defs[1] = a /\ defs[2] = b
        /\ defs = [i \in 1..2 |-> defs[i]]
    BY <1>2
  <2>2. Sequence(defs)
    <3>1. 2 \in Nat
      OBVIOUS
    <3>2. QED
      BY <2>1, <3>1, SequenceOf
  <2>3. \A i \in 1..2 : i = 1 \/ i = 2
    OBVIOUS
  <2>4. \A d \in DOMAIN defs : NewDefinition(defs[d]) /\ defs[d].order = << >>
    BY <1>3, <2>1, <2>3
  <2>5. << >> \in Seq(DOMAIN defs)
    OBVIOUS
  <2>6. Treelike
    <3>1. PICK rank : rank = [d \in DOMAIN defs |-> 0]
      OBVIOUS
    <3>2. rank \in [DOMAIN defs -> 0..0] /\ 0 \in Nat
      BY <3>1
    <3>3. LowerOwned(rank)
      BY <1>4, <2>4 DEF LowerOwned
    <3>4. QED
      BY <3>2, <3>3 DEF Treelike
  <2>7. QED
    BY <2>2, <2>4, <2>5, <2>6 DEF DefsSound, Owned, NewDefinition
<1>6. TemplatesSound /\ FramesSound
  BY <1>2, <1>4 DEF TemplatesSound, FramesSound
<1>7. OpenSound
  BY <1>2 DEF OpenSound
<1>8. UseSound
  BY <1>2 DEF UseSound
<1>9. QED
  BY <1>2, <1>5, <1>6, <1>7, <1>8 DEF Sound

LEMMA StutterSound ==
  ASSUME Sound, UNCHANGED vars
  PROVE  Sound'
<1>1. UNCHANGED <<program, defs, templates, open, frames, uses, result, exceeded>>
  BY DEF vars
<1>2. Kept /\ TemplatesSound'
  BY <1>1, UnchangedKept, TemplatesUnchanged DEF Sound
<1>3. DefsSound'
  BY <1>1, <1>2, DefsUnchanged DEF Sound
<1>4. FramesSound' /\ UseSound'
  BY <1>1, <1>2, CallsKept DEF Sound
<1>5. QED
  BY <1>1, <1>2, <1>3, <1>4 DEF Sound, OpenSound

LEMMA TemplateDeclarationSound ==
  ASSUME Sound, TemplateDeclaration
  PROVE  Sound'
<1>1. \/ \E list \in program.lists, forward \in BOOLEAN : Declare(list, forward)
      \/ \E u \in DOMAIN templates : \E list \in program.lists : Redeclare(u, list)
      \/ \E u \in DOMAIN templates : \E p \in program.patterns : Specialize(u, p.list, p.args)
  BY DEF TemplateDeclaration
<1>2. QED
  BY <1>1, DeclareSound, RedeclareSound, SpecializeSound

LEMMA MemberDeclarationSound ==
  ASSUME Sound, MemberDeclaration
  PROVE  Sound'
<1>1. \/ \E t \in Types : Member(t)
      \/ \E t \in Types : Inherit(t)
      \/ \E e \in Expressions : Enumeration(e)
      \/ \E x \in TypeNames, u \in DOMAIN templates : DependentMember(x, u)
      \/ OpenClass
      \/ CloseScope
  BY DEF MemberDeclaration
<1>2. QED
  BY <1>1, MemberSound, InheritSound, EnumerationSound, DependentMemberSound,
     OpenClassSound, CloseScopeSound

LEMMA UseSoundKept ==
  ASSUME Sound, UseTemplate
  PROVE  Sound'
<1>1. \E u \in DOMAIN templates :
        \E n \in 0..Arity(u) :
          \E args \in [1..n -> Arguments("type") \union Arguments("value")] : Use(u, args)
  BY DEF UseTemplate
<1>2. QED
  BY <1>1, UseTemplateSound

LEMMA InstantiateSound ==
  ASSUME Sound, Instantiate
  PROVE  Sound'
BY BailSound, SpecializedSound, ReuseSound, DuplicateSound, RemapSound, RemapEnumeratorSound,
   FinishSound, ReturnSound DEF Instantiate

LEMMA ExceededTyped ==
  ASSUME exceeded \in BOOLEAN, [Next]_vars
  PROVE  exceeded' \in BOOLEAN
<1>1. ASSUME TemplateDeclaration PROVE UNCHANGED exceeded
  BY <1>1 DEF TemplateDeclaration, Declare, Redeclare, Specialize
<1>2. ASSUME MemberDeclaration PROVE UNCHANGED exceeded
  BY <1>2 DEF MemberDeclaration, Member, Inherit, Enumeration, DependentMember, OpenClass,
     CloseScope, Stay
<1>3. ASSUME UseTemplate PROVE UNCHANGED exceeded
  BY <1>3 DEF UseTemplate, Use
<1>4. ASSUME Instantiate PROVE UNCHANGED exceeded \/ exceeded' = TRUE
  BY <1>4 DEF Instantiate, Bail, Specialized, Reuse, Duplicate, Remap, RemapEnumerator,
     Finish, Return
<1>5. ASSUME UNCHANGED vars PROVE UNCHANGED exceeded
  BY <1>5 DEF vars
<1>6. QED
  BY <1>1, <1>2, <1>3, <1>4, <1>5 DEF Next, EndOfInput

LEMMA SoundStep ==
  ASSUME Sound, [Next]_vars
  PROVE  Sound'
<1>1. \/ TemplateDeclaration \/ MemberDeclaration \/ UseTemplate \/ Instantiate
      \/ UNCHANGED vars
  BY DEF Next, EndOfInput
<1>2. QED
  BY <1>1, TemplateDeclarationSound, MemberDeclarationSound, UseSoundKept,
     InstantiateSound, StutterSound

-----------------------------------------------------------------------------
(* Types, on which the invariant above does not rest: the definitions that *)
(* each one refers to, and that each is owned once.                        *)
Kinds ==
  {"atomic", "class", "type", "value", "typed", "enum", "constant", "hypothetical"}
ValueTypes == {"integer", "none", "dependent"}

Refers(g, n) ==
  /\ g.kind \in Kinds /\ g.value.type \in ValueTypes
  /\ g.parent \in 0..n /\ g.type \in 0..n /\ g.base \in 0..n /\ g.expr.def \in 0..n
  /\ g.kind = "typed" => g.type # 0
  /\ \A x \in DOMAIN g.general : g.general[x] \in 1..n

DefsTyped == \A d \in DOMAIN defs : Refers(defs[d], Len(defs))

OwnedOnce ==
  \A d, e \in DOMAIN defs :
    \A k \in DOMAIN defs[d].order, l \in DOMAIN defs[e].order :
      defs[d].order[k] = defs[e].order[l] => d = e /\ k = l

(* What a type argument is: no typedef, so that one that stands for it     *)
(* stands for no other one.                                                *)
Untyped(d) == d \in DOMAIN defs /\ defs[d].kind # "typed"

KeyTyped(key) == \A i \in DOMAIN key : key[i].kind = "type" => Untyped(key[i].of)

TemplateTyped(t) ==
  /\ Sequence(templates[t].params) /\ Range(templates[t].params) \subseteq DOMAIN defs
  /\ templates[t].general \in [DOMAIN templates[t].general -> DOMAIN defs]
  /\ Untyped(templates[t].def)
  /\ \A i \in DOMAIN templates[t].defaults :
       templates[t].defaults[i].kind = "type" =>
         templates[t].defaults[i].of \in {IntType, ClassType}
  /\ \A i, j \in DOMAIN Instances(t) : Instances(t)[i].key = Instances(t)[j].key => i = j
  /\ \A i \in DOMAIN Instances(t) :
       Untyped(Instances(t)[i].def) /\ Len(Instances(t)[i].key) = Arity(t)

TemplatesTyped == \A t \in DOMAIN templates : TemplateTyped(t)

FrameTyped(f) ==
  /\ KeyTyped(f.key) /\ (f.def = 0 \/ Untyped(f.def))
  /\ \A x \in DOMAIN f.copies : f.copies[x] \in DOMAIN defs

FramesTyped == \A i \in DOMAIN frames : FrameTyped(frames[i])

(* What one call has to remap no other one has, nor has it itself twice.   *)
TodoOnce ==
  \A i, j \in DOMAIN frames :
    \A k \in DOMAIN frames[i].todo, l \in DOMAIN frames[j].todo :
      frames[i].todo[k] = frames[j].todo[l] => i = j /\ k = l

OpenTyped ==
  open.temp # 0 =>
    /\ open.scopes # << >> /\ Sequence(open.scopes)
    /\ Range(open.scopes) \subseteq DOMAIN defs

ResultTyped == result.def = 0 \/ Untyped(result.def)

(* Typedefs of typedefs end, also once the copies are remapped: what is    *)
(* typed has a higher rank than its type, and than the copy of that.       *)
Chained(rank) ==
  /\ \A d \in DOMAIN defs :
       IF defs[d].kind = "typed" THEN rank[defs[d].type] < rank[d] ELSE rank[d] = 0
  /\ \A i \in DOMAIN frames : \A c \in Range(frames[i].todo) :
       defs[c].kind = "typed" /\ defs[c].type \in DOMAIN frames[i].copies =>
         rank[frames[i].copies[defs[c].type]] < rank[c]

ChainsEnd == \E n \in Nat : \E rank \in [DOMAIN defs -> 0..n] : Chained(rank)

Typed ==
  /\ DefsTyped /\ OwnedOnce /\ TemplatesTyped /\ FramesTyped /\ TodoOnce
  /\ OpenTyped /\ ResultTyped /\ ChainsEnd /\ Untyped(IntType) /\ Untyped(ClassType)

-----------------------------------------------------------------------------
(* What all steps have in common.                                          *)
LEMMA RefersMore ==
  ASSUME NEW g, NEW n \in Nat, NEW m \in Nat, n <= m, Refers(g, n)
  PROVE  Refers(g, m)
<1>1. 0..n \subseteq 0..m /\ 1..n \subseteq 1..m
  OBVIOUS
<1>2. QED
  BY <1>1 DEF Refers

KindsKept ==
  /\ DOMAIN defs \subseteq DOMAIN defs'
  /\ \A d \in DOMAIN defs : defs'[d].kind = defs[d].kind

LEMMA UntypedKept ==
  ASSUME KindsKept
  PROVE  /\ \A d : Untyped(d) => Untyped(d)'
         /\ \A key : KeyTyped(key) => KeyTyped(key)'
         /\ \A f : FrameTyped(f) => FrameTyped(f)'
<1>1. \A d : Untyped(d) => Untyped(d)'
  BY DEF KindsKept, Untyped
<1>2. \A key : KeyTyped(key) => KeyTyped(key)'
  BY <1>1 DEF KeyTyped
<1>3. \A f : FrameTyped(f) => FrameTyped(f)'
  BY <1>1, <1>2 DEF FrameTyped, KindsKept
<1>4. QED
  BY <1>1, <1>2, <1>3

LEMMA TemplateTypedKept ==
  ASSUME KindsKept, NEW t, TemplateTyped(t),
         templates'[t].params = templates[t].params,
         templates'[t].def = templates[t].def,
         templates'[t].defaults = templates[t].defaults,
         templates'[t].instantiations = templates[t].instantiations,
         templates'[t].general \in [DOMAIN templates'[t].general -> DOMAIN defs']
  PROVE  TemplateTyped(t)'
<1>1. DOMAIN defs \subseteq DOMAIN defs' /\ \A d : Untyped(d) => Untyped(d)'
  BY UntypedKept DEF KindsKept
<1>2. Instances(t)' = Instances(t) /\ Arity(t)' = Arity(t)
  BY DEF Instances, Arity
<1>3. QED
  BY <1>1, <1>2 DEF TemplateTyped

LEMMA TemplatesTypedKept ==
  ASSUME KindsKept, TemplatesTyped, UNCHANGED templates
  PROVE  TemplatesTyped'
<1>1. ASSUME NEW t \in DOMAIN templates
      PROVE  TemplateTyped(t)'
  <2>1. TemplateTyped(t)
    BY DEF TemplatesTyped
  <2>2. templates[t].general \in [DOMAIN templates[t].general -> DOMAIN defs']
    BY <2>1 DEF TemplateTyped, KindsKept
  <2>3. QED
    BY <2>1, <2>2, TemplateTypedKept
<1>2. QED
  BY <1>1 DEF TemplatesTyped

LEMMA FramesTypedKept ==
  ASSUME KindsKept, FramesTyped, UNCHANGED frames
  PROVE  FramesTyped'
BY UntypedKept DEF FramesTyped

LEMMA OpenTypedKept ==
  ASSUME KindsKept, OpenTyped, UNCHANGED open
  PROVE  OpenTyped'
<1>1. \A s : Sequence(s)' <=> Sequence(s)
  BY DEF Sequence
<1>2. QED
  BY <1>1 DEF OpenTyped, KindsKept

(* The calls that go on have as much to remap as they had, or one less;    *)
(* new ones have nothing to remap as yet.                                  *)
CallsLeft ==
  \A j \in DOMAIN frames' :
    \/ frames'[j].todo = << >>
    \/ /\ j \in DOMAIN frames /\ frames'[j].copies = frames[j].copies
       /\ \/ frames'[j].todo = frames[j].todo
          \/ frames[j].todo # << >> /\ frames'[j].todo = Tail(frames[j].todo)

LEMMA RestIs ==
  ASSUME NEW s, Sequence(s), s # << >>
  PROVE  /\ 1 \in DOMAIN s /\ Head(s) = s[1]
         /\ \A k \in DOMAIN Tail(s) : k + 1 \in DOMAIN s /\ Tail(s)[k] = s[k + 1]
                                      /\ k \in Nat /\ k # 0
<1>1. PICK S, t : S = Range(s) /\ t = Tail(s)
  OBVIOUS
<1>2. s \in Seq(S)
  BY <1>1 DEF Sequence
<1>3. Len(s) \in Nat /\ Len(s) # 0 /\ DOMAIN s = 1..Len(s)
  BY <1>2
<1>4. Len(t) = Len(s) - 1 /\ DOMAIN t = 1..Len(s) - 1 /\ \A k \in 1..Len(s) - 1 : t[k] = s[k + 1]
  BY <1>1, <1>2, <1>3
<1>5. Head(s) = s[1]
  BY <1>2
<1>6. \A k \in 1..Len(s) - 1 : k + 1 \in 1..Len(s) /\ k \in Nat /\ k # 0
  BY <1>3
<1>7. QED
  BY <1>1, <1>3, <1>4, <1>5, <1>6

LEMMA TodoKept ==
  ASSUME FramesSound, TodoOnce, CallsLeft
  PROVE  /\ TodoOnce'
         /\ \A j \in DOMAIN frames' : \A c \in Range(frames'[j].todo) :
              /\ j \in DOMAIN frames /\ frames'[j].copies = frames[j].copies
              /\ c \in Range(frames[j].todo)
<1>1. ASSUME NEW j \in DOMAIN frames', NEW k \in DOMAIN frames'[j].todo
      PROVE  /\ j \in DOMAIN frames /\ frames'[j].copies = frames[j].copies
             /\ \/ /\ frames'[j].todo = frames[j].todo /\ k \in DOMAIN frames[j].todo
                   /\ frames'[j].todo[k] = frames[j].todo[k]
                \/ /\ frames'[j].todo = Tail(frames[j].todo) /\ frames[j].todo # << >>
                   /\ k + 1 \in DOMAIN frames[j].todo
                   /\ frames'[j].todo[k] = frames[j].todo[k + 1] /\ k \in Nat
  <2>1. frames'[j].todo # << >>
    OBVIOUS
  <2>2. /\ j \in DOMAIN frames /\ frames'[j].copies = frames[j].copies
        /\ \/ frames'[j].todo = frames[j].todo
           \/ frames[j].todo # << >> /\ frames'[j].todo = Tail(frames[j].todo)
    BY <2>1 DEF CallsLeft
  <2>3. PICK s : s = frames[j].todo
    OBVIOUS
  <2>4. Sequence(s)
    BY <2>2, <2>3 DEF FramesSound, FrameSound
  <2>5. s # << >> => \A l \in DOMAIN Tail(s) : l + 1 \in DOMAIN s /\ Tail(s)[l] = s[l + 1] /\ l \in Nat
    BY <2>4, RestIs
  <2>6. QED
    BY <2>2, <2>3, <2>5
<1>2. ASSUME NEW i \in DOMAIN frames', NEW j \in DOMAIN frames',
             NEW k \in DOMAIN frames'[i].todo, NEW l \in DOMAIN frames'[j].todo,
             frames'[i].todo[k] = frames'[j].todo[l]
      PROVE  i = j /\ k = l
  <2>1. i \in DOMAIN frames /\ j \in DOMAIN frames
    BY <1>1
  <2>2. PICK kk, ll : /\ kk \in DOMAIN frames[i].todo /\ ll \in DOMAIN frames[j].todo
                      /\ frames'[i].todo[k] = frames[i].todo[kk]
                      /\ frames'[j].todo[l] = frames[j].todo[ll]
                      /\ \/ frames'[i].todo = frames[i].todo /\ kk = k
                         \/ /\ frames'[i].todo = Tail(frames[i].todo) /\ kk = k + 1 /\ k \in Nat
                            /\ frames[i].todo # << >>
                      /\ \/ frames'[j].todo = frames[j].todo /\ ll = l
                         \/ /\ frames'[j].todo = Tail(frames[j].todo) /\ ll = l + 1 /\ l \in Nat
                            /\ frames[j].todo # << >>
    BY <1>1
  <2>3. i = j /\ kk = ll
    <3>1. frames[i].todo[kk] = frames[j].todo[ll]
      BY <1>2, <2>2
    <3>2. \A a \in DOMAIN frames[i].todo, b \in DOMAIN frames[j].todo :
            frames[i].todo[a] = frames[j].todo[b] => i = j /\ a = b
      BY <2>1 DEF TodoOnce
    <3>3. QED
      BY <2>2, <3>1, <3>2
  <2>4. ASSUME frames[i].todo # << >>
        PROVE  frames[i].todo # Tail(frames[i].todo)
    <3>1. PICK s : s = frames[i].todo
      OBVIOUS
    <3>2. Sequence(s) /\ s # << >>
      BY <2>1, <2>4, <3>1 DEF FramesSound, FrameSound
    <3>3. s \in Seq(Range(s)) /\ Len(s) \in Nat
      BY <3>2 DEF Sequence
    <3>4. PICK t : t = Tail(s)
      OBVIOUS
    <3>5. Len(t) = Len(s) - 1
      BY <3>2, <3>3, <3>4
    <3>6. t # s
      BY <3>3, <3>5
    <3>7. QED
      BY <3>1, <3>4, <3>6
  <2>5. QED
    BY <2>2, <2>3, <2>4
<1>3. QED
  BY <1>1, <1>2 DEF TodoOnce, Range

(* What is typed keeps its type, or gets the copy of it.                   *)
LEMMA ChainsKept ==
  ASSUME FramesSound, TodoOnce, ChainsEnd, CallsLeft, DOMAIN defs' = DOMAIN defs,
         \A d \in DOMAIN defs :
           /\ defs'[d].kind = defs[d].kind
           /\ defs[d].kind = "typed" =>
                \/ defs'[d].type = defs[d].type
                \/ /\ \E i \in DOMAIN frames :
                        /\ d \in Range(frames[i].todo)
                        /\ defs[d].type \in DOMAIN frames[i].copies
                        /\ defs'[d].type = frames[i].copies[defs[d].type]
                   /\ \A j \in DOMAIN frames' : d \notin Range(frames'[j].todo)
  PROVE  ChainsEnd'
<1>1. PICK n \in Nat : \E rank \in [DOMAIN defs -> 0..n] : Chained(rank)
  BY DEF ChainsEnd
<1>2. PICK rank \in [DOMAIN defs -> 0..n] : Chained(rank)
  BY <1>1
<1>3. ASSUME NEW d \in DOMAIN defs
      PROVE  IF defs'[d].kind = "typed" THEN rank[defs'[d].type] < rank[d] ELSE rank[d] = 0
  <2>1. IF defs[d].kind = "typed" THEN rank[defs[d].type] < rank[d] ELSE rank[d] = 0
    BY <1>2 DEF Chained
  <2>2. CASE defs[d].kind # "typed" \/ defs'[d].type = defs[d].type
    BY <2>1, <2>2
  <2>3. CASE defs[d].kind = "typed" /\ defs'[d].type # defs[d].type
    <3>1. PICK i \in DOMAIN frames : /\ d \in Range(frames[i].todo)
                                     /\ defs[d].type \in DOMAIN frames[i].copies
                                     /\ defs'[d].type = frames[i].copies[defs[d].type]
      BY <2>3
    <3>2. rank[frames[i].copies[defs[d].type]] < rank[d]
      BY <1>2, <2>3, <3>1 DEF Chained
    <3>3. QED
      BY <2>3, <3>1, <3>2
  <2>4. QED
    BY <2>2, <2>3
<1>4. ASSUME NEW j \in DOMAIN frames', NEW c \in Range(frames'[j].todo),
             defs'[c].kind = "typed", defs'[c].type \in DOMAIN frames'[j].copies
      PROVE  rank[frames'[j].copies[defs'[c].type]] < rank[c]
  <2>1. /\ j \in DOMAIN frames /\ frames'[j].copies = frames[j].copies
        /\ c \in Range(frames[j].todo)
    BY TodoKept
  <2>2. c \in DOMAIN defs
    BY <2>1 DEF FramesSound, FrameSound
  <2>3. defs[c].kind = "typed" /\ defs'[c].type = defs[c].type
    BY <1>4, <2>2
  <2>4. rank[frames[j].copies[defs[c].type]] < rank[c]
    BY <1>2, <1>4, <2>1, <2>3 DEF Chained
  <2>5. QED
    BY <2>1, <2>3, <2>4
<1>5. Chained(rank)'
  BY <1>3, <1>4 DEF Chained
<1>6. QED
  BY <1>5 DEF ChainsEnd

LEMMA DefsTypedKept ==
  ASSUME DefsTyped, OwnedOnce, UNCHANGED defs
  PROVE  DefsTyped' /\ OwnedOnce' /\ KindsKept
BY DEF DefsTyped, Refers, OwnedOnce, KindsKept

LEMMA OneTyped ==
  ASSUME DefsSound, DefsTyped, OwnedOnce, NEW x, NEW r, defs' = [defs EXCEPT ![x] = r],
         x \in DOMAIN defs =>
           r.kind = defs[x].kind /\ r.order = defs[x].order /\ Refers(r, Len(defs))
  PROVE  /\ DefsTyped' /\ OwnedOnce' /\ KindsKept /\ DOMAIN defs' = DOMAIN defs
         /\ \A d \in DOMAIN defs : defs'[d] = IF d = x THEN r ELSE defs[d]
<1>1. /\ Len(defs') = Len(defs) /\ DOMAIN defs' = DOMAIN defs
      /\ \A d \in DOMAIN defs : defs'[d] = IF d = x THEN r ELSE defs[d]
  BY Updated DEF DefsSound
<1>2. \A d \in DOMAIN defs : Refers(defs'[d], Len(defs'))
  BY <1>1 DEF DefsTyped
<1>3. \A d \in DOMAIN defs : defs'[d].kind = defs[d].kind /\ defs'[d].order = defs[d].order
  BY <1>1
<1>4. DefsTyped'
  BY <1>1, <1>2 DEF DefsTyped, Refers
<1>5. OwnedOnce'
  BY <1>1, <1>3 DEF OwnedOnce
<1>6. QED
  BY <1>1, <1>3, <1>4, <1>5 DEF KindsKept

(* A step of the calls, which changes at most one definition.              *)
LEMMA CallTyped ==
  ASSUME Sound, Typed, UNCHANGED <<open, result>>, CallsLeft,
         NEW x, NEW r, defs' = [defs EXCEPT ![x] = r],
         x \in DOMAIN defs =>
           /\ r.kind = defs[x].kind /\ r.order = defs[x].order /\ Refers(r, Len(defs))
           /\ r.kind = "typed" =>
                \/ r.type = defs[x].type
                \/ /\ \E i \in DOMAIN frames :
                        /\ x \in Range(frames[i].todo)
                        /\ defs[x].type \in DOMAIN frames[i].copies
                        /\ r.type = frames[i].copies[defs[x].type]
                   /\ \A j \in DOMAIN frames' : x \notin Range(frames'[j].todo),
         \A j \in DOMAIN frames' : FrameTyped(frames'[j]),
         UNCHANGED templates
  PROVE  Typed'
<1>1. /\ DefsTyped' /\ OwnedOnce' /\ KindsKept /\ DOMAIN defs' = DOMAIN defs
      /\ \A d \in DOMAIN defs : defs'[d] = IF d = x THEN r ELSE defs[d]
  BY OneTyped DEF Sound, Typed
<1>2. TemplatesTyped' /\ OpenTyped'
  BY <1>1, TemplatesTypedKept, OpenTypedKept DEF Typed
<1>3. FramesTyped'
  <2>1. \A f : FrameTyped(f) => FrameTyped(f)'
    BY <1>1, UntypedKept
  <2>2. QED
    BY <2>1 DEF FramesTyped
<1>4. TodoOnce'
  BY TodoKept DEF Sound, Typed
<1>5. ChainsEnd'
  BY <1>1, ChainsKept DEF Sound, Typed
<1>6. ResultTyped' /\ Untyped(IntType)' /\ Untyped(ClassType)'
  <2>1. \A d : Untyped(d) => Untyped(d)'
    BY <1>1, UntypedKept
  <2>2. QED
    BY <2>1 DEF Typed, ResultTyped, IntType, ClassType
<1>7. QED
  BY <1>1, <1>2, <1>3, <1>4, <1>5, <1>6 DEF Typed

(* The same with no definition changed.                                    *)
LEMMA CallTypedSame ==
  ASSUME Sound, Typed, UNCHANGED <<defs, templates, open>>, CallsLeft,
         \A j \in DOMAIN frames' : FrameTyped(frames'[j]),
         ResultTyped'
  PROVE  Typed'
<1>1. DefsTyped' /\ OwnedOnce' /\ KindsKept
  BY DefsTypedKept DEF Typed
<1>2. TemplatesTyped' /\ OpenTyped'
  BY <1>1, TemplatesTypedKept, OpenTypedKept DEF Typed
<1>3. FramesTyped'
  <2>1. \A f : FrameTyped(f) => FrameTyped(f)'
    BY <1>1, UntypedKept
  <2>2. QED
    BY <2>1 DEF FramesTyped
<1>4. TodoOnce'
  BY TodoKept DEF Sound, Typed
<1>5. ChainsEnd'
  BY ChainsKept DEF Sound, Typed
<1>6. Untyped(IntType)' /\ Untyped(ClassType)'
  <2>1. \A d : Untyped(d) => Untyped(d)'
    BY <1>1, UntypedKept
  <2>2. QED
    BY <2>1 DEF Typed, IntType, ClassType
<1>7. QED
  BY <1>1, <1>2, <1>3, <1>4, <1>5, <1>6 DEF Typed

-----------------------------------------------------------------------------
(* The steps of the calls.                                                 *)
Went(f, g) ==
  \/ g.todo = << >>
  \/ /\ g.copies = f.copies
     /\ g.todo = f.todo \/ (f.todo # << >> /\ g.todo = Tail(f.todo))

LEMMA TopReplaced ==
  ASSUME FramesSound, frames # << >>, NEW f, frames' = Append(Caller, f)
  PROVE  /\ DOMAIN frames' = DOMAIN frames
         /\ \A j \in DOMAIN frames : frames'[j] = IF j = Len(frames) THEN f ELSE frames[j]
<1> DEFINE n == Len(frames)
<1>1. /\ n \in Nat \ {0} /\ frame = frames[n] /\ n \in DOMAIN frames
      /\ Sequence(Caller) /\ Len(Caller) = n - 1
      /\ \A i \in 1..n - 1 : Caller[i] = frames[i]
  BY TopIs
<1>2. DOMAIN frames = 1..n
  BY SequenceIs DEF FramesSound
<1>3. /\ DOMAIN frames' = 1..n - 1 + 1 /\ frames'[n - 1 + 1] = f
      /\ \A i \in 1..n - 1 : frames'[i] = Caller[i]
  BY <1>1, Appended
<1> HIDE DEF n
<1>4. n - 1 + 1 = n /\ \A j \in 1..n : j = n \/ (j \in 1..n - 1 /\ j # n)
  BY <1>1
<1>5. /\ DOMAIN frames' = DOMAIN frames
      /\ \A j \in DOMAIN frames : frames'[j] = IF j = n THEN f ELSE frames[j]
  BY <1>1, <1>2, <1>3, <1>4
<1>6. QED
  BY <1>5 DEF n

LEMMA TopLeft ==
  ASSUME FramesSound, FramesTyped, frames # << >>,
         NEW f, frames' = Append(Caller, f), Went(frame, f), FrameTyped(f)
  PROVE  /\ CallsLeft /\ \A j \in DOMAIN frames' : FrameTyped(frames'[j])
         /\ DOMAIN frames' = DOMAIN frames
         /\ \A j \in DOMAIN frames : frames'[j] = IF j = Len(frames) THEN f ELSE frames[j]
<1>1. frame = frames[Len(frames)]
  BY TopIs
<1>2. /\ DOMAIN frames' = DOMAIN frames
      /\ \A j \in DOMAIN frames : frames'[j] = IF j = Len(frames) THEN f ELSE frames[j]
  BY TopReplaced
<1>3. CallsLeft
  BY <1>1, <1>2 DEF CallsLeft, Went
<1>4. \A j \in DOMAIN frames' : FrameTyped(frames'[j])
  BY <1>2 DEF FramesTyped
<1>5. QED
  BY <1>2, <1>3, <1>4

(* The call that runs makes another.                                       *)
LEMMA CalledIs ==
  ASSUME FramesSound, frames # << >>, NEW f, NEW g,
         \/ frames' = Caller \o <<f, g>>
         \/ frames' = Append(Append(Caller, f), g)
  PROVE  /\ DOMAIN frames' = 1..Len(frames) + 1
         /\ \A i \in 1..Len(frames) - 1 : frames'[i] = frames[i]
         /\ frames'[Len(frames)] = f /\ frames'[Len(frames) + 1] = g
<1>0. PICK n : n = Len(frames)
  OBVIOUS
<1>1. /\ n \in Nat \ {0} /\ Sequence(Caller) /\ Len(Caller) = n - 1
      /\ \A i \in 1..n - 1 : Caller[i] = frames[i]
  BY <1>0, TopIs
<1>2. n - 1 + 1 = n /\ (n - 1) + 2 = n + 1 /\ n \in 1..n /\ \A i \in 1..n - 1 : i \in 1..n
  BY <1>1
<1>3. CASE frames' = Append(Append(Caller, f), g)
  <2>1. PICK s : s = Append(Caller, f)
    OBVIOUS
  <2>2. /\ Sequence(s) /\ Len(s) = n /\ \A i \in 1..n - 1 : s[i] = frames[i]
        /\ s[n] = f
    BY <1>1, <1>2, <2>1, Appended
  <2>3. /\ DOMAIN frames' = 1..Len(s) + 1 /\ \A i \in 1..Len(s) : frames'[i] = s[i]
        /\ frames'[Len(s) + 1] = g
    BY <1>3, <2>1, <2>2, Appended
  <2>4. QED
    BY <1>0, <1>2, <2>2, <2>3
<1>4. CASE frames' = Caller \o <<f, g>>
  <2>1. PICK two : two = <<f, g>>
    OBVIOUS
  <2>2. /\ Sequence(two) /\ Len(two) = 2 /\ two[1] = f /\ two[2] = g
    <3>1. /\ two \in [1..2 -> {f, g}] /\ Len(two) = 2 /\ two[1] = f /\ two[2] = g
      BY <2>1
    <3>2. DOMAIN two = 1..2 /\ two = [i \in 1..2 |-> two[i]]
      BY <3>1
    <3>3. QED
      BY <3>1, <3>2, SequenceOf
  <2>3. /\ DOMAIN frames' = 1..(n - 1) + 2
        /\ \A i \in 1..n - 1 : frames'[i] = Caller[i]
        /\ \A i \in (n - 1) + 1..(n - 1) + 2 : frames'[i] = two[i - (n - 1)]
    BY <1>1, <1>4, <2>1, <2>2, Concatenated
  <2>4. /\ n \in (n - 1) + 1..(n - 1) + 2 /\ n + 1 \in (n - 1) + 1..(n - 1) + 2
        /\ n - (n - 1) = 1 /\ (n + 1) - (n - 1) = 2
    BY <1>1
  <2>5. QED
    BY <1>0, <1>1, <1>2, <2>2, <2>3, <2>4
<1>5. QED
  BY <1>3, <1>4

LEMMA CalledLeft ==
  ASSUME FramesSound, FramesTyped, frames # << >>, NEW f, NEW g,
         \/ frames' = Caller \o <<f, g>>
         \/ frames' = Append(Append(Caller, f), g),
         Went(frame, f), FrameTyped(f), g.todo = << >>, FrameTyped(g)
  PROVE  /\ CallsLeft /\ \A j \in DOMAIN frames' : FrameTyped(frames'[j])
         /\ frames'[Len(frames)] = f /\ frames'[Len(frames) + 1] = g
         /\ \A j \in DOMAIN frames' : j = Len(frames) \/ j = Len(frames) + 1
                                      \/ (j \in DOMAIN frames /\ frames'[j] = frames[j])
<1> DEFINE n == Len(frames)
<1>1. /\ DOMAIN frames' = 1..n + 1 /\ \A i \in 1..n - 1 : frames'[i] = frames[i]
      /\ frames'[n] = f /\ frames'[n + 1] = g
  BY CalledIs
<1>2. n \in Nat \ {0} /\ frame = frames[n] /\ n \in DOMAIN frames /\ DOMAIN frames = 1..n
  BY TopIs, SequenceIs DEF FramesSound
<1> HIDE DEF n
<1>3. \A j \in 1..n + 1 : j = n \/ j = n + 1 \/ (j \in 1..n - 1 /\ j \in 1..n)
  BY <1>2
<1>4. CallsLeft
  BY <1>1, <1>2, <1>3 DEF CallsLeft, Went
<1>5. \A j \in DOMAIN frames' : FrameTyped(frames'[j])
  BY <1>1, <1>2, <1>3 DEF FramesTyped
<1>6. QED
  BY <1>1, <1>2, <1>3, <1>4, <1>5 DEF n

LEMMA CallerLeft ==
  ASSUME FramesSound, FramesTyped, frames # << >>, frames' = Caller
  PROVE  /\ CallsLeft /\ \A j \in DOMAIN frames' : FrameTyped(frames'[j])
<1>1. /\ Len(frames) \in Nat \ {0} /\ Sequence(Caller) /\ Len(Caller) = Len(frames) - 1
      /\ \A i \in 1..Len(frames) - 1 : Caller[i] = frames[i]
  BY TopIs
<1>2. DOMAIN frames = 1..Len(frames) /\ DOMAIN Caller = 1..Len(frames) - 1
  BY <1>1, SequenceIs DEF FramesSound
<1>3. \A j \in DOMAIN frames' : j \in DOMAIN frames /\ frames'[j] = frames[j]
  BY <1>1, <1>2
<1>4. QED
  BY <1>3 DEF CallsLeft, FramesTyped

LEMMA TopTyped ==
  ASSUME Sound, Typed, frames # << >>
  PROVE  FrameTyped(frame)
BY TopIs DEF Sound, Typed, FramesTyped

(* The call returns.                                                       *)
LEMMA ReturnsTyped ==
  ASSUME Sound, Typed, frames # << >>, UNCHANGED <<defs, templates, open, result>>,
         NEW d, d = 0 \/ Untyped(d), frames' = Returning(d)
  PROVE  Typed'
<1>1. PICK f : f = [frame EXCEPT !.at = "return", !.def = d]
  OBVIOUS
<1>2. DOMAIN frame = FrameFields
  BY TopIs DEF Sound
<1>3. f.key = frame.key /\ f.def = d /\ f.copies = frame.copies /\ f.todo = frame.todo
  BY <1>1, <1>2 DEF FrameFields
<1>4. FrameTyped(f)
  BY <1>3, TopTyped DEF FrameTyped
<1>5. frames' = Append(Caller, f) /\ Went(frame, f)
  BY <1>1, <1>3 DEF Returning, Went
<1>6. CallsLeft /\ \A j \in DOMAIN frames' : FrameTyped(frames'[j])
  BY <1>4, <1>5, TopLeft DEF Sound, Typed
<1>7. ResultTyped'
  BY DEF Typed, ResultTyped, Untyped
<1>8. QED
  BY <1>6, <1>7, CallTypedSame

LEMMA BailTyped ==
  ASSUME Sound, Typed, Bail
  PROVE  Typed'
<1>1. frames # << >> /\ frames' = Returning(0) /\ UNCHANGED <<defs, templates, open, result>>
  BY DEF Bail, Entering
<1>2. QED
  BY <1>1, ReturnsTyped

LEMMA ReuseTyped ==
  ASSUME Sound, Typed, Reuse
  PROVE  Typed'
<1>1. /\ frames # << >> /\ Existing # {} /\ UNCHANGED <<defs, templates, open, result>>
      /\ frames' = Returning(Instances(frame.temp)[Min(Existing)].def)
  BY DEF Reuse, Entering
<1>2. frame.temp \in DOMAIN templates
  BY <1>1, TopIs DEF Sound
<1>3. Min(Existing) \in DOMAIN Instances(frame.temp)
  <2>1. Sequence(Instances(frame.temp))
    BY <1>2 DEF Sound, TemplatesSound, TemplateSound, InstancesSound
  <2>2. Existing \subseteq Nat
    <3>1. DOMAIN Instances(frame.temp) \subseteq Nat
      BY <2>1, SequenceIs
    <3>2. QED
      BY <3>1 DEF Existing
  <2>3. Min(Existing) \in Existing
    BY <1>1, <2>2, MinIs
  <2>4. QED
    BY <2>3 DEF Existing
<1>4. Untyped(Instances(frame.temp)[Min(Existing)].def)
  BY <1>2, <1>3 DEF Typed, TemplatesTyped, TemplateTyped
<1>5. QED
  BY <1>1, <1>4, ReturnsTyped

LEMMA FinishTyped ==
  ASSUME Sound, Typed, Finish
  PROVE  Typed'
<1>1. /\ frames # << >> /\ frames' = Returning(frame.def)
      /\ UNCHANGED <<defs, templates, open, result>>
  BY DEF Finish
<1>2. frame.def = 0 \/ Untyped(frame.def)
  BY <1>1, TopTyped DEF FrameTyped
<1>3. QED
  BY <1>1, <1>2, ReturnsTyped

LEMMA FrameStarts ==
  ASSUME NEW t, NEW key, NEW to, NEW of
  PROVE  LET f == Frame(t, key, to, of) IN
         f.key = key /\ f.def = 0 /\ f.copies = << >> /\ f.todo = << >>
BY DEF Frame

LEMMA FrameStartsTyped ==
  ASSUME NEW t, NEW key, KeyTyped(key), NEW to, NEW of
  PROVE  Frame(t, key, to, of).todo = << >> /\ FrameTyped(Frame(t, key, to, of))
<1>1. DOMAIN << >> = {}
  OBVIOUS
<1>2. QED
  BY <1>1, FrameStarts DEF FrameTyped

LEMMA SpecializedTyped ==
  ASSUME Sound, Typed, Specialized
  PROVE  Typed'
<1>1. frames # << >> /\ Chosen # 0 /\ UNCHANGED <<defs, templates, open, result>>
  BY DEF Specialized, Entering
<1>2. PICK spec, f, key, g :
        /\ spec = templates[frame.temp].specializations[Chosen]
        /\ f = [frame EXCEPT !.at = "remap"]
        /\ key = SpecializedKey(spec, frame.key)
        /\ g = Frame(spec.temp, key, "specialized", 0)
  OBVIOUS
<1>3. frames' = Caller \o <<f, g>>
  BY <1>2 DEF Specialized
<1>4. /\ DOMAIN frame = FrameFields /\ frame.temp \in DOMAIN templates
      /\ Argued(Arity(frame.temp), frame.key) /\ FrameTyped(frame)
  BY <1>1, TopIs, TopTyped DEF Sound
<1>5. f.key = frame.key /\ f.def = frame.def /\ f.copies = frame.copies /\ f.todo = frame.todo
  BY <1>2, <1>4 DEF FrameFields
<1>6. FrameTyped(f) /\ Went(frame, f)
  BY <1>4, <1>5 DEF FrameTyped, Went
<1>7. SpecializationSound(frame.temp, spec)
  <2>1. Chosen \in Fitting(frame.temp, frame.key)
    BY <1>1, ChosenIs DEF Sound
  <2>2. QED
    BY <1>2, <1>4, <2>1 DEF Sound, TemplatesSound, TemplateSound, Fitting
<1>8. KeyTyped(key)
  <2>1. PICK r \in program.patterns :
          Len(r.args) = Arity(frame.temp) /\ spec.inds = Positions(r.list, r.args)
    BY <1>7 DEF SpecializationSound
  <2>2. /\ Argued(Len(r.list), key)
        /\ \A p \in 1..Len(r.list) : \E i \in DOMAIN frame.key : key[p] = frame.key[i]
    BY <1>2, <1>4, <2>1, SpecializedKeyIs DEF Sound
  <2>3. KeyTyped(frame.key)
    BY <1>4 DEF FrameTyped
  <2>4. QED
    BY <2>2, <2>3 DEF KeyTyped, Argued
<1>9. g.todo = << >> /\ FrameTyped(g)
  BY <1>2, <1>8, FrameStartsTyped
<1>10. CallsLeft /\ \A j \in DOMAIN frames' : FrameTyped(frames'[j])
  BY <1>1, <1>3, <1>6, <1>9, CalledLeft DEF Sound, Typed
<1>11. ResultTyped'
  BY <1>1 DEF Typed, ResultTyped, Untyped
<1>12. QED
  BY <1>1, <1>10, <1>11, CallTypedSame

(* What stands for a type in the end is a definition, and no typedef.      *)
Unrolls(f) == f = [d \in DOMAIN defs |-> IF defs[d].kind = "typed" THEN f[defs[d].type] ELSE d]

LEMMA UnrollsAre ==
  ASSUME DefsSound, DefsTyped, ChainsEnd, DOMAIN defs # {}
  PROVE  \E f : Unrolls(f) /\ \A x : Unrolled(x) = f[x]
<1> DEFINE D == DOMAIN defs
           step == [d \in D |-> [g \in [D -> D] |->
                      IF defs[d].kind = "typed" THEN g[defs[d].type] ELSE d]]
           unrolled == CHOOSE f : Unrolls(f)
<1>1. PICK n \in Nat : \E rank \in [D -> 0..n] : Chained(rank)
  BY DEF ChainsEnd
<1>2. PICK rank \in [D -> 0..n] : Chained(rank)
  BY <1>1
<1>3. \A d \in D : defs[d].kind = "typed" =>
                     defs[d].type \in D /\ rank[defs[d].type] < rank[d]
  <2>1. Len(defs) \in Nat /\ D = 1..Len(defs)
    BY SequenceIs DEF DefsSound
  <2>2. \A d \in D : defs[d].kind = "typed" => defs[d].type \in 0..Len(defs) /\ defs[d].type # 0
    BY DEF DefsTyped, Refers
  <2>3. \A k \in 0..Len(defs) : k # 0 => k \in 1..Len(defs)
    BY <2>1
  <2>4. QED
    BY <1>2, <2>1, <2>2, <2>3 DEF Chained
<1>4. Ranked(D, D, rank, step)
  <2>1. step \in [D -> [[D -> D] -> D]]
    BY <1>3
  <2>2. ASSUME NEW d \in D, NEW g \in [D -> D], NEW h \in [D -> D],
               \A c \in D : rank[c] < rank[d] => g[c] = h[c]
        PROVE  step[d][g] = step[d][h]
    BY <1>3, <2>2
  <2>3. QED
    BY <2>1, <2>2 DEF Ranked
<1>5. PICK g \in [D -> D] : \A d \in D : g[d] = step[d][g]
  <2>1. D # {}
    OBVIOUS
  <2>2. PICK DD, V, ss : DD = D /\ V = D /\ ss = step
    OBVIOUS
  <2>3. rank \in [DD -> 0..n] /\ V # {} /\ Ranked(DD, V, rank, ss)
    BY <1>2, <1>4, <2>1, <2>2
  <2>4. \E g \in [DD -> V] : \A d \in DD : g[d] = ss[d][g]
    BY <2>3, RankedDescent
  <2> HIDE DEF D, step
  <2>5. QED
    BY <2>2, <2>4
<1>6. Unrolls(g)
  BY <1>5 DEF Unrolls
<1>7. Unrolls(unrolled)
  BY <1>6
<1>8. \A x : Unrolled(x) = unrolled[x]
  BY DEF Unrolled, Unrolls
<1>9. QED
  <2> HIDE DEF unrolled
  <2>1. QED
    BY <1>7, <1>8

LEMMA UnrolledIs ==
  ASSUME DefsSound, DefsTyped, ChainsEnd, NEW x \in DOMAIN defs
  PROVE  Untyped(Unrolled(x))
<1> DEFINE D == DOMAIN defs
<1>1. PICK n \in Nat : \E rank \in [D -> 0..n] : Chained(rank)
  BY DEF ChainsEnd
<1>2. PICK rank \in [D -> 0..n] : Chained(rank)
  BY <1>1
<1>3. PICK unrolled : Unrolls(unrolled) /\ \A d : Unrolled(d) = unrolled[d]
  BY UnrollsAre
<1>4. \A d \in D : unrolled[d] = IF defs[d].kind = "typed" THEN unrolled[defs[d].type] ELSE d
  BY <1>3 DEF Unrolls
<1>5. \A d \in D : defs[d].kind = "typed" =>
                     defs[d].type \in D /\ rank[defs[d].type] < rank[d]
  <2>1. Len(defs) \in Nat /\ D = 1..Len(defs)
    BY SequenceIs DEF DefsSound
  <2>2. \A d \in D : defs[d].kind = "typed" => defs[d].type \in D
    BY <2>1 DEF DefsTyped, Refers
  <2>3. QED
    BY <1>2, <2>2 DEF Chained
<1> DEFINE T == {d \in D : Untyped(unrolled[d])}
<1>6. \A d \in D : (\A c \in D : rank[c] < rank[d] => c \in T) => d \in T
  BY <1>4, <1>5 DEF Untyped
<1>7. D \subseteq T
  <2>1. Hereditary(D, rank, T)
    <3> HIDE DEF T, D
    <3>1. QED
      BY <1>6 DEF Hereditary
  <2> HIDE DEF T, D
  <2>2. QED
    BY <1>2, <2>1, RankedInduction
<1>8. QED
  BY <1>3, <1>7

LEMMA FilterIs ==
  ASSUME Sound, Typed, frames # << >>
  PROVE  /\ \A x \in 0..Len(defs) : filter(x) \in 0..Len(defs) /\ (x # 0 => filter(x) # 0)
         /\ \A x \in 1..Len(defs) : filter(x) \in 1..Len(defs)
<1>1. Len(defs) \in Nat /\ DOMAIN defs = 1..Len(defs)
  BY SequenceIs DEF Sound, DefsSound
<1>2. \A x \in DOMAIN frame.copies : frame.copies[x] \in 1..Len(defs)
  BY <1>1, TopTyped DEF FrameTyped
<1>3. \A k \in 1..Len(defs) : k \in 0..Len(defs) /\ k # 0
  BY <1>1
<1>4. QED
  BY <1>2, <1>3 DEF filter

LEMMA RemappedTyped ==
  ASSUME Sound, Typed, frames # << >>,
         NEW g, DOMAIN g = DefinitionFields, Refers(g, Len(defs))
  PROVE  /\ Remapped(g).kind = g.kind /\ Refers(Remapped(g), Len(defs))
         /\ g.kind = "typed" => Remapped(g).type = filter(g.type)
<1>1. /\ \A x \in 0..Len(defs) : filter(x) \in 0..Len(defs) /\ (x # 0 => filter(x) # 0)
      /\ \A x \in 1..Len(defs) : filter(x) \in 1..Len(defs)
  BY FilterIs
<1>2. CASE g.kind = "typed"
  <2>1. PICK type, parent : type = filter(g.type) /\ parent = filter(g.parent)
    OBVIOUS
  <2>2. Remapped(g) = [g EXCEPT !.type = type, !.parent = parent]
    BY <1>2, <2>1 DEF Remapped
  <2>3. type \in 0..Len(defs) /\ type # 0 /\ parent \in 0..Len(defs)
    BY <1>1, <1>2, <2>1 DEF Refers
  <2>4. PICK r : r = Remapped(g)
    OBVIOUS
  <2>5. /\ r.kind = g.kind /\ r.type = type /\ r.parent = parent /\ r.value = g.value
        /\ r.base = g.base /\ r.expr = g.expr /\ r.general = g.general
    BY <2>2, <2>4 DEF DefinitionFields
  <2>6. QED
    BY <1>2, <2>1, <2>3, <2>4, <2>5 DEF Refers
<1>3. CASE g.kind = "class"
  <2>1. PICK parent, base, general :
          /\ parent = filter(g.parent) /\ base = RemappedBase(g.base)
          /\ general = [x \in DOMAIN g.general |-> filter(g.general[x])]
    OBVIOUS
  <2>2. Remapped(g) = [g EXCEPT !.parent = parent, !.base = base, !.general = general]
    BY <1>3, <2>1 DEF Remapped, DefinitionFields
  <2>3. parent \in 0..Len(defs)
    BY <1>1, <2>1 DEF Refers
  <2>4. base \in 0..Len(defs)
    <3>1. Len(defs) \in Nat /\ DOMAIN defs = 1..Len(defs)
      BY SequenceIs DEF Sound, DefsSound
    <3>2. g.base \in 0..Len(defs) /\ \A k \in 0..Len(defs) : k # 0 => k \in 1..Len(defs)
      BY <3>1 DEF Refers
    <3>3. g.base # 0 => filter(g.base) \in DOMAIN defs
      BY <1>1, <3>1, <3>2
    <3>4. g.base # 0 => Unrolled(filter(g.base)) \in DOMAIN defs
      BY <3>3, UnrolledIs DEF Sound, Typed, Untyped
    <3>5. \A k \in 1..Len(defs) : k \in 0..Len(defs)
      BY <3>1
    <3>6. QED
      BY <2>1, <3>1, <3>2, <3>4, <3>5 DEF RemappedBase
  <2>5. \A x \in DOMAIN general : general[x] \in 1..Len(defs)
    BY <1>1, <2>1 DEF Refers
  <2>6. PICK r : r = Remapped(g)
    OBVIOUS
  <2>7. /\ r.kind = g.kind /\ r.type = g.type /\ r.parent = parent /\ r.value = g.value
        /\ r.base = base /\ r.expr = g.expr /\ r.general = general
    BY <2>2, <2>6 DEF DefinitionFields
  <2>8. QED
    BY <1>3, <2>3, <2>4, <2>5, <2>6, <2>7 DEF Refers
<1>4. CASE g.kind # "typed" /\ g.kind # "class"
  BY <1>4 DEF Remapped
<1>5. QED
  BY <1>2, <1>3, <1>4

(* The definition that is remapped next is no one's to remap afterwards.   *)
LEMMA NextIs ==
  ASSUME Sound, Typed, Remapping
  PROVE  /\ frames # << >> /\ frame.todo # << >> /\ Len(frames) \in DOMAIN frames
         /\ frame = frames[Len(frames)] /\ DOMAIN frame = FrameFields
         /\ next \in DOMAIN defs /\ next \in Range(frame.todo)
         /\ next \notin Range(Tail(frame.todo))
         /\ \A j \in DOMAIN frames : j # Len(frames) => next \notin Range(frames[j].todo)
<1>1. frames # << >> /\ frame.todo # << >>
  BY DEF Remapping
<1>2. /\ Len(frames) \in DOMAIN frames /\ frame = frames[Len(frames)]
      /\ DOMAIN frame = FrameFields
      /\ Sequence(frame.todo) /\ Range(frame.todo) \subseteq DOMAIN defs
  BY <1>1, TopIs DEF Sound
<1>3. PICK s, n : s = frame.todo /\ n = Len(frames)
  OBVIOUS
<1>4. /\ 1 \in DOMAIN s /\ next = s[1]
      /\ \A k \in DOMAIN Tail(s) : k + 1 \in DOMAIN s /\ Tail(s)[k] = s[k + 1] /\ k + 1 # 1
  <2>1. /\ 1 \in DOMAIN s /\ Head(s) = s[1]
        /\ \A k \in DOMAIN Tail(s) : k + 1 \in DOMAIN s /\ Tail(s)[k] = s[k + 1]
                                     /\ k \in Nat /\ k # 0
    BY <1>1, <1>2, <1>3, RestIs
  <2>2. \A k \in Nat : k # 0 => k + 1 # 1
    OBVIOUS
  <2>3. QED
    BY <1>3, <2>1, <2>2 DEF next
<1>5. \A j \in DOMAIN frames : \A l \in DOMAIN frames[j].todo :
        next = frames[j].todo[l] => j = n /\ l = 1
  <2>1. TAKE j \in DOMAIN frames
  <2>2. \A k \in DOMAIN frames[n].todo, l \in DOMAIN frames[j].todo :
          frames[n].todo[k] = frames[j].todo[l] => n = j /\ k = l
    BY <1>2, <1>3 DEF Typed, TodoOnce
  <2>3. s = frames[n].todo
    BY <1>2, <1>3
  <2>4. QED
    BY <1>4, <2>2, <2>3
<1>6. next \notin Range(Tail(s))
  BY <1>2, <1>3, <1>4, <1>5 DEF Range
<1>7. QED
  BY <1>1, <1>2, <1>3, <1>4, <1>5, <1>6 DEF Range

LEMMA DoneTyped ==
  ASSUME Sound, Typed, Remapping
  PROVE  \E f : /\ Done = Append(Caller, f) /\ Went(frame, f) /\ FrameTyped(f)
                /\ f.todo = Tail(frame.todo)
<1>1. PICK f : f = [frame EXCEPT !.todo = Tail(frame.todo)]
  OBVIOUS
<1>2. frame.todo # << >> /\ DOMAIN frame = FrameFields /\ FrameTyped(frame)
  BY NextIs, TopTyped
<1>3. f.key = frame.key /\ f.def = frame.def /\ f.copies = frame.copies /\ f.todo = Tail(frame.todo)
  BY <1>1, <1>2 DEF FrameFields
<1>4. FrameTyped(f) /\ Went(frame, f)
  BY <1>2, <1>3 DEF FrameTyped, Went
<1>5. QED
  BY <1>1, <1>3, <1>4 DEF Done

LEMMA RemapTyped ==
  ASSUME Sound, Typed, Remap
  PROVE  Typed'
<1>1. /\ Remapping /\ defs' = [defs EXCEPT ![next] = Remapped(defs[next])]
      /\ frames' = Done /\ UNCHANGED <<templates, open, result>>
  BY DEF Remap
<1>2. PICK x, r : x = next /\ r = Remapped(defs[next])
  OBVIOUS
<1>3. defs' = [defs EXCEPT ![x] = r]
  BY <1>1, <1>2
<1>4. /\ x \in DOMAIN defs /\ DOMAIN defs[x] = DefinitionFields /\ Refers(defs[x], Len(defs))
      /\ r.order = defs[x].order
  <2>1. x \in DOMAIN defs
    BY <1>1, <1>2, NextIs
  <2>2. DOMAIN defs[x] = DefinitionFields /\ Refers(defs[x], Len(defs))
    BY <2>1 DEF Sound, DefsSound, Typed, DefsTyped
  <2>3. QED
    BY <1>2, <2>1, <2>2, RemappedIs
<1>5. /\ r.kind = defs[x].kind /\ Refers(r, Len(defs))
      /\ defs[x].kind = "typed" => r.type = filter(defs[x].type)
  BY <1>1, <1>2, <1>4, RemappedTyped DEF Remapping
<1>6. PICK f : /\ Done = Append(Caller, f) /\ Went(frame, f) /\ FrameTyped(f)
               /\ f.todo = Tail(frame.todo)
  BY <1>1, DoneTyped
<1>7. /\ CallsLeft /\ \A j \in DOMAIN frames' : FrameTyped(frames'[j])
      /\ DOMAIN frames' = DOMAIN frames
      /\ \A j \in DOMAIN frames : frames'[j] = IF j = Len(frames) THEN f ELSE frames[j]
  BY <1>1, <1>6, TopLeft DEF Sound, Typed, Remapping
<1>8. \A j \in DOMAIN frames' : x \notin Range(frames'[j].todo)
  BY <1>1, <1>2, <1>6, <1>7, NextIs
<1>9. r.kind = "typed" =>
        \/ r.type = defs[x].type
        \/ /\ \E i \in DOMAIN frames :
                /\ x \in Range(frames[i].todo)
                /\ defs[x].type \in DOMAIN frames[i].copies
                /\ r.type = frames[i].copies[defs[x].type]
           /\ \A j \in DOMAIN frames' : x \notin Range(frames'[j].todo)
  <2>1. /\ Len(frames) \in DOMAIN frames /\ frame = frames[Len(frames)]
        /\ x \in Range(frame.todo)
    BY <1>1, <1>2, NextIs
  <2>2. QED
    BY <1>5, <1>8, <2>1 DEF filter
<1>10. UNCHANGED <<open, result>> /\ UNCHANGED templates
  BY <1>1
<1>11. x \in DOMAIN defs =>
         /\ r.kind = defs[x].kind /\ r.order = defs[x].order /\ Refers(r, Len(defs))
         /\ r.kind = "typed" =>
              \/ r.type = defs[x].type
              \/ /\ \E i \in DOMAIN frames :
                      /\ x \in Range(frames[i].todo)
                      /\ defs[x].type \in DOMAIN frames[i].copies
                      /\ r.type = frames[i].copies[defs[x].type]
                 /\ \A j \in DOMAIN frames' : x \notin Range(frames'[j].todo)
  BY <1>4, <1>5, <1>9
<1>12. QED
  BY Zenon, <1>3, <1>7, <1>10, <1>11, CallTyped

(* Values.                                                                 *)
LEMMA ValuesAre ==
  /\ \A n : Integer(n).type = "integer"
  /\ None.type \in ValueTypes /\ Dependent.type \in ValueTypes
  /\ \A n : Integer(n).type \in ValueTypes
BY DEF Integer, None, Dependent, Value, ValueTypes

LEMMA EvaluatedIs ==
  ASSUME NEW e, NEW x, x.type \in ValueTypes
  PROVE  Evaluated(e, x).type \in ValueTypes
<1>1. \A n : Integer(n).type \in ValueTypes /\ Dependent.type \in ValueTypes
  BY ValuesAre
<1>2. QED
  BY <1>1 DEF Evaluated

LEMMA FoundIs ==
  ASSUME NEW e, NEW v, v.type \in ValueTypes
  PROVE  Found(e, v).type \in ValueTypes
BY ValuesAre DEF Found

LEMMA SettledTyped ==
  ASSUME NEW g, DOMAIN g = DefinitionFields, NEW n \in Nat, Refers(g, n),
         NEW v, v.type \in ValueTypes
  PROVE  Refers(Settled(g, v), n) /\ Settled(g, v).kind = g.kind /\ Settled(g, v).type = g.type
<1>1. PICK e : e = IF v = Dependent THEN g.expr ELSE NoExpression
  OBVIOUS
<1>2. PICK r : r = Settled(g, v)
  OBVIOUS
<1>3. r = [g EXCEPT !.value = v, !.expr = e]
  BY <1>1, <1>2 DEF Settled, DefinitionFields
<1>4. /\ r.kind = g.kind /\ r.type = g.type /\ r.parent = g.parent /\ r.value = v
      /\ r.base = g.base /\ r.expr = e /\ r.general = g.general
  BY <1>3 DEF DefinitionFields
<1>5. e.def \in 0..n
  <2>1. NoExpression.def = 0 /\ 0 \in 0..n
    BY DEF NoExpression, Expression
  <2>2. QED
    BY <1>1, <2>1 DEF Refers
<1>6. QED
  BY <1>2, <1>4, <1>5 DEF Refers

LEMMA ValueOf ==
  ASSUME Sound, Typed, NEW d \in 0..Len(defs), d # 0
  PROVE  defs[d].value.type \in ValueTypes
<1>1. Len(defs) \in Nat /\ DOMAIN defs = 1..Len(defs)
  BY SequenceIs DEF Sound, DefsSound
<1>2. d \in DOMAIN defs
  BY <1>1
<1>3. QED
  BY <1>2 DEF Typed, DefsTyped, Refers

LEMMA ArgumentIs ==
  ASSUME NEW n
  PROVE  KeyTyped(<<Argument("value", n)>>)
<1>1. PICK a : a = Argument("value", n)
  OBVIOUS
<1>2. a.kind = "value"
  BY <1>1 DEF Argument
<1>3. DOMAIN <<a>> = 1..1 /\ <<a>>[1] = a /\ \A i \in 1..1 : i = 1
  OBVIOUS
<1>4. QED
  BY <1>1, <1>2, <1>3 DEF KeyTyped

LEMMA RemapEnumeratorTyped ==
  ASSUME Sound, Typed, RemapEnumerator
  PROVE  Typed'
<1>1. /\ Remapping /\ defs[next].kind = "constant" /\ frames # << >>
      /\ UNCHANGED <<templates, open, result>>
  BY DEF RemapEnumerator, Remapping
<1>2. PICK n, y, g : n = Len(defs) /\ y = next /\ g = defs[next]
  OBVIOUS
<1>3. /\ y \in DOMAIN defs /\ DOMAIN g = DefinitionFields /\ Refers(g, n) /\ ExpressionSound(g.expr)
      /\ n \in Nat /\ g.kind = "constant"
  <2>1. y \in DOMAIN defs
    BY <1>1, <1>2, NextIs
  <2>2. n \in Nat
    BY <1>2, SequenceIs DEF Sound, DefsSound
  <2>3. QED
    BY <1>1, <1>2, <2>1, <2>2 DEF Sound, DefsSound, Typed, DefsTyped
<1>4. PICK e : e = [g.expr EXCEPT !.def = filter(g.expr.def)]
  OBVIOUS
<1>5. PICK x, here, arg :
        /\ x = IF e.def = 0 THEN None ELSE defs[e.def].value
        /\ here = [g EXCEPT !.parent = filter(g.parent), !.expr = e]
        /\ arg = IF e.op = "access" THEN x.n ELSE x.n - 1
  OBVIOUS
<1>6. IF Calls(e, x)
      THEN /\ defs' = [defs EXCEPT ![y] = here]
           /\ frames' = Append(Done, Frame(e.temp, <<Argument("value", arg)>>, "enumerator", y))
      ELSE /\ defs' = [defs EXCEPT ![y] =
                         IF e.op = "none" THEN here ELSE Settled(here, Evaluated(e, x))]
           /\ frames' = Done
  BY <1>2, <1>4, <1>5 DEF RemapEnumerator
<1>7. e.def \in 0..n /\ filter(g.parent) \in 0..n
  <2>1. \A k \in 0..n : filter(k) \in 0..n
    BY <1>1, <1>2, FilterIs
  <2>2. e.def = filter(g.expr.def)
    BY <1>3, <1>4 DEF ExpressionSound
  <2>3. QED
    BY <1>3, <2>1, <2>2 DEF Refers
<1>8. x.type \in ValueTypes
  BY <1>2, <1>5, <1>7, ValueOf, ValuesAre
<1>9. /\ DOMAIN here = DefinitionFields /\ Refers(here, n) /\ here.kind = g.kind
      /\ here.order = g.order
  <2>1. PICK p : p = filter(g.parent)
    OBVIOUS
  <2>2. here = [g EXCEPT !.parent = p, !.expr = e]
    BY <1>5, <2>1
  <2>3. /\ DOMAIN here = DefinitionFields /\ here.kind = g.kind /\ here.type = g.type
        /\ here.parent = p /\ here.value = g.value /\ here.base = g.base
        /\ here.expr = e /\ here.general = g.general /\ here.order = g.order
    BY <1>3, <2>2 DEF DefinitionFields
  <2>4. QED
    BY <1>3, <1>7, <2>1, <2>3 DEF Refers
<1>10. PICK r : /\ r = here \/ r = Settled(here, Evaluated(e, x))
                /\ defs' = [defs EXCEPT ![y] = r]
  BY <1>6
<1>11. Refers(r, n) /\ r.kind = "constant" /\ r.order = g.order
  <2>1. Evaluated(e, x).type \in ValueTypes
    BY <1>8, EvaluatedIs
  <2>2. PICK v : v = Evaluated(e, x)
    OBVIOUS
  <2>3. Refers(Settled(here, v), n) /\ Settled(here, v).kind = here.kind
    BY <1>3, <1>9, <2>1, <2>2, SettledTyped
  <2>4. Settled(here, v).order = here.order
    BY <1>9, <2>2 DEF Settled, DefinitionFields
  <2>5. QED
    BY <1>3, <1>9, <1>10, <2>2, <2>3, <2>4
<1>12. PICK f : /\ Done = Append(Caller, f) /\ Went(frame, f) /\ FrameTyped(f)
                /\ f.todo = Tail(frame.todo)
  BY <1>1, DoneTyped
<1>13. CallsLeft /\ \A j \in DOMAIN frames' : FrameTyped(frames'[j])
  <2>1. CASE frames' = Done
    BY <1>1, <1>12, <2>1, TopLeft DEF Sound, Typed
  <2>2. CASE frames' = Append(Done, Frame(e.temp, <<Argument("value", arg)>>, "enumerator", y))
    <3>1. PICK to, key : to = "enumerator" /\ key = <<Argument("value", arg)>>
      OBVIOUS
    <3>2. PICK h : h = Frame(e.temp, key, to, y)
      OBVIOUS
    <3>3. h.todo = << >> /\ FrameTyped(h)
      BY <3>1, <3>2, ArgumentIs, FrameStartsTyped
    <3>4. frames' = Append(Append(Caller, f), h)
      BY <1>12, <2>2, <3>1, <3>2
    <3>5. QED
      BY <1>1, <1>12, <3>3, <3>4, CalledLeft DEF Sound, Typed
  <2>3. QED
    BY <1>6, <2>1, <2>2
<1>14. y \in DOMAIN defs =>
         /\ r.kind = defs[y].kind /\ r.order = defs[y].order /\ Refers(r, Len(defs))
         /\ r.kind = "typed" =>
              \/ r.type = defs[y].type
              \/ /\ \E i \in DOMAIN frames :
                      /\ y \in Range(frames[i].todo)
                      /\ defs[y].type \in DOMAIN frames[i].copies
                      /\ r.type = frames[i].copies[defs[y].type]
                 /\ \A j \in DOMAIN frames' : y \notin Range(frames'[j].todo)
  BY <1>2, <1>3, <1>11
<1>15. UNCHANGED <<open, result>> /\ UNCHANGED templates
  BY <1>1
<1>16. defs' = [defs EXCEPT ![y] = r]
  BY <1>10
<1>17. QED
  BY Zenon, <1>13, <1>14, <1>15, <1>16, CallTyped

LEMMA ValueInIs ==
  ASSUME Sound, Typed, NEW d, d = 0 \/ Untyped(d)
  PROVE  ValueIn(d).type \in ValueTypes
<1>1. CASE d = 0
  BY <1>1, ValuesAre DEF ValueIn
<1>2. CASE d # 0 /\ "A" \notin DOMAIN defs[d].general
  BY <1>2, ValuesAre DEF ValueIn
<1>3. CASE d # 0 /\ "A" \in DOMAIN defs[d].general
  <2>1. Refers(defs[d], Len(defs))
    BY <1>3 DEF Untyped, Typed, DefsTyped
  <2>2. PICK a : a = defs[d].general["A"]
    OBVIOUS
  <2>3. a \in 1..Len(defs) /\ Len(defs) \in Nat
    BY <1>3, <2>1, <2>2, SequenceIs DEF Refers, Sound, DefsSound
  <2>4. a \in 0..Len(defs) /\ a # 0
    BY <2>3
  <2>5. ValueIn(d) = defs[a].value
    BY <1>3, <2>2 DEF ValueIn
  <2>6. QED
    BY <2>4, <2>5, ValueOf
<1>4. QED
  BY <1>1, <1>2, <1>3

LEMMA ReturnTyped ==
  ASSUME Sound, Typed, Return
  PROVE  Typed'
<1>1. /\ frames # << >> /\ frame.at = "return" /\ UNCHANGED <<templates, open>>
  BY DEF Return
<1>2. FrameTyped(frame) /\ (frame.def = 0 \/ Untyped(frame.def))
  BY <1>1, TopTyped DEF FrameTyped
<1>3. frame.to \in {"use", "specialized", "enumerator"}
  BY <1>1, TopIs DEF Sound, FrameSound
<1>4. CASE frame.to = "use"
  <2>1. /\ frames' = Caller /\ UNCHANGED defs
        /\ result' = [result EXCEPT !.temp = frame.temp, !.key = frame.key,
                                    !.def = frame.def]
    BY <1>1, <1>4 DEF Return
  <2>2. result'.def = frame.def
    BY <2>1 DEF Sound, UseSound
  <2>3. ResultTyped'
    BY <1>2, <2>1, <2>2 DEF ResultTyped, Untyped
  <2>4. CallsLeft /\ \A j \in DOMAIN frames' : FrameTyped(frames'[j])
    BY <1>1, <2>1, CallerLeft DEF Sound, Typed
  <2>5. QED
    BY <1>1, <2>1, <2>3, <2>4, CallTypedSame
<1>5. CASE frame.to = "specialized"
  <2>1. PICK s, m, d : s = Caller /\ m = Len(Caller) /\ d = frame.def
    OBVIOUS
  <2>2. /\ frames' = [s EXCEPT ![m].at = "return", ![m].def = d]
        /\ UNCHANGED <<defs, result>>
    BY <1>1, <1>5, <2>1 DEF Return
  <2>3. /\ Sequence(s) /\ m = Len(frames) - 1 /\ \A i \in 1..m : s[i] = frames[i]
        /\ Len(frames) \in Nat \ {0} /\ DOMAIN frames = 1..Len(frames) /\ DOMAIN s = 1..m
    BY <1>1, <2>1, TopIs, SequenceIs DEF Sound, FramesSound
  <2>4. \A j \in DOMAIN s : j \in DOMAIN frames /\ s[j] = frames[j] /\ FrameTyped(s[j])
                            /\ DOMAIN s[j] = FrameFields
    BY <2>3 DEF Sound, FramesSound, FrameSound, Typed, FramesTyped
  <2>5. PICK f : f = [s[m] EXCEPT !.at = "return", !.def = d]
    OBVIOUS
  <2>6. DOMAIN frames' = DOMAIN s /\ \A j \in DOMAIN s : frames'[j] = IF j = m THEN f ELSE s[j]
    <3>1. Len(frames) # 1
      BY <1>1, <1>5, TopIs DEF Sound, FrameSound
    <3>2. m \in DOMAIN s
      BY <2>3, <3>1
    <3>3. frames' = [s EXCEPT ![m] = f]
      BY <2>2, <2>3, <2>4, <2>5, <3>2, CallerReturns
    <3>4. QED
      BY <3>3
  <2>7. m \in DOMAIN s => /\ f.key = s[m].key /\ f.def = d /\ f.copies = s[m].copies
                          /\ f.todo = s[m].todo
    BY <2>4, <2>5 DEF FrameFields
  <2>8. \A j \in DOMAIN frames' : FrameTyped(frames'[j])
    BY <1>2, <2>1, <2>4, <2>6, <2>7 DEF FrameTyped
  <2>9. CallsLeft
    BY <2>4, <2>6, <2>7 DEF CallsLeft
  <2>10. ResultTyped'
    BY <2>2 DEF Typed, ResultTyped, Untyped
  <2>11. QED
    BY <1>1, <2>2, <2>8, <2>9, <2>10, CallTypedSame
<1>6. CASE frame.to = "enumerator"
  <2>1. PICK y, v : y = frame.of /\ v = Found(defs[frame.of].expr, ValueIn(frame.def))
    OBVIOUS
  <2>2. PICK r : r = Settled(defs[y], v)
    OBVIOUS
  <2>3. frames' = Caller /\ UNCHANGED result /\ defs' = [defs EXCEPT ![y] = r]
    BY <1>1, <1>6, <2>1, <2>2 DEF Return
  <2>4. v.type \in ValueTypes
    BY <1>2, <2>1, ValueInIs, FoundIs
  <2>5. CallsLeft /\ \A j \in DOMAIN frames' : FrameTyped(frames'[j])
    BY <1>1, <2>3, CallerLeft DEF Sound, Typed
  <2>6. y \in DOMAIN defs =>
         /\ r.kind = defs[y].kind /\ r.order = defs[y].order /\ Refers(r, Len(defs))
         /\ r.type = defs[y].type
    <3>1. SUFFICES ASSUME y \in DOMAIN defs
                   PROVE  /\ r.kind = defs[y].kind /\ r.order = defs[y].order
                          /\ Refers(r, Len(defs)) /\ r.type = defs[y].type
      OBVIOUS
    <3>2. DOMAIN defs[y] = DefinitionFields /\ Refers(defs[y], Len(defs)) /\ Len(defs) \in Nat
      BY <3>1, SequenceIs DEF Sound, DefsSound, Typed, DefsTyped
    <3>3. PICK g, n : g = defs[y] /\ n = Len(defs)
      OBVIOUS
    <3>4. Refers(Settled(g, v), n) /\ Settled(g, v).kind = g.kind /\ Settled(g, v).type = g.type
      BY <2>4, <3>2, <3>3, SettledTyped
    <3>5. Settled(g, v).order = g.order
      BY <3>2, <3>3 DEF Settled, DefinitionFields
    <3>6. QED
      BY <2>2, <3>3, <3>4, <3>5
  <2>7. y \in DOMAIN defs =>
         /\ r.kind = defs[y].kind /\ r.order = defs[y].order /\ Refers(r, Len(defs))
         /\ r.kind = "typed" =>
              \/ r.type = defs[y].type
              \/ /\ \E i \in DOMAIN frames :
                      /\ y \in Range(frames[i].todo)
                      /\ defs[y].type \in DOMAIN frames[i].copies
                      /\ r.type = frames[i].copies[defs[y].type]
                 /\ \A j \in DOMAIN frames' : y \notin Range(frames'[j].todo)
    BY <2>6
  <2>8. UNCHANGED <<open, result>> /\ UNCHANGED templates
    BY <1>1, <2>3
  <2>9. defs' = [defs EXCEPT ![y] = r]
    BY <2>3
  <2>10. QED
    BY Zenon, <2>5, <2>7, <2>8, <2>9, CallTyped
<1>7. QED
  BY <1>3, <1>4, <1>5, <1>6

-----------------------------------------------------------------------------
(* The steps of the program that is read, of which those first that        *)
(* allocate nothing.                                                       *)

(* The names that stand for some of S.                                     *)
Naming(N, S) == UNION {[X -> S] : X \in SUBSET N}

LEMMA NamingIs ==
  ASSUME NEW N, NEW S, NEW f
  PROVE  f \in Naming(N, S) <=>
           /\ DOMAIN f \subseteq N /\ f = [x \in DOMAIN f |-> f[x]]
           /\ \A x \in DOMAIN f : f[x] \in S
<1>1. ASSUME f \in Naming(N, S)
      PROVE  /\ DOMAIN f \subseteq N /\ f = [x \in DOMAIN f |-> f[x]]
             /\ \A x \in DOMAIN f : f[x] \in S
  <2>1. PICK X \in SUBSET N : f \in [X -> S]
    BY <1>1 DEF Naming
  <2>2. QED
    BY <2>1
<1>2. ASSUME DOMAIN f \subseteq N, f = [x \in DOMAIN f |-> f[x]],
             \A x \in DOMAIN f : f[x] \in S
      PROVE  f \in Naming(N, S)
  <2>1. f \in [DOMAIN f -> S] /\ DOMAIN f \in SUBSET N
    BY <1>2
  <2>2. QED
    BY <2>1 DEF Naming
<1>3. QED
  BY <1>1, <1>2

LEMMA RenamedNames ==
  ASSUME NEW N, NEW S, NEW map \in Naming(N, S), NEW was, NEW name \in N, NEW d \in S
  PROVE  Renamed(map, was, name, d) \in Naming(N, S)
<1>1. ASSUME NEW m \in Naming(N, S)
      PROVE  Inserted(m, name, d) \in Naming(N, S)
  <2>1. PICK r : r = Inserted(m, name, d)
    OBVIOUS
  <2>2. /\ DOMAIN m \subseteq N /\ \A x \in DOMAIN m : m[x] \in S
    BY <1>1, NamingIs
  <2>3. /\ DOMAIN r = DOMAIN m \union {name} /\ r = [x \in DOMAIN r |-> r[x]]
        /\ \A x \in DOMAIN r : r[x] = IF x \in DOMAIN m THEN m[x] ELSE d
    BY <2>1 DEF Inserted, Both
  <2>4. DOMAIN r \subseteq N /\ \A x \in DOMAIN r : r[x] \in S
    BY <2>2, <2>3
  <2>5. QED
    BY <2>1, <2>3, <2>4, NamingIs
<1>2. Erased(map, was) \in Naming(N, S)
  <2>1. PICK r : r = Erased(map, was)
    OBVIOUS
  <2>2. /\ DOMAIN map \subseteq N /\ \A x \in DOMAIN map : map[x] \in S
    BY NamingIs
  <2>3. /\ DOMAIN r = DOMAIN map \ {was} /\ r = [x \in DOMAIN r |-> r[x]]
        /\ \A x \in DOMAIN r : r[x] = map[x]
    BY <2>1 DEF Erased, Restrict
  <2>4. DOMAIN r \subseteq N /\ \A x \in DOMAIN r : r[x] \in S
    BY <2>2, <2>3
  <2>5. QED
    BY <2>1, <2>3, <2>4, NamingIs
<1>3. QED
  BY <1>1, <1>2 DEF Renamed

Renaming(was, list, f) ==
  f = [i \in 0..Len(list) |->
         IF i = 0 THEN was.general
         ELSE Renamed(f[i - 1], was.names[i], list[i].name, was.params[i])]

(* The names of a redeclaration stand for the same parameters.             *)
LEMMA NamedAnewFolds ==
  ASSUME NEW t, NEW list, Len(list) \in Nat, NEW N, NEW S,
         templates[t].general \in Naming(N, S),
         \A i \in 1..Len(list) : list[i].name \in N /\ templates[t].params[i] \in S
  PROVE  \E f : Renaming(templates[t], list, f) /\ NamedAnew(t, list) = f[Len(list)]
<1> DEFINE n == Len(list)
           D == 0..n
           V == Naming(N, S)
           was == templates[t]
           base == [i \in D |-> was.general]
           down == [i \in D |-> i - 1]
           step == [i \in D |-> [v \in V |->
                      IF i = 0 THEN v ELSE Renamed(v, was.names[i], list[i].name, was.params[i])]]
           f == CHOOSE h : Renaming(was, list, h)
<1>1. Descending(D, V, {0}, base, down, step)
  <2>1. base \in [D -> V]
    OBVIOUS
  <2>2. \A i \in D : i # 0 => i \in 1..n /\ i - 1 \in D /\ i - 1 < i
    OBVIOUS
  <2>3. \A i \in D : i \notin {0} => down[i] \in D /\ down[i] < i
    BY <2>2
  <2>4. \A i \in D, v \in V :
          (IF i = 0 THEN v ELSE Renamed(v, was.names[i], list[i].name, was.params[i])) \in V
    BY <2>2, RenamedNames
  <2>5. step \in [D -> [V -> V]]
    <3> HIDE DEF D, V
    <3>1. QED
      BY <2>4
  <2> HIDE DEF D, V, base, down, step
  <2>6. QED
    BY <2>1, <2>3, <2>5 DEF Descending
<1>2. PICK g \in [D -> V] : Descends(g, D, {0}, base, down, step)
  <2>1. D \subseteq 0..n /\ n \in Nat
    OBVIOUS
  <2> HIDE DEF D, V, base, down, step, n
  <2>2. QED
    BY <1>1, <2>1, Descent
<1>3. Renaming(was, list, g)
  <2>1. ASSUME NEW i \in D
        PROVE  g[i] = IF i = 0 THEN was.general
                      ELSE Renamed(g[i - 1], was.names[i], list[i].name, was.params[i])
    <3>1. g[i] = IF i \in {0} THEN base[i] ELSE step[i][g[down[i]]]
      <4> HIDE DEF D, V, base, down, step
      <4>1. QED
        BY <1>2 DEF Descends
    <3>2. i # 0 => down[i] = i - 1 /\ i - 1 \in D
      OBVIOUS
    <3>3. i # 0 => g[i - 1] \in V
      <4> HIDE DEF D, V
      <4>1. QED
        BY <1>2, <3>2
    <3>4. i # 0 => step[i][g[i - 1]] = Renamed(g[i - 1], was.names[i], list[i].name, was.params[i])
      <4> HIDE DEF D, V
      <4>1. QED
        BY <3>3
    <3>5. base[i] = was.general
      OBVIOUS
    <3> HIDE DEF D, V, base, down, step
    <3>6. QED
      BY <3>1, <3>2, <3>4, <3>5
  <2>2. g = [i \in D |-> g[i]]
    <3> HIDE DEF D, V
    <3>1. QED
      BY <1>2
  <2>3. QED
    BY <2>1, <2>2 DEF Renaming
<1>4. Renaming(was, list, f)
  BY <1>3
<1>5. NamedAnew(t, list) = f[n]
  BY DEF NamedAnew, Renaming
<1> HIDE DEF f
<1>6. QED
  BY <1>4, <1>5

LEMMA NamedAnewIs ==
  ASSUME NEW t, NEW list, Len(list) \in Nat, NEW N, NEW S,
         templates[t].general \in Naming(N, S),
         \A i \in 1..Len(list) : list[i].name \in N /\ templates[t].params[i] \in S
  PROVE  NamedAnew(t, list) \in Naming(N, S)
<1> DEFINE n == Len(list)
           D == 0..n
           V == Naming(N, S)
           was == templates[t]
<1>1. PICK f : Renaming(was, list, f) /\ NamedAnew(t, list) = f[n]
  BY NamedAnewFolds
<1>2. \A i \in D : f[i] = IF i = 0 THEN was.general
                         ELSE Renamed(f[i - 1], was.names[i], list[i].name, was.params[i])
  BY <1>1 DEF Renaming
<1> DEFINE T == {m \in Nat : m \in D => f[m] \in V}
<1>3. 0 \in T
  BY <1>2
<1>4. ASSUME NEW m \in Nat, m \in T
      PROVE  m + 1 \in T
  <2>1. SUFFICES ASSUME m + 1 \in D PROVE f[m + 1] \in V
    OBVIOUS
  <2>2. m \in D /\ m + 1 # 0 /\ (m + 1) - 1 = m /\ m + 1 \in 1..n
    BY <2>1
  <2>3. f[m] \in V
    BY <1>4, <2>2
  <2>4. f[m + 1] = Renamed(f[m], was.names[m + 1], list[m + 1].name, was.params[m + 1])
    BY <1>2, <2>1, <2>2
  <2>5. QED
    BY <2>2, <2>3, <2>4, RenamedNames
<1>5. \A m \in Nat : m \in T
  <2> HIDE DEF T
  <2>1. QED
    BY <1>3, <1>4, Induction
<1>6. n \in D /\ n \in Nat
  OBVIOUS
<1>7. QED
  BY <1>1, <1>5, <1>6

(* A step that allocates nothing and makes no call.                        *)
LEMMA ReadTyped ==
  ASSUME Sound, Typed, UNCHANGED <<defs, frames, result>>, TemplatesTyped', OpenTyped'
  PROVE  Typed'
<1>1. DefsTyped' /\ OwnedOnce' /\ KindsKept
  BY DefsTypedKept DEF Typed
<1>2. FramesTyped'
  BY <1>1, FramesTypedKept DEF Typed
<1>3. CallsLeft
  BY DEF CallsLeft
<1>4. TodoOnce' /\ ChainsEnd'
  BY <1>3, TodoKept, ChainsKept DEF Sound, Typed
<1>5. ResultTyped' /\ Untyped(IntType)' /\ Untyped(ClassType)'
  <2>1. \A d : Untyped(d) => Untyped(d)'
    BY <1>1, UntypedKept
  <2>2. QED
    BY <2>1 DEF Typed, ResultTyped, IntType, ClassType
<1>6. QED
  BY <1>1, <1>2, <1>4, <1>5 DEF Typed

LEMMA StutterTyped ==
  ASSUME Sound, Typed, UNCHANGED vars
  PROVE  Typed'
<1>1. UNCHANGED <<defs, frames, result>> /\ UNCHANGED <<templates, open>>
  BY DEF vars
<1>2. KindsKept
  BY <1>1 DEF KindsKept
<1>3. TemplatesTyped' /\ OpenTyped'
  BY <1>1, <1>2, TemplatesTypedKept, OpenTypedKept DEF Typed
<1>4. QED
  BY <1>1, <1>3, ReadTyped

(* The body of a template is opened.                                       *)
LEMMA OpenedTyped ==
  ASSUME NEW t, NEW body \in DOMAIN defs', OpenBody(t, body)
  PROVE  OpenTyped'
<1>1. PICK s : s = <<body>>
  OBVIOUS
<1>2. Len(s) = 1 /\ DOMAIN s = 1..1 /\ s[1] = body /\ s = [i \in 1..1 |-> s[i]] /\ s # << >>
  BY <1>1
<1>3. Sequence(s) /\ Range(s) \subseteq DOMAIN defs'
  <2>1. \A i \in 1..1 : i = 1
    OBVIOUS
  <2>2. QED
    BY <1>2, <2>1, SequenceOf DEF Range
<1>4. open'.scopes = s
  BY <1>1 DEF OpenBody
<1>5. QED
  BY <1>2, <1>3, <1>4 DEF OpenTyped, Sequence

LEMMA RedeclareTyped ==
  ASSUME Sound, Typed, NEW u \in DOMAIN templates, NEW list, Redeclare(u, list)
  PROVE  Typed'
<1>1. /\ OpenBody(u, templates[u].def) /\ Len(list) = Arity(u)
      /\ UNCHANGED <<defs, frames, result>>
  BY DEF Redeclare
<1>2. PICK map, names : /\ map = NamedAnew(u, list)
                        /\ names = [i \in DOMAIN list |-> list[i].name]
  OBVIOUS
<1>3. PICK g, r : g = templates[u] /\ r = [g EXCEPT !.general = map, !.names = names]
  OBVIOUS
<1>4. DOMAIN g = TemplateFields /\ TemplateTyped(u)
  BY <1>3 DEF Sound, TemplatesSound, TemplateSound, Typed, TemplatesTyped
<1>5. templates' = [templates EXCEPT ![u] = r]
  <2>1. templates' = [templates EXCEPT ![u].general = map, ![u].names = names]
    BY <1>2 DEF Redeclare
  <2>2. PICK s : s = templates
    OBVIOUS
  <2>3. [s EXCEPT ![u].general = map, ![u].names = names]
          = [s EXCEPT ![u] = [s[u] EXCEPT !.general = map, !.names = names]]
    BY <1>3, <1>4, <2>2 DEF TemplateFields
  <2>4. QED
    BY <1>3, <2>1, <2>2, <2>3
<1>6. /\ r.params = g.params /\ r.defaults = g.defaults /\ r.def = g.def
      /\ r.instantiations = g.instantiations /\ r.general = map
  BY <1>3, <1>4 DEF TemplateFields
<1>7. map \in [DOMAIN map -> DOMAIN defs]
  <2>1. PICK N, S, n : /\ n = Len(list) /\ S = DOMAIN defs
                       /\ N = DOMAIN templates[u].general \union {list[i].name : i \in 1..n}
    OBVIOUS
  <2>2. n \in Nat /\ \A i \in 1..n : templates[u].params[i] \in S
    <3>1. Sequence(templates[u].params) /\ Range(templates[u].params) \subseteq S
      BY <1>4, <2>1 DEF TemplateTyped
    <3>2. n = Len(templates[u].params)
      BY <1>1, <2>1 DEF Arity
    <3>3. n \in Nat /\ DOMAIN templates[u].params = 1..n
      BY <3>1, <3>2, SequenceIs
    <3>4. QED
      BY <3>1, <3>3 DEF Range
  <2>3. templates[u].general \in Naming(N, S)
    <3>1. PICK general : general = templates[u].general
      OBVIOUS
    <3>2. general \in [DOMAIN general -> S] /\ DOMAIN general \subseteq N
      BY <1>4, <2>1, <3>1 DEF TemplateTyped
    <3>3. general \in Naming(N, S)
      BY <3>2, NamingIs
    <3>4. QED
      BY <3>1, <3>3
  <2>4. \A i \in 1..n : list[i].name \in N
    BY <2>1
  <2>5. map \in Naming(N, S)
    BY <1>2, <2>1, <2>2, <2>3, <2>4, NamedAnewIs
  <2>6. QED
    BY <2>1, <2>5, NamingIs
<1>8. KindsKept
  BY <1>1 DEF KindsKept
<1>9. DOMAIN templates' = DOMAIN templates
      /\ \A t \in DOMAIN templates : templates'[t] = IF t = u THEN r ELSE templates[t]
  BY <1>5
<1>10. TemplatesTyped'
  <2>1. ASSUME NEW t \in DOMAIN templates
        PROVE  TemplateTyped(t)'
    <3>1. TemplateTyped(t)
      BY DEF Typed, TemplatesTyped
    <3>2. /\ templates'[t].params = templates[t].params /\ templates'[t].def = templates[t].def
          /\ templates'[t].defaults = templates[t].defaults
          /\ templates'[t].instantiations = templates[t].instantiations
      BY <1>3, <1>6, <1>9
    <3>3. templates'[t].general \in [DOMAIN templates'[t].general -> DOMAIN defs']
      <4>1. CASE t = u
        BY <1>1, <1>6, <1>7, <1>9, <4>1
      <4>2. CASE t # u
        <5>1. templates'[t].general = templates[t].general
          BY <1>9, <4>2
        <5>2. QED
          BY <1>1, <3>1, <5>1 DEF TemplateTyped
      <4>3. QED
        BY <4>1, <4>2
    <3>4. QED
      BY <1>8, <3>1, <3>2, <3>3, TemplateTypedKept
  <2>2. QED
    BY <1>9, <2>1 DEF TemplatesTyped
<1>11. OpenTyped'
  <2>1. templates[u].def \in DOMAIN defs'
    BY <1>1, <1>4 DEF TemplateTyped, Untyped
  <2>2. QED
    BY <1>1, <2>1, OpenedTyped
<1>12. QED
  BY <1>1, <1>10, <1>11, ReadTyped

LEMMA CloseScopeTyped ==
  ASSUME Sound, Typed, CloseScope
  PROVE  Typed'
<1>1. open.temp # 0 /\ UNCHANGED <<defs, frames, result>>
  BY DEF CloseScope
<1>2. KindsKept
  BY <1>1 DEF KindsKept
<1>3. TemplatesTyped'
  <2>1. CASE templates' = templates
    BY <1>2, <2>1, TemplatesTypedKept DEF Typed
  <2>2. CASE templates' = [templates EXCEPT ![open.temp].unread = FALSE]
    <3>1. DOMAIN templates' = DOMAIN templates
      BY <2>2
    <3>2. ASSUME NEW t \in DOMAIN templates
          PROVE  TemplateTyped(t)'
      <4>1. TemplateTyped(t) /\ DOMAIN templates[t] = TemplateFields
        BY DEF Typed, TemplatesTyped, Sound, TemplatesSound, TemplateSound
      <4>2. /\ templates'[t].params = templates[t].params /\ templates'[t].def = templates[t].def
            /\ templates'[t].defaults = templates[t].defaults
            /\ templates'[t].instantiations = templates[t].instantiations
            /\ templates'[t].general = templates[t].general
        BY <2>2, <4>1 DEF TemplateFields
      <4>3. QED
        BY <1>1, <1>2, <4>1, <4>2, TemplateTypedKept DEF TemplateTyped
    <3>3. QED
      BY <3>1, <3>2 DEF TemplatesTyped
  <2>3. QED
    BY <2>1, <2>2 DEF CloseScope
<1>4. OpenTyped'
  <2>1. CASE Len(open.scopes) > 1
    <3>1. open' = [open EXCEPT !.scopes = Front(open.scopes)]
      BY <2>1 DEF CloseScope
    <3>2. PICK s : s = open.scopes
      OBVIOUS
    <3>3. s # << >> /\ Sequence(s) /\ Range(s) \subseteq DOMAIN defs
      BY <1>1, <3>2 DEF Typed, OpenTyped
    <3>4. PICK f : f = Front(s)
      OBVIOUS
    <3>5. /\ Sequence(f) /\ Len(f) = Len(s) - 1 /\ DOMAIN f = 1..Len(s) - 1
          /\ \A i \in 1..Len(s) - 1 : f[i] = s[i]
          /\ Len(s) \in Nat /\ DOMAIN s = 1..Len(s)
      BY <3>3, <3>4, FrontOf, SequenceIs
    <3>6. Len(f) # 0 /\ \A i \in DOMAIN f : i \in DOMAIN s /\ f[i] = s[i]
      <4>1. PICK n : n = Len(s)
        OBVIOUS
      <4>2. n \in Nat /\ n > 1
        BY <2>1, <3>2, <3>5, <4>1
      <4>3. n - 1 # 0 /\ \A i \in 1..n - 1 : i \in 1..n
        BY <4>2
      <4>4. QED
        BY <3>5, <4>1, <4>3
    <3>7. f # << >> /\ Range(f) \subseteq DOMAIN defs'
      BY <1>1, <3>3, <3>6 DEF Range
    <3>8. open'.scopes = f
      BY <3>1, <3>2, <3>4 DEF Sound, OpenSound
    <3>9. QED
      BY <3>5, <3>7, <3>8 DEF OpenTyped, Sequence
  <2>2. CASE ~(Len(open.scopes) > 1)
    <3>1. open' = [temp |-> 0, scopes |-> << >>]
      BY <2>2 DEF CloseScope
    <3>2. open'.temp = 0
      BY <3>1
    <3>3. QED
      BY <3>2 DEF OpenTyped
  <2>3. QED
    BY <2>1, <2>2
<1>5. QED
  BY <1>1, <1>3, <1>4, ReadTyped

LEMMA UseTemplateTyped ==
  ASSUME Sound, Typed, NEW u \in DOMAIN templates, NEW args, NEW n \in 0..Arity(u),
         args \in [1..n -> Arguments("type") \union Arguments("value")], Use(u, args)
  PROVE  Typed'
<1>1. /\ AtOuter /\ Len(args) <= Arity(u)
      /\ \A i \in 1..Arity(u) :
           IF i <= Len(args) THEN args[i] \in Arguments(KindOf(u, i))
           ELSE templates[u].defaults[i].kind # "none"
      /\ UNCHANGED <<defs, templates, open>>
  BY DEF Use
<1>2. /\ Arity(u) \in Nat /\ DefaultsSound(Arity(u), templates[u].defaults)
      /\ TemplateTyped(u)
  BY DEF Sound, TemplatesSound, TemplateSound, DefaultsSound, Typed, TemplatesTyped
<1>3. n \in Nat /\ Len(args) = n /\ DOMAIN args = 1..n
  BY <1>2
<1>4. \A i \in 1..n : i \in 1..Arity(u) /\ args[i] \in Arguments(KindOf(u, i))
  BY <1>1, <1>2, <1>3
<1>5. \A kind : \A a \in Arguments(kind) : a.kind = "type" => Untyped(a.of)
  <2>1. \A k, of : Argument(k, of).kind = k /\ Argument(k, of).of = of
    BY DEF Argument
  <2>2. Untyped(IntType) /\ Untyped(ClassType) /\ (result.def # 0 => Untyped(result.def))
    BY DEF Typed, ResultTyped
  <2>3. \A a \in Arguments("value") : a.kind = "value"
    BY <2>1 DEF Arguments
  <2>4. ASSUME NEW kind, kind # "value", NEW a \in Arguments(kind)
        PROVE  Untyped(a.of)
    BY <2>1, <2>2, <2>4 DEF Arguments
  <2>5. QED
    BY <2>3, <2>4
<1>6. \A i \in 1..n : args[i].kind = "type" => Untyped(args[i].of)
  BY <1>4, <1>5
<1>7. \A i \in 1..Arity(u) : templates[u].defaults[i].kind = "type" =>
                               Untyped(templates[u].defaults[i].of)
  BY <1>2 DEF TemplateTyped, Typed, DefaultsSound
<1>8. Key(u, args) = [i \in 1..Arity(u) |-> IF i <= Len(args) THEN args[i] ELSE Default(u, i, args)]
  BY DEF Key
<1>9. PICK key : key = Key(u, args)
  OBVIOUS
<1>10. ASSUME NEW i \in 1..Arity(u), key[i].kind = "type", ~IsAbstract(key[i])
       PROVE  Untyped(key[i].of)
  <2>1. CASE i <= n
    BY <1>2, <1>3, <1>6, <1>8, <1>9, <1>10, <2>1
  <2>2. CASE ~(i <= n)
    <3>1. key[i] = Default(u, i, args)
      BY <1>3, <1>8, <1>9, <2>2
    <3>2. PICK d : d = templates[u].defaults[i]
      OBVIOUS
    <3>3. CASE d.kind # "parameter"
      <4>1. key[i] = d
        BY <3>1, <3>2, <3>3 DEF Default
      <4>2. QED
        BY <1>7, <1>10, <3>2, <4>1
    <3>4. CASE d.kind = "parameter"
      <4>1. d.of \in 1..i - 1
        BY <1>2, <3>2, <3>4 DEF DefaultsSound
      <4>2. key[i] = IF d.of <= n THEN args[d.of] ELSE Abstract(KindOf(u, i))
        BY <1>3, <3>1, <3>2, <3>4 DEF Default
      <4>3. d.of <= n
        BY <1>10, <4>2 DEF IsAbstract, Abstract, Argument
      <4>4. d.of \in 1..n /\ key[i] = args[d.of]
        BY <1>2, <1>3, <4>1, <4>2, <4>3
      <4>5. QED
        BY <1>6, <1>10, <4>4
    <3>5. QED
      BY <3>3, <3>4
  <2>3. QED
    BY <2>1, <2>2
<1>11. DOMAIN key = 1..Arity(u)
  BY <1>8, <1>9
<1>12. CASE \E i \in DOMAIN key : IsAbstract(key[i])
  <2>1. /\ result' = [temp |-> u, args |-> args, key |-> key, def |-> 0]
        /\ UNCHANGED frames
    BY <1>9, <1>12 DEF Use
  <2>2. ResultTyped'
    BY <2>1 DEF ResultTyped
  <2>3. CallsLeft /\ \A j \in DOMAIN frames' : FrameTyped(frames'[j])
    BY <2>1 DEF CallsLeft, Typed, FramesTyped
  <2>4. QED
    BY <1>1, <2>2, <2>3, CallTypedSame
<1>13. CASE ~\E i \in DOMAIN key : IsAbstract(key[i])
  <2>1. PICK to, f : to = "use" /\ f = Frame(u, key, to, 0)
    OBVIOUS
  <2>2. /\ frames' = <<f>>
        /\ result' = [temp |-> 0, args |-> args, key |-> << >>, def |-> 0]
    BY <1>9, <1>13, <2>1 DEF Use
  <2>3. KeyTyped(key)
    BY <1>10, <1>11, <1>13 DEF KeyTyped
  <2>4. f.todo = << >> /\ FrameTyped(f)
    BY <2>1, <2>3, FrameStartsTyped
  <2>5. DOMAIN frames' = 1..1 /\ frames'[1] = f /\ \A j \in 1..1 : j = 1
    BY <2>2
  <2>6. CallsLeft /\ \A j \in DOMAIN frames' : FrameTyped(frames'[j])
    BY <2>4, <2>5 DEF CallsLeft
  <2>7. ResultTyped'
    BY <2>2 DEF ResultTyped
  <2>8. QED
    BY <1>1, <2>6, <2>7, CallTypedSame
<1>14. QED
  BY <1>12, <1>13

-----------------------------------------------------------------------------
(* Steps that allocate.  The old definitions are as they were, but for the *)
(* owner of the first new one.                                             *)
Owns(old, s) ==
  \A d \in DOMAIN defs :
    old[d].order = IF d = s THEN Append(defs[d].order, Len(defs) + 1) ELSE defs[d].order

OwnedNew(new, s) ==
  /\ \A i \in DOMAIN new : \A k \in DOMAIN new[i].order :
       /\ new[i].order[k] \in Len(defs) + 1..Len(defs) + Len(new)
       /\ s \in DOMAIN defs => new[i].order[k] # Len(defs) + 1
  /\ \A i, j \in DOMAIN new :
       \A k \in DOMAIN new[i].order, l \in DOMAIN new[j].order :
         new[i].order[k] = new[j].order[l] => i = j /\ k = l

(* Numbers after others.                                                   *)
LEMMA Numbers ==
  ASSUME NEW a \in Nat, NEW b \in Nat
  PROVE  /\ a + b \in Nat /\ 0..a \subseteq 0..a + b /\ 0..b \subseteq 0..a + b
         /\ \A i \in 1..b : /\ (a + i) - a = i /\ a + i \notin 1..a
                            /\ a + i \in a + 1..a + b
         /\ \A k \in 0..a : k # 0 => k \in 1..a
OBVIOUS

LEMMA MembersOf ==
  ASSUME NEW S, NEW s \in Seq(S), NEW k \in DOMAIN s
  PROVE  s[k] \in S
OBVIOUS

GrownBy(old, new, D, N) ==
  /\ D \in Nat /\ N \in Nat /\ DOMAIN defs = 1..D /\ DOMAIN new = 1..N
  /\ Len(defs') = D + N /\ DOMAIN defs' = 1..D + N
  /\ \A d \in 1..D : d \in DOMAIN defs' /\ defs'[d] = old[d]
  /\ \A i \in 1..N : D + i \in DOMAIN defs' /\ defs'[D + i] = new[i]
  /\ \A d \in DOMAIN defs' : d \in 1..D \/ (d \notin 1..D /\ \E i \in 1..N : d = D + i)

LEMMA DefsAre ==
  ASSUME DefsSound, NEW old, Sequence(old), Len(old) = Len(defs),
         NEW new, Sequence(new), defs' = old \o new,
         NEW D, D = Len(defs), NEW N, N = Len(new)
  PROVE  GrownBy(old, new, D, N)
<1>1. D \in Nat /\ N \in Nat /\ DOMAIN defs = 1..D /\ DOMAIN new = 1..N /\ Len(old) = D
  BY SequenceIs DEF DefsSound
<1>2. /\ Len(old \o new) = Len(old) + Len(new)
      /\ DOMAIN (old \o new) = 1..Len(old) + Len(new)
      /\ \A i \in 1..Len(old) : (old \o new)[i] = old[i]
      /\ \A i \in Len(old) + 1..Len(old) + Len(new) :
           (old \o new)[i] = new[i - Len(old)]
  BY Concatenated
<1>3. /\ Len(defs') = D + N /\ DOMAIN defs' = 1..D + N
      /\ \A i \in 1..D : defs'[i] = old[i]
      /\ \A i \in D + 1..D + N : defs'[i] = new[i - D]
  BY <1>1, <1>2
<1>4. /\ \A d \in 1..D : d \in 1..D + N
      /\ \A i \in 1..N : D + i \in D + 1..D + N /\ D + i \in 1..D + N /\ (D + i) - D = i
      /\ \A d \in 1..D + N : d \in 1..D \/ (d \notin 1..D /\ d - D \in 1..N /\ d = D + (d - D))
  BY <1>1
<1>5. \A i \in 1..N : D + i \in DOMAIN defs' /\ defs'[D + i] = new[i]
  BY <1>3, <1>4
<1>6. \A d \in DOMAIN defs' : d \in 1..D \/ (d \notin 1..D /\ \E i \in 1..N : d = D + i)
  BY ZenonT(30), <1>3, <1>4
<1>7. QED
  BY <1>1, <1>3, <1>4, <1>5, <1>6 DEF GrownBy

LEMMA DefsTypedGrown ==
  ASSUME DefsSound, OwnedOnce,
         NEW old, Sequence(old), Len(old) = Len(defs),
         NEW new, Sequence(new), Len(new) # 0, defs' = old \o new,
         NEW s, Owns(old, s), OwnedNew(new, s),
         \A d \in DOMAIN defs :
           old[d].kind = defs[d].kind /\ Refers(old[d], Len(defs) + Len(new)),
         \A i \in DOMAIN new : Refers(new[i], Len(defs) + Len(new))
  PROVE  DefsTyped' /\ OwnedOnce' /\ KindsKept
<1>1. PICK D, N : D = Len(defs) /\ N = Len(new)
  OBVIOUS
<1>2. /\ D \in Nat /\ N \in Nat /\ DOMAIN defs = 1..D /\ DOMAIN new = 1..N
      /\ Len(defs') = D + N /\ DOMAIN defs' = 1..D + N
      /\ \A d \in 1..D : d \in DOMAIN defs' /\ defs'[d] = old[d]
      /\ \A i \in 1..N : D + i \in DOMAIN defs' /\ defs'[D + i] = new[i]
      /\ \A d \in DOMAIN defs' :
           d \in 1..D \/ (d \notin 1..D /\ \E i \in 1..N : d = D + i)
  <2>1. GrownBy(old, new, D, N)
    BY <1>1, DefsAre
  <2>2. QED
    BY <2>1 DEF GrownBy
<1>n. D \in Nat /\ N \in Nat
  BY <1>2
<1>3. KindsKept
  BY <1>2 DEF KindsKept
<1>4. DefsTyped'
  <2>1. \A d \in DOMAIN defs' : Refers(defs'[d], D + N)
    BY <1>1, <1>2
  <2>2. QED
    BY <1>2, <2>1 DEF DefsTyped, Refers
<1>5. \A d \in 1..D : defs'[d].order = IF d = s THEN Append(defs[d].order, D + 1)
                                       ELSE defs[d].order
  BY <1>1, <1>2 DEF Owns
<1>6. \A d \in 1..D : \A k \in DOMAIN defs[d].order :
        defs[d].order[k] \in 1..D /\ defs[d].order[k] # D + 1
  <2>1. \A x \in 1..D : x # D + 1
    BY <1>n
  <2>2. \A d \in 1..D : \A k \in DOMAIN defs[d].order : defs[d].order[k] \in 1..D
    <3>1. \A d \in 1..D : defs[d].order \in Seq(1..D)
      BY <1>2 DEF DefsSound, Owned
    <3>2. QED
      BY Zenon, <3>1, MembersOf
  <2>3. QED
    BY <2>1, <2>2
(* What an old one owns: what it owned at the same place, or the first.    *)
<1>7. ASSUME NEW d \in 1..D, NEW k \in DOMAIN defs'[d].order
      PROVE  \/ /\ k \in DOMAIN defs[d].order /\ defs'[d].order[k] = defs[d].order[k]
                /\ defs'[d].order[k] \in 1..D
             \/ d = s /\ k = Len(defs[d].order) + 1 /\ defs'[d].order[k] = D + 1
  <2>1. CASE d # s
    BY <1>5, <1>6, <2>1
  <2>2. CASE d = s
    <3>1. PICK order : order = defs[d].order
      OBVIOUS
    <3>2. order \in Seq(DOMAIN defs)
      BY <1>2, <3>1 DEF DefsSound, Owned
    <3>3. Len(order) \in Nat /\ DOMAIN order = 1..Len(order)
          /\ order = [i \in 1..Len(order) |-> order[i]]
      BY <3>2
    <3>4. Sequence(order)
      BY <3>3, SequenceOf
    <3>5. /\ DOMAIN Append(order, D + 1) = 1..Len(order) + 1
          /\ \A i \in 1..Len(order) : Append(order, D + 1)[i] = order[i]
          /\ Append(order, D + 1)[Len(order) + 1] = D + 1
      BY <3>4, Appended
    <3>6. \A i \in 1..Len(order) + 1 : i \in 1..Len(order) \/ i = Len(order) + 1
      BY <3>3
    <3>7. defs'[d].order = Append(order, D + 1)
      BY <1>5, <2>2, <3>1
    <3>8. QED
      BY <1>6, <2>2, <3>1, <3>3, <3>5, <3>6, <3>7
  <2>3. QED
    BY <2>1, <2>2
<1>8. ASSUME NEW i \in 1..N, NEW k \in DOMAIN defs'[D + i].order
      PROVE  /\ defs'[D + i].order[k] \in D + 1..D + N
             /\ s \in 1..D => defs'[D + i].order[k] # D + 1
             /\ k \in DOMAIN new[i].order /\ defs'[D + i].order[k] = new[i].order[k]
  <2>1. i \in DOMAIN new /\ defs'[D + i] = new[i]
    BY <1>2
  <2>2. /\ new[i].order[k] \in Len(defs) + 1..Len(defs) + Len(new)
        /\ s \in DOMAIN defs => new[i].order[k] # Len(defs) + 1
    BY <2>1 DEF OwnedNew
  <2>3. QED
    BY <1>1, <1>2, <2>1, <2>2
<1>9. \A x \in 1..D : x \notin D + 1..D + N /\ x # D + 1
  BY <1>n
<1>10. ASSUME NEW d \in DOMAIN defs', NEW e \in DOMAIN defs',
              NEW k \in DOMAIN defs'[d].order, NEW l \in DOMAIN defs'[e].order,
              defs'[d].order[k] = defs'[e].order[l]
       PROVE  d = e /\ k = l
  <2>1. CASE d \in 1..D /\ e \in 1..D
    <3>1. CASE k \in DOMAIN defs[d].order /\ l \in DOMAIN defs[e].order
               /\ defs'[d].order[k] = defs[d].order[k]
               /\ defs'[e].order[l] = defs[e].order[l]
      <4>1. \A a \in DOMAIN defs[d].order, b \in DOMAIN defs[e].order :
              defs[d].order[a] = defs[e].order[b] => d = e /\ a = b
        BY <1>2, <2>1 DEF OwnedOnce
      <4>2. QED
        BY <1>10, <3>1, <4>1
    <3>2. CASE /\ d = s /\ k = Len(defs[d].order) + 1
               /\ e = s /\ l = Len(defs[e].order) + 1
      BY <3>2
    <3>3. QED
      BY ZenonT(30), <1>7, <1>9, <1>10, <2>1, <3>1, <3>2
  <2>2. ASSUME NEW i \in 1..N, d = D + i, e \in 1..D
        PROVE  FALSE
    <3>1. defs'[d].order[k] \in D + 1..D + N /\ (s \in 1..D => defs'[d].order[k] # D + 1)
      BY <1>8, <2>2
    <3>2. defs'[e].order[l] \in 1..D \/ (e = s /\ defs'[e].order[l] = D + 1)
      BY <1>7, <2>2
    <3>3. QED
      BY <1>9, <1>10, <2>2, <3>1, <3>2
  <2>3. ASSUME NEW j \in 1..N, e = D + j, d \in 1..D
        PROVE  FALSE
    <3>1. defs'[e].order[l] \in D + 1..D + N /\ (s \in 1..D => defs'[e].order[l] # D + 1)
      BY <1>8, <2>3
    <3>2. defs'[d].order[k] \in 1..D \/ (d = s /\ defs'[d].order[k] = D + 1)
      BY <1>7, <2>3
    <3>3. QED
      BY <1>9, <1>10, <2>3, <3>1, <3>2
  <2>4. ASSUME NEW i \in 1..N, NEW j \in 1..N, d = D + i, e = D + j
        PROVE  d = e /\ k = l
    <3>1. /\ k \in DOMAIN new[i].order /\ defs'[d].order[k] = new[i].order[k]
          /\ l \in DOMAIN new[j].order /\ defs'[e].order[l] = new[j].order[l]
      BY <1>8, <2>4
    <3>2. i = j /\ k = l
      <4>1. i \in DOMAIN new /\ j \in DOMAIN new
        BY <1>2
      <4>2. \A a \in DOMAIN new[i].order, b \in DOMAIN new[j].order :
              new[i].order[a] = new[j].order[b] => i = j /\ a = b
        BY <4>1 DEF OwnedNew
      <4>3. QED
        BY <1>10, <3>1, <4>2
    <3>3. QED
      BY <2>4, <3>2
  <2>5. QED
    BY <1>2, <2>1, <2>2, <2>3, <2>4
<1>11. QED
  BY <1>3, <1>4, <1>10 DEF OwnedOnce

(* New definitions that are typed refer to lower ones, and so will those   *)
(* that a new call remaps.                                                 *)
Extended(rank, low) ==
  [d \in DOMAIN defs' |-> IF d \in DOMAIN defs THEN rank[d] ELSE low[d - Len(defs)]]

SameTypes(old) ==
  \A d \in DOMAIN defs : old[d].kind = defs[d].kind /\ old[d].type = defs[d].type

Lowering(new, low, whole) ==
  \A i \in DOMAIN new :
    IF new[i].kind = "typed" THEN whole[new[i].type] < low[i] ELSE low[i] = 0

TodoLower(whole) ==
  \A j \in DOMAIN frames' : \A c \in Range(frames'[j].todo) :
    \/ /\ j \in DOMAIN frames /\ frames'[j].copies = frames[j].copies
       /\ c \in Range(frames[j].todo)
    \/ defs'[c].kind = "typed" /\ defs'[c].type \in DOMAIN frames'[j].copies =>
         whole[frames'[j].copies[defs'[c].type]] < whole[c]

LEMMA ChainsGrown ==
  ASSUME DefsSound, DefsTyped, FramesSound, FramesTyped,
         NEW old, Sequence(old), Len(old) = Len(defs),
         NEW new, Sequence(new), defs' = old \o new,
         SameTypes(old),
         NEW h \in Nat, NEW rank \in [DOMAIN defs -> 0..h], Chained(rank),
         NEW m \in Nat, NEW low \in [1..Len(new) -> 0..m],
         NEW whole, whole = Extended(rank, low),
         Lowering(new, low, whole), TodoLower(whole)
  PROVE  ChainsEnd'
<1>1. PICK D, N : D = Len(defs) /\ N = Len(new)
  OBVIOUS
<1>2. /\ D \in Nat /\ N \in Nat /\ DOMAIN defs = 1..D /\ DOMAIN new = 1..N
      /\ Len(defs') = D + N /\ DOMAIN defs' = 1..D + N
      /\ \A d \in 1..D : d \in DOMAIN defs' /\ defs'[d] = old[d]
      /\ \A i \in 1..N : D + i \in DOMAIN defs' /\ defs'[D + i] = new[i]
      /\ \A d \in DOMAIN defs' :
           d \in 1..D \/ (d \notin 1..D /\ \E i \in 1..N : d = D + i)
  <2>1. GrownBy(old, new, D, N)
    BY <1>1, DefsAre
  <2>2. QED
    BY <2>1 DEF GrownBy
<1>n. D \in Nat /\ N \in Nat
  BY <1>2
<1>3. /\ DOMAIN whole = DOMAIN defs' /\ whole = [d \in DOMAIN defs' |-> whole[d]]
      /\ \A d \in 1..D : whole[d] = rank[d]
      /\ \A i \in 1..N : whole[D + i] = low[i]
  <2>1. \A i \in 1..N : (D + i) - D = i /\ D + i \notin 1..D
    <3>1. \A i \in 1..N : /\ (D + i) - D = i /\ D + i \notin 1..D
                           /\ D + i \in D + 1..D + N
      BY Zenon, <1>n, Numbers
    <3>2. QED
      BY Zenon, <3>1
  <2>2. QED
    BY <1>1, <1>2, <2>1 DEF Extended
<1>4. PICK n \in Nat : n = h + m /\ 0..h \subseteq 0..n /\ 0..m \subseteq 0..n
  <2>1. h + m \in Nat /\ 0..h \subseteq 0..h + m /\ 0..m \subseteq 0..h + m
    BY Zenon, Numbers
  <2>2. QED
    BY <2>1
<1>5. whole \in [DOMAIN defs' -> 0..n]
  <2>1. \A d \in 1..D : whole[d] \in 0..n
    BY <1>2, <1>3, <1>4
  <2>2. \A i \in 1..N : whole[D + i] \in 0..n
    BY <1>1, <1>3, <1>4
  <2>3. \A d \in DOMAIN defs' : whole[d] \in 0..n
    BY <1>2, <2>1, <2>2
  <2>4. QED
    BY <1>3, <2>3
<1>6. \A d \in 1..D : /\ defs'[d].kind = defs[d].kind /\ defs'[d].type = defs[d].type
                      /\ defs[d].kind = "typed" => defs[d].type \in 1..D
  <2>1. \A d \in 1..D : defs[d].kind = "typed" => defs[d].type \in 0..D /\ defs[d].type # 0
    BY <1>1, <1>2 DEF DefsTyped, Refers
  <2>2. \A k \in 0..D : k # 0 => k \in 1..D
    BY Zenon, <1>n, Numbers
  <2>3. QED
    BY <1>2, <2>1, <2>2 DEF SameTypes
<1>7. ASSUME NEW d \in DOMAIN defs'
      PROVE  IF defs'[d].kind = "typed" THEN whole[defs'[d].type] < whole[d] ELSE whole[d] = 0
  <2>1. CASE d \in 1..D
    <3>1. IF defs[d].kind = "typed" THEN rank[defs[d].type] < rank[d] ELSE rank[d] = 0
      BY <1>2, <2>1 DEF Chained
    <3>2. /\ defs'[d].kind = defs[d].kind /\ defs'[d].type = defs[d].type
          /\ whole[d] = rank[d]
          /\ defs[d].kind = "typed" => whole[defs[d].type] = rank[defs[d].type]
      BY <1>3, <1>6, <2>1
    <3>3. QED
      BY <3>1, <3>2
  <2>2. ASSUME NEW i \in 1..N, d = D + i
        PROVE  IF defs'[d].kind = "typed" THEN whole[defs'[d].type] < whole[d]
               ELSE whole[d] = 0
    <3>1. i \in DOMAIN new /\ defs'[d] = new[i] /\ whole[d] = low[i]
      BY <1>2, <1>3, <2>2
    <3>2. QED
      BY <3>1 DEF Lowering
  <2>3. QED
    BY <1>2, <2>1, <2>2
<1>8. ASSUME NEW j \in DOMAIN frames', NEW c \in Range(frames'[j].todo),
             defs'[c].kind = "typed", defs'[c].type \in DOMAIN frames'[j].copies
      PROVE  whole[frames'[j].copies[defs'[c].type]] < whole[c]
  <2>1. CASE /\ j \in DOMAIN frames /\ frames'[j].copies = frames[j].copies
             /\ c \in Range(frames[j].todo)
    <3>1. c \in 1..D
      BY <1>2, <2>1 DEF FramesSound, FrameSound
    <3>2. defs[c].kind = "typed" /\ defs[c].type \in DOMAIN frames[j].copies
      BY <1>6, <1>8, <2>1, <3>1
    <3>3. rank[frames[j].copies[defs[c].type]] < rank[c]
      BY <2>1, <3>2 DEF Chained
    <3>4. frames[j].copies[defs[c].type] \in 1..D
      BY <1>2, <2>1, <3>2 DEF FramesTyped, FrameTyped
    <3>5. QED
      BY <1>3, <1>6, <2>1, <3>1, <3>3, <3>4
  <2>2. QED
    BY <1>8, <2>1 DEF TodoLower
<1>9. Chained(whole)'
  BY <1>7, <1>8 DEF Chained
<1>10. QED
  BY <1>5, <1>9 DEF ChainsEnd

(* A step of the program that is read, which keeps the calls.              *)
LEMMA AllTyped ==
  ASSUME Typed, KindsKept, DefsTyped', OwnedOnce', TemplatesTyped', OpenTyped', ChainsEnd',
         UNCHANGED <<frames, result>>
  PROVE  Typed'
<1>1. FramesTyped'
  BY FramesTypedKept DEF Typed
<1>2. TodoOnce'
  BY DEF Typed, TodoOnce
<1>3. ResultTyped' /\ Untyped(IntType)' /\ Untyped(ClassType)'
  <2>1. \A d : Untyped(d) => Untyped(d)'
    BY UntypedKept
  <2>2. QED
    BY <2>1 DEF Typed, ResultTyped, IntType, ClassType
<1>4. QED
  BY <1>1, <1>2, <1>3 DEF Typed

LEMMA AllocateTyped ==
  ASSUME Sound, Typed, NEW list, WellFormed(list), Allocate(list), UNCHANGED frames,
         NEW body, body = Len(defs) + Len(list) + 1
  PROVE  /\ DefsTyped' /\ OwnedOnce' /\ KindsKept /\ ChainsEnd'
         /\ DOMAIN defs' = 1..Len(defs) + Len(list) + 1
         /\ Untyped(body)'
         /\ Len(defs) \in Nat /\ Len(list) \in Nat
<1>1. PICK new : /\ Plain(new) /\ Len(new) = Len(list) + 1 /\ defs' = defs \o new
                 /\ DOMAIN defs' = 1..Len(defs) + Len(list) + 1
                 /\ (\A i \in DOMAIN new : Bare(new[i])) /\ new[Len(list) + 1].kind = "class"
  BY AllocateIs DEF Sound
<1>2. PICK D, N : D = Len(defs) /\ N = Len(new)
  OBVIOUS
<1>3. Sequence(defs) /\ Sequence(new) /\ GrownBy(defs, new, D, N)
  <2>1. Sequence(defs) /\ Sequence(new)
    BY <1>1 DEF Sound, DefsSound, Plain
  <2>2. QED
    BY <1>1, <1>2, <2>1, DefsAre DEF Sound
<1>4. /\ D \in Nat /\ N \in Nat /\ DOMAIN defs = 1..D /\ DOMAIN new = 1..N
      /\ \A i \in 1..N : D + i \in DOMAIN defs' /\ defs'[D + i] = new[i]
  BY <1>3 DEF GrownBy
<1>5. Len(list) \in Nat /\ N # 0 /\ D + N = D + Len(list) + 1 /\ N \in 1..N
  <2>1. Len(list) \in Nat /\ N = Len(list) + 1
    BY <1>1, <1>2, ListIs
  <2>2. QED
    BY <1>4, <2>1
<1>6. D + N \in Nat /\ 0 \in 0..D + N /\ 0..D \subseteq 0..D + N /\ 1..D \subseteq 1..D + N
  BY <1>4
<1>7. \A i \in DOMAIN new : new[i].kind # "typed" /\ Refers(new[i], D + N)
  <2>1. ASSUME NEW i \in DOMAIN new
        PROVE  new[i].kind # "typed" /\ Refers(new[i], D + N)
    <3>1. Bare(new[i])
      BY <1>1
    <3>2. QED
      BY <1>6, <3>1 DEF Bare, Refers, Kinds, ValueTypes
  <2>2. QED
    BY <2>1
<1>8. \A d \in DOMAIN defs : Refers(defs[d], D + N)
  <2>1. \A d \in DOMAIN defs : Refers(defs[d], D)
    BY <1>2 DEF Typed, DefsTyped
  <2>2. D <= D + N
    BY <1>4
  <2>3. QED
    BY <1>4, <1>6, <2>1, <2>2, RefersMore
<1>9. Owns(defs, 0) /\ OwnedNew(new, 0)
  <2>1. \A d \in DOMAIN defs : d # 0
    BY <1>4
  <2>2. \A i \in DOMAIN new : DOMAIN new[i].order = {}
    BY <1>1 DEF Plain
  <2>3. QED
    BY <2>1, <2>2 DEF Owns, OwnedNew
<1>10. DefsTyped' /\ OwnedOnce' /\ KindsKept
  BY <1>1, <1>2, <1>3, <1>5, <1>7, <1>8, <1>9, DefsTypedGrown DEF Sound, Typed
<1>11. ChainsEnd'
  <2>1. PICK h \in Nat : \E rank \in [DOMAIN defs -> 0..h] : Chained(rank)
    BY DEF Typed, ChainsEnd
  <2>2. PICK rank \in [DOMAIN defs -> 0..h] : Chained(rank)
    BY <2>1
  <2>3. PICK low, m : low = [i \in 1..Len(new) |-> 0] /\ m = 0
    OBVIOUS
  <2>4. m \in Nat /\ low \in [1..Len(new) -> 0..m] /\ \A i \in DOMAIN new : low[i] = 0
    BY <1>2, <1>4, <2>3
  <2>5. PICK whole : whole = Extended(rank, low)
    OBVIOUS
  <2>6. Lowering(new, low, whole) /\ SameTypes(defs)
    BY <1>7, <2>4 DEF Lowering, SameTypes
  <2>7. \A j \in DOMAIN frames' : \A c \in Range(frames'[j].todo) :
          /\ j \in DOMAIN frames /\ frames'[j].copies = frames[j].copies
          /\ c \in Range(frames[j].todo)
    OBVIOUS
  <2>8. DefsSound /\ DefsTyped /\ FramesSound /\ FramesTyped
    BY DEF Sound, Typed
  <2>9. TodoLower(whole)
    BY <2>7 DEF TodoLower
  <2>10. QED
    BY <1>1, <1>3, <2>2, <2>4, <2>5, <2>6, <2>8, <2>9, ChainsGrown
<1>12. Untyped(body)'
  <2>1. D + N = body
    BY <1>2, <1>5
  <2>2. D + N \in DOMAIN defs' /\ defs'[D + N] = new[N]
    BY <1>4, <1>5
  <2>3. new[N].kind # "typed"
    BY <1>4, <1>5, <1>7
  <2>4. QED
    BY <2>1, <2>2, <2>3 DEF Untyped
<1>13. QED
  BY <1>1, <1>2, <1>4, <1>5, <1>10, <1>11, <1>12

(* Parameters, names and defaults of a new template.                       *)
LEMMA NewTemplateTyped ==
  ASSUME NEW t, NEW list, WellFormed(list), NEW of,
         DOMAIN defs' = 1..Len(defs) + Len(list) + 1,
         Len(defs) \in Nat, Len(list) \in Nat,
         NEW body, body = Len(defs) + Len(list) + 1, Untyped(body)',
         templates'[t] = NewTemplate(list, of)
  PROVE  TemplateTyped(t)'
<1>1. PICK D, n : D = Len(defs) /\ n = Len(list)
  OBVIOUS
<1>2. D \in Nat /\ n \in Nat /\ DOMAIN list = 1..n /\ DOMAIN defs' = 1..D + n + 1
  BY <1>1, ListIs
<1> DEFINE params == [i \in DOMAIN list |-> Len(defs) + i]
           names == [i \in DOMAIN list |-> list[i].name]
           defaults == [i \in DOMAIN list |-> list[i].default]
           map == [m \in Range(names) |-> params[CHOOSE i \in DOMAIN names : names[i] = m]]
<1>3. /\ params = [i \in DOMAIN list |-> Len(defs) + i]
      /\ names = [i \in DOMAIN list |-> list[i].name]
      /\ defaults = [i \in DOMAIN list |-> list[i].default]
      /\ map = [m \in Range(names) |-> params[CHOOSE i \in DOMAIN names : names[i] = m]]
      /\ NewTemplate(list, of) = Template(params, map, names, defaults, body, of)
  <2>1. NewTemplate(list, of)
          = Template(params, map, names, defaults, Len(defs) + Len(list) + 1, of)
    BY DEF NewTemplate, NewBody
  <2>2. QED
    BY Zenon, <2>1
<1> HIDE DEF params, names, defaults, map
<1>4. PICK r : r = Template(params, map, names, defaults, body, of)
  OBVIOUS
<1>5. templates'[t] = r
  BY <1>3, <1>4
<1>6. /\ r.params = params /\ r.general = map /\ r.defaults = defaults
      /\ r.def = body /\ r.instantiations = << >>
  BY <1>4 DEF Template
<1>7. DOMAIN params = 1..n /\ \A i \in 1..n : params[i] \in DOMAIN defs'
  <2>1. \A i \in 1..n : D + i \in 1..D + n + 1
    BY <1>2
  <2>2. QED
    BY <1>1, <1>2, <1>3, <2>1
<1>8. Sequence(params) /\ Range(params) \subseteq DOMAIN defs'
  <2>1. params = [i \in 1..n |-> params[i]]
    BY <1>2, <1>3
  <2>2. Sequence(params)
    BY <1>2, <1>7, <2>1, SequenceOf
  <2>3. QED
    BY <1>7, <2>2 DEF Range
<1>9. map \in [DOMAIN map -> DOMAIN defs']
  <2>1. \A x \in Range(names) : \E i \in DOMAIN names : names[i] = x
    BY DEF Range
  <2>2. DOMAIN names = 1..n
    BY <1>2, <1>3
  <2>3. \A x \in Range(names) :
          params[CHOOSE i \in DOMAIN names : names[i] = x] \in DOMAIN defs'
    BY <1>7, <2>1, <2>2
  <2>4. QED
    BY <1>3, <2>3
<1>10. \A i \in DOMAIN defaults : defaults[i].kind = "type" =>
                                    defaults[i].of \in {IntType, ClassType}
  <2>1. \A i \in 1..n : list[i].default.kind = "type" =>
                          list[i].default.of \in {IntType, ClassType}
    BY <1>2 DEF WellFormed
  <2>2. QED
    BY <1>2, <1>3, <2>1
<1>11. QED
  <2>1. Instances(t)' = << >> /\ DOMAIN << >> = {}
    BY <1>5, <1>6 DEF Instances
  <2>2. Sequence(templates[t].params)' /\ Range(templates[t].params)' \subseteq DOMAIN defs'
    BY <1>5, <1>6, <1>8 DEF Sequence
  <2>3. Untyped(templates[t].def)'
    BY <1>5, <1>6
  <2>4. QED
    BY <1>5, <1>6, <1>9, <1>10, <2>1, <2>2, <2>3 DEF TemplateTyped

LEMMA DeclareTyped ==
  ASSUME Sound, Typed, NEW list \in program.lists, NEW forward, Declare(list, forward)
  PROVE  Typed'
<1>1. /\ AtOuter /\ Allocate(list) /\ UNCHANGED <<frames, result>>
      /\ IF forward THEN UNCHANGED open
         ELSE OpenBody(Len(templates) + 1, NewBody(list))
  BY DEF Declare
<1>2. WellFormed(list)
  BY ProgramsAssumption DEF Sound
<1>b. PICK body : body = Len(defs) + Len(list) + 1
  OBVIOUS
<1>3. /\ DefsTyped' /\ OwnedOnce' /\ KindsKept /\ ChainsEnd'
      /\ DOMAIN defs' = 1..Len(defs) + Len(list) + 1
      /\ Untyped(body)'
      /\ Len(defs) \in Nat /\ Len(list) \in Nat
  BY <1>1, <1>2, <1>b, AllocateTyped
<1>4. PICK r, L : r = NewTemplate(list, 0) /\ L = Len(templates)
  OBVIOUS
<1>5. templates' = Append(templates, r)
  BY <1>4 DEF Declare
<1>6. /\ L \in Nat /\ DOMAIN templates = 1..L /\ DOMAIN templates' = 1..L + 1
      /\ \A t \in 1..L : templates'[t] = templates[t]
      /\ templates'[L + 1] = r
  BY <1>4, <1>5, Appended, SequenceIs DEF Sound, TemplatesSound
<1>7. TemplatesTyped'
  <2>1. ASSUME NEW t \in 1..L
        PROVE  TemplateTyped(t)'
    <3>1. TemplateTyped(t) /\ templates'[t] = templates[t]
      BY <1>6 DEF Typed, TemplatesTyped
    <3>2. templates'[t].general \in [DOMAIN templates'[t].general -> DOMAIN defs']
      BY <1>3, <3>1 DEF TemplateTyped, KindsKept
    <3>3. QED
      BY <1>3, <3>1, <3>2, TemplateTypedKept
  <2>2. ASSUME NEW t, t = L + 1
        PROVE  TemplateTyped(t)'
    <3>1. templates'[t] = NewTemplate(list, 0)
      BY <1>4, <1>6, <2>2
    <3>2. QED
      BY <1>2, <1>3, <1>b, <3>1, NewTemplateTyped
  <2>3. \A t \in 1..L + 1 : t \in 1..L \/ t = L + 1
    BY <1>6
  <2>4. QED
    BY <1>6, <2>1, <2>2, <2>3 DEF TemplatesTyped
<1>8. OpenTyped'
  <2>1. CASE forward
    BY <1>1, <1>3, <2>1, OpenTypedKept DEF Typed
  <2>2. CASE ~forward
    <3>1. NewBody(list) \in DOMAIN defs'
      BY <1>3, <1>b DEF NewBody, Untyped
    <3>2. QED
      BY <1>1, <2>2, <3>1, OpenedTyped
  <2>3. QED
    BY <2>1, <2>2
<1>9. QED
  BY <1>1, <1>3, <1>7, <1>8, AllTyped

LEMMA SpecializeTyped ==
  ASSUME Sound, Typed, NEW u \in DOMAIN templates, NEW p \in program.patterns,
         Specialize(u, p.list, p.args)
  PROVE  Typed'
<1>1. /\ Allocate(p.list) /\ OpenBody(Len(templates) + 1, NewBody(p.list))
      /\ UNCHANGED <<frames, result>>
  BY DEF Specialize
<1>2. WellFormed(p.list)
  BY ProgramsAssumption DEF Sound, Deducible
<1>b. PICK body : body = Len(defs) + Len(p.list) + 1
  OBVIOUS
<1>3. /\ DefsTyped' /\ OwnedOnce' /\ KindsKept /\ ChainsEnd'
      /\ DOMAIN defs' = 1..Len(defs) + Len(p.list) + 1
      /\ Untyped(body)'
      /\ Len(defs) \in Nat /\ Len(p.list) \in Nat
  BY <1>1, <1>2, <1>b, AllocateTyped
<1>4. PICK L, last : L = Len(templates) /\ last = NewTemplate(p.list, u)
  OBVIOUS
<1>5. PICK g, specs, r, changed :
        /\ g = templates[u]
        /\ specs = Append(g.specializations,
                     [filter |-> FilterOf(p.args), pattern |-> p.args,
                      inds |-> Positions(p.list, p.args), temp |-> L + 1])
        /\ r = [g EXCEPT !.specializations = specs]
        /\ changed = [templates EXCEPT ![u] = r]
  OBVIOUS
<1>6. templates' = Append(changed, last)
  BY <1>4, <1>5 DEF Specialize
<1>7. DOMAIN g = TemplateFields
  BY <1>5 DEF Sound, TemplatesSound, TemplateSound
<1>8. /\ r.params = g.params /\ r.defaults = g.defaults /\ r.def = g.def
      /\ r.instantiations = g.instantiations /\ r.general = g.general
  BY <1>5, <1>7 DEF TemplateFields
<1>9. /\ Sequence(changed) /\ Len(changed) = L /\ DOMAIN changed = DOMAIN templates
      /\ \A t \in DOMAIN templates : changed[t] = IF t = u THEN r ELSE templates[t]
  <2>1. Sequence(templates)
    BY DEF Sound, TemplatesSound
  <2>2. LET w == [templates EXCEPT ![u] = r] IN
        /\ Sequence(w) /\ Len(w) = Len(templates) /\ DOMAIN w = DOMAIN templates
        /\ \A t \in DOMAIN templates : w[t] = IF t = u THEN r ELSE templates[t]
    BY <2>1, Updated
  <2>3. QED
    BY <1>4, <1>5, <2>2
<1>10. /\ L \in Nat /\ DOMAIN templates = 1..L /\ DOMAIN templates' = 1..L + 1
       /\ \A t \in 1..L : templates'[t] = changed[t]
       /\ templates'[L + 1] = last
  BY <1>4, <1>6, <1>9, Appended, SequenceIs DEF Sound, TemplatesSound
<1>11. TemplatesTyped'
  <2>1. ASSUME NEW t \in 1..L
        PROVE  TemplateTyped(t)'
    <3>1. TemplateTyped(t)
      BY <1>10 DEF Typed, TemplatesTyped
    <3>2. /\ templates'[t].params = templates[t].params /\ templates'[t].def = templates[t].def
          /\ templates'[t].defaults = templates[t].defaults
          /\ templates'[t].instantiations = templates[t].instantiations
          /\ templates'[t].general = templates[t].general
      BY <1>5, <1>8, <1>9, <1>10
    <3>3. templates'[t].general \in [DOMAIN templates'[t].general -> DOMAIN defs']
      BY <1>3, <3>1, <3>2 DEF TemplateTyped, KindsKept
    <3>4. QED
      BY <1>3, <3>1, <3>2, <3>3, TemplateTypedKept
  <2>2. ASSUME NEW t, t = L + 1
        PROVE  TemplateTyped(t)'
    <3>1. templates'[t] = NewTemplate(p.list, u)
      BY <1>4, <1>10, <2>2
    <3>2. QED
      BY <1>2, <1>3, <1>b, <3>1, NewTemplateTyped
  <2>3. \A t \in 1..L + 1 : t \in 1..L \/ t = L + 1
    BY <1>10
  <2>4. QED
    BY <1>10, <2>1, <2>2, <2>3 DEF TemplatesTyped
<1>12. OpenTyped'
  <2>1. NewBody(p.list) \in DOMAIN defs'
    BY <1>3, <1>b DEF NewBody, Untyped
  <2>2. QED
    BY <1>1, <2>1, OpenedTyped
<1>13. QED
  BY <1>1, <1>3, <1>11, <1>12, AllTyped

-----------------------------------------------------------------------------
(* What is read into a body.                                               *)
Trees(f) ==
  f = [d \in DOMAIN defs |-> {d} \union UNION {f[m] : m \in Range(defs[d].order)}]

(* S is b with all that it owns, that these own, and so on.                *)
Spans(S, b) ==
  /\ b \in S /\ S \subseteq DOMAIN defs
  /\ \A d \in S : Range(defs[d].order) \subseteq S
  /\ \A d \in S : d = b \/ \E e \in S : d \in Range(defs[e].order)

LEMMA TreeSpans ==
  ASSUME Owned, Treelike, NEW x \in DOMAIN defs
  PROVE  Spans(Tree(x), x)
<1> DEFINE D == DOMAIN defs
           V == SUBSET D
           step == [d \in D |-> [g \in [D -> V] |->
                      {d} \union UNION {g[m] : m \in Range(defs[d].order)}]]
           tree == CHOOSE f : Trees(f)
<1>1. PICK n \in Nat : \E rank \in [D -> 0..n] : LowerOwned(rank)
  BY DEF Treelike
<1>2. PICK rank \in [D -> 0..n] : LowerOwned(rank)
  BY <1>1
<1>3. \A d \in D : \A m \in Range(defs[d].order) : m \in D /\ rank[m] < rank[d]
  <2>1. TAKE d \in D
  <2>2. TAKE m \in Range(defs[d].order)
  <2>3. PICK k \in DOMAIN defs[d].order : defs[d].order[k] = m
    BY DEF Range
  <2>4. m \in D
    <3>1. defs[d].order \in Seq(D)
      BY DEF Owned
    <3>2. QED
      BY <2>3, <3>1, MembersOf
  <2>5. QED
    BY <1>2, <2>3, <2>4 DEF LowerOwned
<1>4. Ranked(D, V, rank, step)
  <2>1. step \in [D -> [[D -> V] -> V]]
    BY <1>3
  <2>2. ASSUME NEW d \in D, NEW g \in [D -> V], NEW h \in [D -> V],
               \A c \in D : rank[c] < rank[d] => g[c] = h[c]
        PROVE  step[d][g] = step[d][h]
    <3>1. \A m \in Range(defs[d].order) : g[m] = h[m]
      BY <1>3, <2>2
    <3>2. {g[m] : m \in Range(defs[d].order)} = {h[m] : m \in Range(defs[d].order)}
      BY <3>1
    <3>3. QED
      BY <3>2
  <2>3. QED
    BY <2>1, <2>2 DEF Ranked
<1>5. PICK g \in [D -> V] : \A d \in D : g[d] = step[d][g]
  <2>1. PICK DD, VV, ss : DD = D /\ VV = V /\ ss = step
    OBVIOUS
  <2>2. rank \in [DD -> 0..n] /\ VV # {} /\ Ranked(DD, VV, rank, ss)
    BY <1>2, <1>4, <2>1
  <2>3. \E g \in [DD -> VV] : \A d \in DD : g[d] = ss[d][g]
    BY <2>2, RankedDescent
  <2> HIDE DEF D, V, step
  <2>4. QED
    BY <2>1, <2>3
<1>6. Trees(g)
  BY <1>5 DEF Trees
<1>7. Trees(tree)
  BY <1>6
<1>8. Tree(x) = tree[x]
  BY DEF Tree, Trees
<1> HIDE DEF tree
<1>9. \A d \in D : tree[d] = {d} \union UNION {tree[m] : m \in Range(defs[d].order)}
  BY <1>7 DEF Trees
<1> DEFINE At(d) == /\ tree[d] \subseteq D
                    /\ \A y \in tree[d] : Range(defs[y].order) \subseteq tree[d]
                    /\ \A y \in tree[d] : y = d \/ \E e \in tree[d] : y \in Range(defs[e].order)
           T == {d \in D : At(d)}
<1>10. ASSUME NEW d \in D, \A c \in D : rank[c] < rank[d] => c \in T
       PROVE  d \in T
  <2>1. \A m \in Range(defs[d].order) : At(m) /\ m \in tree[m]
    BY <1>3, <1>9, <1>10
  <2>2. \A y \in tree[d] : y = d \/ \E m \in Range(defs[d].order) : y \in tree[m]
    BY <1>9
  <2>3. /\ d \in tree[d] /\ \A m \in Range(defs[d].order) : tree[m] \subseteq tree[d]
    BY <1>9
  <2>4. tree[d] \subseteq D
    BY <2>1, <2>2
  <2>5. ASSUME NEW y \in tree[d]
        PROVE  /\ Range(defs[y].order) \subseteq tree[d]
               /\ y = d \/ \E e \in tree[d] : y \in Range(defs[e].order)
    <3>1. CASE y = d
      BY <2>1, <2>3, <3>1
    <3>2. ASSUME NEW m \in Range(defs[d].order), y \in tree[m]
          PROVE  /\ Range(defs[y].order) \subseteq tree[d]
                 /\ \E e \in tree[d] : y \in Range(defs[e].order)
      BY <2>1, <2>3, <3>2
    <3>3. QED
      BY <2>2, <3>1, <3>2
  <2>6. QED
    BY <2>4, <2>5
<1>11. D \subseteq T
  <2>1. Hereditary(D, rank, T)
    <3> HIDE DEF T, D
    <3>1. QED
      BY <1>10 DEF Hereditary
  <2> HIDE DEF T, D
  <2>2. QED
    BY <1>2, <2>1, RankedInduction
<1>12. x \in tree[x] /\ At(x)
  BY <1>9, <1>11
<1>13. QED
  BY <1>8, <1>12 DEF Spans

LEMMA TreeIs ==
  ASSUME Owned, Treelike, NEW x \in DOMAIN defs
  PROVE  Tree(x) \subseteq DOMAIN defs
BY TreeSpans DEF Spans

LEMMA ScopeIs ==
  ASSUME OpenTyped, open.temp # 0
  PROVE  scope \in DOMAIN defs
<1>1. PICK s : s = open.scopes
  OBVIOUS
<1>2. s # << >> /\ Sequence(s) /\ Range(s) \subseteq DOMAIN defs
  BY <1>1 DEF OpenTyped
<1>3. Len(s) \in Nat \ {0} /\ Last(s) = s[Len(s)] /\ DOMAIN s = 1..Len(s)
  BY <1>2, FrontOf, SequenceIs
<1>4. PICK n : n = Len(s)
  OBVIOUS
<1>5. n \in 1..n
  BY <1>3, <1>4
<1>6. Last(s) \in DOMAIN defs
  BY <1>2, <1>3, <1>4, <1>5 DEF Range
<1>7. QED
  BY <1>1, <1>6 DEF scope

(* The types that a member may have are definitions.                       *)
LEMMA TypesAre ==
  ASSUME Sound, Typed, open.temp # 0
  PROVE  /\ \A t \in Types : t.type \in DOMAIN defs
         /\ \A x \in DOMAIN named : named[x] \in DOMAIN defs
<1>1. open.temp \in DOMAIN templates
  <2>1. Len(templates) \in Nat /\ DOMAIN templates = 1..Len(templates)
    BY SequenceIs DEF Sound, TemplatesSound
  <2>2. QED
    BY <2>1 DEF Sound, OpenSound
<1>2. TemplateTyped(open.temp)
  BY <1>1 DEF Typed, TemplatesTyped
<1>3. \A x \in DOMAIN named : named[x] \in DOMAIN defs
  BY <1>2 DEF TemplateTyped, named
<1>4. Tree(templates[open.temp].def) \subseteq DOMAIN defs
  BY <1>2, TreeIs DEF TemplateTyped, Untyped, Sound, DefsSound
<1>5. ASSUME NEW t \in Types
      PROVE  t.type \in DOMAIN defs
  <2>1. \/ \E x \in TypeNames : t.type = named[x]
        \/ \E d \in {IntType, ClassType} \union Tree(templates[open.temp].def) : t.type = d
    <3> DEFINE Own == {m \in Tree(templates[open.temp].def) :
                         \/ defs[m].kind = "typed" /\ "typedef" \in program.constructs
                         \/ defs[m].kind = "class" /\ m \notin Range(open.scopes)}
    <3>1. PICK empty : empty = NoName
      OBVIOUS
    <3>2. Types = {[type |-> named[x], spelt |-> x] : x \in TypeNames} \union
                  {[type |-> d, spelt |-> NoName] : d \in {IntType, ClassType} \union Own}
      BY Zenon DEF Types
    <3>3. \/ t \in {[type |-> named[x], spelt |-> x] : x \in TypeNames}
          \/ t \in {[type |-> d, spelt |-> empty] : d \in {IntType, ClassType} \union Own}
      <4> HIDE DEF Own
      <4>1. QED
        BY Zenon, <3>1, <3>2
    <3>4. Own \subseteq Tree(templates[open.temp].def)
      OBVIOUS
    <3> HIDE DEF Own
    <3>5. QED
      BY <3>3, <3>4
  <2>2. IntType \in DOMAIN defs /\ ClassType \in DOMAIN defs
    BY DEF Typed, Untyped
  <2>3. \A x \in TypeNames : x \in DOMAIN named
    BY DEF TypeNames
  <2>4. QED
    BY <1>3, <1>4, <2>1, <2>2, <2>3
<1>6. QED
  BY <1>3, <1>5

LEMMA DefinitionRefers ==
  ASSUME NEW n \in Nat, NEW kind \in Kinds, NEW parent \in 0..n, NEW type \in 0..n,
         kind = "typed" => type # 0
  PROVE  LET g == Definition(kind, parent, type) IN
         /\ DOMAIN g = DefinitionFields /\ g.kind = kind /\ g.type = type
         /\ g.value = None /\ DOMAIN g.general = {} /\ Refers(g, n)
<1>1. PICK g : g = Definition(kind, parent, type)
  OBVIOUS
<1>2. /\ DOMAIN g = DefinitionFields /\ g.kind = kind /\ g.parent = parent /\ g.type = type
      /\ g.base = 0 /\ g.expr = NoExpression /\ g.general = << >> /\ g.value = None
  BY <1>1 DEF Definition, DefinitionFields
<1>3. NoExpression.def = 0 /\ DOMAIN << >> = {} /\ None.type \in ValueTypes
  BY DEF NoExpression, Expression, None, Value, ValueTypes
<1>4. 0 \in 0..n
  OBVIOUS
<1>5. Refers(g, n)
  BY <1>2, <1>3, <1>4 DEF Refers
<1>6. QED
  BY <1>1, <1>2, <1>3, <1>5

(* What is typed among the new has an old type, or one that is no typedef. *)
Linked(new) ==
  \A i \in DOMAIN new : new[i].kind = "typed" =>
    \/ new[i].type \in DOMAIN defs
    \/ \E j \in DOMAIN new : new[i].type = Len(defs) + j /\ new[j].kind # "typed"

LEMMA DeclaredTyped ==
  ASSUME Sound, Typed, UNCHANGED <<templates, frames, result>>,
         NEW x \in DOMAIN defs, NEW g, NEW old, old = [defs EXCEPT ![x] = g],
         g.kind = defs[x].kind, g.type = defs[x].type,
         g.order = Append(defs[x].order, Len(defs) + 1),
         NEW new, Sequence(new), Len(new) # 0, defs' = old \o new,
         NEW n, n = Len(defs) + Len(new),
         Refers(g, n), \A i \in DOMAIN new : Refers(new[i], n),
         OwnedNew(new, x), Linked(new)
  PROVE  /\ n \in Nat /\ DOMAIN defs' = 1..n /\ Len(defs) + 1 \in 1..n
         /\ KindsKept /\ (OpenTyped' => Typed')
<1>1. PICK D, N : D = Len(defs) /\ N = Len(new)
  OBVIOUS
<1>2. /\ Sequence(old) /\ Len(old) = Len(defs)
      /\ \A d \in DOMAIN defs : old[d] = IF d = x THEN g ELSE defs[d]
  <2>1. Sequence(defs)
    BY DEF Sound, DefsSound
  <2>2. LET w == [defs EXCEPT ![x] = g] IN
        /\ Sequence(w) /\ Len(w) = Len(defs) /\ DOMAIN w = DOMAIN defs
        /\ \A d \in DOMAIN defs : w[d] = IF d = x THEN g ELSE defs[d]
    BY <2>1, Updated
  <2>3. QED
    BY <2>2
<1>3. GrownBy(old, new, D, N)
  BY <1>1, <1>2, DefsAre DEF Sound
<1>4. /\ D \in Nat /\ N \in Nat /\ DOMAIN defs = 1..D /\ DOMAIN new = 1..N
      /\ DOMAIN defs' = 1..D + N
  BY <1>3 DEF GrownBy
<1>5. n = D + N /\ N # 0
  BY <1>1
<1>6. n \in Nat /\ D <= n /\ D + 1 \in 1..n
  BY <1>4, <1>5
<1>7. \A d \in DOMAIN defs : old[d].kind = defs[d].kind /\ Refers(old[d], n)
  <2>1. \A d \in DOMAIN defs : Refers(defs[d], D)
    BY <1>1 DEF Typed, DefsTyped
  <2>2. \A d \in DOMAIN defs : Refers(defs[d], n)
    BY <1>4, <1>6, <2>1, RefersMore
  <2>3. QED
    BY <1>2, <2>2
<1>8. Owns(old, x) /\ SameTypes(old)
  BY <1>2 DEF Owns, SameTypes
<1>9. DefsTyped' /\ OwnedOnce' /\ KindsKept
  BY <1>2, <1>7, <1>8, DefsTypedGrown DEF Sound, Typed
<1>10. TemplatesTyped'
  BY <1>9, TemplatesTypedKept DEF Typed
<1>11. ChainsEnd'
  <2>1. PICK h \in Nat : \E rank \in [DOMAIN defs -> 0..h] : Chained(rank)
    BY DEF Typed, ChainsEnd
  <2>2. PICK rank \in [DOMAIN defs -> 0..h] : Chained(rank)
    BY <2>1
  <2>3. PICK low, m : /\ m = h + 1
                      /\ low = [i \in 1..Len(new) |->
                                  IF new[i].kind # "typed" THEN 0
                                  ELSE IF new[i].type \in 1..D THEN rank[new[i].type] + 1
                                  ELSE 1]
    OBVIOUS
  <2>4. m \in Nat /\ 0 \in 0..m /\ 1 \in 0..m /\ \A k \in 0..h : k + 1 \in 0..m /\ k < k + 1
    BY <2>3
  <2>5. \A c \in 1..D : rank[c] + 1 \in 0..m /\ rank[c] < rank[c] + 1
    <3>1. \A c \in 1..D : rank[c] \in 0..h
      BY <1>4
    <3>2. QED
      BY <2>4, <3>1
  <2>6. low \in [1..Len(new) -> 0..m]
    BY <2>3, <2>4, <2>5
  <2>7. PICK whole : whole = Extended(rank, low)
    OBVIOUS
  <2>8. /\ \A c \in 1..D : whole[c] = rank[c]
        /\ \A j \in 1..N : whole[D + j] = low[j]
    <3>1. \A j \in 1..N : D + j \in DOMAIN defs' /\ D + j \notin 1..D /\ (D + j) - D = j
      <4>1. \A j \in 1..N : D + j \in DOMAIN defs'
        BY <1>3 DEF GrownBy
      <4>2. \A j \in 1..N : /\ (D + j) - D = j /\ D + j \notin 1..D
                             /\ D + j \in D + 1..D + N
        BY Zenon, <1>4, Numbers
      <4>3. QED
        BY Zenon, <4>1, <4>2
    <3>2. \A c \in 1..D : c \in DOMAIN defs'
      BY <1>3 DEF GrownBy
    <3>3. QED
      BY <1>1, <1>4, <2>7, <3>1, <3>2 DEF Extended
  <2>9. ASSUME NEW i \in DOMAIN new
        PROVE  IF new[i].kind = "typed" THEN whole[new[i].type] < low[i] ELSE low[i] = 0
    <3>1. low[i] = IF new[i].kind # "typed" THEN 0
                   ELSE IF new[i].type \in 1..D THEN rank[new[i].type] + 1 ELSE 1
      BY <1>1, <1>4, <2>3
    <3>2. CASE new[i].kind # "typed"
      BY <3>1, <3>2
    <3>3. CASE new[i].kind = "typed" /\ new[i].type \in 1..D
      BY <2>5, <2>8, <3>1, <3>3
    <3>4. CASE new[i].kind = "typed" /\ new[i].type \notin 1..D
      <4>1. PICK j \in DOMAIN new : new[i].type = D + j /\ new[j].kind # "typed"
        BY <1>1, <1>4, <3>4 DEF Linked
      <4>2. low[j] = 0
        BY <1>1, <1>4, <2>3, <4>1
      <4>3. whole[new[i].type] = 0 /\ low[i] = 1
        BY <1>4, <2>8, <3>1, <3>4, <4>1, <4>2
      <4>4. QED
        BY <3>4, <4>3
    <3>5. QED
      BY <3>2, <3>3, <3>4
  <2>10. Lowering(new, low, whole)
    BY <2>9 DEF Lowering
  <2>11. TodoLower(whole)
    BY DEF TodoLower
  <2>12. DefsSound /\ DefsTyped /\ FramesSound /\ FramesTyped
    BY DEF Sound, Typed
  <2>13. QED
    BY <1>2, <1>8, <2>2, <2>4, <2>6, <2>7, <2>10, <2>11, <2>12, ChainsGrown
<1>12. OpenTyped' => Typed'
  BY <1>9, <1>10, <1>11, AllTyped
<1>13. QED
  BY <1>1, <1>4, <1>5, <1>6, <1>9, <1>12

(* New definitions that own nothing, the first owned by the innermost      *)
(* class.                                                                  *)
LEMMA PlainDeclaredTyped ==
  ASSUME Sound, Typed, UNCHANGED <<templates, frames, result>>, open.temp # 0,
         NEW new, Declared(new), Plain(new), Len(new) # 0,
         NEW n, n = Len(defs) + Len(new),
         \A i \in DOMAIN new : Refers(new[i], n), Linked(new)
  PROVE  /\ n \in Nat /\ DOMAIN defs' = 1..n /\ Len(defs) + 1 \in 1..n
         /\ KindsKept /\ (OpenTyped' => Typed')
<1>1. PICK x, order, d : /\ x = scope /\ d = defs[x]
                         /\ order = Append(defs[x].order, Len(defs) + 1)
  OBVIOUS
<1>2. PICK g : g = [d EXCEPT !.order = order]
  OBVIOUS
<1>3. PICK old : old = [defs EXCEPT ![x] = g]
  OBVIOUS
<1>4. defs' = old \o new
  BY <1>1, <1>2, <1>3 DEF Declared
<1>5. x \in DOMAIN defs
  BY <1>1, ScopeIs DEF Typed
<1>6. DOMAIN d = DefinitionFields /\ Refers(d, Len(defs))
  BY <1>1, <1>5 DEF Sound, DefsSound, Typed, DefsTyped
<1>7. /\ g.kind = d.kind /\ g.type = d.type /\ g.order = order /\ g.parent = d.parent
      /\ g.value = d.value /\ g.base = d.base /\ g.expr = d.expr /\ g.general = d.general
  BY <1>2, <1>6 DEF DefinitionFields
<1>8. Refers(g, n)
  <2>1. Len(defs) \in Nat /\ Len(new) \in Nat
    BY SequenceIs DEF Sound, DefsSound, Plain
  <2>2. n \in Nat /\ Len(defs) <= n
    BY <2>1
  <2>3. Refers(d, n)
    BY <1>6, <2>1, <2>2, RefersMore
  <2>4. QED
    BY <1>7, <2>3 DEF Refers
<1>9. Sequence(new) /\ OwnedNew(new, x)
  <2>1. \A i \in DOMAIN new : DOMAIN new[i].order = {}
    BY DEF Plain
  <2>2. QED
    BY <2>1 DEF Plain, OwnedNew
<1>10. /\ g.kind = defs[x].kind /\ g.type = defs[x].type
       /\ g.order = Append(defs[x].order, Len(defs) + 1)
  BY <1>1, <1>7
<1>11. QED
  BY <1>3, <1>4, <1>5, <1>8, <1>9, <1>10, DeclaredTyped

(* One more definition.                                                    *)
LEMMA OneDeclaredTyped ==
  ASSUME Sound, Typed, UNCHANGED <<templates, frames, result>>, open.temp # 0,
         NEW g, Declared(<<g>>), NewDefinition(g), g.order = << >>,
         NEW n, n = Len(defs) + 1, Refers(g, n),
         g.kind = "typed" => g.type \in DOMAIN defs
  PROVE  /\ n \in Nat /\ DOMAIN defs' = 1..n /\ Len(defs) + 1 \in 1..n
         /\ KindsKept /\ (OpenTyped' => Typed')
<1>1. PICK new : new = <<g>>
  OBVIOUS
<1>2. Plain(new) /\ Len(new) # 0 /\ Declared(new)
  BY <1>1, OnePlain
<1>3. Len(new) = 1 /\ \A i \in DOMAIN new : new[i] = g
  BY <1>1
<1>4. n = Len(defs) + Len(new) /\ (\A i \in DOMAIN new : Refers(new[i], n)) /\ Linked(new)
  BY <1>3 DEF Linked
<1>5. QED
  BY <1>2, <1>4, PlainDeclaredTyped

LEMMA MemberTyped ==
  ASSUME Sound, Typed, NEW t \in Types, Member(t)
  PROVE  Typed'
<1>1. PICK d, g : d = Definition("typed", scope, t.type) /\ g = [d EXCEPT !.spelt = t.spelt]
  OBVIOUS
<1>2. /\ Declared(<<g>>) /\ open.temp # 0 /\ UNCHANGED open
      /\ UNCHANGED <<templates, frames, result>>
  BY <1>1 DEF Member, ReadingBody, Stay
<1>3. NewDefinition(g) /\ g.order = << >>
  <2>1. NewDefinition(d) /\ d.order = << >>
    BY Zenon, <1>1, ParameterIs
  <2>2. QED
    BY <1>1, <2>1, FieldIs
<1>4. t.type \in DOMAIN defs /\ scope \in DOMAIN defs
  BY <1>2, TypesAre, ScopeIs DEF Typed
<1>5. PICK n : n = Len(defs) + 1
  OBVIOUS
<1>6. /\ n \in Nat /\ t.type \in 0..n /\ t.type # 0 /\ scope \in 0..n
  <2>1. PICK D : D = Len(defs)
    OBVIOUS
  <2>2. D \in Nat /\ DOMAIN defs = 1..D
    BY <2>1, SequenceIs DEF Sound, DefsSound
  <2>3. n \in Nat /\ \A k \in 1..D : k \in 0..n /\ k # 0
    BY <1>5, <2>1, <2>2
  <2>4. QED
    BY <1>4, <2>2, <2>3
<1>7. g.kind = "typed" /\ g.type = t.type /\ Refers(g, n)
  <2>1. "typed" \in Kinds
    BY DEF Kinds
  <2>2. DOMAIN d = DefinitionFields /\ d.kind = "typed" /\ d.type = t.type /\ Refers(d, n)
    BY <1>1, <1>6, <2>1, DefinitionRefers
  <2>3. /\ g.kind = d.kind /\ g.type = d.type /\ g.parent = d.parent
        /\ g.value = d.value /\ g.base = d.base /\ g.expr = d.expr /\ g.general = d.general
    BY <1>1, <2>2 DEF DefinitionFields
  <2>4. QED
    BY <2>2, <2>3 DEF Refers
<1>8. KindsKept /\ (OpenTyped' => Typed')
  BY <1>2, <1>3, <1>4, <1>5, <1>7, OneDeclaredTyped
<1>9. QED
  BY <1>2, <1>8, OpenTypedKept DEF Typed

LEMMA OpenClassTyped ==
  ASSUME Sound, Typed, OpenClass
  PROVE  Typed'
<1>1. PICK g : g = Definition("class", scope, 0)
  OBVIOUS
<1>2. /\ Declared(<<g>>) /\ open.temp # 0
      /\ open' = [open EXCEPT !.scopes = Append(open.scopes, Len(defs) + 1)]
      /\ UNCHANGED <<templates, frames, result>>
  BY <1>1 DEF OpenClass, ReadingBody, Stay
<1>3. NewDefinition(g) /\ g.order = << >>
  BY Zenon, <1>1, ParameterIs
<1>4. scope \in DOMAIN defs
  BY <1>2, ScopeIs DEF Typed
<1>5. PICK n, D : n = Len(defs) + 1 /\ D = Len(defs)
  OBVIOUS
<1>6. n \in Nat /\ 0 \in 0..n /\ scope \in 0..n /\ D \in Nat /\ 1..D \subseteq 1..n
  <2>1. D \in Nat /\ DOMAIN defs = 1..D
    BY <1>5, SequenceIs DEF Sound, DefsSound
  <2>2. n \in Nat /\ (\A k \in 1..D : k \in 0..n) /\ 1..D \subseteq 1..n /\ 0 \in 0..n
    BY <1>5, <2>1
  <2>3. QED
    BY <1>4, <2>1, <2>2
<1>7. g.kind = "class" /\ Refers(g, n)
  <2>1. "class" \in Kinds
    BY DEF Kinds
  <2>2. QED
    BY <1>1, <1>6, <2>1, DefinitionRefers
<1>8. /\ DOMAIN defs' = 1..n /\ Len(defs) + 1 \in 1..n
      /\ KindsKept /\ (OpenTyped' => Typed')
  BY <1>2, <1>3, <1>5, <1>7, OneDeclaredTyped
<1>9. OpenTyped'
  <2>1. PICK s, c : s = open.scopes /\ c = Append(s, n)
    OBVIOUS
  <2>2. Sequence(s) /\ Range(s) \subseteq DOMAIN defs
    BY <1>2, <2>1 DEF Typed, OpenTyped
  <2>3. /\ Sequence(c) /\ DOMAIN c = 1..Len(s) + 1 /\ Len(c) = Len(s) + 1
        /\ \A i \in 1..Len(s) : c[i] = s[i]
        /\ c[Len(s) + 1] = n
    BY <2>1, <2>2, Appended
  <2>4. Len(s) \in Nat /\ DOMAIN s = 1..Len(s)
    BY <2>2, SequenceIs
  <2>5. \A i \in 1..Len(s) + 1 : i \in 1..Len(s) \/ i = Len(s) + 1
    BY <2>4
  <2>6. Range(c) \subseteq DOMAIN defs' /\ c # << >>
    <3>1. \A i \in DOMAIN c : c[i] \in DOMAIN defs'
      <4>1. n \in 1..n
        BY <1>5, <1>8
      <4>2. \A i \in DOMAIN s : s[i] \in DOMAIN defs'
        BY <1>8, <2>2 DEF Range, KindsKept
      <4>3. QED
        BY <1>8, <2>3, <2>4, <2>5, <4>1, <4>2
    <3>2. Len(c) # 0
      BY <2>3, <2>4
    <3>3. QED
      BY <3>1, <3>2 DEF Range
  <2>7. open'.scopes = c
    BY <1>2, <1>5, <2>1 DEF Sound, OpenSound
  <2>8. QED
    BY <2>3, <2>6, <2>7 DEF OpenTyped, Sequence
<1>10. QED
  BY <1>8, <1>9

LEMMA DependentMemberTyped ==
  ASSUME Sound, Typed, NEW y \in TypeNames, NEW u, DependentMember(y, u)
  PROVE  Typed'
<1>1. PICK n, D, g, b, e, k :
        /\ D = Len(defs) /\ n = D + 2
        /\ g = Definition("typed", scope, n) /\ b = Definition("hypothetical", scope, 0)
        /\ e = Expression("instance", named[y], u) /\ k = [b EXCEPT !.expr = e]
  OBVIOUS
<1>2. /\ Declared(<<g, k>>) /\ open.temp # 0 /\ UNCHANGED open
      /\ UNCHANGED <<templates, frames, result>>
  BY <1>1 DEF DependentMember, Hypothetical, ReadingBody, Stay
<1>3. NewDefinition(g) /\ g.order = << >> /\ NewDefinition(b) /\ b.order = << >>
  BY Zenon, <1>1, ParameterIs
<1>4. NewDefinition(k) /\ k.order = << >>
  <2>1. ExpressionSound(e)
    BY <1>1 DEF ExpressionSound, Expression
  <2>2. QED
    BY <1>1, <1>3, <2>1 DEF NewDefinition, DefinitionFields
<1>5. D \in Nat /\ DOMAIN defs = 1..D
  BY <1>1, SequenceIs DEF Sound, DefsSound
<1>6. n \in Nat /\ n # 0 /\ 0 \in 0..n /\ n \in 0..n /\ \A c \in 1..D : c \in 0..n
  BY <1>1, <1>5
<1>7. scope \in 0..n /\ named[y] \in 0..n
  <2>1. scope \in DOMAIN defs
    BY <1>2, ScopeIs DEF Typed
  <2>2. named[y] \in DOMAIN defs
    BY <1>2, TypesAre DEF TypeNames
  <2>3. QED
    BY <1>5, <1>6, <2>1, <2>2
<1>8. g.kind = "typed" /\ g.type = n /\ Refers(g, n)
  <2>1. "typed" \in Kinds
    BY DEF Kinds
  <2>2. QED
    BY <1>1, <1>6, <1>7, <2>1, DefinitionRefers
<1>9. k.kind = "hypothetical" /\ Refers(k, n)
  <2>1. "hypothetical" \in Kinds
    BY DEF Kinds
  <2>2. DOMAIN b = DefinitionFields /\ b.kind = "hypothetical" /\ Refers(b, n)
    BY <1>1, <1>6, <1>7, <2>1, DefinitionRefers
  <2>3. /\ k.kind = b.kind /\ k.type = b.type /\ k.parent = b.parent
        /\ k.value = b.value /\ k.base = b.base /\ k.expr = e /\ k.general = b.general
    BY <1>1, <2>2 DEF DefinitionFields
  <2>4. e.def = named[y]
    BY <1>1 DEF Expression
  <2>5. QED
    BY <1>7, <2>2, <2>3, <2>4 DEF Refers
<1>10. PICK new : new = <<g, k>>
  OBVIOUS
<1>11. /\ Len(new) = 2 /\ DOMAIN new = 1..2 /\ new[1] = g /\ new[2] = k
       /\ (\A i \in 1..2 : i = 1 \/ i = 2) /\ 2 \in 1..2 /\ 2 \in Nat /\ 2 # 0
       /\ new = [i \in 1..2 |-> new[i]]
  BY <1>10
<1>12. Plain(new)
  <2>1. Sequence(new)
    BY <1>11, SequenceOf
  <2>2. QED
    BY <1>3, <1>4, <1>11, <2>1 DEF Plain
<1>13. (\A i \in DOMAIN new : Refers(new[i], n)) /\ Linked(new) /\ n = Len(defs) + Len(new)
       /\ Len(new) # 0 /\ Declared(new)
  <2>1. \A i \in DOMAIN new : Refers(new[i], n)
    BY <1>8, <1>9, <1>11
  <2>2. Linked(new)
    <3>1. 2 \in DOMAIN new /\ new[2].kind # "typed"
      BY <1>9, <1>11
    <3>2. new[1].type = Len(defs) + 2
      BY <1>1, <1>8, <1>11
    <3>3. \A i \in DOMAIN new : i = 1 \/ i = 2
      BY <1>11
    <3>4. QED
      BY <3>1, <3>2, <3>3 DEF Linked
  <2>3. QED
    BY <1>1, <1>2, <1>10, <1>11, <2>1, <2>2
<1>14. KindsKept /\ (OpenTyped' => Typed')
  BY <1>2, <1>12, <1>13, PlainDeclaredTyped
<1>15. QED
  BY <1>2, <1>14, OpenTypedKept DEF Typed

LEMMA InheritTyped ==
  ASSUME Sound, Typed, NEW t \in Types, Inherit(t)
  PROVE  Typed'
<1>1. /\ open.temp # 0 /\ UNCHANGED open /\ UNCHANGED <<templates, frames, result>>
      /\ defs' = [defs EXCEPT ![scope].base = Unrolled(t.type), ![scope].spelt = Spelt(t)]
  BY DEF Inherit, ReadingBody, Stay
<1>2. PICK x, g, base, spelt : /\ x = scope /\ g = defs[x] /\ base = Unrolled(t.type)
                               /\ spelt = Spelt(t)
  OBVIOUS
<1>3. PICK r : r = [g EXCEPT !.base = base, !.spelt = spelt]
  OBVIOUS
<1>4. x \in DOMAIN defs /\ t.type \in DOMAIN defs
  BY <1>1, <1>2, ScopeIs, TypesAre DEF Typed
<1>5. DOMAIN g = DefinitionFields /\ Refers(g, Len(defs))
  BY <1>2, <1>4 DEF Sound, DefsSound, Typed, DefsTyped
<1>6. /\ r.kind = g.kind /\ r.order = g.order /\ r.type = g.type /\ r.parent = g.parent
      /\ r.value = g.value /\ r.base = base /\ r.expr = g.expr /\ r.general = g.general
  BY <1>3, <1>5 DEF DefinitionFields
<1>7. base \in 0..Len(defs)
  <2>1. Untyped(base)
    BY <1>2, <1>4, UnrolledIs DEF Sound, Typed
  <2>2. PICK D : D = Len(defs)
    OBVIOUS
  <2>3. D \in Nat /\ DOMAIN defs = 1..D
    BY <2>2, SequenceIs DEF Sound, DefsSound
  <2>4. \A k \in 1..D : k \in 0..D
    BY <2>3
  <2>5. QED
    BY <2>1, <2>2, <2>3, <2>4 DEF Untyped
<1>8. Refers(r, Len(defs))
  BY <1>5, <1>6, <1>7 DEF Refers
<1>9. defs' = [defs EXCEPT ![x] = r]
  <2>1. PICK s : s = defs
    OBVIOUS
  <2>2. defs' = [s EXCEPT ![x].base = base, ![x].spelt = spelt]
    BY <1>1, <1>2, <2>1
  <2>3. [s EXCEPT ![x].base = base, ![x].spelt = spelt]
          = [s EXCEPT ![x] = [s[x] EXCEPT !.base = base, !.spelt = spelt]]
    BY <1>2, <1>4, <1>5, <2>1 DEF DefinitionFields
  <2>4. QED
    BY <1>2, <1>3, <2>1, <2>2, <2>3
<1>10. CallsLeft /\ \A j \in DOMAIN frames' : FrameTyped(frames'[j])
  BY <1>1 DEF CallsLeft, Typed, FramesTyped
<1>11. r.kind = defs[x].kind /\ r.order = defs[x].order /\ r.type = defs[x].type
  BY <1>2, <1>6
<1>12. QED
  BY <1>1, <1>8, <1>9, <1>10, <1>11, CallTyped

(* The parameter that an expression names.                                 *)
LEMMA ExpressionsRefer ==
  ASSUME Sound, Typed, open.temp # 0, NEW e \in Expressions
  PROVE  e.expr.def \in 0..Len(defs)
<1>1. PICK D : D = Len(defs)
  OBVIOUS
<1>2. D \in Nat /\ DOMAIN defs = 1..D
  BY <1>1, SequenceIs DEF Sound, DefsSound
<1>3. 0 \in 0..D /\ \A k \in 1..D : k \in 0..D
  BY <1>2
<1>4. \A x \in ValueNames : named[x] \in 0..D
  BY <1>2, <1>3, TypesAre DEF ValueNames
<1>5. \/ e.expr = Expression("number", 0, 0)
      \/ \E op, temp : \E x \in ValueNames : e.expr = Expression(op, named[x], temp)
  <2>1. PICK empty : empty = NoName
    OBVIOUS
  <2> DEFINE Names == {[expr |-> Expression("name", named[x], 0), spelt |-> x] : x \in ValueNames}
  <2>2. \/ e \in {[expr |-> Expression("number", 0, 0), spelt |-> empty]}
        \/ e \in Names \/ e \in SelfAccesses \/ e \in Accesses
    <3>1. Expressions =
            {[expr |-> Expression("number", 0, 0), spelt |-> NoName]} \union Names \union
              (IF templates[open.temp].of # 0 \/ Arity(open.temp) # 1 THEN {}
               ELSE SelfAccesses \union Accesses)
      BY Zenon DEF Expressions
    <3> HIDE DEF Names
    <3>2. QED
      BY Zenon, <2>1, <3>1
  <2>3. e \in Names => \E x \in ValueNames : e.expr = Expression("name", named[x], 0)
    OBVIOUS
  <2>4. e \in SelfAccesses =>
          \E op : \E x \in ValueNames : e.expr = Expression(op, named[x], open.temp)
    BY DEF SelfAccesses
  <2>5. e \in Accesses => \E u : \E x \in ValueNames : e.expr = Expression("access", named[x], u)
    BY DEF Accesses
  <2> HIDE DEF Names
  <2>6. QED
    BY <2>2, <2>3, <2>4, <2>5
<1>6. \A op, d, temp : Expression(op, d, temp).def = d
  BY DEF Expression
<1>7. QED
  BY <1>1, <1>3, <1>4, <1>5, <1>6

LEMMA EnumeratorRefers ==
  ASSUME Sound, Typed, NEW n \in Nat, NEW parent \in 0..n, 1 \in 0..n,
         NEW e, e.def \in 0..n, NEW spelt
  PROVE  /\ DOMAIN Enumerator(parent, e, spelt) = DefinitionFields
         /\ Enumerator(parent, e, spelt).kind = "constant"
         /\ Refers(Enumerator(parent, e, spelt), n)
<1>1. PICK b : b = Definition("constant", parent, IntType)
  OBVIOUS
<1>2. PICK x : x = IF e.def = 0 THEN None
                   ELSE IF e.def > Len(defs) THEN Dependent
                   ELSE defs[e.def].value
  OBVIOUS
<1>3. PICK v, g : v = Evaluated(e, x) /\ g = [b EXCEPT !.expr = e, !.spelt = spelt, !.value = v]
  OBVIOUS
<1>4. Enumerator(parent, e, spelt) = g
  BY Zenon, <1>1, <1>2, <1>3 DEF Enumerator
<1>5. x.type \in ValueTypes
  <2>1. CASE e.def = 0 \/ e.def > Len(defs)
    BY <1>2, <2>1, ValuesAre
  <2>2. CASE e.def # 0 /\ ~(e.def > Len(defs))
    <3>1. Len(defs) \in Nat
      BY SequenceIs DEF Sound, DefsSound
    <3>2. e.def \in 0..Len(defs)
      BY <2>2, <3>1
    <3>3. QED
      BY <1>2, <2>2, <3>2, ValueOf
  <2>3. QED
    BY <2>1, <2>2
<1>6. v.type \in ValueTypes
  BY <1>3, <1>5, EvaluatedIs
<1>7. DOMAIN b = DefinitionFields /\ b.kind = "constant" /\ Refers(b, n)
  <2>1. "constant" \in Kinds /\ IntType \in 0..n
    BY DEF Kinds, IntType
  <2>2. QED
    BY <1>1, <2>1, DefinitionRefers
<1>8. /\ DOMAIN g = DefinitionFields /\ g.kind = b.kind /\ g.type = b.type
      /\ g.parent = b.parent /\ g.value = v /\ g.base = b.base /\ g.expr = e
      /\ g.general = b.general
  BY <1>3, <1>7 DEF DefinitionFields
<1>9. g.kind = "constant" /\ Refers(g, n)
  BY <1>6, <1>7, <1>8 DEF Refers
<1>10. QED
  BY <1>4, <1>8, <1>9

LEMMA EnumerationTyped ==
  ASSUME Sound, Typed, NEW e \in Expressions, Enumeration(e)
  PROVE  Typed'
<1> DEFINE n == Len(defs)
           a == Enumerator(n + 1, e.expr, e.spelt)
           b == [Enumerator(n + 1, Expression("next", n + 2, 0), NoName) EXCEPT
                   !.value = Evaluated(Expression("next", 0, 0), a.value)]
           c == [Definition("enum", scope, IntType) EXCEPT !.order = <<n + 2, n + 3>>]
           names == [x \in {"A", "B"} |-> IF x = "A" THEN n + 2 ELSE n + 3]
<1>1. /\ open.temp # 0 /\ Stay /\ UNCHANGED open
      /\ defs' = [defs EXCEPT ![scope].order = Append(@, n + 1), ![scope].general = names]
                 \o <<c, a, b>>
  BY Zenon DEF Enumeration, ReadingBody
<1>2. PICK D, m : D = n /\ m = n + 3
  OBVIOUS
<1>3. D \in Nat /\ DOMAIN defs = 1..D
  BY <1>2, SequenceIs DEF Sound, DefsSound
<1>4. /\ m = D + 3 /\ m \in Nat /\ 0 \in 0..m /\ 1 \in 0..m /\ D + 1 \in 0..m
      /\ D + 2 \in 0..m /\ D + 2 \in 1..m /\ D + 3 \in 1..m /\ D <= m
      /\ \A k \in 0..D : k \in 0..m
  BY <1>2, <1>3
<1>5. PICK x : x = scope
  OBVIOUS
<1>6. x \in DOMAIN defs /\ x \in 0..m
  <2>1. x \in DOMAIN defs
    BY <1>1, <1>5, ScopeIs DEF Typed
  <2>2. \A k \in 1..D : k \in 0..m
    BY <1>3, <1>4
  <2>3. QED
    BY <1>3, <2>1, <2>2
<1>7. e.expr.def \in 0..m
  BY <1>1, <1>2, <1>4, ExpressionsRefer
<1>8. a.kind = "constant" /\ Refers(a, m) /\ a.order = << >>
  <2>1. PICK p, y, spelt : p = D + 1 /\ y = e.expr /\ spelt = e.spelt
    OBVIOUS
  <2>2. PICK g : g = Enumerator(p, y, spelt)
    OBVIOUS
  <2>3. a = g
    BY Zenon, <1>2, <2>1, <2>2
  <2>4. g.kind = "constant" /\ Refers(g, m)
    BY <1>4, <1>7, <2>1, <2>2, EnumeratorRefers
  <2>5. ExpressionSound(y)
    BY <1>1, <2>1, ExpressionsAre
  <2>6. g.order = << >>
    BY <2>2, <2>5, EnumeratorIs
  <2> HIDE DEF a
  <2>7. QED
    BY <2>3, <2>4, <2>6
<1>9. b.kind = "constant" /\ Refers(b, m) /\ b.order = << >>
  <2>1. PICK p, y, spelt, v : /\ p = D + 1 /\ y = Expression("next", D + 2, 0) /\ spelt = NoName
                              /\ v = Evaluated(Expression("next", 0, 0), a.value)
    OBVIOUS
  <2>2. PICK s : s = Enumerator(p, y, spelt)
    OBVIOUS
  <2>3. b = [s EXCEPT !.value = v]
    BY Zenon, <1>2, <2>1, <2>2
  <2>4. y.def = D + 2 /\ ExpressionSound(y)
    BY <2>1 DEF ExpressionSound, Expression
  <2>5. DOMAIN s = DefinitionFields /\ s.kind = "constant" /\ Refers(s, m)
    BY <1>4, <2>1, <2>2, <2>4, EnumeratorRefers
  <2>6. s.order = << >>
    BY <2>2, <2>4, EnumeratorIs
  <2>7. v.type \in ValueTypes
    <3> HIDE DEF a
    <3>1. a.value.type \in ValueTypes
      BY <1>8 DEF Refers
    <3>2. QED
      BY <2>1, <3>1, EvaluatedIs
  <2>8. PICK g : g = [s EXCEPT !.value = v]
    OBVIOUS
  <2>9. /\ g.kind = s.kind /\ g.type = s.type /\ g.order = s.order
        /\ g.parent = s.parent /\ g.value = v /\ g.base = s.base /\ g.expr = s.expr
        /\ g.general = s.general
    BY <2>5, <2>8 DEF DefinitionFields
  <2>10. Refers(g, m)
    BY <2>5, <2>7, <2>9 DEF Refers
  <2>11. b = g
    BY Zenon, <2>3, <2>8
  <2> HIDE DEF b
  <2>12. QED
    BY <2>5, <2>6, <2>9, <2>10, <2>11
<1>10. c.kind = "enum" /\ Refers(c, m) /\ c.order = <<D + 2, D + 3>>
  <2>1. PICK s, order : s = Definition("enum", x, IntType) /\ order = <<D + 2, D + 3>>
    OBVIOUS
  <2>2. DOMAIN s = DefinitionFields /\ s.kind = "enum" /\ Refers(s, m)
    <3>1. "enum" \in Kinds /\ IntType \in 0..m
      BY <1>4 DEF Kinds, IntType
    <3>2. QED
      BY <1>4, <1>6, <2>1, <3>1, DefinitionRefers
  <2>3. PICK g : g = [s EXCEPT !.order = order]
    OBVIOUS
  <2>4. /\ g.kind = s.kind /\ g.type = s.type /\ g.order = order
        /\ g.parent = s.parent /\ g.value = s.value /\ g.base = s.base /\ g.expr = s.expr
        /\ g.general = s.general
    BY <2>2, <2>3 DEF DefinitionFields
  <2>5. Refers(g, m)
    BY <2>2, <2>4 DEF Refers
  <2>6. c = g
    BY Zenon, <1>2, <1>5, <2>1, <2>3
  <2> HIDE DEF c
  <2>7. QED
    BY <2>1, <2>2, <2>4, <2>5, <2>6
<1>11. PICK g, general, order :
        /\ g = defs[x] /\ general = names /\ order = Append(defs[x].order, D + 1)
  OBVIOUS
<1>12. PICK r : r = [g EXCEPT !.order = order, !.general = general]
  OBVIOUS
<1>13. PICK old : old = [defs EXCEPT ![x] = r]
  OBVIOUS
<1>14. PICK new : new = <<c, a, b>>
  OBVIOUS
<1>15. DOMAIN g = DefinitionFields /\ Refers(g, m)
  <2>1. DOMAIN g = DefinitionFields /\ Refers(g, D)
    BY <1>2, <1>6, <1>11 DEF Sound, DefsSound, Typed, DefsTyped
  <2>2. QED
    BY <1>3, <1>4, <2>1, RefersMore
<1>16. \A y \in DOMAIN general : general[y] \in 1..m
  BY <1>2, <1>4, <1>11
<1> HIDE DEF a, b, c, names
<1>17. /\ r.kind = g.kind /\ r.type = g.type /\ r.order = order /\ r.parent = g.parent
       /\ r.value = g.value /\ r.base = g.base /\ r.expr = g.expr /\ r.general = general
  BY <1>12, <1>15 DEF DefinitionFields
<1>18. Refers(r, m)
  BY <1>15, <1>16, <1>17 DEF Refers
<1>19. defs' = old \o new
  <2>1. [defs EXCEPT ![scope].order = Append(@, n + 1), ![scope].general = names] = old
    <3>1. PICK s : s = defs
      OBVIOUS
    <3>2. [defs EXCEPT ![scope].order = Append(@, n + 1), ![scope].general = names]
            = [s EXCEPT ![x].order = Append(@, D + 1), ![x].general = general]
      BY <1>2, <1>5, <1>11, <3>1
    <3>3. DOMAIN s[x] = DefinitionFields /\ s[x] = g /\ order = Append(s[x].order, D + 1)
      BY <1>11, <1>15, <3>1
    <3>4. [s EXCEPT ![x].order = Append(@, D + 1), ![x].general = general]
            = [s EXCEPT ![x] = [s[x] EXCEPT !.order = order, !.general = general]]
      BY <3>1, <3>3, <1>6 DEF DefinitionFields
    <3>5. QED
      BY <1>12, <1>13, <3>1, <3>2, <3>3, <3>4
  <2>2. QED
    BY Zenon, <1>1, <1>14, <2>1
<1>20. /\ Sequence(new) /\ Len(new) = 3 /\ Len(new) # 0 /\ DOMAIN new = 1..3
       /\ new[1] = c /\ new[2] = a /\ new[3] = b
       /\ \A i \in 1..3 : i = 1 \/ i = 2 \/ i = 3
  <2>1. /\ Len(new) = 3 /\ DOMAIN new = 1..3 /\ new[1] = c /\ new[2] = a /\ new[3] = b
        /\ new = [i \in 1..3 |-> new[i]] /\ 3 \in Nat
        /\ \A i \in 1..3 : i = 1 \/ i = 2 \/ i = 3
    BY <1>14
  <2>2. Sequence(new)
    BY <2>1, SequenceOf
  <2>3. QED
    BY <2>1, <2>2
<1>21. \A i \in DOMAIN new : Refers(new[i], m) /\ new[i].kind # "typed"
  BY <1>8, <1>9, <1>10, <1>20
<1>22. Linked(new)
  BY <1>21 DEF Linked
<1>23. OwnedNew(new, x)
  <2>1. /\ DOMAIN <<D + 2, D + 3>> = 1..2 /\ <<D + 2, D + 3>>[1] = D + 2
        /\ <<D + 2, D + 3>>[2] = D + 3 /\ \A k \in 1..2 : k = 1 \/ k = 2
    OBVIOUS
  <2>2. /\ D + 2 \in D + 1..D + 3 /\ D + 3 \in D + 1..D + 3 /\ D + 2 # D + 1
        /\ D + 3 # D + 1 /\ D + 2 # D + 3
    BY <1>3
  <2>3. ASSUME NEW i \in DOMAIN new, NEW k \in DOMAIN new[i].order
        PROVE  /\ i = 1 /\ (k = 1 \/ k = 2)
               /\ new[i].order[k] = IF k = 1 THEN D + 2 ELSE D + 3
    <3>1. DOMAIN << >> = {}
      OBVIOUS
    <3>2. i = 1
      BY <1>8, <1>9, <1>20, <3>1
    <3>3. QED
      BY <1>10, <1>20, <2>1, <3>2
  <2>4. QED
    BY <1>2, <1>20, <2>2, <2>3 DEF OwnedNew
<1>24. /\ r.kind = defs[x].kind /\ r.type = defs[x].type
       /\ r.order = Append(defs[x].order, Len(defs) + 1) /\ m = Len(defs) + Len(new)
  BY <1>2, <1>11, <1>17, <1>20
<1>25. UNCHANGED <<templates, frames, result>>
  BY <1>1 DEF Stay
<1>26. \A i \in DOMAIN new : Refers(new[i], m)
  BY <1>21
<1>27. KindsKept /\ (OpenTyped' => Typed')
  <2> HIDE DEF n
  <2>1. QED
    BY <1>6, <1>13, <1>18, <1>19, <1>20, <1>22, <1>23, <1>24, <1>25, <1>26, DeclaredTyped
<1>28. QED
  BY <1>1, <1>27, OpenTypedKept DEF Typed

-----------------------------------------------------------------------------
(* Each definition is copied once.  What a body owns, but for the body, is *)
(* owned by what the body owns too.                                        *)
Rooted(from, rank) ==
  \A d \in DOMAIN defs : \A x \in Range(from[d]) :
    /\ x \in DOMAIN defs /\ rank[x] <= rank[d]
    /\ x = d \/ \E y \in Range(from[d]) : x \in Range(defs[y].order)

LEMMA PostsRooted ==
  ASSUME Owned, Treelike, NEW from, Posts(from),
         NEW n \in Nat, NEW rank \in [DOMAIN defs -> 0..n], LowerOwned(rank)
  PROVE  Rooted(from, rank)
<1> DEFINE D == DOMAIN defs
           At(d) == \A x \in Range(from[d]) :
                      /\ x \in D /\ rank[x] <= rank[d]
                      /\ x = d \/ \E y \in Range(from[d]) : x \in Range(defs[y].order)
           T == {d \in D : At(d)}
<1>1. \A d \in D : \A k \in DOMAIN defs[d].order :
        defs[d].order[k] \in D /\ rank[defs[d].order[k]] < rank[d]
  BY DEF Owned, LowerOwned
<1>2. \A d \in D : rank[d] \in Nat
  OBVIOUS
<1>3. ASSUME NEW d \in D, \A c \in D : rank[c] < rank[d] => c \in T
      PROVE  d \in T
  <2>1. \A k \in DOMAIN defs[d].order : At(defs[d].order[k])
    BY <1>1, <1>3
  <2>2. \A k \in DOMAIN defs[d].order : from[defs[d].order[k]] \in Seq(D)
    BY <1>1, PostsEnclose DEF Encloses
  <2>3. /\ d \in Range(from[d])
        /\ \A x \in Range(from[d]) :
             x = d \/ \E k \in DOMAIN defs[d].order : x \in Range(from[defs[d].order[k]])
        /\ \A k \in DOMAIN defs[d].order :
             Range(from[defs[d].order[k]]) \subseteq Range(from[d])
    BY <2>2, PostIs
  <2>4. ASSUME NEW x \in Range(from[d])
        PROVE  /\ x \in D /\ rank[x] <= rank[d]
               /\ x = d \/ \E y \in Range(from[d]) : x \in Range(defs[y].order)
    <3>1. CASE x = d
      BY <1>2, <3>1
    <3>2. ASSUME NEW k \in DOMAIN defs[d].order, x \in Range(from[defs[d].order[k]])
          PROVE  /\ x \in D /\ rank[x] <= rank[d]
                 /\ \E y \in Range(from[d]) : x \in Range(defs[y].order)
      <4>1. PICK c : c = defs[d].order[k]
        OBVIOUS
      <4>2. /\ x \in D /\ rank[x] <= rank[c]
            /\ x = c \/ \E y \in Range(from[c]) : x \in Range(defs[y].order)
        BY <2>1, <3>2, <4>1
      <4>3. rank[c] < rank[d] /\ c \in D /\ c \in Range(defs[d].order)
        BY <1>1, <4>1 DEF Range
      <4>4. rank[x] <= rank[d]
        BY <1>2, <4>2, <4>3
      <4>5. QED
        BY <2>3, <4>1, <4>2, <4>3, <4>4
    <3>3. QED
      BY <2>3, <3>1, <3>2
  <2>5. At(d)
    BY <2>4
  <2>6. QED
    BY <2>5
<1>4. Hereditary(D, rank, T)
  <2> HIDE DEF D, T
  <2>1. QED
    BY <1>3 DEF Hereditary
<1>5. D \subseteq T
  <2>1. rank \in [D -> 0..n]
    OBVIOUS
  <2> HIDE DEF D, T
  <2>2. QED
    BY <1>4, <2>1, RankedInduction
<1>6. QED
  BY <1>5 DEF Rooted

LEMMA OwnersAre ==
  ASSUME OwnedOnce, NEW d \in DOMAIN defs, NEW e \in DOMAIN defs,
         NEW x, x \in Range(defs[d].order), x \in Range(defs[e].order)
  PROVE  d = e
BY DEF OwnedOnce, Range

(* Two of those that one definition owns own nothing in common.            *)
LEMMA BranchesApart ==
  ASSUME Owned, OwnedOnce, NEW from, NEW n \in Nat, NEW rank \in [DOMAIN defs -> 0..n],
         LowerOwned(rank), Rooted(from, rank),
         NEW d \in DOMAIN defs, NEW k \in DOMAIN defs[d].order, NEW l \in DOMAIN defs[d].order,
         k # l, NEW a, a = defs[d].order[k], NEW b, b = defs[d].order[l]
  PROVE  Range(from[a]) \intersect Range(from[b]) = {}
<1> DEFINE D == DOMAIN defs
           T == {x \in D : ~(x \in Range(from[a]) /\ x \in Range(from[b]))}
<1>1. PICK below : below = [x \in D |-> n - rank[x]]
  OBVIOUS
<1>2. below \in [D -> 0..n] /\ \A x, y \in D : rank[x] < rank[y] => below[y] < below[x]
  <2>1. \A r \in 0..n : n - r \in 0..n
    OBVIOUS
  <2>2. \A q, r \in 0..n : q < r => n - r < n - q
    OBVIOUS
  <2>3. QED
    BY <1>1, <2>1, <2>2
<1>3. \A y \in D : \A x \in Range(defs[y].order) : x \in D /\ rank[x] < rank[y]
  BY DEF Owned, LowerOwned, Range
<1>4. /\ a \in D /\ b \in D /\ a # b
      /\ a \in Range(defs[d].order) /\ b \in Range(defs[d].order)
  <2>1. a # b
    <3>1. \A i, j \in DOMAIN defs[d].order : defs[d].order[i] = defs[d].order[j] => i = j
      BY DEF OwnedOnce
    <3>2. QED
      BY <3>1
  <2>2. a \in Range(defs[d].order) /\ b \in Range(defs[d].order)
    BY DEF Range
  <2>3. QED
    BY <1>3, <2>1, <2>2
<1>5. \A c \in D : \A x \in Range(from[c]) :
        /\ x \in D /\ rank[x] <= rank[c]
        /\ x = c \/ \E y \in Range(from[c]) : y \in D /\ x \in Range(defs[y].order)
  BY DEF Rooted
<1>6. \A c \in {a, b} : d \notin Range(from[c])
  <2>1. \A c \in {a, b} : rank[c] < rank[d] /\ rank[c] \in Nat /\ rank[d] \in Nat /\ c \in D
    BY <1>3, <1>4
  <2>2. \A c \in {a, b} : ~(rank[d] <= rank[c])
    BY <2>1
  <2>3. QED
    BY <1>5, <2>1, <2>2
<1>7. ASSUME NEW x \in D, \A y \in D : below[y] < below[x] => y \in T
      PROVE  x \in T
  <2>1. SUFFICES ASSUME x \in Range(from[a]), x \in Range(from[b])
                 PROVE  FALSE
    OBVIOUS
  <2>2. ASSUME NEW c \in {a, b}, NEW e \in {a, b}, c # e, x = c
        PROVE  FALSE
    <3>1. PICK y \in Range(from[e]) : y \in D /\ x \in Range(defs[y].order)
      BY <1>4, <1>5, <2>1, <2>2
    <3>2. y = d
      BY <1>4, <2>2, <3>1, OwnersAre
    <3>3. QED
      BY <1>6, <3>1, <3>2
  <2>3. x # a /\ x # b
    BY <1>4, <2>2
  <2>4. PICK y \in Range(from[a]) : y \in D /\ x \in Range(defs[y].order)
    BY <1>4, <1>5, <2>1, <2>3
  <2>5. PICK z \in Range(from[b]) : z \in D /\ x \in Range(defs[z].order)
    BY <1>4, <1>5, <2>1, <2>3
  <2>6. y = z
    BY <2>4, <2>5, OwnersAre
  <2>7. y \in T
    BY <1>2, <1>3, <1>7, <2>4
  <2>8. QED
    BY <2>4, <2>5, <2>6, <2>7
<1>8. Hereditary(D, below, T)
  <2> HIDE DEF D, T
  <2>1. QED
    BY <1>7 DEF Hereditary
<1>9. D \subseteq T
  <2> HIDE DEF D, T
  <2>1. QED
    BY <1>2, <1>8, RankedInduction
<1>10. QED
  BY <1>4, <1>5, <1>9

LEMMA PostOrderOnce ==
  ASSUME Owned, Treelike, OwnedOnce, NEW body \in DOMAIN defs
  PROVE  IsInjective(PostOrder(body))
<1> DEFINE D == DOMAIN defs
<1>1. PICK n \in Nat : \E rank \in [D -> 0..n] : LowerOwned(rank)
  BY DEF Treelike
<1>2. PICK rank \in [D -> 0..n] : LowerOwned(rank)
  BY <1>1
<1>3. PICK from : PostOrder(body) = from[body] /\ Posts(from)
  BY PostsAre
<1>4. Rooted(from, rank)
  BY <1>1, <1>2, <1>3, PostsRooted
<1> DEFINE T == {d \in D : IsInjective(from[d])}
<1>5. ASSUME NEW d \in D, \A c \in D : rank[c] < rank[d] => c \in T
      PROVE  d \in T
  <2>1. \A k \in DOMAIN defs[d].order :
          defs[d].order[k] \in D /\ rank[defs[d].order[k]] < rank[d]
    BY <1>2 DEF Owned, LowerOwned
  <2>2. \A k \in DOMAIN defs[d].order : from[defs[d].order[k]] \in Seq(D)
    BY <1>3, <2>1, PostsEnclose DEF Encloses
  <2>3. ASSUME NEW k \in DOMAIN defs[d].order
        PROVE  IsInjective(from[defs[d].order[k]]) /\ d \notin Range(from[defs[d].order[k]])
    <3>1. PICK c : c = defs[d].order[k]
      OBVIOUS
    <3>2. c \in D /\ rank[c] < rank[d] /\ rank[c] \in Nat /\ rank[d] \in Nat
      BY <2>1, <3>1
    <3>3. ~(rank[d] <= rank[c])
      BY <3>2
    <3>4. d \notin Range(from[c])
      BY <1>4, <3>2, <3>3 DEF Rooted
    <3>5. QED
      BY <1>5, <3>1, <3>2, <3>4
  <2>4. \A k, l \in DOMAIN defs[d].order :
          k # l => Range(from[defs[d].order[k]]) \intersect Range(from[defs[d].order[l]]) = {}
    BY <1>1, <1>2, <1>4, BranchesApart
  <2>5. IsInjective(from[d])
    BY <1>3, <2>2, <2>3, <2>4, PostIs
  <2>6. QED
    BY <2>5
<1>6. Hereditary(D, rank, T)
  <2> HIDE DEF D, T
  <2>1. QED
    BY <1>5 DEF Hereditary
<1>7. D \subseteq T
  <2> HIDE DEF D, T
  <2>1. QED
    BY <1>1, <1>2, <1>6, RankedInduction
<1>8. QED
  BY <1>3, <1>7

-----------------------------------------------------------------------------
(* Copies have the types of their originals until they are remapped, and   *)
(* own copies; the definitions of arguments stand for what has no type.    *)
LEMMA CopyIs ==
  ASSUME NEW g, DOMAIN g = DefinitionFields, NEW order, NEW n, Refers(g, n),
         NEW r, r = [g EXCEPT !.order = order]
  PROVE  r.kind = g.kind /\ r.type = g.type /\ Refers(r, n)
<1>1. /\ r.kind = g.kind /\ r.type = g.type /\ r.value = g.value /\ r.parent = g.parent
      /\ r.base = g.base /\ r.expr = g.expr /\ r.general = g.general
  BY DEF DefinitionFields
<1>2. QED
  BY <1>1 DEF Refers

LEMMA MadeTyped ==
  ASSUME NEW node, NEW n \in Nat, IntType \in 1..n,
         node.kind = "type" => node.of \in 1..n
  PROVE  /\ Refers(MadeOf(node), n)
         /\ MadeOf(node).kind = "typed" => node.kind = "type" /\ MadeOf(node).type = node.of
<1>1. 0 \in 0..n /\ \A k \in 1..n : k \in 0..n /\ k # 0
  OBVIOUS
<1>2. CASE node.kind = "type"
  <2>1. PICK g : g = Definition("typed", 0, node.of)
    OBVIOUS
  <2>2. MadeOf(node) = g
    BY <1>2, <2>1 DEF MadeOf
  <2>3. Refers(g, n) /\ g.type = node.of
    <3>1. node.of \in 0..n /\ node.of # 0 /\ "typed" \in Kinds
      BY <1>1, <1>2 DEF Kinds
    <3>2. QED
      BY <1>1, <2>1, <3>1, DefinitionRefers
  <2>4. QED
    BY <1>2, <2>2, <2>3
<1>3. CASE node.kind # "type"
  <2>1. PICK g, v, r : /\ g = Definition("constant", 0, IntType) /\ v = Integer(node.of)
                       /\ r = [g EXCEPT !.value = v]
    OBVIOUS
  <2>2. MadeOf(node) = r
    BY <1>3, <2>1 DEF MadeOf
  <2>3. Refers(g, n) /\ DOMAIN g = DefinitionFields /\ g.kind = "constant"
    <3>1. IntType \in 0..n /\ "constant" \in Kinds
      BY <1>1 DEF Kinds
    <3>2. g.kind = "constant" /\ DOMAIN g = DefinitionFields
      BY <2>1 DEF Definition, DefinitionFields
    <3>3. QED
      BY <1>1, <2>1, <3>1, <3>2, DefinitionRefers
  <2>4. v.type \in ValueTypes
    BY <2>1, ValuesAre
  <2>5. /\ r.kind = g.kind /\ r.type = g.type /\ r.value = v /\ r.parent = g.parent
        /\ r.base = g.base /\ r.expr = g.expr /\ r.general = g.general
    BY <2>1, <2>3 DEF DefinitionFields
  <2>6. Refers(r, n) /\ r.kind # "typed"
    BY <2>3, <2>4, <2>5 DEF Refers
  <2>7. QED
    BY <2>2, <2>6
<1>4. QED
  BY <1>2, <1>3

(* What is new, of the kinds and types that it copies.                     *)
Copied(originals, new, D, m, n) ==
  /\ D \in Nat /\ m \in Nat /\ n \in Nat /\ D = Len(defs) /\ DOMAIN defs = 1..D
  /\ Sequence(new) /\ Len(new) = m + n /\ DOMAIN new = 1..m + n /\ m # 0
  /\ DOMAIN originals = 1..m /\ IsInjective(originals)
  /\ \A i \in 1..m + n : i \in 1..m \/ (i \in m + 1..m + n /\ i - m \in 1..n)
  /\ \A i \in 1..m :
       /\ i \in 1..m + n /\ D + i \in D + 1..D + (m + n) /\ originals[i] \in DOMAIN defs
       /\ new[i].kind = defs[originals[i]].kind /\ new[i].type = defs[originals[i]].type
       /\ Refers(new[i], D + (m + n))
  /\ \A i \in m + 1..m + n :
       /\ new[i].order = << >> /\ Refers(new[i], D + (m + n))
       /\ new[i].kind = "typed" => Untyped(new[i].type)

LEMMA NewAre ==
  ASSUME Sound, Typed, NEW u, NEW body, NEW originals, NEW copies, NEW made, NEW dups, NEW mades,
         NEW new, NEW D, NEW m, NEW n,
         Duplicating(u, body, originals, copies, made, dups, mades, new, D, m, n)
  PROVE  Copied(originals, new, D, m, n)
<1>1. /\ D \in Nat /\ m \in Nat /\ n \in Nat /\ D = Len(defs) /\ DOMAIN defs = 1..D
      /\ Sequence(new) /\ Len(new) = m + n /\ DOMAIN new = 1..m + n
      /\ DOMAIN originals = 1..m /\ \A i \in 1..m : originals[i] \in DOMAIN defs
  BY Zenon DEF Duplicating
<1>2. IsInjective(originals)
  <2>1. originals = PostOrder(body) /\ body \in DOMAIN defs
    BY Zenon DEF Duplicating
  <2>2. QED
    BY <2>1, PostOrderOnce DEF Sound, DefsSound, Typed
<1>3. m # 0
  <2>1. body \in Range(originals)
    BY Zenon DEF Duplicating, Encloses
  <2>2. 1..m # {}
    BY <1>1, <2>1 DEF Range
  <2>3. QED
    BY <1>1, <2>2
<1>4. /\ \A i \in 1..m + n : i \in 1..m \/ (i \in m + 1..m + n /\ i - m \in 1..n)
      /\ \A i \in m + 1..m + n : i - m \in 1..n
      /\ \A i \in 1..m : i \in 1..m + n /\ D + i \in D + 1..D + (m + n)
      /\ D + (m + n) \in Nat /\ D <= D + (m + n) /\ 1..D \subseteq 1..D + (m + n)
  BY <1>1
<1>5. ASSUME NEW i \in 1..m
      PROVE  /\ new[i].kind = defs[originals[i]].kind /\ new[i].type = defs[originals[i]].type
             /\ Refers(new[i], D + (m + n))
  <2>1. PICK g, order : /\ g = defs[originals[i]]
                        /\ order = [k \in DOMAIN g.order |-> copies[g.order[k]]]
    OBVIOUS
  <2>2. new[i] = dups[i] /\ dups[i] = [defs[originals[i]] EXCEPT !.order =
                       [k \in DOMAIN defs[originals[i]].order |->
                          copies[defs[originals[i]].order[k]]]]
    BY Zenon DEF Duplicating
  <2>3. new[i] = [g EXCEPT !.order = order]
    BY <2>1, <2>2
  <2>4. DOMAIN g = DefinitionFields /\ Refers(g, D)
    BY <1>1, <2>1 DEF Sound, DefsSound, Typed, DefsTyped
  <2>5. Refers(g, D + (m + n))
    BY <1>1, <1>4, <2>4, RefersMore
  <2>6. QED
    <3>1. PICK r, N : r = new[i] /\ N = D + (m + n)
      OBVIOUS
    <3>2. r = [g EXCEPT !.order = order] /\ Refers(g, N)
      BY <2>3, <2>5, <3>1
    <3>3. r.kind = g.kind /\ r.type = g.type /\ Refers(r, N)
      BY <2>4, <3>2, CopyIs
    <3>4. QED
      BY <2>1, <3>1, <3>3
<1>6. ASSUME NEW i \in m + 1..m + n
      PROVE  /\ new[i].order = << >> /\ Refers(new[i], D + (m + n))
             /\ new[i].kind = "typed" => Untyped(new[i].type)
  <2>1. PICK p : p = i - m
    OBVIOUS
  <2>2. p \in 1..n
    BY <1>4, <2>1
  <2>3. new[i] = mades[p] /\ mades[p].order = << >> /\ mades[p] = MadeOf(frame.key[p])
    <3>1. \A j \in 1..n : mades[j].order = << >> /\ mades[j] = MadeOf(frame.key[j])
      BY Zenon DEF Duplicating
    <3>2. \A j \in m + 1..m + n : new[j] = mades[j - m]
      BY Zenon DEF Duplicating
    <3>3. QED
      BY <2>1, <2>2, <3>1, <3>2
  <2>4. frame.key[p].kind = "type" => Untyped(frame.key[p].of)
    <3>1. frames # << >> /\ DOMAIN frame.key = 1..n
      BY Zenon DEF Duplicating
    <3>2. FrameTyped(frame)
      BY <3>1, TopTyped
    <3>3. QED
      BY <2>2, <3>1, <3>2 DEF FrameTyped, KeyTyped
  <2>5. IntType \in 1..D + (m + n) /\ (frame.key[p].kind = "type" => frame.key[p].of \in 1..D + (m + n))
    BY <1>1, <1>4, <2>4 DEF Typed, Untyped
  <2>6. PICK node, N : node = frame.key[p] /\ N = D + (m + n)
    OBVIOUS
  <2>7. /\ Refers(MadeOf(node), N)
        /\ MadeOf(node).kind = "typed" => node.kind = "type" /\ MadeOf(node).type = node.of
    BY <1>4, <2>5, <2>6, MadeTyped
  <2>8. QED
    BY <2>3, <2>4, <2>6, <2>7
<1>7. QED
  BY <1>1, <1>2, <1>3, <1>4, <1>5, <1>6 DEF Copied

LEMMA CopiesOwnedOnce ==
  ASSUME Sound, Typed, NEW u, NEW body, NEW originals, NEW copies, NEW made, NEW dups, NEW mades,
         NEW new, NEW D, NEW m, NEW n,
         Duplicating(u, body, originals, copies, made, dups, mades, new, D, m, n)
  PROVE  OwnedNew(new, 0)
<1>1. Copied(originals, new, D, m, n)
  BY NewAre
<1>2. /\ D \in Nat /\ m \in Nat /\ n \in Nat /\ D = Len(defs) /\ DOMAIN defs = 1..D
      /\ Len(new) = m + n /\ DOMAIN new = 1..m + n /\ DOMAIN originals = 1..m
      /\ \A i \in 1..m : originals[i] \in DOMAIN defs
      /\ \A i \in 1..m + n : i \in 1..m \/ i \in m + 1..m + n
      /\ \A i \in m + 1..m + n : new[i].order = << >>
  BY <1>1 DEF Copied
<1>3. \A i \in 1..m : Range(defs[originals[i]].order) \subseteq Range(originals)
  <2>1. Encloses(originals, body)
    BY Zenon DEF Duplicating
  <2>2. QED
    BY <1>2, <2>1 DEF Encloses, Range
<1>4. \A i \in 1..m : new[i].order = [k \in DOMAIN defs[originals[i]].order |->
                                       copies[defs[originals[i]].order[k]]]
  <2>1. \A i \in 1..m : dups[i].order = [k \in DOMAIN defs[originals[i]].order |->
                                           copies[defs[originals[i]].order[k]]]
    BY Zenon DEF Duplicating
  <2>2. \A i \in 1..m : new[i] = dups[i]
    BY Zenon DEF Duplicating
  <2>3. QED
    BY <2>1, <2>2
<1>5. \A d \in Range(originals) :
        copies[d] \in D + 1..D + m /\ originals[copies[d] - D] = d
  BY Zenon DEF Duplicating
<1>6. D + 1..D + m \subseteq D + 1..D + (m + n)
  BY <1>2
<1>7. ASSUME NEW i \in DOMAIN new, NEW k \in DOMAIN new[i].order
      PROVE  /\ i \in 1..m /\ k \in DOMAIN defs[originals[i]].order
             /\ defs[originals[i]].order[k] \in Range(originals)
             /\ new[i].order[k] = copies[defs[originals[i]].order[k]]
  <2>1. DOMAIN << >> = {}
    OBVIOUS
  <2>2. i \in 1..m
    BY <1>2, <1>7, <2>1
  <2>3. k \in DOMAIN defs[originals[i]].order
        /\ new[i].order[k] = copies[defs[originals[i]].order[k]]
    BY <1>4, <1>7, <2>2
  <2>4. QED
    BY <1>3, <2>2, <2>3 DEF Range
<1>8. \A i \in DOMAIN new : \A k \in DOMAIN new[i].order :
        new[i].order[k] \in Len(defs) + 1..Len(defs) + Len(new)
  BY SMTT(30), <1>2, <1>5, <1>6, <1>7
<1>9. ASSUME NEW i \in DOMAIN new, NEW j \in DOMAIN new,
             NEW k \in DOMAIN new[i].order, NEW l \in DOMAIN new[j].order,
             new[i].order[k] = new[j].order[l]
      PROVE  i = j /\ k = l
  <2>1. PICK a, b : a = defs[originals[i]].order[k] /\ b = defs[originals[j]].order[l]
    OBVIOUS
  <2>2. /\ a \in Range(originals) /\ b \in Range(originals) /\ copies[a] = copies[b]
        /\ i \in 1..m /\ j \in 1..m
        /\ k \in DOMAIN defs[originals[i]].order /\ l \in DOMAIN defs[originals[j]].order
    BY <1>7, <1>9, <2>1
  <2>3. a = b
    <3>1. originals[copies[a] - D] = a /\ originals[copies[b] - D] = b
      BY <1>5, <2>2
    <3>2. QED
      BY <2>2, <3>1
  <2>4. originals[i] = originals[j] /\ k = l
    <3>1. originals[i] \in DOMAIN defs /\ originals[j] \in DOMAIN defs
      BY <1>2, <2>2
    <3>2. PICK d, e : d = originals[i] /\ e = originals[j]
      OBVIOUS
    <3>3. \A x \in DOMAIN defs[d].order, y \in DOMAIN defs[e].order :
            defs[d].order[x] = defs[e].order[y] => d = e /\ x = y
      BY <3>1, <3>2 DEF Typed, OwnedOnce
    <3>4. /\ k \in DOMAIN defs[d].order /\ l \in DOMAIN defs[e].order
          /\ defs[d].order[k] = defs[e].order[l]
      BY <2>1, <2>2, <2>3, <3>2
    <3>5. QED
      BY Zenon, <3>2, <3>3, <3>4
  <2>5. i = j
    BY <1>1, <1>2, <2>2, <2>4 DEF Copied, IsInjective
  <2>6. QED
    BY <2>4, <2>5
<1>10. 0 \notin DOMAIN defs
  BY <1>2
<1>11. QED
  BY <1>8, <1>9, <1>10 DEF OwnedNew

-----------------------------------------------------------------------------
(* The call that copies: it has all the copies to remap, to copies and to  *)
(* the definitions of the arguments.                                       *)
LEMMA StartIs ==
  ASSUME NEW u, NEW body, NEW originals, NEW copies, NEW made, NEW dups, NEW mades,
         NEW new, NEW D, NEW m, NEW n,
         Duplicating(u, body, originals, copies, made, dups, mades, new, D, m, n)
  PROVE  \E f : /\ frames' = Append(Caller, f) /\ f.key = frame.key /\ f.def = copies[body]
                /\ f.copies = Both(copies, made) /\ DOMAIN f.todo = 1..m
                /\ \A i \in 1..m : f.todo[i] = D + i
<1>1. PICK f, todo, both :
        /\ todo = [i \in DOMAIN originals |-> D + i] /\ both = Both(copies, made)
        /\ f = [frame EXCEPT !.at = "remap", !.def = copies[body], !.copies = both, !.todo = todo]
  OBVIOUS
<1>2. frames' = Append(Caller, f)
  <2>1. frames' = Append(Caller, [frame EXCEPT !.at = "remap", !.def = copies[body],
                                   !.copies = Both(copies, made),
                                   !.todo = [i \in DOMAIN originals |-> D + i]])
    BY Zenon DEF Duplicating
  <2>2. QED
    BY Zenon, <1>1, <2>1
<1>3. DOMAIN frame = FrameFields /\ DOMAIN originals = 1..m
  BY Zenon DEF Duplicating
<1>4. f.key = frame.key /\ f.def = copies[body] /\ f.copies = both /\ f.todo = todo
  BY <1>1, <1>3 DEF FrameFields
<1>5. DOMAIN todo = 1..m /\ \A i \in 1..m : todo[i] = D + i
  BY <1>1, <1>3
<1>6. /\ f.copies = Both(copies, made) /\ DOMAIN f.todo = 1..m
      /\ \A i \in 1..m : f.todo[i] = D + i
  BY <1>1, <1>4, <1>5
<1>7. QED
  BY Zenon, <1>2, <1>4, <1>6

(* What is mapped is mapped to its copy, or to an argument.                *)
Targets(both, originals, D, m, n) ==
  \A x \in DOMAIN both :
    \/ \E i \in 1..m : originals[i] = x /\ both[x] = D + i
    \/ \E i \in m + 1..m + n : both[x] = D + i

LEMMA TargetsAre ==
  ASSUME Sound, Typed, NEW u, NEW body, NEW originals, NEW copies, NEW made, NEW dups, NEW mades,
         NEW new, NEW D, NEW m, NEW n,
         Duplicating(u, body, originals, copies, made, dups, mades, new, D, m, n)
  PROVE  Targets(Both(copies, made), originals, D, m, n)
<1>1. /\ D \in Nat /\ m \in Nat /\ n \in Nat /\ n = Arity(u) /\ u \in DOMAIN templates
      /\ DOMAIN copies = Range(originals)
  BY Zenon DEF Duplicating
<1>2. \A d \in Range(originals) :
        /\ copies[d] \in D + 1..D + m /\ copies[d] - D \in 1..m
        /\ originals[copies[d] - D] = d
  BY Zenon DEF Duplicating
<1>3. PICK params : params = templates[u].params
  OBVIOUS
<1>4. made = [p \in Range(params) |-> D + m + CHOOSE i \in DOMAIN params : params[i] = p]
  <2>1. made = [p \in Range(templates[u].params) |->
                 D + m + CHOOSE i \in DOMAIN templates[u].params : templates[u].params[i] = p]
    BY Zenon DEF Duplicating
  <2>2. QED
    BY <1>3, <2>1
<1>5. DOMAIN params = 1..n
  <2>1. Sequence(params)
    BY <1>1, <1>3 DEF Typed, TemplatesTyped, TemplateTyped
  <2>2. QED
    BY <1>1, <1>3, <2>1, SequenceIs DEF Arity
<1>6. \A d \in Range(originals) : \E i \in 1..m : originals[i] = d /\ copies[d] = D + i
  <2>1. \A c \in D + 1..D + m : D + (c - D) = c
    BY <1>1
  <2>2. QED
    BY <1>2, <2>1
<1>7. \A p \in Range(params) : \E i \in m + 1..m + n : made[p] = D + i
  <2>1. TAKE p \in Range(params)
  <2>2. PICK q : q = CHOOSE i \in DOMAIN params : params[i] = p
    OBVIOUS
  <2>3. q \in 1..n
    BY <1>5, <2>2 DEF Range
  <2>4. made[p] = D + m + q
    BY <1>4, <2>2
  <2>5. m + q \in m + 1..m + n /\ D + m + q = D + (m + q)
    BY <1>1, <2>3
  <2>6. QED
    BY <2>4, <2>5
<1>8. DOMAIN made = Range(params)
  BY <1>4
<1>9. PICK both : both = Both(copies, made)
  OBVIOUS
<1>10. /\ DOMAIN both = DOMAIN copies \union DOMAIN made
       /\ \A x \in DOMAIN both : both[x] = IF x \in DOMAIN copies THEN copies[x] ELSE made[x]
  BY <1>9 DEF Both
<1>11. Targets(both, originals, D, m, n)
  BY <1>1, <1>6, <1>7, <1>8, <1>10 DEF Targets
<1>12. QED
  BY <1>9, <1>11

LEMMA CopiesChain ==
  ASSUME Sound, Typed, NEW u, NEW body, NEW originals, NEW copies, NEW made, NEW dups, NEW mades,
         NEW new, NEW D, NEW m, NEW n,
         Duplicating(u, body, originals, copies, made, dups, mades, new, D, m, n)
  PROVE  ChainsEnd'
<1>1. Copied(originals, new, D, m, n)
  BY NewAre
<1>2. /\ D \in Nat /\ m \in Nat /\ n \in Nat /\ D = Len(defs) /\ DOMAIN defs = 1..D
      /\ Sequence(new) /\ Len(new) = m + n /\ DOMAIN new = 1..m + n
      /\ \A i \in 1..m + n : i \in 1..m \/ i \in m + 1..m + n
      /\ \A i \in 1..m :
           /\ i \in 1..m + n /\ originals[i] \in DOMAIN defs
           /\ new[i].kind = defs[originals[i]].kind /\ new[i].type = defs[originals[i]].type
      /\ \A i \in m + 1..m + n : new[i].kind = "typed" => Untyped(new[i].type)
  BY <1>1 DEF Copied
<1>3. frames # << >> /\ defs' = defs \o new /\ Sequence(defs)
  <2>1. frames # << >> /\ defs' = defs \o new
    BY Zenon DEF Duplicating
  <2>2. QED
    BY <2>1 DEF Sound, DefsSound
<1>4. PICK f : /\ frames' = Append(Caller, f) /\ f.copies = Both(copies, made)
               /\ DOMAIN f.todo = 1..m /\ \A i \in 1..m : f.todo[i] = D + i
  BY StartIs
<1>5. PICK both : both = f.copies /\ Targets(both, originals, D, m, n)
  BY <1>4, TargetsAre
<1>6. GrownBy(defs, new, D, m + n)
  BY <1>2, <1>3, DefsAre DEF Sound
<1>7. /\ \A i \in 1..m + n : D + i \in DOMAIN defs' /\ defs'[D + i] = new[i]
      /\ DOMAIN defs \subseteq DOMAIN defs'
  BY <1>2, <1>6 DEF GrownBy
<1>8. PICK h \in Nat : \E rank \in [DOMAIN defs -> 0..h] : Chained(rank)
  BY DEF Typed, ChainsEnd
<1>9. PICK rank \in [DOMAIN defs -> 0..h] : Chained(rank)
  BY <1>8
<1>10. \A d \in DOMAIN defs :
         /\ rank[d] \in 0..h
         /\ IF defs[d].kind = "typed"
            THEN defs[d].type \in DOMAIN defs /\ rank[defs[d].type] < rank[d]
            ELSE rank[d] = 0
  <2>1. \A d \in DOMAIN defs : defs[d].kind = "typed" => defs[d].type \in DOMAIN defs
    <3>1. \A k \in 0..D : k # 0 => k \in 1..D
      BY Zenon, <1>2, Numbers
    <3>2. QED
      BY <1>2, <3>1 DEF Typed, DefsTyped, Refers
  <2>2. QED
    BY <1>9, <2>1 DEF Chained
<1>11. PICK low : low = [i \in 1..m + n |->
                          IF new[i].kind # "typed" THEN 0
                          ELSE IF i \in 1..m THEN rank[originals[i]] + 1 ELSE 1]
  OBVIOUS
<1>12. /\ \A i \in 1..m : low[i] = IF new[i].kind = "typed" THEN rank[originals[i]] + 1 ELSE 0
       /\ \A i \in m + 1..m + n : low[i] = IF new[i].kind = "typed" THEN 1 ELSE 0
  <2>1. \A i \in m + 1..m + n : i \in 1..m + n /\ i \notin 1..m
    BY <1>2
  <2>2. QED
    BY <1>2, <1>11, <2>1
<1>13. low \in [1..Len(new) -> 0..h + 1] /\ h + 1 \in Nat
  <2>1. 0 \in 0..h + 1 /\ 1 \in 0..h + 1 /\ \A r \in 0..h : r + 1 \in 0..h + 1
    BY <1>8
  <2>2. \A i \in 1..m : low[i] \in 0..h + 1
    BY ZenonT(30), <1>2, <1>10, <1>12, <2>1
  <2>3. \A i \in m + 1..m + n : low[i] \in 0..h + 1
    BY <1>12, <2>1
  <2>4. \A i \in 1..m + n : low[i] \in 0..h + 1
    BY <1>2, <2>2, <2>3
  <2>5. DOMAIN low = 1..Len(new) /\ low = [i \in 1..Len(new) |-> low[i]]
    BY <1>2, <1>11
  <2>6. QED
    BY <1>2, <1>8, <2>4, <2>5
<1>14. PICK whole : whole = Extended(rank, low)
  OBVIOUS
<1>15. /\ \A d \in DOMAIN defs : whole[d] = rank[d]
       /\ \A i \in 1..m + n : whole[D + i] = low[i]
  <2>1. \A i \in 1..m + n : (D + i) - D = i /\ D + i \notin 1..D
    BY <1>2
  <2>2. QED
    BY <1>2, <1>7, <1>14, <2>1 DEF Extended
<1>16. \A q, r \in Nat : q < r => q < r + 1 /\ q + 1 < r + 1 /\ 0 < r + 1 /\ 1 < r + 1
  OBVIOUS
<1>n. \A d \in DOMAIN defs : rank[d] \in Nat
  BY <1>10
<1>17. Lowering(new, low, whole)
  <2>1. ASSUME NEW i \in 1..m
        PROVE  IF new[i].kind = "typed" THEN whole[new[i].type] < low[i] ELSE low[i] = 0
    <3>1. PICK o : o = originals[i] /\ o \in DOMAIN defs
      BY <1>2
    <3>2. new[i].kind = "typed" =>
            /\ new[i].type \in DOMAIN defs /\ rank[new[i].type] < rank[o]
            /\ whole[new[i].type] = rank[new[i].type] /\ low[i] = rank[o] + 1
      BY <1>2, <1>10, <1>12, <1>15, <3>1
    <3>3. QED
      BY <1>12, <1>16, <1>n, <3>1, <3>2
  <2>2. ASSUME NEW i \in m + 1..m + n
        PROVE  IF new[i].kind = "typed" THEN whole[new[i].type] < low[i] ELSE low[i] = 0
    <3>1. new[i].kind = "typed" => whole[new[i].type] = 0
      BY <1>2, <1>10, <1>15 DEF Untyped
    <3>2. QED
      BY <1>12, <3>1
  <2>3. QED
    BY <1>2, <2>1, <2>2 DEF Lowering
<1>18. TodoLower(whole)
  <2>1. /\ DOMAIN frames' = DOMAIN frames
        /\ \A j \in DOMAIN frames : frames'[j] = IF j = Len(frames) THEN f ELSE frames[j]
    BY <1>3, <1>4, TopReplaced DEF Sound
  <2>2. ASSUME NEW i \in 1..m, defs'[D + i].kind = "typed",
               defs'[D + i].type \in DOMAIN both
        PROVE  whole[both[defs'[D + i].type]] < whole[D + i]
    <3>1. PICK o, y : o = originals[i] /\ y = defs'[D + i].type
      OBVIOUS
    <3>2. /\ o \in DOMAIN defs /\ y \in DOMAIN defs /\ rank[y] < rank[o]
          /\ whole[D + i] = rank[o] + 1
      <4>1. /\ D + i \in DOMAIN defs' /\ defs'[D + i] = new[i] /\ o \in DOMAIN defs
            /\ new[i].kind = defs[o].kind /\ new[i].type = defs[o].type
            /\ whole[D + i] = low[i]
        BY <1>2, <1>7, <1>15, <3>1
      <4>2. defs[o].kind = "typed" /\ y = defs[o].type /\ new[i].kind = "typed"
        BY <2>2, <3>1, <4>1
      <4>3. low[i] = rank[o] + 1
        BY <1>12, <3>1, <4>2
      <4>4. QED
        BY <1>10, <4>1, <4>2, <4>3
    <3>3. ASSUME NEW k \in 1..m, originals[k] = y, both[y] = D + k
          PROVE  whole[both[y]] < rank[o] + 1
      <4>1. whole[both[y]] = rank[y] + 1 \/ whole[both[y]] = 0
        <5>1. k \in 1..m + n /\ whole[D + k] = low[k]
          BY <1>2, <1>15
        <5>2. low[k] = rank[y] + 1 \/ low[k] = 0
          BY <1>12, <3>3
        <5>3. QED
          BY <3>3, <5>1, <5>2
      <4>2. QED
        BY <1>16, <1>n, <3>2, <4>1
    <3>4. ASSUME NEW k \in m + 1..m + n, both[y] = D + k
          PROVE  whole[both[y]] < rank[o] + 1
      <4>1. k \in 1..m + n
        BY <1>2
      <4>2. whole[both[y]] = 1 \/ whole[both[y]] = 0
        BY <1>12, <1>15, <3>4, <4>1
      <4>3. QED
        BY <1>16, <1>n, <3>2, <4>2
    <3>5. QED
      BY <1>5, <2>2, <3>1, <3>2, <3>3, <3>4 DEF Targets
  <2>3. ASSUME NEW j \in DOMAIN frames', NEW c \in Range(frames'[j].todo)
        PROVE  \/ /\ j \in DOMAIN frames /\ frames'[j].copies = frames[j].copies
                  /\ c \in Range(frames[j].todo)
               \/ defs'[c].kind = "typed" /\ defs'[c].type \in DOMAIN frames'[j].copies =>
                    whole[frames'[j].copies[defs'[c].type]] < whole[c]
    <3>1. CASE j = Len(frames)
      <4>1. frames'[j] = f
        BY <2>1, <3>1
      <4>2. PICK i \in 1..m : c = D + i
        BY <1>4, <2>3, <4>1 DEF Range
      <4>3. frames'[j].copies = both
        BY <1>5, <4>1
      <4>4. QED
        BY <2>2, <4>2, <4>3
    <3>2. CASE j # Len(frames)
      BY <2>1, <2>3, <3>2
    <3>3. QED
      BY <3>1, <3>2
  <2>4. QED
    BY <2>3 DEF TodoLower
<1>19. SameTypes(defs) /\ DefsSound /\ DefsTyped /\ FramesSound /\ FramesTyped
  BY DEF SameTypes, Sound, Typed
<1>20. QED
  BY <1>3, <1>2, <1>8, <1>9, <1>13, <1>14, <1>17, <1>18, <1>19, ChainsGrown

-----------------------------------------------------------------------------
(* The whole of the step that copies.                                      *)
LEMMA CopiesTyped ==
  ASSUME Sound, Typed, NEW u, NEW body, NEW originals, NEW copies, NEW made, NEW dups, NEW mades,
         NEW new, NEW D, NEW m, NEW n,
         Duplicating(u, body, originals, copies, made, dups, mades, new, D, m, n)
  PROVE  /\ DefsTyped' /\ OwnedOnce' /\ KindsKept
         /\ \A i \in 1..m + n : D + i \in DOMAIN defs' /\ defs'[D + i] = new[i]
<1>1. Copied(originals, new, D, m, n)
  BY NewAre
<1>2. /\ D \in Nat /\ m \in Nat /\ n \in Nat /\ D = Len(defs) /\ DOMAIN defs = 1..D
      /\ Sequence(new) /\ Len(new) = m + n /\ DOMAIN new = 1..m + n /\ m # 0
      /\ \A i \in 1..m + n : i \in 1..m \/ i \in m + 1..m + n
      /\ \A i \in 1..m : Refers(new[i], D + (m + n))
      /\ \A i \in m + 1..m + n : Refers(new[i], D + (m + n))
  BY <1>1 DEF Copied
<1>3. defs' = defs \o new /\ Sequence(defs) /\ DefsSound /\ OwnedOnce
  <2>1. defs' = defs \o new
    BY Zenon DEF Duplicating
  <2>2. QED
    BY <2>1 DEF Sound, DefsSound, Typed
<1>4. Len(new) # 0 /\ D + (m + n) \in Nat /\ D <= D + (m + n)
  BY <1>2
<1>5. OwnedNew(new, 0) /\ Owns(defs, 0)
  <2>1. \A d \in DOMAIN defs : d # 0
    BY <1>2
  <2>2. QED
    BY <2>1, CopiesOwnedOnce DEF Owns
<1>6. \A d \in DOMAIN defs : defs[d].kind = defs[d].kind /\ Refers(defs[d], Len(defs) + Len(new))
  <2>1. \A d \in DOMAIN defs : Refers(defs[d], D)
    BY <1>2 DEF Typed, DefsTyped
  <2>2. QED
    BY <1>2, <1>4, <2>1, RefersMore
<1>7. \A i \in DOMAIN new : Refers(new[i], Len(defs) + Len(new))
  BY <1>2
<1>8. DefsTyped' /\ OwnedOnce' /\ KindsKept
  BY <1>3, <1>2, <1>4, <1>5, <1>6, <1>7, DefsTypedGrown
<1>9. GrownBy(defs, new, D, m + n)
  BY <1>2, <1>3, DefsAre
<1>10. QED
  BY <1>8, <1>9 DEF GrownBy

LEMMA CopiesTemplatesTyped ==
  ASSUME Sound, Typed, NEW u, NEW body, NEW originals, NEW copies, NEW made, NEW dups, NEW mades,
         NEW new, NEW D, NEW m, NEW n,
         Duplicating(u, body, originals, copies, made, dups, mades, new, D, m, n),
         KindsKept, Untyped(copies[body])'
  PROVE  TemplatesTyped'
<1>1. PICK instance, was, r :
        /\ instance = [key |-> frame.key, def |-> copies[body], copies |-> copies]
        /\ was = templates[u].instantiations
        /\ r = [templates[u] EXCEPT !.instantiations = Append(was, instance)]
  OBVIOUS
<1>2. templates' = [templates EXCEPT ![u] = r]
  <2>1. templates' = [templates EXCEPT ![u].instantiations =
          Append(@, [key |-> frame.key, def |-> copies[body], copies |-> copies])]
    BY Zenon DEF Duplicating
  <2>2. QED
    BY <1>1, <2>1
<1>3. u \in DOMAIN templates /\ u = frame.temp /\ Existing = {} /\ Argued(Arity(u), frame.key)
  BY Zenon DEF Duplicating
<1>4. TemplateSound(u) /\ TemplateTyped(u) /\ Sequence(templates)
  BY <1>3 DEF Sound, TemplatesSound, Typed, TemplatesTyped
<1>5. /\ r.instantiations = Append(was, instance)
      /\ r.params = templates[u].params /\ r.defaults = templates[u].defaults
      /\ r.def = templates[u].def /\ r.general = templates[u].general
  BY <1>1, <1>4 DEF TemplateSound, TemplateFields
<1>6. /\ DOMAIN templates' = DOMAIN templates
      /\ \A t \in DOMAIN templates : templates'[t] = IF t = u THEN r ELSE templates[t]
  BY <1>2, <1>4, Updated
<1>7. /\ instance.key = frame.key /\ instance.def = copies[body]
  BY <1>1
<1>8. Sequence(was)
  BY <1>1, <1>4 DEF TemplateSound, InstancesSound, Instances
<1>9. PICK L : L = Len(was)
  OBVIOUS
<1>10. /\ L \in Nat /\ DOMAIN was = 1..L /\ DOMAIN r.instantiations = 1..L + 1
       /\ \A i \in 1..L : r.instantiations[i] = was[i]
       /\ r.instantiations[L + 1] = instance
       /\ \A i \in 1..L + 1 : i \in 1..L \/ i = L + 1
  <2>1. L \in Nat /\ DOMAIN was = 1..L
    BY <1>8, <1>9, SequenceIs
  <2>2. /\ DOMAIN r.instantiations = 1..L + 1
        /\ \A i \in 1..L : r.instantiations[i] = was[i]
        /\ r.instantiations[L + 1] = instance
    BY <1>5, <1>8, <1>9, Appended
  <2>3. \A i \in 1..L + 1 : i \in 1..L \/ i = L + 1
    BY <2>1
  <2>4. QED
    BY <2>1, <2>2, <2>3
<1>11. /\ \A i, j \in 1..L : was[i].key = was[j].key => i = j
       /\ \A i \in 1..L : /\ Untyped(was[i].def)' /\ Len(was[i].key) = Arity(u)
                          /\ was[i].key # frame.key
  <2>1. /\ \A i, j \in 1..L : was[i].key = was[j].key => i = j
        /\ \A i \in 1..L : Untyped(was[i].def) /\ Len(was[i].key) = Arity(u)
    BY <1>1, <1>4, <1>10 DEF TemplateTyped, Instances
  <2>2. \A i \in 1..L : was[i].key # frame.key
    BY <1>1, <1>3, <1>10 DEF Existing, Instances
  <2>3. \A i \in 1..L : Untyped(was[i].def)'
    <3>1. TAKE i \in 1..L
    <3>2. PICK d : d = was[i].def
      OBVIOUS
    <3>3. Untyped(d)
      BY <2>1, <3>2
    <3>4. Untyped(d)'
      BY <3>3, UntypedKept
    <3>5. was[i].def \in DOMAIN defs' /\ defs'[was[i].def].kind # "typed"
      BY <3>2, <3>4 DEF Untyped
    <3>6. templates[u].instantiations[i].def \in DOMAIN defs'
      BY <1>1, <3>5
    <3>7. QED
      BY <3>5 DEF Untyped
  <2>4. QED
    BY <2>1, <2>2, <2>3
<1>12. TemplateTyped(u)'
  <2>1. Instances(u)' = r.instantiations /\ Arity(u)' = Arity(u)
    BY <1>3, <1>5, <1>6 DEF Instances, Arity
  <2>2. \A i, j \in DOMAIN r.instantiations :
          r.instantiations[i].key = r.instantiations[j].key => i = j
    BY <1>7, <1>10, <1>11
  <2>3. \A i \in DOMAIN r.instantiations :
          /\ r.instantiations[i].def \in DOMAIN defs'
          /\ defs'[r.instantiations[i].def].kind # "typed"
          /\ Len(r.instantiations[i].key) = Arity(u)
    <3>1. /\ copies[body] \in DOMAIN defs' /\ defs'[copies[body]].kind # "typed"
      BY DEF Untyped
    <3>2. Len(frame.key) = Arity(u)
      BY <1>3 DEF Argued
    <3>3. \A i \in 1..L : was[i].def \in DOMAIN defs' /\ defs'[was[i].def].kind # "typed"
      BY <1>11 DEF Untyped
    <3>4. QED
      BY <1>7, <1>10, <1>11, <3>1, <3>2, <3>3
  <2>4. templates'[u] = r
    BY <1>3, <1>6
  <2>5. /\ Sequence(r.params) /\ Range(r.params) \subseteq DOMAIN defs'
        /\ r.general \in [DOMAIN r.general -> DOMAIN defs']
        /\ r.def \in DOMAIN defs' /\ defs'[r.def].kind # "typed"
    BY <1>4, <1>5 DEF TemplateTyped, KindsKept, Untyped
  <2>6. \A i \in DOMAIN r.defaults :
          r.defaults[i].kind = "type" => r.defaults[i].of \in {IntType, ClassType}
    BY <1>4, <1>5 DEF TemplateTyped
  <2>7. \A s : Sequence(s)' <=> s' \in Seq(Range(s'))
    BY DEF Sequence
  <2>8. QED
    BY <2>1, <2>2, <2>3, <2>4, <2>5, <2>6
    DEF TemplateTyped, Untyped, Sequence, IntType, ClassType
<1>13. ASSUME NEW t \in DOMAIN templates, t # u
       PROVE  TemplateTyped(t)'
  <2>1. templates'[t] = templates[t] /\ TemplateTyped(t)
    BY <1>6, <1>13 DEF Typed, TemplatesTyped
  <2>2. templates'[t].general \in [DOMAIN templates'[t].general -> DOMAIN defs']
    BY <2>1 DEF TemplateTyped, KindsKept
  <2>3. QED
    BY <2>1, <2>2, TemplateTypedKept
<1>14. QED
  BY <1>6, <1>12, <1>13 DEF TemplatesTyped

LEMMA DuplicateTyped ==
  ASSUME Sound, Typed, Duplicate
  PROVE  Typed'
<1>1. PICK u, body, originals, copies, made, dups, mades, new, D, m, n :
        Duplicating(u, body, originals, copies, made, dups, mades, new, D, m, n)
  BY DuplicateIs
<1>2. /\ frames # << >> /\ UNCHANGED <<open, result>>
      /\ u \in DOMAIN templates /\ body = templates[u].def /\ body \in Range(originals)
      /\ D = Len(defs) /\ DOMAIN defs = 1..D
  BY Zenon, <1>1 DEF Duplicating, Encloses
<1>3. /\ DefsTyped' /\ OwnedOnce' /\ KindsKept /\ ChainsEnd'
      /\ \A i \in 1..m + n : D + i \in DOMAIN defs' /\ defs'[D + i] = new[i]
  <2>1. ChainsEnd'
    BY <1>1, CopiesChain
  <2>2. /\ DefsTyped' /\ OwnedOnce' /\ KindsKept
        /\ \A i \in 1..m + n : D + i \in DOMAIN defs' /\ defs'[D + i] = new[i]
    BY <1>1, CopiesTyped
  <2>3. QED
    BY <2>1, <2>2
<1>4. /\ D \in Nat /\ m \in Nat /\ n \in Nat
      /\ \A i \in 1..m :
           /\ i \in 1..m + n /\ new[i].kind = defs[originals[i]].kind
      /\ \A i \in m + 1..m + n : i \in 1..m + n
  <2>1. Copied(originals, new, D, m, n)
    BY <1>1, NewAre
  <2>2. D \in Nat /\ m \in Nat /\ n \in Nat
    BY <2>1 DEF Copied
  <2>3. \A i \in m + 1..m + n : i \in 1..m + n
    BY <2>2
  <2>4. QED
    BY <2>1, <2>2, <2>3 DEF Copied
<1>5. Untyped(copies[body])'
  <2>1. PICK c : c = copies[body]
    OBVIOUS
  <2>2. c - D \in 1..m /\ originals[c - D] = body /\ c \in D + 1..D + m
    BY Zenon, <1>1, <1>2, <2>1 DEF Duplicating
  <2>3. D + (c - D) = c
    BY <1>4, <2>2
  <2>4. c \in DOMAIN defs' /\ defs'[c].kind = defs[body].kind
    BY <1>3, <1>4, <2>2, <2>3
  <2>5. defs[body].kind # "typed"
    BY <1>2 DEF Typed, TemplatesTyped, TemplateTyped, Untyped
  <2>6. QED
    BY <2>1, <2>4, <2>5 DEF Untyped
<1>6. TemplatesTyped'
  BY <1>1, <1>3, <1>5, CopiesTemplatesTyped
<1>7. PICK f : /\ frames' = Append(Caller, f) /\ f.key = frame.key /\ f.def = copies[body]
               /\ f.copies = Both(copies, made) /\ DOMAIN f.todo = 1..m
               /\ \A i \in 1..m : f.todo[i] = D + i
  BY <1>1, StartIs
<1>8. /\ DOMAIN frames' = DOMAIN frames
      /\ \A j \in DOMAIN frames : frames'[j] = IF j = Len(frames) THEN f ELSE frames[j]
  BY <1>2, <1>7, TopReplaced DEF Sound
<1>9. /\ \A x : Untyped(x) => Untyped(x)'
      /\ \A key : KeyTyped(key) => KeyTyped(key)'
      /\ \A g : FrameTyped(g) => FrameTyped(g)'
  BY <1>3, UntypedKept
<1>10. FrameTyped(f)'
  <2>1. KeyTyped(f.key)'
    <3>1. PICK key : key = frame.key
      OBVIOUS
    <3>2. KeyTyped(key)
      BY <1>2, <3>1, TopTyped DEF FrameTyped
    <3>3. KeyTyped(key)'
      BY <1>9, <3>2
    <3>4. f.key = key
      BY <1>7, <3>1
    <3>5. QED
      BY <3>3, <3>4
  <2>2. Untyped(f.def)'
    BY <1>5, <1>7 DEF Untyped
  <2>3. PICK both : both = f.copies /\ Targets(both, originals, D, m, n)
    BY <1>1, <1>7, TargetsAre
  <2>4. \A x \in DOMAIN both : both[x] \in DOMAIN defs'
    BY <1>3, <1>4, <2>3 DEF Targets
  <2>5. QED
    BY <2>1, <2>2, <2>3, <2>4 DEF FrameTyped
<1>11. FramesTyped'
  <2>1. ASSUME NEW j \in DOMAIN frames, j # Len(frames)
        PROVE  FrameTyped(frames[j])
    BY DEF Typed, FramesTyped
  <2>2. \A j \in DOMAIN frames' : \E g : g = frames'[j] /\ FrameTyped(g)'
    <3>1. \A j \in DOMAIN frames' : frames'[j] = f \/ FrameTyped(frames'[j])
      BY <1>8, <2>1
    <3>2. QED
      BY <1>9, <1>10, <3>1
  <2>3. QED
    BY <2>2 DEF FramesTyped, FrameTyped
<1>12. TodoOnce'
  <2>1. \A j \in DOMAIN frames : \A k \in DOMAIN frames[j].todo : frames[j].todo[k] \in 1..D
    BY <1>2 DEF Sound, FramesSound, FrameSound, Range
  <2>2. \A k \in 1..m : D + k \notin 1..D
    BY <1>4
  <2>3. \A k, l \in 1..m : D + k = D + l => k = l
    BY <1>4
  <2>4. ASSUME NEW i \in DOMAIN frames', NEW j \in DOMAIN frames',
               NEW k \in DOMAIN frames'[i].todo, NEW l \in DOMAIN frames'[j].todo,
               frames'[i].todo[k] = frames'[j].todo[l]
        PROVE  i = j /\ k = l
    <3>0. \A x \in DOMAIN frames' : \A y \in DOMAIN frames'[x].todo :
            IF x = Len(frames) THEN y \in 1..m /\ frames'[x].todo[y] = D + y
            ELSE frames'[x].todo[y] \in 1..D
      <4>1. TAKE x \in DOMAIN frames'
      <4>2. CASE x = Len(frames)
        <5>1. frames'[x].todo = f.todo
          BY <1>8, <4>2
        <5>2. QED
          BY <1>7, <4>2, <5>1
      <4>3. CASE x # Len(frames)
        <5>1. x \in DOMAIN frames /\ frames'[x].todo = frames[x].todo
          BY <1>8, <4>3
        <5>2. QED
          BY <2>1, <4>3, <5>1
      <4>4. QED
        BY <4>2, <4>3
    <3>1. CASE i = Len(frames) /\ j = Len(frames)
      <4>1. k \in 1..m /\ l \in 1..m /\ D + k = D + l
        BY <2>4, <3>0, <3>1
      <4>2. QED
        BY <2>3, <3>1, <4>1
    <3>2. CASE i = Len(frames) /\ j # Len(frames)
      <4>1. k \in 1..m /\ D + k \in 1..D
        BY <2>4, <3>0, <3>2
      <4>2. QED
        BY <2>2, <4>1
    <3>3. CASE i # Len(frames) /\ j = Len(frames)
      <4>1. l \in 1..m /\ D + l \in 1..D
        BY <2>4, <3>0, <3>3
      <4>2. QED
        BY <2>2, <4>1
    <3>4. CASE i # Len(frames) /\ j # Len(frames)
      <4>1. /\ i \in DOMAIN frames /\ j \in DOMAIN frames
            /\ frames'[i] = frames[i] /\ frames'[j] = frames[j]
        BY <1>8, <3>4
      <4>2. \A a \in DOMAIN frames[i].todo, b \in DOMAIN frames[j].todo :
              frames[i].todo[a] = frames[j].todo[b] => i = j /\ a = b
        BY <4>1 DEF Typed, TodoOnce
      <4>3. QED
        BY <2>4, <4>1, <4>2
    <3>5. QED
      BY <3>1, <3>2, <3>3, <3>4
  <2>5. QED
    BY <2>4 DEF TodoOnce
<1>13. OpenTyped'
  BY <1>2, <1>3, OpenTypedKept DEF Typed
<1>14. ResultTyped' /\ Untyped(IntType)' /\ Untyped(ClassType)'
  BY <1>2, <1>9 DEF Typed, ResultTyped, IntType, ClassType
<1>15. QED
  BY <1>3, <1>6, <1>11, <1>12, <1>13, <1>14 DEF Typed

-----------------------------------------------------------------------------
(* Types hold at first and are kept by every step.                         *)
LEMMA InitTyped ==
  ASSUME Init
  PROVE  Typed
<1>1. PICK a, b : a = Definition("atomic", 0, 0) /\ b = Definition("class", 0, 0)
  OBVIOUS
<1>2. /\ defs = <<a, b>> /\ templates = << >> /\ frames = << >>
      /\ open = [temp |-> 0, scopes |-> << >>]
      /\ result = [temp |-> 0, args |-> << >>, key |-> << >>, def |-> 0]
  BY Zenon, <1>1 DEF Init
<1>3. /\ DOMAIN defs = 1..2 /\ defs[1] = a /\ defs[2] = b /\ Len(defs) = 2
      /\ \A d \in DOMAIN defs : defs[d] = a \/ defs[d] = b
  <2>1. DOMAIN defs = 1..2 /\ defs[1] = a /\ defs[2] = b /\ Len(defs) = 2
    BY <1>2
  <2>2. \A i \in 1..2 : i = 1 \/ i = 2
    OBVIOUS
  <2>3. QED
    BY <2>1, <2>2
<1>4. Refers(a, 2) /\ Refers(b, 2)
  <2>1. "atomic" \in Kinds /\ "class" \in Kinds /\ 0 \in 0..2
    BY DEF Kinds
  <2>2. QED
    BY <1>1, <2>1, DefinitionRefers
<1>5. \A d \in DOMAIN defs : defs[d].kind # "typed" /\ DOMAIN defs[d].order = {}
  <2>1. a.kind = "atomic" /\ b.kind = "class" /\ a.order = << >> /\ b.order = << >>
    BY <1>1 DEF Definition
  <2>2. QED
    BY <1>3, <2>1
<1>6. DOMAIN templates = {} /\ DOMAIN frames = {}
  BY <1>2
<1>7. DefsTyped /\ OwnedOnce
  BY <1>3, <1>4, <1>5 DEF DefsTyped, OwnedOnce
<1>8. TemplatesTyped /\ FramesTyped /\ TodoOnce /\ OpenTyped /\ ResultTyped
  BY <1>2, <1>6 DEF TemplatesTyped, FramesTyped, TodoOnce, OpenTyped, ResultTyped
<1>9. ChainsEnd
  <2>1. PICK rank : rank = [d \in DOMAIN defs |-> 0]
    OBVIOUS
  <2>2. rank \in [DOMAIN defs -> 0..0] /\ 0 \in Nat
    BY <2>1
  <2>3. Chained(rank)
    BY <1>5, <1>6, <2>1 DEF Chained
  <2>4. QED
    BY <2>2, <2>3 DEF ChainsEnd
<1>10. Untyped(IntType) /\ Untyped(ClassType)
  BY <1>3, <1>5 DEF Untyped, IntType, ClassType
<1>11. QED
  BY <1>7, <1>8, <1>9, <1>10 DEF Typed

LEMMA TypedStep ==
  ASSUME Sound, Typed, [Next]_vars
  PROVE  Typed'
<1>1. \/ TemplateDeclaration \/ MemberDeclaration \/ UseTemplate \/ Instantiate
      \/ UNCHANGED vars
  BY DEF Next, EndOfInput
<1>2. CASE TemplateDeclaration
  <2>1. \/ \E list \in program.lists, forward \in BOOLEAN : Declare(list, forward)
        \/ \E u \in DOMAIN templates : \E list \in program.lists : Redeclare(u, list)
        \/ \E u \in DOMAIN templates : \E p \in program.patterns :
             Specialize(u, p.list, p.args)
    BY <1>2 DEF TemplateDeclaration
  <2>2. QED
    BY <2>1, DeclareTyped, RedeclareTyped, SpecializeTyped
<1>3. CASE MemberDeclaration
  <2>1. \/ \E t \in Types : Member(t)
        \/ \E t \in Types : Inherit(t)
        \/ \E e \in Expressions : Enumeration(e)
        \/ \E x \in TypeNames, u \in DOMAIN templates : DependentMember(x, u)
        \/ OpenClass
        \/ CloseScope
    BY <1>3 DEF MemberDeclaration
  <2>2. QED
    BY <2>1, MemberTyped, InheritTyped, EnumerationTyped, DependentMemberTyped,
       OpenClassTyped, CloseScopeTyped
<1>4. CASE UseTemplate
  <2>1. \E u \in DOMAIN templates :
          \E n \in 0..Arity(u) :
            \E args \in [1..n -> Arguments("type") \union Arguments("value")] : Use(u, args)
    BY <1>4 DEF UseTemplate
  <2>2. QED
    BY <2>1, UseTemplateTyped
<1>5. CASE Instantiate
  BY <1>5, BailTyped, SpecializedTyped, ReuseTyped, DuplicateTyped, RemapTyped,
     RemapEnumeratorTyped, FinishTyped, ReturnTyped DEF Instantiate
<1>6. QED
  BY <1>1, <1>2, <1>3, <1>4, <1>5, StutterTyped

LEMMA TypedIs ==
  ASSUME Sound, Typed
  PROVE  TypeOK
<1>1. ASSUME NEW d \in DOMAIN defs
      PROVE  /\ defs[d].kind \in {"atomic", "class", "type", "value", "typed", "enum",
                                   "constant", "hypothetical"}
             /\ {defs[d].parent, defs[d].type, defs[d].base} \subseteq 0..Len(defs)
             /\ \A e \in DOMAIN defs :
                  Range(defs[d].order) \intersect Range(defs[e].order) # {} => d = e
             /\ defs[d].value.type \in {"integer", "none", "dependent"}
  <2>1. Refers(defs[d], Len(defs))
    BY DEF Typed, DefsTyped
  <2>2. \A e \in DOMAIN defs :
          Range(defs[d].order) \intersect Range(defs[e].order) # {} => d = e
    BY OwnersAre DEF Typed
  <2>3. QED
    BY <2>1, <2>2 DEF Refers, Kinds, ValueTypes
<1>2. \A t \in DOMAIN templates :
        /\ \A i, j \in DOMAIN Instances(t) : Instances(t)[i].key = Instances(t)[j].key => i = j
        /\ \A i \in DOMAIN Instances(t) : Len(Instances(t)[i].key) = Arity(t)
  BY DEF Typed, TemplatesTyped, TemplateTyped
<1>3. \A i \in DOMAIN frames : frames[i].at \in {"enter", "remap", "return"}
  BY DEF Sound, FramesSound, FrameSound
<1>4. QED
  BY <1>1, <1>2, <1>3 DEF TypeOK

-----------------------------------------------------------------------------
(* At every moment the definitions, the templates and the calls are as     *)
(* above: each call of instantiate that runs is for a template that exists *)
(* and a key of arguments of its arity, passes on to a specialization that *)
(* fits the key if there is one, and is about to return the instance of    *)
(* the key otherwise, whatever its enumerators instantiate meanwhile,      *)
(* unless the limit of nesting was met.                                    *)
THEOREM TemplatesInvariant == Spec => []TemplatesInv
<1>1. Init => TemplatesInv
  BY InitSound DEF TemplatesInv, Init
<1>2. ASSUME TemplatesInv, [Next]_vars
      PROVE  TemplatesInv'
  BY <1>2, SoundStep, ExceededTyped DEF TemplatesInv
<1>3. QED
  BY <1>1, <1>2, PTL DEF Spec

(* Whatever is declared and instantiated, each definition refers to        *)
(* definitions and is owned by one at most, each instance of a template    *)
(* has a key of its own and of its arity, and every call is at one of its  *)
(* three points: duplicate copies each definition of a body once, remap    *)
(* keeps what it does not map, and typedefs of typedefs end, so that the   *)
(* base that is looked up through them is found.                           *)
THEOREM TypesKept == Spec => []TypeOK
<1>1. Init => Sound /\ Typed
  BY InitSound, InitTyped
<1>2. ASSUME Sound /\ Typed, [Next]_vars
      PROVE  (Sound /\ Typed)'
  BY <1>2, SoundStep, TypedStep
<1>3. Sound /\ Typed => TypeOK
  BY TypedIs
<1>4. QED
  BY <1>1, <1>2, <1>3, PTL DEF Spec

(* A use of a template gets the instance of its arguments and defaults: of *)
(* a specialization that they fit if there is one, for what they give its  *)
(* parameters, and of the template itself otherwise                        *)
(* (definition_template::instantiate and find_specialization), for any     *)
(* programs and however many instances are made within each other below    *)
(* the limit.                                                              *)
THEOREM UsesGetTheirInstance == Spec => []InstanceDesignated
<1>1. TemplatesInv => InstanceDesignated
  <2>1. SUFFICES ASSUME Sound, ~exceeded, result.temp # 0
                 PROVE  LET key == Expected(result.temp, result.args)
                            specs == templates[result.temp].specializations
                        IN  IF Fitting(result.temp, key) = {}
                            THEN IsInstance(result.temp, key, result.def)
                            ELSE \E s \in Fitting(result.temp, key) :
                                   IsInstance(specs[s].temp, SpecializedKey(specs[s], key),
                                              result.def)
    BY DEF TemplatesInv, InstanceDesignated
  <2>2. /\ result.temp \in DOMAIN templates /\ Given(result.temp, result.args)
        /\ InstanceFor(result.temp, GivenKey(result.temp, result.args), result.def)
    BY <2>1 DEF Sound, UseSound, Designated
  <2>3. DefaultsSound(Arity(result.temp), templates[result.temp].defaults)
    BY <2>1, <2>2 DEF Sound, TemplatesSound, TemplateSound
  <2>4. Expected(result.temp, result.args) = GivenKey(result.temp, result.args)
    BY <2>2, <2>3, KeyIs
  <2>5. QED
    BY <2>2, <2>4 DEF InstanceFor
<1>2. QED
  BY <1>1, TemplatesInvariant, PTL
=============================================================================
