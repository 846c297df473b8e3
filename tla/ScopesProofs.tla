----------------------------- MODULE ScopesProofs -----------------------------
(***************************************************************************)
(* Proofs about Scopes: for any identifiers and any bounds, each           *)
(* definition keeps its one owner, bodies belong to the class of the scope *)
(* they are in but for tags of another kind, and a struct can be named by  *)
(* its tag.                                                                *)
(***************************************************************************)
EXTENDS Scopes, FiniteSetTheorems, SequenceTheorems, TLAPS

-----------------------------------------------------------------------------
(* Recursive functions: a set of natural numbers has a least element, and  *)
(* a function that is given by its own values at smaller places exists.    *)
(* Sets and functions stand where the theorems of NaturalsInduction have   *)
(* operators, so that a proof can choose them.                             *)

(* The counterexample to begin with, in a proof by induction.              *)
LEMMA Least ==
  ASSUME NEW T, T \subseteq Nat, T # {}
  PROVE  \E m \in T : \A k \in T : m <= k
<1> DEFINE R == OpToRel(<, Nat)
<1>1. IsWellFoundedOn(R, Nat)
  BY NatLessThanWellFounded
<1>2. PICK m \in T : \A k \in T : ~(<<k, m>> \in R)
  <2> HIDE DEF R
  <2>1. \E m \in T : \A k \in T : ~(<<k, m>> \in R)
    BY <1>1, WFMin
  <2>2. QED
    BY <2>1
<1>3. \A k \in T : ~(k < m)
  BY <1>2 DEF OpToRel
<1>4. QED
  BY <1>3

(* A set that has 0, and with each number the down one, has them all.      *)
LEMMA Induction ==
  ASSUME NEW T, 0 \in T, \A n \in Nat : n \in T => n + 1 \in T
  PROVE  \A n \in Nat : n \in T
<1>1. SUFFICES ASSUME NEW n \in Nat, n \notin T PROVE FALSE
  OBVIOUS
<1> DEFINE C == Nat \ T
<1>2. C \subseteq Nat /\ C # {}
  BY <1>1
<1>3. PICK m \in C : \A k \in C : m <= k
  <2> HIDE DEF C
  <2>1. QED
    BY <1>2, Least
<1>4. m # 0 /\ m \in Nat
  OBVIOUS
<1>5. m - 1 \in Nat /\ ~(m <= m - 1)
  BY <1>4
<1>6. m - 1 \in T
  BY <1>3, <1>5
<1>7. QED
  BY <1>4, <1>5, <1>6

(* A set of numbers that has a bound has a greatest element.               *)
LEMMA Greatest ==
  ASSUME NEW S, NEW n \in Nat, S \subseteq 0..n, S # {}
  PROVE  \E m \in S : \A k \in S : k <= m
<1> DEFINE T == {b \in Nat : \A k \in S : k <= b}
<1>1. T \subseteq Nat /\ n \in T
  OBVIOUS
<1>2. PICK m \in T : \A b \in T : m <= b
  <2> HIDE DEF T
  <2>1. QED
    BY <1>1, Least
<1>3. \A k \in S : k \in Nat /\ k <= m
  OBVIOUS
<1>4. m \in S
  <2>1. SUFFICES ASSUME m \notin S PROVE FALSE
    OBVIOUS
  <2>2. PICK k \in S : TRUE
    OBVIOUS
  <2>3. m \in Nat /\ m # 0
    BY <1>3, <2>1, <2>2
  <2>4. \A j \in S : j <= m - 1
    BY <1>3, <2>1, <2>3
  <2>5. m - 1 \in T
    BY <2>3, <2>4
  <2>6. m <= m - 1
    BY <1>2, <2>5
  <2>7. QED
    BY <2>3, <2>6
<1>5. QED
  BY <1>3, <1>4

(* The function on D that is base where it stops and that step makes of    *)
(* its value at a smaller place elsewhere.                                 *)
Descending(D, V, stop, base, down, step) ==
  /\ base \in [D -> V]
  /\ step \in [D -> [V -> V]]
  /\ \A i \in D : i \notin stop => down[i] \in D /\ down[i] < i

Descends(g, D, stop, base, down, step) ==
  \A i \in D : g[i] = IF i \in stop THEN base[i] ELSE step[i][g[down[i]]]

(* Where down leads to smaller places until it stops, there is such a      *)
(* function, so what is defined as one has the values its equation says.   *)
LEMMA Descent ==
  ASSUME NEW n \in Nat, NEW D, D \subseteq 0..n, NEW V, NEW stop, NEW base, NEW down,
         NEW step, Descending(D, V, stop, base, down, step)
  PROVE  \E g \in [D -> V] : Descends(g, D, stop, base, down, step)
<1> DEFINE Upto(g, m) ==
             \A i \in D : i < m =>
               g[i] = IF i \in stop THEN base[i] ELSE step[i][g[down[i]]]
           T == {m \in Nat : \E g \in [D -> V] : Upto(g, m)}
<1>1. 0 \in T
  <2>1. base \in [D -> V] /\ \A i \in D : ~(i < 0)
    BY DEF Descending
  <2>2. QED
    BY <2>1
<1>2. ASSUME NEW m \in Nat, m \in T
      PROVE  m + 1 \in T
  <2>1. PICK g \in [D -> V] : Upto(g, m)
    BY <1>2
  <2> DEFINE new == IF m \in stop THEN base[m] ELSE step[m][g[down[m]]]
             h == [i \in D |-> IF i = m THEN new ELSE g[i]]
  <2>2. m \in D => new \in V
    BY <2>1 DEF Descending
  <2>3. h \in [D -> V]
    <3> HIDE DEF new
    <3>1. QED
      BY <2>1, <2>2
  <2>4. ASSUME NEW i \in D, i < m + 1
        PROVE  h[i] = IF i \in stop THEN base[i] ELSE step[i][h[down[i]]]
    <3>1. i \notin stop => down[i] \in D /\ down[i] # m /\ h[down[i]] = g[down[i]]
      <4>1. SUFFICES ASSUME i \notin stop PROVE down[i] \in D /\ down[i] # m
        OBVIOUS
      <4>2. down[i] \in D /\ down[i] < i
        BY <4>1 DEF Descending
      <4>3. i \in Nat /\ down[i] \in Nat
        <5>1. \A x \in D : x \in Nat
          OBVIOUS
        <5>2. QED
          BY <4>2, <5>1
      <4>4. QED
        BY <2>4, <4>2, <4>3
    <3>2. CASE i = m
      <4>1. h[i] = new
        BY <3>2
      <4>2. QED
        BY <3>1, <3>2, <4>1
    <3>3. CASE i # m
      <4>1. i < m
        BY <2>4, <3>3
      <4>2. h[i] = g[i] /\ g[i] = IF i \in stop THEN base[i] ELSE step[i][g[down[i]]]
        BY <2>1, <3>3, <4>1
      <4>3. QED
        BY <3>1, <4>2
    <3>4. QED
      BY <3>2, <3>3
  <2>5. Upto(h, m + 1)
    BY <2>4
  <2> HIDE DEF Upto, h
  <2>6. QED
    BY <2>3, <2>5
<1>3. n + 1 \in T
  <2> HIDE DEF T
  <2>1. QED
    BY <1>1, <1>2, Induction
<1>4. PICK g \in [D -> V] : Upto(g, n + 1)
  BY <1>3
<1>5. \A i \in D : i < n + 1
  OBVIOUS
<1>6. QED
  BY <1>4, <1>5 DEF Descends

-----------------------------------------------------------------------------
(* The invariant.                                                          *)

(* The first two definitions are there from the start.                     *)
Rooted ==
  /\ defs[1] = Definition("namespace", "", None, None, FALSE)
  /\ defs[2] = Definition("builtin", "int", None, None, TRUE)
  /\ \A d \in 3..Len(defs) : defs[d].name \in Names

(* Only c_structs holds classes, unions and enumerations.                  *)
Tags ==
  \A s \in Slots, n \in Names :
    /\ Kind(using_general[s][n]) \notin Tagged
    /\ c_structs[s][n] # None => Kind(c_structs[s][n]) \in Tagged

(* The file is the first frame; classes have parents.                      *)
Framed ==
  /\ open[1] = [scope |-> Global, by |-> "file"]
  /\ \A i \in 2..Len(open) :
       open[i].by # "file" /\ (open[i].by \in Classes => open[i].scope >= 3)

ScopesInv == TypeOK /\ Rooted /\ Owned /\ Tags /\ Framed /\ ReopenedPastTag

-----------------------------------------------------------------------------
(* The greatest of a bounded set.                                          *)
LEMMA MaxIs ==
  ASSUME NEW S, NEW n \in Nat, S \subseteq 0..n, S # {}
  PROVE  Max(S) \in S /\ \A k \in S : k <= Max(S)
<1>1. \E m \in S : \A k \in S : k <= m
  BY Greatest
<1>2. \E m \in S : \A k \in S : m >= k
  BY <1>1
<1>3. QED
  BY <1>2 DEF Max

(* First finds one of what it is given, or nothing.                        *)
LEMMA FirstIs ==
  ASSUME NEW f, NEW V, None \in V, NEW n \in Nat, DOMAIN f \subseteq 1..n,
         \A i \in DOMAIN f : f[i] \in V
  PROVE  First(f) \in V
<1> DEFINE hits == {i \in DOMAIN f : f[i] # None}
<1>1. CASE hits = {}
  BY <1>1 DEF First
<1>2. CASE hits # {}
  <2>1. hits \subseteq Nat
    OBVIOUS
  <2>2. \E m \in hits : \A k \in hits : m <= k
    <3> HIDE DEF hits
    <3>1. QED
      BY <1>2, <2>1, Least
  <2>3. Min(hits) \in hits
    <3> HIDE DEF hits
    <3>1. QED
      BY <2>2 DEF Min
  <2>4. First(f) = f[Min(hits)]
    BY <1>2 DEF First
  <2>5. QED
    BY <2>3, <2>4
<1>3. QED
  BY <1>1, <1>2

-----------------------------------------------------------------------------
(* The scopes around a scope, for any definitions ds whose parents were    *)
(* allocated before them.                                                  *)
Family(ds) ==
  /\ Len(ds) \in Nat
  /\ \A d \in 1..Len(ds) : ds[d].parent = None \/ ds[d].parent \in 1..(d - 1)

Ups(ds, up) ==
  up = [s \in 1..Len(ds) |->
          {s} \union IF ds[s].parent = None THEN {} ELSE up[ds[s].parent]]

Up(ds) == CHOOSE up : Ups(ds, up)

LEMMA UpDefined ==
  ASSUME NEW ds, Family(ds)
  PROVE  Ups(ds, Up(ds))
<1> DEFINE D == 1..Len(ds)
           V == SUBSET Nat
           stop == {s \in D : ds[s].parent = None}
           base == [s \in D |-> {s}]
           next == [s \in D |-> ds[s].parent]
           step == [s \in D |-> [v \in V |-> {s} \union v]]
<1>1. Descending(D, V, stop, base, next, step)
  <2>1. base \in [D -> V]
    OBVIOUS
  <2>2. step \in [D -> [V -> V]]
    <3>1. \A s \in D, v \in V : {s} \union v \in V
      OBVIOUS
    <3> HIDE DEF D, V
    <3>2. QED
      BY <3>1
  <2>3. \A i \in D : i \notin stop => next[i] \in D /\ next[i] < i
    BY DEF Family
  <2> HIDE DEF D, V, stop, base, next, step
  <2>4. QED
    BY <2>1, <2>2, <2>3 DEF Descending
<1>2. Len(ds) \in Nat /\ D \subseteq 0..Len(ds)
  BY DEF Family
<1>3. PICK g \in [D -> V] : Descends(g, D, stop, base, next, step)
  <2> HIDE DEF D, V, stop, base, next, step
  <2>1. QED
    BY <1>1, <1>2, Descent
<1>4. Ups(ds, g)
  <2>1. \A s \in D : g[s] = {s} \union IF ds[s].parent = None THEN {} ELSE g[ds[s].parent]
    <3>1. TAKE s \in D
    <3>2. s \notin stop => next[s] \in D
      BY <3>1 DEF Family
    <3>3. g[s] = IF s \in stop THEN base[s] ELSE step[s][g[next[s]]]
      <4> HIDE DEF D, V, stop, base, next, step
      <4>1. QED
        BY <1>3, <3>1 DEF Descends
    <3>4. CASE s \in stop
      BY <3>1, <3>3, <3>4
    <3>5. CASE s \notin stop
      <4>1. g[next[s]] \in V
        BY <1>3, <3>2, <3>5
      <4>2. g[s] = {s} \union g[next[s]]
        BY <3>1, <3>3, <3>5, <4>1
      <4>3. QED
        BY <3>1, <3>5, <4>2
    <3>6. QED
      BY <3>4, <3>5
  <2>2. QED
    BY <1>3, <2>1 DEF Ups
<1>5. QED
  BY <1>4 DEF Up

LEMMA UpIs ==
  ASSUME NEW ds, Family(ds), NEW s \in 1..Len(ds)
  PROVE  Up(ds)[s] = {s} \union IF ds[s].parent = None THEN {} ELSE Up(ds)[ds[s].parent]
BY UpDefined DEF Ups

(* A scope is the last of the scopes around it.                            *)
LEMMA UpWithin ==
  ASSUME NEW ds, Family(ds)
  PROVE  \A s \in 1..Len(ds) : s \in Up(ds)[s] /\ Up(ds)[s] \subseteq 1..s
<1> DEFINE T == {s \in 1..Len(ds) : ~(Up(ds)[s] \subseteq 1..s)}
<1>1. ASSUME T # {} PROVE FALSE
  <2>1. PICK m \in T : \A k \in T : m <= k
    <3>1. T \subseteq Nat
      OBVIOUS
    <3> HIDE DEF T
    <3>2. QED
      BY <1>1, <3>1, Least
  <2>2. m \in 1..Len(ds) /\ m \in Nat /\ Len(ds) \in Nat
    BY DEF Family
  <2>3. ASSUME ds[m].parent # None
        PROVE  Up(ds)[ds[m].parent] \subseteq 1..m
    <3>1. ds[m].parent \in 1..(m - 1)
      BY <2>2, <2>3 DEF Family
    <3>2. ds[m].parent \in 1..Len(ds) /\ ~(m <= ds[m].parent)
      BY <2>2, <3>1
    <3>3. Up(ds)[ds[m].parent] \subseteq 1..ds[m].parent
      BY <2>1, <3>2
    <3>4. 1..ds[m].parent \subseteq 1..m
      BY <2>2, <3>1
    <3>5. QED
      BY <3>3, <3>4
  <2>4. Up(ds)[m] \subseteq 1..m
    BY <2>2, <2>3, UpIs
  <2>5. QED
    BY <2>4
<1>2. QED
  BY <1>1, UpIs

(* Definitions that are allocated later change nothing about them.         *)
Extends(ds, es) ==
  /\ Len(ds) <= Len(es)
  /\ \A d \in 1..Len(ds) : es[d] = ds[d]

LEMMA UpKept ==
  ASSUME NEW ds, NEW es, Family(ds), Family(es), Extends(ds, es)
  PROVE  \A s \in 1..Len(ds) : Up(es)[s] = Up(ds)[s]
<1> DEFINE T == {s \in 1..Len(ds) : Up(es)[s] # Up(ds)[s]}
<1>1. ASSUME T # {} PROVE FALSE
  <2>1. PICK m \in T : \A k \in T : m <= k
    <3>1. T \subseteq Nat
      OBVIOUS
    <3> HIDE DEF T
    <3>2. QED
      BY <1>1, <3>1, Least
  <2>2. m \in 1..Len(ds) /\ m \in Nat /\ Len(ds) \in Nat /\ Len(es) \in Nat
    BY DEF Family
  <2>3. m \in 1..Len(es) /\ es[m].parent = ds[m].parent
    BY <2>2 DEF Extends
  <2>4. ASSUME ds[m].parent # None
        PROVE  Up(es)[ds[m].parent] = Up(ds)[ds[m].parent]
    <3>1. ds[m].parent \in 1..(m - 1)
      BY <2>2, <2>4 DEF Family
    <3>2. ds[m].parent \in 1..Len(ds) /\ ~(m <= ds[m].parent)
      BY <2>2, <3>1
    <3>3. QED
      BY <2>1, <3>2
  <2>5. Up(es)[m] = Up(ds)[m]
    <3>1. Up(ds)[m] = {m} \union IF ds[m].parent = None THEN {} ELSE Up(ds)[ds[m].parent]
      BY <2>2, UpIs
    <3>2. Up(es)[m] = {m} \union IF es[m].parent = None THEN {} ELSE Up(es)[es[m].parent]
      BY <2>3, UpIs
    <3>3. QED
      BY <2>3, <2>4, <3>1, <3>2
  <2>6. QED
    BY <2>5
<1>2. QED
  BY <1>1

-----------------------------------------------------------------------------
(* What the maps hold.                                                     *)
Maps(k) == [Slots -> [Names -> 0..k]]

Plain == {d \in 0..Len(defs) : Kind(d) \notin Tagged}

(* What a definition is.                                                   *)
Entities == [kind : Kinds, name : Names \union {"", "int"}, parent : 0..MaxDefs,
             of : 0..MaxDefs, typename : BOOLEAN]

LEMMA Bounds ==
  ASSUME TypeOK
  PROVE  /\ MaxDefs \in Nat /\ Len(defs) \in Nat /\ Len(defs) \in 2..MaxDefs
         /\ Defs \subseteq Slots /\ Global \in Defs
         /\ New \in Nat /\ New >= 3
<1>1. MaxDefs \in Nat /\ Len(defs) \in 2..MaxDefs
  BY ConstantsAssumption DEF TypeOK
<1>2. QED
  BY <1>1 DEF Defs, Slots, New, Global

LEMMA MapsTyped ==
  ASSUME TypeOK
  PROVE  /\ members \in Maps(Len(defs))
         /\ c_structs \in Maps(Len(defs))
         /\ using_general \in Maps(Len(defs))
BY DEF TypeOK, Maps

LEMMA Entries ==
  ASSUME TypeOK, NEW s \in Slots, NEW n \in Names
  PROVE  /\ members[s][n] \in 0..Len(defs)
         /\ c_structs[s][n] \in 0..Len(defs)
         /\ using_general[s][n] \in 0..Len(defs)
BY MapsTyped DEF Maps

LEMMA KindOf ==
  ASSUME TypeOK
  PROVE  /\ Kind(None) = "none" /\ None \in Plain
         /\ \A d \in Defs : Kind(d) = defs[d].kind /\ Kind(d) \in Kinds /\ d # None
         /\ \A d \in 0..Len(defs) : d # None => d \in Defs
<1>1. Kind(None) = "none"
  BY DEF Kind
<1>2. None \in Plain
  <2>1. None \in 0..Len(defs)
    BY Bounds DEF None
  <2>2. "none" \notin Tagged
    BY DEF Tagged, Classes
  <2>3. QED
    BY <1>1, <2>1, <2>2 DEF Plain
<1>3. ASSUME NEW d \in Defs PROVE Kind(d) = defs[d].kind /\ Kind(d) \in Kinds /\ d # None
  <2>1. d # None
    BY Bounds DEF Defs, None
  <2>2. defs[d].kind \in Kinds
    <3>1. defs \in Seq(Entities) /\ d \in 1..Len(defs)
      BY DEF TypeOK, Defs, Entities
    <3>2. defs[d] \in Entities
      BY <3>1
    <3>3. QED
      BY <3>2 DEF Entities
  <2>3. QED
    BY <2>1, <2>2 DEF Kind
<1>4. \A d \in 0..Len(defs) : d # None => d \in Defs
  BY Bounds DEF Defs, None
<1>5. QED
  BY <1>1, <1>2, <1>3, <1>4

LEMMA Parents ==
  ASSUME TypeOK, Rooted
  PROVE  Family(defs)
<1>1. defs[1].parent = None /\ defs[2].parent = None
  <2>1. Definition("namespace", "", None, None, FALSE).parent = None
        /\ Definition("builtin", "int", None, None, TRUE).parent = None
    BY DEF Definition
  <2>2. QED
    BY <2>1 DEF Rooted
<1>2. \A d \in 1..Len(defs) : d = 1 \/ d = 2 \/ d \in 3..Len(defs)
  BY Bounds
<1>3. \A d \in 3..Len(defs) : defs[d].parent \in 1..(d - 1)
  BY DEF TypeOK
<1>4. QED
  BY <1>1, <1>2, <1>3, Bounds DEF Family

LEMMA SearchedTyped ==
  ASSUME TypeOK, NEW s \in Slots
  PROVE  Searched(s) \in Seq(Defs)
<1>1. using_scopes[s] \in Seq(Defs) /\ ancestors[s] \in Seq(Defs)
  BY DEF TypeOK
<1>2. QED
  BY <1>1 DEF Searched

-----------------------------------------------------------------------------
(* find_local.                                                             *)

LEMMA OwnPlain ==
  ASSUME TypeOK, Owned, Tags, NEW s \in Slots, NEW n \in Names
  PROVE  Own(s, n) \in Plain
BY Entries DEF Own, Plain, Owned, Tags

(* One more round of the search, with what the last one found.             *)
Round(n, row) ==
  [s \in Slots |->
     IF Own(s, n) # None THEN Own(s, n)
     ELSE First([i \in DOMAIN Searched(s) |-> row[Searched(s)[i]]])]

Finds(n, find) ==
  find = [k \in 0..MaxDefs |->
            [s \in Slots |->
               IF k = 0 THEN None
               ELSE IF Own(s, n) # None THEN Own(s, n)
               ELSE First([i \in DOMAIN Searched(s) |-> find[k - 1][Searched(s)[i]]])]]

LEMMA RoundPlain ==
  ASSUME TypeOK, Owned, Tags, NEW n \in Names, NEW row \in [Slots -> Plain]
  PROVE  Round(n, row) \in [Slots -> Plain]
<1>1. ASSUME NEW s \in Slots
      PROVE  First([i \in DOMAIN Searched(s) |-> row[Searched(s)[i]]]) \in Plain
  <2> DEFINE f == [i \in DOMAIN Searched(s) |-> row[Searched(s)[i]]]
  <2>1. Len(Searched(s)) \in Nat /\ DOMAIN Searched(s) = 1..Len(Searched(s))
    BY SearchedTyped
  <2>2. \A i \in DOMAIN f : f[i] \in Plain
    <3>1. \A i \in DOMAIN Searched(s) : Searched(s)[i] \in Slots
      BY <2>1, SearchedTyped, Bounds
    <3>2. QED
      BY <3>1
  <2>3. DOMAIN f \subseteq 1..Len(Searched(s))
    BY <2>1
  <2> HIDE DEF f
  <2>4. First(f) \in Plain
    BY <2>1, <2>2, <2>3, FirstIs, KindOf
  <2>5. QED
    BY <2>4 DEF f
<1>2. \A s \in Slots : Own(s, n) \in Plain
  BY OwnPlain
<1>3. QED
  BY <1>1, <1>2 DEF Round

LEMMA FindExists ==
  ASSUME TypeOK, Owned, Tags, NEW n \in Names
  PROVE  \E find : Finds(n, find)
<1> DEFINE D == 0..MaxDefs
           V == [Slots -> Plain]
           stop == {0}
           base == [k \in D |-> [s \in Slots |-> None]]
           next == [k \in D |-> k - 1]
           step == [k \in D |-> [row \in V |-> Round(n, row)]]
<1>1. Descending(D, V, stop, base, next, step)
  <2>1. base \in [D -> V]
    <3>1. [s \in Slots |-> None] \in V
      BY KindOf
    <3> HIDE DEF D, V
    <3>2. QED
      BY <3>1
  <2>2. step \in [D -> [V -> V]]
    <3>1. \A row \in V : Round(n, row) \in V
      BY RoundPlain
    <3> HIDE DEF D, V
    <3>2. QED
      BY <3>1
  <2>3. \A k \in D : k \notin stop => next[k] \in D /\ next[k] < k
    BY Bounds
  <2> HIDE DEF D, V, stop, base, next, step
  <2>4. QED
    BY <2>1, <2>2, <2>3 DEF Descending
<1>2. MaxDefs \in Nat /\ D \subseteq 0..MaxDefs
  BY Bounds
<1>3. PICK g \in [D -> V] : Descends(g, D, stop, base, next, step)
  <2> HIDE DEF D, V, stop, base, next, step
  <2>1. QED
    BY <1>1, <1>2, Descent
<1>4. \A k \in D : g[k] = [s \in Slots |->
                        IF k = 0 THEN None
                        ELSE IF Own(s, n) # None THEN Own(s, n)
                        ELSE First([i \in DOMAIN Searched(s) |-> g[k - 1][Searched(s)[i]]])]
  <2>1. TAKE k \in D
  <2>2. g[k] = IF k \in stop THEN base[k] ELSE step[k][g[next[k]]]
    <3> HIDE DEF D, V, stop, base, next, step
    <3>1. QED
      BY <1>3, <2>1 DEF Descends
  <2>3. CASE k = 0
    BY <2>2, <2>3
  <2>4. CASE k # 0
    <3>1. k - 1 \in D
      BY <1>2, <2>4
    <3>2. g[k - 1] \in V
      BY <1>3, <3>1
    <3>3. g[k] = Round(n, g[k - 1])
      BY <2>2, <2>4, <3>1, <3>2
    <3>4. QED
      BY <2>4, <3>3 DEF Round
  <2>5. QED
    BY <2>3, <2>4
<1>5. Finds(n, g)
  BY <1>3, <1>4 DEF Finds
<1>6. QED
  BY <1>5

(* find_local never finds a class, union or enumeration.                   *)
LEMMA FoundPlain ==
  ASSUME TypeOK, Owned, Tags, NEW scope \in Slots, NEW n \in Names
  PROVE  find_local(scope, n) \in Plain
<1> DEFINE find == CHOOSE find : Finds(n, find)
<1>1. Finds(n, find)
  BY FindExists
<1>2. find_local(scope, n) = find[MaxDefs][scope]
  BY DEF find_local, Finds
<1> HIDE DEF find
<1> DEFINE T == {k \in Nat : k <= MaxDefs => find[k] \in [Slots -> Plain]}
<1>3. find[0] = [s \in Slots |-> None]
  BY <1>1, Bounds DEF Finds
<1>4. 0 \in T
  BY <1>3, KindOf, Bounds
<1>5. ASSUME NEW k \in Nat, k \in T
      PROVE  k + 1 \in T
  <2>1. SUFFICES ASSUME k + 1 <= MaxDefs PROVE find[k + 1] \in [Slots -> Plain]
    BY Bounds
  <2>2. find[k] \in [Slots -> Plain]
    BY <1>5, <2>1, Bounds
  <2>3. k + 1 \in 0..MaxDefs /\ k + 1 # 0 /\ (k + 1) - 1 = k
    BY <2>1, Bounds
  <2>4. find[k + 1] = Round(n, find[k])
    BY <1>1, <2>3 DEF Finds, Round
  <2>5. QED
    BY <2>2, <2>4, RoundPlain
<1>6. MaxDefs \in T
  <2> HIDE DEF T
  <2>1. QED
    BY <1>4, <1>5, Bounds, Induction
<1>7. QED
  BY <1>2, <1>6, Bounds

-----------------------------------------------------------------------------
(* look_up.                                                                *)

LEMMA FindInPlain ==
  ASSUME TypeOK, Owned, Tags, NEW s \in Slots, NEW n \in Names
  PROVE  FindIn(Searched(s), n) \in Plain
<1> DEFINE f == [i \in DOMAIN Searched(s) |-> find_local(Searched(s)[i], n)]
<1>1. Len(Searched(s)) \in Nat /\ DOMAIN Searched(s) = 1..Len(Searched(s))
  BY SearchedTyped
<1>2. \A i \in DOMAIN f : f[i] \in Plain
  <2>1. \A i \in DOMAIN Searched(s) : Searched(s)[i] \in Slots
    BY <1>1, SearchedTyped, Bounds
  <2>2. QED
    BY <2>1, FoundPlain
<1>3. DOMAIN f \subseteq 1..Len(Searched(s))
  BY <1>1
<1> HIDE DEF f
<1>4. First(f) \in Plain
  BY <1>1, <1>2, <1>3, FirstIs, KindOf
<1>5. QED
  BY <1>4 DEF f, FindIn

(* A scope offers a class, union or enumeration of its own at most.        *)
LEMMA HereTyped ==
  ASSUME TypeOK, Owned, Tags, NEW s \in Slots, NEW n \in Names
  PROVE  /\ Here(s, n) \in 0..Len(defs)
         /\ Kind(Here(s, n)) \in Tagged => Here(s, n) = c_structs[s][n]
<1>1. Own(s, n) \in 0..Len(defs) /\ Kind(Own(s, n)) \notin Tagged
  BY OwnPlain DEF Plain
<1>2. FindIn(Searched(s), n) \in 0..Len(defs) /\ Kind(FindIn(Searched(s), n)) \notin Tagged
  BY FindInPlain DEF Plain
<1>3. Structs(s, n) # None => Structs(s, n) = c_structs[s][n]
  BY DEF Structs
<1>4. c_structs[s][n] \in 0..Len(defs)
  BY Entries
<1>5. QED
  BY <1>1, <1>2, <1>3, <1>4 DEF Here

Looks(n, look) ==
  look = [s \in Defs |->
            IF Here(s, n) # None \/ defs[s].parent = None THEN Here(s, n)
            ELSE look[defs[s].parent]]

LEMMA LookExists ==
  ASSUME TypeOK, Rooted, Owned, Tags, NEW n \in Names
  PROVE  \E look : Looks(n, look)
<1> DEFINE V == 0..Len(defs)
           stop == {s \in Defs : Here(s, n) # None \/ defs[s].parent = None}
           base == [s \in Defs |-> Here(s, n)]
           next == [s \in Defs |-> defs[s].parent]
           step == [s \in Defs |-> [v \in V |-> v]]
<1>1. Descending(Defs, V, stop, base, next, step)
  <2>1. base \in [Defs -> V]
    BY HereTyped, Bounds
  <2>2. step \in [Defs -> [V -> V]]
    <3>1. [v \in V |-> v] \in [V -> V]
      OBVIOUS
    <3> HIDE DEF V
    <3>2. QED
      BY <3>1
  <2>3. \A s \in Defs : s \notin stop => next[s] \in Defs /\ next[s] < s
    <3>1. \A s \in Defs : defs[s].parent = None \/ defs[s].parent \in 1..(s - 1)
      BY Parents DEF Family, Defs
    <3>2. QED
      BY <3>1, Bounds DEF Defs
  <2> HIDE DEF V, stop, base, next, step
  <2>4. QED
    BY <2>1, <2>2, <2>3 DEF Descending
<1>2. Len(defs) \in Nat /\ Defs \subseteq 0..Len(defs)
  BY Bounds DEF Defs
<1>3. PICK g \in [Defs -> V] : Descends(g, Defs, stop, base, next, step)
  <2> HIDE DEF V, stop, base, next, step
  <2>1. QED
    BY <1>1, <1>2, Descent
<1>4. \A s \in Defs : g[s] = IF Here(s, n) # None \/ defs[s].parent = None THEN Here(s, n)
                             ELSE g[defs[s].parent]
  <2>1. TAKE s \in Defs
  <2>2. g[s] = IF s \in stop THEN base[s] ELSE step[s][g[next[s]]]
    <3> HIDE DEF V, stop, base, next, step
    <3>1. QED
      BY <1>3, <2>1 DEF Descends
  <2>3. CASE s \in stop
    BY <2>2, <2>3
  <2>4. CASE s \notin stop
    <3>1. defs[s].parent \in Defs
      BY <1>1, <2>4 DEF Descending
    <3>2. g[defs[s].parent] \in V
      BY <1>3, <3>1
    <3>3. QED
      BY <2>2, <2>4, <3>2
  <2>5. QED
    BY <2>3, <2>4
<1>5. Looks(n, g)
  BY <1>3, <1>4 DEF Looks
<1>6. QED
  BY <1>5

(* The equation of the C++ function.                                       *)
LEMMA LookUp ==
  ASSUME TypeOK, Rooted, Owned, Tags, NEW s \in Defs, NEW n \in Names
  PROVE  look_up(s, n) = IF Here(s, n) # None \/ defs[s].parent = None THEN Here(s, n)
                         ELSE look_up(defs[s].parent, n)
<1> DEFINE look == CHOOSE look : Looks(n, look)
<1>1. Looks(n, look)
  BY LookExists
<1>2. \A t : look_up(t, n) = look[t]
  BY DEF look_up, Looks
<1> HIDE DEF look
<1>3. look[s] = IF Here(s, n) # None \/ defs[s].parent = None THEN Here(s, n)
                ELSE look[defs[s].parent]
  BY <1>1 DEF Looks
<1>4. QED
  BY <1>2, <1>3

LEMMA EnclosingIs ==
  ASSUME NEW s
  PROVE  Enclosing(s) = Up(defs)[s]
BY DEF Enclosing, Up, Ups, Defs

LEMMA EnclosingWithin ==
  ASSUME TypeOK, Rooted, NEW s \in Defs
  PROVE  s \in Enclosing(s) /\ Enclosing(s) \subseteq 1..s /\ Enclosing(s) \subseteq Defs
<1>1. s \in Enclosing(s) /\ Enclosing(s) \subseteq 1..s
  BY EnclosingIs, UpWithin, Parents DEF Defs
<1>2. 1..s \subseteq Defs
  BY Bounds DEF Defs
<1>3. QED
  BY <1>1, <1>2

(* A class, union or enumeration that is looked up is in c_structs of a    *)
(* scope around.                                                           *)
LEMMA LookUpTyped ==
  ASSUME TypeOK, Rooted, Owned, Tags, NEW n \in Names
  PROVE  \A s \in Defs :
           /\ look_up(s, n) \in 0..Len(defs)
           /\ Kind(look_up(s, n)) \in Tagged =>
                \E f \in Enclosing(s) : look_up(s, n) = c_structs[f][n]
<1> DEFINE P(s) == /\ look_up(s, n) \in 0..Len(defs)
                   /\ Kind(look_up(s, n)) \in Tagged =>
                        \E f \in Enclosing(s) : look_up(s, n) = c_structs[f][n]
           T == {s \in Defs : ~P(s)}
<1>1. ASSUME T # {} PROVE FALSE
  <2>1. PICK m \in T : \A k \in T : m <= k
    <3>1. T \subseteq Nat
      BY Bounds DEF Defs
    <3> HIDE DEF T
    <3>2. QED
      BY <1>1, <3>1, Least
  <2>2. m \in Defs /\ m \in Nat
    BY Bounds DEF Defs
  <2>3. look_up(m, n) = IF Here(m, n) # None \/ defs[m].parent = None THEN Here(m, n)
                        ELSE look_up(defs[m].parent, n)
    BY <2>2, LookUp
  <2>4. CASE Here(m, n) # None \/ defs[m].parent = None
    <3>1. look_up(m, n) = Here(m, n)
      BY <2>3, <2>4
    <3>2. m \in Slots /\ m \in Enclosing(m)
      BY <2>2, Bounds, EnclosingWithin
    <3>3. P(m)
      BY <3>1, <3>2, HereTyped
    <3>4. QED
      BY <3>3
  <2>5. CASE ~(Here(m, n) # None \/ defs[m].parent = None)
    <3> DEFINE p == defs[m].parent
    <3>1. p \in 1..(m - 1)
      BY <2>2, <2>5, Parents DEF Family, Defs
    <3>2. p \in Defs /\ ~(m <= p)
      BY <2>2, <3>1, Bounds DEF Defs
    <3>3. P(p)
      <4> HIDE DEF P, p
      <4>1. QED
        BY <2>1, <3>2
    <3>4. look_up(m, n) = look_up(p, n)
      BY <2>3, <2>5
    <3>5. Enclosing(p) \subseteq Enclosing(m)
      <4>1. Up(defs)[m] = {m} \union IF p = None THEN {} ELSE Up(defs)[p]
        BY <2>2, Parents, UpIs DEF Defs
      <4>2. p # None
        BY <2>5
      <4>3. QED
        BY <4>1, <4>2, EnclosingIs
    <3> HIDE DEF p
    <3>6. P(m)
      BY <3>3, <3>4, <3>5
    <3>7. QED
      BY <3>6
  <2>6. QED
    BY <2>4, <2>5
<1>2. QED
  BY <1>1

(* What is not found anywhere is not here either.                          *)
LEMMA LookUpNone ==
  ASSUME TypeOK, Rooted, Owned, Tags, NEW s \in Defs, NEW n \in Names, look_up(s, n) = None
  PROVE  members[s][n] = None
<1>1. Here(s, n) = None
  BY LookUp
<1>2. Own(s, n) = None
  BY <1>1 DEF Here
<1>3. QED
  BY <1>2 DEF Own

-----------------------------------------------------------------------------
(* Typedefs, qualified names and tags.                                     *)

Ends(end) ==
  end = [e \in 0..Len(defs) |->
           IF Kind(e) = "typed" /\ defs[e].typename THEN end[defs[e].of] ELSE e]

LEMMA ReducedTyped ==
  ASSUME TypeOK, Rooted, NEW d \in 0..Len(defs)
  PROVE  Reduced(d) \in 0..Len(defs)
<1> DEFINE D == 0..Len(defs)
           stop == {e \in D : ~(Kind(e) = "typed" /\ defs[e].typename)}
           base == [e \in D |-> e]
           next == [e \in D |-> defs[e].of]
           step == [e \in D |-> [v \in D |-> v]]
<1>1. \A e \in D : e \notin stop => defs[e].of \in D /\ defs[e].of < e
  <2>1. SUFFICES ASSUME NEW e \in D, Kind(e) = "typed"
                 PROVE  defs[e].of \in 0..(e - 1)
    BY Bounds
  <2>2. e # 0
    BY <2>1, KindOf DEF None
  <2>3. defs[e].kind = "typed"
    BY <2>1, <2>2 DEF Kind, None
  <2>4. defs[1].kind = "namespace" /\ defs[2].kind = "builtin"
    <3>1. Definition("namespace", "", None, None, FALSE).kind = "namespace"
          /\ Definition("builtin", "int", None, None, TRUE).kind = "builtin"
      BY DEF Definition
    <3>2. QED
      BY <3>1 DEF Rooted
  <2>5. e # 1 /\ e # 2
    BY <2>3, <2>4
  <2>6. e \in 3..Len(defs)
    BY <2>2, <2>5, Bounds
  <2>7. QED
    BY <2>6 DEF TypeOK
<1>2. Descending(D, D, stop, base, next, step)
  <2>1. base \in [D -> D] /\ [v \in D |-> v] \in [D -> D]
    OBVIOUS
  <2>2. step \in [D -> [D -> D]]
    <3> HIDE DEF D
    <3>1. QED
      BY <2>1
  <2>3. \A e \in D : e \notin stop => next[e] \in D /\ next[e] < e
    BY <1>1
  <2> HIDE DEF D, stop, base, next, step
  <2>4. QED
    BY <2>1, <2>2, <2>3 DEF Descending
<1>3. Len(defs) \in Nat /\ D \subseteq 0..Len(defs)
  BY Bounds
<1>4. PICK g \in [D -> D] : Descends(g, D, stop, base, next, step)
  <2> HIDE DEF D, stop, base, next, step
  <2>1. QED
    BY <1>2, <1>3, Descent
<1>5. Ends(g)
  <2>1. ASSUME NEW e \in D
        PROVE  g[e] = IF Kind(e) = "typed" /\ defs[e].typename THEN g[defs[e].of] ELSE e
    <3>1. g[e] = IF e \in stop THEN base[e] ELSE step[e][g[next[e]]]
      <4> HIDE DEF D, stop, base, next, step
      <4>1. QED
        BY <1>4, <2>1 DEF Descends
    <3>2. CASE e \in stop
      BY <3>1, <3>2
    <3>3. CASE e \notin stop
      <4>1. g[defs[e].of] \in D
        BY <1>1, <1>4, <3>3
      <4>2. QED
        BY <3>1, <3>3, <4>1
    <3>4. QED
      BY <3>2, <3>3
  <2>2. QED
    BY <1>4, <2>1 DEF Ends
<1> DEFINE end == CHOOSE end : Ends(end)
<1>6. Ends(end)
  BY <1>5
<1>7. Reduced(d) = end[d]
  BY DEF Reduced, Ends
<1> HIDE DEF end
<1>8. \A e \in D : end[e] = IF Kind(e) = "typed" /\ defs[e].typename THEN end[defs[e].of] ELSE e
  BY <1>6 DEF Ends
<1> DEFINE T == {e \in D : end[e] \notin D}
<1>9. ASSUME T # {} PROVE FALSE
  <2>1. PICK m \in T : \A k \in T : m <= k
    <3>1. T \subseteq Nat
      BY Bounds
    <3> HIDE DEF T
    <3>2. QED
      BY <1>9, <3>1, Least
  <2>2. CASE m \in stop
    BY <1>8, <2>2
  <2>3. CASE m \notin stop
    <3>1. defs[m].of \in D /\ ~(m <= defs[m].of)
      BY <1>1, <2>3, Bounds
    <3>2. end[defs[m].of] \in D
      BY <2>1, <3>1
    <3>3. QED
      BY <1>8, <2>3, <3>2
  <2>4. QED
    BY <2>2, <2>3
<1>10. QED
  BY <1>7, <1>9

LEMMA QualifiedPlain ==
  ASSUME TypeOK, Rooted, Owned, Tags, NEW s \in Defs, NEW n \in Names, NEW m \in Names
  PROVE  Qualified(s, n, m) \in Plain
<1> DEFINE q == Reduced(look_up(s, n))
<1>1. q \in 0..Len(defs)
  BY LookUpTyped, ReducedTyped
<1>2. CASE Kind(q) \in ScopeKinds
  <2>1. q # None
    BY <1>2, KindOf DEF ScopeKinds, Tagged, Classes
  <2>2. q \in Slots
    BY <1>1, <2>1, KindOf, Bounds
  <2>3. find_local(q, m) \in Plain
    <3> HIDE DEF q
    <3>1. QED
      BY <2>2, FoundPlain
  <2>4. QED
    BY <1>2, <2>3 DEF Qualified
<1>3. CASE Kind(q) \notin ScopeKinds
  BY <1>3, KindOf DEF Qualified
<1>4. QED
  BY <1>2, <1>3

Holders(s, n) == {e \in Enclosing(s) : c_structs[e][n] # None}

LEMMA Nearest ==
  ASSUME TypeOK, Rooted, NEW s \in Defs, NEW n \in Names, Holders(s, n) # {}
  PROVE  /\ Max(Holders(s, n)) \in Holders(s, n)
         /\ \A e \in Holders(s, n) : e <= Max(Holders(s, n))
<1>1. Holders(s, n) \subseteq 0..s /\ s \in Nat
  BY EnclosingWithin, Bounds DEF Holders, Defs
<1>2. QED
  BY <1>1, MaxIs

LEMMA NearestHere ==
  ASSUME TypeOK, Rooted, NEW s \in Defs, NEW n \in Names, c_structs[s][n] # None
  PROVE  Holders(s, n) # {} /\ Max(Holders(s, n)) = s
<1>1. s \in Holders(s, n)
  BY EnclosingWithin DEF Holders
<1>2. Max(Holders(s, n)) \in 1..s /\ s <= Max(Holders(s, n))
  BY <1>1, Nearest, EnclosingWithin DEF Holders
<1>3. s \in Nat
  BY Bounds DEF Defs
<1>4. QED
  BY <1>1, <1>2, <1>3

(* The outer class that a tag of another kind hides from the search for    *)
(* the nearest tag.                                                        *)
Hidden(ds, cs, class, around) ==
  \E e \in Up(ds)[around] \ Up(ds)[ds[class].parent] :
    /\ cs[e][ds[class].name] # None
    /\ ds[cs[e][ds[class].name]].kind \in Tagged \ {ds[class].kind}

LEMMA Located ==
  ASSUME TypeOK, Rooted, Owned, Tags, NEW s \in Defs, NEW kind \in Tagged, NEW n \in Names
  PROVE  LET loc == get_location(s, kind, n)
         IN /\ loc.class \in 0..Len(defs)
            /\ ~loc.error /\ (loc.class = None \/ loc.redeclare) => c_structs[s][n] = None
            /\ ~loc.error /\ loc.class # None /\ ~loc.redeclare =>
                 /\ defs[loc.class].parent \in Defs
                 /\ defs[loc.class].parent = s \/ Hidden(defs, c_structs, loc.class, s)
<1> DEFINE found == look_up(s, n)
           named == IF Kind(found) = kind THEN found ELSE None
           holders == Holders(s, n)
           nearest == Max(holders)
           same == holders # {} /\ Kind(c_structs[nearest][n]) = kind
           loc == get_location(s, kind, n)
<1>1. loc = [class |-> IF same THEN c_structs[nearest][n] ELSE named,
             redeclare |-> same /\ nearest # s,
             error |-> holders # {} /\ ~same /\ nearest = s]
  BY DEF get_location, Holders
<1>2. /\ loc.class = IF same THEN c_structs[nearest][n] ELSE named
      /\ loc.redeclare = (same /\ nearest # s)
      /\ loc.error = (holders # {} /\ ~same /\ nearest = s)
  <2> HIDE DEF same, nearest, named, loc
  <2>1. QED
    BY <1>1
<1>3. holders # {} => nearest \in holders /\ \A e \in holders : e <= nearest
  BY Nearest
<1>4. c_structs[s][n] # None => holders # {} /\ nearest = s
  BY NearestHere
<1>5. \A e \in holders : e \in Enclosing(s) /\ e \in Defs /\ e \in Slots /\ c_structs[e][n] # None
  BY EnclosingWithin, Bounds DEF Holders
<1>6. \A e \in holders : /\ c_structs[e][n] \in 0..Len(defs)
                         /\ Kind(c_structs[e][n]) \in Tagged
                         /\ defs[c_structs[e][n]].parent = e
                         /\ defs[c_structs[e][n]].name = n
  <2>1. TAKE e \in holders
  <2>2. e \in Slots /\ c_structs[e][n] # None
    BY <1>5, <2>1
  <2>3. QED
    BY <2>2, Entries DEF Owned, Tags
<1>7. named \in 0..Len(defs)
  BY LookUpTyped, KindOf DEF Plain
<1>8. loc.class \in 0..Len(defs)
  <2> HIDE DEF holders, named, loc
  <2>1. same => nearest \in holders
    BY <1>3
  <2>2. QED
    BY <1>2, <1>6, <1>7, <2>1
<1>9. ASSUME ~loc.error, loc.class = None \/ loc.redeclare
      PROVE  c_structs[s][n] = None
  <2>1. SUFFICES ASSUME c_structs[s][n] # None PROVE FALSE
    OBVIOUS
  <2>2. holders # {} /\ nearest = s
    BY <1>4, <2>1
  <2>3. same
    <3> HIDE DEF holders, nearest, same, loc
    <3>1. QED
      BY <1>2, <1>9, <2>2
  <2>4. loc.class = c_structs[s][n]
    <3> HIDE DEF same, loc, nearest
    <3>1. QED
      BY <1>2, <2>2, <2>3
  <2>5. loc.redeclare
    <3> HIDE DEF loc
    <3>1. QED
      BY <1>9, <2>1, <2>4
  <2>6. QED
    <3> HIDE DEF loc, same, nearest
    <3>1. QED
      BY <1>2, <2>2, <2>5
<1>10. ASSUME ~loc.error, loc.class # None, ~loc.redeclare
       PROVE  /\ defs[loc.class].parent \in Defs
              /\ defs[loc.class].parent = s \/ Hidden(defs, c_structs, loc.class, s)
  <2>1. CASE same
    <3>1. nearest = s /\ nearest \in holders
      <4> HIDE DEF loc, nearest, holders
      <4>1. QED
        BY <1>2, <1>3, <1>10, <2>1
    <3>2. loc.class = c_structs[s][n]
      <4> HIDE DEF loc, nearest, same
      <4>1. QED
        BY <1>2, <2>1, <3>1
    <3>3. defs[loc.class].parent = s
      <4> HIDE DEF loc, nearest, holders
      <4>1. QED
        BY <1>6, <3>1, <3>2
    <3>4. QED
      BY <3>3
  <2>2. CASE ~same
    <3>1. loc.class = found /\ Kind(found) = kind
      <4>1. loc.class = named
        <5> HIDE DEF loc, same, named
        <5>1. QED
          BY <1>2, <2>2
      <4>2. QED
        BY <1>10, <4>1
    <3>2. PICK f \in Enclosing(s) : found = c_structs[f][n]
      BY <3>1, LookUpTyped
    <3>3. f \in holders
      BY <1>10, <3>1, <3>2 DEF Holders
    <3>4. /\ nearest \in holders /\ f <= nearest
          /\ Kind(c_structs[nearest][n]) # kind
      BY <1>3, <2>2, <3>3
    <3>5. /\ f \in Defs /\ defs[found].parent = f /\ defs[found].name = n
          /\ nearest \in Defs /\ nearest \in Enclosing(s)
          /\ Kind(c_structs[nearest][n]) \in Tagged /\ c_structs[nearest][n] # None
      <4> HIDE DEF holders, nearest, found
      <4>1. QED
        BY <1>5, <1>6, <3>2, <3>3, <3>4
    <3>6. nearest \notin Enclosing(f)
      <4>1. nearest # f
        <5> HIDE DEF nearest
        <5>1. QED
          BY <3>1, <3>2, <3>4
      <4>2. f \in Nat /\ nearest \in Nat /\ Enclosing(f) \subseteq 1..f
        BY <3>5, EnclosingWithin, Bounds DEF Defs
      <4> HIDE DEF nearest
      <4>3. QED
        BY <3>4, <4>1, <4>2
    <3>7. /\ Kind(c_structs[nearest][n]) = defs[c_structs[nearest][n]].kind
          /\ Kind(found) = defs[found].kind
      <4>1. found # None
        BY <1>10, <3>1
      <4>2. QED
        BY <3>5, <4>1 DEF Kind
    <3>8. Hidden(defs, c_structs, found, s)
      <4> HIDE DEF nearest, found, holders
      <4>1. QED
        BY <3>1, <3>4, <3>5, <3>6, <3>7, EnclosingIs DEF Hidden
    <3>9. QED
      <4> HIDE DEF found, loc
      <4>1. QED
        BY <3>1, <3>5, <3>8
  <2>3. QED
    BY <2>1, <2>2
<1>11. QED
  BY <1>8, <1>9, <1>10

-----------------------------------------------------------------------------
(* The invariant, said of any values of the variables, so that a lemma can *)
(* speak of the values after a step.                                       *)

KindIn(ds, d) == IF d = None THEN "none" ELSE ds[d].kind

RootedIn(ds) ==
  /\ ds[1] = Definition("namespace", "", None, None, FALSE)
  /\ ds[2] = Definition("builtin", "int", None, None, TRUE)
  /\ \A d \in 3..Len(ds) : ds[d].name \in Names

Entered(ds, ms, cs) ==
  \A d \in 3..Len(ds) :
    (IF ds[d].kind \in Tagged THEN cs ELSE ms)[ds[d].parent][ds[d].name] = d

Held(ds, ms, cs) ==
  \A s \in Slots, n \in Names :
    \A d \in {ms[s][n], cs[s][n]} \ {None} : ds[d].parent = s /\ ds[d].name = n

Sorted(ds, ms, cs, us) ==
  \A s \in Slots, n \in Names :
    /\ KindIn(ds, ms[s][n]) \notin Tagged
    /\ KindIn(ds, us[s][n]) \notin Tagged
    /\ cs[s][n] # None => KindIn(ds, cs[s][n]) \in Tagged

DefsTyped(ds) ==
  /\ ds \in Seq(Entities) /\ Len(ds) \in 2..MaxDefs
  /\ \A d \in 3..Len(ds) : ds[d].parent \in 1..(d - 1) /\ ds[d].of \in 0..(d - 1)

StoreIn(ds, ms, cs, us) ==
  /\ DefsTyped(ds)
  /\ ms \in Maps(Len(ds)) /\ cs \in Maps(Len(ds)) /\ us \in Maps(Len(ds))
  /\ RootedIn(ds) /\ Entered(ds, ms, cs) /\ Held(ds, ms, cs) /\ Sorted(ds, ms, cs, us)

Links(k, l) == l \in [Slots -> Seq(1..k)] /\ \A s \in Slots : Len(l[s]) <= MaxUses

Past(ds, cs, class, around) ==
  ds[class].parent = around \/ Hidden(ds, cs, class, around)

FramesIn(ds, cs, op) ==
  /\ op \in Seq([scope : 1..Len(ds), by : Frames]) /\ Len(op) \in 1..MaxOpen
  /\ op[1] = [scope |-> Global, by |-> "file"]
  /\ \A i \in 2..Len(op) :
       /\ op[i].by # "file"
       /\ op[i].by \in Classes => /\ op[i].scope >= 3
                                  /\ Past(ds, cs, op[i].scope, op[i - 1].scope)

Parts ==
  /\ StoreIn(defs, members, c_structs, using_general)
  /\ Links(Len(defs), using_scopes) /\ Links(Len(defs), ancestors)
  /\ FramesIn(defs, c_structs, open) /\ type \in 0..Len(defs)

LEMMA InvIs == ScopesInv <=> Parts
<1>1. Rooted <=> RootedIn(defs)
  BY DEF Rooted, RootedIn
<1>2. Owned /\ Tags <=> /\ Entered(defs, members, c_structs) /\ Held(defs, members, c_structs)
                        /\ Sorted(defs, members, c_structs, using_general)
  BY DEF Owned, Tags, Entered, Held, Sorted, Kind, KindIn
<1>3. TypeOK <=> /\ DefsTyped(defs)
                 /\ members \in Maps(Len(defs)) /\ c_structs \in Maps(Len(defs))
                 /\ using_general \in Maps(Len(defs))
                 /\ Links(Len(defs), using_scopes) /\ Links(Len(defs), ancestors)
                 /\ open \in Seq([scope : 1..Len(defs), by : Frames]) /\ Len(open) \in 1..MaxOpen
                 /\ type \in 0..Len(defs)
  BY DEF TypeOK, DefsTyped, Maps, Links, Entities, Defs
<1>4. ReopenedPastTag <=>
        \A i \in 2..Len(open) :
          open[i].by \in Classes => Past(defs, c_structs, open[i].scope, open[i - 1].scope)
  <2>1. \A class, around :
          (\E e \in Enclosing(around) \ Enclosing(defs[class].parent) :
             Kind(c_structs[e][defs[class].name]) \in Tagged \ {defs[class].kind})
          <=> Hidden(defs, c_structs, class, around)
    <3>1. "none" \notin Tagged
      BY DEF Tagged, Classes
    <3>2. QED
      BY <3>1, EnclosingIs DEF Hidden, Kind
  <2>2. QED
    BY <2>1 DEF ReopenedPastTag, Past
<1>5. QED
  BY <1>1, <1>2, <1>3, <1>4 DEF ScopesInv, StoreIn, FramesIn, Framed, Parts

LEMMA InvNext == ScopesInv' <=> Parts'
BY InvIs, PTL

-----------------------------------------------------------------------------
(* Entries of the maps.                                                    *)

LEMMA InsertedIs ==
  ASSUME NEW k \in Nat, NEW j \in Nat, k <= j, NEW map \in Maps(k),
         NEW s \in Slots, NEW n \in Names, NEW d \in 0..j
  PROVE  /\ Inserted(map, s, n, d) \in Maps(j)
         /\ \A t \in Slots, m \in Names :
              Inserted(map, s, n, d)[t][m] =
                IF t = s /\ m = n /\ map[s][n] = None THEN d ELSE map[t][m]
<1>1. \A t \in Slots, m \in Names : map[t][m] \in 0..j
  BY DEF Maps
<1>2. map \in [Slots -> [Names -> 0..j]]
  BY <1>1 DEF Maps
<1>3. CASE map[s][n] = None
  <2>1. Inserted(map, s, n, d) = [map EXCEPT ![s] = [map[s] EXCEPT ![n] = d]]
    BY <1>3 DEF Inserted
  <2>2. [map[s] EXCEPT ![n] = d] \in [Names -> 0..j]
    BY <1>2
  <2>3. \A m \in Names : [map[s] EXCEPT ![n] = d][m] = IF m = n THEN d ELSE map[s][m]
    BY <1>2
  <2> DEFINE row == [map[s] EXCEPT ![n] = d]
  <2>4. Inserted(map, s, n, d) = [map EXCEPT ![s] = row]
    BY <2>1
  <2> HIDE DEF row
  <2>5. \A t \in Slots : [map EXCEPT ![s] = row][t] = IF t = s THEN row ELSE map[t]
    BY <1>2
  <2>6. [map EXCEPT ![s] = row] \in [Slots -> [Names -> 0..j]]
    BY <1>2, <2>2 DEF row
  <2>7. \A t \in Slots, m \in Names :
          [map EXCEPT ![s] = row][t][m] = IF t = s /\ m = n THEN d ELSE map[t][m]
    BY <2>3, <2>5 DEF row
  <2>8. QED
    BY <1>3, <2>4, <2>6, <2>7 DEF Maps
<1>4. CASE map[s][n] # None
  BY <1>2, <1>4 DEF Inserted, Maps
<1>5. QED
  BY <1>3, <1>4

LEMMA MapsGrow ==
  ASSUME NEW k \in Nat, NEW j \in Nat, k <= j, NEW map \in Maps(k)
  PROVE  map \in Maps(j)
BY DEF Maps

LEMMA LinksGrow ==
  ASSUME NEW k \in Nat, NEW j \in Nat, k <= j, NEW l, Links(k, l)
  PROVE  Links(j, l)
<1>1. 1..k \subseteq 1..j
  OBVIOUS
<1>2. Seq(1..k) \subseteq Seq(1..j)
  BY <1>1
<1>3. QED
  BY <1>2 DEF Links

LEMMA LinkAdded ==
  ASSUME NEW k \in Nat, NEW l, Links(k, l), NEW s \in Slots, NEW t \in 1..k,
         Len(l[s]) < MaxUses
  PROVE  Links(k, [l EXCEPT ![s] = Append(@, t)])
<1> DEFINE row == Append(l[s], t)
<1>1. l \in [Slots -> Seq(1..k)] /\ MaxUses \in Nat
  BY ConstantsAssumption DEF Links
<1>2. row \in Seq(1..k) /\ Len(row) <= MaxUses
  <2>1. l[s] \in Seq(1..k)
    BY <1>1
  <2>2. Len(row) = Len(l[s]) + 1 /\ Len(l[s]) \in Nat
    BY <2>1
  <2>3. QED
    BY <1>1, <2>1, <2>2
<1> HIDE DEF row
<1>3. Links(k, [l EXCEPT ![s] = row])
  <2>1. \A u \in Slots : [l EXCEPT ![s] = row][u] = IF u = s THEN row ELSE l[u]
    BY <1>1
  <2>2. [l EXCEPT ![s] = row] \in [Slots -> Seq(1..k)]
    BY <1>1, <1>2
  <2>3. QED
    BY <1>2, <2>1, <2>2 DEF Links
<1>4. QED
  BY <1>3 DEF row

-----------------------------------------------------------------------------
(* A definition is allocated and entered.                                  *)

LEMMA Allocated ==
  ASSUME NEW ds, DefsTyped(ds), RootedIn(ds), Len(ds) + 1 <= MaxDefs,
         NEW kind \in Kinds, NEW n \in Names, NEW p \in 1..Len(ds), NEW of \in 0..Len(ds),
         NEW typename \in BOOLEAN
  PROVE  LET es == Append(ds, Definition(kind, n, p, of, typename))
             new == Len(ds) + 1
         IN /\ DefsTyped(es) /\ RootedIn(es) /\ Extends(ds, es) /\ Len(es) = new
            /\ es[new].kind = kind /\ es[new].name = n /\ es[new].parent = p
            /\ \A d \in 0..Len(ds) : KindIn(es, d) = KindIn(ds, d)
            /\ KindIn(es, new) = kind
<1> DEFINE d == Definition(kind, n, p, of, typename)
           es == Append(ds, d)
           new == Len(ds) + 1
<1>1. ds \in Seq(Entities) /\ Len(ds) \in Nat /\ Len(ds) \in 2..MaxDefs /\ MaxDefs \in Nat
  BY ConstantsAssumption DEF DefsTyped
<1>2. d.kind = kind /\ d.name = n /\ d.parent = p /\ d.of = of
  BY DEF Definition
<1>3. d \in Entities
  <2>1. p \in 0..MaxDefs /\ of \in 0..MaxDefs
    BY <1>1
  <2>2. QED
    BY <2>1 DEF Definition, Entities
<1> HIDE DEF d
<1>4. /\ es \in Seq(Entities) /\ Len(es) = new /\ es[new] = d
      /\ \A i \in 1..Len(ds) : es[i] = ds[i]
  BY <1>1, <1>3
<1>5. \A i \in 3..new : i \in 3..Len(ds) \/ i = new
  BY <1>1
<1>6. \A i \in 3..Len(ds) : i \in 1..Len(ds)
  BY <1>1
<1>7. new \in 2..MaxDefs /\ p \in 1..(new - 1) /\ of \in 0..(new - 1) /\ 1 \in 1..Len(ds) /\ 2 \in 1..Len(ds)
      /\ Len(ds) <= new /\ new # 0
  BY <1>1
<1> HIDE DEF es, new
<1>8. DefsTyped(es)
  BY <1>2, <1>4, <1>5, <1>6, <1>7 DEF DefsTyped
<1>9. RootedIn(es)
  <2>1. es[1] = ds[1] /\ es[2] = ds[2]
    BY <1>4, <1>7
  <2>2. \A i \in 3..new : es[i].name \in Names
    BY <1>2, <1>4, <1>5, <1>6 DEF RootedIn
  <2>3. QED
    BY <1>4, <2>1, <2>2 DEF RootedIn
<1>10. Extends(ds, es)
  BY <1>4, <1>7 DEF Extends
<1>11. \A i \in 0..Len(ds) : KindIn(es, i) = KindIn(ds, i)
  <2>1. \A i \in 0..Len(ds) : i = None \/ i \in 1..Len(ds)
    BY <1>1 DEF None
  <2>2. QED
    BY <1>4, <2>1 DEF KindIn
<1>12. KindIn(es, new) = kind
  BY <1>2, <1>4, <1>7 DEF KindIn, None
<1>13. QED
  BY <1>2, <1>4, <1>8, <1>9, <1>10, <1>11, <1>12 DEF es, d, new

(* Each definition is entered once: what was there stays where it was.     *)
LEMMA StoreMade ==
  ASSUME NEW ds, NEW ms, NEW cs, NEW us, StoreIn(ds, ms, cs, us), Len(ds) + 1 <= MaxDefs,
         NEW kind \in Kinds, NEW n \in Names, NEW p \in 1..Len(ds), NEW of \in 0..Len(ds),
         NEW typename \in BOOLEAN, (IF kind \in Tagged THEN cs ELSE ms)[p][n] = None
  PROVE  LET es == Append(ds, Definition(kind, n, p, of, typename))
             new == Len(ds) + 1
         IN StoreIn(es, IF kind \in Tagged THEN ms ELSE Inserted(ms, p, n, new),
                    IF kind \in Tagged THEN Inserted(cs, p, n, new) ELSE cs, us)
<1> DEFINE es == Append(ds, Definition(kind, n, p, of, typename))
           new == Len(ds) + 1
           mt == IF kind \in Tagged THEN ms ELSE Inserted(ms, p, n, new)
           ct == IF kind \in Tagged THEN Inserted(cs, p, n, new) ELSE cs
<1>1. /\ DefsTyped(ds) /\ RootedIn(ds) /\ Entered(ds, ms, cs) /\ Held(ds, ms, cs)
      /\ Sorted(ds, ms, cs, us) /\ ms \in Maps(Len(ds)) /\ cs \in Maps(Len(ds))
      /\ us \in Maps(Len(ds))
  BY DEF StoreIn
<1>2. /\ Len(ds) \in Nat /\ Len(ds) \in 2..MaxDefs /\ MaxDefs \in Nat /\ new \in Nat
      /\ Len(ds) <= new /\ new \in 0..new /\ p \in Slots
  BY <1>1, ConstantsAssumption DEF DefsTyped, Slots
<1>3. /\ DefsTyped(es) /\ RootedIn(es) /\ Extends(ds, es) /\ Len(es) = new
      /\ es[new].kind = kind /\ es[new].name = n /\ es[new].parent = p
      /\ \A d \in 0..Len(ds) : KindIn(es, d) = KindIn(ds, d)
      /\ KindIn(es, new) = kind
  BY <1>1, Allocated
<1>4. /\ mt \in Maps(new)
      /\ \A t \in Slots, m \in Names :
           mt[t][m] = IF t = p /\ m = n /\ kind \notin Tagged THEN new ELSE ms[t][m]
  <2>1. CASE kind \in Tagged
    <3>1. ms \in Maps(new)
      BY <1>1, <1>2, MapsGrow
    <3>2. QED
      BY <2>1, <3>1
  <2>2. CASE kind \notin Tagged
    <3> HIDE DEF new
    <3>1. Inserted(ms, p, n, new) \in Maps(new)
          /\ \A t \in Slots, m \in Names :
               Inserted(ms, p, n, new)[t][m] =
                 IF t = p /\ m = n /\ ms[p][n] = None THEN new ELSE ms[t][m]
      BY <1>1, <1>2, InsertedIs
    <3>2. QED
      BY <2>2, <3>1
  <2>3. QED
    BY <2>1, <2>2
<1>5. /\ ct \in Maps(new)
      /\ \A t \in Slots, m \in Names :
           ct[t][m] = IF t = p /\ m = n /\ kind \in Tagged THEN new ELSE cs[t][m]
  <2>1. CASE kind \notin Tagged
    <3>1. cs \in Maps(new)
      BY <1>1, <1>2, MapsGrow
    <3>2. QED
      BY <2>1, <3>1
  <2>2. CASE kind \in Tagged
    <3> HIDE DEF new
    <3>1. Inserted(cs, p, n, new) \in Maps(new)
          /\ \A t \in Slots, m \in Names :
               Inserted(cs, p, n, new)[t][m] =
                 IF t = p /\ m = n /\ cs[p][n] = None THEN new ELSE cs[t][m]
      BY <1>1, <1>2, InsertedIs
    <3>2. QED
      BY <2>2, <3>1
  <2>3. QED
    BY <2>1, <2>2
<1>6. us \in Maps(new)
  BY <1>1, <1>2, MapsGrow
<1>7. \A t \in Slots, m \in Names :
        ms[t][m] \in 0..Len(ds) /\ cs[t][m] \in 0..Len(ds) /\ us[t][m] \in 0..Len(ds)
  BY <1>1 DEF Maps
<1>8. \A d \in 0..Len(ds) : d # None => d \in 1..Len(ds) /\ es[d] = ds[d]
  BY <1>2, <1>3 DEF Extends, None
<1>9. new # None /\ \A d \in 3..new : d = new \/ (d \in 3..Len(ds) /\ d \in 0..Len(ds) /\ d # None)
  BY <1>2 DEF None
<1> HIDE DEF es, new, mt, ct
<1>10. Entered(es, mt, ct)
  <2>1. SUFFICES ASSUME NEW d \in 3..new
                 PROVE  (IF es[d].kind \in Tagged THEN ct ELSE mt)[es[d].parent][es[d].name] = d
    BY <1>3 DEF Entered
  <2>2. CASE d = new
    BY <1>2, <1>3, <1>4, <1>5, <2>2
  <2>3. CASE d # new
    <3>1. d \in 3..Len(ds) /\ es[d] = ds[d] /\ d # None
      BY <1>8, <1>9, <2>3
    <3>2. ds[d].parent \in Slots /\ ds[d].name \in Names
      <4>1. ds[d].parent \in 1..(d - 1) /\ ds[d].name \in Names
        BY <1>1, <3>1 DEF DefsTyped, RootedIn
      <4>2. d \in Nat /\ d <= MaxDefs
        BY <1>2, <3>1
      <4>3. 1..(d - 1) \subseteq 1..MaxDefs
        BY <1>2, <4>2
      <4>4. QED
        BY <4>1, <4>3 DEF Slots
    <3>3. (IF ds[d].kind \in Tagged THEN cs ELSE ms)[ds[d].parent][ds[d].name] = d
      BY <1>1, <3>1 DEF Entered
    <3>4. QED
      BY <1>4, <1>5, <3>1, <3>2, <3>3
  <2>4. QED
    BY <2>2, <2>3
<1>11. Held(es, mt, ct)
  <2>1. SUFFICES ASSUME NEW t \in Slots, NEW m \in Names, NEW d \in {mt[t][m], ct[t][m]}, d # None
                 PROVE  es[d].parent = t /\ es[d].name = m
    BY DEF Held
  <2>2. CASE d \in {ms[t][m], cs[t][m]}
    <3>1. ds[d].parent = t /\ ds[d].name = m
      BY <1>1, <2>1, <2>2 DEF Held
    <3>2. es[d] = ds[d]
      BY <1>7, <1>8, <2>1, <2>2
    <3>3. QED
      BY <3>1, <3>2
  <2>3. CASE d \notin {ms[t][m], cs[t][m]}
    <3>1. d = new /\ t = p /\ m = n
      BY <1>4, <1>5, <2>1, <2>3
    <3>2. QED
      BY <1>3, <3>1
  <2>4. QED
    BY <2>2, <2>3
<1>12. Sorted(es, mt, ct, us)
  <2>1. SUFFICES ASSUME NEW t \in Slots, NEW m \in Names
                 PROVE  /\ KindIn(es, mt[t][m]) \notin Tagged
                        /\ KindIn(es, us[t][m]) \notin Tagged
                        /\ ct[t][m] # None => KindIn(es, ct[t][m]) \in Tagged
    BY DEF Sorted
  <2>2. /\ KindIn(es, ms[t][m]) \notin Tagged
        /\ KindIn(es, us[t][m]) \notin Tagged
        /\ cs[t][m] # None => KindIn(es, cs[t][m]) \in Tagged
    BY <1>1, <1>3, <1>7 DEF Sorted
  <2>3. QED
    BY <1>3, <1>4, <1>5, <2>2
<1>13. StoreIn(es, mt, ct, us)
  BY <1>3, <1>4, <1>5, <1>6, <1>10, <1>11, <1>12 DEF StoreIn
<1>14. QED
  BY <1>13 DEF es, new, mt, ct

LEMMA StoreUsed ==
  ASSUME NEW ds, NEW ms, NEW cs, NEW us, StoreIn(ds, ms, cs, us),
         NEW s \in Slots, NEW n \in Names, NEW d \in 0..Len(ds), KindIn(ds, d) \notin Tagged
  PROVE  StoreIn(ds, ms, cs, Inserted(us, s, n, d))
<1>1. Len(ds) \in Nat /\ us \in Maps(Len(ds))
  BY ConstantsAssumption DEF StoreIn, DefsTyped
<1>2. Inserted(us, s, n, d) \in Maps(Len(ds))
      /\ \A t \in Slots, m \in Names :
           Inserted(us, s, n, d)[t][m] =
             IF t = s /\ m = n /\ us[s][n] = None THEN d ELSE us[t][m]
  BY <1>1, InsertedIs
<1>3. Sorted(ds, ms, cs, Inserted(us, s, n, d))
  BY <1>2 DEF Sorted, StoreIn
<1>4. QED
  BY <1>2, <1>3 DEF StoreIn

-----------------------------------------------------------------------------
(* Frames.                                                                 *)

LEMMA StoreFamily ==
  ASSUME NEW ds, DefsTyped(ds), RootedIn(ds)
  PROVE  Family(ds)
<1>1. ds[1].parent = None /\ ds[2].parent = None
  <2>1. Definition("namespace", "", None, None, FALSE).parent = None
        /\ Definition("builtin", "int", None, None, TRUE).parent = None
    BY DEF Definition
  <2>2. QED
    BY <2>1 DEF RootedIn
<1>2. Len(ds) \in Nat
  BY ConstantsAssumption DEF DefsTyped
<1>3. \A d \in 1..Len(ds) : d = 1 \/ d = 2 \/ d \in 3..Len(ds)
  BY <1>2
<1>4. \A d \in 3..Len(ds) : ds[d].parent \in 1..(d - 1)
  BY DEF DefsTyped
<1>5. QED
  BY <1>1, <1>2, <1>3, <1>4 DEF Family

(* What hides a class goes on hiding it.                                   *)
LEMMA PastKept ==
  ASSUME NEW ds, NEW es, NEW cs, NEW ct,
         DefsTyped(ds), RootedIn(ds), DefsTyped(es), RootedIn(es), Extends(ds, es),
         cs \in Maps(Len(ds)),
         \A t \in Slots, m \in Names : cs[t][m] # None => ct[t][m] = cs[t][m],
         NEW class \in 3..Len(ds), NEW around \in 1..Len(ds), Past(ds, cs, class, around)
  PROVE  Past(es, ct, class, around)
<1>1. Family(ds) /\ Family(es) /\ Len(ds) \in Nat /\ Len(ds) <= MaxDefs
  BY StoreFamily, ConstantsAssumption DEF DefsTyped
<1>2. es[class] = ds[class] /\ class \in 1..Len(ds)
  BY <1>1 DEF Extends
<1>3. CASE ds[class].parent = around
  BY <1>2, <1>3 DEF Past
<1>4. CASE Hidden(ds, cs, class, around)
  <2> DEFINE p == ds[class].parent
             name == ds[class].name
  <2>1. p \in 1..Len(ds) /\ name \in Names
    <3>1. p \in 1..(class - 1) /\ name \in Names
      BY DEF DefsTyped, RootedIn
    <3>2. QED
      BY <1>1, <1>2, <3>1
  <2>2. Up(es)[around] = Up(ds)[around] /\ Up(es)[p] = Up(ds)[p]
    BY <1>1, <2>1, UpKept
  <2>3. PICK e \in Up(ds)[around] \ Up(ds)[p] :
          /\ cs[e][name] # None
          /\ ds[cs[e][name]].kind \in Tagged \ {ds[class].kind}
    BY <1>4 DEF Hidden
  <2>4. e \in Slots
    <3>1. e \in 1..around
      BY <1>1, <2>3, UpWithin
    <3>2. 1..around \subseteq Slots
      BY <1>1, ConstantsAssumption DEF Slots
    <3>3. QED
      BY <3>1, <3>2
  <2>5. ct[e][name] = cs[e][name] /\ cs[e][name] \in 1..Len(ds)
    <3>1. cs[e][name] \in 0..Len(ds)
      BY <2>1, <2>4 DEF Maps
    <3>2. QED
      BY <1>1, <2>1, <2>3, <2>4, <3>1 DEF None
  <2>6. es[ct[e][name]] = ds[cs[e][name]]
    BY <2>5 DEF Extends
  <2>7. Hidden(es, ct, class, around)
    BY <1>2, <2>2, <2>3, <2>5, <2>6 DEF Hidden
  <2>8. QED
    BY <2>7 DEF Past
<1>5. QED
  BY <1>3, <1>4 DEF Past

LEMMA FramesKept ==
  ASSUME NEW ds, NEW es, NEW cs, NEW ct, NEW op,
         DefsTyped(ds), RootedIn(ds), DefsTyped(es), RootedIn(es), Extends(ds, es),
         cs \in Maps(Len(ds)),
         \A t \in Slots, m \in Names : cs[t][m] # None => ct[t][m] = cs[t][m],
         FramesIn(ds, cs, op)
  PROVE  FramesIn(es, ct, op)
<1>1. Len(ds) \in Nat /\ Len(es) \in Nat /\ Len(ds) <= Len(es) /\ Len(op) \in Nat
  BY ConstantsAssumption DEF DefsTyped, Extends, FramesIn
<1>2. op \in Seq([scope : 1..Len(ds), by : Frames])
  BY DEF FramesIn
<1>3. op \in Seq([scope : 1..Len(es), by : Frames])
  <2>1. [scope : 1..Len(ds), by : Frames] \subseteq [scope : 1..Len(es), by : Frames]
    <3>1. 1..Len(ds) \subseteq 1..Len(es)
      BY <1>1
    <3>2. QED
      BY <3>1
  <2> DEFINE F == [scope : 1..Len(ds), by : Frames]
             G == [scope : 1..Len(es), by : Frames]
  <2>2. F \subseteq G /\ op \in Seq(F)
    BY <1>2, <2>1
  <2> HIDE DEF F, G
  <2>3. op \in Seq(G)
    BY <2>2
  <2>4. QED
    BY <2>3 DEF G
<1>4. ASSUME NEW i \in 2..Len(op), op[i].by \in Classes
      PROVE  op[i].scope >= 3 /\ Past(es, ct, op[i].scope, op[i - 1].scope)
  <2>1. op[i].scope >= 3 /\ Past(ds, cs, op[i].scope, op[i - 1].scope)
    BY <1>4 DEF FramesIn
  <2>2. i \in 1..Len(op) /\ i - 1 \in 1..Len(op)
    BY <1>1
  <2>3. op[i].scope \in 1..Len(ds) /\ op[i - 1].scope \in 1..Len(ds)
    <3> DEFINE F == [scope : 1..Len(ds), by : Frames]
    <3>1. op \in Seq(F) /\ \A f \in F : f.scope \in 1..Len(ds)
      BY <1>2
    <3> HIDE DEF F
    <3>2. op[i] \in F /\ op[i - 1] \in F
      BY <2>2, <3>1
    <3>3. QED
      BY <3>1, <3>2
  <2>4. op[i].scope \in 3..Len(ds)
    BY <1>1, <2>1, <2>3
  <2> DEFINE c == op[i].scope
             a == op[i - 1].scope
  <2>5. c \in 3..Len(ds) /\ a \in 1..Len(ds) /\ Past(ds, cs, c, a)
    BY <2>1, <2>3, <2>4
  <2> HIDE DEF c, a
  <2>6. Past(es, ct, c, a)
    BY <2>5, PastKept
  <2>7. QED
    BY <2>1, <2>6 DEF c, a
<1>5. QED
  BY <1>3, <1>4 DEF FramesIn

LEMMA FramesCut ==
  ASSUME NEW ds, NEW cs, NEW op, FramesIn(ds, cs, op), NEW k \in 1..Len(op)
  PROVE  FramesIn(ds, cs, SubSeq(op, 1, k))
<1> DEFINE F == [scope : 1..Len(ds), by : Frames]
           cut == SubSeq(op, 1, k)
<1>1. op \in Seq(F) /\ Len(op) \in 1..MaxOpen /\ MaxOpen \in Nat
  BY ConstantsAssumption DEF FramesIn
<1> HIDE DEF F
<1>2. k \in Nat /\ k \in 1..MaxOpen /\ k <= Len(op)
  BY <1>1
<1>3. cut \in Seq(F) /\ Len(cut) = k /\ \A i \in 1..k : cut[i] = op[i]
  BY <1>1, <1>2, SubSeqProperties
<1>4. 1 \in 1..k /\ \A i \in 2..k : i \in 1..k /\ i - 1 \in 1..k /\ i \in 2..Len(op)
  BY <1>1, <1>2
<1> HIDE DEF cut
<1>5. QED
  BY <1>2, <1>3, <1>4 DEF FramesIn, cut, F

LEMMA FramesPushed ==
  ASSUME NEW ds, NEW cs, NEW op, FramesIn(ds, cs, op), Len(op) < MaxOpen,
         NEW scope \in 1..Len(ds), NEW by \in Frames, by # "file",
         by \in Classes => scope >= 3 /\ Past(ds, cs, scope, op[Len(op)].scope)
  PROVE  FramesIn(ds, cs, Append(op, [scope |-> scope, by |-> by]))
<1> DEFINE F == [scope : 1..Len(ds), by : Frames]
           f == [scope |-> scope, by |-> by]
           on == Append(op, f)
<1>1. op \in Seq(F) /\ Len(op) \in 1..MaxOpen /\ MaxOpen \in Nat /\ f \in F
      /\ f.scope = scope /\ f.by = by
  BY ConstantsAssumption DEF FramesIn
<1> HIDE DEF F, f
<1>2. /\ on \in Seq(F) /\ Len(on) = Len(op) + 1 /\ on[Len(op) + 1] = f
      /\ \A i \in 1..Len(op) : on[i] = op[i]
  BY <1>1
<1>3. /\ Len(op) + 1 \in 1..MaxOpen /\ 1 \in 1..Len(op) /\ Len(op) \in 1..Len(op)
      /\ (Len(op) + 1) - 1 = Len(op)
      /\ \A i \in 2..(Len(op) + 1) :
           i = Len(op) + 1 \/ (i \in 2..Len(op) /\ i \in 1..Len(op) /\ i - 1 \in 1..Len(op))
  BY <1>1
<1> HIDE DEF on
<1>4. ASSUME NEW i \in 2..Len(on)
      PROVE  /\ on[i].by # "file"
             /\ on[i].by \in Classes => on[i].scope >= 3 /\ Past(ds, cs, on[i].scope, on[i - 1].scope)
  <2>1. CASE i = Len(op) + 1
    <3>1. on[i] = f /\ on[i - 1] = op[Len(op)]
      BY <1>2, <1>3, <2>1
    <3>2. QED
      BY <1>1, <3>1
  <2>2. CASE i # Len(op) + 1
    <3>1. i \in 2..Len(op) /\ on[i] = op[i] /\ on[i - 1] = op[i - 1]
      BY <1>2, <1>3, <1>4, <2>2
    <3>2. QED
      BY <3>1 DEF FramesIn
  <2>3. QED
    BY <2>1, <2>2
<1>5. on[1] = [scope |-> Global, by |-> "file"]
  BY <1>2, <1>3 DEF FramesIn
<1>6. QED
  BY <1>2, <1>3, <1>4, <1>5 DEF FramesIn, on, F, f

-----------------------------------------------------------------------------
(* Steps.                                                                  *)

LEMMA Now ==
  ASSUME ScopesInv
  PROVE  /\ TypeOK /\ Rooted /\ Owned /\ Tags
         /\ StoreIn(defs, members, c_structs, using_general)
         /\ DefsTyped(defs) /\ RootedIn(defs) /\ c_structs \in Maps(Len(defs))
         /\ FramesIn(defs, c_structs, open)
         /\ Links(Len(defs), using_scopes) /\ Links(Len(defs), ancestors)
         /\ type \in 0..Len(defs) /\ New = Len(defs) + 1
         /\ Len(open) \in Nat /\ Len(open) >= 1
         /\ \A i \in 1..Len(open) : open[i] \in [scope : Defs, by : Frames]
                                    /\ open[i].scope \in Defs /\ open[i].by \in Frames
         /\ here \in Defs /\ here \in Slots
         /\ here = open[Len(open)].scope /\ Last(open) = open[Len(open)]
<1>1. /\ TypeOK /\ Rooted /\ Owned /\ Tags
      /\ StoreIn(defs, members, c_structs, using_general)
      /\ FramesIn(defs, c_structs, open)
      /\ Links(Len(defs), using_scopes) /\ Links(Len(defs), ancestors)
      /\ type \in 0..Len(defs)
  BY InvIs DEF Parts, ScopesInv
<1>2. DefsTyped(defs) /\ RootedIn(defs) /\ c_structs \in Maps(Len(defs))
  BY <1>1 DEF StoreIn
<1>3. Len(open) \in Nat /\ Len(open) >= 1 /\ Len(open) \in 1..Len(open)
  BY <1>1, ConstantsAssumption DEF FramesIn
<1>4. \A i \in 1..Len(open) : open[i] \in [scope : Defs, by : Frames]
                              /\ open[i].scope \in Defs /\ open[i].by \in Frames
  <2> DEFINE F == [scope : Defs, by : Frames]
  <2>1. open \in Seq(F) /\ \A f \in F : f.scope \in Defs /\ f.by \in Frames
    BY <1>1 DEF TypeOK
  <2> HIDE DEF F
  <2>2. \A i \in 1..Len(open) : open[i] \in F
    BY <2>1
  <2>3. QED
    BY <2>1, <2>2 DEF F
<1>5. Last(open) = open[Len(open)]
  BY DEF Last
<1>6. here = open[Len(open)].scope
  BY <1>5 DEF here
<1>7. here \in Defs /\ here \in Slots
  BY <1>1, <1>3, <1>4, <1>6, Bounds
<1>8. QED
  BY <1>1, <1>2, <1>3, <1>4, <1>5, <1>6, <1>7 DEF New

(* What a step keeps when definitions are only added.                      *)
Grown ==
  /\ StoreIn(defs', members', c_structs', using_general')
  /\ Extends(defs, defs')
  /\ \A t \in Slots, m \in Names : c_structs[t][m] # None => c_structs'[t][m] = c_structs[t][m]

LEMMA GrownKeeps ==
  ASSUME ScopesInv, Grown
  PROVE  /\ Len(defs') \in Nat /\ Len(defs) <= Len(defs') /\ Len(defs') \in 2..MaxDefs
         /\ FramesIn(defs', c_structs', open)
         /\ Links(Len(defs'), using_scopes) /\ Links(Len(defs'), ancestors)
         /\ 0..Len(defs) \subseteq 0..Len(defs') /\ Defs \subseteq 1..Len(defs')
         /\ 1..Len(defs') \subseteq Slots
<1>1. DefsTyped(defs') /\ RootedIn(defs')
  BY DEF Grown, StoreIn
<1>2. Len(defs') \in Nat /\ Len(defs) <= Len(defs') /\ Len(defs) \in Nat /\ Len(defs') \in 2..MaxDefs
      /\ MaxDefs \in Nat
  BY <1>1, Now, Bounds, ConstantsAssumption DEF Grown, Extends, DefsTyped
<1>3. FramesIn(defs', c_structs', open)
  BY <1>1, Now, FramesKept DEF Grown
<1>4. Links(Len(defs'), using_scopes) /\ Links(Len(defs'), ancestors)
  BY <1>2, Now, LinksGrow
<1>5. QED
  BY <1>2, <1>3, <1>4 DEF Defs, Slots

LEMMA NotGrown ==
  ASSUME ScopesInv, UNCHANGED <<defs, maps>>
  PROVE  Grown
<1>1. UNCHANGED <<defs, members, c_structs, using_general>>
  BY DEF maps
<1>2. StoreIn(defs', members', c_structs', using_general')
  BY <1>1, Now
<1>3. Extends(defs, defs')
  BY <1>1, Now, Bounds DEF Extends
<1>4. QED
  BY <1>1, <1>2, <1>3 DEF Grown

(* A new definition of this scope.                                         *)
Making(kind, n, of, typename) ==
  /\ kind \in Kinds /\ n \in Names /\ of \in 0..Len(defs) /\ typename \in BOOLEAN
  /\ (IF kind \in Tagged THEN c_structs ELSE members)[here][n] = None
  /\ Allocate(kind, n, here, of, typename)
  /\ members' = IF kind \in Tagged THEN members ELSE Inserted(members, here, n, New)
  /\ c_structs' = IF kind \in Tagged THEN Inserted(c_structs, here, n, New) ELSE c_structs

LEMMA Made ==
  ASSUME ScopesInv, NEW kind, NEW n, NEW of, NEW typename, Making(kind, n, of, typename)
  PROVE  /\ StoreIn(defs', members', c_structs', using_general)
         /\ Extends(defs, defs') /\ Len(defs') = New /\ defs'[New].parent = here
         /\ KindIn(defs', New) = kind /\ New >= 3
         /\ \A t \in Slots, m \in Names : c_structs[t][m] # None => c_structs'[t][m] = c_structs[t][m]
<1>1. /\ kind \in Kinds /\ n \in Names /\ of \in 0..Len(defs) /\ typename \in BOOLEAN
      /\ (IF kind \in Tagged THEN c_structs ELSE members)[here][n] = None
      /\ New <= MaxDefs /\ defs' = Append(defs, Definition(kind, n, here, of, typename))
      /\ members' = IF kind \in Tagged THEN members ELSE Inserted(members, here, n, New)
      /\ c_structs' = IF kind \in Tagged THEN Inserted(c_structs, here, n, New) ELSE c_structs
  BY DEF Making, Allocate
<1>2. /\ StoreIn(defs, members, c_structs, using_general) /\ here \in 1..Len(defs)
      /\ New = Len(defs) + 1 /\ DefsTyped(defs) /\ RootedIn(defs)
      /\ New \in Nat /\ New >= 3 /\ Len(defs) \in Nat
  BY Now, Bounds DEF Defs
<1>3. StoreIn(defs', members', c_structs', using_general)
  BY <1>1, <1>2, StoreMade
<1>4. Extends(defs, defs') /\ Len(defs') = New /\ defs'[New].parent = here /\ KindIn(defs', New) = kind
  BY <1>1, <1>2, Allocated
<1>5. ASSUME NEW t \in Slots, NEW m \in Names, c_structs[t][m] # None
      PROVE  c_structs'[t][m] = c_structs[t][m]
  <2>1. CASE kind \notin Tagged
    BY <1>1, <2>1
  <2>2. CASE kind \in Tagged
    <3>1. c_structs \in Maps(Len(defs)) /\ here \in Slots /\ New \in 0..New /\ Len(defs) <= New
      BY <1>2, Now
    <3>2. c_structs' = Inserted(c_structs, here, n, New)
      BY <1>1, <2>2
    <3>3. Inserted(c_structs, here, n, New)[t][m] =
            IF t = here /\ m = n /\ c_structs[here][n] = None THEN New ELSE c_structs[t][m]
      BY <1>1, <1>2, <3>1, InsertedIs
    <3>4. QED
      BY <1>5, <3>2, <3>3
  <2>3. QED
    BY <2>1, <2>2
<1>6. QED
  BY <1>2, <1>3, <1>4, <1>5

LEMMA MadeGrown ==
  ASSUME ScopesInv, NEW kind, NEW n, NEW of, NEW typename, Making(kind, n, of, typename),
         UNCHANGED using_general
  PROVE  Grown
BY Made DEF Grown

(* The new class, or a class that the scope has or that a tag hides.       *)
LEMMA ImplementedIs ==
  ASSUME ScopesInv, NEW kind \in Tagged, NEW n \in Names, ~get_location(here, kind, n).error
  PROVE  LET class == Implemented(kind, n)
         IN /\ class = New => c_structs[here][n] = None
            /\ class # New => class \in 3..Len(defs) /\ Past(defs, c_structs, class, here)
<1> DEFINE loc == get_location(here, kind, n)
<1>1. /\ loc.class \in 0..Len(defs)
      /\ (loc.class = None \/ loc.redeclare) => c_structs[here][n] = None
      /\ loc.class # None /\ ~loc.redeclare =>
           /\ defs[loc.class].parent \in Defs
           /\ defs[loc.class].parent = here \/ Hidden(defs, c_structs, loc.class, here)
  BY Now, Located
<1>2. Implemented(kind, n) = IF loc.class = None \/ loc.redeclare THEN New ELSE loc.class
  BY DEF Implemented
<1> HIDE DEF loc
<1>3. New # loc.class
  BY <1>1, Now, Bounds
<1>4. ASSUME loc.class # None, ~loc.redeclare
      PROVE  loc.class \in 3..Len(defs) /\ Past(defs, c_structs, loc.class, here)
  <2>1. defs[1].parent = None /\ defs[2].parent = None
    <3>1. Definition("namespace", "", None, None, FALSE).parent = None
          /\ Definition("builtin", "int", None, None, TRUE).parent = None
      BY DEF Definition
    <3>2. QED
      BY <3>1, Now DEF RootedIn
  <2>2. None \notin Defs
    BY Now, KindOf
  <2>3. loc.class # 1 /\ loc.class # 2 /\ loc.class # 0
    BY <1>1, <1>4, <2>1, <2>2 DEF None
  <2>4. loc.class \in 3..Len(defs)
    BY <1>1, <2>3, Now, Bounds
  <2>5. QED
    BY <1>1, <1>4, <2>4 DEF Past
<1>5. QED
  BY <1>1, <1>2, <1>3, <1>4

(* Naming a class, which may insert it.                                    *)
LEMMA Naming ==
  ASSUME ScopesInv, NEW kind \in Tagged, NEW n \in Names, NEW class, Name(kind, n, class),
         class = New => c_structs[here][n] = None, class # New => class \in Defs,
         UNCHANGED <<members, using_general>>
  PROVE  /\ Grown /\ class \in 1..Len(defs')
         /\ class = New => defs'[class].parent = here /\ class >= 3
         /\ class # New => UNCHANGED <<defs, c_structs>>
<1>1. CASE class = New
  <2>1. insnew(kind, n)
    BY <1>1 DEF Name
  <2>2. Making(kind, n, None, TRUE)
    BY <1>1, <2>1, Now, KindOf DEF insnew, Making, Plain, Kinds, ScopeKinds
  <2>3. Grown /\ Len(defs') = New /\ defs'[New].parent = here /\ New >= 3
    BY <2>2, Made, MadeGrown
  <2>4. New \in 1..Len(defs')
    BY <2>3, Now, Bounds
  <2>5. QED
    BY <1>1, <2>3, <2>4
<1>2. CASE class # New
  <2>1. UNCHANGED <<defs, c_structs>>
    BY <1>2 DEF Name
  <2>2. Grown
    BY <2>1, NotGrown DEF maps
  <2>3. QED
    BY <1>2, <2>1, <2>2 DEF Defs
<1>3. QED
  BY <1>1, <1>2

LEMMA Assembled ==
  ASSUME Grown, Links(Len(defs'), using_scopes'), Links(Len(defs'), ancestors'),
         FramesIn(defs', c_structs', open'), type' \in 0..Len(defs')
  PROVE  ScopesInv'
BY InvNext DEF Parts, Grown

(* A frame is pushed, after the definitions grew.                          *)
LEMMA Entering ==
  ASSUME ScopesInv, Grown, NEW scope \in 1..Len(defs'), NEW by \in Frames, by # "file",
         Enter(scope, by),
         by \in Classes => scope >= 3 /\ Past(defs', c_structs', scope, here)
  PROVE  FramesIn(defs', c_structs', open')
<1>1. FramesIn(defs', c_structs', open)
  BY GrownKeeps
<1>2. Len(open) < MaxOpen /\ open' = Append(open, [scope |-> scope, by |-> by])
  BY DEF Enter
<1>3. by \in Classes => scope >= 3 /\ Past(defs', c_structs', scope, open[Len(open)].scope)
  BY Now
<1>4. FramesIn(defs', c_structs', Append(open, [scope |-> scope, by |-> by]))
  BY <1>1, <1>2, <1>3, FramesPushed
<1>5. QED
  BY <1>2, <1>4

LEMMA Unwinding ==
  ASSUME ScopesInv, Unwind, UNCHANGED <<defs, maps>>
  PROVE  FramesIn(defs', c_structs', open') /\ type' \in 0..Len(defs')
<1> DEFINE S == {i \in DOMAIN open : open[i].by # "namespace"}
           k == Max(S)
           last == IF k = 1 THEN 1 ELSE k - 1
<1>1. DOMAIN open = 1..Len(open) /\ open[1].by = "file"
  BY Now DEF FramesIn
<1>2. S \subseteq 0..Len(open) /\ S # {} /\ Len(open) \in Nat
  <2>1. 1 \in S
    BY <1>1, Now
  <2>2. S \subseteq 0..Len(open)
    BY <1>1, Now
  <2>3. QED
    BY <2>1, <2>2, Now
<1>3. k \in S
  <2> HIDE DEF S
  <2>1. QED
    BY <1>2, MaxIs
<1>4. k \in 1..Len(open)
  BY <1>1, <1>3
<1>5. open' = SubSeq(open, 1, last) /\ type' = IF open[k].by \in Classes THEN open[k].scope ELSE None
  BY DEF Unwind
<1> HIDE DEF S, k
<1>6. last \in 1..Len(open)
  BY <1>4, Now
<1>7. FramesIn(defs, c_structs, SubSeq(open, 1, last))
  <2> HIDE DEF last
  <2>1. QED
    BY <1>6, Now, FramesCut
<1>8. type' \in 0..Len(defs)
  BY <1>4, <1>5, Now, Bounds DEF Defs, None
<1>9. QED
  BY <1>5, <1>7, <1>8 DEF maps

LEMMA NamespaceStep ==
  ASSUME ScopesInv, NEW n \in Names, NEW by \in {"namespace", "inline"}, handle_namespace(n, by)
  PROVE  ScopesInv'
<1> DEFINE found == look_up(here, n)
<1>1. /\ \/ /\ found = None
            /\ Allocate("namespace", n, here, None, FALSE)
            /\ members' = Inserted(members, here, n, New)
            /\ Enter(New, by)
            /\ UNCHANGED type
         \/ /\ Kind(found) = "namespace"
            /\ Enter(found, by)
            /\ UNCHANGED <<defs, members, type>>
         \/ /\ Unwind
            /\ UNCHANGED <<defs, members>>
      /\ UNCHANGED <<c_structs, using_general, using_scopes, ancestors>>
  BY DEF handle_namespace
<1>2. found \in 0..Len(defs) /\ (found = None => members[here][n] = None)
  BY Now, LookUpTyped, LookUpNone
<1> HIDE DEF found
<1>3. by \in Frames /\ by # "file" /\ by \notin Classes
  BY DEF Frames, Classes
<1>4. Grown /\ FramesIn(defs', c_structs', open') /\ type' \in 0..Len(defs')
  <2>1. CASE /\ found = None
             /\ Allocate("namespace", n, here, None, FALSE)
             /\ members' = Inserted(members, here, n, New)
             /\ Enter(New, by)
             /\ UNCHANGED type
    <3>1. "namespace" \in Kinds /\ "namespace" \notin Tagged /\ None \in 0..Len(defs)
      BY Now, KindOf DEF Kinds, ScopeKinds, Tagged, Classes, Plain
    <3>2. Making("namespace", n, None, FALSE)
      BY <1>1, <1>2, <2>1, <3>1 DEF Making
    <3>3. Grown /\ Len(defs') = New
      BY <1>1, <3>2, Made, MadeGrown
    <3>4. New \in 1..Len(defs')
      BY <3>3, Now, Bounds
    <3>5. FramesIn(defs', c_structs', open')
      BY <1>3, <2>1, <3>3, <3>4, Entering
    <3>6. type' \in 0..Len(defs')
      BY <2>1, <3>3, Now, GrownKeeps
    <3>7. QED
      BY <3>3, <3>5, <3>6
  <2>2. CASE /\ Kind(found) = "namespace"
             /\ Enter(found, by)
             /\ UNCHANGED <<defs, members, type>>
    <3>1. Grown
      BY <1>1, <2>2, NotGrown DEF maps
    <3>2. found \in Defs
      BY <1>2, <2>2, Now, KindOf
    <3>3. found \in 1..Len(defs')
      BY <3>1, <3>2, GrownKeeps
    <3>4. FramesIn(defs', c_structs', open')
      BY <1>3, <2>2, <3>1, <3>3, Entering
    <3>5. QED
      BY <2>2, <3>1, <3>4, Now
  <2>3. CASE Unwind /\ UNCHANGED <<defs, members>>
    <3>1. UNCHANGED <<defs, maps>>
      BY <1>1, <2>3 DEF maps
    <3>2. QED
      BY <2>3, <3>1, NotGrown, Unwinding
  <2>4. QED
    BY <1>1, <2>1, <2>2, <2>3
<1>5. QED
  BY <1>1, <1>4, GrownKeeps, Assembled

LEMMA MentionStep ==
  ASSUME ScopesInv, NEW kind \in Classes, NEW n \in Names, class_mention(kind, n)
  PROVE  ScopesInv'
<1> DEFINE named == get_location(here, kind, n).class
           class == IF named = None THEN New ELSE named
<1>1. /\ Name(kind, n, class) /\ type' = class
      /\ UNCHANGED <<members, using_general, using_scopes, ancestors, open>>
  BY DEF class_mention
<1>2. kind \in Tagged /\ ~get_location(here, kind, n).error
  BY <1>1 DEF Tagged, Name
<1>3. /\ class = New => c_structs[here][n] = None
      /\ class # New => class \in Defs
  <2>1. named \in 0..Len(defs) /\ (named = None => c_structs[here][n] = None)
    BY <1>2, Now, Located
  <2> HIDE DEF named
  <2>2. New \notin 0..Len(defs) /\ (named # None => named \in Defs)
    BY <2>1, Now, Bounds, KindOf
  <2>3. QED
    BY <2>1, <2>2
<1> HIDE DEF class
<1>4. Grown /\ class \in 1..Len(defs')
  BY <1>1, <1>2, <1>3, Naming
<1>5. class \in 0..Len(defs')
  BY <1>4, GrownKeeps
<1>6. QED
  BY <1>1, <1>4, <1>5, GrownKeeps, Assembled

(* The class of a body is found or made, and the frame is right for it.    *)
LEMMA BodyNamed ==
  ASSUME ScopesInv, NEW kind \in Tagged, NEW n \in Names, Name(kind, n, Implemented(kind, n)),
         UNCHANGED <<members, using_general>>
  PROVE  LET class == Implemented(kind, n)
         IN /\ Grown /\ class \in 1..Len(defs') /\ class >= 3
            /\ Past(defs', c_structs', class, here)
<1> DEFINE class == Implemented(kind, n)
<1>1. /\ class = New => c_structs[here][n] = None
      /\ class # New => class \in 3..Len(defs) /\ Past(defs, c_structs, class, here)
  BY ImplementedIs DEF Name
<1> HIDE DEF class
<1>2. class # New => class \in Defs
  BY <1>1, Now, Bounds DEF Defs
<1>3. Name(kind, n, class)
  BY DEF class
<1>4. /\ Grown /\ class \in 1..Len(defs')
      /\ class = New => defs'[class].parent = here /\ class >= 3
      /\ class # New => UNCHANGED <<defs, c_structs>>
  BY <1>1, <1>2, <1>3, Naming
<1>5. class >= 3 /\ Past(defs', c_structs', class, here)
  BY <1>1, <1>4, Bounds, Now DEF Past
<1>6. QED
  BY <1>4, <1>5 DEF class

LEMMA BodyStep ==
  ASSUME ScopesInv, NEW kind \in Classes, NEW n \in Names, class_body(kind, n)
  PROVE  ScopesInv'
<1> DEFINE class == Implemented(kind, n)
<1>1. /\ Name(kind, n, class) /\ Enter(class, kind)
      /\ UNCHANGED <<members, using_general, using_scopes, ancestors, type>>
  BY DEF class_body
<1>2. kind \in Tagged /\ kind \in Frames /\ kind # "file"
  BY DEF Tagged, Frames, Classes
<1>3. /\ Grown /\ class \in 1..Len(defs') /\ class >= 3
      /\ Past(defs', c_structs', class, here)
  BY <1>1, <1>2, BodyNamed
<1> HIDE DEF class
<1>4. FramesIn(defs', c_structs', open')
  BY <1>1, <1>2, <1>3, Entering
<1>5. type' \in 0..Len(defs')
  BY <1>1, <1>3, Now, GrownKeeps
<1>6. QED
  BY <1>1, <1>3, <1>4, <1>5, GrownKeeps, Assembled

LEMMA BasesStep ==
  ASSUME ScopesInv, NEW n \in Names, NEW b \in Names, NEW body \in BOOLEAN, class_bases(n, b, body)
  PROVE  ScopesInv'
<1> DEFINE class == Implemented("class", n)
           base == Reduced(look_up(here, b))
<1>1. /\ Name("class", n, class) /\ Kind(base) = "class"
      /\ Len(ancestors[class]) < MaxUses
      /\ ancestors' = [ancestors EXCEPT ![class] = Append(@, base)]
      /\ IF body THEN Enter(class, "class") /\ UNCHANGED type
                 ELSE type' = class /\ UNCHANGED open
      /\ UNCHANGED <<members, using_general, using_scopes>>
  BY DEF class_bases
<1>2. "class" \in Tagged /\ "class" \in Frames /\ "class" # "file" /\ "class" \in Classes
  BY DEF Tagged, Frames, Classes
<1>3. /\ Grown /\ class \in 1..Len(defs') /\ class >= 3
      /\ Past(defs', c_structs', class, here)
  BY <1>1, <1>2, BodyNamed
<1>4. base \in Defs
  <2>1. base \in 0..Len(defs)
    BY Now, LookUpTyped, ReducedTyped
  <2> HIDE DEF base
  <2>2. QED
    BY <1>1, <2>1, Now, KindOf
<1> HIDE DEF class, base
<1>5. class \in Slots /\ base \in 1..Len(defs') /\ Len(defs') \in Nat
  BY <1>3, <1>4, GrownKeeps
<1>6. Links(Len(defs'), ancestors')
  BY <1>1, <1>3, <1>5, GrownKeeps, LinkAdded
<1>7. FramesIn(defs', c_structs', open')
  <2>1. CASE body
    BY <1>1, <1>2, <1>3, <2>1, Entering
  <2>2. CASE ~body
    BY <1>1, <1>3, <2>2, GrownKeeps
  <2>3. QED
    BY <2>1, <2>2
<1>8. type' \in 0..Len(defs')
  <2>1. class \in 0..Len(defs') /\ type \in 0..Len(defs')
    BY <1>3, Now, GrownKeeps
  <2>2. QED
    BY <1>1, <2>1
<1>9. QED
  BY <1>1, <1>3, <1>6, <1>7, <1>8, GrownKeeps, Assembled

LEMMA BadBaseStep ==
  ASSUME ScopesInv, NEW n \in Names, class_bad_base(n)
  PROVE  ScopesInv'
<1>1. /\ Implemented("class", n) = New /\ Name("class", n, Implemented("class", n))
      /\ UNCHANGED <<members, using_general, using_scopes, ancestors, open, type>>
  BY DEF class_bad_base
<1>2. Grown
  BY <1>1, BodyNamed DEF Tagged, Classes
<1>3. type' \in 0..Len(defs')
  BY <1>1, <1>2, Now, GrownKeeps
<1>4. QED
  BY <1>1, <1>2, <1>3, GrownKeeps, Assembled

LEMMA EnumStep ==
  ASSUME ScopesInv, NEW n \in Names, NEW typed \in BOOLEAN, NEW body \in BOOLEAN,
         handle_enum(n, typed, body)
  PROVE  ScopesInv'
<1> DEFINE named == get_location(here, "enum", n).class
           enum == IF typed THEN Implemented("enum", n) ELSE IF named = None THEN New ELSE named
<1>1. /\ Name("enum", n, enum)
      /\ IF body THEN Enter(enum, "enum") /\ UNCHANGED type
                 ELSE type' = enum /\ UNCHANGED open
      /\ UNCHANGED <<members, using_general, using_scopes, ancestors>>
  BY DEF handle_enum
<1>2. /\ "enum" \in Tagged /\ "enum" \in Frames /\ "enum" # "file" /\ "enum" \notin Classes
      /\ ~get_location(here, "enum", n).error
  BY <1>1 DEF Tagged, Frames, Classes, Name
<1>3. /\ enum = New => c_structs[here][n] = None
      /\ enum # New => enum \in Defs
  <2>1. CASE typed
    <3>1. /\ Implemented("enum", n) = New => c_structs[here][n] = None
          /\ Implemented("enum", n) # New => Implemented("enum", n) \in 3..Len(defs)
      BY <1>2, ImplementedIs
    <3>2. 3..Len(defs) \subseteq Defs
      BY Now, Bounds DEF Defs
    <3>3. QED
      BY <2>1, <3>1, <3>2
  <2>2. CASE ~typed
    <3>1. named \in 0..Len(defs) /\ (named = None => c_structs[here][n] = None)
      BY <1>2, Now, Located
    <3> HIDE DEF named
    <3>2. New \notin 0..Len(defs) /\ (named # None => named \in Defs)
      BY <3>1, Now, Bounds, KindOf
    <3>3. QED
      BY <2>2, <3>1, <3>2
  <2>3. QED
    BY <2>1, <2>2
<1> HIDE DEF enum
<1>4. Grown /\ enum \in 1..Len(defs')
  BY <1>1, <1>2, <1>3, Naming
<1>5. FramesIn(defs', c_structs', open')
  <2>1. CASE body
    BY <1>1, <1>2, <1>4, <2>1, Entering
  <2>2. CASE ~body
    BY <1>1, <1>4, <2>2, GrownKeeps
  <2>3. QED
    BY <2>1, <2>2
<1>6. type' \in 0..Len(defs')
  <2>1. enum \in 0..Len(defs') /\ type \in 0..Len(defs')
    BY <1>4, Now, GrownKeeps
  <2>2. QED
    BY <1>1, <2>1
<1>7. QED
  BY <1>1, <1>4, <1>5, <1>6, GrownKeeps, Assembled

LEMMA OuterFrame ==
  ASSUME ScopesInv, Last(open).by # "file"
  PROVE  Len(open) > 1 /\ Outer \in Defs
<1>1. open[1].by = "file"
  BY Now DEF FramesIn
<1>2. Len(open) # 1
  BY <1>1, Now
<1>3. Len(open) > 1 /\ Len(open) - 1 \in 1..Len(open)
  <2> DEFINE l == Len(open)
  <2>1. l \in Nat /\ l >= 1 /\ l # 1
    BY <1>2, Now
  <2> HIDE DEF l
  <2>2. l > 1 /\ l - 1 \in 1..l
    BY <2>1
  <2>3. QED
    BY <2>2 DEF l
<1>4. QED
  BY <1>3, Now DEF Outer

LEMMA EnumeratorStep ==
  ASSUME ScopesInv, NEW n \in Names, enumerator(n)
  PROVE  ScopesInv'
<1>1. /\ Last(open).by = "enum" /\ members[here][n] = None
      /\ Allocate("constant", n, here, here, FALSE)
      /\ members' = Inserted(members, here, n, New)
      /\ using_general' = Inserted(using_general, Outer, n, New)
      /\ UNCHANGED <<c_structs, using_scopes, ancestors, open, type>>
  BY DEF enumerator
<1>2. /\ "constant" \in Kinds /\ "constant" \notin Tagged /\ here \in 0..Len(defs)
      /\ here \in Defs
  BY Now, Bounds DEF Kinds, ScopeKinds, Tagged, Classes, Defs
<1>3. Making("constant", n, here, FALSE)
  BY <1>1, <1>2 DEF Making
<1>4. /\ StoreIn(defs', members', c_structs', using_general)
      /\ Extends(defs, defs') /\ Len(defs') = New
      /\ KindIn(defs', New) = "constant"
      /\ \A t \in Slots, m \in Names : c_structs[t][m] # None => c_structs'[t][m] = c_structs[t][m]
  BY <1>3, Made
<1>5. Outer \in Slots /\ New \in 0..Len(defs')
  <2>1. Outer \in Defs
    BY <1>1, OuterFrame
  <2>2. QED
    BY <1>4, <2>1, Now, Bounds
<1>6. StoreIn(defs', members', c_structs', using_general')
  BY <1>1, <1>2, <1>4, <1>5, StoreUsed
<1>7. Grown
  BY <1>4, <1>6 DEF Grown
<1>8. type' \in 0..Len(defs')
  BY <1>1, <1>7, Now, GrownKeeps
<1>9. QED
  BY <1>1, <1>7, <1>8, GrownKeeps, Assembled

LEMMA Using ==
  ASSUME ScopesInv, NEW s \in Slots, NEW t \in Defs, Uses(s, t)
  PROVE  Links(Len(defs), using_scopes')
<1>1. /\ Len(using_scopes[s]) < MaxUses
      /\ using_scopes' = [using_scopes EXCEPT ![s] = Append(@, t)]
  BY DEF Uses
<1>2. Len(defs) \in Nat /\ t \in 1..Len(defs) /\ Links(Len(defs), using_scopes)
  BY Now, Bounds DEF Defs
<1>3. QED
  BY <1>1, <1>2, LinkAdded

LEMMA BraceStep ==
  ASSUME ScopesInv, right_brace
  PROVE  ScopesInv'
<1>1. /\ Len(open) > 1 /\ open' = Front(open)
      /\ IF Last(open).by = "inline" THEN Uses(Outer, here) ELSE UNCHANGED using_scopes
      /\ IF Last(open).by \in Tagged THEN type' = here ELSE UNCHANGED type
      /\ UNCHANGED <<defs, maps, ancestors>>
  BY DEF right_brace
<1>2. Grown /\ UNCHANGED <<defs, c_structs>>
  BY <1>1, NotGrown DEF maps
<1>3. FramesIn(defs, c_structs, open')
  <2>1. Len(open) - 1 \in 1..Len(open)
    BY <1>1, Now
  <2>2. open' = SubSeq(open, 1, Len(open) - 1)
    BY <1>1 DEF Front
  <2>3. QED
    BY <2>1, <2>2, Now, FramesCut
<1>4. Links(Len(defs), using_scopes')
  <2>1. CASE Last(open).by = "inline"
    <3>1. Outer \in Slots
      BY <2>1, OuterFrame, Now, Bounds
    <3>2. QED
      BY <1>1, <2>1, <3>1, Now, Using
  <2>2. CASE Last(open).by # "inline"
    BY <1>1, <2>2, Now
  <2>3. QED
    BY <2>1, <2>2
<1>5. type' \in 0..Len(defs)
  <2>1. here \in 0..Len(defs)
    BY Now, Bounds DEF Defs
  <2>2. QED
    BY <1>1, <2>1, Now
<1>6. QED
  BY <1>1, <1>2, <1>3, <1>4, <1>5, Now, Assembled

LEMMA TypenamesTyped ==
  ASSUME ScopesInv
  PROVE  Typenames \subseteq 0..Len(defs)
<1> DEFINE simple == {look_up(here, n) : n \in Names}
           scoped == {look_up(s, n) : s \in {d \in simple : Kind(d) = "namespace"}, n \in Names}
           nested == {Qualified(here, n, m) :
                        n \in {x \in Names : Kind(look_up(here, x)) \notin {"none", "namespace"}},
                        m \in Names}
<1>1. simple \subseteq 0..Len(defs)
  BY Now, LookUpTyped
<1>2. scoped \subseteq 0..Len(defs)
  <2>1. \A s \in {d \in simple : Kind(d) = "namespace"} : s \in Defs
    <3> HIDE DEF simple
    <3>1. QED
      BY <1>1, Now, KindOf
  <2>2. \A s \in Defs, n \in Names : look_up(s, n) \in 0..Len(defs)
    BY Now, LookUpTyped
  <2> HIDE DEF simple
  <2>3. QED
    BY <2>1, <2>2
<1>3. nested \subseteq 0..Len(defs)
  BY Now, QualifiedPlain DEF Plain
<1>4. Builtin \in 0..Len(defs)
  BY Now, Bounds DEF Builtin
<1>5. Typenames = {Builtin} \union {d \in (simple \union scoped \union nested) \ {None} : defs[d].typename}
  BY DEF Typenames
<1> HIDE DEF simple, scoped, nested
<1>6. QED
  BY <1>1, <1>2, <1>3, <1>4, <1>5

LEMMA TypeStep ==
  ASSUME ScopesInv, read_type
  PROVE  ScopesInv'
<1>1. type' \in Typenames /\ UNCHANGED <<defs, maps, using_scopes, ancestors, open>>
  BY DEF read_type
<1>2. Grown /\ UNCHANGED <<defs, c_structs, open>>
  BY <1>1, NotGrown DEF maps
<1>3. type' \in 0..Len(defs)
  BY <1>1, TypenamesTyped
<1>4. QED
  BY <1>1, <1>2, <1>3, Now, Assembled

LEMMA DeclaratorStep ==
  ASSUME ScopesInv, NEW n \in Names, NEW typename \in BOOLEAN, declarator(n, typename)
  PROVE  ScopesInv'
<1> DEFINE of == IF typename THEN type ELSE None
<1>1. /\ members[here][n] = None /\ Allocate("typed", n, here, of, typename)
      /\ members' = Inserted(members, here, n, New)
      /\ UNCHANGED <<c_structs, using_general, using_scopes, ancestors, open, type>>
  BY DEF declarator
<1>2. "typed" \in Kinds /\ "typed" \notin Tagged /\ of \in 0..Len(defs)
  BY Now, KindOf DEF Kinds, ScopeKinds, Tagged, Classes, Plain
<1> HIDE DEF of
<1>3. Making("typed", n, of, typename)
  BY <1>1, <1>2 DEF Making
<1>4. Grown
  BY <1>1, <1>3, MadeGrown
<1>5. type' \in 0..Len(defs')
  BY <1>1, <1>4, Now, GrownKeeps
<1>6. QED
  BY <1>1, <1>4, <1>5, GrownKeeps, Assembled

LEMMA SemicolonStep ==
  ASSUME ScopesInv, semicolon
  PROVE  ScopesInv'
<1>1. type' = None /\ UNCHANGED <<defs, maps, using_scopes, ancestors, open>>
  BY DEF semicolon
<1>2. Grown /\ UNCHANGED <<defs, c_structs, open>>
  BY <1>1, NotGrown DEF maps
<1>3. type' \in 0..Len(defs)
  BY <1>1, Now, KindOf DEF Plain
<1>4. QED
  BY <1>1, <1>2, <1>3, Now, Assembled

LEMMA UseStep ==
  ASSUME ScopesInv, NEW d \in 0..Len(defs), use_namespace(d)
  PROVE  ScopesInv'
<1>1. Kind(d) = "namespace" /\ Uses(here, d) /\ UNCHANGED <<defs, maps, ancestors, open, type>>
  BY DEF use_namespace
<1>2. Grown /\ UNCHANGED <<defs, c_structs, open>>
  BY <1>1, NotGrown DEF maps
<1>3. d \in Defs
  BY <1>1, Now, KindOf
<1>4. Links(Len(defs), using_scopes')
  BY <1>1, <1>3, Now, Using
<1>5. QED
  BY <1>1, <1>2, <1>4, Now, Assembled

LEMMA UseGeneralStep ==
  ASSUME ScopesInv, NEW n \in Names, NEW m \in Names, use_general(n, m)
  PROVE  ScopesInv'
<1> DEFINE d == Qualified(here, n, m)
<1>1. /\ using_general' = Inserted(using_general, here, m, d)
      /\ UNCHANGED <<defs, members, c_structs, using_scopes, ancestors, open, type>>
  BY DEF use_general
<1>2. d \in 0..Len(defs) /\ Kind(d) \notin Tagged
  BY Now, QualifiedPlain DEF Plain
<1> HIDE DEF d
<1>3. KindIn(defs, d) \notin Tagged
  BY <1>2 DEF Kind, KindIn
<1>4. StoreIn(defs, members, c_structs, using_general')
  BY <1>1, <1>2, <1>3, Now, StoreUsed
<1>5. Extends(defs, defs')
  BY <1>1, Now, Bounds DEF Extends
<1>6. Grown
  BY <1>1, <1>4, <1>5 DEF Grown
<1>7. QED
  BY <1>1, <1>6, Now, Assembled

-----------------------------------------------------------------------------
(* The theorems.                                                           *)

LEMMA InvInit == Init => ScopesInv
<1>1. SUFFICES ASSUME Init PROVE Parts
  BY InvIs
<1> DEFINE first == Definition("namespace", "", None, None, FALSE)
           second == Definition("builtin", "int", None, None, TRUE)
<1>2. defs = <<first, second>> /\ type = None
  BY <1>1 DEF Init
<1>3. MaxDefs \in Nat /\ 2 \in 2..MaxDefs /\ MaxOpen \in Nat /\ 1 \in 1..MaxOpen /\ MaxUses \in Nat
  BY ConstantsAssumption
<1>4. first \in Entities /\ second \in Entities
  BY <1>3 DEF Definition, Entities, Kinds, ScopeKinds, None
<1> HIDE DEF first, second
<1>5. /\ defs \in Seq(Entities) /\ Len(defs) = 2 /\ defs[1] = first /\ defs[2] = second
  BY <1>2, <1>4
<1>6. 3..2 = {} /\ 2..1 = {}
  OBVIOUS
<1>7. DefsTyped(defs)
  BY <1>3, <1>5, <1>6 DEF DefsTyped
<1>8. RootedIn(defs)
  BY <1>5, <1>6 DEF RootedIn, first, second
<1> DEFINE empty == [s \in Slots |-> [n \in Names |-> None]]
<1>9. members = empty /\ c_structs = empty /\ using_general = empty
  BY <1>1 DEF Init
<1>10. empty \in Maps(Len(defs)) /\ \A s \in Slots, n \in Names : empty[s][n] = None
  BY <1>5 DEF Maps, None
<1> HIDE DEF empty
<1>11. KindIn(defs, None) \notin Tagged
  BY DEF KindIn, Tagged, Classes
<1>12. Entered(defs, members, c_structs)
  BY <1>5, <1>6 DEF Entered
<1>13. Held(defs, members, c_structs) /\ Sorted(defs, members, c_structs, using_general)
  BY <1>9, <1>10, <1>11 DEF Held, Sorted
<1>14. StoreIn(defs, members, c_structs, using_general)
  BY <1>7, <1>8, <1>9, <1>10, <1>12, <1>13 DEF StoreIn
<1>15. Links(Len(defs), using_scopes) /\ Links(Len(defs), ancestors)
  <2> DEFINE none == [s \in Slots |-> << >>]
  <2>1. using_scopes = none /\ ancestors = none
    BY <1>1 DEF Init
  <2>2. none \in [Slots -> Seq(1..Len(defs))] /\ \A s \in Slots : Len(none[s]) = 0
    OBVIOUS
  <2> HIDE DEF none
  <2>3. \A s \in Slots : Len(none[s]) <= MaxUses
    BY <1>3, <2>2
  <2>4. QED
    BY <2>1, <2>2, <2>3 DEF Links
<1>16. FramesIn(defs, c_structs, open)
  <2> DEFINE f == [scope |-> Global, by |-> "file"]
             F == [scope : 1..Len(defs), by : Frames]
  <2>1. open = <<f>>
    BY <1>1 DEF Init
  <2>2. f \in F
    BY <1>5 DEF Global, Frames
  <2> HIDE DEF f, F
  <2>3. open \in Seq(F) /\ Len(open) = 1 /\ open[1] = f
    BY <2>1, <2>2
  <2>4. QED
    BY <1>3, <1>6, <2>3 DEF FramesIn, f, F
<1>17. QED
  BY <1>2, <1>5, <1>14, <1>15, <1>16 DEF Parts, None

LEMMA InvStep == ScopesInv /\ [Next]_vars => ScopesInv'
<1>1. SUFFICES ASSUME ScopesInv, [Next]_vars PROVE ScopesInv'
  OBVIOUS
<1>2. CASE \E n \in Names, by \in {"namespace", "inline"} : handle_namespace(n, by)
  BY <1>1, <1>2, NamespaceStep
<1>3. CASE \E kind \in Classes, n \in Names : class_mention(kind, n) \/ class_body(kind, n)
  BY <1>1, <1>3, MentionStep, BodyStep
<1>4. CASE \E n, b \in Names, body \in BOOLEAN : class_bases(n, b, body)
  BY <1>1, <1>4, BasesStep
<1>5. CASE \E n \in Names : class_bad_base(n)
  BY <1>1, <1>5, BadBaseStep
<1>6. CASE \E n \in Names, typed, body \in BOOLEAN : handle_enum(n, typed, body)
  BY <1>1, <1>6, EnumStep
<1>7. CASE \E n \in Names : enumerator(n)
  BY <1>1, <1>7, EnumeratorStep
<1>8. CASE right_brace
  BY <1>1, <1>8, BraceStep
<1>9. CASE read_type
  BY <1>1, <1>9, TypeStep
<1>10. CASE \E n \in Names, typename \in BOOLEAN : declarator(n, typename)
  BY <1>1, <1>10, DeclaratorStep
<1>11. CASE semicolon
  BY <1>1, <1>11, SemicolonStep
<1>12. CASE \E n \in Names : use_namespace(look_up(here, n))
  <2>1. \A n \in Names : look_up(here, n) \in 0..Len(defs)
    BY <1>1, Now, LookUpTyped
  <2>2. QED
    BY <1>1, <1>12, <2>1, UseStep
<1>13. CASE \E n, m \in Names : use_namespace(Qualified(here, n, m))
  <2>1. \A n, m \in Names : Qualified(here, n, m) \in 0..Len(defs)
    BY <1>1, Now, QualifiedPlain DEF Plain
  <2>2. QED
    BY <1>1, <1>13, <2>1, UseStep
<1>14. CASE \E n, m \in Names : use_general(n, m)
  BY <1>1, <1>14, UseGeneralStep
<1>15. CASE UNCHANGED vars
  <2>1. UNCHANGED <<defs, maps, using_scopes, ancestors, open, type>>
    BY <1>15 DEF vars
  <2>2. Grown /\ UNCHANGED <<defs, c_structs, open>>
    BY <1>1, <2>1, NotGrown DEF maps
  <2>3. QED
    BY <1>1, <2>1, <2>2, Now, Assembled
<1>16. QED
  BY <1>1, <1>2, <1>3, <1>4, <1>5, <1>6, <1>7, <1>8, <1>9, <1>10, <1>11, <1>12, <1>13, <1>14,
     <1>15 DEF Next

(* The invariant holds in every reachable state.                           *)
THEOREM ScopesInvariant == Spec => []ScopesInv
BY InvInit, InvStep, PTL DEF Spec

(* Whatever is declared and whatever a handler recovers from, the maps and *)
(* lists stay within the definitions that were allocated, and a definition *)
(* refers to earlier ones only, so that the searches that follow parents   *)
(* and typedefs come to an end.                                            *)
THEOREM ScopesTyped == Spec => []TypeOK
<1>1. ScopesInv => TypeOK
  BY DEF ScopesInv
<1>2. QED
  BY <1>1, ScopesInvariant, PTL

(* Each definition is held by exactly one map, of the scope that is its    *)
(* parent and under its name: no declaration, redeclaration or failed one  *)
(* frees it while others point to it, or frees it twice.                   *)
THEOREM DefinitionsOwned == Spec => []Owned
<1>1. ScopesInv => Owned
  BY DEF ScopesInv
<1>2. QED
  BY <1>1, ScopesInvariant, PTL

(* A body goes to a class of the scope it is in, unless a tag of another   *)
(* kind in a scope between hides the class of an outer scope from          *)
(* get_location but not from look_up.                                      *)
THEOREM ClassesReopenedPastTags == Spec => []ReopenedPastTag
<1>1. ScopesInv => ReopenedPastTag
  BY DEF ScopesInv
<1>2. QED
  BY <1>1, ScopesInvariant, PTL

(* A struct, union or enumeration can be named by its tag in the scope     *)
(* that declares it, whatever else has that name there.                    *)
THEOREM StructsStayNameable == Spec => []StructsNameable
<1>1. ASSUME ScopesInv PROVE StructsNameable
  <2>1. SUFFICES ASSUME NEW s \in Defs, NEW n \in Names, c_structs[s][n] # None
                 PROVE  get_location(s, Kind(c_structs[s][n]), n) =
                          [class |-> c_structs[s][n], redeclare |-> FALSE, error |-> FALSE]
    BY DEF StructsNameable
  <2> DEFINE kind == Kind(c_structs[s][n])
             holders == Holders(s, n)
             nearest == Max(holders)
             same == holders # {} /\ Kind(c_structs[nearest][n]) = kind
             named == IF Kind(look_up(s, n)) = kind THEN look_up(s, n) ELSE None
  <2>2. holders # {} /\ nearest = s
    BY <1>1, <2>1, Now, NearestHere
  <2>3. get_location(s, kind, n) = [class |-> IF same THEN c_structs[nearest][n] ELSE named,
                                    redeclare |-> same /\ nearest # s,
                                    error |-> holders # {} /\ ~same /\ nearest = s]
    BY DEF get_location, Holders
  <2> HIDE DEF nearest, holders, named
  <2>4. same
    BY <2>2
  <2> HIDE DEF same
  <2>5. QED
    BY <2>2, <2>3, <2>4
<1>2. QED
  BY <1>1, ScopesInvariant, PTL

-----------------------------------------------------------------------------
(* What lookup goes through, hop by hop.                                   *)

Vias(scope, via) ==
  via = [k \in 0..MaxDefs |->
           IF k = 0 THEN {scope}
           ELSE via[k - 1] \union UNION {ToSet(Searched(s)) : s \in via[k - 1]}]

Via(scope) == CHOOSE via : Vias(scope, via)

Next1(X) == X \union UNION {ToSet(Searched(s)) : s \in X}

LEMMA ToSetIs ==
  ASSUME NEW q \in Seq(Defs)
  PROVE  /\ ToSet(q) \subseteq Defs
         /\ \A t : t \in ToSet(q) <=> \E i \in DOMAIN q : t = q[i]
BY DEF ToSet

LEMMA SearchedSlots ==
  ASSUME TypeOK, NEW s \in Slots
  PROVE  ToSet(Searched(s)) \subseteq Slots
BY SearchedTyped, ToSetIs, Bounds

LEMMA ViaExists ==
  ASSUME TypeOK, NEW scope \in Slots
  PROVE  Vias(scope, Via(scope))
<1> DEFINE D == 0..MaxDefs
           V == SUBSET Slots
           stop == {0}
           base == [k \in D |-> {scope}]
           next == [k \in D |-> k - 1]
           step == [k \in D |-> [X \in V |-> Next1(X)]]
<1>1. Descending(D, V, stop, base, next, step)
  <2>1. base \in [D -> V]
    OBVIOUS
  <2>2. step \in [D -> [V -> V]]
    <3>1. \A X \in V : Next1(X) \in V
      BY SearchedSlots DEF Next1
    <3> HIDE DEF D, V
    <3>2. QED
      BY <3>1
  <2>3. \A k \in D : k \notin stop => next[k] \in D /\ next[k] < k
    BY Bounds
  <2> HIDE DEF D, V, stop, base, next, step
  <2>4. QED
    BY <2>1, <2>2, <2>3 DEF Descending
<1>2. MaxDefs \in Nat /\ D \subseteq 0..MaxDefs
  BY Bounds
<1>3. PICK g \in [D -> V] : Descends(g, D, stop, base, next, step)
  <2> HIDE DEF D, V, stop, base, next, step
  <2>1. QED
    BY <1>1, <1>2, Descent
<1>4. \A k \in D : g[k] = IF k = 0 THEN {scope} ELSE Next1(g[k - 1])
  <2>1. TAKE k \in D
  <2>2. g[k] = IF k \in stop THEN base[k] ELSE step[k][g[next[k]]]
    <3> HIDE DEF D, V, stop, base, next, step
    <3>1. QED
      BY <1>3, <2>1 DEF Descends
  <2>3. CASE k = 0
    BY <2>2, <2>3
  <2>4. CASE k # 0
    <3>1. k - 1 \in D
      BY <1>2, <2>4
    <3>2. g[k - 1] \in V
      BY <1>3, <3>1
    <3>3. QED
      BY <2>2, <2>4, <3>1, <3>2
  <2>5. QED
    BY <2>3, <2>4
<1>5. Vias(scope, g)
  BY <1>3, <1>4 DEF Vias, Next1
<1>6. QED
  BY <1>5 DEF Via

LEMMA ViaIs ==
  ASSUME TypeOK, NEW scope \in Slots
  PROVE  /\ Via(scope)[0] = {scope}
         /\ \A k \in 0..MaxDefs :
              k + 1 <= MaxDefs => Via(scope)[k + 1] = Next1(Via(scope)[k])
         /\ Reaches(scope) = Via(scope)[MaxDefs]
<1> DEFINE via == Via(scope)
<1>1. Vias(scope, via)
  BY ViaExists
<1>2. Reaches(scope) = via[MaxDefs]
  BY DEF Reaches, Via, Vias
<1> HIDE DEF via
<1>3. \A k \in 0..MaxDefs : via[k] = IF k = 0 THEN {scope} ELSE Next1(via[k - 1])
  BY <1>1 DEF Vias, Next1
<1>4. via[0] = {scope}
  BY <1>3, Bounds
<1>5. ASSUME NEW k \in 0..MaxDefs, k + 1 <= MaxDefs
      PROVE  via[k + 1] = Next1(via[k])
  <2>1. k + 1 \in 0..MaxDefs /\ k + 1 # 0 /\ (k + 1) - 1 = k
    BY <1>5, Bounds
  <2>2. QED
    BY <1>3, <2>1
<1>6. QED
  BY <1>2, <1>4, <1>5 DEF via

LEMMA ViaSlots ==
  ASSUME TypeOK, NEW scope \in Slots
  PROVE  \A k \in 0..MaxDefs : Via(scope)[k] \subseteq Slots
<1> DEFINE T == {k \in Nat : k <= MaxDefs => Via(scope)[k] \subseteq Slots}
<1>1. 0 \in T
  BY ViaIs
<1>2. ASSUME NEW k \in Nat, k \in T PROVE k + 1 \in T
  <2>1. SUFFICES ASSUME k + 1 <= MaxDefs PROVE Via(scope)[k + 1] \subseteq Slots
    OBVIOUS
  <2>2. k \in 0..MaxDefs /\ k <= MaxDefs
    BY <2>1, Bounds
  <2>3. Via(scope)[k + 1] = Next1(Via(scope)[k])
    BY <2>1, <2>2, ViaIs
  <2>4. Via(scope)[k] \subseteq Slots
    BY <1>2, <2>2
  <2>5. QED
    BY <2>3, <2>4, SearchedSlots DEF Next1
<1>3. \A k \in Nat : k \in T
  <2> HIDE DEF T
  <2>1. QED
    BY <1>1, <1>2, Induction
<1>4. QED
  BY <1>3, Bounds

(* The first hop may as well be taken apart as the last one.               *)
LEMMA ViaFirst ==
  ASSUME TypeOK, NEW scope \in Slots
  PROVE  \A k \in 0..MaxDefs : k + 1 <= MaxDefs =>
           Via(scope)[k + 1] = {scope} \union UNION {Via(t)[k] : t \in ToSet(Searched(scope))}
<1> DEFINE S == ToSet(Searched(scope))
           Apart(k) == Via(scope)[k + 1] = {scope} \union UNION {Via(t)[k] : t \in S}
           T == {k \in Nat : k + 1 <= MaxDefs => Apart(k)}
<1>1. S \subseteq Slots
  BY SearchedSlots
<1>2. 0 \in T
  <2>1. Via(scope)[0] = {scope} /\ \A t \in S : Via(t)[0] = {t}
    BY <1>1, ViaIs
  <2>2. UNION {Via(t)[0] : t \in S} = S
    <3> HIDE DEF S
    <3>1. QED
      BY <2>1
  <2>3. 0 + 1 <= MaxDefs => Via(scope)[0 + 1] = Next1({scope})
    <3>1. 0 \in 0..MaxDefs
      BY Bounds
    <3>2. QED
      BY <2>1, <3>1, ViaIs
  <2>4. Next1({scope}) = {scope} \union S
    BY DEF Next1
  <2>5. Apart(0) \/ ~(0 + 1 <= MaxDefs)
    <3> HIDE DEF S
    <3>1. QED
      BY <2>2, <2>3, <2>4
  <2> HIDE DEF Apart
  <2>6. QED
    BY <2>5
<1>3. ASSUME NEW k \in Nat, k \in T PROVE k + 1 \in T
  <2>1. SUFFICES ASSUME (k + 1) + 1 <= MaxDefs PROVE Apart(k + 1)
    <3> HIDE DEF Apart
    <3>1. QED
      OBVIOUS
  <2>2. /\ k \in 0..MaxDefs /\ k + 1 \in 0..MaxDefs /\ k + 1 <= MaxDefs
    BY <2>1, Bounds
  <2>3. Via(scope)[k + 1] = {scope} \union UNION {Via(t)[k] : t \in S}
    BY <1>3, <2>2
  <2>4. Via(scope)[(k + 1) + 1] = Next1(Via(scope)[k + 1])
    BY <2>1, <2>2, ViaIs
  <2>5. \A t \in S : Via(t)[k + 1] = Next1(Via(t)[k])
    BY <1>1, <2>2, ViaIs
  <2>6. \A t \in S : t \in Via(t)[k + 1]
    <3> DEFINE U == {j \in Nat : j <= MaxDefs => \A t \in S : t \in Via(t)[j]}
    <3>1. 0 \in U
      BY <1>1, ViaIs
    <3>2. ASSUME NEW j \in Nat, j \in U PROVE j + 1 \in U
      <4>1. SUFFICES ASSUME j + 1 <= MaxDefs, NEW t \in S PROVE t \in Via(t)[j + 1]
        OBVIOUS
      <4>2. j \in 0..MaxDefs /\ j <= MaxDefs
        BY <4>1, Bounds
      <4>3. Via(t)[j + 1] = Next1(Via(t)[j])
        BY <1>1, <4>1, <4>2, ViaIs
      <4>4. t \in Via(t)[j]
        BY <3>2, <4>1, <4>2
      <4>5. QED
        BY <4>3, <4>4 DEF Next1
    <3>3. \A j \in Nat : j \in U
      <4> HIDE DEF U
      <4>1. QED
        BY <3>1, <3>2, Induction
    <3>4. QED
      BY <2>2, <3>3
  <2>7. Next1(Via(scope)[k + 1]) = {scope} \union UNION {Via(t)[k + 1] : t \in S}
    <3>1. ASSUME NEW u \in Next1(Via(scope)[k + 1])
          PROVE  u \in {scope} \union UNION {Via(t)[k + 1] : t \in S}
      <4>1. CASE u \in Via(scope)[k + 1]
        <5>1. u = scope \/ \E t \in S : u \in Via(t)[k]
          BY <2>3, <4>1
        <5>2. \A t \in S : Via(t)[k] \subseteq Via(t)[k + 1]
          BY <2>5 DEF Next1
        <5>3. QED
          BY <5>1, <5>2
      <4>2. CASE \E v \in Via(scope)[k + 1] : u \in ToSet(Searched(v))
        <5>1. PICK v \in Via(scope)[k + 1] : u \in ToSet(Searched(v))
          BY <4>2
        <5>2. CASE v = scope
          BY <2>6, <5>1, <5>2
        <5>3. CASE v # scope
          <6>1. PICK t \in S : v \in Via(t)[k]
            BY <2>3, <5>1, <5>3
          <6>2. u \in Via(t)[k + 1]
            BY <2>5, <5>1, <6>1 DEF Next1
          <6>3. QED
            BY <6>2
        <5>4. QED
          BY <5>2, <5>3
      <4>3. QED
        BY <3>1, <4>1, <4>2 DEF Next1
    <3>2. ASSUME NEW u \in {scope} \union UNION {Via(t)[k + 1] : t \in S}
          PROVE  u \in Next1(Via(scope)[k + 1])
      <4>1. CASE u = scope
        BY <2>3, <4>1 DEF Next1
      <4>2. CASE \E t \in S : u \in Via(t)[k + 1]
        <5>1. PICK t \in S : u \in Via(t)[k + 1]
          BY <4>2
        <5>2. Via(t)[k] \subseteq Via(scope)[k + 1]
          BY <2>3
        <5>3. u \in Next1(Via(t)[k])
          BY <2>5, <5>1
        <5>4. QED
          BY <5>2, <5>3 DEF Next1
      <4>3. QED
        BY <3>2, <4>1, <4>2
    <3>3. QED
      BY <3>1, <3>2
  <2>8. QED
    BY <2>4, <2>7
<1>4. \A k \in Nat : k \in T
  <2> HIDE DEF T
  <2>1. QED
    BY <1>2, <1>3, Induction
<1>5. QED
  BY <1>4, Bounds

-----------------------------------------------------------------------------
(* What lookup finds.                                                      *)

LEMMA FirstFinds ==
  ASSUME NEW f, NEW n \in Nat, DOMAIN f \subseteq 1..n
  PROVE  /\ First(f) # None => \E i \in DOMAIN f : First(f) = f[i]
         /\ First(f) = None => \A i \in DOMAIN f : f[i] = None
<1> DEFINE hits == {i \in DOMAIN f : f[i] # None}
<1>1. CASE hits = {}
  BY <1>1 DEF First
<1>2. CASE hits # {}
  <2>1. hits \subseteq Nat
    OBVIOUS
  <2>2. \E m \in hits : \A k \in hits : m <= k
    <3> HIDE DEF hits
    <3>1. QED
      BY <1>2, <2>1, Least
  <2>3. Min(hits) \in hits
    <3> HIDE DEF hits
    <3>1. QED
      BY <2>2 DEF Min
  <2>4. First(f) = f[Min(hits)]
    BY <1>2 DEF First
  <2>5. QED
    BY <2>3, <2>4
<1>3. QED
  BY <1>1, <1>2

Find(n) == CHOOSE find : Finds(n, find)

Rest(n, k, s) == First([i \in DOMAIN Searched(s) |-> Find(n)[k][Searched(s)[i]]])

LEMMA FindIs ==
  ASSUME TypeOK, Owned, Tags, NEW n \in Names
  PROVE  /\ \A s \in Slots : Find(n)[0][s] = None
         /\ \A k \in 0..MaxDefs, s \in Slots : k + 1 <= MaxDefs =>
              Find(n)[k + 1][s] = IF Own(s, n) # None THEN Own(s, n) ELSE Rest(n, k, s)
         /\ \A s : find_local(s, n) = Find(n)[MaxDefs][s]
<1> DEFINE find == Find(n)
<1>1. Finds(n, find)
  BY FindExists DEF Find
<1>2. \A s : find_local(s, n) = find[MaxDefs][s]
  BY DEF find_local, Finds, Find
<1>3. find[0] = [s \in Slots |-> None]
  <2> HIDE DEF find
  <2>1. QED
    BY <1>1, Bounds DEF Finds
<1>4. ASSUME NEW k \in 0..MaxDefs, k + 1 <= MaxDefs
      PROVE  find[k + 1] = Round(n, find[k])
  <2>1. k + 1 \in 0..MaxDefs /\ k + 1 # 0 /\ (k + 1) - 1 = k
    BY <1>4, Bounds
  <2> HIDE DEF find
  <2>2. QED
    BY <1>1, <2>1 DEF Finds, Round
<1>5. \A s \in Slots : find[0][s] = None
  <2> HIDE DEF find
  <2>1. QED
    BY <1>3
<1>6. ASSUME NEW k \in 0..MaxDefs, NEW s \in Slots, k + 1 <= MaxDefs
      PROVE  find[k + 1][s] = IF Own(s, n) # None THEN Own(s, n) ELSE Rest(n, k, s)
  <2>1. Round(n, find[k])[s] = IF Own(s, n) # None THEN Own(s, n) ELSE Rest(n, k, s)
    BY DEF Round, Rest
  <2> HIDE DEF find
  <2>2. QED
    BY <1>4, <1>6, <2>1
<1> HIDE DEF find
<1>7. QED
  BY <1>2, <1>5, <1>6 DEF find

LEMMA RestIs ==
  ASSUME TypeOK, NEW n, NEW k, NEW s \in Slots
  PROVE  /\ Rest(n, k, s) # None => \E t \in ToSet(Searched(s)) : Rest(n, k, s) = Find(n)[k][t]
         /\ Rest(n, k, s) = None => \A t \in ToSet(Searched(s)) : Find(n)[k][t] = None
<1> DEFINE q == Searched(s)
           f == [i \in DOMAIN q |-> Find(n)[k][q[i]]]
<1>1. q \in Seq(Defs)
  BY SearchedTyped
<1> HIDE DEF q
<1>2. Len(q) \in Nat /\ DOMAIN f \subseteq 1..Len(q) /\ DOMAIN f = DOMAIN q
  BY <1>1
<1>3. \A i \in DOMAIN q : f[i] = Find(n)[k][q[i]]
  OBVIOUS
<1>4. Rest(n, k, s) = First(f)
  BY DEF Rest, q
<1> HIDE DEF f
<1>5. /\ First(f) # None => \E i \in DOMAIN f : First(f) = f[i]
      /\ First(f) = None => \A i \in DOMAIN f : f[i] = None
  BY <1>2, FirstFinds
<1>6. \A t : t \in ToSet(q) <=> \E i \in DOMAIN q : t = q[i]
  BY <1>1, ToSetIs
<1>7. /\ Rest(n, k, s) # None => \E t \in ToSet(q) : Rest(n, k, s) = Find(n)[k][t]
      /\ Rest(n, k, s) = None => \A t \in ToSet(q) : Find(n)[k][t] = None
  BY <1>2, <1>3, <1>4, <1>5, <1>6
<1>8. QED
  BY <1>7 DEF q

(* find_local finds a definition of a scope that it goes through, and      *)
(* misses none.                                                            *)
LEMMA FindsAll ==
  ASSUME TypeOK, Owned, Tags, NEW n \in Names
  PROVE  \A k \in 0..MaxDefs : k + 1 <= MaxDefs => \A s \in Slots :
           /\ Find(n)[k + 1][s] # None => \E t \in Via(s)[k] : Find(n)[k + 1][s] = Own(t, n)
           /\ Find(n)[k + 1][s] = None => \A t \in Via(s)[k] : Own(t, n) = None
<1> DEFINE All(k, s) ==
             /\ Find(n)[k + 1][s] # None => \E t \in Via(s)[k] : Find(n)[k + 1][s] = Own(t, n)
             /\ Find(n)[k + 1][s] = None => \A t \in Via(s)[k] : Own(t, n) = None
           T == {k \in Nat : k + 1 <= MaxDefs => \A s \in Slots : All(k, s)}
<1>1. 0 \in T
  <2>1. SUFFICES ASSUME 0 + 1 <= MaxDefs, NEW s \in Slots PROVE All(0, s)
    <3> HIDE DEF All
    <3>1. QED
      OBVIOUS
  <2>2. 0 \in 0..MaxDefs
    BY Bounds
  <2>3. Find(n)[0 + 1][s] = IF Own(s, n) # None THEN Own(s, n) ELSE Rest(n, 0, s)
    BY <2>1, <2>2, FindIs
  <2>4. Rest(n, 0, s) = None
    BY RestIs, FindIs, SearchedSlots
  <2>5. Via(s)[0] = {s}
    BY ViaIs
  <2>6. QED
    BY <2>3, <2>4, <2>5
<1>2. ASSUME NEW k \in Nat, k \in T PROVE k + 1 \in T
  <2>1. SUFFICES ASSUME (k + 1) + 1 <= MaxDefs, NEW s \in Slots PROVE All(k + 1, s)
    <3> HIDE DEF All
    <3>1. QED
      OBVIOUS
  <2>2. k \in 0..MaxDefs /\ k + 1 \in 0..MaxDefs /\ k + 1 <= MaxDefs
    BY <2>1, Bounds
  <2>3. \A t \in Slots : All(k, t)
    <3> HIDE DEF All
    <3>1. QED
      BY <1>2, <2>2
  <2>4. Find(n)[(k + 1) + 1][s] = IF Own(s, n) # None THEN Own(s, n) ELSE Rest(n, k + 1, s)
    BY <2>1, <2>2, FindIs
  <2>5. Via(s)[k + 1] = {s} \union UNION {Via(t)[k] : t \in ToSet(Searched(s))}
    BY <2>2, ViaFirst
  <2>6. ToSet(Searched(s)) \subseteq Slots
    BY SearchedSlots
  <2>7. CASE Own(s, n) # None
    BY <2>4, <2>5, <2>7
  <2>8. CASE Own(s, n) = None
    <3>1. Find(n)[(k + 1) + 1][s] = Rest(n, k + 1, s)
      BY <2>4, <2>8
    <3>2. CASE Rest(n, k + 1, s) = None
      <4>1. \A t \in ToSet(Searched(s)) : Find(n)[k + 1][t] = None
        BY <3>2, RestIs
      <4>2. \A t \in ToSet(Searched(s)) : \A u \in Via(t)[k] : Own(u, n) = None
        BY <2>3, <2>6, <4>1
      <4>3. QED
        BY <2>5, <2>8, <3>1, <3>2, <4>2
    <3>3. CASE Rest(n, k + 1, s) # None
      <4>1. PICK t \in ToSet(Searched(s)) : Rest(n, k + 1, s) = Find(n)[k + 1][t]
        BY <3>3, RestIs
      <4>2. \E u \in Via(t)[k] : Find(n)[k + 1][t] = Own(u, n)
        BY <2>3, <2>6, <3>3, <4>1
      <4>3. QED
        BY <2>5, <3>1, <3>3, <4>1, <4>2
    <3>4. QED
      BY <3>2, <3>3
  <2>9. QED
    BY <2>7, <2>8
<1>3. \A k \in Nat : k \in T
  <2> HIDE DEF T
  <2>1. QED
    BY <1>1, <1>2, Induction
<1>4. QED
  BY <1>3, Bounds

(* A scope finds what it offers, what is in it first.                      *)
LEMMA HereOffered ==
  ASSUME TypeOK, Owned, Tags, NEW s \in Slots, NEW n \in Names
  PROVE  /\ Here(s, n) # None => Here(s, n) \in Offers(s, n)
         /\ Here(s, n) = None => Offers(s, n) = {}
         /\ OwnFirst(s, n, Here(s, n))
<1> DEFINE S == ToSet(Searched(s))
           k == MaxDefs - 1
<1>1. k \in 0..MaxDefs /\ k + 1 = MaxDefs /\ k + 1 <= MaxDefs
  BY Bounds
<1>2. Reaches(s) = {s} \union UNION {Via(t)[k] : t \in S}
  <2>1. Reaches(s) = Via(s)[k + 1]
    BY <1>1, ViaIs
  <2> HIDE DEF k
  <2>2. QED
    BY <1>1, <2>1, ViaFirst
<1>3. S \subseteq Slots
  BY SearchedSlots
<1>4. FindIn(Searched(s), n) = Rest(n, MaxDefs, s)
  BY FindIs DEF FindIn, Rest
<1> HIDE DEF k
<1>5. \A t \in S : /\ Find(n)[MaxDefs][t] # None => \E u \in Via(t)[k] : Find(n)[MaxDefs][t] = Own(u, n)
                   /\ Find(n)[MaxDefs][t] = None => \A u \in Via(t)[k] : Own(u, n) = None
  BY <1>1, <1>3, FindsAll
<1>6. /\ FindIn(Searched(s), n) # None =>
           \E t \in Reaches(s) : FindIn(Searched(s), n) = Own(t, n)
      /\ FindIn(Searched(s), n) = None => \A t \in Reaches(s) \ {s} : Own(t, n) = None
  <2>1. CASE FindIn(Searched(s), n) = None
    <3>1. Rest(n, MaxDefs, s) = None
      BY <1>4, <2>1
    <3>2. \A t \in ToSet(Searched(s)) : Find(n)[MaxDefs][t] = None
      BY <3>1, RestIs
    <3>3. QED
      BY <1>2, <1>5, <2>1, <3>2
  <2>2. CASE FindIn(Searched(s), n) # None
    <3>1. \E t \in S : FindIn(Searched(s), n) = Find(n)[MaxDefs][t]
      BY <1>4, <2>2, RestIs
    <3>2. QED
      BY <1>2, <1>5, <2>2, <3>1
  <2>3. QED
    BY <2>1, <2>2
<1>7. s \in Reaches(s)
  BY <1>2
<1> HIDE DEF S
<1>8. Here(s, n) # None => Here(s, n) \in Offers(s, n)
  BY <1>6, <1>7 DEF Here, Offers
<1>9. Here(s, n) = None => Offers(s, n) = {}
  BY <1>6 DEF Here, Offers
<1>10. OwnFirst(s, n, Here(s, n))
  BY DEF Here, Own, OwnFirst
<1>11. QED
  BY <1>8, <1>9, <1>10

LEMMA EnclosingParent ==
  ASSUME TypeOK, Rooted, NEW s \in Defs
  PROVE  /\ defs[s].parent = None => Enclosing(s) = {s}
         /\ defs[s].parent # None =>
              /\ defs[s].parent \in Defs /\ defs[s].parent < s
              /\ Enclosing(s) = {s} \union Enclosing(defs[s].parent)
<1>1. s \in 1..Len(defs) /\ s \in Nat /\ Len(defs) \in Nat
  BY Bounds DEF Defs
<1>2. Enclosing(s) = {s} \union IF defs[s].parent = None THEN {} ELSE Enclosing(defs[s].parent)
  BY <1>1, EnclosingIs, Parents, UpIs
<1>3. defs[s].parent # None => defs[s].parent \in Defs /\ defs[s].parent < s
  <2>1. defs[s].parent = None \/ defs[s].parent \in 1..(s - 1)
    BY <1>1, Parents DEF Family
  <2>2. QED
    BY <1>1, <2>1 DEF Defs
<1>4. QED
  BY <1>2, <1>3

LEMMA FoundNearest ==
  ASSUME TypeOK, Rooted, Owned, Tags, NEW n \in Names
  PROVE  \A s \in Defs :
           LET offering == {e \in Enclosing(s) : Offers(e, n) # {}}
               nearest == Max(offering)
               found == look_up(s, n)
           IN IF offering = {} THEN found = None
              ELSE /\ found \in Offers(nearest, n)
                   /\ OwnFirst(nearest, n, found)
<1> DEFINE Offering(s) == {e \in Enclosing(s) : Offers(e, n) # {}}
           P(s) == IF Offering(s) = {} THEN look_up(s, n) = None
                   ELSE /\ look_up(s, n) \in Offers(Max(Offering(s)), n)
                        /\ OwnFirst(Max(Offering(s)), n, look_up(s, n))
           T == {s \in Defs : ~P(s)}
<1>1. ASSUME T # {} PROVE FALSE
  <2>1. PICK m \in T : \A j \in T : m <= j
    <3>1. T \subseteq Nat
      BY Bounds DEF Defs
    <3> HIDE DEF T
    <3>2. QED
      BY <1>1, <3>1, Least
  <2>2. m \in Defs /\ m \in Nat /\ m \in Slots /\ ~P(m)
    BY Bounds DEF Defs
  <2>3. look_up(m, n) = IF Here(m, n) # None \/ defs[m].parent = None THEN Here(m, n)
                        ELSE look_up(defs[m].parent, n)
    BY <2>2, LookUp
  <2>4. /\ Here(m, n) # None => Here(m, n) \in Offers(m, n)
        /\ Here(m, n) = None => Offers(m, n) = {}
        /\ OwnFirst(m, n, Here(m, n))
    BY <2>2, HereOffered
  <2>5. CASE Here(m, n) # None
    <3>1. m \in Offering(m) /\ Offering(m) \subseteq 1..m
      BY <2>2, <2>4, <2>5, EnclosingWithin
    <3>2. Max(Offering(m)) = m
      <4>1. Offering(m) \subseteq 0..m /\ Offering(m) # {}
        BY <3>1, <2>2
      <4> HIDE DEF Offering
      <4>2. Max(Offering(m)) \in Offering(m) /\ m <= Max(Offering(m))
        BY <2>2, <3>1, <4>1, MaxIs
      <4>3. Max(Offering(m)) \in 1..m
        BY <3>1, <4>2
      <4>4. QED
        BY <2>2, <4>2, <4>3
    <3>3. look_up(m, n) = Here(m, n)
      BY <2>3, <2>5
    <3> HIDE DEF Offering
    <3>4. P(m)
      BY <2>4, <2>5, <3>1, <3>2, <3>3
    <3>5. QED
      BY <2>2, <3>4
  <2>6. CASE Here(m, n) = None /\ defs[m].parent = None
    <3>1. Offering(m) = {}
      BY <2>2, <2>4, <2>6, EnclosingParent
    <3>2. look_up(m, n) = None
      BY <2>3, <2>6
    <3> HIDE DEF Offering
    <3>3. QED
      BY <2>2, <3>1, <3>2
  <2>7. CASE Here(m, n) = None /\ defs[m].parent # None
    <3> DEFINE p == defs[m].parent
    <3>1. p \in Defs /\ p < m /\ Enclosing(m) = {m} \union Enclosing(p)
      BY <2>2, <2>7, EnclosingParent
    <3>2. Offering(m) = Offering(p)
      BY <2>4, <2>7, <3>1
    <3>3. look_up(m, n) = look_up(p, n)
      BY <2>3, <2>7
    <3>4. P(p)
      <4>1. ~(m <= p)
        BY <2>2, <3>1, Bounds DEF Defs
      <4> HIDE DEF P, p
      <4>2. QED
        BY <2>1, <3>1, <4>1
    <3> HIDE DEF Offering, p
    <3>5. QED
      BY <2>2, <3>2, <3>3, <3>4
  <2>8. QED
    BY <2>5, <2>6, <2>7
<1>2. QED
  BY <1>1

(* look_up finds what the nearest scope offers, and finds something        *)
(* wherever a scope around offers it; own definitions hide those of the    *)
(* scopes that are used or inherited from.                                 *)
THEOREM LookupFindsNearest == Spec => []LooksUpNearest
<1>1. ScopesInv => LooksUpNearest
  BY FoundNearest, Now DEF LooksUpNearest, ScopesMade
<1>2. QED
  BY <1>1, ScopesInvariant, PTL

-----------------------------------------------------------------------------
(* What a step leaves alone.                                               *)

(* Lookup, said of any state, so that it can be said of the next one.      *)
Finding ==
  \A n \in Names :
    /\ \A s \in Slots : Find(n)[0][s] = None
    /\ \A k \in 0..MaxDefs, s \in Slots : k + 1 <= MaxDefs =>
         Find(n)[k + 1][s] = IF Own(s, n) # None THEN Own(s, n) ELSE Rest(n, k, s)
    /\ \A s \in Slots : FindIn(Searched(s), n) = Rest(n, MaxDefs, s)

Looking ==
  \A n \in Names, s \in Defs :
    /\ defs[s].parent = None => look_up(s, n) = Here(s, n)
    /\ \A p \in Defs : defs[s].parent = p =>
         look_up(s, n) = IF Here(s, n) # None THEN Here(s, n) ELSE look_up(p, n)

LEMMA Searches == ScopesInv => Finding /\ Looking
<1>1. SUFFICES ASSUME ScopesInv PROVE Finding /\ Looking
  OBVIOUS
<1>2. Finding
  <2>1. ASSUME NEW n \in Names, NEW s \in Slots
        PROVE  FindIn(Searched(s), n) = Rest(n, MaxDefs, s)
    BY <1>1, Now, FindIs DEF FindIn, Rest
  <2>2. QED
    BY <1>1, <2>1, Now, FindIs DEF Finding
<1>3. Looking
  <2>1. ASSUME NEW n \in Names, NEW s \in Defs
        PROVE  look_up(s, n) = IF Here(s, n) # None \/ defs[s].parent = None THEN Here(s, n)
                               ELSE look_up(defs[s].parent, n)
    BY <1>1, Now, LookUp
  <2>2. \A p \in Defs : p # None
    BY <1>1, Now, KindOf
  <2>3. QED
    BY <2>1, <2>2 DEF Looking
<1>4. QED
  BY <1>2, <1>3

LEMMA SearchesNext == ScopesInv' => Finding' /\ Looking'
BY Searches, PTL

Same(t) ==
  /\ members'[t] = members[t] /\ c_structs'[t] = c_structs[t]
  /\ using_general'[t] = using_general[t]
  /\ using_scopes'[t] = using_scopes[t] /\ ancestors'[t] = ancestors[t]

LEMMA SameSearch ==
  ASSUME NEW t, Same(t), NEW n
  PROVE  Own(t, n)' = Own(t, n) /\ Searched(t)' = Searched(t)
BY DEF Same, Own, Searched

LEMMA ViaGrows ==
  ASSUME TypeOK, NEW scope \in Slots
  PROVE  \A j \in 0..MaxDefs : Via(scope)[j] \subseteq Reaches(scope)
<1> DEFINE T == {d \in Nat : \A j \in 0..MaxDefs :
                               j + d <= MaxDefs => Via(scope)[j] \subseteq Via(scope)[j + d]}
<1>1. 0 \in T
  <2>1. \A j \in 0..MaxDefs : j + 0 = j
    BY Bounds
  <2>2. QED
    BY <2>1
<1>2. ASSUME NEW d \in Nat, d \in T PROVE d + 1 \in T
  <2>1. SUFFICES ASSUME NEW j \in 0..MaxDefs, j + (d + 1) <= MaxDefs
                 PROVE  Via(scope)[j] \subseteq Via(scope)[j + (d + 1)]
    OBVIOUS
  <2>2. j + d \in 0..MaxDefs /\ j + d <= MaxDefs /\ (j + d) + 1 <= MaxDefs
        /\ (j + d) + 1 = j + (d + 1)
    BY <2>1, Bounds
  <2>3. Via(scope)[j] \subseteq Via(scope)[j + d]
    BY <1>2, <2>2
  <2>4. Via(scope)[(j + d) + 1] = Next1(Via(scope)[j + d])
    BY <2>2, ViaIs
  <2>5. QED
    BY <2>2, <2>3, <2>4 DEF Next1
<1>3. \A d \in Nat : d \in T
  <2> HIDE DEF T
  <2>1. QED
    BY <1>1, <1>2, Induction
<1>4. ASSUME NEW j \in 0..MaxDefs PROVE Via(scope)[j] \subseteq Reaches(scope)
  <2>1. MaxDefs - j \in Nat /\ j + (MaxDefs - j) = MaxDefs /\ MaxDefs <= MaxDefs
    BY Bounds
  <2>2. MaxDefs - j \in T
    BY <1>3, <2>1
  <2>3. Via(scope)[j] \subseteq Via(scope)[MaxDefs]
    BY <2>1, <2>2
  <2>4. QED
    BY <2>3, ViaIs
<1>5. QED
  BY <1>4

LEMMA RestSame ==
  ASSUME TypeOK, NEW n, NEW k, NEW s \in Slots, Searched(s)' = Searched(s),
         \A t \in ToSet(Searched(s)) : Find(n)'[k][t] = Find(n)[k][t]
  PROVE  Rest(n, k, s)' = Rest(n, k, s)
<1> DEFINE q == Searched(s)
           f == [i \in DOMAIN q |-> Find(n)[k][q[i]]]
           g == [i \in DOMAIN q |-> Find(n)'[k][q[i]]]
<1>1. \A i \in DOMAIN q : q[i] \in ToSet(q)
  BY SearchedTyped, ToSetIs
<1>2. f = g
  BY <1>1
<1>3. Rest(n, k, s) = First(f) /\ Rest(n, k, s)' = First(g)
  BY DEF Rest
<1>4. QED
  BY <1>2, <1>3

LEMMA FindSame ==
  ASSUME ScopesInv, ScopesInv', NEW n \in Names, NEW e \in Slots,
         \A t \in Reaches(e) : Same(t)
  PROVE  \A k \in 0..MaxDefs, j \in 0..MaxDefs : j + k <= MaxDefs + 1 =>
           \A t \in Via(e)[j] : Find(n)'[k][t] = Find(n)[k][t]
<1> DEFINE T == {k \in Nat : k <= MaxDefs => \A j \in 0..MaxDefs : j + k <= MaxDefs + 1 =>
                   \A t \in Via(e)[j] : Find(n)'[k][t] = Find(n)[k][t]}
<1>1. TypeOK /\ MaxDefs \in Nat /\ Finding /\ Finding'
  BY Now, Bounds, Searches, SearchesNext
<1>2. \A t \in Slots : Find(n)'[0][t] = Find(n)[0][t]
  <2>1. \A t \in Slots : Find(n)[0][t] = None
    BY <1>1 DEF Finding
  <2>2. \A t \in Slots : Find(n)'[0][t] = None
    BY <1>1 DEF Finding
  <2>3. QED
    BY <2>1, <2>2
<1>3. 0 \in T
  BY <1>1, <1>2, ViaSlots
<1>4. ASSUME NEW k \in Nat, k \in T PROVE k + 1 \in T
  <2>1. SUFFICES ASSUME k + 1 <= MaxDefs, NEW j \in 0..MaxDefs, j + (k + 1) <= MaxDefs + 1,
                        NEW t \in Via(e)[j]
                 PROVE  Find(n)'[k + 1][t] = Find(n)[k + 1][t]
    OBVIOUS
  <2>2. k \in 0..MaxDefs /\ k <= MaxDefs
    BY <1>1, <2>1
  <2>3. t \in Slots /\ t \in Reaches(e)
    BY <1>1, <2>1, ViaSlots, ViaGrows
  <2>4. Own(t, n)' = Own(t, n) /\ Searched(t)' = Searched(t)
    BY <2>3, SameSearch
  <2>5. \A u \in ToSet(Searched(t)) : Find(n)'[k][u] = Find(n)[k][u]
    <3>1. CASE k = 0
      BY <1>1, <1>2, <2>3, <3>1, SearchedSlots
    <3>2. CASE k # 0
      <4>1. j + 1 \in 0..MaxDefs /\ j + 1 <= MaxDefs /\ (j + 1) + k <= MaxDefs + 1
        BY <1>1, <2>1, <2>2, <3>2
      <4>2. Via(e)[j + 1] = Next1(Via(e)[j])
        BY <1>1, <2>1, <4>1, ViaIs
      <4>3. ToSet(Searched(t)) \subseteq Via(e)[j + 1]
        BY <2>1, <4>2 DEF Next1
      <4>4. QED
        BY <1>4, <2>2, <4>1, <4>3
    <3>3. QED
      BY <3>1, <3>2
  <2>6. Rest(n, k, t)' = Rest(n, k, t)
    BY <1>1, <2>3, <2>4, <2>5, RestSame
  <2>7. Find(n)[k + 1][t] = IF Own(t, n) # None THEN Own(t, n) ELSE Rest(n, k, t)
    BY <1>1, <2>1, <2>2, <2>3 DEF Finding
  <2>8. Find(n)'[k + 1][t] = IF Own(t, n)' # None THEN Own(t, n)' ELSE Rest(n, k, t)'
    BY <1>1, <2>1, <2>2, <2>3 DEF Finding
  <2>9. QED
    BY <2>4, <2>6, <2>7, <2>8
<1>5. \A k \in Nat : k \in T
  <2> HIDE DEF T
  <2>1. QED
    BY <1>3, <1>4, Induction
<1>6. QED
  BY <1>1, <1>5

(* A scope finds the same when all that its lookup goes through is the     *)
(* same.                                                                   *)
LEMMA HereSame ==
  ASSUME ScopesInv, ScopesInv', Extends(defs, defs'), NEW n \in Names, NEW e \in Defs,
         \A t \in Reaches(e) : Same(t)
  PROVE  Here(e, n)' = Here(e, n)
<1>1. TypeOK /\ MaxDefs \in Nat /\ MaxDefs >= 2 /\ Finding /\ Finding' /\ e \in Slots
  BY Now, Bounds, Searches, SearchesNext, ConstantsAssumption
<1>2. e \in Via(e)[0] /\ Via(e)[0] \subseteq Reaches(e) /\ 0 \in 0..MaxDefs
  BY <1>1, ViaIs, ViaGrows
<1>3. Same(e)
  BY <1>2
<1>4. Own(e, n)' = Own(e, n) /\ Searched(e)' = Searched(e)
  BY <1>3, SameSearch
<1>5. ToSet(Searched(e)) \subseteq Via(e)[1]
  <2>1. Via(e)[0 + 1] = Next1(Via(e)[0])
    BY <1>1, <1>2, ViaIs
  <2>2. QED
    BY <1>2, <2>1 DEF Next1
<1>6. \A t \in ToSet(Searched(e)) : Find(n)'[MaxDefs][t] = Find(n)[MaxDefs][t]
  <2>1. MaxDefs \in 0..MaxDefs /\ 1 \in 0..MaxDefs /\ 1 + MaxDefs <= MaxDefs + 1
    BY <1>1
  <2>2. QED
    BY <1>1, <1>5, <2>1, FindSame
<1>7. Rest(n, MaxDefs, e)' = Rest(n, MaxDefs, e)
  BY <1>1, <1>4, <1>6, RestSame
<1>8. /\ FindIn(Searched(e), n) = Rest(n, MaxDefs, e)
      /\ FindIn(Searched(e), n)' = Rest(n, MaxDefs, e)'
  BY <1>1 DEF Finding
<1>9. Structs(e, n)' = Structs(e, n)
  <2>1. defs'[e] = defs[e]
    BY DEF Extends, Defs
  <2>2. Kind(e)' = Kind(e)
    BY <2>1 DEF Kind
  <2>3. QED
    BY <1>3, <2>2 DEF Structs, Same
<1>10. QED
  BY <1>4, <1>7, <1>8, <1>9 DEF Here

LEMMA LookSame ==
  ASSUME ScopesInv, ScopesInv', Extends(defs, defs'), NEW n \in Names
  PROVE  \A s \in Defs : (\A e \in Enclosing(s) : Here(e, n)' = Here(e, n)) =>
           look_up(s, n)' = look_up(s, n)
<1> DEFINE P(s) == (\A e \in Enclosing(s) : Here(e, n)' = Here(e, n)) =>
                     look_up(s, n)' = look_up(s, n)
           T == {s \in Defs : ~P(s)}
<1>1. TypeOK /\ Rooted /\ Looking /\ Looking'
  BY Now, Searches, SearchesNext
<1>2. ASSUME T # {} PROVE FALSE
  <2>1. PICK m \in T : \A j \in T : m <= j
    <3>1. T \subseteq Nat
      BY <1>1, Bounds DEF Defs
    <3> HIDE DEF T
    <3>2. QED
      BY <1>2, <3>1, Least
  <2>2. m \in Defs /\ m \in Nat /\ (\A e \in Enclosing(m) : Here(e, n)' = Here(e, n))
        /\ look_up(m, n)' # look_up(m, n)
    BY <1>1, Bounds DEF Defs
  <2>3. \A d \in Defs : d \in Defs' /\ defs'[d] = defs[d]
    <3>1. Len(defs) \in Nat /\ Len(defs') \in Nat /\ Len(defs) <= Len(defs')
      <4>1. DefsTyped(defs')
        BY InvNext DEF Parts, StoreIn
      <4>2. QED
        BY <1>1, <4>1, Bounds, ConstantsAssumption DEF Extends, DefsTyped
    <3>2. QED
      BY <3>1 DEF Extends, Defs
  <2>4. Here(m, n)' = Here(m, n)
    BY <1>1, <2>2, EnclosingWithin
  <2>5. CASE defs[m].parent = None
    <3>1. look_up(m, n) = Here(m, n)
      BY <1>1, <2>2, <2>5 DEF Looking
    <3>2. look_up(m, n)' = Here(m, n)'
      BY <1>1, <2>2, <2>3, <2>5 DEF Looking
    <3>3. QED
      BY <2>2, <2>4, <3>1, <3>2
  <2>6. CASE defs[m].parent # None
    <3> DEFINE p == defs[m].parent
    <3>1. p \in Defs /\ p < m /\ Enclosing(m) = {m} \union Enclosing(p)
      BY <1>1, <2>2, <2>6, EnclosingParent
    <3>2. PICK r \in Defs : r = p
      BY <3>1
    <3>3. look_up(m, n) = IF Here(m, n) # None THEN Here(m, n) ELSE look_up(r, n)
      BY <1>1, <2>2, <3>2 DEF Looking
    <3>4. look_up(m, n)' = IF Here(m, n)' # None THEN Here(m, n)' ELSE look_up(r, n)'
      BY <1>1, <2>2, <2>3, <3>2 DEF Looking
    <3>5. look_up(r, n)' = look_up(r, n)
      <4>1. ~(m <= r) /\ Enclosing(r) \subseteq Enclosing(m)
        BY <1>1, <2>2, <3>1, <3>2, Bounds DEF Defs
      <4>2. P(r)
        <5> HIDE DEF P, p
        <5>1. QED
          BY <2>1, <3>2, <4>1
      <4>3. QED
        BY <2>2, <4>1, <4>2
    <3>6. QED
      BY <2>2, <2>4, <3>3, <3>4, <3>5
  <2>7. QED
    BY <2>5, <2>6
<1>3. QED
  BY <1>2

(* A step touches the scopes that the property allows it to.               *)
Touches(X) == Extends(defs, defs') /\ \A t \in Slots \ X : Same(t)

LEMMA NothingAllocated ==
  ASSUME ScopesInv, UNCHANGED defs
  PROVE  Extends(defs, defs')
BY Now, Bounds DEF Extends

LEMMA OneAllocated ==
  ASSUME ScopesInv, NEW kind, NEW n, NEW p, NEW of, NEW typename,
         Allocate(kind, n, p, of, typename)
  PROVE  Extends(defs, defs')
<1> DEFINE d == Definition(kind, n, p, of, typename)
           S == Entities \union {d}
<1>1. defs' = Append(defs, d)
  BY DEF Allocate
<1>2. defs \in Seq(Entities)
  BY Now DEF DefsTyped
<1>3. Entities \subseteq S /\ d \in S
  OBVIOUS
<1> HIDE DEF S, d
<1>4. defs \in Seq(S)
  BY <1>2, <1>3
<1>5. Len(defs') = Len(defs) + 1 /\ \A i \in 1..Len(defs) : defs'[i] = defs[i]
  BY <1>1, <1>3, <1>4
<1>6. QED
  BY <1>5, Now, Bounds DEF Extends

LEMMA InsertedElse ==
  ASSUME NEW map, NEW rows, map \in [Slots -> rows], NEW s, NEW n, NEW d,
         NEW t \in Slots, t # s
  PROVE  Inserted(map, s, n, d)[t] = map[t]
BY DEF Inserted

LEMMA MapsAre ==
  ASSUME ScopesInv
  PROVE  /\ members \in [Slots -> [Names -> 0..Len(defs)]]
         /\ c_structs \in [Slots -> [Names -> 0..Len(defs)]]
         /\ using_general \in [Slots -> [Names -> 0..Len(defs)]]
         /\ using_scopes \in [Slots -> Seq(1..Len(defs))]
BY Now, MapsTyped DEF Maps, Links

LEMMA InsertedHere ==
  ASSUME ScopesInv, NEW s, NEW n, NEW d
  PROVE  \A t \in Slots : t # s => /\ Inserted(members, s, n, d)[t] = members[t]
                                  /\ Inserted(c_structs, s, n, d)[t] = c_structs[t]
                                  /\ Inserted(using_general, s, n, d)[t] = using_general[t]
<1> DEFINE rows == [Names -> 0..Len(defs)]
<1>1. members \in [Slots -> rows] /\ c_structs \in [Slots -> rows]
      /\ using_general \in [Slots -> rows]
  BY MapsAre
<1> HIDE DEF rows
<1>2. SUFFICES ASSUME NEW t \in Slots, t # s
               PROVE  /\ Inserted(members, s, n, d)[t] = members[t]
                      /\ Inserted(c_structs, s, n, d)[t] = c_structs[t]
                      /\ Inserted(using_general, s, n, d)[t] = using_general[t]
  OBVIOUS
<1>3. \A map \in [Slots -> rows] : Inserted(map, s, n, d)[t] = map[t]
  BY <1>2, InsertedElse
<1>4. QED
  BY <1>1, <1>3

LEMMA NameTouches ==
  ASSUME ScopesInv, NEW kind, NEW n, NEW class, Name(kind, n, class),
         UNCHANGED <<members, using_general, using_scopes>>
  PROVE  Extends(defs, defs') /\ \A t \in Slots : t # here /\ ancestors'[t] = ancestors[t] => Same(t)
<1>1. CASE class = New
  <2>1. Allocate(kind, n, here, None, TRUE) /\ c_structs' = Inserted(c_structs, here, n, New)
    BY <1>1 DEF Name, insnew
  <2>2. \A t \in Slots : t # here => c_structs'[t] = c_structs[t]
    BY <2>1, InsertedHere
  <2>3. QED
    BY <2>1, <2>2, OneAllocated DEF Same
<1>2. CASE class # New
  BY <1>2, NothingAllocated DEF Name, Same
<1>3. QED
  BY <1>1, <1>2

LEMMA UsesTouches ==
  ASSUME ScopesInv, NEW s \in Slots, NEW t, Uses(s, t), UNCHANGED <<defs, maps, ancestors>>
  PROVE  Touches({s})
<1>1. using_scopes' = [using_scopes EXCEPT ![s] = Append(@, t)]
  BY DEF Uses
<1>2. \A u \in Slots : u # s => using_scopes'[u] = using_scopes[u]
  BY <1>1, MapsAre
<1>3. QED
  BY <1>2, NothingAllocated DEF Touches, Same, maps

LEMMA TouchesMore ==
  ASSUME NEW X, NEW Y, Touches(X), X \subseteq Y
  PROVE  Touches(Y)
BY DEF Touches

LEMMA StepTouches ==
  ASSUME ScopesInv, Next
  PROVE  Touches(Affected)
<1> DEFINE based == {s \in Slots : ancestors'[s] # ancestors[s]}
<1>1. here \in Affected /\ based \subseteq Affected
      /\ (Last(open).by \in {"enum", "inline"} => Outer \in Affected)
  BY DEF Affected
<1>2. ASSUME NEW n \in Names, NEW by \in {"namespace", "inline"}, handle_namespace(n, by)
      PROVE  Touches({here})
  <2>1. UNCHANGED <<c_structs, using_general, using_scopes, ancestors>>
    BY <1>2 DEF handle_namespace
  <2>2. CASE Allocate("namespace", n, here, None, FALSE) /\ members' = Inserted(members, here, n, New)
    <3>1. \A t \in Slots : t # here => members'[t] = members[t]
      BY <2>2, InsertedHere
    <3>2. QED
      BY <2>1, <2>2, <3>1, OneAllocated DEF Touches, Same
  <2>3. CASE UNCHANGED <<defs, members>>
    BY <2>1, <2>3, NothingAllocated DEF Touches, Same
  <2>4. QED
    BY <1>2, <2>2, <2>3 DEF handle_namespace
<1>3. ASSUME NEW kind, NEW n, NEW class, Name(kind, n, class),
             UNCHANGED <<members, using_general, using_scopes>>
      PROVE  Touches(Affected)
  BY <1>1, <1>3, NameTouches DEF Touches
<1>4. ASSUME NEW kind \in Classes, NEW n \in Names, class_mention(kind, n) \/ class_body(kind, n)
      PROVE  Touches(Affected)
  <2>1. CASE class_mention(kind, n)
    <3>1. /\ \E class : Name(kind, n, class)
          /\ UNCHANGED <<members, using_general, using_scopes>>
      BY <2>1 DEF class_mention
    <3>2. QED
      BY <1>3, <3>1
  <2>2. CASE class_body(kind, n)
    <3>1. /\ \E class : Name(kind, n, class)
          /\ UNCHANGED <<members, using_general, using_scopes>>
      BY <2>2 DEF class_body
    <3>2. QED
      BY <1>3, <3>1
  <2>3. QED
    BY <1>4, <2>1, <2>2
<1>5. ASSUME NEW n \in Names, NEW b \in Names, NEW body \in BOOLEAN, class_bases(n, b, body)
      PROVE  Touches(Affected)
  <2>1. /\ \E class : Name("class", n, class)
        /\ UNCHANGED <<members, using_general, using_scopes>>
    BY <1>5 DEF class_bases
  <2>2. QED
    BY <1>3, <2>1
<1>6. ASSUME NEW n \in Names, class_bad_base(n)
      PROVE  Touches(Affected)
  <2>1. /\ \E class : Name("class", n, class)
        /\ UNCHANGED <<members, using_general, using_scopes>>
    BY <1>6 DEF class_bad_base
  <2>2. QED
    BY <1>3, <2>1
<1>7. ASSUME NEW n \in Names, NEW typed \in BOOLEAN, NEW body \in BOOLEAN,
             handle_enum(n, typed, body)
      PROVE  Touches(Affected)
  <2>1. /\ \E class : Name("enum", n, class)
        /\ UNCHANGED <<members, using_general, using_scopes>>
    BY <1>7 DEF handle_enum
  <2>2. QED
    BY <1>3, <2>1
<1>8. ASSUME NEW n \in Names, enumerator(n)
      PROVE  Touches({here, Outer}) /\ Last(open).by = "enum"
  <2>1. /\ Last(open).by = "enum"
        /\ Allocate("constant", n, here, here, FALSE)
        /\ members' = Inserted(members, here, n, New)
        /\ using_general' = Inserted(using_general, Outer, n, New)
        /\ UNCHANGED <<c_structs, using_scopes, ancestors>>
    BY <1>8 DEF enumerator
  <2>2. \A t \in Slots : t # here => members'[t] = members[t]
    BY <2>1, InsertedHere
  <2>3. \A t \in Slots : t # Outer => using_general'[t] = using_general[t]
    BY <2>1, InsertedHere
  <2>4. QED
    BY <2>1, <2>2, <2>3, OneAllocated DEF Touches, Same
<1>9. ASSUME right_brace
      PROVE  Touches(Affected)
  <2>1. /\ IF Last(open).by = "inline" THEN Uses(Outer, here) ELSE UNCHANGED using_scopes
        /\ UNCHANGED <<defs, maps, ancestors>>
    BY <1>9 DEF right_brace
  <2>2. CASE Last(open).by = "inline"
    <3>1. Outer \in Slots
      BY <2>2, OuterFrame, Now, Bounds
    <3>2. QED
      BY <1>1, <2>1, <2>2, <3>1, UsesTouches, TouchesMore
  <2>3. CASE Last(open).by # "inline"
    BY <2>1, <2>3, NothingAllocated DEF Touches, Same, maps
  <2>4. QED
    BY <2>2, <2>3
<1>10. ASSUME NEW n \in Names, NEW typename \in BOOLEAN, declarator(n, typename)
       PROVE  Touches({here})
  <2>1. /\ Allocate("typed", n, here, IF typename THEN type ELSE None, typename)
        /\ members' = Inserted(members, here, n, New)
        /\ UNCHANGED <<c_structs, using_general, using_scopes, ancestors>>
    BY <1>10 DEF declarator
  <2>2. \A t \in Slots : t # here => members'[t] = members[t]
    BY <2>1, InsertedHere
  <2>3. QED
    BY <2>1, <2>2, OneAllocated DEF Touches, Same
<1>11. ASSUME UNCHANGED <<defs, maps, using_scopes, ancestors>>
       PROVE  Touches({here})
  BY <1>11, NothingAllocated DEF Touches, Same, maps
<1>12. ASSUME NEW d, use_namespace(d)
       PROVE  Touches({here})
  BY <1>12, Now, UsesTouches DEF use_namespace
<1>13. ASSUME NEW n \in Names, NEW m \in Names, use_general(n, m)
       PROVE  Touches({here})
  <2>1. /\ using_general' = Inserted(using_general, here, m, Qualified(here, n, m))
        /\ UNCHANGED <<defs, members, c_structs, using_scopes, ancestors>>
    BY <1>13 DEF use_general
  <2>2. \A t \in Slots : t # here => using_general'[t] = using_general[t]
    BY <2>1, InsertedHere
  <2>3. QED
    BY <2>1, <2>2, NothingAllocated DEF Touches, Same
<1>14. Touches({here}) => Touches(Affected)
  BY <1>1, TouchesMore
<1>15. CASE read_type \/ semicolon
  BY <1>11, <1>14, <1>15 DEF read_type, semicolon
<1>16. CASE \E n \in Names : enumerator(n)
  <2>1. Touches({here, Outer}) /\ Last(open).by = "enum"
    BY <1>8, <1>16
  <2>2. QED
    BY <1>1, <2>1, TouchesMore
<1>17. CASE right_brace
  BY <1>9, <1>17
<1>18. CASE \/ \E n \in Names : use_namespace(look_up(here, n))
            \/ \E n, m \in Names : use_namespace(Qualified(here, n, m))
            \/ \E n, m \in Names : use_general(n, m)
  BY <1>12, <1>13, <1>14, <1>18
<1> HIDE DEF based
<1>19. QED
  BY <1>2, <1>4, <1>5, <1>6, <1>7, <1>10, <1>14, <1>15, <1>16, <1>17, <1>18 DEF Next

LEMMA StepLocal ==
  ASSUME ScopesInv, ScopesInv', Next, NEW s \in Defs, NEW n \in Names,
         look_up(s, n)' # look_up(s, n)
  PROVE  SearchedFrom(s) \intersect Affected # {}
<1>1. SUFFICES ASSUME SearchedFrom(s) \intersect Affected = {} PROVE FALSE
  OBVIOUS
<1>2. Touches(Affected)
  BY StepTouches
<1>3. TypeOK /\ Rooted /\ Extends(defs, defs')
  BY <1>2, Now DEF Touches
<1>4. ASSUME NEW e \in Enclosing(s)
      PROVE  Here(e, n)' = Here(e, n)
  <2>1. e \in Defs /\ e \in Slots
    BY <1>3, <1>4, EnclosingWithin, Bounds
  <2>2. Reaches(e) \subseteq Slots
    <3>1. MaxDefs \in 0..MaxDefs
      BY <1>3, Bounds
    <3>2. QED
      BY <1>3, <2>1, <3>1, ViaIs, ViaSlots
  <2>3. \A t \in Reaches(e) : t \notin Affected
    BY <1>1 DEF SearchedFrom
  <2>4. \A t \in Reaches(e) : Same(t)
    BY <1>2, <2>2, <2>3 DEF Touches
  <2>5. QED
    BY <1>3, <2>1, <2>4, HereSame
<1>5. look_up(s, n)' = look_up(s, n)
  BY <1>3, <1>4, LookSame
<1>6. QED
  BY <1>5

(* A declaration changes what a name means only where lookup goes through  *)
(* the scope it is made in, for an enumerator or an inline namespace the   *)
(* scope around, or the class it gives a base.                             *)
THEOREM DeclarationsStayLocal == Spec => DeclarationsLocal
<1>1. ASSUME ScopesInv, ScopesInv', [Next]_vars
      PROVE  [\A s \in ScopesMade, n \in Names :
                look_up(s, n)' # look_up(s, n) => SearchedFrom(s) \intersect Affected # {}
             ]_<<defs, maps, using_scopes, ancestors>>
  <2>1. CASE UNCHANGED vars
    BY <2>1 DEF vars
  <2>2. CASE Next
    BY <1>1, <2>2, StepLocal DEF ScopesMade
  <2>3. QED
    BY <1>1, <2>1, <2>2
<1>2. QED
  BY <1>1, ScopesInvariant, PTL DEF Spec, DeclarationsLocal
===============================================================================
