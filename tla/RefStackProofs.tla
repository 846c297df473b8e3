---------------------------- MODULE RefStackProofs ----------------------------
(***************************************************************************)
(* Proofs about RefStack: whatever the readers do with their stacks, in    *)
(* any order and for any number of stacks and nodes, each list leads from  *)
(* its top to its bottom, every node has one owner, and each object is the *)
(* stack that ReferencerStacks promises.                                   *)
(***************************************************************************)
EXTENDS RefStack, SequenceTheorems, TLAPS

TopOf(c) == IF Len(c) = 0 THEN Null ELSE c[1]

BottomOf(c) == IF Len(c) = 0 THEN Null ELSE c[Len(c)]

(* In the heap h the nodes c are allocated and each leads to the next.     *)
Chained(h, c) ==
  \A i \in 1..Len(c) :
    /\ h[c[i]] # Null
    /\ h[c[i]].previous = IF i = Len(c) THEN Null ELSE c[i + 1]

Simple(c) == \A i, j \in 1..Len(c) : c[i] = c[j] => i = j

Apart(c, d) == \A i \in 1..Len(c), j \in 1..Len(d) : c[i] # d[j]

(* A typedef that was not declared yet has nothing to lose.                *)
Unused == \A t \in Typedefs \ declared : list[t] = << >> /\ name[t] = ""

StackInv == TypeOK /\ ListsLinked /\ NodesOwned /\ Unused

Heaps == [Nodes -> NodeType \union {Null}]

-----------------------------------------------------------------------------
(* Sequences of nodes.                                                     *)

LEMMA NullIsNoNode == Null \notin Nodes /\ Null \notin NodeType
BY ConstantsAssumption, NullAssumption

LEMMA Concat ==
  ASSUME NEW S, NEW c \in Seq(S), NEW d \in Seq(S)
  PROVE  /\ c \o d \in Seq(S)
         /\ Len(c \o d) = Len(c) + Len(d)
         /\ \A i \in 1..Len(c) : (c \o d)[i] = c[i]
         /\ \A j \in 1..Len(d) : (c \o d)[Len(c) + j] = d[j]
         /\ \A k \in 1..Len(c \o d) :
              k \in 1..Len(c) \/ \E j \in 1..Len(d) : k = Len(c) + j
<1>1. Len(c) \in Nat /\ Len(d) \in Nat
  OBVIOUS
<1>2. /\ c \o d \in Seq(S)
      /\ Len(c \o d) = Len(c) + Len(d)
      /\ \A i \in 1..Len(c) + Len(d) :
           (c \o d)[i] = IF i <= Len(c) THEN c[i] ELSE d[i - Len(c)]
  BY ConcatProperties
<1>3. ASSUME NEW k \in 1..Len(c) + Len(d), k \notin 1..Len(c)
      PROVE  \E j \in 1..Len(d) : k = Len(c) + j
  <2>1. k - Len(c) \in 1..Len(d) /\ k = Len(c) + (k - Len(c))
    BY <1>1, <1>3
  <2>2. QED
    BY <2>1
<1>4. QED
  BY <1>1, <1>2, <1>3

LEMMA Ends ==
  ASSUME NEW c \in Seq(Nodes)
  PROVE  /\ Len(c) \in Nat
         /\ \A i \in 1..Len(c) : c[i] \in Nodes
         /\ TopOf(c) \in Nodes \union {Null}
         /\ BottomOf(c) \in Nodes \union {Null}
         /\ TopOf(c) = Null <=> c = << >>
         /\ BottomOf(c) = Null <=> c = << >>
         /\ Len(c) = 0 <=> c = << >>
<1>1. Len(c) \in Nat /\ (Len(c) = 0 <=> c = << >>)
  OBVIOUS
<1>2. \A i \in 1..Len(c) : c[i] \in Nodes
  OBVIOUS
<1>3. QED
  BY <1>1, <1>2, NullIsNoNode DEF TopOf, BottomOf

LEMMA ConcatEnds ==
  ASSUME NEW c \in Seq(Nodes), NEW d \in Seq(Nodes)
  PROVE  /\ TopOf(c \o d) = IF c = << >> THEN TopOf(d) ELSE TopOf(c)
         /\ BottomOf(c \o d) = IF d = << >> THEN BottomOf(c) ELSE BottomOf(d)
<1>1. /\ Len(c) \in Nat /\ (Len(c) = 0 <=> c = << >>)
      /\ Len(d) \in Nat /\ (Len(d) = 0 <=> d = << >>)
  BY Ends
<1>2. /\ Len(c \o d) = Len(c) + Len(d)
      /\ \A i \in 1..Len(c) : (c \o d)[i] = c[i]
      /\ \A j \in 1..Len(d) : (c \o d)[Len(c) + j] = d[j]
  BY Concat
<1>3. CASE c = << >>
  <2>1. c \o d = d
    BY <1>3
  <2>2. QED
    BY <1>1, <1>3, <2>1 DEF TopOf, BottomOf
<1>4. CASE c # << >> /\ d = << >>
  <2>1. c \o d = c
    BY <1>4
  <2>2. QED
    BY <1>1, <1>4, <2>1 DEF TopOf, BottomOf
<1>5. CASE c # << >> /\ d # << >>
  <2>1. 1 \in 1..Len(c) /\ Len(d) \in 1..Len(d) /\ Len(c) + Len(d) # 0
    BY <1>1, <1>5
  <2>2. QED
    BY <1>1, <1>2, <1>5, <2>1 DEF TopOf, BottomOf
<1>6. QED
  BY <1>3, <1>4, <1>5

(* Joining two lists: the last node of the first is linked to the second.  *)
LEMMA Joined ==
  ASSUME NEW h \in Heaps, NEW c \in Seq(Nodes), NEW d \in Seq(Nodes), c # << >>,
         Chained(h, c), Chained(h, d), Simple(c), Apart(c, d)
  PROVE  Chained(Linked(h, BottomOf(c), TopOf(d)), c \o d)
<1> DEFINE g == Linked(h, BottomOf(c), TopOf(d))
           e == c \o d
<1>1. /\ Len(c) \in Nat \ {0} /\ Len(d) \in Nat
      /\ Len(c) \in 1..Len(c)
      /\ \A i \in 1..Len(c) : c[i] \in Nodes
      /\ \A i \in 1..Len(d) : d[i] \in Nodes
      /\ BottomOf(c) = c[Len(c)]
  BY Ends DEF BottomOf
<1>2. /\ Len(e) = Len(c) + Len(d)
      /\ \A i \in 1..Len(c) : e[i] = c[i]
      /\ \A j \in 1..Len(d) : e[Len(c) + j] = d[j]
      /\ \A k \in 1..Len(e) : k \in 1..Len(c) \/ \E j \in 1..Len(d) : k = Len(c) + j
  BY Concat
<1>3. ASSUME NEW n \in Nodes, n # BottomOf(c)
      PROVE  g[n] = h[n]
  BY <1>3 DEF Linked, Heaps
<1>4. /\ g[BottomOf(c)] # Null
      /\ g[BottomOf(c)].previous = TopOf(d)
  <2>1. h[BottomOf(c)] \in NodeType
    BY <1>1, NullIsNoNode DEF Chained, Heaps
  <2>2. g[BottomOf(c)] = [h[BottomOf(c)] EXCEPT !.previous = TopOf(d)]
    BY <1>1 DEF Linked, Heaps
  <2>3. g[BottomOf(c)] \in NodeType /\ g[BottomOf(c)].previous = TopOf(d)
    <3>1. TopOf(d) \in Nodes \union {Null}
      BY Ends
    <3> HIDE DEF g
    <3>2. QED
      BY <2>1, <2>2, <3>1 DEF NodeType
  <2>4. QED
    BY <2>3, NullIsNoNode
<1> HIDE DEF g, e
<1>5. ASSUME NEW i \in 1..Len(c)
      PROVE  /\ g[e[i]] # Null
             /\ g[e[i]].previous = IF i = Len(e) THEN Null ELSE e[i + 1]
  <2>1. CASE i = Len(c)
    <3>1. g[e[i]] # Null /\ g[e[i]].previous = TopOf(d)
      BY <1>1, <1>2, <1>4, <2>1
    <3>2. CASE Len(d) = 0
      BY <1>1, <1>2, <2>1, <3>1, <3>2 DEF TopOf
    <3>3. CASE Len(d) # 0
      <4>1. e[Len(c) + 1] = d[1]
        BY <1>1, <1>2, <3>3
      <4>2. QED
        BY <1>1, <1>2, <2>1, <3>1, <3>3, <4>1 DEF TopOf
    <3>4. QED
      BY <3>2, <3>3
  <2>2. CASE i # Len(c)
    <3>1. c[i] # BottomOf(c) /\ i + 1 \in 1..Len(c) /\ i # Len(c) + Len(d)
      BY <1>1, <2>2 DEF Simple
    <3>2. e[i] = c[i] /\ e[i + 1] = c[i + 1]
      BY <1>2, <3>1
    <3>3. g[c[i]] = h[c[i]]
      BY <1>1, <1>3, <3>1
    <3>4. QED
      BY <1>2, <2>2, <3>1, <3>2, <3>3 DEF Chained
  <2>3. QED
    BY <2>1, <2>2
<1>6. ASSUME NEW j \in 1..Len(d)
      PROVE  /\ g[d[j]] # Null
             /\ g[d[j]].previous = IF j = Len(d) THEN Null ELSE d[j + 1]
  <2>1. d[j] # BottomOf(c)
    BY <1>1 DEF Apart
  <2>2. QED
    BY <1>1, <1>3, <2>1 DEF Chained
<1>7. ASSUME NEW j \in 1..Len(d)
      PROVE  /\ g[e[Len(c) + j]] # Null
             /\ g[e[Len(c) + j]].previous =
                  IF Len(c) + j = Len(e) THEN Null ELSE e[Len(c) + j + 1]
  <2>1. e[Len(c) + j] = d[j] /\ (Len(c) + j = Len(e) <=> j = Len(d))
    <3>1. e[Len(c) + j] = d[j]
      BY <1>2
    <3>2. Len(c) \in Nat /\ Len(d) \in Nat /\ Len(e) = Len(c) + Len(d)
      BY <1>1, <1>2
    <3>3. Len(c) + j = Len(e) <=> j = Len(d)
      BY <3>2
    <3>4. QED
      BY <3>1, <3>3
  <2>2. ASSUME j # Len(d)
        PROVE  e[Len(c) + j + 1] = d[j + 1]
    <3>1. j + 1 \in 1..Len(d) /\ Len(c) + j + 1 = Len(c) + (j + 1)
      BY <1>1, <2>2
    <3>2. e[Len(c) + (j + 1)] = d[j + 1]
      BY <1>2, <3>1
    <3>3. QED
      BY <3>1, <3>2
  <2>3. QED
    BY <1>6, <2>1, <2>2
<1>8. Chained(g, e)
  <2>1. SUFFICES ASSUME NEW k \in 1..Len(e)
                 PROVE  /\ g[e[k]] # Null
                        /\ g[e[k]].previous = IF k = Len(e) THEN Null ELSE e[k + 1]
    BY DEF Chained
  <2>2. CASE k \in 1..Len(c)
    BY <1>5, <2>2
  <2>3. ASSUME NEW j \in 1..Len(d), k = Len(c) + j
        PROVE  /\ g[e[k]] # Null
               /\ g[e[k]].previous = IF k = Len(e) THEN Null ELSE e[k + 1]
    BY <1>7, <2>3
  <2>4. QED
    BY <1>2, <2>2, <2>3
<1>9. QED
  BY <1>8 DEF g, e

LEMMA JoinedSimple ==
  ASSUME NEW c \in Seq(Nodes), NEW d \in Seq(Nodes), Simple(c), Simple(d), Apart(c, d)
  PROVE  Simple(c \o d)
<1> DEFINE e == c \o d
<1>1. Len(c) \in Nat /\ Len(d) \in Nat
  BY Ends
<1>2. /\ Len(e) = Len(c) + Len(d)
      /\ \A i \in 1..Len(c) : e[i] = c[i]
      /\ \A j \in 1..Len(d) : e[Len(c) + j] = d[j]
      /\ \A k \in 1..Len(e) : k \in 1..Len(c) \/ \E j \in 1..Len(d) : k = Len(c) + j
  BY Concat
<1> HIDE DEF e
<1>3. SUFFICES ASSUME NEW k \in 1..Len(e), NEW l \in 1..Len(e), e[k] = e[l]
               PROVE  k = l
  BY DEF Simple, e
<1>4. CASE k \in 1..Len(c) /\ l \in 1..Len(c)
  BY <1>2, <1>3, <1>4 DEF Simple
<1>5. CASE k \in 1..Len(c) /\ l \notin 1..Len(c)
  <2>1. PICK j \in 1..Len(d) : l = Len(c) + j
    BY <1>2, <1>5
  <2>2. QED
    BY <1>2, <1>3, <1>5, <2>1 DEF Apart
<1>6. CASE k \notin 1..Len(c) /\ l \in 1..Len(c)
  <2>1. PICK j \in 1..Len(d) : k = Len(c) + j
    BY <1>2, <1>6
  <2>2. QED
    BY <1>2, <1>3, <1>6, <2>1 DEF Apart
<1>7. CASE k \notin 1..Len(c) /\ l \notin 1..Len(c)
  <2>1. PICK i \in 1..Len(d), j \in 1..Len(d) : k = Len(c) + i /\ l = Len(c) + j
    BY <1>2, <1>7
  <2>2. d[i] = d[j]
    BY <1>2, <1>3, <2>1
  <2>3. QED
    BY <2>1, <2>2 DEF Simple
<1>8. QED
  BY <1>4, <1>5, <1>6, <1>7

LEMMA ConcatMembers ==
  ASSUME NEW c \in Seq(Nodes), NEW d \in Seq(Nodes)
  PROVE  Members(c \o d) = Members(c) \union Members(d)
<1>1. Len(c) \in Nat /\ Len(d) \in Nat
  BY Ends
<1>2. /\ Len(c \o d) = Len(c) + Len(d)
      /\ \A i \in 1..Len(c) : i \in 1..Len(c \o d) /\ (c \o d)[i] = c[i]
      /\ \A j \in 1..Len(d) : Len(c) + j \in 1..Len(c \o d) /\ (c \o d)[Len(c) + j] = d[j]
      /\ \A k \in 1..Len(c \o d) : k \in 1..Len(c) \/ \E j \in 1..Len(d) : k = Len(c) + j
  BY <1>1, Concat
<1>3. ASSUME NEW x \in Members(c \o d)
      PROVE  x \in Members(c) \union Members(d)
  <2>1. PICK k \in 1..Len(c \o d) : x = (c \o d)[k]
    BY DEF Members
  <2>2. QED
    BY <1>2, <2>1 DEF Members
<1>4. ASSUME NEW x \in Members(c) \union Members(d)
      PROVE  x \in Members(c \o d)
  BY <1>2, <1>4 DEF Members
<1>5. QED
  BY <1>3, <1>4

LEMMA ConcatApart ==
  ASSUME NEW c \in Seq(Nodes), NEW d \in Seq(Nodes), NEW x, Apart(c, x), Apart(d, x)
  PROVE  Apart(c \o d, x)
<1>1. SUFFICES ASSUME NEW i \in 1..Len(c \o d), NEW j \in 1..Len(x)
               PROVE  (c \o d)[i] # x[j]
  BY DEF Apart
<1>2. CASE i \in 1..Len(c)
  <2>1. (c \o d)[i] = c[i]
    BY <1>2, Concat
  <2>2. QED
    BY <1>2, <2>1 DEF Apart
<1>3. CASE i \notin 1..Len(c)
  <2>1. PICK k \in 1..Len(d) : i = Len(c) + k
    BY <1>3, Concat
  <2>2. (c \o d)[i] = d[k]
    BY <2>1, Concat
  <2>3. QED
    BY <2>2 DEF Apart
<1>4. QED
  BY <1>2, <1>3

-----------------------------------------------------------------------------
(* The lists of all stacks, in a heap h.                                   *)

Lists(h, l) ==
  /\ \A s \in Stacks : Chained(h, l[s]) /\ Simple(l[s])
  /\ \A s, t \in Stacks : s # t => Apart(l[s], l[t])

AllOwned(h, l) ==
  \A n \in Nodes : h[n] # Null => \E s \in Stacks : n \in Members(l[s])

Pointers ==
  \A s \in Stacks :
    /\ ntop[s] = TopOf(list[s])
    /\ nbottom[s] = BottomOf(list[s])
    /\ sz[s] >= Len(list[s])

(* The nodes c are allocated in g, and lead where they did in h.           *)
Alike(h, g, c) ==
  \A i \in 1..Len(c) : g[c[i]] # Null /\ g[c[i]].previous = h[c[i]].previous

LEMMA View ==
  /\ ListsLinked /\ NodesOwned <=> Pointers /\ Lists(heap, list) /\ AllOwned(heap, list)
  /\ (ListsLinked /\ NodesOwned)' <=>
       (Pointers /\ Lists(heap, list) /\ AllOwned(heap, list))'
<1>1. ListsLinked <=> Pointers /\ \A s \in Stacks : Chained(heap, list[s])
  BY DEF ListsLinked, Pointers, Chained, TopOf, BottomOf
<1>2. NodesOwned <=> /\ \A s \in Stacks : Simple(list[s])
                     /\ \A s, t \in Stacks : s # t => Apart(list[s], list[t])
                     /\ AllOwned(heap, list)
  BY DEF NodesOwned, Simple, Apart, AllOwned, Free
<1>3. ListsLinked' <=> Pointers' /\ \A s \in Stacks : Chained(heap', list'[s])
  BY DEF ListsLinked, Pointers, Chained, TopOf, BottomOf
<1>4. NodesOwned' <=> /\ \A s \in Stacks : Simple(list'[s])
                      /\ \A s, t \in Stacks : s # t => Apart(list'[s], list'[t])
                      /\ AllOwned(heap', list')
  BY DEF NodesOwned, Simple, Apart, AllOwned, Free
<1>5. QED
  BY <1>1, <1>2, <1>3, <1>4 DEF Lists

(* The nodes of s become c.                                                *)
With(l, s, c) == [l EXCEPT ![s] = c]

(* One stack gets other nodes.                                             *)
LEMMA Replaced ==
  ASSUME NEW h, NEW g, NEW l \in [Stacks -> Seq(Nodes)], NEW s \in Stacks,
         NEW c \in Seq(Nodes), Lists(h, l), Chained(g, c), Simple(c),
         \A t \in Stacks \ {s} : Apart(c, l[t]) /\ Alike(h, g, l[t])
  PROVE  /\ With(l, s, c) \in [Stacks -> Seq(Nodes)]
         /\ Lists(g, With(l, s, c))
<1> DEFINE m == With(l, s, c)
<1>1. /\ m \in [Stacks -> Seq(Nodes)]
      /\ m[s] = c /\ \A t \in Stacks \ {s} : m[t] = l[t]
  BY DEF With
<1> HIDE DEF m
<1>2. ASSUME NEW t \in Stacks
      PROVE  Chained(g, m[t]) /\ Simple(m[t])
  <2>1. CASE t = s
    BY <1>1, <2>1
  <2>2. CASE t # s
    <3>1. Chained(h, l[t]) /\ Simple(l[t]) /\ Alike(h, g, l[t]) /\ m[t] = l[t]
      BY <1>1, <2>2 DEF Lists
    <3>2. Chained(g, l[t])
      BY <3>1 DEF Chained, Alike
    <3>3. QED
      BY <3>1, <3>2
  <2>3. QED
    BY <2>1, <2>2
<1>3. ASSUME NEW t \in Stacks, NEW u \in Stacks, t # u
      PROVE  Apart(m[t], m[u])
  <2>1. CASE t = s
    BY <1>1, <1>3, <2>1
  <2>2. CASE u = s
    <3>1. Apart(c, l[t]) /\ m[u] = c /\ m[t] = l[t]
      BY <1>1, <1>3, <2>2
    <3>2. QED
      BY <3>1 DEF Apart
  <2>3. CASE t # s /\ u # s
    BY <1>1, <1>3, <2>3 DEF Lists
  <2>4. QED
    BY <2>1, <2>2, <2>3
<1>4. QED
  BY <1>1, <1>2, <1>3 DEF Lists, m

(* Only the node b leads elsewhere.                                        *)
LEMMA LinkedAlike ==
  ASSUME NEW h \in Heaps, NEW b \in Nodes, NEW p \in Nodes \union {Null},
         NEW c \in Seq(Nodes), Chained(h, c), \A i \in 1..Len(c) : c[i] # b
  PROVE  Alike(h, Linked(h, b, p), c)
<1>1. ASSUME NEW i \in 1..Len(c)
      PROVE  Linked(h, b, p)[c[i]] = h[c[i]] /\ h[c[i]] # Null
  <2>1. c[i] \in Nodes /\ c[i] # b
    BY Ends
  <2>2. QED
    BY <2>1 DEF Linked, Heaps, Chained
<1>2. QED
  BY <1>1 DEF Alike

LEMMA LinkedHeap ==
  ASSUME NEW h \in Heaps, NEW b \in Nodes, NEW p \in Nodes \union {Null}, h[b] # Null
  PROVE  /\ Linked(h, b, p) \in Heaps
         /\ \A n \in Nodes : (Linked(h, b, p)[n] # Null <=> h[n] # Null)
<1>1. h[b] \in NodeType
  BY DEF Heaps
<1>2. [h[b] EXCEPT !.previous = p] \in NodeType
  BY <1>1 DEF NodeType
<1>3. Linked(h, b, p) = [h EXCEPT ![b] = [h[b] EXCEPT !.previous = p]]
  BY DEF Linked
<1>4. QED
  BY <1>2, <1>3, NullIsNoNode DEF Heaps

(* The lists c and d can be joined to be that of s.                        *)
Joinable(h, l, s, c, d) ==
  /\ h \in Heaps /\ l \in [Stacks -> Seq(Nodes)] /\ s \in Stacks
  /\ c \in Seq(Nodes) /\ d \in Seq(Nodes) /\ c # << >>
  /\ Lists(h, l) /\ Chained(h, c) /\ Chained(h, d)
  /\ Simple(c) /\ Simple(d) /\ Apart(c, d)
  /\ \A u \in Stacks \ {s} : Apart(c, l[u]) /\ Apart(d, l[u])

LEMMA Merged ==
  ASSUME NEW h, NEW l, NEW s, NEW c, NEW d, Joinable(h, l, s, c, d)
  PROVE  LET g == Linked(h, BottomOf(c), TopOf(d))
             m == With(l, s, c \o d)
         IN  /\ g \in Heaps /\ m \in [Stacks -> Seq(Nodes)] /\ Lists(g, m)
             /\ \A n \in Nodes : g[n] # Null <=> h[n] # Null
<1> USE DEF Joinable
<1> DEFINE g == Linked(h, BottomOf(c), TopOf(d))
           e == c \o d
           m == With(l, s, e)
<1>1. e \in Seq(Nodes) /\ Chained(g, e) /\ Simple(e)
  BY Joined, JoinedSimple
<1>2. /\ Len(c) \in 1..Len(c) /\ BottomOf(c) = c[Len(c)]
      /\ BottomOf(c) \in Nodes /\ TopOf(d) \in Nodes \union {Null}
      /\ h[BottomOf(c)] # Null
  <2>1. Len(c) \in 1..Len(c) /\ BottomOf(c) = c[Len(c)]
    BY Ends DEF BottomOf
  <2>2. QED
    BY <2>1, Ends DEF Chained
<1>3. ASSUME NEW u \in Stacks \ {s}
      PROVE  Apart(e, l[u]) /\ Alike(h, g, l[u])
  <2>1. l[u] \in Seq(Nodes) /\ Chained(h, l[u]) /\ Apart(c, l[u]) /\ Apart(d, l[u])
    BY DEF Lists
  <2>2. \A i \in 1..Len(l[u]) : l[u][i] # BottomOf(c)
    BY <1>2, <2>1 DEF Apart
  <2>3. Alike(h, g, l[u])
    BY <1>2, <2>1, <2>2, LinkedAlike
  <2>4. Apart(e, l[u])
    BY <2>1, ConcatApart
  <2>5. QED
    BY <2>3, <2>4
<1>4. m \in [Stacks -> Seq(Nodes)] /\ Lists(g, m)
  <2> HIDE DEF g, e
  <2>1. QED
    BY <1>1, <1>3, Replaced
<1>5. g \in Heaps /\ \A n \in Nodes : (g[n] # Null <=> h[n] # Null)
  BY <1>2, LinkedHeap
<1>6. QED
  BY <1>4, <1>5

LEMMA EmptyList ==
  ASSUME NEW h, NEW c
  PROVE  /\ << >> \in Seq(Nodes) /\ Chained(h, << >>) /\ Simple(<< >>)
         /\ Apart(<< >>, c) /\ Apart(c, << >>)
BY DEF Chained, Simple, Apart

(* A stack is left empty.                                                  *)
LEMMA Emptied ==
  ASSUME NEW h, NEW l \in [Stacks -> Seq(Nodes)], NEW t \in Stacks, Lists(h, l)
  PROVE  /\ With(l, t, << >>) \in [Stacks -> Seq(Nodes)]
         /\ Lists(h, With(l, t, << >>))
<1>1. \A u \in Stacks \ {t} : Apart(<< >>, l[u]) /\ Alike(h, h, l[u])
  BY EmptyList DEF Alike, Lists, Chained
<1>2. QED
  BY <1>1, EmptyList, Replaced

(* What t holds is put below what s holds, and t is left empty.            *)
LEMMA HandedBelow ==
  ASSUME NEW h \in Heaps, NEW l \in [Stacks -> Seq(Nodes)], NEW s \in Stacks,
         NEW t \in Stacks, s # t, l[s] # << >>, Lists(h, l), AllOwned(h, l)
  PROVE  LET g == Linked(h, BottomOf(l[s]), TopOf(l[t]))
             m == With(With(l, t, << >>), s, l[s] \o l[t])
         IN  g \in Heaps /\ m \in [Stacks -> Seq(Nodes)] /\ Lists(g, m) /\ AllOwned(g, m)
<1> DEFINE g == Linked(h, BottomOf(l[s]), TopOf(l[t]))
           k == With(l, t, << >>)
           c == l[s] \o l[t]
           m == With(k, s, c)
<1>1. l[s] \in Seq(Nodes) /\ l[t] \in Seq(Nodes) /\ c \in Seq(Nodes)
  OBVIOUS
<1>2. /\ Chained(h, l[s]) /\ Chained(h, l[t]) /\ Simple(l[s]) /\ Simple(l[t])
      /\ Apart(l[s], l[t])
  BY DEF Lists
<1>3. k \in [Stacks -> Seq(Nodes)] /\ Lists(h, k)
  BY Emptied
<1>4. ASSUME NEW u \in Stacks \ {s}
      PROVE  Apart(l[s], k[u]) /\ Apart(l[t], k[u])
  <2>1. CASE u = t
    BY <2>1, EmptyList DEF With
  <2>2. CASE u # t
    BY <2>2 DEF Lists, With
  <2>3. QED
    BY <2>1, <2>2
<1>5. Joinable(h, k, s, l[s], l[t])
  BY <1>1, <1>2, <1>3, <1>4 DEF Joinable
<1>6. /\ g \in Heaps /\ m \in [Stacks -> Seq(Nodes)] /\ Lists(g, m)
      /\ \A n \in Nodes : g[n] # Null <=> h[n] # Null
  BY <1>5, Merged
<1>7. AllOwned(g, m)
  <2>1. Members(c) = Members(l[s]) \union Members(l[t])
    BY <1>1, ConcatMembers
  <2>2. m[s] = c /\ \A u \in Stacks \ {s, t} : m[u] = l[u]
    BY <1>1 DEF With
  <2> HIDE DEF g, c, m
  <2>3. SUFFICES ASSUME NEW n \in Nodes, h[n] # Null
                 PROVE  \E u \in Stacks : n \in Members(m[u])
    BY <1>6 DEF AllOwned
  <2>4. PICK u \in Stacks : n \in Members(l[u])
    BY <2>3 DEF AllOwned
  <2>5. QED
    BY <2>1, <2>2, <2>4
<1>8. QED
  BY <1>6, <1>7

(* s and t change what they hold.                                          *)
LEMMA Exchanged ==
  ASSUME NEW h, NEW l \in [Stacks -> Seq(Nodes)], NEW s \in Stacks,
         NEW t \in Stacks, s # t, Lists(h, l), AllOwned(h, l)
  PROVE  LET m == With(With(l, s, l[t]), t, l[s])
         IN  m \in [Stacks -> Seq(Nodes)] /\ Lists(h, m) /\ AllOwned(h, m)
<1> DEFINE m == With(With(l, s, l[t]), t, l[s])
<1>1. /\ m \in [Stacks -> Seq(Nodes)]
      /\ m[s] = l[t] /\ m[t] = l[s] /\ \A u \in Stacks \ {s, t} : m[u] = l[u]
  BY DEF With
<1> HIDE DEF m
<1>2. \A u \in Stacks : Chained(h, m[u]) /\ Simple(m[u])
  BY <1>1 DEF Lists
<1>3. ASSUME NEW u \in Stacks, NEW v \in Stacks, u # v
      PROVE  Apart(m[u], m[v])
  <2> DEFINE other(x) == IF x = s THEN t ELSE IF x = t THEN s ELSE x
  <2>1. m[u] = l[other(u)] /\ m[v] = l[other(v)] /\ other(u) # other(v)
    BY <1>1, <1>3
  <2>2. other(u) \in Stacks /\ other(v) \in Stacks
    OBVIOUS
  <2> HIDE DEF other
  <2>3. QED
    BY <2>1, <2>2 DEF Lists
<1>4. AllOwned(h, m)
  <2>1. SUFFICES ASSUME NEW n \in Nodes, h[n] # Null
                 PROVE  \E u \in Stacks : n \in Members(m[u])
    BY DEF AllOwned
  <2>2. PICK u \in Stacks : n \in Members(l[u])
    BY <2>1 DEF AllOwned
  <2>3. QED
    BY <1>1, <2>2
<1>5. QED
  BY <1>1, <1>2, <1>3, <1>4 DEF Lists, m

(* The stack s comes to own more nodes.                                    *)
LEMMA OwnedAfter ==
  ASSUME NEW h, NEW g, NEW l \in [Stacks -> Seq(Nodes)], NEW s \in Stacks, NEW c,
         AllOwned(h, l), Members(l[s]) \subseteq Members(c),
         \A n \in Nodes : g[n] # Null => h[n] # Null \/ n \in Members(c)
  PROVE  AllOwned(g, With(l, s, c))
<1> DEFINE m == With(l, s, c)
<1>1. m[s] = c /\ \A u \in Stacks \ {s} : m[u] = l[u]
  BY DEF With
<1> HIDE DEF m
<1>2. SUFFICES ASSUME NEW n \in Nodes, g[n] # Null
               PROVE  \E u \in Stacks : n \in Members(m[u])
  BY DEF AllOwned, m
<1>3. CASE n \in Members(c)
  BY <1>1, <1>3
<1>4. CASE h[n] # Null
  <2>1. PICK u \in Stacks : n \in Members(l[u])
    BY <1>4 DEF AllOwned
  <2>2. QED
    BY <1>1, <2>1
<1>5. QED
  BY <1>2, <1>3, <1>4

(* new returns an address that no list leads over.                         *)
LEMMA Allocated ==
  ASSUME NEW h \in Heaps, NEW l \in [Stacks -> Seq(Nodes)], Lists(h, l),
         NEW n \in Nodes, h[n] = Null, NEW x \in NodeType, x.previous = Null
  PROVE  LET g == [h EXCEPT ![n] = x]
         IN  /\ g \in Heaps /\ Lists(g, l) /\ Chained(g, <<n>>)
             /\ \A m \in Nodes : g[m] # Null <=> h[m] # Null \/ m = n
             /\ \A s \in Stacks : Apart(<<n>>, l[s]) /\ Apart(l[s], <<n>>)
<1> DEFINE g == [h EXCEPT ![n] = x]
<1>1. g \in Heaps /\ g[n] = x /\ \A m \in Nodes \ {n} : g[m] = h[m]
  BY DEF Heaps
<1> HIDE DEF g
<1>2. Chained(g, <<n>>)
  BY <1>1, NullIsNoNode DEF Chained
<1>3. ASSUME NEW s \in Stacks
      PROVE  \A i \in 1..Len(l[s]) : l[s][i] \in Nodes /\ l[s][i] # n
  <2>1. l[s] \in Seq(Nodes) /\ Chained(h, l[s])
    BY DEF Lists
  <2>2. QED
    BY <2>1, Ends DEF Chained
<1>4. \A s \in Stacks : Apart(<<n>>, l[s]) /\ Apart(l[s], <<n>>)
  BY <1>3 DEF Apart
<1>5. ASSUME NEW s \in Stacks
      PROVE  Chained(g, l[s])
  BY <1>1, <1>3 DEF Lists, Chained
<1>6. Lists(g, l)
  BY <1>5 DEF Lists
<1>7. \A m \in Nodes : g[m] # Null <=> h[m] # Null \/ m = n
  BY <1>1, NullIsNoNode
<1>8. QED
  BY <1>1, <1>2, <1>4, <1>6, <1>7 DEF g

LEMMA OneNode ==
  ASSUME NEW n \in Nodes
  PROVE  /\ <<n>> \in Seq(Nodes) /\ <<n>> # << >> /\ Simple(<<n>>)
         /\ Members(<<n>>) = {n} /\ Len(<<n>>) = 1
         /\ TopOf(<<n>>) = n /\ BottomOf(<<n>>) = n
<1>1. Len(<<n>>) = 1 /\ <<n>>[1] = n /\ 1..1 = {1}
  OBVIOUS
<1>2. QED
  BY <1>1 DEF Simple, Members, TopOf, BottomOf

(* A node is put at either end of a list.                                  *)
LEMMA NodeAdded ==
  ASSUME NEW n \in Nodes, NEW c \in Seq(Nodes)
  PROVE  /\ <<n>> \o c \in Seq(Nodes) /\ c \o <<n>> \in Seq(Nodes)
         /\ Members(<<n>> \o c) = {n} \union Members(c)
         /\ Members(c \o <<n>>) = Members(c) \union {n}
         /\ TopOf(<<n>> \o c) = n
         /\ BottomOf(<<n>> \o c) = IF c = << >> THEN n ELSE BottomOf(c)
         /\ TopOf(c \o <<n>>) = IF c = << >> THEN n ELSE TopOf(c)
         /\ BottomOf(c \o <<n>>) = n
         /\ Len(<<n>> \o c) = Len(c) + 1 /\ Len(c \o <<n>>) = Len(c) + 1
<1> DEFINE d == <<n>>
<1>1. /\ d \in Seq(Nodes) /\ d # << >> /\ Members(d) = {n} /\ Len(d) = 1
      /\ TopOf(d) = n /\ BottomOf(d) = n /\ Len(c) \in Nat
  BY OneNode
<1> HIDE DEF d
<1>2. Members(d \o c) = {n} \union Members(c) /\ Members(c \o d) = Members(c) \union {n}
  BY <1>1, ConcatMembers
<1>3. /\ TopOf(d \o c) = n
      /\ BottomOf(d \o c) = IF c = << >> THEN n ELSE BottomOf(c)
      /\ TopOf(c \o d) = IF c = << >> THEN n ELSE TopOf(c)
      /\ BottomOf(c \o d) = n
  BY <1>1, ConcatEnds
<1>4. /\ d \o c \in Seq(Nodes) /\ Len(d \o c) = 1 + Len(c)
      /\ c \o d \in Seq(Nodes) /\ Len(c \o d) = Len(c) + 1
  BY <1>1, Concat
<1>5. QED
  BY <1>1, <1>2, <1>3, <1>4 DEF d

-----------------------------------------------------------------------------
(* The invariant.                                                          *)

LEMMA Held ==
  ASSUME StackInv
  PROVE  /\ heap \in Heaps /\ list \in [Stacks -> Seq(Nodes)]
         /\ Pointers /\ Lists(heap, list) /\ AllOwned(heap, list)
         /\ \A s \in Stacks : /\ list[s] \in Seq(Nodes) /\ Len(list[s]) \in Nat
                              /\ sz[s] \in Nat
                              /\ list[s] = << >> <=> ntop[s] = Null
                              /\ list[s] = << >> <=> nbottom[s] = Null
                              /\ Chained(heap, list[s]) /\ Simple(list[s])
<1>1. heap \in Heaps /\ list \in [Stacks -> Seq(Nodes)] /\ sz \in [Stacks -> Nat]
  BY DEF StackInv, TypeOK, Heaps
<1>2. Pointers /\ Lists(heap, list) /\ AllOwned(heap, list)
  BY View DEF StackInv
<1>3. ASSUME NEW s \in Stacks
      PROVE  /\ list[s] \in Seq(Nodes) /\ Len(list[s]) \in Nat
             /\ list[s] = << >> <=> ntop[s] = Null
             /\ list[s] = << >> <=> nbottom[s] = Null
  <2>1. list[s] \in Seq(Nodes)
    BY <1>1
  <2>2. ntop[s] = TopOf(list[s]) /\ nbottom[s] = BottomOf(list[s])
    BY <1>2 DEF Pointers
  <2>3. QED
    BY <2>1, <2>2, Ends
<1>4. QED
  BY <1>1, <1>2, <1>3 DEF Lists

OfStacks(f) == f = [s \in Stacks |-> f[s]]

Functions == OfStacks(ntop) /\ OfStacks(nbottom) /\ OfStacks(sz) /\ OfStacks(name)

(* What s points to and counts is right for its list.                      *)
Pointed(s) ==
  /\ ntop[s] = TopOf(list[s]) /\ nbottom[s] = BottomOf(list[s])
  /\ sz[s] \in Nat /\ sz[s] >= Len(list[s])

Right(s) == Pointed(s) /\ name[s] \in Names \union {""}

Still(s) ==
  /\ ntop'[s] = ntop[s] /\ nbottom'[s] = nbottom[s] /\ sz'[s] = sz[s]
  /\ list'[s] = list[s]

Same(s) == Still(s) /\ name'[s] = name[s]

(* A step that changes the stacks D only keeps the invariant when the      *)
(* lists are right in the new heap, and their owners know them.            *)
LEMMA Keeps ==
  ASSUME StackInv, NEW D \in SUBSET Stacks,
         heap' \in Heaps, list' \in [Stacks -> Seq(Nodes)],
         Lists(heap', list'), AllOwned(heap', list'),
         Functions', \A s \in D : Right(s)', \A s \in Stacks \ D : Same(s),
         declared \subseteq declared', declared' \subseteq Typedefs,
         D \intersect Typedefs \subseteq declared'
  PROVE  StackInv'
<1>1. ASSUME NEW s \in Stacks
      PROVE  Right(s)'
  <2>1. CASE s \in D
    BY <2>1
  <2>2. CASE s \notin D
    BY <2>2, Held DEF Pointers, StackInv, TypeOK, Right, Same, Pointed, Still
  <2>3. QED
    BY <2>1, <2>2
<1>2. (ListsLinked /\ NodesOwned)'
  BY <1>1, View DEF Pointers, Right, Pointed
<1>3. ASSUME NEW s \in Stacks
      PROVE  ntop'[s] \in Nodes \union {Null} /\ nbottom'[s] \in Nodes \union {Null}
  <2>1. list'[s] \in Seq(Nodes)
    OBVIOUS
  <2>2. QED
    BY <1>1, <2>1, Ends DEF Right, Pointed
<1>4. TypeOK'
  BY <1>1, <1>3 DEF TypeOK, Heaps, Functions, OfStacks, Right, Pointed
<1>5. Unused'
  BY DEF Unused, StackInv, Stacks, Same, Still
<1>6. QED
  BY <1>2, <1>4, <1>5 DEF StackInv

LEMMA KeepsOne ==
  ASSUME StackInv, NEW s \in Stacks,
         heap' \in Heaps, list' \in [Stacks -> Seq(Nodes)],
         Lists(heap', list'), AllOwned(heap', list'),
         Functions', Right(s)', \A u \in Stacks \ {s} : Same(u),
         declared' = declared, s \in Typedefs => s \in declared
  PROVE  StackInv'
<1> DEFINE D == {s}
<1>1. /\ D \in SUBSET Stacks
      /\ \A u \in D : Right(u)'
      /\ \A u \in Stacks \ D : Same(u)
      /\ D \intersect Typedefs \subseteq declared'
      /\ declared \subseteq declared' /\ declared' \subseteq Typedefs
  BY DEF StackInv, TypeOK
<1> HIDE DEF D
<1>2. QED
  BY <1>1, Keeps

LEMMA KeepsTwo ==
  ASSUME StackInv, NEW s \in Stacks, NEW t \in Stacks,
         heap' \in Heaps, list' \in [Stacks -> Seq(Nodes)],
         Lists(heap', list'), AllOwned(heap', list'),
         Functions', Right(s)', Right(t)', \A u \in Stacks \ {s, t} : Same(u),
         declared \subseteq declared', declared' \subseteq Typedefs,
         {s, t} \intersect Typedefs \subseteq declared'
  PROVE  StackInv'
<1> DEFINE D == {s, t}
<1>1. /\ D \in SUBSET Stacks
      /\ \A u \in D : Right(u)'
      /\ \A u \in Stacks \ D : Same(u)
      /\ D \intersect Typedefs \subseteq declared'
  OBVIOUS
<1> HIDE DEF D
<1>2. QED
  BY <1>1, Keeps

LEMMA Push ==
  ASSUME StackInv, NEW s \in Locals, push(s)
  PROVE  StackInv'
<1>1. PICK n \in Free :
        /\ heap' = [heap EXCEPT ![n] = node("RT_POINTERTO", ntop[s], FALSE)]
        /\ ntop' = [ntop EXCEPT ![s] = n]
        /\ nbottom' = [nbottom EXCEPT ![s] = IF @ = Null THEN n ELSE @]
        /\ list' = [list EXCEPT ![s] = <<n>> \o @]
  BY DEF push
<1>2. sz' = [sz EXCEPT ![s] = @ + 1] /\ UNCHANGED <<name, declared>>
  BY DEF push
<1> DEFINE x == node("RT_POINTERTO", Null, FALSE)
           h == [heap EXCEPT ![n] = x]
           c == list[s]
<1>3. /\ s \in Stacks /\ s \notin Typedefs
      /\ n \in Nodes /\ heap[n] = Null /\ c \in Seq(Nodes) /\ Simple(c)
      /\ Len(c) \in Nat /\ sz[s] \in Nat /\ sz[s] >= Len(c)
      /\ ntop[s] = TopOf(c) /\ nbottom[s] = BottomOf(c)
  BY Held, ConstantsAssumption DEF Free, Stacks, Pointers
<1>4. x \in NodeType /\ x.previous = Null
  BY DEF NodeType, node, Types
<1>5. /\ h \in Heaps /\ Lists(h, list) /\ Chained(h, <<n>>)
      /\ \A m \in Nodes : h[m] # Null <=> heap[m] # Null \/ m = n
      /\ \A u \in Stacks : Apart(<<n>>, list[u]) /\ Apart(list[u], <<n>>)
  <2> HIDE DEF x
  <2>1. QED
    BY <1>3, <1>4, Held, Allocated
<1>6. heap' = Linked(h, n, TopOf(c))
  BY <1>1, <1>3, Held DEF Linked, node, Heaps
<1>7. list' = With(list, s, <<n>> \o c)
  BY <1>1 DEF With
<1> HIDE DEF x, h
<1>8. Joinable(h, list, s, <<n>>, c)
  BY <1>3, <1>5, Held, OneNode DEF Joinable, Lists
<1>9. /\ heap' \in Heaps /\ list' \in [Stacks -> Seq(Nodes)] /\ Lists(heap', list')
      /\ \A m \in Nodes : heap'[m] # Null <=> h[m] # Null
  BY <1>3, <1>6, <1>7, <1>8, Merged, OneNode
<1>10. AllOwned(heap', list')
  <2>1. Members(<<n>> \o c) = {n} \union Members(c)
    BY <1>3, NodeAdded
  <2>2. QED
    BY <1>3, <1>5, <1>7, <1>9, <2>1, Held, OwnedAfter
<1>11. Right(s)'
  <2>1. /\ list'[s] = <<n>> \o c /\ ntop'[s] = n
        /\ nbottom'[s] = IF nbottom[s] = Null THEN n ELSE nbottom[s]
        /\ sz'[s] = sz[s] + 1 /\ name'[s] \in Names \union {""}
    BY <1>1, <1>2, <1>3 DEF StackInv, TypeOK
  <2>2. /\ TopOf(<<n>> \o c) = n
        /\ BottomOf(<<n>> \o c) = IF c = << >> THEN n ELSE BottomOf(c)
        /\ Len(<<n>> \o c) = Len(c) + 1
    BY <1>3, NodeAdded
  <2>3. nbottom[s] = Null <=> c = << >>
    BY <1>3, Held
  <2>4. sz'[s] \in Nat /\ sz'[s] >= Len(c) + 1
    <3>1. sz[s] \in Nat /\ Len(c) \in Nat /\ sz[s] >= Len(c) /\ sz'[s] = sz[s] + 1
      BY <1>3, <2>1
    <3>2. QED
      BY <3>1
  <2>5. nbottom'[s] = IF c = << >> THEN n ELSE BottomOf(c)
    BY <1>3, <2>1, <2>3
  <2> HIDE DEF c
  <2>6. QED
    BY <2>1, <2>2, <2>4, <2>5 DEF Right, Pointed
<1>12. Functions' /\ \A u \in Stacks \ {s} : Same(u)
  BY <1>1, <1>2, <1>3 DEF StackInv, TypeOK, Functions, OfStacks, Same, Still
<1>13. QED
  BY <1>2, <1>3, <1>9, <1>10, <1>11, <1>12, KeepsOne

LEMMA PushBelow ==
  ASSUME StackInv, NEW s \in Locals, NEW type \in Types \ {"RT_POINTERTO"},
         push_below(s, type)
  PROVE  StackInv'
<1> DEFINE c == list[s]
<1>1. PICK n \in Free, filled \in IF type = "RT_FUNCTION" THEN BOOLEAN ELSE {TRUE} :
        LET h == [heap EXCEPT ![n] = node(type, Null, filled)]
        IN  /\ heap' = IF nbottom[s] = Null THEN h ELSE Linked(h, nbottom[s], n)
            /\ ntop' = [ntop EXCEPT ![s] = IF nbottom[s] = Null THEN n ELSE @]
            /\ nbottom' = [nbottom EXCEPT ![s] = n]
            /\ list' = [list EXCEPT ![s] = Append(@, n)]
  BY DEF push_below
<1>2. sz' = [sz EXCEPT ![s] = @ + 1] /\ UNCHANGED <<name, declared>>
  BY DEF push_below
<1> DEFINE x == node(type, Null, filled)
           h == [heap EXCEPT ![n] = x]
<1>3. /\ s \in Stacks /\ s \notin Typedefs
      /\ n \in Nodes /\ heap[n] = Null /\ c \in Seq(Nodes) /\ Simple(c)
      /\ Len(c) \in Nat /\ sz[s] \in Nat /\ sz[s] >= Len(c)
      /\ ntop[s] = TopOf(c) /\ nbottom[s] = BottomOf(c)
      /\ nbottom[s] = Null <=> c = << >>
  BY Held, ConstantsAssumption DEF Free, Stacks, Pointers
<1>4. x \in NodeType /\ x.previous = Null
  BY DEF NodeType, node, Types
<1>5. /\ h \in Heaps /\ Lists(h, list) /\ Chained(h, <<n>>)
      /\ \A m \in Nodes : h[m] # Null <=> heap[m] # Null \/ m = n
      /\ \A u \in Stacks : Apart(<<n>>, list[u]) /\ Apart(list[u], <<n>>)
  <2> HIDE DEF x
  <2>1. QED
    BY <1>3, <1>4, Held, Allocated
<1>6. heap' = IF c = << >> THEN h ELSE Linked(h, BottomOf(c), n)
  BY <1>1, <1>3
<1>7. list' = With(list, s, c \o <<n>>)
  <2>1. Append(c, n) = c \o <<n>>
    BY <1>3
  <2>2. QED
    BY <1>1, <2>1 DEF With
<1> HIDE DEF x, h
<1>8. /\ heap' \in Heaps /\ list' \in [Stacks -> Seq(Nodes)] /\ Lists(heap', list')
      /\ \A m \in Nodes : heap'[m] # Null <=> h[m] # Null
  <2>1. CASE c = << >>
    <3>1. c \o <<n>> = <<n>>
      BY <2>1
    <3>2. \A u \in Stacks \ {s} : Apart(<<n>>, list[u]) /\ Alike(h, h, list[u])
      BY <1>5 DEF Alike, Lists, Chained
    <3>3. <<n>> \in Seq(Nodes) /\ Simple(<<n>>)
      BY <1>3, OneNode
    <3>4. With(list, s, <<n>>) \in [Stacks -> Seq(Nodes)] /\ Lists(h, With(list, s, <<n>>))
      BY <1>3, <1>5, <3>2, <3>3, Held, Replaced
    <3> HIDE DEF c
    <3>5. QED
      BY <1>5, <1>6, <1>7, <2>1, <3>1, <3>4
  <2>2. CASE c # << >>
    <3>1. Joinable(h, list, s, c, <<n>>)
      BY <1>3, <1>5, <2>2, Held, OneNode DEF Joinable, Lists
    <3>2. TopOf(<<n>>) = n
      BY <1>3, OneNode
    <3>3. QED
      BY <1>6, <1>7, <2>2, <3>1, <3>2, Merged
  <2>3. QED
    BY <2>1, <2>2
<1>9. AllOwned(heap', list')
  <2>1. Members(c \o <<n>>) = Members(c) \union {n}
    BY <1>3, NodeAdded
  <2>2. QED
    BY <1>3, <1>5, <1>7, <1>8, <2>1, Held, OwnedAfter
<1>10. Right(s)'
  <2>1. /\ list'[s] = c \o <<n>> /\ nbottom'[s] = n
        /\ ntop'[s] = IF c = << >> THEN n ELSE TopOf(c)
        /\ sz'[s] = sz[s] + 1 /\ name'[s] \in Names \union {""}
    BY <1>1, <1>2, <1>3, <1>7 DEF StackInv, TypeOK, With
  <2>2. /\ TopOf(c \o <<n>>) = IF c = << >> THEN n ELSE TopOf(c)
        /\ BottomOf(c \o <<n>>) = n
        /\ Len(c \o <<n>>) = Len(c) + 1
    BY <1>3, NodeAdded
  <2>3. sz'[s] \in Nat /\ sz'[s] >= Len(c) + 1
    <3>1. sz[s] \in Nat /\ Len(c) \in Nat /\ sz[s] >= Len(c) /\ sz'[s] = sz[s] + 1
      BY <1>3, <2>1
    <3>2. QED
      BY <3>1
  <2> HIDE DEF c
  <2>4. QED
    BY <2>1, <2>2, <2>3 DEF Right, Pointed
<1>11. Functions' /\ \A u \in Stacks \ {s} : Same(u)
  BY <1>1, <1>2, <1>3 DEF StackInv, TypeOK, Functions, OfStacks, Same, Still
<1>12. QED
  BY <1>2, <1>3, <1>8, <1>9, <1>10, <1>11, KeepsOne

(* The first node of a list is taken off.                                  *)
LEMMA TopOff ==
  ASSUME NEW c \in Seq(Nodes), c # << >>
  PROVE  /\ Tail(c) \in Seq(Nodes) /\ 1 \in 1..Len(c) /\ TopOf(c) = c[1]
         /\ Len(Tail(c)) = Len(c) - 1
         /\ \A i \in 1..Len(Tail(c)) : i + 1 \in 1..Len(c) /\ Tail(c)[i] = c[i + 1]
         /\ \A i \in 1..Len(c) : i = 1 \/ (i - 1 \in 1..Len(Tail(c)) /\ c[i] = Tail(c)[i - 1])
         /\ TopOf(Tail(c)) = IF Len(c) = 1 THEN Null ELSE c[2]
         /\ BottomOf(Tail(c)) = IF Len(c) = 1 THEN Null ELSE BottomOf(c)
<1> DEFINE d == Tail(c)
           n == Len(c)
           k == Len(d)
<1>1. /\ d \in Seq(Nodes) /\ n \in Nat \ {0} /\ k = n - 1
      /\ \A i \in 1..k : d[i] = c[i + 1]
  OBVIOUS
<1>2. TopOf(c) = c[1] /\ BottomOf(c) = c[n]
  BY <1>1 DEF TopOf, BottomOf
<1>3. TopOf(d) = IF k = 0 THEN Null ELSE d[1]
  BY DEF TopOf
<1>4. BottomOf(d) = IF k = 0 THEN Null ELSE d[k]
  BY DEF BottomOf
<1> HIDE DEF d, n, k
<1>5. \A i \in 1..k : i + 1 \in 1..n
  BY <1>1
<1>6. \A i \in 1..n : i = 1 \/ (i - 1 \in 1..k /\ c[i] = d[i - 1])
  BY <1>1
<1>7. TopOf(d) = IF n = 1 THEN Null ELSE c[2]
  BY <1>1, <1>3
<1>8. BottomOf(d) = IF n = 1 THEN Null ELSE BottomOf(c)
  BY <1>1, <1>2, <1>4
<1>9. 1 \in 1..n
  BY <1>1
<1>10. QED
  BY <1>1, <1>2, <1>5, <1>6, <1>7, <1>8, <1>9 DEF d, n, k

LEMMA Pop ==
  ASSUME StackInv, NEW s \in Locals, pop(s)
  PROVE  StackInv'
<1> DEFINE c == list[s]
           n == ntop[s]
           d == Tail(c)
<1>1. /\ n # Null
      /\ ntop' = [ntop EXCEPT ![s] = heap[n].previous]
      /\ nbottom' = [nbottom EXCEPT ![s] = IF ntop'[s] = Null THEN Null ELSE @]
      /\ heap' = [heap EXCEPT ![n] = Null]
      /\ list' = With(list, s, d)
      /\ UNCHANGED <<sz, name, declared>>
  BY DEF pop, With
<1>2. /\ s \in Stacks /\ s \notin Typedefs
      /\ c \in Seq(Nodes) /\ c # << >> /\ Simple(c) /\ Chained(heap, c)
      /\ Len(c) \in Nat /\ sz[s] \in Nat /\ sz[s] >= Len(c)
      /\ n = TopOf(c) /\ nbottom[s] = BottomOf(c)
  BY <1>1, Held, ConstantsAssumption DEF Stacks, Pointers
<1>3. /\ d \in Seq(Nodes) /\ Len(d) \in Nat /\ Len(d) = Len(c) - 1
      /\ \A i \in 1..Len(d) : i + 1 \in 1..Len(c) /\ d[i] = c[i + 1]
      /\ \A i \in 1..Len(c) : i = 1 \/ (i - 1 \in 1..Len(d) /\ c[i] = d[i - 1])
      /\ 1 \in 1..Len(c) /\ n = c[1] /\ n \in Nodes
      /\ \A i \in 1..Len(c) : c[i] \in Nodes
  BY <1>2, TopOff, Ends
<1>4. /\ TopOf(d) = IF Len(c) = 1 THEN Null ELSE c[2]
      /\ BottomOf(d) = IF Len(c) = 1 THEN Null ELSE BottomOf(c)
  BY <1>2, TopOff
<1>5. heap[n].previous = TopOf(d)
  <2>1. heap[n].previous = IF 1 = Len(c) THEN Null ELSE c[1 + 1]
    BY <1>2, <1>3 DEF Chained
  <2> HIDE DEF c, d, n
  <2>2. QED
    BY <1>4, <2>1
<1>6. heap' \in Heaps /\ heap'[n] = Null /\ \A m \in Nodes \ {n} : heap'[m] = heap[m]
  BY <1>1, <1>3, Held DEF Heaps
<1> HIDE DEF c, n, d
<1>7. ASSUME NEW i \in 1..Len(d)
      PROVE  d[i] = c[i + 1] /\ i + 1 \in 1..Len(c) /\ d[i] \in Nodes /\ d[i] # n
  <2>1. d[i] = c[i + 1] /\ i + 1 \in 1..Len(c) /\ i + 1 # 1
    BY <1>3
  <2>2. QED
    BY <1>2, <1>3, <2>1 DEF Simple
<1>8. Chained(heap', d)
  <2>1. SUFFICES ASSUME NEW i \in 1..Len(d)
                 PROVE  /\ heap'[d[i]] # Null
                        /\ heap'[d[i]].previous = IF i = Len(d) THEN Null ELSE d[i + 1]
    BY DEF Chained
  <2>2. heap'[d[i]] = heap[c[i + 1]]
    BY <1>6, <1>7
  <2>3. /\ heap[c[i + 1]] # Null
        /\ heap[c[i + 1]].previous = IF i + 1 = Len(c) THEN Null ELSE c[i + 1 + 1]
    BY <1>2, <1>7 DEF Chained
  <2>4. i + 1 = Len(c) <=> i = Len(d)
    BY <1>2, <1>3
  <2>5. i # Len(d) => d[i + 1] = c[i + 1 + 1]
    <3>1. i # Len(d) => i + 1 \in 1..Len(d)
      BY <1>3
    <3>2. QED
      BY <1>7, <3>1
  <2>6. QED
    BY <2>2, <2>3, <2>4, <2>5
<1>9. Simple(d)
  <2>1. SUFFICES ASSUME NEW i \in 1..Len(d), NEW j \in 1..Len(d), d[i] = d[j]
                 PROVE  i = j
    BY DEF Simple
  <2>2. i + 1 = j + 1
    BY <1>2, <1>7, <2>1 DEF Simple
  <2>3. QED
    BY <2>2
<1>10. ASSUME NEW u \in Stacks \ {s}
       PROVE  Apart(d, list[u]) /\ Alike(heap, heap', list[u])
  <2>1. Apart(c, list[u]) /\ Chained(heap, list[u]) /\ list[u] \in Seq(Nodes)
    BY <1>2, Held DEF Lists, c
  <2>2. Apart(d, list[u])
    BY <1>7, <2>1 DEF Apart
  <2>3. \A i \in 1..Len(list[u]) : list[u][i] \in Nodes /\ list[u][i] # n
    BY <1>3, <2>1, Ends DEF Apart
  <2>4. Alike(heap, heap', list[u])
    BY <1>6, <2>1, <2>3 DEF Alike, Chained
  <2>5. QED
    BY <2>2, <2>4
<1>11. list' \in [Stacks -> Seq(Nodes)] /\ Lists(heap', list')
  BY <1>1, <1>2, <1>3, <1>8, <1>9, <1>10, Held, Replaced
<1>12. AllOwned(heap', list')
  <2>1. SUFFICES ASSUME NEW m \in Nodes, heap'[m] # Null
                 PROVE  \E u \in Stacks : m \in Members(list'[u])
    BY DEF AllOwned
  <2>2. m # n /\ heap[m] # Null
    BY <1>6, <2>1
  <2>3. PICK u \in Stacks : m \in Members(list[u])
    BY <2>2, Held DEF AllOwned
  <2>4. CASE u = s
    <3>1. PICK i \in 1..Len(c) : m = c[i]
      BY <2>3, <2>4 DEF Members, c
    <3>2. i - 1 \in 1..Len(d) /\ m = d[i - 1]
      BY <1>3, <2>2, <3>1
    <3>3. list'[s] = d
      BY <1>1, <1>2, Held DEF With
    <3>4. QED
      BY <1>2, <3>2, <3>3 DEF Members
  <2>5. CASE u # s
    BY <1>1, <2>3, <2>5, Held DEF With
  <2>6. QED
    BY <2>4, <2>5
<1>13. Right(s)'
  <2>1. /\ list'[s] = d /\ ntop'[s] = TopOf(d)
        /\ nbottom'[s] = IF ntop'[s] = Null THEN Null ELSE nbottom[s]
        /\ sz'[s] = sz[s] /\ name'[s] \in Names \union {""}
    BY <1>1, <1>2, <1>5, Held DEF StackInv, TypeOK, With, n
  <2>2. TopOf(d) = Null <=> Len(c) = 1
    <3>1. TopOf(d) = Null <=> d = << >>
      BY <1>3, Ends
    <3>2. Len(d) = 0 <=> d = << >>
      BY <1>3, Ends
    <3>3. Len(d) = 0 <=> Len(c) = 1
      BY <1>2, <1>3
    <3>4. QED
      BY <3>1, <3>2, <3>3
  <2>3. nbottom'[s] = BottomOf(d)
    BY <1>2, <1>4, <2>1, <2>2
  <2>4. sz'[s] \in Nat /\ sz'[s] >= Len(d)
    <3>1. sz[s] \in Nat /\ sz[s] >= Len(c) /\ Len(c) \in Nat /\ Len(d) = Len(c) - 1
      BY <1>2, <1>3
    <3>2. sz[s] >= Len(d)
      BY <3>1
    <3>3. sz'[s] = sz[s]
      BY <2>1
    <3>4. QED
      BY <3>1, <3>2, <3>3
  <2>5. QED
    BY <2>1, <2>3, <2>4 DEF Right, Pointed
<1>14. Functions' /\ \A u \in Stacks \ {s} : Same(u)
  BY <1>1, <1>2, Held DEF StackInv, TypeOK, Functions, OfStacks, Same, Still, With
<1>15. QED
  BY <1>1, <1>2, <1>6, <1>11, <1>12, <1>13, <1>14, KeepsOne

(* The lists of a heap, all in order.                                      *)
Orderly(h, l) ==
  /\ h \in Heaps /\ l \in [Stacks -> Seq(Nodes)]
  /\ Lists(h, l) /\ AllOwned(h, l)

(* What s gets when t is put below it, or on top of it.                    *)
LEMMA Handed ==
  ASSUME NEW h, NEW l, NEW s \in Stacks, NEW t \in Stacks, s # t, Orderly(h, l)
  PROVE  /\ l[t] # << >> =>
              Orderly(Linked(h, BottomOf(l[t]), TopOf(l[s])),
                      With(With(l, s, l[t] \o l[s]), t, << >>))
         /\ Orderly(IF l[s] = << >> THEN h ELSE Linked(h, BottomOf(l[s]), TopOf(l[t])),
                    With(With(l, s, l[s] \o l[t]), t, << >>))
         /\ Orderly(h, With(With(l, s, l[t]), t, l[s]))
<1>1. l \in [Stacks -> Seq(Nodes)] /\ l[s] \in Seq(Nodes) /\ l[t] \in Seq(Nodes)
  BY DEF Orderly
<1>2. Orderly(h, With(With(l, s, l[t]), t, l[s]))
  BY Exchanged DEF Orderly
<1>3. ASSUME l[t] # << >>
      PROVE  Orderly(Linked(h, BottomOf(l[t]), TopOf(l[s])),
                     With(With(l, s, l[t] \o l[s]), t, << >>))
  <2> DEFINE g == Linked(h, BottomOf(l[t]), TopOf(l[s]))
             c == l[t] \o l[s]
             m == With(With(l, s, << >>), t, c)
  <2>1. Orderly(g, m)
    BY <1>3, HandedBelow DEF Orderly
  <2>2. Orderly(g, With(With(m, s, m[t]), t, m[s]))
    <3> HIDE DEF g, m
    <3>1. QED
      BY <2>1, Exchanged DEF Orderly
  <2>3. With(With(m, s, m[t]), t, m[s]) = With(With(l, s, c), t, << >>)
    <3> HIDE DEF c
    <3>1. QED
      BY <1>1 DEF With
  <2> HIDE DEF m
  <2>4. QED
    BY <2>2, <2>3
<1>4. ASSUME l[s] # << >>
      PROVE  Orderly(Linked(h, BottomOf(l[s]), TopOf(l[t])),
                     With(With(l, s, l[s] \o l[t]), t, << >>))
  <2> DEFINE g == Linked(h, BottomOf(l[s]), TopOf(l[t]))
             c == l[s] \o l[t]
             m == With(With(l, t, << >>), s, c)
  <2>1. Orderly(g, m)
    BY <1>4, HandedBelow DEF Orderly
  <2>2. m = With(With(l, s, c), t, << >>)
    <3> HIDE DEF c
    <3>1. QED
      BY <1>1 DEF With
  <2> HIDE DEF m
  <2>3. QED
    BY <2>1, <2>2
<1>5. ASSUME l[s] = << >>
      PROVE  Orderly(h, With(With(l, s, l[s] \o l[t]), t, << >>))
  <2>1. l[s] \o l[t] = l[t]
    BY <1>1, <1>5
  <2>2. QED
    BY <1>2, <1>5, <2>1
<1>6. QED
  BY <1>2, <1>3, <1>4, <1>5

LEMMA HeldOrderly ==
  ASSUME StackInv
  PROVE  Orderly(heap, list)
BY Held DEF Orderly

(* append_c, append_nest_c and reduce.                                     *)
LEMMA OnTop ==
  ASSUME StackInv, NEW s \in Stacks, NEW t \in Stacks, s # t,
         nbottom[t] # Null, PutOnTop(s, t)
  PROVE  /\ Orderly(heap', list')
         /\ OfStacks(ntop') /\ OfStacks(nbottom') /\ OfStacks(sz')
         /\ Pointed(s)' /\ Pointed(t)'
         /\ \A u \in Stacks \ {s, t} : Still(u)
<1> DEFINE c == list[s]
           d == list[t]
           e == d \o c
<1>1. /\ c \in Seq(Nodes) /\ d \in Seq(Nodes) /\ d # << >>
      /\ nbottom[s] = BottomOf(c) /\ ntop[s] = TopOf(c)
      /\ nbottom[t] = BottomOf(d) /\ ntop[t] = TopOf(d)
      /\ c = << >> <=> nbottom[s] = Null
  BY Held DEF Pointers
<1>2. /\ sz[s] \in Nat /\ sz[t] \in Nat /\ Len(c) \in Nat /\ Len(d) \in Nat
      /\ sz[s] >= Len(c) /\ sz[t] >= Len(d)
  BY Held DEF Pointers
<1>3. list' = With(With(list, s, e), t, << >>)
  BY DEF PutOnTop, With
<1>4. Orderly(heap', list')
  <2>1. heap' = Linked(heap, BottomOf(d), TopOf(c))
    BY <1>1 DEF PutOnTop
  <2>2. QED
    BY <1>1, <1>3, <2>1, HeldOrderly, Handed
<1>5. /\ list'[s] = e /\ list'[t] = << >>
      /\ ntop'[s] = ntop[t] /\ ntop'[t] = Null
      /\ nbottom'[s] = IF nbottom[s] = Null THEN nbottom[t] ELSE nbottom[s]
      /\ nbottom'[t] = Null
      /\ sz'[s] = sz[s] + sz[t] /\ sz'[t] = 0
  BY DEF PutOnTop, StackInv, TypeOK
<1>6. /\ TopOf(e) = TopOf(d)
      /\ BottomOf(e) = IF c = << >> THEN BottomOf(d) ELSE BottomOf(c)
      /\ Len(e) = Len(d) + Len(c)
  <2> HIDE DEF c, d
  <2>1. QED
    BY <1>1, ConcatEnds, Concat
<1>7. sz'[s] \in Nat /\ sz'[s] >= Len(e)
  <2> HIDE DEF c, d, e
  <2>1. Len(e) = Len(d) + Len(c) /\ sz'[s] = sz[s] + sz[t]
    BY <1>5, <1>6
  <2>2. QED
    BY <1>2, <2>1
<1>8. Pointed(s)'
  <2> HIDE DEF c, d, e
  <2>1. QED
    BY <1>1, <1>5, <1>6, <1>7 DEF Pointed
<1>9. Pointed(t)'
  BY <1>5 DEF Pointed, TopOf, BottomOf
<1>10. /\ OfStacks(ntop') /\ OfStacks(nbottom') /\ OfStacks(sz')
       /\ \A u \in Stacks \ {s, t} : Still(u)
  BY DEF PutOnTop, StackInv, TypeOK, OfStacks, Still
<1>11. QED
  BY <1>4, <1>8, <1>9, <1>10

LEMMA Append_c ==
  ASSUME StackInv, NEW s \in Locals, NEW t \in Locals, s # t, append_c(s, t)
  PROVE  StackInv'
<1>1. /\ nbottom[t] # Null /\ PutOnTop(s, t) /\ s \in Stacks /\ t \in Stacks
      /\ s \notin Typedefs /\ t \notin Typedefs
      /\ name' = name /\ declared' = declared
  BY ConstantsAssumption DEF append_c, Stacks
<1>2. name \in [Stacks -> Names \union {""}] /\ declared \subseteq Typedefs
  BY DEF StackInv, TypeOK
<1>3. /\ Orderly(heap', list')
      /\ OfStacks(ntop') /\ OfStacks(nbottom') /\ OfStacks(sz')
      /\ Pointed(s)' /\ Pointed(t)' /\ \A u \in Stacks \ {s, t} : Still(u)
  BY <1>1, OnTop
<1>4. Functions' /\ Right(s)' /\ Right(t)' /\ \A u \in Stacks \ {s, t} : Same(u)
  BY <1>1, <1>2, <1>3 DEF Functions, OfStacks, Right, Same
<1>5. QED
  BY <1>1, <1>2, <1>3, <1>4, KeepsTwo DEF Orderly

LEMMA AppendNest_c ==
  ASSUME StackInv, NEW s \in Locals, NEW t \in Locals, s # t, append_nest_c(s, t)
  PROVE  StackInv'
<1>1. /\ s \in Stacks /\ t \in Stacks /\ s \notin Typedefs /\ t \notin Typedefs
      /\ declared' = declared
  BY ConstantsAssumption DEF append_nest_c, Stacks
<1>2. name \in [Stacks -> Names \union {""}] /\ declared \subseteq Typedefs
  BY DEF StackInv, TypeOK
<1>3. CASE nbottom[t] = Null
  <2>1. /\ name' = [name EXCEPT ![s] = IF name[t] = "" THEN @ ELSE name[t]]
        /\ UNCHANGED <<heap, ntop, nbottom, sz, list>>
    BY <1>3 DEF append_nest_c
  <2>2. Functions' /\ Right(s)' /\ \A u \in Stacks \ {s} : Same(u)
    BY <1>1, <1>2, <2>1, Held
       DEF Functions, OfStacks, Right, Same, Still, Pointed, Pointers, StackInv, TypeOK
  <2>3. QED
    BY <1>1, <2>1, <2>2, Held, KeepsOne
<1>4. CASE nbottom[t] # Null
  <2>1. PutOnTop(s, t) /\ name' = [name EXCEPT ![s] = name[t]]
    BY <1>4 DEF append_nest_c
  <2>2. /\ Orderly(heap', list')
        /\ OfStacks(ntop') /\ OfStacks(nbottom') /\ OfStacks(sz')
        /\ Pointed(s)' /\ Pointed(t)' /\ \A u \in Stacks \ {s, t} : Still(u)
    BY <1>1, <1>4, <2>1, OnTop
  <2>3. Functions' /\ Right(s)' /\ Right(t)' /\ \A u \in Stacks \ {s, t} : Same(u)
    BY <1>1, <1>2, <2>1, <2>2 DEF Functions, OfStacks, Right, Same
  <2>4. QED
    BY <1>1, <1>2, <2>2, <2>3, KeepsTwo DEF Orderly
<1>5. QED
  BY <1>3, <1>4

LEMMA EmptyPointed ==
  ASSUME NEW s, list'[s] = << >>, ntop'[s] = Null, nbottom'[s] = Null, sz'[s] = 0
  PROVE  Pointed(s)'
BY DEF Pointed, TopOf, BottomOf

LEMMA Prepend_c ==
  ASSUME StackInv, NEW s \in Locals, NEW t \in Locals, s # t, prepend_c(s, t)
  PROVE  StackInv'
<1> DEFINE c == list[s]
           d == list[t]
           e == c \o d
<1>1. /\ s \in Stacks /\ t \in Stacks /\ s \notin Typedefs /\ t \notin Typedefs
      /\ name' = name /\ declared' = declared /\ nbottom[t] # Null
  BY ConstantsAssumption DEF prepend_c, Stacks
<1>2. /\ c \in Seq(Nodes) /\ d \in Seq(Nodes) /\ d # << >>
      /\ nbottom[s] = BottomOf(c) /\ ntop[s] = TopOf(c)
      /\ nbottom[t] = BottomOf(d) /\ ntop[t] = TopOf(d)
      /\ c = << >> <=> ntop[s] = Null
  BY <1>1, Held DEF Pointers
<1>3. /\ sz[s] \in Nat /\ sz[t] \in Nat /\ Len(c) \in Nat /\ Len(d) \in Nat
      /\ sz[s] >= Len(c) /\ sz[t] >= Len(d)
  BY <1>1, Held DEF Pointers
<1>4. list' = With(With(list, s, e), t, << >>)
  BY DEF prepend_c, With
<1>5. Orderly(heap', list')
  <2>1. heap' = IF c = << >> THEN heap ELSE Linked(heap, BottomOf(c), TopOf(d))
    BY <1>2 DEF prepend_c
  <2>2. QED
    BY <1>1, <1>4, <2>1, HeldOrderly, Handed
<1>6. /\ list'[s] = e /\ list'[t] = << >>
      /\ ntop'[s] = IF ntop[s] = Null THEN ntop[t] ELSE ntop[s]
      /\ ntop'[t] = Null /\ nbottom'[s] = nbottom[t] /\ nbottom'[t] = Null
      /\ sz'[s] = sz[s] + sz[t] /\ sz'[t] = 0
      /\ name'[s] \in Names \union {""} /\ name'[t] \in Names \union {""}
  BY <1>1 DEF prepend_c, StackInv, TypeOK
<1>7. /\ TopOf(e) = IF c = << >> THEN TopOf(d) ELSE TopOf(c)
      /\ BottomOf(e) = BottomOf(d)
      /\ Len(e) = Len(c) + Len(d)
  <2> HIDE DEF c, d
  <2>1. QED
    BY <1>2, ConcatEnds, Concat
<1>8. sz'[s] \in Nat /\ sz'[s] >= Len(e)
  <2> HIDE DEF c, d, e
  <2>1. Len(e) = Len(c) + Len(d) /\ sz'[s] = sz[s] + sz[t]
    BY <1>6, <1>7
  <2>2. QED
    BY <1>3, <2>1
<1>9. Right(s)'
  <2> HIDE DEF c, d, e
  <2>1. QED
    BY <1>2, <1>6, <1>7, <1>8 DEF Right, Pointed
<1>10. Right(t)'
  <2>1. Pointed(t)'
    BY <1>6, EmptyPointed
  <2>2. QED
    BY <1>6, <2>1 DEF Right
<1>11. Functions' /\ \A u \in Stacks \ {s, t} : Same(u)
  BY <1>1 DEF prepend_c, StackInv, TypeOK, OfStacks, Functions, Still, Same
<1>12. declared \subseteq Typedefs
  BY DEF StackInv, TypeOK
<1>13. QED
  BY <1>1, <1>5, <1>9, <1>10, <1>11, <1>12, KeepsTwo DEF Orderly

LEMMA Swap ==
  ASSUME StackInv, NEW s \in Locals, NEW t \in Locals, s # t, swap(s, t)
  PROVE  StackInv'
<1>1. /\ s \in Stacks /\ t \in Stacks /\ s \notin Typedefs /\ t \notin Typedefs
      /\ heap' = heap /\ declared' = declared /\ declared \subseteq Typedefs
  BY ConstantsAssumption DEF swap, Stacks, StackInv, TypeOK
<1>2. list' = With(With(list, s, list[t]), t, list[s])
  BY DEF swap, With
<1>3. Orderly(heap', list')
  BY <1>1, <1>2, HeldOrderly, Handed
<1>4. /\ list'[s] = list[t] /\ ntop'[s] = ntop[t] /\ nbottom'[s] = nbottom[t]
      /\ sz'[s] = sz[t] /\ name'[s] = name[t] /\ name[t] \in Names \union {""}
      /\ list'[t] = list[s] /\ ntop'[t] = ntop[s] /\ nbottom'[t] = nbottom[s]
      /\ sz'[t] = sz[s] /\ name'[t] = name[s] /\ name[s] \in Names \union {""}
  BY <1>1 DEF swap, StackInv, TypeOK
<1>5. Right(s)' /\ Right(t)'
  BY <1>1, <1>4, Held DEF Right, Pointed, Pointers
<1>6. Functions' /\ \A u \in Stacks \ {s, t} : Same(u)
  BY <1>1 DEF swap, StackInv, TypeOK, OfStacks, Functions, Still, Same
<1>7. QED
  BY <1>1, <1>3, <1>5, <1>6, KeepsTwo DEF Orderly

LEMMA Declare ==
  ASSUME StackInv, NEW t \in Typedefs, NEW s \in Locals, declare(t, s)
  PROVE  /\ StackInv'
         /\ list[t] = << >> /\ name[t] = ""
<1>1. /\ s \in Stacks /\ t \in Stacks /\ s \notin Typedefs /\ s # t
      /\ heap' = heap /\ declared' = declared \union {t} /\ declared \subseteq Typedefs
  BY ConstantsAssumption DEF declare, Stacks, StackInv, TypeOK
<1>2. list[t] = << >> /\ name[t] = ""
  BY DEF declare, StackInv, Unused
<1>3. list' = With(With(list, t, list[s]), s, list[t])
  BY <1>2 DEF declare, With
<1>4. Orderly(heap', list')
  BY <1>1, <1>3, HeldOrderly, Handed
<1>5. /\ list'[t] = list[s] /\ ntop'[t] = ntop[s] /\ nbottom'[t] = nbottom[s]
      /\ sz'[t] = sz[s] /\ name'[t] = name[s] /\ name[s] \in Names \union {""}
      /\ list'[s] = << >> /\ ntop'[s] = Null /\ nbottom'[s] = Null
      /\ sz'[s] = 0 /\ name'[s] = ""
  BY <1>1 DEF declare, StackInv, TypeOK
<1>6. Right(t)'
  BY <1>1, <1>5, Held DEF Right, Pointed, Pointers
<1>7. Right(s)'
  <2>1. Pointed(s)'
    BY <1>5, EmptyPointed
  <2>2. QED
    BY <1>5, <2>1 DEF Right
<1>8. Functions' /\ \A u \in Stacks \ {s, t} : Same(u)
  BY <1>1 DEF declare, StackInv, TypeOK, OfStacks, Functions, Still, Same
<1>9. QED
  BY <1>1, <1>2, <1>4, <1>6, <1>7, <1>8, KeepsTwo DEF Orderly

LEMMA Reduce ==
  ASSUME StackInv, NEW s \in Locals, NEW t \in Typedefs, reduce(s, t)
  PROVE  StackInv'
<1>1. /\ s \in Stacks /\ t \in Stacks /\ s \notin Typedefs /\ s # t
      /\ t \in declared /\ declared' = declared /\ name' = [name EXCEPT ![t] = ""]
  BY ConstantsAssumption DEF reduce, Stacks
<1>2. name \in [Stacks -> Names \union {""}] /\ declared \subseteq Typedefs
  BY DEF StackInv, TypeOK
<1>3. CASE nbottom[t] = Null
  <2>1. sz' = [sz EXCEPT ![t] = 0] /\ UNCHANGED <<heap, ntop, nbottom, list>>
    BY <1>3 DEF reduce
  <2>2. list[t] = << >>
    BY <1>1, <1>3, Held
  <2>3. Right(t)'
    <3>1. list'[t] = << >> /\ ntop'[t] = Null /\ nbottom'[t] = Null /\ sz'[t] = 0
      BY <1>1, <1>3, <2>1, <2>2, Held DEF StackInv, TypeOK
    <3>2. Pointed(t)'
      BY <3>1, EmptyPointed
    <3>3. QED
      BY <1>1, <1>2, <3>2 DEF Right
  <2>4. Functions' /\ \A u \in Stacks \ {t} : Same(u)
    BY <1>1, <1>2, <2>1 DEF Functions, OfStacks, Same, Still, StackInv, TypeOK
  <2>5. QED
    BY <1>1, <2>1, <2>3, <2>4, Held, KeepsOne
<1>4. CASE nbottom[t] # Null
  <2>1. PutOnTop(s, t)
    BY <1>4 DEF reduce
  <2>2. /\ Orderly(heap', list')
        /\ OfStacks(ntop') /\ OfStacks(nbottom') /\ OfStacks(sz')
        /\ Pointed(s)' /\ Pointed(t)' /\ \A u \in Stacks \ {s, t} : Still(u)
    BY <1>1, <1>4, <2>1, OnTop
  <2>3. Functions' /\ Right(s)' /\ Right(t)' /\ \A u \in Stacks \ {s, t} : Same(u)
    BY <1>1, <1>2, <2>2 DEF Functions, OfStacks, Right, Same
  <2>4. QED
    BY <1>1, <1>2, <2>2, <2>3, KeepsTwo DEF Orderly
<1>5. QED
  BY <1>3, <1>4

LEMMA ReadName ==
  ASSUME StackInv, NEW s \in Locals, read_name(s)
  PROVE  StackInv'
<1>1. PICK n \in Names : name' = [name EXCEPT ![s] = n]
  BY DEF read_name
<1>2. /\ s \in Stacks /\ s \notin Typedefs
      /\ UNCHANGED <<heap, ntop, nbottom, sz, declared, list>>
  BY ConstantsAssumption DEF read_name, Stacks
<1>3. Functions' /\ Right(s)' /\ \A u \in Stacks \ {s} : Same(u)
  BY <1>1, <1>2, Held
     DEF Functions, OfStacks, Right, Same, Still, Pointed, Pointers, StackInv, TypeOK
<1>4. QED
  BY <1>2, <1>3, Held, KeepsOne

LEMMA Destroy ==
  ASSUME StackInv, NEW s \in Locals, destroy(s)
  PROVE  StackInv'
<1> DEFINE c == list[s]
<1>1. /\ s \in Stacks /\ s \notin Typedefs /\ declared' = declared
      /\ list' = With(list, s, << >>)
      /\ heap' = [n \in Nodes |-> IF n \in Members(c) THEN Null ELSE heap[n]]
  BY ConstantsAssumption DEF destroy, clear, Stacks, With
<1>2. heap' \in Heaps
  BY <1>1, Held DEF Heaps
<1>3. ASSUME NEW u \in Stacks \ {s}
      PROVE  Apart(<< >>, list[u]) /\ Alike(heap, heap', list[u])
  <2>1. Apart(c, list[u]) /\ Chained(heap, list[u]) /\ list[u] \in Seq(Nodes)
    BY <1>1, Held DEF Lists
  <2>2. \A i \in 1..Len(list[u]) : list[u][i] \in Nodes /\ list[u][i] \notin Members(c)
    BY <2>1, Ends DEF Apart, Members
  <2>3. QED
    BY <1>1, <2>1, <2>2, EmptyList DEF Alike, Chained
<1>4. list' \in [Stacks -> Seq(Nodes)] /\ Lists(heap', list')
  BY <1>1, <1>3, Held, EmptyList, Replaced
<1>5. AllOwned(heap', list')
  <2>1. SUFFICES ASSUME NEW m \in Nodes, heap'[m] # Null
                 PROVE  \E u \in Stacks : m \in Members(list'[u])
    BY DEF AllOwned
  <2>2. m \notin Members(c) /\ heap[m] # Null
    BY <1>1, <2>1
  <2>3. PICK u \in Stacks : m \in Members(list[u])
    BY <2>2, Held DEF AllOwned
  <2>4. QED
    BY <1>1, <2>2, <2>3, Held DEF With
<1>6. Right(s)'
  <2>1. /\ list'[s] = << >> /\ ntop'[s] = Null /\ nbottom'[s] = Null
        /\ sz'[s] = 0 /\ name'[s] = ""
    BY <1>1 DEF destroy, clear, StackInv, TypeOK
  <2>2. Pointed(s)'
    BY <2>1, EmptyPointed
  <2>3. QED
    BY <2>1, <2>2 DEF Right
<1>7. Functions' /\ \A u \in Stacks \ {s} : Same(u)
  BY <1>1 DEF destroy, clear, StackInv, TypeOK, Functions, OfStacks, Same, Still
<1>8. QED
  BY <1>1, <1>2, <1>4, <1>5, <1>6, <1>7, KeepsOne

-----------------------------------------------------------------------------
(* Copying.                                                                *)

CopyTo(x, p) == [duplicate(x) EXCEPT !.previous = p]

(* duplicate makes a node of the same type, and leaves one.                *)
LEMMA DuplicateNodes ==
  ASSUME NEW x \in NodeType, NEW p \in Nodes \union {Null}
  PROVE  /\ CopyTo(x, p) \in NodeType
         /\ CopyTo(x, p).previous = p
         /\ CopyTo(x, p).type = x.type
         /\ duplicated(x) \in NodeType
         /\ duplicated(x).previous = x.previous
         /\ duplicated(x).type = x.type
<1>1. /\ x = [type |-> x.type, previous |-> x.previous, filled |-> x.filled]
      /\ x.type \in Types /\ x.previous \in Nodes \union {Null} /\ x.filled \in BOOLEAN
      /\ x.type = "RT_POINTERTO" => ~x.filled
      /\ x.type = "RT_ARRAYBOUND" => x.filled
  BY DEF NodeType
<1> DEFINE y == CopyTo(x, p)
           z == duplicated(x)
           b == x.filled /\ x.type # "RT_MEMBER_POINTER"
           d == x.filled /\ x.type # "RT_FUNCTION"
<1>2. y = [type |-> x.type, previous |-> p, filled |-> b]
  <2>1. duplicate(x) = [type |-> x.type, previous |-> x.previous, filled |-> b]
    BY <1>1 DEF duplicate
  <2> HIDE DEF b
  <2>2. QED
    BY <2>1 DEF CopyTo
<1>3. z = [type |-> x.type, previous |-> x.previous, filled |-> d]
  BY <1>1 DEF duplicated
<1>4. /\ b \in BOOLEAN /\ d \in BOOLEAN
      /\ x.type = "RT_POINTERTO" => ~b /\ ~d
      /\ x.type = "RT_ARRAYBOUND" => b /\ d
  BY <1>1
<1> HIDE DEF y, z, b, d
<1>5. y \in NodeType /\ y.previous = p /\ y.type = x.type
  BY <1>1, <1>2, <1>4 DEF NodeType
<1>6. z \in NodeType /\ z.previous = x.previous /\ z.type = x.type
  BY <1>1, <1>3, <1>4 DEF NodeType
<1>7. QED
  BY <1>5, <1>6 DEF y, z

LEMMA CopiesAreLists ==
  ASSUME NEW c \in Seq(Nodes), NEW f \in Copies(c)
  PROVE  /\ f \in Seq(Nodes) /\ Len(f) = Len(c) /\ Len(c) \in Nat /\ Simple(f)
         /\ \A i \in 1..Len(c) : f[i] \in Nodes /\ heap[f[i]] = Null
<1>1. f \in [1..Len(c) -> Nodes] /\ Len(c) \in Nat
  BY DEF Copies, Free
<1>2. f \in Seq(Nodes) /\ Len(f) = Len(c)
  BY <1>1, SeqDef
<1>3. QED
  BY <1>1, <1>2 DEF Copies, Free, Simple

LEMMA CopiedHeap ==
  ASSUME StackInv, NEW t \in Stacks, NEW f \in Copies(list[t])
  PROVE  LET c == list[t]
             g == Copied(c, f)
         IN  /\ g \in Heaps
             /\ \A i \in 1..Len(c) :
                  /\ g[f[i]] # Null /\ g[f[i]].type = heap[c[i]].type
                  /\ g[f[i]].previous = IF i = Len(c) THEN Null ELSE f[i + 1]
             /\ \A n \in Nodes : heap[n] # Null =>
                  /\ g[n] # Null /\ g[n].type = heap[n].type
                  /\ g[n].previous = heap[n].previous
             /\ \A n \in Nodes : g[n] # Null => heap[n] # Null \/ n \in Members(f)
<1> DEFINE c == list[t]
           g == Copied(c, f)
           next(i) == IF i = Len(f) THEN Null ELSE f[i + 1]
           copyof(i) == CopyTo(heap[c[i]], next(i))
<1>1. /\ c \in Seq(Nodes) /\ Chained(heap, c) /\ heap \in Heaps
      /\ \A i \in 1..Len(c) : c[i] \in Nodes
  BY Held, Ends
<1>2. /\ f \in Seq(Nodes) /\ Len(f) = Len(c) /\ Len(c) \in Nat /\ Simple(f)
      /\ \A i \in 1..Len(c) : f[i] \in Nodes /\ heap[f[i]] = Null
  BY <1>1, CopiesAreLists
<1>3. ASSUME NEW i \in 1..Len(c)
      PROVE  heap[c[i]] \in NodeType /\ heap[c[i]] # Null
  BY <1>1 DEF Chained, Heaps
<1>4. ASSUME NEW i \in 1..Len(c)
      PROVE  next(i) \in Nodes \union {Null}
  <2>1. i # Len(f) => i + 1 \in 1..Len(c)
    BY <1>2
  <2>2. QED
    BY <1>2, <2>1
<1>5. ASSUME NEW i \in 1..Len(c)
      PROVE  g[f[i]] = copyof(i)
  <2>1. f[i] \in Members(f) /\ f[i] \in Nodes
    BY <1>2 DEF Members
  <2>2. \A j \in 1..Len(f) : f[j] = f[i] <=> j = i
    BY <1>2 DEF Simple
  <2>3. (CHOOSE j \in 1..Len(f) : f[j] = f[i]) = i
    BY <1>2, <2>2
  <2> DEFINE k == CHOOSE j \in 1..Len(f) : f[j] = f[i]
  <2>4. g[f[i]] = copyof(k)
    BY <2>1 DEF Copied, CopyTo
  <2> HIDE DEF k, copyof, g
  <2>5. QED
    BY <2>3, <2>4 DEF k
<1>6. ASSUME NEW n \in Nodes, n \notin Members(f)
      PROVE  g[n] = IF n \in Members(c) THEN duplicated(heap[n]) ELSE heap[n]
  BY <1>6 DEF Copied
<1>7. ASSUME NEW i \in 1..Len(c)
      PROVE  /\ g[f[i]] \in NodeType /\ g[f[i]].type = heap[c[i]].type
             /\ g[f[i]].previous = next(i)
  <2> DEFINE x == heap[c[i]]
             p == next(i)
  <2>1. g[f[i]] = CopyTo(x, p)
    BY <1>5
  <2>2. x \in NodeType /\ p \in Nodes \union {Null}
    BY <1>3, <1>4
  <2> HIDE DEF g, x, p
  <2>3. g[f[i]] \in NodeType /\ g[f[i]].type = x.type /\ g[f[i]].previous = p
    BY <2>1, <2>2, DuplicateNodes
  <2>4. QED
    BY <2>3 DEF x, p
<1>8. ASSUME NEW n \in Nodes, n \notin Members(f)
      PROVE  /\ g[n] \in NodeType \union {Null} /\ (g[n] = Null <=> heap[n] = Null)
             /\ heap[n] # Null => /\ g[n].type = heap[n].type
                                  /\ g[n].previous = heap[n].previous
  <2>1. CASE n \in Members(c)
    <3>1. heap[n] \in NodeType /\ heap[n] # Null
      BY <1>3, <2>1 DEF Members
    <3>2. /\ duplicated(heap[n]) \in NodeType
          /\ duplicated(heap[n]).previous = heap[n].previous
          /\ duplicated(heap[n]).type = heap[n].type
      BY <3>1, DuplicateNodes
    <3> HIDE DEF g, c
    <3>3. QED
      BY <1>6, <1>8, <2>1, <3>1, <3>2, NullIsNoNode
  <2>2. CASE n \notin Members(c)
    <3> HIDE DEF g, c
    <3>1. QED
      BY <1>1, <1>6, <1>8, <2>2 DEF Heaps
  <2>3. QED
    BY <2>1, <2>2
<1>9. \A n \in Members(f) : heap[n] = Null /\ \E i \in 1..Len(c) : n = f[i]
  BY <1>2 DEF Members
<1>10. g \in Heaps
  <2>1. g = [n \in Nodes |-> g[n]]
    BY DEF Copied
  <2> HIDE DEF g, c
  <2>2. \A n \in Nodes : g[n] \in NodeType \union {Null}
    BY <1>7, <1>8, <1>9
  <2>3. QED
    BY <2>1, <2>2 DEF Heaps
<1> HIDE DEF g, c
<1>11. \A i \in 1..Len(c) :
         /\ g[f[i]] # Null /\ g[f[i]].type = heap[c[i]].type
         /\ g[f[i]].previous = IF i = Len(c) THEN Null ELSE f[i + 1]
  BY <1>2, <1>7, NullIsNoNode
<1>12. \A n \in Nodes : heap[n] # Null =>
         /\ g[n] # Null /\ g[n].type = heap[n].type
         /\ g[n].previous = heap[n].previous
  BY <1>8, <1>9
<1>13. \A n \in Nodes : g[n] # Null => heap[n] # Null \/ n \in Members(f)
  BY <1>8
<1>14. QED
  BY <1>10, <1>11, <1>12, <1>13 DEF g, c

(* The copies make a list of their own, and no other list changes.         *)
LEMMA CopiedLists ==
  ASSUME StackInv, NEW t \in Stacks, NEW f \in Copies(list[t])
  PROVE  LET g == Copied(list[t], f)
         IN  /\ g \in Heaps /\ Lists(g, list)
             /\ f \in Seq(Nodes) /\ Len(f) = Len(list[t]) /\ Chained(g, f) /\ Simple(f)
             /\ \A u \in Stacks : Apart(f, list[u]) /\ Apart(list[u], f)
             /\ \A n \in Nodes : g[n] # Null => heap[n] # Null \/ n \in Members(f)
<1> DEFINE c == list[t]
           g == Copied(c, f)
<1>1. /\ g \in Heaps
      /\ \A i \in 1..Len(c) :
           /\ g[f[i]] # Null
           /\ g[f[i]].previous = IF i = Len(c) THEN Null ELSE f[i + 1]
      /\ \A n \in Nodes : heap[n] # Null =>
           g[n] # Null /\ g[n].previous = heap[n].previous
      /\ \A n \in Nodes : g[n] # Null => heap[n] # Null \/ n \in Members(f)
  BY CopiedHeap
<1>2. /\ f \in Seq(Nodes) /\ Len(f) = Len(c) /\ Simple(f)
      /\ \A i \in 1..Len(f) : f[i] \in Nodes /\ heap[f[i]] = Null
  <2>1. c \in Seq(Nodes)
    BY Held
  <2>2. QED
    BY <2>1, CopiesAreLists
<1> HIDE DEF g, c
<1>3. Chained(g, f)
  BY <1>1, <1>2 DEF Chained
<1>4. ASSUME NEW u \in Stacks
      PROVE  \A i \in 1..Len(list[u]) : list[u][i] \in Nodes /\ heap[list[u][i]] # Null
  BY Held, Ends DEF Chained
<1>5. \A u \in Stacks : Apart(f, list[u]) /\ Apart(list[u], f)
  BY <1>2, <1>4 DEF Apart
<1>6. ASSUME NEW u \in Stacks
      PROVE  Chained(g, list[u])
  <2>1. Chained(heap, list[u])
    BY Held
  <2>2. QED
    BY <1>1, <1>4, <2>1 DEF Chained
<1>7. Lists(g, list)
  BY <1>6, Held DEF Lists
<1>8. QED
  BY <1>1, <1>2, <1>3, <1>5, <1>7 DEF g, c

LEMMA Copy ==
  ASSUME StackInv, NEW s \in Locals, NEW t \in Stacks, s # t, copy(s, t)
  PROVE  StackInv'
<1>1. PICK f \in Copies(list[t]) :
        /\ heap' = Copied(list[t], f)
        /\ ntop' = [ntop EXCEPT ![s] = IF f = << >> THEN Null ELSE f[1]]
        /\ nbottom' = [nbottom EXCEPT ![s] = IF f = << >> THEN Null ELSE f[Len(f)]]
        /\ list' = With(list, s, f)
  BY DEF copy, With
<1>2. /\ s \in Stacks /\ s \notin Typedefs /\ declared' = declared
      /\ list[s] = << >> /\ sz[t] \in Nat /\ sz[t] >= Len(list[t])
      /\ sz' = [sz EXCEPT ![s] = sz[t]] /\ name' = [name EXCEPT ![s] = name[t]]
  BY Held, ConstantsAssumption DEF copy, Stacks, Pointers
<1>3. /\ heap' \in Heaps /\ Lists(heap', list)
      /\ f \in Seq(Nodes) /\ Len(f) = Len(list[t]) /\ Chained(heap', f) /\ Simple(f)
      /\ \A u \in Stacks : Apart(f, list[u])
      /\ \A n \in Nodes : heap'[n] # Null => heap[n] # Null \/ n \in Members(f)
  BY <1>1, CopiedLists
<1>4. \A u \in Stacks \ {s} : Apart(f, list[u]) /\ Alike(heap', heap', list[u])
  BY <1>3 DEF Alike, Lists, Chained
<1>5. list' \in [Stacks -> Seq(Nodes)] /\ Lists(heap', list')
  BY <1>1, <1>2, <1>3, <1>4, Held, Replaced
<1>6. AllOwned(heap', list')
  <2>1. Members(list[s]) \subseteq Members(f)
    BY <1>2 DEF Members
  <2>2. QED
    BY <1>1, <1>2, <1>3, <2>1, Held, OwnedAfter
<1>7. Right(s)'
  <2>1. list'[s] = f /\ sz'[s] = sz[t] /\ name'[s] \in Names \union {""}
    BY <1>1, <1>2, Held DEF StackInv, TypeOK, With
  <2>2. TopOf(f) = IF f = << >> THEN Null ELSE f[1]
    BY <1>3, Ends DEF TopOf
  <2>3. BottomOf(f) = IF f = << >> THEN Null ELSE f[Len(f)]
    BY <1>3, Ends DEF BottomOf
  <2>4. ntop'[s] = TopOf(f) /\ nbottom'[s] = BottomOf(f)
    BY <1>1, <1>2, <2>2, <2>3 DEF StackInv, TypeOK
  <2>5. QED
    BY <1>2, <1>3, <2>1, <2>4 DEF Right, Pointed
<1>8. Functions' /\ \A u \in Stacks \ {s} : Same(u)
  BY <1>1, <1>2, Held DEF StackInv, TypeOK, Functions, OfStacks, Same, Still, With
<1>9. QED
  BY <1>2, <1>3, <1>5, <1>6, <1>7, <1>8, KeepsOne

LEMMA Prepend ==
  ASSUME StackInv, NEW s \in Locals, NEW t \in Stacks, s # t, prepend(s, t)
  PROVE  StackInv'
<1> DEFINE c == list[s]
<1>1. PICK f \in Copies(list[t]) :
        /\ heap' = IF ntop[s] = Null THEN Copied(list[t], f)
                   ELSE Linked(Copied(list[t], f), nbottom[s], f[1])
        /\ ntop' = [ntop EXCEPT ![s] = IF @ = Null THEN f[1] ELSE @]
        /\ nbottom' = [nbottom EXCEPT ![s] = f[Len(f)]]
        /\ list' = With(list, s, c \o f)
  BY DEF prepend, With
<1> DEFINE g == Copied(list[t], f)
<1>2. /\ s \in Stacks /\ s \notin Typedefs /\ declared' = declared /\ name' = name
      /\ sz' = [sz EXCEPT ![s] = @ + sz[t]]
      /\ c \in Seq(Nodes) /\ Simple(c) /\ ntop[s] = TopOf(c) /\ nbottom[s] = BottomOf(c)
      /\ ntop[s] = Null <=> c = << >>
      /\ list[t] # << >> /\ list[t] \in Seq(Nodes)
  BY Held, ConstantsAssumption DEF prepend, Stacks, Pointers
<1>3. /\ sz[s] \in Nat /\ sz[t] \in Nat /\ Len(c) \in Nat /\ Len(list[t]) \in Nat
      /\ sz[s] >= Len(c) /\ sz[t] >= Len(list[t])
  BY <1>2, Held DEF Pointers
<1>4. /\ g \in Heaps /\ Lists(g, list)
      /\ f \in Seq(Nodes) /\ Len(f) = Len(list[t]) /\ Chained(g, f) /\ Simple(f)
      /\ \A u \in Stacks : Apart(f, list[u]) /\ Apart(list[u], f)
      /\ \A n \in Nodes : g[n] # Null => heap[n] # Null \/ n \in Members(f)
  BY CopiedLists
<1>5. f # << >> /\ TopOf(f) = f[1] /\ BottomOf(f) = f[Len(f)]
  <2>1. Len(f) # 0
    BY <1>2, <1>4, Ends
  <2>2. QED
    BY <1>4, <2>1, Ends DEF TopOf, BottomOf
<1> HIDE DEF g
<1>6. /\ heap' \in Heaps /\ list' \in [Stacks -> Seq(Nodes)] /\ Lists(heap', list')
      /\ \A n \in Nodes : heap'[n] # Null <=> g[n] # Null
  <2>1. CASE c = << >>
    <3>1. c \o f = f /\ heap' = g
      BY <1>1, <1>2, <1>4, <2>1 DEF g
    <3>2. \A u \in Stacks \ {s} : Apart(f, list[u]) /\ Alike(g, g, list[u])
      BY <1>4 DEF Alike, Lists, Chained
    <3>3. With(list, s, f) \in [Stacks -> Seq(Nodes)] /\ Lists(g, With(list, s, f))
      BY <1>2, <1>4, <3>2, Held, Replaced
    <3> HIDE DEF c
    <3>4. QED
      BY <1>1, <1>4, <3>1, <3>3
  <2>2. CASE c # << >>
    <3>1. Joinable(g, list, s, c, f)
      BY <1>2, <1>4, <2>2, Held DEF Joinable, Lists
    <3>2. heap' = Linked(g, BottomOf(c), TopOf(f))
      BY <1>1, <1>2, <1>5, <2>2 DEF g
    <3>3. QED
      BY <1>1, <3>1, <3>2, Merged
  <2>3. QED
    BY <2>1, <2>2
<1>7. Members(c \o f) = Members(c) \union Members(f)
  BY <1>2, <1>4, ConcatMembers
<1>8. AllOwned(heap', list')
  BY <1>1, <1>2, <1>4, <1>6, <1>7, Held, OwnedAfter
<1>9. Right(s)'
  <2>1. /\ list'[s] = c \o f /\ nbottom'[s] = BottomOf(f)
        /\ ntop'[s] = IF c = << >> THEN TopOf(f) ELSE TopOf(c)
        /\ sz'[s] = sz[s] + sz[t] /\ name'[s] \in Names \union {""}
    BY <1>1, <1>2, <1>5, Held DEF StackInv, TypeOK, With
  <2>2. /\ TopOf(c \o f) = IF c = << >> THEN TopOf(f) ELSE TopOf(c)
        /\ BottomOf(c \o f) = BottomOf(f) /\ Len(c \o f) = Len(c) + Len(f)
    <3>1. c \in Seq(Nodes) /\ f \in Seq(Nodes) /\ f # << >>
      BY <1>2, <1>4, <1>5
    <3> HIDE DEF c
    <3>2. QED
      BY <3>1, ConcatEnds, Concat
  <2>3. sz'[s] \in Nat /\ sz'[s] >= Len(c) + Len(f)
    <3> DEFINE n == Len(c)
               k == Len(f)
    <3>1. /\ sz[s] \in Nat /\ sz[t] \in Nat /\ n \in Nat /\ k \in Nat
          /\ sz[s] >= n /\ sz[t] >= k
      BY <1>3, <1>4
    <3>2. sz'[s] = sz[s] + sz[t]
      BY <2>1
    <3> HIDE DEF n, k
    <3>3. sz'[s] \in Nat /\ sz'[s] >= n + k
      BY <3>1, <3>2
    <3>4. QED
      BY <3>3 DEF n, k
  <2> HIDE DEF c
  <2>4. QED
    BY <2>1, <2>2, <2>3 DEF Right, Pointed
<1>10. Functions' /\ \A u \in Stacks \ {s} : Same(u)
  BY <1>1, <1>2, Held DEF StackInv, TypeOK, Functions, OfStacks, Same, Still, With
<1>11. QED
  BY <1>2, <1>6, <1>8, <1>9, <1>10, KeepsOne

-----------------------------------------------------------------------------
(* The invariant holds whatever the readers do.                            *)

LEMMA InitInv == Init => StackInv
<1> SUFFICES ASSUME Init
             PROVE  StackInv
  OBVIOUS
<1>1. ASSUME NEW s \in Stacks
      PROVE  /\ list[s] = << >> /\ Len(list[s]) = 0 /\ ntop[s] = Null /\ nbottom[s] = Null
             /\ sz[s] = 0 /\ name[s] = ""
  <2>1. /\ list[s] = << >> /\ ntop[s] = Null /\ nbottom[s] = Null
        /\ sz[s] = 0 /\ name[s] = ""
    BY DEF Init
  <2>2. QED
    BY <2>1
<1>2. \A n \in Nodes : heap[n] = Null
  BY DEF Init
<1>3. TypeOK
  <2>1. << >> \in Seq(Nodes) /\ 0 \in Nat
    OBVIOUS
  <2>2. /\ list \in [Stacks -> Seq(Nodes)] /\ sz \in [Stacks -> Nat]
    BY <2>1 DEF Init
  <2>3. /\ heap \in [Nodes -> NodeType \union {Null}] /\ declared \subseteq Typedefs
        /\ ntop \in [Stacks -> Nodes \union {Null}]
        /\ nbottom \in [Stacks -> Nodes \union {Null}]
        /\ name \in [Stacks -> Names \union {""}]
    BY DEF Init
  <2>4. QED
    BY <2>2, <2>3 DEF TypeOK
<1>4. ListsLinked /\ NodesOwned
  <2>1. \A s \in Stacks : Chained(heap, list[s]) /\ Simple(list[s])
    BY <1>1, EmptyList
  <2>2. \A s, t \in Stacks : Apart(list[s], list[t])
    BY <1>1, EmptyList
  <2>3. AllOwned(heap, list)
    BY <1>2 DEF AllOwned
  <2>4. Pointers
    <3>1. \A s \in Stacks : /\ list[s] = << >> /\ Len(list[s]) = 0
                            /\ ntop[s] = Null /\ nbottom[s] = Null /\ sz[s] = 0
      BY <1>1
    <3>2. QED
      BY <3>1 DEF Pointers, TopOf, BottomOf
  <2>5. QED
    BY <2>1, <2>2, <2>3, <2>4, View DEF Lists
<1>5. Unused
  BY <1>1 DEF Unused, Stacks
<1>6. QED
  BY <1>3, <1>4, <1>5 DEF StackInv

LEMMA NextInv == StackInv /\ [Next]_vars => StackInv'
<1> SUFFICES ASSUME StackInv, [Next]_vars
             PROVE  StackInv'
  OBVIOUS
<1>1. CASE UNCHANGED vars
  <2>1. /\ heap' = heap /\ ntop' = ntop /\ nbottom' = nbottom /\ sz' = sz
        /\ name' = name /\ declared' = declared /\ list' = list
    BY <1>1 DEF vars
  <2>2. TypeOK'
    BY <2>1 DEF StackInv, TypeOK
  <2>3. ListsLinked'
    BY <2>1 DEF StackInv, ListsLinked
  <2>4. NodesOwned'
    BY <2>1 DEF StackInv, NodesOwned, Free
  <2>5. Unused'
    BY <2>1 DEF StackInv, Unused
  <2>6. QED
    BY <2>2, <2>3, <2>4, <2>5 DEF StackInv
<1>2. CASE Next
  BY <1>2, Push, Pop, Destroy, ReadName, PushBelow, Append_c, AppendNest_c, Prepend_c,
     Swap, Copy, Prepend, Declare, Reduce DEF Next
<1>3. QED
  BY <1>1, <1>2

LEMMA Invariance == Spec => []StackInv
BY InitInv, NextInv, PTL DEF Spec

(* The types of stacks, of what their pointers lead to, and of new nodes.  *)
THEOREM StacksTyped == Spec => []TypeOK
BY Invariance, PTL DEF StackInv

(* From the top of each stack its pointers lead over its nodes to the      *)
(* bottom, however nodes are handed over and copied.                       *)
THEOREM StacksLinked == Spec => []ListsLinked
BY Invariance, PTL DEF StackInv

(* No node has two owners, and none is without.                            *)
THEOREM StacksOwnNodes == Spec => []NodesOwned
BY Invariance, PTL DEF StackInv

-----------------------------------------------------------------------------
(* What the stacks show: the kinds of their nodes.                         *)

Kinds(h, c) == [i \in 1..Len(c) |-> h[c[i]].type]

Live(h, c) == \A i \in 1..Len(c) : h[c[i]] # Null

Shown == [s \in Stacks |-> Read(s, "type")]

(* No node that is there before and after a step changes its type.         *)
TypesKeep ==
  \A n \in Nodes : heap[n] # Null /\ heap'[n] # Null => heap'[n].type = heap[n].type

LEMMA KindsType ==
  ASSUME NEW h \in Heaps, NEW c \in Seq(Nodes), Live(h, c)
  PROVE  /\ Kinds(h, c) \in Seq(Types) /\ Len(Kinds(h, c)) = Len(c)
         /\ \A i \in 1..Len(c) : Kinds(h, c)[i] = h[c[i]].type
<1>1. ASSUME NEW i \in 1..Len(c)
      PROVE  h[c[i]].type \in Types
  BY Ends DEF Live, Heaps, NodeType
<1>2. Kinds(h, c) \in [1..Len(c) -> Types] /\ Len(c) \in Nat
  BY <1>1, Ends DEF Kinds
<1>3. Kinds(h, c) \in Seq(Types) /\ Len(Kinds(h, c)) = Len(c)
  BY <1>2, SeqDef
<1>4. QED
  BY <1>3 DEF Kinds

LEMMA LiveConcat ==
  ASSUME NEW h, NEW c \in Seq(Nodes), NEW d \in Seq(Nodes)
  PROVE  Live(h, c \o d) <=> Live(h, c) /\ Live(h, d)
<1> DEFINE e == c \o d
<1>1. Len(c) \in Nat /\ Len(d) \in Nat
  BY Ends
<1>2. /\ \A i \in 1..Len(c) : i \in 1..Len(e) /\ e[i] = c[i]
      /\ \A j \in 1..Len(d) : Len(c) + j \in 1..Len(e) /\ e[Len(c) + j] = d[j]
      /\ \A k \in 1..Len(e) : k \in 1..Len(c) \/ \E j \in 1..Len(d) : k = Len(c) + j
  BY <1>1, Concat
<1> HIDE DEF e
<1>3. ASSUME Live(h, e)
      PROVE  Live(h, c) /\ Live(h, d)
  <2>1. Live(h, c)
    BY <1>2, <1>3 DEF Live
  <2>2. ASSUME NEW j \in 1..Len(d)
        PROVE  h[d[j]] # Null
    BY <1>2, <1>3 DEF Live
  <2>3. QED
    BY <2>1, <2>2 DEF Live
<1>4. ASSUME Live(h, c), Live(h, d), NEW k \in 1..Len(e)
      PROVE  h[e[k]] # Null
  <2>1. CASE k \in 1..Len(c)
    BY <1>2, <1>4, <2>1 DEF Live
  <2>2. CASE k \notin 1..Len(c)
    <3>1. PICK j \in 1..Len(d) : k = Len(c) + j
      BY <1>2, <2>2
    <3>2. QED
      BY <1>2, <1>4, <3>1 DEF Live
  <2>3. QED
    BY <2>1, <2>2
<1>5. QED
  BY <1>3, <1>4 DEF Live, e

LEMMA KindsConcat ==
  ASSUME NEW h \in Heaps, NEW c \in Seq(Nodes), NEW d \in Seq(Nodes), Live(h, c), Live(h, d)
  PROVE  Kinds(h, c \o d) = Kinds(h, c) \o Kinds(h, d)
<1> DEFINE e == c \o d
           x == Kinds(h, e)
           y == Kinds(h, c)
           z == Kinds(h, d)
<1>1. /\ e \in Seq(Nodes) /\ Len(e) = Len(c) + Len(d)
      /\ \A i \in 1..Len(c) : i \in 1..Len(e) /\ e[i] = c[i]
      /\ \A j \in 1..Len(d) : Len(c) + j \in 1..Len(e) /\ e[Len(c) + j] = d[j]
      /\ \A k \in 1..Len(e) : k \in 1..Len(c) \/ \E j \in 1..Len(d) : k = Len(c) + j
      /\ Live(h, e)
  <2>1. Len(c) \in Nat /\ Len(d) \in Nat
    BY Ends
  <2>2. QED
    BY <2>1, Concat, LiveConcat
<1> HIDE DEF e
<1>2. /\ x \in Seq(Types) /\ Len(x) = Len(e) /\ \A i \in 1..Len(e) : x[i] = h[e[i]].type
      /\ y \in Seq(Types) /\ Len(y) = Len(c) /\ \A i \in 1..Len(c) : y[i] = h[c[i]].type
      /\ z \in Seq(Types) /\ Len(z) = Len(d) /\ \A i \in 1..Len(d) : z[i] = h[d[i]].type
  BY <1>1, KindsType
<1> HIDE DEF x, y, z
<1>3. /\ y \o z \in Seq(Types) /\ Len(y \o z) = Len(x)
      /\ \A i \in 1..Len(c) : (y \o z)[i] = y[i]
      /\ \A j \in 1..Len(d) : (y \o z)[Len(c) + j] = z[j]
  <2>1. /\ y \o z \in Seq(Types) /\ Len(y \o z) = Len(y) + Len(z)
        /\ \A i \in 1..Len(y) : (y \o z)[i] = y[i]
        /\ \A j \in 1..Len(z) : (y \o z)[Len(y) + j] = z[j]
    <3>1. y \in Seq(Types) /\ z \in Seq(Types)
      BY <1>2
    <3>2. QED
      BY <3>1, Concat
  <2>2. Len(x) = Len(e) /\ Len(y) = Len(c) /\ Len(z) = Len(d) /\ Len(e) = Len(c) + Len(d)
    BY <1>1, <1>2
  <2>3. QED
    BY <2>1, <2>2
<1>4. ASSUME NEW k \in 1..Len(e)
      PROVE  x[k] = (y \o z)[k]
  <2>1. CASE k \in 1..Len(c)
    <3>1. x[k] = h[c[k]].type
      BY <1>1, <1>2, <2>1
    <3>2. (y \o z)[k] = h[c[k]].type
      BY <1>2, <1>3, <2>1
    <3>3. QED
      BY <3>1, <3>2
  <2>2. CASE k \notin 1..Len(c)
    <3>1. PICK j \in 1..Len(d) : k = Len(c) + j
      BY <1>1, <2>2
    <3>2. x[k] = h[d[j]].type
      BY <1>1, <1>2, <3>1
    <3>3. (y \o z)[k] = h[d[j]].type
      BY <1>2, <1>3, <3>1
    <3>4. QED
      BY <3>2, <3>3
  <2>3. QED
    BY <2>1, <2>2
<1>5. x = y \o z
  BY <1>2, <1>3, <1>4, SeqEqual
<1>6. QED
  BY <1>5 DEF e, x, y, z

LEMMA KindsTail ==
  ASSUME NEW h \in Heaps, NEW c \in Seq(Nodes), c # << >>, Live(h, c)
  PROVE  /\ Live(h, Tail(c)) /\ Kinds(h, Tail(c)) = Tail(Kinds(h, c)) /\ Kinds(h, c) # << >>
<1> DEFINE d == Tail(c)
           x == Kinds(h, c)
           y == Kinds(h, d)
<1>1. /\ d \in Seq(Nodes) /\ Len(c) \in Nat \ {0} /\ Len(d) = Len(c) - 1
      /\ \A i \in 1..Len(d) : i + 1 \in 1..Len(c) /\ d[i] = c[i + 1]
  BY TopOff, Ends
<1> HIDE DEF d
<1>2. Live(h, d)
  BY <1>1 DEF Live
<1>3. /\ x \in Seq(Types) /\ Len(x) = Len(c) /\ \A i \in 1..Len(c) : x[i] = h[c[i]].type
      /\ y \in Seq(Types) /\ Len(y) = Len(d) /\ \A i \in 1..Len(d) : y[i] = h[d[i]].type
  BY <1>1, <1>2, KindsType
<1> HIDE DEF x, y
<1>4. x # << >>
  BY <1>1, <1>3
<1>5. /\ Tail(x) \in Seq(Types) /\ Len(Tail(x)) = Len(x) - 1
      /\ \A i \in 1..Len(x) - 1 : Tail(x)[i] = x[i + 1]
  BY <1>3, <1>4
<1>6. ASSUME NEW i \in 1..Len(d)
      PROVE  y[i] = Tail(x)[i]
  <2>1. Tail(x)[i] = x[i + 1]
    BY <1>1, <1>3, <1>5
  <2>2. QED
    BY <1>1, <1>3, <2>1
<1>7. y = Tail(x)
  <2>1. Len(y) = Len(Tail(x))
    BY <1>1, <1>3, <1>5
  <2>2. QED
    BY <1>3, <1>5, <1>6, <2>1, SeqEqual
<1>8. QED
  BY <1>2, <1>4, <1>7 DEF d, x, y

LEMMA KindsKept ==
  ASSUME NEW g, NEW h, NEW c, NEW d, Len(c) = Len(d),
         \A i \in 1..Len(c) : g[d[i]].type = h[c[i]].type
  PROVE  Kinds(g, d) = Kinds(h, c)
BY DEF Kinds

LEMMA KindsEmpty ==
  ASSUME NEW h \in Heaps
  PROVE  Kinds(h, << >>) = << >>
<1>1. << >> \in Seq(Nodes) /\ Live(h, << >>) /\ Len(<< >>) = 0
  BY DEF Live
<1>2. Kinds(h, << >>) \in Seq(Types) /\ Len(Kinds(h, << >>)) = 0
  BY <1>1, KindsType
<1>3. QED
  BY <1>2

LEMMA HeldNext ==
  ASSUME StackInv'
  PROVE  /\ heap' \in Heaps /\ list' \in [Stacks -> Seq(Nodes)]
         /\ \A s \in Stacks : list'[s] \in Seq(Nodes) /\ Live(heap', list'[s])
<1>1. heap' \in Heaps /\ list' \in [Stacks -> Seq(Nodes)]
  BY DEF StackInv, TypeOK, Heaps
<1>2. Lists(heap', list')
  BY View DEF StackInv
<1>3. QED
  BY <1>1, <1>2 DEF Lists, Chained, Live

LEMMA HeldLive ==
  ASSUME StackInv
  PROVE  \A s \in Stacks : list[s] \in Seq(Nodes) /\ Live(heap, list[s])
BY Held DEF Chained, Live

LEMMA KindsStay ==
  ASSUME TypesKeep, NEW c \in Seq(Nodes), Live(heap, c), Live(heap', c)
  PROVE  Kinds(heap', c) = Kinds(heap, c)
<1>1. \A i \in 1..Len(c) : heap'[c[i]].type = heap[c[i]].type
  BY Ends DEF TypesKeep, Live
<1>2. QED
  BY <1>1, KindsKept

LEMMA ShownKinds ==
  /\ Shown = [s \in Stacks |-> Kinds(heap, list[s])]
  /\ Shown' = [s \in Stacks |-> Kinds(heap', list'[s])]
BY DEF Shown, Read, Kinds

(* A step that keeps the types changes what the stacks D show only.        *)
LEMMA ShownElsewhere ==
  ASSUME StackInv, StackInv', TypesKeep, NEW u \in Stacks, list'[u] = list[u]
  PROVE  Shown'[u] = Shown[u]
<1>1. list[u] \in Seq(Nodes) /\ Live(heap, list[u]) /\ Live(heap', list[u])
  BY HeldLive, HeldNext
<1>2. QED
  BY <1>1, KindsStay, ShownKinds

LEMMA ShowsOne ==
  ASSUME StackInv, StackInv', TypesKeep, NEW s \in Stacks, NEW x,
         x = Kinds(heap', list'[s]), \A u \in Stacks \ {s} : list'[u] = list[u]
  PROVE  Shown' = [Shown EXCEPT ![s] = x]
<1>1. \A u \in Stacks \ {s} : Shown'[u] = Shown[u]
  BY ShownElsewhere
<1>2. Shown'[s] = x
  BY ShownKinds
<1>3. Shown = [u \in Stacks |-> Shown[u]] /\ Shown' = [u \in Stacks |-> Shown'[u]]
  BY DEF Shown
<1>4. QED
  BY <1>1, <1>2, <1>3

LEMMA ShowsTwo ==
  ASSUME StackInv, StackInv', TypesKeep, NEW s \in Stacks, NEW t \in Stacks, s # t,
         NEW x, NEW y, x = Kinds(heap', list'[s]), y = Kinds(heap', list'[t]),
         \A u \in Stacks \ {s, t} : list'[u] = list[u]
  PROVE  Shown' = [Shown EXCEPT ![s] = x, ![t] = y]
<1>1. \A u \in Stacks \ {s, t} : Shown'[u] = Shown[u]
  BY ShownElsewhere
<1>2. Shown'[s] = x /\ Shown'[t] = y
  BY ShownKinds
<1>3. Shown = [u \in Stacks |-> Shown[u]] /\ Shown' = [u \in Stacks |-> Shown'[u]]
  BY DEF Shown
<1>4. QED
  BY <1>1, <1>2, <1>3

LEMMA LinkedTypes ==
  ASSUME NEW h \in Heaps, NEW b \in Nodes, NEW p, h[b] # Null
  PROVE  \A n \in Nodes : Linked(h, b, p)[n].type = h[n].type
<1>1. h[b] \in NodeType
  BY DEF Heaps
<1>2. [h[b] EXCEPT !.previous = p].type = h[b].type
  BY <1>1 DEF NodeType
<1>3. ASSUME NEW n \in Nodes
      PROVE  Linked(h, b, p)[n] = IF n = b THEN [h[b] EXCEPT !.previous = p] ELSE h[n]
  BY DEF Linked, Heaps
<1>4. QED
  BY <1>2, <1>3

LEMMA PushShown ==
  ASSUME StackInv, StackInv', NEW s \in Locals, push(s)
  PROVE  Promised!Push(s, "RT_POINTERTO")
<1> DEFINE c == list[s]
<1>1. PICK n \in Free :
        /\ heap' = [heap EXCEPT ![n] = node("RT_POINTERTO", ntop[s], FALSE)]
        /\ list' = [list EXCEPT ![s] = <<n>> \o c]
  BY DEF push
<1>2. /\ s \in Stacks /\ n \in Nodes /\ heap[n] = Null /\ name' = name
      /\ c \in Seq(Nodes) /\ Live(heap, c) /\ <<n>> \in Seq(Nodes)
      /\ heap \in Heaps /\ list \in [Stacks -> Seq(Nodes)]
  BY Held, HeldLive DEF push, Free, Stacks
<1>3. /\ heap'[n].type = "RT_POINTERTO" /\ \A m \in Nodes \ {n} : heap'[m] = heap[m]
      /\ list'[s] = <<n>> \o c /\ \A u \in Stacks \ {s} : list'[u] = list[u]
  BY <1>1, <1>2 DEF Heaps, node
<1>4. TypesKeep
  BY <1>2, <1>3 DEF TypesKeep
<1>5. Live(heap', <<n>>) /\ Live(heap', c) /\ heap' \in Heaps
  <2>1. Live(heap', <<n>> \o c) /\ heap' \in Heaps
    BY <1>2, <1>3, HeldNext
  <2>2. QED
    BY <1>2, <2>1, LiveConcat
<1>6. Kinds(heap', <<n>> \o c) = <<"RT_POINTERTO">> \o Kinds(heap, c)
  <2>1. Kinds(heap', <<n>>) = <<"RT_POINTERTO">>
    BY <1>3 DEF Kinds
  <2>2. Kinds(heap', c) = Kinds(heap, c)
    BY <1>2, <1>4, <1>5, KindsStay
  <2>3. Kinds(heap', <<n>> \o c) = Kinds(heap', <<n>>) \o Kinds(heap', c)
    BY <1>2, <1>5, KindsConcat
  <2>4. QED
    BY <2>1, <2>2, <2>3
<1>7. Shown' = [Shown EXCEPT ![s] = <<"RT_POINTERTO">> \o @]
  <2>1. Shown[s] = Kinds(heap, c)
    BY <1>2, ShownKinds
  <2> DEFINE x == Kinds(heap', list'[s])
  <2>2. Shown' = [Shown EXCEPT ![s] = x]
    BY <1>2, <1>3, <1>4, ShowsOne
  <2>3. x = <<"RT_POINTERTO">> \o Shown[s]
    BY <1>3, <1>6, <2>1
  <2> HIDE DEF x
  <2>4. QED
    BY <2>2, <2>3
<1>8. QED
  BY <1>2, <1>7 DEF Promised!Push, Shown

LEMMA PushBelowShown ==
  ASSUME StackInv, StackInv', NEW s \in Locals, NEW type \in Types \ {"RT_POINTERTO"},
         push_below(s, type)
  PROVE  Promised!PushBottom(s, type)
<1> DEFINE c == list[s]
<1>1. PICK n \in Free, filled \in IF type = "RT_FUNCTION" THEN BOOLEAN ELSE {TRUE} :
        LET h == [heap EXCEPT ![n] = node(type, Null, filled)]
        IN  /\ heap' = IF nbottom[s] = Null THEN h ELSE Linked(h, nbottom[s], n)
            /\ list' = [list EXCEPT ![s] = Append(@, n)]
  BY DEF push_below
<1> DEFINE h == [heap EXCEPT ![n] = node(type, Null, filled)]
<1>2. /\ s \in Stacks /\ n \in Nodes /\ heap[n] = Null /\ name' = name
      /\ c \in Seq(Nodes) /\ Live(heap, c) /\ <<n>> \in Seq(Nodes)
      /\ heap \in Heaps /\ list \in [Stacks -> Seq(Nodes)]
  BY Held, HeldLive DEF push_below, Free, Stacks
<1>3. /\ h[n].type = type /\ h[n] # Null /\ h \in Heaps
      /\ \A m \in Nodes \ {n} : h[m] = heap[m]
  <2>1. node(type, Null, filled) \in NodeType /\ node(type, Null, filled).type = type
    BY DEF NodeType, node
  <2>2. QED
    BY <1>2, <2>1, NullIsNoNode DEF Heaps
<1>4. \A m \in Nodes : heap'[m].type = h[m].type
  <2>1. CASE nbottom[s] = Null
    BY <1>1, <2>1
  <2>2. CASE nbottom[s] # Null
    <3>1. nbottom[s] = BottomOf(c) /\ c # << >>
      BY <1>2, <2>2, Held DEF Pointers
    <3>2. nbottom[s] \in Nodes /\ heap[nbottom[s]] # Null
      <4>1. Len(c) \in 1..Len(c) /\ BottomOf(c) = c[Len(c)]
        BY <1>2, <3>1, Ends DEF BottomOf
      <4>2. QED
        BY <1>2, <3>1, <4>1, Ends DEF Live
    <3>3. h[nbottom[s]] # Null /\ heap' = Linked(h, nbottom[s], n)
      BY <1>1, <1>2, <1>3, <2>2, <3>2
    <3> HIDE DEF h
    <3>4. QED
      BY <1>3, <3>2, <3>3, LinkedTypes
  <2>3. QED
    BY <2>1, <2>2
<1> HIDE DEF h
<1>5. TypesKeep
  BY <1>2, <1>3, <1>4 DEF TypesKeep
<1>6. list'[s] = c \o <<n>> /\ \A u \in Stacks \ {s} : list'[u] = list[u]
  <2>1. Append(c, n) = c \o <<n>>
    BY <1>2
  <2>2. QED
    BY <1>1, <1>2, <2>1
<1>7. Live(heap', <<n>>) /\ Live(heap', c) /\ heap' \in Heaps
  <2>1. Live(heap', c \o <<n>>) /\ heap' \in Heaps
    BY <1>2, <1>6, HeldNext
  <2>2. QED
    BY <1>2, <2>1, LiveConcat
<1>8. Kinds(heap', c \o <<n>>) = Append(Kinds(heap, c), type)
  <2>1. Kinds(heap', <<n>>) = <<type>>
    BY <1>2, <1>3, <1>4 DEF Kinds
  <2>2. Kinds(heap', c) = Kinds(heap, c)
    BY <1>2, <1>5, <1>7, KindsStay
  <2>3. Kinds(heap', c \o <<n>>) = Kinds(heap', c) \o Kinds(heap', <<n>>)
    BY <1>2, <1>7, KindsConcat
  <2>4. Kinds(heap', c \o <<n>>) = Kinds(heap, c) \o <<type>>
    BY <2>1, <2>2, <2>3
  <2>5. Kinds(heap, c) \in Seq(Types)
    BY <1>2, KindsType
  <2>6. QED
    BY <2>4, <2>5
<1>9. Shown' = [Shown EXCEPT ![s] = Append(@, type)]
  <2>1. Shown[s] = Kinds(heap, c)
    BY <1>2, ShownKinds
  <2> DEFINE x == Kinds(heap', list'[s])
  <2>2. Shown' = [Shown EXCEPT ![s] = x]
    BY <1>2, <1>5, <1>6, ShowsOne
  <2>3. x = Append(Shown[s], type)
    BY <1>6, <1>8, <2>1
  <2> HIDE DEF x
  <2>4. QED
    BY <2>2, <2>3
<1>10. QED
  BY <1>2, <1>9 DEF Promised!PushBottom, Shown

LEMMA PopShown ==
  ASSUME StackInv, StackInv', NEW s \in Locals, pop(s)
  PROVE  Promised!Pop(s)
<1> DEFINE c == list[s]
<1>1. /\ s \in Stacks /\ ntop[s] # Null /\ name' = name
      /\ heap' = [heap EXCEPT ![ntop[s]] = Null]
      /\ list' = [list EXCEPT ![s] = Tail(c)]
      /\ heap \in Heaps /\ list \in [Stacks -> Seq(Nodes)]
      /\ c \in Seq(Nodes) /\ Live(heap, c) /\ c # << >>
  BY Held, HeldLive DEF pop, Stacks
<1>2. /\ list'[s] = Tail(c) /\ \A u \in Stacks \ {s} : list'[u] = list[u]
      /\ Tail(c) \in Seq(Nodes) /\ Live(heap', Tail(c)) /\ Live(heap, Tail(c))
  BY <1>1, HeldNext, KindsTail
<1>3. TypesKeep
  BY <1>1 DEF TypesKeep, Heaps
<1>4. Kinds(heap', Tail(c)) = Tail(Kinds(heap, c)) /\ Kinds(heap, c) # << >>
  <2>1. Kinds(heap', Tail(c)) = Kinds(heap, Tail(c))
    BY <1>2, <1>3, KindsStay
  <2>2. QED
    BY <1>1, <2>1, KindsTail
<1>5. Shown' = [Shown EXCEPT ![s] = IF @ = << >> THEN @ ELSE Tail(@)]
  <2>1. Shown[s] = Kinds(heap, c)
    BY <1>1, ShownKinds
  <2> DEFINE x == Kinds(heap', list'[s])
  <2>2. Shown' = [Shown EXCEPT ![s] = x]
    BY <1>1, <1>2, <1>3, ShowsOne
  <2>3. x = IF Shown[s] = << >> THEN Shown[s] ELSE Tail(Shown[s])
    BY <1>2, <1>4, <2>1
  <2> HIDE DEF x
  <2>4. QED
    BY <2>2, <2>3
<1>6. QED
  BY <1>1, <1>5 DEF Promised!Pop, Shown

(* One stack goes to an end of another.                                    *)
LEMMA JoinedShown ==
  ASSUME StackInv, StackInv', NEW s \in Stacks, NEW t \in Stacks, s # t,
         \A n \in Nodes : heap'[n].type = heap[n].type,
         \A u \in Stacks \ {s, t} : list'[u] = list[u], list'[t] = << >>
  PROVE  /\ list'[s] = list[t] \o list[s] => Promised!PutOnTop(s, t)
         /\ list'[s] = list[s] \o list[t] => Promised!PutBelow(s, t)
<1> DEFINE c == list[s]
           d == list[t]
<1>1. /\ TypesKeep /\ heap \in Heaps /\ heap' \in Heaps
      /\ c \in Seq(Nodes) /\ d \in Seq(Nodes) /\ Live(heap, c) /\ Live(heap, d)
  BY Held, HeldLive, HeldNext DEF TypesKeep
<1>2. ASSUME NEW e \in Seq(Nodes), Live(heap, e)
      PROVE  Kinds(heap', e) = Kinds(heap, e)
  <2>1. \A i \in 1..Len(e) : heap'[e[i]].type = heap[e[i]].type
    BY Ends
  <2>2. QED
    BY <2>1, KindsKept
<1>3. Shown[s] = Kinds(heap, c) /\ Shown[t] = Kinds(heap, d)
  BY ShownKinds
<1>4. Kinds(heap', list'[t]) = << >>
  BY <1>1, KindsEmpty
<1>5. ASSUME list'[s] = d \o c
      PROVE  Promised!PutOnTop(s, t)
  <2> HIDE DEF c, d
  <2>1. Kinds(heap, d \o c) = Shown[t] \o Shown[s]
    BY <1>1, <1>3, KindsConcat
  <2>2. d \o c \in Seq(Nodes) /\ Live(heap, d \o c)
    BY <1>1, Concat, LiveConcat
  <2>3. Kinds(heap', list'[s]) = Shown[t] \o Shown[s]
    BY <1>2, <1>5, <2>1, <2>2
  <2>4. Shown' = [Shown EXCEPT ![s] = Shown[t] \o Shown[s], ![t] = << >>]
    <3> DEFINE x == Shown[t] \o Shown[s]
    <3> HIDE DEF x
    <3>1. x = Kinds(heap', list'[s])
      BY <2>3 DEF x
    <3>2. Shown' = [Shown EXCEPT ![s] = x, ![t] = << >>]
      BY <1>1, <1>4, <3>1, ShowsTwo
    <3>3. QED
      BY <3>2 DEF x
  <2>5. QED
    BY <2>4 DEF Promised!PutOnTop, Shown
<1>6. ASSUME list'[s] = c \o d
      PROVE  Promised!PutBelow(s, t)
  <2> HIDE DEF c, d
  <2>1. Kinds(heap, c \o d) = Shown[s] \o Shown[t]
    BY <1>1, <1>3, KindsConcat
  <2>2. c \o d \in Seq(Nodes) /\ Live(heap, c \o d)
    BY <1>1, Concat, LiveConcat
  <2>3. Kinds(heap', list'[s]) = Shown[s] \o Shown[t]
    BY <1>2, <1>6, <2>1, <2>2
  <2>4. Shown' = [Shown EXCEPT ![s] = Shown[s] \o Shown[t], ![t] = << >>]
    <3> DEFINE x == Shown[s] \o Shown[t]
    <3> HIDE DEF x
    <3>1. x = Kinds(heap', list'[s])
      BY <2>3 DEF x
    <3>2. Shown' = [Shown EXCEPT ![s] = x, ![t] = << >>]
      BY <1>1, <1>4, <3>1, ShowsTwo
    <3>3. QED
      BY <3>2 DEF x
  <2>5. QED
    BY <2>4 DEF Promised!PutBelow, Shown
<1>7. QED
  BY <1>5, <1>6

LEMMA BottomLive ==
  ASSUME StackInv, NEW s \in Stacks, nbottom[s] # Null
  PROVE  nbottom[s] \in Nodes /\ heap[nbottom[s]] # Null
<1> DEFINE c == list[s]
<1>1. c \in Seq(Nodes) /\ Live(heap, c) /\ c # << >> /\ nbottom[s] = BottomOf(c)
  BY Held, HeldLive DEF Pointers
<1>2. Len(c) \in 1..Len(c) /\ BottomOf(c) = c[Len(c)]
  BY <1>1, Ends DEF BottomOf
<1>3. QED
  BY <1>1, <1>2, Ends DEF Live

(* A step that puts t on top of s.                                         *)
LEMMA OnTopShown ==
  ASSUME StackInv, StackInv', NEW s \in Stacks, NEW t \in Stacks, s # t,
         nbottom[t] # Null, PutOnTop(s, t)
  PROVE  Promised!PutOnTop(s, t) /\ Shown[t] # << >>
<1>1. \A n \in Nodes : heap'[n].type = heap[n].type
  <2>1. heap' = Linked(heap, nbottom[t], ntop[s])
    BY DEF PutOnTop
  <2>2. QED
    BY <2>1, BottomLive, Held, LinkedTypes
<1>2. /\ list'[s] = list[t] \o list[s] /\ list'[t] = << >>
      /\ \A u \in Stacks \ {s, t} : list'[u] = list[u]
  BY Held DEF PutOnTop
<1>3. Shown[t] # << >>
  <2>1. list[t] # << >> /\ list[t] \in Seq(Nodes) /\ Live(heap, list[t]) /\ heap \in Heaps
    BY Held, HeldLive
  <2>2. QED
    BY <2>1, KindsTail, ShownKinds
<1>4. QED
  BY <1>1, <1>2, <1>3, JoinedShown

(* Nothing is put on top of s when t is empty.                             *)
LEMMA NothingShown ==
  ASSUME StackInv, NEW s \in Stacks, NEW t \in Stacks, s # t,
         nbottom[t] = Null, heap' = heap, list' = list
  PROVE  Promised!PutOnTop(s, t) /\ Shown[t] = << >>
<1>1. Shown[t] = << >>
  BY Held, KindsEmpty, ShownKinds
<1>2. << >> \o Shown[s] = Shown[s]
  <2>1. Kinds(heap, list[s]) \in Seq(Types)
    BY Held, HeldLive, KindsType
  <2>2. Shown[s] \in Seq(Types)
    BY <2>1, ShownKinds
  <2>3. QED
    BY <2>2
<1>3. Shown' = Shown
  BY ShownKinds
<1>4. Shown = [u \in Stacks |-> Shown[u]]
  BY DEF Shown
<1>5. Shown' = [Shown EXCEPT ![s] = Shown[t] \o Shown[s], ![t] = << >>]
  <2> DEFINE x == Shown[t] \o Shown[s]
  <2>1. x = Shown[s]
    BY <1>1, <1>2
  <2> HIDE DEF x
  <2>2. Shown' = [Shown EXCEPT ![s] = x, ![t] = << >>]
    BY <1>1, <1>3, <1>4, <2>1
  <2>3. QED
    BY <2>2 DEF x
<1>6. QED
  BY <1>1, <1>5 DEF Promised!PutOnTop, Shown

LEMMA AppendNestShown ==
  ASSUME StackInv, StackInv', NEW s \in Locals, NEW t \in Locals, s # t, append_nest_c(s, t)
  PROVE  Promised!Nest(s, t)
<1>1. s \in Stacks /\ t \in Stacks
  BY DEF Stacks
<1>2. Promised!PutOnTop(s, t) /\ (Shown[t] = << >> <=> nbottom[t] = Null)
  BY <1>1, OnTopShown, NothingShown DEF append_nest_c
<1>3. name' = [name EXCEPT ![s] = IF Shown[t] = << >> /\ name[t] = "" THEN @ ELSE name[t]]
  <2>1. CASE nbottom[t] = Null
    BY <1>2, <2>1 DEF append_nest_c
  <2>2. CASE nbottom[t] # Null
    BY <1>2, <2>2 DEF append_nest_c
  <2>3. QED
    BY <2>1, <2>2
<1>4. QED
  BY <1>1, <1>2, <1>3 DEF Promised!Nest, Promised!Unnamed, Shown

LEMMA ReduceShown ==
  ASSUME StackInv, StackInv', NEW s \in Locals, NEW t \in Typedefs, s # t, reduce(s, t)
  PROVE  Promised!Consume(s, t)
<1>1. s \in Stacks /\ t \in Stacks
  BY DEF Stacks
<1>2. Promised!PutOnTop(s, t)
  BY <1>1, OnTopShown, NothingShown DEF reduce
<1>3. QED
  BY <1>2 DEF Promised!Consume, Promised!Unnamed, reduce

LEMMA PrependcShown ==
  ASSUME StackInv, StackInv', NEW s \in Locals, NEW t \in Locals, s # t, prepend_c(s, t)
  PROVE  Promised!PutBelow(s, t) /\ UNCHANGED name
<1>1. s \in Stacks /\ t \in Stacks
  BY DEF Stacks
<1>2. \A n \in Nodes : heap'[n].type = heap[n].type
  <2>1. CASE ntop[s] = Null
    BY <2>1 DEF prepend_c
  <2>2. CASE ntop[s] # Null
    <3>1. heap' = Linked(heap, nbottom[s], ntop[t]) /\ nbottom[s] # Null
      BY <1>1, <2>2, Held DEF prepend_c
    <3>2. QED
      BY <1>1, <3>1, BottomLive, Held, LinkedTypes
  <2>3. QED
    BY <2>1, <2>2
<1>3. /\ list'[s] = list[s] \o list[t] /\ list'[t] = << >>
      /\ \A u \in Stacks \ {s, t} : list'[u] = list[u]
  BY <1>1, Held DEF prepend_c
<1>4. Promised!PutBelow(s, t)
  BY <1>1, <1>2, <1>3, JoinedShown
<1>5. QED
  BY <1>4 DEF prepend_c

(* Two stacks change what they hold, and the heap stays.                   *)
LEMMA ExchangedShown ==
  ASSUME StackInv, StackInv', NEW s \in Stacks, NEW t \in Stacks, s # t, heap' = heap,
         list'[s] = list[t], list'[t] = list[s],
         \A u \in Stacks \ {s, t} : list'[u] = list[u]
  PROVE  Shown' = [Shown EXCEPT ![s] = Shown[t], ![t] = Shown[s]]
<1>1. TypesKeep
  BY DEF TypesKeep
<1>2. Shown[s] = Kinds(heap', list'[t]) /\ Shown[t] = Kinds(heap', list'[s])
  BY ShownKinds
<1>3. QED
  BY <1>1, <1>2, ShowsTwo

LEMMA SwapShown ==
  ASSUME StackInv, StackInv', NEW s \in Locals, NEW t \in Locals, s # t, swap(s, t)
  PROVE  Promised!Swap(s, t)
<1>1. s \in Stacks /\ t \in Stacks /\ heap' = heap
  BY DEF Stacks, swap
<1>2. /\ list'[s] = list[t] /\ list'[t] = list[s]
      /\ \A u \in Stacks \ {s, t} : list'[u] = list[u]
  BY <1>1, Held DEF swap
<1>3. Shown' = [Shown EXCEPT ![s] = Shown[t], ![t] = Shown[s]]
  BY <1>1, <1>2, ExchangedShown
<1>4. QED
  BY <1>3 DEF Promised!Swap, Shown, swap

LEMMA DeclareShown ==
  ASSUME StackInv, StackInv', NEW t \in Typedefs, NEW s \in Locals, s # t, declare(t, s)
  PROVE  Promised!Swap(t, s)
<1>1. s \in Stacks /\ t \in Stacks /\ heap' = heap /\ list[t] = << >> /\ name[t] = ""
  BY Declare DEF Stacks, declare
<1>2. /\ list'[t] = list[s] /\ list'[s] = list[t]
      /\ \A u \in Stacks \ {t, s} : list'[u] = list[u]
  BY <1>1, Held DEF declare
<1>3. Shown' = [Shown EXCEPT ![t] = Shown[s], ![s] = Shown[t]]
  BY <1>1, <1>2, ExchangedShown
<1>4. name' = [name EXCEPT ![t] = name[s], ![s] = name[t]]
  BY <1>1 DEF declare
<1>5. QED
  BY <1>3, <1>4 DEF Promised!Swap, Shown

LEMMA DestroyShown ==
  ASSUME StackInv, StackInv', NEW s \in Locals, destroy(s)
  PROVE  Promised!Clear(s)
<1>1. /\ s \in Stacks /\ TypesKeep /\ list'[s] = << >>
      /\ \A u \in Stacks \ {s} : list'[u] = list[u]
  BY Held DEF Stacks, destroy, clear, TypesKeep
<1>2. Kinds(heap', list'[s]) = << >>
  BY <1>1, HeldNext, KindsEmpty
<1>3. Shown' = [Shown EXCEPT ![s] = << >>]
  BY <1>1, <1>2, ShowsOne
<1>4. QED
  BY <1>3 DEF Promised!Clear, Promised!Unnamed, Shown, destroy, clear

LEMMA CopyShown ==
  ASSUME StackInv, StackInv', NEW s \in Locals, NEW t \in Stacks, s # t, copy(s, t)
  PROVE  Promised!Copy(s, t)
<1>1. PICK f \in Copies(list[t]) :
        heap' = Copied(list[t], f) /\ list' = [list EXCEPT ![s] = f]
  BY DEF copy
<1>2. /\ s \in Stacks /\ list'[s] = f /\ \A u \in Stacks \ {s} : list'[u] = list[u]
      /\ Len(f) = Len(list[t])
  BY <1>1, Held, CopiesAreLists DEF Stacks
<1>3. /\ \A i \in 1..Len(list[t]) : heap'[f[i]].type = heap[list[t][i]].type
      /\ TypesKeep
  BY <1>1, CopiedHeap DEF TypesKeep
<1>4. Kinds(heap', list'[s]) = Shown[t]
  BY <1>2, <1>3, KindsKept, ShownKinds
<1>5. Shown' = [Shown EXCEPT ![s] = Shown[t]]
  BY <1>2, <1>3, <1>4, ShowsOne
<1>6. QED
  BY <1>5 DEF Promised!Copy, Shown, copy

LEMMA PrependShown ==
  ASSUME StackInv, StackInv', NEW s \in Locals, NEW t \in Stacks, s # t, prepend(s, t)
  PROVE  Promised!CopyBelow(s, t)
<1> DEFINE c == list[s]
<1>1. PICK f \in Copies(list[t]) :
        /\ heap' = IF ntop[s] = Null THEN Copied(list[t], f)
                   ELSE Linked(Copied(list[t], f), nbottom[s], f[1])
        /\ list' = [list EXCEPT ![s] = c \o f]
  BY DEF prepend
<1> DEFINE g == Copied(list[t], f)
<1>2. /\ s \in Stacks /\ list'[s] = c \o f /\ \A u \in Stacks \ {s} : list'[u] = list[u]
      /\ Len(f) = Len(list[t]) /\ f \in Seq(Nodes) /\ c \in Seq(Nodes)
      /\ heap \in Heaps /\ Live(heap, c) /\ list[t] \in Seq(Nodes)
  BY <1>1, Held, HeldLive, CopiesAreLists DEF Stacks
<1>3. /\ g \in Heaps
      /\ \A i \in 1..Len(list[t]) : g[f[i]].type = heap[list[t][i]].type
      /\ \A n \in Nodes : heap[n] # Null => g[n] # Null /\ g[n].type = heap[n].type
  BY CopiedHeap
<1>4. heap' = IF ntop[s] = Null THEN g ELSE Linked(g, nbottom[s], f[1])
  BY <1>1
<1> HIDE DEF g, c
<1>5. \A n \in Nodes : heap'[n].type = g[n].type
  <2>1. CASE ntop[s] = Null
    BY <1>4, <2>1
  <2>2. CASE ntop[s] # Null
    <3>1. nbottom[s] # Null
      BY <1>2, <2>2, Held
    <3>2. nbottom[s] \in Nodes /\ g[nbottom[s]] # Null
      BY <1>2, <1>3, <3>1, BottomLive
    <3>3. QED
      BY <1>3, <1>4, <2>2, <3>2, LinkedTypes
  <2>3. QED
    BY <2>1, <2>2
<1>6. TypesKeep
  BY <1>3, <1>5 DEF TypesKeep
<1>7. heap' \in Heaps /\ Live(heap', c) /\ Live(heap', f)
  <2>1. heap' \in Heaps /\ Live(heap', c \o f)
    BY <1>2, HeldNext
  <2>2. QED
    BY <1>2, <2>1, LiveConcat
<1>8. Kinds(heap', f) = Shown[t] /\ Kinds(heap', c) = Shown[s]
  <2>1. \A i \in 1..Len(f) : f[i] \in Nodes
    BY <1>2, Ends
  <2>2. \A i \in 1..Len(list[t]) : heap'[f[i]].type = heap[list[t][i]].type
    BY <1>2, <1>3, <1>5, <2>1
  <2>3. Kinds(heap', f) = Kinds(heap, list[t])
    <3> DEFINE d == list[t]
    <3>1. Len(d) = Len(f) /\ \A i \in 1..Len(d) : heap'[f[i]].type = heap[d[i]].type
      BY <1>2, <2>2
    <3> HIDE DEF d
    <3>2. Kinds(heap', f) = Kinds(heap, d)
      BY <3>1, KindsKept
    <3>3. QED
      BY <3>2 DEF d
  <2>4. Kinds(heap', c) = Kinds(heap, c)
    BY <1>2, <1>6, <1>7, KindsStay
  <2>5. QED
    BY <1>2, <2>3, <2>4, ShownKinds DEF c
<1>9. Shown' = [Shown EXCEPT ![s] = Shown[s] \o Shown[t]]
  <2> DEFINE x == Shown[s] \o Shown[t]
  <2>1. x = Kinds(heap', list'[s])
    BY <1>2, <1>7, <1>8, KindsConcat
  <2> HIDE DEF x
  <2>2. Shown' = [Shown EXCEPT ![s] = x]
    BY <1>2, <1>6, <2>1, ShowsOne
  <2>3. QED
    BY <2>2 DEF x
<1>10. QED
  BY <1>9 DEF Promised!CopyBelow, Shown, prepend

LEMMA InitShown == Init => Promised!Init
<1> SUFFICES ASSUME Init
             PROVE  Promised!Init
  OBVIOUS
<1>1. StackInv
  BY InitInv
<1>2. ASSUME NEW s \in Stacks
      PROVE  Shown[s] = << >>
  <2>1. list[s] = << >>
    BY DEF Init
  <2>2. QED
    BY <1>1, <2>1, Held, KindsEmpty, ShownKinds
<1>3. Shown = [s \in Stacks |-> << >>]
  BY <1>2 DEF Shown
<1>4. QED
  BY <1>3 DEF Init, Promised!Init, Promised!Unnamed, Shown

LEMMA NextShown ==
  ASSUME StackInv, StackInv', [Next]_vars
  PROVE  Promised!Next \/ UNCHANGED <<Shown, name>>
<1>1. CASE UNCHANGED vars
  BY <1>1, ShownKinds DEF vars
<1>2. ASSUME NEW s \in Locals, push(s) \/ \E type \in Types \ {"RT_POINTERTO"} : push_below(s, type)
      PROVE  Promised!Next
  <2>1. s \in Stacks /\ "RT_POINTERTO" \in Types
    BY DEF Stacks, Types
  <2>2. \E r \in Types : Promised!Push(s, r) \/ Promised!PushBottom(s, r)
    BY <1>2, <2>1, PushShown, PushBelowShown
  <2>3. QED
    BY <2>1, <2>2 DEF Promised!Next
<1>3. ASSUME NEW s \in Locals, pop(s) \/ destroy(s)
      PROVE  Promised!Next
  BY <1>3, PopShown, DestroyShown DEF Promised!Next, Stacks
<1>4. ASSUME NEW s \in Locals, read_name(s)
      PROVE  Promised!Next
  <2>1. Shown' = Shown /\ \E n \in Names : name' = [name EXCEPT ![s] = n]
    BY <1>4, ShownKinds DEF read_name
  <2>2. Promised!Rename(s)
    BY <2>1 DEF Promised!Rename, Shown
  <2>3. QED
    BY <2>2 DEF Promised!Next, Stacks
<1>5. ASSUME NEW s \in Locals, NEW t \in Locals, s # t, append_c(s, t) \/ prepend_c(s, t)
      PROVE  Promised!Next
  <2>1. s \in Stacks /\ t \in Stacks
    BY DEF Stacks
  <2>2. \/ Promised!PutOnTop(s, t) /\ UNCHANGED name
        \/ Promised!PutBelow(s, t) /\ UNCHANGED name
    BY <1>5, <2>1, OnTopShown, PrependcShown DEF append_c
  <2>3. QED
    BY <1>5, <2>1, <2>2 DEF Promised!Next
<1>6. ASSUME NEW s \in Locals, NEW t \in Locals, s # t, append_nest_c(s, t) \/ swap(s, t)
      PROVE  Promised!Next
  BY <1>6, AppendNestShown, SwapShown DEF Promised!Next, Stacks
<1>7. ASSUME NEW s \in Locals, NEW t \in Stacks, s # t, copy(s, t) \/ prepend(s, t)
      PROVE  Promised!Next
  BY <1>7, CopyShown, PrependShown DEF Promised!Next, Stacks
<1>8. ASSUME NEW s \in Locals, NEW t \in Typedefs, declare(t, s) \/ reduce(s, t)
      PROVE  Promised!Next
  <2>1. s # t /\ s \in Stacks /\ t \in Stacks
    BY ConstantsAssumption DEF Stacks
  <2>2. Promised!Swap(t, s) \/ Promised!Consume(s, t)
    BY <1>8, <2>1, DeclareShown, ReduceShown
  <2>3. QED
    BY <2>1, <2>2 DEF Promised!Next
<1>9. QED
  BY <1>1, <1>2, <1>3, <1>4, <1>5, <1>6, <1>7, <1>8 DEF Next

(* However nodes are linked, handed over and copied, each object is the    *)
(* stack of referencers with a name that ref_stack promises its users.     *)
THEOREM StacksAsPromised == Spec => ImplementsStacks
<1>1. Init => Promised!Init
  BY InitShown
<1>2. StackInv /\ StackInv' /\ [Next]_vars => [Promised!Next]_(Promised!vars)
  BY NextShown DEF Shown, Promised!vars
<1>3. QED
  BY <1>1, <1>2, Invariance, PTL DEF Spec, ImplementsStacks, Promised!Spec
=============================================================================
