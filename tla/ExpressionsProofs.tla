-------------------------- MODULE ExpressionsProofs --------------------------
(***************************************************************************)
(* The flag AST::tt_greater_is_op, for any tokens, any length of the input *)
(* and any depth of calls.  A call keeps the flag that was there when it   *)
(* was made; the flag is right because each of those was: the innermost    *)
(* list or call that is open decides, now and at the time of every call.   *)
(***************************************************************************)
EXTENDS Expressions, FiniteSetTheorems, TLAPS

-----------------------------------------------------------------------------
(* A set of natural numbers has a least element, and a greatest one if it  *)
(* has a bound.                                                            *)

(* The counterexample to begin with, in a proof by induction.              *)
LEMMA Least ==
  ASSUME NEW T, T \subseteq Nat, T # {}
  PROVE  \E m \in T : \A k \in T : m <= k
<1> DEFINE R == OpToRel(<, Nat)
<1>1. IsWellFoundedOn(R, Nat)
  BY NatLessThanWellFounded
<1>2. PICK m \in T : \A k \in T : ~(<<k, m>> \in R)
  <2> HIDE DEF R
  <2>1. \E m \in T : \A k \in T : ~(<<k, m>> \in R)
    BY <1>1, WFMin
  <2>2. QED
    BY <2>1
<1>3. \A k \in T : ~(k < m)
  BY <1>2 DEF OpToRel
<1>4. QED
  BY <1>3

(* A set of numbers that has a bound has a greatest element.               *)
LEMMA Greatest ==
  ASSUME NEW S, NEW n \in Nat, S \subseteq 0..n, S # {}
  PROVE  \E m \in S : \A k \in S : k <= m
<1> DEFINE T == {b \in Nat : \A k \in S : k <= b}
<1>1. T \subseteq Nat /\ n \in T
  OBVIOUS
<1>2. PICK m \in T : \A b \in T : m <= b
  <2> HIDE DEF T
  <2>1. QED
    BY <1>1, Least
<1>3. \A k \in S : k \in Nat /\ k <= m
  OBVIOUS
<1>4. m \in S
  <2>1. SUFFICES ASSUME m \notin S PROVE FALSE
    OBVIOUS
  <2>2. PICK k \in S : TRUE
    OBVIOUS
  <2>3. m \in Nat /\ m # 0
    BY <1>3, <2>1, <2>2
  <2>4. \A j \in S : j <= m - 1
    BY <1>3, <2>1, <2>3
  <2>5. m - 1 \in T
    BY <2>3, <2>4
  <2>6. m <= m - 1
    BY <1>2, <2>5
  <2>7. QED
    BY <2>3, <2>6
<1>5. QED
  BY <1>3, <1>4

(* What parse_expression builds and holds on its stack.  Only the first    *)
(* call was made by the program; the parser runs until that one returns.   *)
IsNode(n) ==
  /\ n = [class |-> n.class, content |-> n.content, kids |-> n.kids]
  /\ n.class \in Classes

IsCallFrame(f) ==
  /\ f = [then |-> f.then, prec |-> f.prec, op |-> f.op, left |-> f.left,
          greater |-> f.greater]
  /\ f.prec \in 0..Scope + 1 /\ f.greater \in BOOLEAN /\ IsNode(f.left)

IsStack(c) ==
  /\ Len(c) \in Nat /\ c = [i \in 1..Len(c) |-> c[i]]
  /\ \A i \in 1..Len(c) : IsCallFrame(c[i]) /\ (c[i].then = "done" <=> i = 1)

(* The flag g is that of the innermost list among the first k calls.       *)
IsList(f) == f.then \in {"argument", "arguments"}

FlagAt(c, g, k) ==
  \A m \in 0..k :
    (m > 0 => IsList(c[m])) /\ (\A j \in m + 1..k : ~IsList(c[j]))
      => (g <=> (m = 0 \/ c[m].then = "arguments"))

Flags(c, g) ==
  FlagAt(c, g, Len(c)) /\ \A i \in 1..Len(c) : FlagAt(c, c[i].greater, i - 1)

Tokens == source \in Inputs /\ input \in Seq(source.tokens \union {"end"})

ParserInv ==
  /\ Tokens
  /\ IsNode(node) /\ IsStack(calls) /\ (phase # "done" => calls # <<>>)
  /\ greater \in BOOLEAN /\ failed \in BOOLEAN
  /\ Flags(calls, greater)

-----------------------------------------------------------------------------
(* The three things that happen to a stack of calls, and what they leave:  *)
(* a call is made,                                                         *)
LEMMA Pushed ==
  ASSUME NEW c, IsStack(c), c # <<>>, NEW g \in BOOLEAN, Flags(c, g),
         NEW then, then # "done", NEW prec \in 0..Scope + 1,
         NEW left, IsNode(left), NEW op, NEW h \in BOOLEAN,
         then = "argument" => h = FALSE, then = "arguments" => h = TRUE,
         then \notin {"argument", "arguments"} => h = g
  PROVE  LET new == Append(c, [then |-> then, prec |-> prec, op |-> op,
                               left |-> left, greater |-> g])
         IN  IsStack(new) /\ new # <<>> /\ Flags(new, h)
<1> DEFINE f == [then |-> then, prec |-> prec, op |-> op, left |-> left,
                 greater |-> g]
           n == Len(c)
           new == Append(c, f)
<1>1. n \in Nat /\ c \in Seq({c[i] : i \in 1..n}) /\ n > 0
  BY DEF IsStack
<1>2. /\ Len(new) = n + 1 /\ new = [i \in 1..n + 1 |-> new[i]]
      /\ new[n + 1] = f /\ \A i \in 1..n : new[i] = c[i]
  BY <1>1
<1>3. IsCallFrame(f) /\ f.then = then /\ f.greater = g
  BY DEF IsCallFrame
<1> HIDE DEF f, new, n
<1>4. IsStack(new)
  <2>1. ASSUME NEW i \in 1..n + 1
        PROVE  IsCallFrame(new[i]) /\ (new[i].then = "done" <=> i = 1)
    <3>1. CASE i = n + 1
      BY <1>1, <1>2, <1>3, <3>1
    <3>2. CASE i # n + 1
      <4>1. i \in 1..n
        BY <1>1, <3>2
      <4>2. QED
        BY <1>2, <4>1 DEF IsStack, n
    <3>3. QED
      BY <3>1, <3>2
  <2>2. QED
    BY <1>1, <1>2, <2>1 DEF IsStack
<1>5. ASSUME NEW x, NEW k \in 0..n, FlagAt(c, x, k)
      PROVE  FlagAt(new, x, k)
  <2>1. ASSUME NEW m \in 0..k, m > 0 => IsList(new[m]),
               \A j \in m + 1..k : ~IsList(new[j])
        PROVE  x <=> (m = 0 \/ new[m].then = "arguments")
    <3>0. n \in Nat
      BY <1>1
    <3>1. m > 0 => m \in 1..n
      BY <3>0
    <3>2. \A j \in m + 1..k : j \in 1..n
      BY <3>0
    <3>3. (m > 0 => new[m] = c[m]) /\ (\A j \in m + 1..k : new[j] = c[j])
      BY <1>2, <3>1, <3>2
    <3>4. /\ m > 0 => IsList(c[m])
          /\ \A j \in m + 1..k : ~IsList(c[j])
      BY <2>1, <3>3
    <3>5. x <=> (m = 0 \/ c[m].then = "arguments")
      BY <1>5, <3>4 DEF FlagAt
    <3>6. m = 0 \/ m > 0
      BY <3>0
    <3>7. QED
      BY <3>3, <3>5, <3>6
  <2>2. QED
    BY <2>1 DEF FlagAt
<1>6. FlagAt(new, h, n + 1)
  <2>1. ASSUME NEW m \in 0..n + 1, m > 0 => IsList(new[m]),
               \A j \in m + 1..n + 1 : ~IsList(new[j])
        PROVE  h <=> (m = 0 \/ new[m].then = "arguments")
    <3>1. CASE m = n + 1
      BY <1>1, <1>2, <1>3, <2>1, <3>1 DEF IsList
    <3>2. CASE m # n + 1
      <4>1. m \in 0..n /\ n + 1 \in m + 1..n + 1
        BY <1>1, <3>2
      <4>2. ~IsList(f)
        BY <1>2, <2>1, <4>1
      <4>3. h = g
        BY <1>3, <4>2 DEF IsList
      <4>4. FlagAt(new, g, n)
        <5>1. n \in 0..n
          BY <1>1
        <5>2. QED
          BY <1>5, <5>1 DEF Flags, n
      <4>5. \A j \in m + 1..n : ~IsList(new[j])
        BY <1>1, <2>1
      <4>6. QED
        BY <2>1, <4>1, <4>3, <4>4, <4>5 DEF FlagAt
    <3>3. QED
      BY <3>1, <3>2
  <2>2. QED
    BY <2>1 DEF FlagAt
<1>7. ASSUME NEW i \in 1..n + 1
      PROVE  FlagAt(new, new[i].greater, i - 1)
  <2>1. i - 1 \in 0..n
    BY <1>1
  <2>2. CASE i = n + 1
    <3>1. n \in 0..n /\ i - 1 = n
      BY <1>1, <2>2
    <3>2. QED
      BY <1>2, <1>3, <1>5, <2>2, <3>1 DEF Flags, n
  <2>3. CASE i # n + 1
    <3>1. i \in 1..n
      BY <1>1, <2>3
    <3>2. FlagAt(c, c[i].greater, i - 1)
      BY <3>1 DEF Flags, n
    <3>3. QED
      BY <1>2, <1>5, <2>1, <3>1, <3>2
  <2>4. QED
    BY <2>2, <2>3
<1>8. new # <<>>
  BY <1>1, <1>2
<1>9. QED
  BY <1>2, <1>4, <1>6, <1>7, <1>8 DEF Flags, new, f

(* the last call returns, with the flag that was there when it was made,   *)
(* or with the flag as it is when it is no list,                           *)
LEMMA Popped ==
  ASSUME NEW c, IsStack(c), c # <<>>, NEW g, Flags(c, g),
         c[Len(c)].then # "done", NEW h,
         h = c[Len(c)].greater \/ (h = g /\ ~IsList(c[Len(c)]))
  PROVE  IsStack(Front(c)) /\ Front(c) # <<>> /\ Flags(Front(c), h)
<1> DEFINE n == Len(c)
           new == Front(c)
<1>1. n \in Nat /\ c \in Seq({c[i] : i \in 1..n}) /\ n > 0
  BY DEF IsStack
<1>2. n > 1
  BY <1>1 DEF IsStack
<1>3. /\ Len(new) = n - 1 /\ new = [i \in 1..n - 1 |-> new[i]]
      /\ \A i \in 1..n - 1 : new[i] = c[i]
  <2> HIDE DEF n
  <2>1. SubSeq(c, 1, n - 1) = [i \in 1..n - 1 |-> c[i]]
    BY <1>1, <1>2
  <2>2. QED
    BY <1>1, <1>2, <2>1 DEF Front, n
<1> HIDE DEF new, n
<1>4. IsStack(new)
  BY <1>1, <1>2, <1>3 DEF IsStack, n
<1>5. ASSUME NEW x, NEW k \in 0..n - 1, FlagAt(c, x, k)
      PROVE  FlagAt(new, x, k)
  <2>1. ASSUME NEW m \in 0..k, m > 0 => IsList(new[m]),
               \A j \in m + 1..k : ~IsList(new[j])
        PROVE  x <=> (m = 0 \/ new[m].then = "arguments")
    <3>0. n \in Nat
      BY <1>1
    <3>1. m > 0 => m \in 1..n - 1
      BY <3>0
    <3>2. \A j \in m + 1..k : j \in 1..n - 1
      BY <3>0
    <3>3. (m > 0 => new[m] = c[m]) /\ (\A j \in m + 1..k : new[j] = c[j])
      BY <1>3, <3>1, <3>2
    <3>4. /\ m > 0 => IsList(c[m])
          /\ \A j \in m + 1..k : ~IsList(c[j])
      BY <2>1, <3>3
    <3>5. x <=> (m = 0 \/ c[m].then = "arguments")
      BY <1>5, <3>4 DEF FlagAt
    <3>6. m = 0 \/ m > 0
      BY <3>0
    <3>7. QED
      BY <3>3, <3>5, <3>6
  <2>2. QED
    BY <2>1 DEF FlagAt
<1>6. FlagAt(c, h, n - 1)
  <2>1. CASE h = c[n].greater
    BY <1>1, <2>1 DEF Flags, n
  <2>2. CASE h = g /\ ~IsList(c[n])
    <3>1. FlagAt(c, g, n)
      BY DEF Flags, n
    <3>2. ASSUME NEW m \in 0..n - 1, m > 0 => IsList(c[m]),
                 \A j \in m + 1..n - 1 : ~IsList(c[j])
          PROVE  g <=> (m = 0 \/ c[m].then = "arguments")
      <4>1. m \in 0..n /\ \A j \in m + 1..n : j = n \/ j \in m + 1..n - 1
        BY <1>1
      <4>2. QED
        BY <2>2, <3>1, <3>2, <4>1 DEF FlagAt
    <3>3. QED
      BY <2>2, <3>2 DEF FlagAt
  <2>3. QED
    BY <2>1, <2>2 DEF n
<1>7. FlagAt(new, h, n - 1)
  BY <1>1, <1>2, <1>5, <1>6
<1>8. ASSUME NEW i \in 1..n - 1
      PROVE  FlagAt(new, new[i].greater, i - 1)
  <2>1. i - 1 \in 0..n - 1 /\ i \in 1..n /\ new[i] = c[i]
    BY <1>1, <1>2, <1>3, <1>8
  <2>2. FlagAt(c, c[i].greater, i - 1)
    BY <2>1 DEF Flags, n
  <2>3. QED
    BY <1>5, <2>1, <2>2
<1>9. new # <<>>
  BY <1>1, <1>2, <1>3
<1>10. QED
  BY <1>3, <1>4, <1>7, <1>8, <1>9 DEF Flags, new

(* What a frame is after a second call from where the first was made.      *)
CallFrame(then, prec, op, left, g) ==
  [then |-> then, prec |-> prec, op |-> op, left |-> left, greater |-> g]

Changed(f, then, prec, left) ==
  [f EXCEPT !.then = then, !.prec = prec, !.left = left]

LEMMA ChangedFrame ==
  ASSUME NEW a, NEW b, NEW o, NEW l, NEW x, NEW then, NEW prec, NEW left
  PROVE  Changed(CallFrame(a, b, o, l, x), then, prec, left)
         = CallFrame(then, prec, o, left, x)
<1> DEFINE r == [then |-> a, prec |-> b, op |-> o, left |-> l, greater |-> x]
<1>1. [r EXCEPT !.then = then, !.prec = prec, !.left = left]
      = [[[r EXCEPT !.then = then] EXCEPT !.prec = prec] EXCEPT !.left = left]
  <2> HIDE DEF r
  <2>1. QED
    OBVIOUS
<1>2. [r EXCEPT !.then = then]
      = [then |-> then, prec |-> b, op |-> o, left |-> l, greater |-> x]
  OBVIOUS
<1>3. [[then |-> then, prec |-> b, op |-> o, left |-> l, greater |-> x]
         EXCEPT !.prec = prec]
      = [then |-> then, prec |-> prec, op |-> o, left |-> l, greater |-> x]
  OBVIOUS
<1>4. [[then |-> then, prec |-> prec, op |-> o, left |-> l, greater |-> x]
         EXCEPT !.left = left]
      = [then |-> then, prec |-> prec, op |-> o, left |-> left, greater |-> x]
  OBVIOUS
<1> HIDE DEF r
<1>5. QED
  BY <1>1, <1>2, <1>3, <1>4 DEF r, Changed, CallFrame

(* or the caller of the last call makes another in its place, which is a   *)
(* list if that was one.                                                   *)
LEMMA Replaced ==
  ASSUME NEW c, IsStack(c), c # <<>>, NEW g \in BOOLEAN, Flags(c, g),
         NEW then, NEW prec \in 0..Scope + 1, NEW left, IsNode(left),
         c[Len(c)].then # "done", then # "done",
         then = c[Len(c)].then
           \/ ({then, c[Len(c)].then} \intersect {"argument", "arguments"} = {})
  PROVE  LET new == Append(Front(c), [c[Len(c)] EXCEPT
                             !.then = then, !.prec = prec, !.left = left])
         IN  IsStack(new) /\ new # <<>> /\ Flags(new, g)
<1> DEFINE n == Len(c)
           f == c[n]
           e == [f EXCEPT !.then = then, !.prec = prec, !.left = left]
           new == Append(Front(c), e)
<1>1. n \in Nat /\ c \in Seq({c[i] : i \in 1..n}) /\ n > 0
  BY DEF IsStack
<1>2. n > 1
  BY <1>1 DEF IsStack
<1>3. IsCallFrame(f)
  BY <1>1 DEF IsStack
<1>4. e = [then |-> then, prec |-> prec, op |-> f.op, left |-> left,
           greater |-> f.greater]
  <2>1. f = CallFrame(f.then, f.prec, f.op, f.left, f.greater)
    BY <1>3 DEF IsCallFrame, CallFrame
  <2>2. e = Changed(f, then, prec, left)
    BY DEF Changed
  <2> HIDE DEF f, e
  <2>3. \A a, b, o, l, x : Changed(CallFrame(a, b, o, l, x), then, prec, left)
                            = CallFrame(then, prec, o, left, x)
    BY ChangedFrame
  <2>4. Changed(CallFrame(f.then, f.prec, f.op, f.left, f.greater), then, prec, left)
        = CallFrame(then, prec, f.op, left, f.greater)
    BY <2>3
  <2>5. QED
    BY <2>1, <2>2, <2>4 DEF CallFrame
<1>5. IsStack(Front(c)) /\ Front(c) # <<>> /\ Flags(Front(c), f.greater)
  BY Popped
<1>6. f.greater \in BOOLEAN
  BY <1>3 DEF IsCallFrame
<1>7. FlagAt(c, g, n) /\ FlagAt(c, f.greater, n - 1)
  BY <1>1 DEF Flags
<1>8. Len(Front(c)) = n - 1 /\ \A i \in 1..n - 1 : Front(c)[i] = c[i]
  <2> HIDE DEF n
  <2>1. SubSeq(c, 1, n - 1) = [i \in 1..n - 1 |-> c[i]]
    BY <1>1, <1>2
  <2>2. QED
    BY <1>1, <1>2, <2>1 DEF Front, n
<1>9. IsList(e) <=> IsList(f)
  <2> HIDE DEF n, f
  <2>1. {then, f.then} \intersect {"argument", "arguments"} = {}
        => ~IsList(f) /\ then \notin {"argument", "arguments"}
    BY DEF IsList
  <2>2. then = f.then \/ {then, f.then} \intersect {"argument", "arguments"} = {}
    BY DEF n, f
  <2>3. QED
    BY <1>4, <2>1, <2>2 DEF IsList
<1>10. IsList(e) => (g <=> then = "arguments")
  <2>1. n \in 0..n /\ \A j \in n + 1..n : FALSE
    BY <1>1
  <2>2. IsList(f) => (g <=> f.then = "arguments")
    BY <1>1, <1>7, <2>1 DEF FlagAt
  <2> HIDE DEF n, f
  <2>3. {then, f.then} \intersect {"argument", "arguments"} = {} => ~IsList(f)
    BY DEF IsList
  <2>4. then = f.then \/ {then, f.then} \intersect {"argument", "arguments"} = {}
    BY DEF n, f
  <2>5. QED
    BY <1>9, <2>2, <2>3, <2>4
<1>11. ~IsList(e) => (g <=> f.greater)
  <2>1. SUFFICES ASSUME ~IsList(e) PROVE g <=> f.greater
    OBVIOUS
  <2>2. FlagAt(Front(c), g, n - 1)
    <3>1. Flags(Front(c), g)
      BY <1>9, <2>1, Popped
    <3>2. QED
      BY <1>8, <3>1 DEF Flags
  <2>3. FlagAt(Front(c), f.greater, n - 1)
    BY <1>5, <1>8 DEF Flags
  <2>4. \E m \in 0..n - 1 : /\ m > 0 => IsList(Front(c)[m])
                            /\ \A j \in m + 1..n - 1 : ~IsList(Front(c)[j])
    <3> DEFINE d == Front(c)
               S == {m \in 0..n - 1 : m > 0 => IsList(d[m])}
    <3> HIDE DEF n, d
    <3>1. S \subseteq 0..n - 1 /\ 0 \in S /\ n - 1 \in Nat
      BY <1>1, <1>2
    <3>2. PICK m \in S : \A k \in S : k <= m
      <4>1. S # {}
        BY <3>1
      <4> HIDE DEF S
      <4>2. QED
        BY <3>1, <4>1, Greatest
    <3>3. \A j \in m + 1..n - 1 : ~IsList(d[j])
      BY <1>1, <3>2
    <3>4. QED
      BY <3>2, <3>3 DEF d
  <2>5. QED
    BY <2>2, <2>3, <2>4 DEF FlagAt
<1>12. QED
  <2>1. /\ e.then = then
        /\ then = "argument" => g = FALSE
        /\ then = "arguments" => g = TRUE
        /\ then \notin {"argument", "arguments"} => g = f.greater
    BY <1>4, <1>6, <1>10, <1>11 DEF IsList
  <2> HIDE DEF n, f, e
  <2>2. LET on == Append(Front(c), [then |-> then, prec |-> prec, op |-> f.op,
                                    left |-> left, greater |-> f.greater])
        IN  IsStack(on) /\ on # <<>> /\ Flags(on, g)
    BY <1>5, <1>6, <2>1, Pushed
  <2>3. QED
    BY <1>4, <2>2 DEF n, f, e

-----------------------------------------------------------------------------
(* What the steps of the parser are made of.                               *)

(* Each precedence in the table of symbols is one that a call may be given. *)
LEMMA Precedences ==
  ASSUME NEW op \in Operators
  PROVE  symbols[op].pre \in 0..Scope /\ symbols[op].binary \in 0..Scope
<1>1. Operators = {"=", "?", "&&", "<", ">", "-", "*", "!", "++"}
  BY DEF Operators, symbols
<1> DEFINE S == {Symbol(3, 0, 0, TRUE), Symbol(4, 0, 0, TRUE),
                 Symbol(6, 0, 0, FALSE), Symbol(11, 0, 0, FALSE),
                 Symbol(13, 16, 0, FALSE), Symbol(14, 16, 0, FALSE),
                 Symbol(0, 16, 0, FALSE), Symbol(0, 16, 17, FALSE)}
<1>2. \A x \in S : x.pre \in 0..18 /\ x.binary \in 0..18
  BY DEF Symbol
<1>3. symbols[op] \in S
  BY <1>1 DEF symbols, UnaryPre, UnaryPost
<1> HIDE DEF S
<1>4. QED
  BY <1>2, <1>3 DEF Scope

(* What the parser makes, wraps and extends are nodes.                     *)
LEMMA Nodes ==
  ASSUME NEW class \in Classes, NEW content, NEW kids
  PROVE  IsNode(Node(class, content, kids))
BY DEF IsNode, Node

LEMMA SimpleNodes ==
  /\ IsNode(Null)
  /\ \A t : IsNode(Leaf(t))
<1>1. {"null", "definition", "identifier", "literal"} \subseteq Classes
  BY DEF Classes
<1>2. \A class \in Classes : \A content, kids : IsNode(Node(class, content, kids))
  BY Nodes
<1>3. IsNode(Null)
  BY <1>1, <1>2 DEF Null
<1>4. ASSUME NEW t PROVE IsNode(Leaf(t))
  BY <1>1, <1>2 DEF Leaf
<1>5. QED
  BY <1>3, <1>4

LEMMA WithKids ==
  ASSUME NEW n, IsNode(n), NEW kids
  PROVE  /\ IsNode([n EXCEPT !.kids = kids])
         /\ IsNode(AsType(n)) /\ IsNode([AsType(n) EXCEPT !.kids = kids])
<1>1. n = Node(n.class, n.content, n.kids) /\ n.class \in Classes
  BY DEF IsNode, Node
<1>2. "type" \in Classes
  BY DEF Classes
<1>3. \A a, b, c : [Node(a, b, c) EXCEPT !.kids = kids] = Node(a, b, kids)
  BY DEF Node
<1>4. \A a, b, c : AsType(Node(a, b, c)) = Node("type", b, c)
  BY DEF AsType, Node
<1>5. /\ [n EXCEPT !.kids = kids] = Node(n.class, n.content, kids)
      /\ AsType(n) = Node("type", n.content, n.kids)
  BY <1>1, <1>3, <1>4
<1>6. [Node("type", n.content, n.kids) EXCEPT !.kids = kids]
      = Node("type", n.content, kids)
  BY <1>3
<1>7. /\ IsNode(Node(n.class, n.content, kids))
      /\ IsNode(Node("type", n.content, kids))
      /\ IsNode(Node("type", n.content, n.kids))
  BY <1>1, <1>2, Nodes
<1>8. QED
  BY <1>5, <1>6, <1>7

LEMMA TypeNodes ==
  ASSUME NEW n, IsNode(n)
  PROVE  /\ IsNode(AsType(n)) /\ IsNode(Pointer(n))
         /\ \A content : IsNode([n EXCEPT !.content = content])
<1>1. \A kids : IsNode(AsType(n)) /\ IsNode([AsType(n) EXCEPT !.kids = kids])
  BY WithKids
<1>2. [AsType(n) EXCEPT !.kids = Append(@, Node("*", "", <<>>))]
      = [AsType(n) EXCEPT !.kids = Append(AsType(n).kids, Node("*", "", <<>>))]
  OBVIOUS
<1>3. ASSUME NEW content PROVE IsNode([n EXCEPT !.content = content])
  <2>1. n = Node(n.class, n.content, n.kids) /\ n.class \in Classes
    BY DEF IsNode, Node
  <2>2. \A a, b, c : [Node(a, b, c) EXCEPT !.content = content]
                    = Node(a, content, c)
    BY DEF Node
  <2>3. IsNode(Node(n.class, content, n.kids))
    BY <2>1, Nodes
  <2>4. QED
    BY <2>1, <2>2, <2>3
<1>4. QED
  BY <1>1, <1>2, <1>3 DEF Pointer

(* A step reads at most one token.                                        *)
Moved == (Advance \/ Stay) /\ failed' \in BOOLEAN

LEMMA MovedTokens ==
  ASSUME Tokens, Moved
  PROVE  Tokens'
<1>1. CASE Stay
  BY <1>1 DEF Tokens, Stay
<1>2. CASE Advance
  <2>1. source' = source
    BY <1>2 DEF Advance
  <2>2. input' = input \/ \E t \in source.tokens \union {"end"} : input' = Append(input, t)
    <3>1. CASE token = "end"
      BY <1>2, <3>1 DEF Advance
    <3>2. CASE token # "end"
      BY <1>2, <3>2 DEF Advance
    <3>3. QED
      BY <3>1, <3>2
  <2> DEFINE S == source.tokens \union {"end"}
  <2>3. input' \in Seq(S)
    <3>1. input \in Seq(S)
      BY DEF Tokens
    <3>2. input' = input \/ \E t \in S : input' = Append(input, t)
      BY <2>2
    <3> HIDE DEF S
    <3>3. QED
      BY <3>1, <3>2
  <2>4. QED
    BY <2>1, <2>3 DEF Tokens
<1>3. QED
  BY <1>1, <1>2 DEF Moved

(* The invariant after a step within a call, after a call is made, after   *)
(* one returns, and after one is followed by another.                      *)
LEMMA Remaining ==
  ASSUME ParserInv, calls # <<>>, calls' = calls, greater' = greater, IsNode(node'), Moved
  PROVE  ParserInv'
<1>1. Tokens'
  BY MovedTokens DEF ParserInv
<1>2. QED
  BY <1>1 DEF ParserInv, Moved

LEMMA Calling ==
  ASSUME ParserInv, calls # <<>>, NEW then, NEW prec \in 0..Scope + 1, NEW left, NEW op,
         Parse(then, prec, left, op), IsNode(left), Moved, then # "done",
         IF then = "argument" THEN greater' = FALSE
         ELSE IF then = "arguments" THEN greater' = TRUE
         ELSE greater' = greater
  PROVE  ParserInv'
<1>1. Tokens'
  BY MovedTokens DEF ParserInv
<1>2. IsNode(node')
  BY SimpleNodes DEF Parse
<1> DEFINE h == greater'
<1>3. h \in BOOLEAN /\ greater \in BOOLEAN
  BY DEF ParserInv
<1>4. IsStack(calls') /\ calls' # <<>> /\ Flags(calls', h)
  <2>1. calls' = Append(calls, [then |-> then, prec |-> prec, op |-> op,
                                left |-> left, greater |-> greater])
    BY DEF Parse
  <2>2. /\ then = "argument" => h = FALSE
        /\ then = "arguments" => h = TRUE
        /\ then \notin {"argument", "arguments"} => h = greater
    OBVIOUS
  <2>3. IsStack(calls) /\ Flags(calls, greater)
    BY DEF ParserInv
  <2> HIDE DEF h
  <2>4. QED
    BY <1>3, <2>1, <2>2, <2>3, Pushed
<1>5. QED
  BY <1>1, <1>2, <1>3, <1>4 DEF ParserInv, Moved

LEMMA Leaving ==
  ASSUME ParserInv, calls # <<>>, NEW to, NEW n, Leave(to, n), IsNode(n), Moved,
         call.then # "done",
         greater' = call.greater \/ (greater' = greater /\ ~IsList(call))
  PROVE  ParserInv'
<1>1. Tokens'
  BY MovedTokens DEF ParserInv
<1>2. IsNode(node')
  BY DEF Leave
<1> DEFINE h == greater'
<1>3. IsStack(calls) /\ Flags(calls, greater)
  BY DEF ParserInv
<1>4. h \in BOOLEAN
  <2>1. IsCallFrame(calls[Len(calls)])
    <3>1. Len(calls) \in 1..Len(calls)
      BY <1>3 DEF IsStack
    <3>2. QED
      BY <1>3, <3>1 DEF IsStack
  <2>2. QED
    BY <2>1 DEF IsCallFrame, ParserInv, call, Last
<1>5. IsStack(calls') /\ calls' # <<>> /\ Flags(calls', h)
  <2>1. calls' = Front(calls)
    BY DEF Leave, Caller
  <2>2. /\ calls[Len(calls)].then # "done"
        /\ h = calls[Len(calls)].greater \/ (h = greater /\ ~IsList(calls[Len(calls)]))
    BY DEF call, Last
  <2> HIDE DEF h
  <2>3. QED
    BY <1>3, <2>1, <2>2, Popped
<1>6. QED
  BY <1>1, <1>2, <1>4, <1>5 DEF ParserInv, Moved

LEMMA CallingNext ==
  ASSUME ParserInv, calls # <<>>, NEW then, NEW prec \in 0..Scope + 1, NEW left,
         ParseNext(then, prec, left), IsNode(left), Moved,
         call.then # "done", then # "done", greater' = greater,
         then = call.then
           \/ ({then, call.then} \intersect {"argument", "arguments"} = {})
  PROVE  ParserInv'
<1>1. Tokens'
  BY MovedTokens DEF ParserInv
<1>2. IsNode(node')
  BY SimpleNodes DEF ParseNext
<1>3. IsStack(calls') /\ calls' # <<>> /\ Flags(calls', greater)
  <2>1. calls' = Append(Front(calls), [calls[Len(calls)] EXCEPT
                    !.then = then, !.prec = prec, !.left = left])
    BY DEF ParseNext, Caller, call, Last
  <2>2. IsStack(calls) /\ Flags(calls, greater) /\ greater \in BOOLEAN
    BY DEF ParserInv
  <2>3. calls[Len(calls)].then # "done"
        /\ (then = calls[Len(calls)].then
             \/ ({then, calls[Len(calls)].then} \intersect {"argument", "arguments"} = {}))
    BY DEF call, Last
  <2>4. QED
    BY <2>1, <2>2, <2>3, Replaced
<1>4. QED
  BY <1>1, <1>2, <1>3 DEF ParserInv, Moved

-----------------------------------------------------------------------------
(* A step of an operand, after an operand, and after a call.               *)

Kinds == {"array", "sizeof", "template id", "new", "postfix", "instantiation",
          "unary", "cast", "delete", "access", "binary", "ternary", "call",
          "subscript"}

LEMMA Built ==
  \A class \in Kinds : \A content, kids : IsNode(Node(class, content, kids))
<1>1. Kinds \subseteq Classes
  BY DEF Kinds, Classes
<1>2. QED
  BY <1>1, Nodes

LEMMA ExpressionStep ==
  ASSUME ParserInv, Expression
  PROVE  ParserInv'
<1>1. IsNode(node) /\ failed \in BOOLEAN /\ (phase # "done" => calls # <<>>)
  BY DEF ParserInv
<1>2. /\ IsNode(Null) /\ \A t : IsNode(Leaf(t))
      /\ \A class \in Kinds : \A content, kids : IsNode(Node(class, content, kids))
  BY SimpleNodes, Built
<1>3. CASE Operand
  <2>1. calls # <<>> /\ calls' = calls /\ greater' = greater /\ IsNode(node') /\ Moved
    BY <1>1, <1>2, <1>3 DEF Operand, Continue, Calm, Moved
  <2>2. QED
    BY <2>1, Remaining
<1>4. CASE Prefix
  <2>1. token \in Operators /\ symbols[token].pre \in 0..Scope + 1
    <3>1. token \in Operators
      BY <1>4 DEF Prefix, PrefixOperators
    <3>2. QED
      BY <3>1, Precedences DEF Scope
  <2>2. /\ calls # <<>> /\ Parse("prefix", symbols[token].pre, Null, token)
        /\ greater' = greater /\ Moved
    BY <1>1, <1>4 DEF Prefix, Calm, Moved
  <2>3. QED
    BY <1>2, <2>1, <2>2, Calling
<1>5. CASE OpenParenthesis
  <2>1. calls # <<>> /\ Parse("parenthesis", 0, Null, "") /\ greater' = greater /\ Moved
    BY <1>1, <1>5 DEF OpenParenthesis, Calm, Moved
  <2>2. 0 \in 0..Scope + 1
    BY DEF Scope
  <2>3. QED
    BY <1>2, <2>1, <2>2, Calling
<1>6. CASE OpenArray
  <2>1. calls # <<>> /\ calls' = calls /\ greater' = greater /\ Moved
    BY <1>1, <1>6 DEF OpenArray, Go, Calm, Moved
  <2>2. IsNode(node')
    BY <1>2, <1>6 DEF OpenArray, Go, Kinds
  <2>3. QED
    BY <2>1, <2>2, Remaining
<1>7. CASE Elements
  <2>1. calls # <<>> /\ greater' = greater /\ Moved
    BY <1>1, <1>7 DEF Elements, Calm, Moved
  <2>2. CASE token \in {"}", ";", "end"}
    BY <1>1, <1>7, <2>1, <2>2, Remaining DEF Elements, Continue
  <2>3. CASE token \notin {"}", ";", "end"}
    <3>1. Parse("element", Comma + 1, node, "")
      BY <1>7, <2>3 DEF Elements
    <3>2. Comma + 1 \in 0..Scope + 1
      BY DEF Comma, Scope
    <3>3. QED
      BY <1>1, <2>1, <3>1, <3>2, Calling
  <2>4. QED
    BY <2>2, <2>3
<1>8. CASE Keyword
  <2>1. calls # <<>> /\ greater' = greater /\ Moved
    BY <1>1, <1>8 DEF Keyword, Calm, Moved
  <2>2. CASE Parse("typename", Scope, Null, "")
    <3>1. Scope \in 0..Scope + 1
      BY DEF Scope
    <3>2. QED
      BY <1>2, <2>1, <2>2, <3>1, Calling
  <2>3. CASE Go(token, Null)
    BY <1>2, <2>1, <2>3, Remaining DEF Go
  <2>4. QED
    BY <1>8, <2>2, <2>3 DEF Keyword
<1>9. CASE Sizeof
  <2>1. calls # <<>> /\ greater' = greater /\ Moved
    BY <1>1, <1>9 DEF Sizeof, Calm, Moved
  <2>2. CASE Go("sizeof type", Null)
    BY <1>2, <2>1, <2>2, Remaining DEF Go
  <2>3. CASE Parse("sizeof", UnaryPre, Null, "")
    <3>1. UnaryPre \in 0..Scope + 1
      BY DEF UnaryPre, Scope
    <3>2. QED
      BY <1>2, <2>1, <2>3, <3>1, Calling
  <2>4. QED
    BY <1>9, <2>2, <2>3 DEF Sizeof
<1>10. CASE SizeofType
  <2>1. calls # <<>> /\ calls' = calls /\ greater' = greater /\ IsNode(node')
    BY <1>1, <1>2, <1>10, TypeNodes DEF SizeofType, Go, FailUnless
  <2>2. Moved
    BY <1>1, <1>10 DEF SizeofType, FailUnless, Moved
  <2>3. QED
    BY <2>1, <2>2, Remaining
<1>11. CASE SizeofEnd
  <2>1. calls # <<>> /\ calls' = calls /\ greater' = greater /\ IsNode(node')
    BY <1>1, <1>2, <1>11 DEF SizeofEnd, Continue, FailUnless, Kinds
  <2>2. Moved
    BY <1>1, <1>11 DEF SizeofEnd, FailUnless, Moved
  <2>3. QED
    BY <2>1, <2>2, Remaining
<1>12. CASE TemplateId
  <2>1. calls # <<>> /\ calls' = calls /\ greater' = greater /\ Moved
    BY <1>1, <1>12 DEF TemplateId, Continue, Return, Calm, Fail, Moved
  <2>2. IsNode(node')
    BY <1>2, <1>12 DEF TemplateId, Continue, Return, Kinds
  <2>3. QED
    BY <2>1, <2>2, Remaining
<1>13. CASE NamedCast
  <2>1. calls # <<>>
    BY <1>1, <1>13 DEF NamedCast, Awaited
  <2>2. greater' = greater /\ Moved
    BY <1>1, <1>13 DEF NamedCast, Calm, Fail, Moved
  <2>3. CASE Return(Null)
    BY <1>2, <2>1, <2>2, <2>3, Remaining DEF Return
  <2>4. CASE Parse("named cast", 0, node, "")
    <3>1. 0 \in 0..Scope + 1
      BY DEF Scope
    <3>2. QED
      BY <1>1, <2>1, <2>2, <2>4, <3>1, Calling
  <2>5. CASE Go(Awaited[phase].next, IF phase = "cast type" THEN Leaf(token) ELSE node)
    BY <1>1, <1>2, <2>1, <2>2, <2>5, Remaining DEF Go
  <2>6. QED
    BY <1>13, <2>3, <2>4, <2>5 DEF NamedCast
<1>14. CASE New
  <2>1. calls # <<>> /\ greater' = greater /\ Moved
    BY <1>1, <1>14 DEF New, Calm, Moved
  <2>2. CASE Parse("placement", 0, Null, "")
    <3>1. 0 \in 0..Scope + 1
      BY DEF Scope
    <3>2. QED
      BY <1>2, <2>1, <2>2, <3>1, Calling
  <2>3. CASE Go("new type", Null)
    BY <1>2, <2>1, <2>3, Remaining DEF Go
  <2>4. QED
    BY <1>14, <2>2, <2>3 DEF New
<1>15. CASE NewType
  <2>1. calls # <<>> /\ calls' = calls /\ greater' = greater /\ IsNode(node')
    BY <1>1, <1>2, <1>15 DEF NewType, Go, FailUnless
  <2>2. Moved
    BY <1>1, <1>15 DEF NewType, FailUnless, Moved
  <2>3. QED
    BY <2>1, <2>2, Remaining
<1>16. CASE NewBound
  <2>1. calls # <<>> /\ greater' = greater /\ Moved
    BY <1>1, <1>16 DEF NewBound, Calm, Moved
  <2>2. CASE Parse("bound", 0, node, "")
    <3>1. 0 \in 0..Scope + 1
      BY DEF Scope
    <3>2. QED
      BY <1>1, <2>1, <2>2, <3>1, Calling
  <2>3. CASE Go("skip", Node("new", "", <<node>>))
    <3>1. calls' = calls /\ IsNode(node')
      BY <1>2, <2>3 DEF Go, Kinds
    <3>2. QED
      BY <2>1, <3>1, Remaining
  <2>4. QED
    BY <1>16, <2>2, <2>3 DEF NewBound
<1>17. CASE Delete
  <2>1. calls # <<>> /\ greater' = greater /\ Moved
    BY <1>1, <1>17 DEF Delete, Calm, Moved
  <2>2. CASE Go("delete ]", Null)
    BY <1>2, <2>1, <2>2, Remaining DEF Go
  <2>3. CASE Parse("delete", UnaryPre, Null, "")
    <3>1. UnaryPre \in 0..Scope + 1
      BY DEF UnaryPre, Scope
    <3>2. QED
      BY <1>2, <2>1, <2>3, <3>1, Calling
  <2>4. QED
    BY <1>17, <2>2, <2>3 DEF Delete
<1>18. CASE DeleteArray
  <2>1. calls # <<>> /\ greater' = greater /\ Moved
    BY <1>1, <1>18 DEF DeleteArray, Calm, Fail, Moved
  <2>2. CASE Return(Null)
    BY <1>2, <2>1, <2>2, Remaining DEF Return
  <2>3. CASE Parse("delete", UnaryPre, Null, "[]")
    <3>1. UnaryPre \in 0..Scope + 1
      BY DEF UnaryPre, Scope
    <3>2. QED
      BY <1>2, <2>1, <2>3, <3>1, Calling
  <2>4. QED
    BY <1>18, <2>2, <2>3 DEF DeleteArray
<1>19. CASE SkipToken
  BY <1>1, <1>19, Remaining DEF SkipToken, Continue, Calm, Moved
<1>20. CASE NoExpression
  <2>1. calls # <<>> /\ greater' = greater /\ calls' = calls /\ IsNode(node') /\ Moved
    BY <1>1, <1>2, <1>20 DEF NoExpression, Return, Fail, Moved
  <2>2. QED
    BY <2>1, Remaining
<1>21. CASE SecondType
  <2>1. calls # <<>>
    BY <1>1, <1>21 DEF SecondType, AtSecondType, AfterType
  <2>2. greater' = greater /\ calls' = calls /\ IsNode(node') /\ Moved
    BY <1>1, <1>21, TypeNodes DEF SecondType, Go, Fail, Moved
  <2>3. QED
    BY <2>1, <2>2, Remaining
<1>22. CASE SizeofPointer
  <2>1. /\ calls # <<>> /\ greater' = greater /\ calls' = calls
        /\ IsNode(node') /\ Moved
    BY <1>1, <1>22, TypeNodes DEF SizeofPointer, Go, Calm, Moved
  <2>2. QED
    BY <2>1, Remaining
<1>23. QED
  BY <1>3, <1>4, <1>5, <1>6, <1>7, <1>8, <1>9, <1>10, <1>11, <1>12, <1>13,
     <1>14, <1>15, <1>16, <1>17, <1>18, <1>19, <1>20, <1>21, <1>22
  DEF Expression

LEMMA AfterOperandStep ==
  ASSUME ParserInv, AfterOperand
  PROVE  ParserInv'
<1>1. IsNode(node) /\ failed \in BOOLEAN /\ (phase # "done" => calls # <<>>)
  BY DEF ParserInv
<1>2. /\ IsNode(Null) /\ \A t : IsNode(Leaf(t))
      /\ \A class \in Kinds : \A content, kids : IsNode(Node(class, content, kids))
  BY SimpleNodes, Built
<1>3. /\ \A prec \in 0..Scope : prec \in 0..Scope + 1 /\ prec + 1 \in 0..Scope + 1
      /\ {0, Comma, Comma + 1, Scope + 1} \subseteq 0..Scope + 1
  BY DEF Comma, Scope
<1>4. AtOperator => calls # <<>>
  BY <1>1 DEF AtOperator
<1>5. AtValueOperator => /\ calls # <<>> /\ token \in Operators
                         /\ symbols[token].binary \in 0..Scope
  BY <1>4, Precedences DEF AtValueOperator, IsOperator
<1>6. CASE Stop
  BY <1>1, <1>4, <1>6, Remaining DEF Stop, Return, Calm, Moved
<1>7. CASE Access
  <2>1. calls # <<>> /\ Parse("access", Scope + 1, node, "::") /\ greater' = greater /\ Moved
    BY <1>1, <1>4, <1>7 DEF Access, Calm, Moved
  <2>2. QED
    BY <1>1, <1>3, <2>1, Calling
<1>8. CASE TemplateArguments
  <2> DEFINE left == Node("instantiation", "", <<node>>)
  <2>1. /\ calls # <<>> /\ Parse("argument", Comma + 1, left, "")
        /\ greater' = FALSE /\ Moved
    BY <1>1, <1>4, <1>8 DEF TemplateArguments, Moved
  <2>2. IsNode(left)
    BY <1>2 DEF Kinds
  <2> HIDE DEF left
  <2>3. QED
    BY <1>3, <2>1, <2>2, Calling
<1>9. CASE TypeOperator
  <2>1. calls # <<>> /\ greater' = greater /\ calls' = calls /\ Moved
    BY <1>1, <1>4, <1>9 DEF TypeOperator, Calm, Fail, Continue, Return, Moved
  <2>2. IsNode(Pointer(node))
    BY <1>1, TypeNodes
  <2>3. IsNode(node')
    BY <1>2, <1>9, <2>2 DEF TypeOperator, Continue, Return
  <2>4. QED
    BY <2>1, <2>3, Remaining
<1>10. CASE Binary
  <2> DEFINE prec == symbols[token].binary + (IF symbols[token].rtl THEN 0 ELSE 1)
  <2>1. /\ calls # <<>> /\ Parse("right", prec, node, token)
        /\ greater' = greater /\ Moved
    BY <1>1, <1>5, <1>10 DEF Binary, Calm, Moved
  <2>2. prec \in 0..Scope + 1
    <3>1. prec = symbols[token].binary \/ prec = symbols[token].binary + 1
      BY <1>5, <1>10 DEF Binary, Scope
    <3>2. QED
      BY <1>3, <1>5, <1>10, <3>1 DEF Binary
  <2> HIDE DEF prec
  <2>3. QED
    BY <1>1, <2>1, <2>2, Calling
<1>11. CASE Ternary
  <2>1. /\ calls # <<>> /\ Parse("if true", 0, node, "?")
        /\ greater' = greater /\ Moved
    BY <1>1, <1>5, <1>11 DEF Ternary, Calm, Moved
  <2>2. QED
    BY <1>1, <1>3, <2>1, Calling
<1>12. CASE Postfix
  <2>1. /\ calls # <<>> /\ calls' = calls /\ IsNode(node')
        /\ greater' = greater /\ Moved
    BY <1>1, <1>2, <1>5, <1>12 DEF Postfix, Continue, Calm, Moved, Kinds
  <2>2. QED
    BY <2>1, Remaining
<1>13. CASE OnlyPrefix
  BY <1>1, <1>5, <1>13, Remaining DEF OnlyPrefix, Return, Fail, Moved
<1>14. CASE TypenameAfter
  BY <1>2, <1>4, <1>14, Remaining DEF TypenameAfter, Return, Fail, Moved
<1>15. CASE Call
  <2>1. /\ calls # <<>> /\ Parse("arguments", 0, node, "")
        /\ greater' = TRUE /\ Moved
    BY <1>1, <1>4, <1>15 DEF Call, IsCall, Moved
  <2>2. QED
    BY <1>1, <1>3, <2>1, Calling
<1>16. CASE CommaOperator
  <2>1. calls # <<>> /\ Parse("right", Comma, node, ",") /\ greater' = greater /\ Moved
    BY <1>1, <1>4, <1>16 DEF CommaOperator, Calm, Moved
  <2>2. QED
    BY <1>1, <1>3, <2>1, Calling
<1>17. CASE Subscript
  <2>1. calls # <<>> /\ Parse("index", Comma, node, "[") /\ greater' = greater /\ Moved
    BY <1>1, <1>4, <1>17 DEF Subscript, Calm, Moved
  <2>2. QED
    BY <1>1, <1>3, <2>1, Calling
<1>18. CASE LeaveOut
  <2>1. calls # <<>>
    BY <1>1, <1>4, <1>18 DEF LeaveOut, AtDeclarator, AtType, AfterType
  <2>2. calls' = calls /\ node' = node /\ greater' = greater /\ Moved
    BY <1>1, <1>18 DEF LeaveOut, Go, Calm, Moved
  <2>3. QED
    BY <1>1, <2>1, <2>2, Remaining
<1>19. QED
  BY <1>6, <1>7, <1>8, <1>9, <1>10, <1>11, <1>12, <1>13, <1>14, <1>15, <1>16,
     <1>17, <1>18 DEF AfterOperand

LEMMA AfterCallStep ==
  ASSUME ParserInv, AfterCall
  PROVE  ParserInv'
<1>1. IsNode(node) /\ failed \in BOOLEAN /\ greater \in BOOLEAN
      /\ (phase # "done" => calls # <<>>)
  BY DEF ParserInv
<1>2. /\ IsNode(Null)
      /\ \A class \in Kinds : \A content, kids : IsNode(Node(class, content, kids))
  BY SimpleNodes, Built
<1>3. /\ {0, Comma + 1, UnaryPre} \subseteq 0..Scope + 1
  BY DEF Comma, Scope, UnaryPre
<1>4. \A then : Returned(then) => calls # <<>> /\ call.then = then
  BY <1>1 DEF Returned
<1>5. calls # <<>> => IsNode(call.left)
  <2>1. SUFFICES ASSUME calls # <<>> PROVE IsNode(call.left)
    OBVIOUS
  <2>2. IsStack(calls)
    BY DEF ParserInv
  <2>3. Len(calls) \in 1..Len(calls)
    BY <2>1, <2>2 DEF IsStack
  <2>4. QED
    BY <2>2, <2>3 DEF IsStack, IsCallFrame, call, Last
<1>6. calls # <<>> => \A n : IsNode(Grown(n))
  <2>1. ASSUME calls # <<>>, NEW n PROVE IsNode(Grown(n))
    <3>1. [call.left EXCEPT !.kids = Append(@, n)]
          = [call.left EXCEPT !.kids = Append(call.left.kids, n)]
      OBVIOUS
    <3>2. QED
      BY <1>5, <2>1, <3>1, WithKids DEF Grown
  <2>2. QED
    BY <2>1
<1>7. ASSUME NEW then, Returned(then),
             then \notin {"done", "argument", "arguments"},
             NEW to, NEW n, Leave(to, n), IsNode(n), Moved, greater' = greater
      PROVE  ParserInv'
  <2>1. calls # <<>> /\ call.then # "done" /\ ~IsList(call)
    BY <1>4, <1>7 DEF IsList
  <2>2. QED
    BY <1>7, <2>1, Leaving
<1>8. CASE OperandReturned
  <2>1. greater' = greater /\ Moved
    BY <1>1, <1>8 DEF OperandReturned, Calm, Moved
  <2>2. CASE Returned("prefix") /\ Resume(Node("unary", call.op, <<node>>))
    BY <1>2, <1>7, <2>1, <2>2 DEF Resume, Kinds
  <2>3. CASE Returned("sizeof") /\ Resume(Node("sizeof", "", <<node>>))
    BY <1>2, <1>7, <2>1, <2>3 DEF Resume, Kinds
  <2>4. CASE Returned("cast") /\ Resume(Node("cast", call.left.content, <<node>>))
    BY <1>2, <1>7, <2>1, <2>4 DEF Resume, Kinds
  <2>5. CASE Returned("delete") /\ Leave("skip", Node("delete", call.op, <<node>>))
    BY <1>2, <1>7, <2>1, <2>5 DEF Kinds
  <2>6. QED
    BY <1>8, <2>2, <2>3, <2>4, <2>5 DEF OperandReturned
<1>9. CASE ParenthesisReturned
  <2>1. greater' = greater /\ Moved /\ Returned("parenthesis")
    BY <1>1, <1>9 DEF ParenthesisReturned, Calm, FailUnless, Moved
  <2>2. CASE ParseNext("cast", UnaryPre, node)
    <3>1. /\ calls # <<>> /\ call.then # "done"
          /\ {"cast", call.then} \intersect {"argument", "arguments"} = {}
      BY <1>4, <2>1
    <3>2. QED
      BY <1>1, <1>3, <2>1, <2>2, <3>1, CallingNext
  <2>3. CASE Resume(node)
    BY <1>1, <1>7, <2>1, <2>3 DEF Resume
  <2>4. CASE GiveUp(Null)
    BY <1>2, <1>7, <2>1, <2>4 DEF GiveUp
  <2>5. QED
    BY <1>9, <2>2, <2>3, <2>4 DEF ParenthesisReturned
<1>10. CASE ElementReturned
  <2>1. greater' = greater /\ Returned("element")
    BY <1>10 DEF ElementReturned, FailUnless
  <2>2. Moved
    BY <1>1, <1>10 DEF ElementReturned, FailUnless, Moved
  <2>3. IsNode(Grown(node))
    BY <1>4, <1>6, <2>1
  <2>4. CASE Leave("elements", Grown(node))
    BY <1>7, <2>1, <2>2, <2>3, <2>4
  <2>5. CASE Resume(Grown(node))
    BY <1>7, <2>1, <2>2, <2>3, <2>5 DEF Resume
  <2>6. QED
    BY <1>10, <2>4, <2>5 DEF ElementReturned
<1>11. CASE TypenameReturned
  <2>1. greater' = greater /\ Returned("typename")
    BY <1>11 DEF TypenameReturned, FailUnless
  <2>2. Moved
    BY <1>1, <1>11 DEF TypenameReturned, FailUnless, Moved
  <2>3. GiveUp(node) \/ GiveUp(Null)
    BY <1>11 DEF TypenameReturned
  <2>4. QED
    BY <1>1, <1>2, <1>7, <2>1, <2>2, <2>3 DEF GiveUp
<1>12. CASE NamedCastReturned
  <2>1. greater' = greater /\ Returned("named cast")
    BY <1>12 DEF NamedCastReturned, FailUnless
  <2>2. Moved
    BY <1>1, <1>12 DEF NamedCastReturned, FailUnless, Moved
  <2>3. GiveUp(Null) \/ Resume(Node("cast", call.left.content, <<node>>))
    BY <1>12 DEF NamedCastReturned
  <2>4. IsNode(Node("cast", call.left.content, <<node>>))
    BY <1>2 DEF Kinds
  <2>5. QED
    BY <1>2, <1>7, <2>1, <2>2, <2>3, <2>4 DEF GiveUp, Resume
<1>13. CASE NewReturned
  <2>1. greater' = greater /\ (Returned("placement") \/ Returned("bound"))
    BY <1>13 DEF NewReturned, FailUnless
  <2>2. Moved
    BY <1>1, <1>13 DEF NewReturned, FailUnless, Moved
  <2>3. IsNode(Node("new", "", <<call.left, node>>))
    BY <1>2 DEF Kinds
  <2>4. \/ Leave("new type", Null) \/ GiveUp(Null)
        \/ Leave("skip", Node("new", "", <<call.left, node>>))
    BY <1>13 DEF NewReturned
  <2>5. QED
    BY <1>2, <1>7, <2>1, <2>2, <2>3, <2>4 DEF GiveUp
<1>14. CASE RightReturned
  <2> DEFINE n == Node(IF call.op = "::" THEN "access" ELSE "binary", call.op,
                       <<call.left, node>>)
  <2>1. greater' = greater /\ (Returned("right") \/ Returned("access"))
    BY <1>14 DEF RightReturned, FailUnless
  <2>2. Moved
    BY <1>1, <1>14 DEF RightReturned, FailUnless, Moved
  <2>3. IsNode(n) /\ IsNode(call.left)
    <3>1. (IF call.op = "::" THEN "access" ELSE "binary") \in Kinds
      BY DEF Kinds
    <3>2. QED
      BY <1>2, <1>4, <1>5, <2>1, <3>1
  <2>4. GiveUp(call.left) \/ Resume(n)
    BY <1>14 DEF RightReturned
  <2> HIDE DEF n
  <2>5. QED
    BY <1>7, <2>1, <2>2, <2>3, <2>4 DEF GiveUp, Resume
<1>15. CASE TrueReturned
  <2> DEFINE n == Node("ternary", "?", <<call.left, node>>)
  <2>1. greater' = greater /\ Returned("if true")
    BY <1>15 DEF TrueReturned, FailUnless
  <2>2. Moved
    BY <1>1, <1>15 DEF TrueReturned, FailUnless, Moved
  <2>3. IsNode(n)
    BY <1>2 DEF Kinds
  <2>4. GiveUp(Null) \/ ParseNext("if false", 0, n)
    BY <1>15 DEF TrueReturned
  <2>5. CASE GiveUp(Null)
    BY <1>2, <1>7, <2>1, <2>2, <2>5 DEF GiveUp
  <2> HIDE DEF n
  <2>6. CASE ParseNext("if false", 0, n)
    <3>1. /\ calls # <<>> /\ call.then # "done"
          /\ {"if false", call.then} \intersect {"argument", "arguments"} = {}
      <4>1. calls # <<>> /\ call.then = "if true"
        BY <1>4, <2>1
      <4>2. QED
        BY <4>1
    <3>2. QED
      BY <1>3, <2>1, <2>2, <2>3, <2>6, <3>1, CallingNext
  <2>7. QED
    BY <2>4, <2>5, <2>6
<1>16. CASE FalseReturned
  <2>1. greater' = greater /\ Returned("if false") /\ Moved
    BY <1>1, <1>16 DEF FalseReturned, Calm, Moved
  <2>2. IsNode(Grown(node))
    BY <1>4, <1>6, <2>1
  <2>3. GiveUp(Null) \/ Resume(Grown(node))
    BY <1>16 DEF FalseReturned
  <2>4. QED
    BY <1>2, <1>7, <2>1, <2>2, <2>3 DEF GiveUp, Resume
<1>17. CASE ArgumentReturned
  <2>1. Returned("argument") /\ calls # <<>> /\ call.then = "argument"
    BY <1>4, <1>17 DEF ArgumentReturned
  <2>2. Moved
    <3>1. failed' \in BOOLEAN
      BY <1>1, <1>17 DEF ArgumentReturned
    <3>2. Advance \/ Stay
      BY <1>17 DEF ArgumentReturned
    <3>3. QED
      BY <3>1, <3>2 DEF Moved
  <2>3. IsNode(Grown(node)) /\ IsNode(call.left)
    BY <1>5, <1>6, <2>1
  <2>4. CASE ParseNext("argument", Comma + 1, Grown(node)) /\ UNCHANGED greater
    BY <1>3, <2>1, <2>2, <2>3, <2>4, CallingNext
  <2>5. CASE /\ Resume(IF node = Null THEN call.left ELSE Grown(node))
             /\ greater' = call.greater
    <3> DEFINE n == IF node = Null THEN call.left ELSE Grown(node)
    <3>1. IsNode(n) /\ Leave("operator", n)
      BY <2>3, <2>5 DEF Resume
    <3> HIDE DEF n
    <3>2. QED
      BY <2>1, <2>2, <2>5, <3>1, Leaving
  <2>6. QED
    BY <1>17, <2>4, <2>5 DEF ArgumentReturned
<1>18. CASE ArgumentsReturned
  <2> DEFINE n == Node("call", "", <<call.left, node>>)
  <2>1. calls # <<>> /\ call.then = "arguments" /\ greater' = call.greater
    BY <1>4, <1>18 DEF ArgumentsReturned
  <2>2. Moved
    BY <1>1, <1>18 DEF ArgumentsReturned, Moved
  <2>3. IsNode(n) /\ IsNode(call.left)
    BY <1>2, <1>5, <2>1 DEF Kinds
  <2>4. Leave("return", call.left) \/ Leave("operator", n)
    BY <1>18 DEF ArgumentsReturned, GiveUp, Resume
  <2> HIDE DEF n
  <2>5. QED
    BY <2>1, <2>2, <2>3, <2>4, Leaving
<1>19. CASE IndexReturned
  <2> DEFINE n == Node("subscript", "", <<call.left, node>>)
  <2>1. greater' = greater /\ Returned("index")
    BY <1>19 DEF IndexReturned, FailUnless
  <2>2. Moved
    BY <1>1, <1>19 DEF IndexReturned, FailUnless, Moved
  <2>3. IsNode(n) /\ IsNode(call.left)
    BY <1>2, <1>4, <1>5, <2>1 DEF Kinds
  <2>4. GiveUp(call.left) \/ GiveUp(n) \/ Resume(n)
    BY <1>19 DEF IndexReturned
  <2> HIDE DEF n
  <2>5. QED
    BY <1>7, <2>1, <2>2, <2>3, <2>4 DEF GiveUp, Resume
<1>20. CASE Done
  <2>1. /\ calls # <<>> /\ call.then = "done" /\ IsStack(calls) /\ Flags(calls, greater)
        /\ Tokens
    BY <1>4, <1>20 DEF Done, ParserInv
  <2>2. Len(calls) = 1 /\ ~IsList(calls[Len(calls)])
    <3>1. Len(calls) \in 1..Len(calls)
      BY <2>1 DEF IsStack
    <3>2. QED
      BY <2>1, <3>1 DEF IsStack, IsList, call, Last
  <2>3. calls' = <<>>
    <3>1. calls \in Seq({calls[i] : i \in 1..Len(calls)})
      BY <2>1 DEF IsStack
    <3>2. QED
      BY <1>20, <2>2, <3>1 DEF Done, Leave, Caller, Front
  <2>4. greater' = greater /\ phase' = "done" /\ node' = node /\ Moved
    BY <1>1, <1>20 DEF Done, Leave, Calm, Moved
  <2>5. IsStack(calls')
    BY <2>3 DEF IsStack
  <2>6. Flags(calls', greater')
    <3>1. FlagAt(calls, greater, 1)
      BY <2>1, <2>2 DEF Flags
    <3>2. greater = TRUE
      BY <1>1, <2>2, <3>1 DEF FlagAt
    <3>3. QED
      BY <2>3, <2>4, <3>2 DEF Flags, FlagAt
  <2>7. Tokens'
    BY <2>1, <2>4, MovedTokens
  <2>8. QED
    BY <1>1, <2>4, <2>5, <2>6, <2>7 DEF ParserInv, Moved
<1>21. QED
  BY <1>8, <1>9, <1>10, <1>11, <1>12, <1>13, <1>14, <1>15, <1>16, <1>17,
     <1>18, <1>19, <1>20 DEF AfterCall

-----------------------------------------------------------------------------
(* The invariant holds in every reachable state: of the calls that are     *)
(* active, each has kept the flag of the brackets around it, and the flag  *)
(* is that of the brackets around the current token.                       *)
THEOREM ParserInvariant == Spec => []ParserInv
<1>1. Init => ParserInv
  <2>1. SUFFICES ASSUME Init PROVE ParserInv
    OBVIOUS
  <2> DEFINE f == [then |-> "done", prec |-> source.prec, op |-> "",
                   left |-> Null, greater |-> TRUE]
  <2>2. source \in Inputs /\ calls = <<f>> /\ greater = TRUE /\ node = Null
        /\ failed = FALSE
    BY <2>1 DEF Init
  <2>3. Tokens
    <3>1. PICK t \in source.first : input = <<t>>
      BY <2>1 DEF Init
    <3>2. t \in source.tokens \union {"end"}
      BY <2>2, <3>1, ConstantsAssumption
    <3> DEFINE S == source.tokens \union {"end"}
    <3>3. input \in Seq(S)
      <4>1. t \in S
        BY <3>2
      <4> HIDE DEF S
      <4>2. QED
        BY <3>1, <4>1
    <3>4. QED
      BY <2>2, <3>3 DEF Tokens
  <2>4. IsCallFrame(f) /\ f.then = "done" /\ f.greater = TRUE
    <3>1. source.prec \in 0..Scope + 1
      <4>1. source.prec \in {0, 2}
        BY <2>2, ConstantsAssumption
      <4>2. QED
        BY <4>1 DEF Scope
    <3>2. QED
      BY <3>1, SimpleNodes DEF IsCallFrame
  <2> HIDE DEF f
  <2>5. Len(calls) = 1 /\ calls[1] = f /\ calls = [i \in 1..1 |-> calls[i]]
    BY <2>2
  <2>6. IsStack(calls)
    BY <2>4, <2>5 DEF IsStack
  <2>7. Flags(calls, greater)
    <3>1. ~IsList(calls[1])
      BY <2>4, <2>5 DEF IsList
    <3>2. FlagAt(calls, TRUE, 1)
      BY <3>1 DEF FlagAt
    <3>3. FlagAt(calls, TRUE, 0)
      BY DEF FlagAt
    <3>4. \A i \in 1..Len(calls) : calls[i].greater = TRUE /\ i - 1 = 0
      BY <2>4, <2>5
    <3>5. \A i \in 1..Len(calls) : FlagAt(calls, calls[i].greater, i - 1)
      BY <3>3, <3>4
    <3>6. FlagAt(calls, greater, Len(calls))
      BY <2>2, <2>5, <3>2
    <3>7. QED
      BY <3>5, <3>6 DEF Flags
  <2>8. QED
    BY <2>2, <2>3, <2>5, <2>6, <2>7, SimpleNodes DEF ParserInv
<1>2. ParserInv /\ [Next]_vars => ParserInv'
  <2>1. SUFFICES ASSUME ParserInv, [Next]_vars PROVE ParserInv'
    OBVIOUS
  <2>2. CASE Expression
    BY <2>1, <2>2, ExpressionStep
  <2>3. CASE AfterOperand
    BY <2>1, <2>3, AfterOperandStep
  <2>4. CASE AfterCall
    BY <2>1, <2>4, AfterCallStep
  <2>5. CASE UNCHANGED vars
    BY <2>1, <2>5 DEF vars, ParserInv, Tokens
  <2>6. QED
    BY <2>1, <2>2, <2>3, <2>4, <2>5 DEF Next, Step, Finished
<1>3. QED
  BY <1>1, <1>2, PTL DEF Spec

(* Nodes, calls, tokens and flags have their types, for any tokens and     *)
(* first tokens, and whatever errors the input has.                        *)
THEOREM ParserTyped == Spec => []TypeOK
<1>1. ParserInv => TypeOK
  <2>1. SUFFICES ASSUME ParserInv PROVE TypeOK
    OBVIOUS
  <2>2. IsStack(calls) /\ IsNode(node)
    BY <2>1 DEF ParserInv
  <2>3. DOMAIN calls = 1..Len(calls)
    BY <2>2 DEF IsStack
  <2>4. \A i \in DOMAIN calls : IsCallFrame(calls[i])
    BY <2>2, <2>3 DEF IsStack
  <2>5. QED
    BY <2>1, <2>2, <2>4 DEF ParserInv, Tokens, TypeOK, IsCallFrame, IsNode
<1>2. QED
  BY <1>1, ParserInvariant, PTL

(* AST_Builder::parse_binary_or_unary_post restores the flag on every way  *)
(* out of a list of template arguments or of a call: > is an operator      *)
(* exactly when the innermost that is open is not a list of template       *)
(* arguments, at any depth and after any errors.                           *)
THEOREM GreaterFollowsBrackets == Spec => []GreaterIsOperator
<1>1. ParserInv => GreaterIsOperator
  <2>1. SUFFICES ASSUME ParserInv PROVE GreaterIsOperator
    OBVIOUS
  <2> DEFINE n == Len(calls)
             lists == {i \in DOMAIN calls : calls[i].then \in {"argument", "arguments"}}
  <2>2. n \in Nat /\ DOMAIN calls = 1..n /\ FlagAt(calls, greater, n)
    BY <2>1 DEF ParserInv, IsStack, Flags
  <2>3. \A i \in 1..n : i \in lists <=> IsList(calls[i])
    BY <2>2 DEF IsList
  <2>4. lists \subseteq 1..n
    BY <2>2
  <2>5. greater <=> (lists = {} \/ calls[Max(lists)].then = "arguments")
    <3> HIDE DEF n, lists
    <3>1. CASE lists = {}
      <4>1. \A j \in 1..n : ~IsList(calls[j])
        BY <2>3, <3>1
      <4>2. 0 \in 0..n /\ 0 + 1 = 1
        BY <2>2
      <4>3. greater <=> (0 = 0 \/ calls[0].then = "arguments")
        BY <2>2, <4>1, <4>2 DEF FlagAt
      <4>4. QED
        BY <3>1, <4>3
    <3>2. CASE lists # {}
      <4>1. lists \subseteq 0..n
        BY <2>4
      <4>2. \E m \in lists : \A k \in lists : k <= m
        BY <2>2, <3>2, <4>1, Greatest
      <4>3. \A k \in lists : k \in Int
        BY <2>4
      <4>4. Max(lists) \in lists /\ \A k \in lists : k <= Max(lists)
        <5>1. \E m \in lists : \A k \in lists : m >= k
          BY <4>2, <4>3
        <5>2. QED
          BY <4>3, <5>1 DEF Max
      <4> DEFINE m == Max(lists)
      <4>5. m \in 1..n /\ IsList(calls[m])
        BY <2>3, <2>4, <4>4
      <4>6. \A j \in m + 1..n : ~IsList(calls[j])
        <5> HIDE DEF m
        <5>1. \A j \in m + 1..n : j \in 1..n /\ ~(j <= m)
          BY <2>2, <4>5
        <5>2. QED
          BY <2>3, <4>4, <5>1 DEF m
      <4>7. m \in 0..n /\ m # 0
        <5> HIDE DEF m
        <5>1. QED
          BY <2>2, <4>5
      <4>8. greater <=> (m = 0 \/ calls[m].then = "arguments")
        <5> HIDE DEF m
        <5>1. QED
          BY <2>2, <4>5, <4>6, <4>7 DEF FlagAt
      <4>9. QED
        BY <3>2, <4>7, <4>8
    <3>3. QED
      BY <3>1, <3>2
  <2>6. QED
    BY <2>5 DEF GreaterIsOperator
<1>2. QED
  BY <1>1, ParserInvariant, PTL
=============================================================================
