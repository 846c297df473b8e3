-------------------------- MODULE MacroExpansionProofs --------------------------
(***************************************************************************)
(* Proofs about MacroExpansion: however macros refer to each other and     *)
(* whatever their calls hold, the calls that expand an argument and the    *)
(* frozen buffers go together, no macro is entered inside itself, and an   *)
(* argument is expanded apart from all that is around it.  Of what         *)
(* Substituted returns, that needs nothing; that the state keeps its types *)
(* needs a sequence of tokens.  That macros are entered with the list that *)
(* C++ says, and that an argument is expanded to its end, is proved for    *)
(* texts that concatenate (TextsConcatenate).                              *)
(***************************************************************************)
EXTENDS MacroExpansion, SequenceTheorems, FiniteSetTheorems, TLAPS

-----------------------------------------------------------------------------
(* Recursive functions: a set of natural numbers has a least element, and  *)
(* a function that is given by its own values at smaller places exists.    *)
(* Sets and functions stand where the theorems of NaturalsInduction have   *)
(* operators, so that a proof can choose them.                             *)

(* The counterexample to begin with, in a proof by induction.              *)
LEMMA Least ==
  ASSUME NEW T, T \subseteq Nat, T # {}
  PROVE  \E m \in T : \A k \in T : m <= k
<1> DEFINE R == OpToRel(<, Nat)
<1>1. IsWellFoundedOn(R, Nat)
  BY NatLessThanWellFounded
<1>2. PICK m \in T : \A k \in T : ~(<<k, m>> \in R)
  <2> HIDE DEF R
  <2>1. \E m \in T : \A k \in T : ~(<<k, m>> \in R)
    BY <1>1, WFMin
  <2>2. QED
    BY <2>1
<1>3. \A k \in T : ~(k < m)
  BY <1>2 DEF OpToRel
<1>4. QED
  BY <1>3

(* A set that has 0, and with each number the down one, has them all.      *)
LEMMA Induction ==
  ASSUME NEW T, 0 \in T, \A n \in Nat : n \in T => n + 1 \in T
  PROVE  \A n \in Nat : n \in T
<1>1. SUFFICES ASSUME NEW n \in Nat, n \notin T PROVE FALSE
  OBVIOUS
<1> DEFINE C == Nat \ T
<1>2. C \subseteq Nat /\ C # {}
  BY <1>1
<1>3. PICK m \in C : \A k \in C : m <= k
  <2> HIDE DEF C
  <2>1. QED
    BY <1>2, Least
<1>4. m # 0 /\ m \in Nat
  OBVIOUS
<1>5. m - 1 \in Nat /\ ~(m <= m - 1)
  BY <1>4
<1>6. m - 1 \in T
  BY <1>3, <1>5
<1>7. QED
  BY <1>4, <1>5, <1>6

(* The function on D that is base where it stops and that step makes of    *)
(* its value at a smaller place elsewhere.                                 *)
Descending(D, V, stop, base, down, step) ==
  /\ base \in [D -> V]
  /\ step \in [D -> [V -> V]]
  /\ \A i \in D : i \notin stop => down[i] \in D /\ down[i] < i

Descends(g, D, stop, base, down, step) ==
  \A i \in D : g[i] = IF i \in stop THEN base[i] ELSE step[i][g[down[i]]]

(* Where down leads to smaller places until it stops, there is such a      *)
(* function, so what is defined as one has the values its equation says.   *)
LEMMA Descent ==
  ASSUME NEW n \in Nat, NEW D, D \subseteq 0..n, NEW V, NEW stop, NEW base, NEW down,
         NEW step, Descending(D, V, stop, base, down, step)
  PROVE  \E g \in [D -> V] : Descends(g, D, stop, base, down, step)
<1> DEFINE Upto(g, m) ==
             \A i \in D : i < m =>
               g[i] = IF i \in stop THEN base[i] ELSE step[i][g[down[i]]]
           T == {m \in Nat : \E g \in [D -> V] : Upto(g, m)}
<1>1. 0 \in T
  <2>1. base \in [D -> V] /\ \A i \in D : ~(i < 0)
    BY DEF Descending
  <2>2. QED
    BY <2>1
<1>2. ASSUME NEW m \in Nat, m \in T
      PROVE  m + 1 \in T
  <2>1. PICK g \in [D -> V] : Upto(g, m)
    BY <1>2
  <2> DEFINE new == IF m \in stop THEN base[m] ELSE step[m][g[down[m]]]
             h == [i \in D |-> IF i = m THEN new ELSE g[i]]
  <2>2. m \in D => new \in V
    BY <2>1 DEF Descending
  <2>3. h \in [D -> V]
    <3> HIDE DEF new
    <3>1. QED
      BY <2>1, <2>2
  <2>4. ASSUME NEW i \in D, i < m + 1
        PROVE  h[i] = IF i \in stop THEN base[i] ELSE step[i][h[down[i]]]
    <3>1. i \notin stop => down[i] \in D /\ down[i] # m /\ h[down[i]] = g[down[i]]
      <4>1. SUFFICES ASSUME i \notin stop PROVE down[i] \in D /\ down[i] # m
        OBVIOUS
      <4>2. down[i] \in D /\ down[i] < i
        BY <4>1 DEF Descending
      <4>3. i \in Nat /\ down[i] \in Nat
        <5>1. \A x \in D : x \in Nat
          OBVIOUS
        <5>2. QED
          BY <4>2, <5>1
      <4>4. QED
        BY <2>4, <4>2, <4>3
    <3>2. CASE i = m
      <4>1. h[i] = new
        BY <3>2
      <4>2. QED
        BY <3>1, <3>2, <4>1
    <3>3. CASE i # m
      <4>1. i < m
        BY <2>4, <3>3
      <4>2. h[i] = g[i] /\ g[i] = IF i \in stop THEN base[i] ELSE step[i][g[down[i]]]
        BY <2>1, <3>3, <4>1
      <4>3. QED
        BY <3>1, <4>2
    <3>4. QED
      BY <3>2, <3>3
  <2>5. Upto(h, m + 1)
    BY <2>4
  <2> HIDE DEF Upto, h
  <2>6. QED
    BY <2>3, <2>5
<1>3. n + 1 \in T
  <2> HIDE DEF T
  <2>1. QED
    BY <1>1, <1>2, Induction
<1>4. PICK g \in [D -> V] : Upto(g, n + 1)
  BY <1>3
<1>5. \A i \in D : i < n + 1
  OBVIOUS
<1>6. QED
  BY <1>4, <1>5 DEF Descends

(* The same for a function that is given by its values at any places of a  *)
(* lower rank: step takes a place and a function, of which it uses those.  *)
Ranked(D, V, rank, step) ==
  /\ step \in [D -> [[D -> V] -> V]]
  /\ \A d \in D, g, h \in [D -> V] :
       (\A c \in D : rank[c] < rank[d] => g[c] = h[c]) => step[d][g] = step[d][h]

LEMMA RankedDescent ==
  ASSUME NEW D, NEW V, V # {}, NEW n \in Nat, NEW rank \in [D -> 0..n],
         NEW step, Ranked(D, V, rank, step)
  PROVE  \E g \in [D -> V] : \A d \in D : g[d] = step[d][g]
<1> DEFINE Upto(g, m) == \A d \in D : rank[d] < m => g[d] = step[d][g]
           T == {m \in Nat : \E g \in [D -> V] : Upto(g, m)}
<1>1. 0 \in T
  <2>1. PICK v \in V : TRUE
    OBVIOUS
  <2>2. [d \in D |-> v] \in [D -> V] /\ \A d \in D : ~(rank[d] < 0)
    OBVIOUS
  <2>3. QED
    BY <2>2
<1>2. ASSUME NEW m \in Nat, m \in T
      PROVE  m + 1 \in T
  <2>1. PICK g \in [D -> V] : Upto(g, m)
    BY <1>2
  <2> DEFINE h == [d \in D |-> step[d][g]]
  <2>2. h \in [D -> V]
    BY DEF Ranked
  <2>3. ASSUME NEW d \in D, rank[d] < m + 1
        PROVE  h[d] = step[d][h]
    <3>1. ASSUME NEW c \in D, rank[c] < rank[d]
          PROVE  g[c] = h[c]
      <4>1. rank[c] < m
        BY <2>3, <3>1
      <4>2. QED
        BY <2>1, <4>1
    <3>2. h[d] = step[d][g]
      OBVIOUS
    <3>3. step[d][g] = step[d][h]
      <4> HIDE DEF h
      <4>1. QED
        BY <2>1, <2>2, <3>1 DEF Ranked
    <3>4. QED
      BY <3>2, <3>3
  <2>4. Upto(h, m + 1)
    BY <2>3
  <2> HIDE DEF Upto, h
  <2>5. QED
    BY <2>2, <2>4
<1>3. n + 1 \in T
  <2> HIDE DEF T
  <2>1. QED
    BY <1>1, <1>2, Induction
<1>4. PICK g \in [D -> V] : Upto(g, n + 1)
  BY <1>3
<1>5. \A d \in D : rank[d] < n + 1
  OBVIOUS
<1>6. QED
  BY <1>4, <1>5

(* What holds of a place if it holds of all of a lower rank holds of each. *)
Hereditary(D, rank, T) ==
  \A d \in D : (\A c \in D : rank[c] < rank[d] => c \in T) => d \in T

LEMMA RankedInduction ==
  ASSUME NEW D, NEW n \in Nat, NEW rank \in [D -> 0..n], NEW T, Hereditary(D, rank, T)
  PROVE  D \subseteq T
<1>1. SUFFICES ASSUME NEW x \in D, x \notin T PROVE FALSE
  OBVIOUS
<1> DEFINE C == {rank[d] : d \in D \ T}
<1>2. C \subseteq Nat /\ C # {}
  BY <1>1
<1>3. PICK m \in C : \A k \in C : m <= k
  <2> HIDE DEF C
  <2>1. QED
    BY <1>2, Least
<1>4. PICK d \in D \ T : rank[d] = m
  BY <1>3
<1>5. ASSUME NEW c \in D, rank[c] < rank[d]
      PROVE  c \in T
  <2>1. SUFFICES ASSUME c \notin T PROVE FALSE
    OBVIOUS
  <2>2. m <= rank[c]
    BY <1>3, <2>1
  <2>3. rank[c] \in Nat /\ m \in Nat
    BY <1>2, <1>3
  <2>4. QED
    BY <1>4, <1>5, <2>2, <2>3
<1>6. QED
  BY <1>4, <1>5 DEF Hereditary

Sequence(s) == s \in Seq(Range(s))

Buffer(b) ==
  /\ b = [kind |-> b.kind, macro |-> b.macro, tokens |-> b.tokens, buf_pos |-> b.buf_pos]
  /\ b.kind \in {"macro", "frozen", "unread"}

Buffers(bs) == Sequence(bs) /\ \A i \in 1..Len(bs) : Buffer(bs[i])

ACall(c) ==
  /\ c = [name |-> c.name, mf |-> c.mf, stage |-> c.stage, nestcnt |-> c.nestcnt,
          args |-> c.args, evald |-> c.evald]
  /\ Sequence(c.args) /\ Sequence(c.evald)

Expanding(fr) == Sequence(fr) /\ \A c \in 1..Len(fr) : ACall(fr[c]) /\ fr[c].stage = "expand"

EntersOnce(bs) ==
  \A i, j \in 1..Len(bs) :
    i # j /\ bs[i].kind = "macro" /\ bs[j].kind = "macro" => bs[i].macro # bs[j].macro

(* pos gives each of the calls fr its frozen buffer: all the frozen        *)
(* buffers, in the order of the calls.  The macro of a call is not among   *)
(* those entered below its frozen buffer, where it will be entered.        *)
Placed(bs, fr, pos) ==
  /\ pos \in [1..Len(fr) -> 1..Len(bs)]
  /\ \A c, d \in 1..Len(fr) : c < d => pos[c] < pos[d]
  /\ \A i \in 1..Len(bs) : bs[i].kind = "frozen" => \E c \in 1..Len(fr) : pos[c] = i
  /\ \A c \in 1..Len(fr) :
       /\ bs[pos[c]].kind = "frozen"
       /\ bs[pos[c]].tokens = fr[c].args[Len(fr[c].evald)]
       /\ \A i \in 1..(pos[c] - 1) : ~(bs[i].kind = "macro" /\ bs[i].macro = fr[c].name)

Fit(bs, fr) ==
  /\ Buffers(bs) /\ Expanding(fr) /\ EntersOnce(bs)
  /\ \E pos \in [1..Len(fr) -> 1..Len(bs)] : Placed(bs, fr, pos)

(* The innermost call still reads its arguments: its macro is not entered. *)
Pending(bs, cs) ==
  /\ Sequence(cs) /\ cs # << >>
  /\ ACall(Last(cs)) /\ Last(cs).stage \in {"paren", "arguments"}
  /\ ~Inside(Last(cs).name, bs)
  /\ Fit(bs, Front(cs))

ExpansionInv == Fit(open_buffers, calls) \/ Pending(open_buffers, calls)

-----------------------------------------------------------------------------
(* Sequences of anything.                                                  *)

LEMMA IsSequence ==
  ASSUME NEW S, NEW s \in Seq(S)
  PROVE  Sequence(s)
BY DEF Sequence, Range

LEMMA Indices ==
  ASSUME NEW s, Sequence(s)
  PROVE  /\ Len(s) \in Nat
         /\ DOMAIN s = 1..Len(s)
         /\ s = [i \in 1..Len(s) |-> s[i]]
         /\ s = << >> <=> Len(s) = 0
BY DEF Sequence

LEMMA Same ==
  ASSUME NEW s, NEW t, Sequence(s), Sequence(t), Len(s) = Len(t),
         \A i \in 1..Len(s) : s[i] = t[i]
  PROVE  s = t
BY Indices

LEMMA Tabulated ==
  ASSUME NEW n \in Nat, NEW s, s = [i \in 1..n |-> s[i]]
  PROVE  Sequence(s) /\ Len(s) = n
<1>1. DOMAIN s = 1..n
  OBVIOUS
<1>2. s \in [1..n -> Range(s)]
  BY <1>1 DEF Range
<1>3. s \in Seq(Range(s)) /\ Len(s) = n
  BY <1>2, SeqDef
<1>4. QED
  BY <1>3 DEF Sequence

LEMMA Appended ==
  ASSUME NEW s, NEW e, Sequence(s)
  PROVE  /\ Sequence(Append(s, e))
         /\ Len(Append(s, e)) = Len(s) + 1
         /\ \A i \in 1..Len(s) : Append(s, e)[i] = s[i]
         /\ Append(s, e)[Len(s) + 1] = e
         /\ Append(s, e) # << >>
         /\ Last(Append(s, e)) = e
<1> DEFINE S == Range(s) \union {e}
<1>1. s \in Seq(S)
  BY SeqMonotonic DEF Sequence
<1>2. e \in S
  OBVIOUS
<1>3. /\ Append(s, e) \in Seq(S)
      /\ Len(Append(s, e)) = Len(s) + 1
      /\ \A i \in 1..Len(s) : Append(s, e)[i] = s[i]
      /\ Append(s, e)[Len(s) + 1] = e
  <2> HIDE DEF S
  <2> QED
    BY <1>1, <1>2
<1>4. Last(Append(s, e)) = e
  BY <1>3 DEF Last
<1>5. Append(s, e) # << >>
  BY <1>3, <1>1
<1>6. Sequence(Append(s, e))
  BY <1>3, IsSequence
<1>7. QED
  BY <1>3, <1>4, <1>5, <1>6

LEMMA Beginning ==
  ASSUME NEW s, NEW n \in Nat, Sequence(s), n <= Len(s)
  PROVE  /\ Sequence(SubSeq(s, 1, n))
         /\ Len(SubSeq(s, 1, n)) = n
         /\ \A i \in 1..n : SubSeq(s, 1, n)[i] = s[i]
<1> DEFINE S == Range(s)
<1>1. s \in Seq(S)
  BY DEF Sequence
<1>2. \A i \in 1..n : s[i] \in S
  BY Indices DEF Range
<1>3. /\ SubSeq(s, 1, n) \in Seq(S)
      /\ Len(SubSeq(s, 1, n)) = IF 1 <= n THEN n - 1 + 1 ELSE 0
      /\ \A i \in 1..(n - 1 + 1) : SubSeq(s, 1, n)[i] = s[1 + i - 1]
  <2> HIDE DEF S
  <2> QED
    BY <1>2, SubSeqProperties
<1>4. Len(SubSeq(s, 1, n)) = n
  BY <1>3
<1>5. \A i \in 1..n : SubSeq(s, 1, n)[i] = s[i]
  BY <1>3
<1>6. Sequence(SubSeq(s, 1, n))
  BY <1>3, IsSequence
<1>7. QED
  BY <1>4, <1>5, <1>6

LEMMA InFront ==
  ASSUME NEW s, Sequence(s), s # << >>
  PROVE  /\ Len(s) \in Nat \ {0}
         /\ Last(s) = s[Len(s)]
         /\ Sequence(Front(s))
         /\ Len(Front(s)) = Len(s) - 1
         /\ \A i \in 1..(Len(s) - 1) : Front(s)[i] = s[i]
<1>1. Len(s) \in Nat \ {0}
  BY Indices
<1>2. Front(s) = SubSeq(s, 1, Len(s) - 1)
  BY DEF Front
<1>3. Len(s) - 1 \in Nat /\ Len(s) - 1 <= Len(s)
  BY <1>1
<1>4. QED
  BY <1>1, <1>2, <1>3, Beginning DEF Last

LEMMA FrontAppended ==
  ASSUME NEW s, NEW e, Sequence(s)
  PROVE  Front(Append(s, e)) = s
<1>1. Sequence(Append(s, e)) /\ Append(s, e) # << >>
  BY Appended
<1>2. /\ Sequence(Front(Append(s, e)))
      /\ Len(Front(Append(s, e))) = Len(Append(s, e)) - 1
      /\ \A i \in 1..(Len(Append(s, e)) - 1) : Front(Append(s, e))[i] = Append(s, e)[i]
  BY <1>1, InFront
<1>3. Len(s) \in Nat /\ Len(Append(s, e)) = Len(s) + 1
      /\ \A i \in 1..Len(s) : Append(s, e)[i] = s[i]
  BY Appended, Indices
<1>4. Len(Front(Append(s, e))) = Len(s)
  BY <1>2, <1>3
<1>5. \A i \in 1..Len(s) : Front(Append(s, e))[i] = s[i]
  BY <1>2, <1>3
<1>6. QED
  BY <1>2, <1>4, <1>5, Same

-----------------------------------------------------------------------------
(* Buffers and the calls that wait for them.                               *)

(* Buffers left from others by pop_buffer and by reading on.               *)
Left(old, new) ==
  /\ Buffers(new) /\ Len(new) <= Len(old)
  /\ \A i \in 1..Len(new) : /\ new[i].kind = old[i].kind
                            /\ new[i].macro = old[i].macro
                            /\ new[i].tokens = old[i].tokens
  /\ \A i \in 1..Len(old) : i > Len(new) => old[i].kind # "frozen"

LEMMA LeftFits ==
  ASSUME NEW old, NEW new, NEW fr, Left(old, new), Fit(old, fr)
  PROVE  Fit(new, fr)
<1>1. PICK pos \in [1..Len(fr) -> 1..Len(old)] : Placed(old, fr, pos)
  BY DEF Fit
<1>2. Len(old) \in Nat /\ Len(new) \in Nat /\ Len(fr) \in Nat
  BY Indices DEF Fit, Left, Buffers, Expanding
<1>3. \A i \in 1..Len(new) : i \in 1..Len(old)
  BY <1>2 DEF Left
<1>4. \A c \in 1..Len(fr) : pos[c] \in 1..Len(new)
  BY <1>1, <1>2 DEF Placed, Left
<1>5. pos \in [1..Len(fr) -> 1..Len(new)]
  BY <1>1, <1>4
<1>6. EntersOnce(new)
  BY <1>3 DEF Fit, EntersOnce, Left
<1>7. \A i \in 1..Len(new) : new[i].kind = "frozen" => \E c \in 1..Len(fr) : pos[c] = i
  BY <1>1, <1>3 DEF Placed, Left
<1>8. ASSUME NEW c \in 1..Len(fr)
      PROVE  /\ new[pos[c]].kind = "frozen"
             /\ new[pos[c]].tokens = fr[c].args[Len(fr[c].evald)]
  BY <1>1, <1>4 DEF Placed, Left
<1>9. ASSUME NEW c \in 1..Len(fr), NEW i \in 1..(pos[c] - 1)
      PROVE  ~(new[i].kind = "macro" /\ new[i].macro = fr[c].name)
  <2>1. i \in 1..Len(new)
    BY <1>2, <1>4
  <2>2. ~(old[i].kind = "macro" /\ old[i].macro = fr[c].name)
    BY <1>1 DEF Placed
  <2>3. QED
    BY <2>1, <2>2 DEF Left
<1>10. Placed(new, fr, pos)
  BY <1>1, <1>5, <1>7, <1>8, <1>9 DEF Placed
<1>11. QED
  BY <1>5, <1>6, <1>10 DEF Fit, Left

LEMMA LeftInside ==
  ASSUME NEW old, NEW new, NEW n, Left(old, new), Buffers(old), Inside(n, new)
  PROVE  Inside(n, old)
<1>1. Len(old) \in Nat /\ Len(new) \in Nat
  BY Indices DEF Left, Buffers
<1>2. \A i \in 1..Len(new) : i \in 1..Len(old)
  BY <1>1 DEF Left
<1>3. QED
  BY <1>2 DEF Inside, Left

LEMMA MoreBuffers ==
  ASSUME NEW bs, NEW b, Buffers(bs), Buffer(b)
  PROVE  /\ Buffers(Append(bs, b))
         /\ Len(bs) \in Nat
         /\ Len(Append(bs, b)) = Len(bs) + 1
         /\ \A i \in 1..Len(bs) : Append(bs, b)[i] = bs[i]
         /\ Append(bs, b)[Len(bs) + 1] = b
         /\ \A i \in 1..Len(Append(bs, b)) : i \in 1..Len(bs) \/ i = Len(bs) + 1
<1>1. Sequence(bs) /\ Len(bs) \in Nat
  BY Indices DEF Buffers
<1>2. /\ Sequence(Append(bs, b))
      /\ Len(Append(bs, b)) = Len(bs) + 1
      /\ \A i \in 1..Len(bs) : Append(bs, b)[i] = bs[i]
      /\ Append(bs, b)[Len(bs) + 1] = b
  BY <1>1, Appended
<1>3. \A i \in 1..Len(Append(bs, b)) : i \in 1..Len(bs) \/ i = Len(bs) + 1
  BY <1>1, <1>2
<1>4. \A i \in 1..Len(Append(bs, b)) : Buffer(Append(bs, b)[i])
  BY <1>2, <1>3 DEF Buffers
<1>5. QED
  BY <1>1, <1>2, <1>3, <1>4 DEF Buffers

LEMMA StillOnce ==
  ASSUME NEW bs, NEW b, Buffers(bs), Buffer(b), EntersOnce(bs),
         b.kind = "macro" => ~Inside(b.macro, bs)
  PROVE  EntersOnce(Append(bs, b))
<1> DEFINE new == Append(bs, b)
<1>1. /\ \A i \in 1..Len(bs) : new[i] = bs[i]
      /\ new[Len(bs) + 1] = b
      /\ \A i \in 1..Len(new) : i \in 1..Len(bs) \/ i = Len(bs) + 1
  BY MoreBuffers
<1> HIDE DEF new
<1>2. SUFFICES ASSUME NEW i \in 1..Len(new), NEW j \in 1..Len(new), i # j,
                      new[i].kind = "macro", new[j].kind = "macro"
               PROVE  new[i].macro # new[j].macro
  BY DEF EntersOnce, new
<1>3. CASE i \in 1..Len(bs) /\ j \in 1..Len(bs)
  BY <1>1, <1>2, <1>3 DEF EntersOnce
<1>4. CASE i \in 1..Len(bs) /\ j = Len(bs) + 1
  BY <1>1, <1>2, <1>4 DEF Inside
<1>5. CASE i = Len(bs) + 1 /\ j \in 1..Len(bs)
  BY <1>1, <1>2, <1>5 DEF Inside
<1>6. QED
  BY <1>1, <1>2, <1>3, <1>4, <1>5

(* A buffer that is not frozen may be opened under any calls.              *)
LEMMA OpenedFits ==
  ASSUME NEW bs, NEW b, NEW fr, Fit(bs, fr), Buffer(b), b.kind # "frozen",
         b.kind = "macro" => ~Inside(b.macro, bs)
  PROVE  Fit(Append(bs, b), fr)
<1> DEFINE new == Append(bs, b)
<1>1. PICK pos \in [1..Len(fr) -> 1..Len(bs)] : Placed(bs, fr, pos)
  BY DEF Fit
<1>2. /\ Buffers(new) /\ Len(bs) \in Nat
      /\ Len(new) = Len(bs) + 1
      /\ \A i \in 1..Len(bs) : new[i] = bs[i]
      /\ new[Len(bs) + 1] = b
      /\ \A i \in 1..Len(new) : i \in 1..Len(bs) \/ i = Len(bs) + 1
  BY MoreBuffers DEF Fit
<1>3. EntersOnce(new)
  BY StillOnce DEF Fit
<1> HIDE DEF new
<1>4. pos \in [1..Len(fr) -> 1..Len(new)]
  BY <1>1, <1>2
<1>5. \A i \in 1..Len(new) : new[i].kind = "frozen" => \E c \in 1..Len(fr) : pos[c] = i
  BY <1>1, <1>2 DEF Placed
<1>6. ASSUME NEW c \in 1..Len(fr)
      PROVE  /\ new[pos[c]].kind = "frozen"
             /\ new[pos[c]].tokens = fr[c].args[Len(fr[c].evald)]
  BY <1>1, <1>2 DEF Placed
<1>7. ASSUME NEW c \in 1..Len(fr), NEW i \in 1..(pos[c] - 1)
      PROVE  ~(new[i].kind = "macro" /\ new[i].macro = fr[c].name)
  <2>1. i \in 1..Len(bs)
    BY <1>1, <1>2
  <2>2. ~(bs[i].kind = "macro" /\ bs[i].macro = fr[c].name)
    BY <1>1 DEF Placed
  <2>3. QED
    BY <1>2, <2>1, <2>2
<1>8. Placed(new, fr, pos)
  BY <1>1, <1>4, <1>5, <1>6, <1>7 DEF Placed
<1>9. Fit(new, fr)
  BY <1>2, <1>3, <1>4, <1>8 DEF Fit
<1>10. QED
  BY <1>9 DEF new

(* A call expands its next argument, in a frozen buffer on top.            *)
LEMMA FrozenFits ==
  ASSUME NEW bs, NEW b, NEW fr, NEW call, Fit(bs, fr), Buffer(b), b.kind = "frozen",
         ACall(call), call.stage = "expand", ~Inside(call.name, bs),
         b.tokens = call.args[Len(call.evald)]
  PROVE  Fit(Append(bs, b), Append(fr, call))
<1> DEFINE new == Append(bs, b)
           fr2 == Append(fr, call)
<1>1. PICK pos \in [1..Len(fr) -> 1..Len(bs)] : Placed(bs, fr, pos)
  BY DEF Fit
<1>2. /\ Buffers(new) /\ Len(bs) \in Nat
      /\ Len(new) = Len(bs) + 1
      /\ \A i \in 1..Len(bs) : new[i] = bs[i]
      /\ new[Len(bs) + 1] = b
      /\ \A i \in 1..Len(new) : i \in 1..Len(bs) \/ i = Len(bs) + 1
  BY MoreBuffers DEF Fit
<1>3. EntersOnce(new)
  BY StillOnce DEF Fit
<1>4. Sequence(fr) /\ Len(fr) \in Nat
  BY Indices DEF Fit, Expanding
<1>5. /\ Sequence(fr2) /\ Len(fr2) = Len(fr) + 1
      /\ \A c \in 1..Len(fr) : fr2[c] = fr[c]
      /\ fr2[Len(fr) + 1] = call
  BY <1>4, Appended
<1> HIDE DEF new, fr2
<1>6. \A c \in 1..Len(fr2) : c \in 1..Len(fr) \/ c = Len(fr) + 1
  BY <1>4, <1>5
<1>7. Expanding(fr2)
  BY <1>5, <1>6 DEF Fit, Expanding
<1> DEFINE pos2 == [c \in 1..Len(fr2) |-> IF c = Len(fr) + 1 THEN Len(bs) + 1 ELSE pos[c]]
<1>8. /\ \A c \in 1..Len(fr) : c \in 1..Len(fr2) /\ pos2[c] = pos[c] /\ pos[c] \in 1..Len(bs)
      /\ Len(fr) + 1 \in 1..Len(fr2) /\ pos2[Len(fr) + 1] = Len(bs) + 1
  BY <1>1, <1>4, <1>5
<1>9. pos2 \in [1..Len(fr2) -> 1..Len(new)]
  BY <1>1, <1>2, <1>4, <1>5, <1>6
<1> HIDE DEF pos2
<1>10. ASSUME NEW c \in 1..Len(fr2), NEW d \in 1..Len(fr2), c < d
       PROVE  pos2[c] < pos2[d]
  <2>1. c \in 1..Len(fr)
    BY <1>4, <1>6, <1>10
  <2>2. CASE d \in 1..Len(fr)
    BY <1>1, <1>8, <1>10, <2>1, <2>2 DEF Placed
  <2>3. CASE d = Len(fr) + 1
    BY <1>2, <1>8, <2>1, <2>3
  <2>4. QED
    BY <1>6, <2>2, <2>3
<1>11. ASSUME NEW i \in 1..Len(new), new[i].kind = "frozen"
       PROVE  \E c \in 1..Len(fr2) : pos2[c] = i
  <2>1. CASE i \in 1..Len(bs)
    <3>1. PICK c \in 1..Len(fr) : pos[c] = i
      BY <1>1, <1>2, <1>11, <2>1 DEF Placed
    <3>2. QED
      BY <1>8, <3>1
  <2>2. CASE i = Len(bs) + 1
    BY <1>8, <2>2
  <2>3. QED
    BY <1>2, <2>1, <2>2
<1>12. ASSUME NEW c \in 1..Len(fr2)
       PROVE  /\ new[pos2[c]].kind = "frozen"
              /\ new[pos2[c]].tokens = fr2[c].args[Len(fr2[c].evald)]
              /\ \A i \in 1..(pos2[c] - 1) :
                   ~(new[i].kind = "macro" /\ new[i].macro = fr2[c].name)
  <2>1. CASE c \in 1..Len(fr)
    <3>1. pos2[c] = pos[c] /\ pos[c] \in 1..Len(bs) /\ fr2[c] = fr[c]
      BY <1>5, <1>8, <2>1
    <3>2. \A i \in 1..(pos[c] - 1) : i \in 1..Len(bs) /\ new[i] = bs[i]
      BY <1>2, <3>1
    <3>3. /\ bs[pos[c]].kind = "frozen"
          /\ bs[pos[c]].tokens = fr[c].args[Len(fr[c].evald)]
          /\ \A i \in 1..(pos[c] - 1) : ~(bs[i].kind = "macro" /\ bs[i].macro = fr[c].name)
      BY <1>1, <2>1 DEF Placed
    <3>4. new[pos[c]] = bs[pos[c]]
      BY <1>2, <3>1
    <3>5. QED
      BY <3>1, <3>2, <3>3, <3>4
  <2>2. CASE c = Len(fr) + 1
    <3>1. pos2[c] = Len(bs) + 1 /\ fr2[c] = call
      BY <1>5, <1>8, <2>2
    <3>2. \A i \in 1..(pos2[c] - 1) : i \in 1..Len(bs)
      BY <1>2, <3>1
    <3>3. \A i \in 1..(pos2[c] - 1) : ~(new[i].kind = "macro" /\ new[i].macro = fr2[c].name)
      BY <1>2, <3>1, <3>2 DEF Inside
    <3>4. QED
      BY <1>2, <3>1, <3>3
  <2>3. QED
    BY <1>6, <2>1, <2>2
<1>13. Placed(new, fr2, pos2)
  BY <1>9, <1>10, <1>11, <1>12 DEF Placed
<1>14. Fit(new, fr2)
  BY <1>2, <1>3, <1>7, <1>9, <1>13 DEF Fit
<1>15. QED
  BY <1>14 DEF new, fr2

(* Where pop_frozen_buffer finds the buffer of the innermost call.         *)
LEMMA LastFrozen ==
  ASSUME NEW bs, NEW fr, NEW pos \in [1..Len(fr) -> 1..Len(bs)],
         Buffers(bs), Sequence(fr), fr # << >>, Placed(bs, fr, pos)
  PROVE  /\ Len(fr) \in Nat \ {0}
         /\ pos[Len(fr)] \in 1..Len(bs)
         /\ \A i \in 1..Len(bs) : bs[i].kind = "frozen" => i <= pos[Len(fr)]
         /\ BelowFrozen(bs) = SubSeq(bs, 1, pos[Len(fr)] - 1)
<1>1. Len(fr) \in Nat \ {0} /\ Len(bs) \in Nat
  BY Indices DEF Buffers
<1>2. Len(fr) \in 1..Len(fr)
  BY <1>1
<1> DEFINE n == pos[Len(fr)]
           frozen == {i \in 1..Len(bs) : bs[i].kind = "frozen"}
           last == CHOOSE i \in frozen : \A j \in frozen : j <= i
<1>3. n \in 1..Len(bs)
  BY <1>2
<1>4. ASSUME NEW i \in 1..Len(bs), bs[i].kind = "frozen"
      PROVE  i <= n
  <2>1. PICK c \in 1..Len(fr) : pos[c] = i
    BY <1>4 DEF Placed
  <2>2. CASE c = Len(fr)
    BY <1>3, <2>1, <2>2
  <2>3. CASE c < Len(fr)
    <3>1. pos[c] < n
      BY <1>2, <2>3 DEF Placed
    <3>2. QED
      BY <1>3, <2>1, <3>1
  <2>4. QED
    BY <1>1, <2>2, <2>3
<1>5. n \in frozen
  BY <1>2, <1>3 DEF Placed
<1>6. \A j \in frozen : j <= n
  BY <1>4
<1>7. \A i \in frozen : i \in Int
  OBVIOUS
<1>8. last = n
  <2> HIDE DEF frozen, n
  <2>1. last \in frozen /\ \A j \in frozen : j <= last
    BY <1>5, <1>6
  <2>2. last <= n /\ n <= last
    BY <1>5, <1>6, <2>1
  <2>3. QED
    BY <1>5, <1>7, <2>1, <2>2
<1>9. BelowFrozen(bs) = SubSeq(bs, 1, last - 1)
  BY DEF BelowFrozen
<1>10. QED
  BY <1>1, <1>3, <1>4, <1>8, <1>9

LEMMA BelowFrozenFits ==
  ASSUME NEW bs, NEW fr, Fit(bs, fr), fr # << >>
  PROVE  /\ Fit(BelowFrozen(bs), Front(fr))
         /\ ~Inside(Last(fr).name, BelowFrozen(bs))
         /\ \A i \in 1..Len(bs) : bs[i].kind = "frozen" => i <= Len(BelowFrozen(bs)) + 1
         /\ Len(BelowFrozen(bs)) < Len(bs)
         /\ \A i \in 1..Len(BelowFrozen(bs)) : BelowFrozen(bs)[i] = bs[i]
<1> DEFINE new == BelowFrozen(bs)
           fr2 == Front(fr)
<1>1. PICK pos \in [1..Len(fr) -> 1..Len(bs)] : Placed(bs, fr, pos)
  BY DEF Fit
<1> DEFINE n == pos[Len(fr)]
<1>2. /\ Len(fr) \in Nat \ {0} /\ n \in 1..Len(bs)
      /\ \A i \in 1..Len(bs) : bs[i].kind = "frozen" => i <= n
      /\ new = SubSeq(bs, 1, n - 1)
  BY <1>1, LastFrozen DEF Fit, Expanding
<1>3. Sequence(bs) /\ Len(bs) \in Nat
  BY Indices DEF Fit, Buffers
<1>4. n - 1 \in Nat /\ n - 1 <= Len(bs) /\ Len(fr) \in 1..Len(fr)
  BY <1>2, <1>3
<1>5. /\ Sequence(new) /\ Len(new) = n - 1
      /\ \A i \in 1..(n - 1) : new[i] = bs[i]
  BY <1>2, <1>3, <1>4, Beginning
<1>6. /\ Last(fr) = fr[Len(fr)] /\ Sequence(fr2)
      /\ Len(fr2) = Len(fr) - 1
      /\ \A c \in 1..(Len(fr) - 1) : fr2[c] = fr[c]
  BY InFront DEF Fit, Expanding
<1>7. ~Inside(Last(fr).name, new)
  <2>1. \A i \in 1..(n - 1) : ~(bs[i].kind = "macro" /\ bs[i].macro = fr[Len(fr)].name)
    BY <1>1, <1>4 DEF Placed
  <2>2. QED
    BY <1>5, <1>6, <2>1 DEF Inside
<1> HIDE DEF new, fr2, n
<1>8. \A i \in 1..Len(new) : i \in 1..Len(bs) /\ new[i] = bs[i] /\ i < n
  BY <1>2, <1>3, <1>5
<1>9. \A c \in 1..Len(fr2) : /\ c \in 1..Len(fr) /\ fr2[c] = fr[c] /\ c < Len(fr)
                              /\ Len(fr) \in 1..Len(fr)
  BY <1>2, <1>4, <1>6
<1>10. Buffers(new) /\ EntersOnce(new) /\ Expanding(fr2)
  <2>1. Buffers(new)
    BY <1>5, <1>8 DEF Fit, Buffers
  <2>2. EntersOnce(new)
    BY <1>8 DEF Fit, EntersOnce
  <2>3. Expanding(fr2)
    BY <1>6, <1>9 DEF Fit, Expanding
  <2>4. QED
    BY <2>1, <2>2, <2>3
<1>11. \A c \in 1..Len(fr2) : pos[c] < n /\ pos[c] \in 1..Len(bs)
  BY <1>1, <1>9 DEF Placed, n
<1>12. \A c \in 1..Len(fr2) : pos[c] \in 1..Len(new)
  BY <1>2, <1>3, <1>5, <1>11
<1> DEFINE pos2 == [c \in 1..Len(fr2) |-> pos[c]]
<1>13. pos2 \in [1..Len(fr2) -> 1..Len(new)] /\ \A c \in 1..Len(fr2) : pos2[c] = pos[c]
  BY <1>12
<1> HIDE DEF pos2
<1>14. \A c, d \in 1..Len(fr2) : c < d => pos2[c] < pos2[d]
  BY <1>1, <1>9, <1>13 DEF Placed
<1>15. ASSUME NEW i \in 1..Len(new), new[i].kind = "frozen"
       PROVE  \E c \in 1..Len(fr2) : pos2[c] = i
  <2>1. PICK c \in 1..Len(fr) : pos[c] = i
    BY <1>1, <1>8, <1>15 DEF Placed
  <2>2. c # Len(fr)
    BY <1>8, <1>2, <2>1 DEF n
  <2>3. c \in 1..Len(fr2)
    BY <1>2, <1>6, <2>2
  <2>4. QED
    BY <1>13, <2>1, <2>3
<1>16. ASSUME NEW c \in 1..Len(fr2)
       PROVE  /\ new[pos2[c]].kind = "frozen"
              /\ new[pos2[c]].tokens = fr2[c].args[Len(fr2[c].evald)]
              /\ \A i \in 1..(pos2[c] - 1) :
                   ~(new[i].kind = "macro" /\ new[i].macro = fr2[c].name)
  <2>1. /\ pos2[c] = pos[c] /\ pos[c] \in 1..Len(new) /\ fr2[c] = fr[c] /\ c \in 1..Len(fr)
        /\ new[pos[c]] = bs[pos[c]]
    BY <1>8, <1>9, <1>12, <1>13
  <2>2. \A i \in 1..(pos[c] - 1) : i \in 1..Len(new) /\ new[i] = bs[i]
    <3>1. \A i \in 1..(pos[c] - 1) : i \in 1..Len(new)
      BY <1>2, <1>5, <2>1
    <3>2. QED
      BY <1>8, <3>1
  <2>3. /\ bs[pos[c]].kind = "frozen"
        /\ bs[pos[c]].tokens = fr[c].args[Len(fr[c].evald)]
        /\ \A i \in 1..(pos[c] - 1) : ~(bs[i].kind = "macro" /\ bs[i].macro = fr[c].name)
    BY <1>1, <2>1 DEF Placed
  <2>4. QED
    BY <2>1, <2>2, <2>3
<1>17. Placed(new, fr2, pos2)
  BY <1>13, <1>14, <1>15, <1>16 DEF Placed
<1>18. Fit(new, fr2)
  BY <1>10, <1>13, <1>17 DEF Fit
<1>19. /\ \A i \in 1..Len(bs) : bs[i].kind = "frozen" => i <= Len(new) + 1
       /\ Len(new) < Len(bs)
  BY <1>2, <1>3, <1>5
<1>20. QED
  BY <1>7, <1>8, <1>18, <1>19 DEF new, fr2

(* A token more of the argument that the innermost call expands.           *)
LEMMA RevisedFits ==
  ASSUME NEW bs, NEW fr, NEW call, Fit(bs, fr), fr # << >>,
         ACall(call), call.stage = "expand", call.name = Last(fr).name,
         call.args = Last(fr).args, Len(call.evald) = Len(Last(fr).evald)
  PROVE  Fit(bs, Append(Front(fr), call))
<1> DEFINE fr2 == Append(Front(fr), call)
<1>1. PICK pos \in [1..Len(fr) -> 1..Len(bs)] : Placed(bs, fr, pos)
  BY DEF Fit
<1>2. /\ Len(fr) \in Nat \ {0} /\ Last(fr) = fr[Len(fr)]
      /\ Sequence(Front(fr)) /\ Len(Front(fr)) = Len(fr) - 1
      /\ \A c \in 1..(Len(fr) - 1) : Front(fr)[c] = fr[c]
  BY InFront DEF Fit, Expanding
<1>3. /\ Sequence(fr2) /\ Len(fr2) = Len(Front(fr)) + 1
      /\ \A c \in 1..Len(Front(fr)) : fr2[c] = Front(fr)[c]
      /\ fr2[Len(Front(fr)) + 1] = call
  BY <1>2, Appended
<1> HIDE DEF fr2
<1>4. Len(fr2) = Len(fr) /\ fr2[Len(fr)] = call
  BY <1>2, <1>3
<1>5. \A c \in 1..Len(fr) : c # Len(fr) => fr2[c] = fr[c]
  BY <1>2, <1>3
<1>6. Expanding(fr2)
  BY <1>3, <1>4, <1>5 DEF Fit, Expanding
<1>7. \A c \in 1..Len(fr) : /\ fr2[c].name = fr[c].name
                            /\ fr2[c].args[Len(fr2[c].evald)] = fr[c].args[Len(fr[c].evald)]
  BY <1>2, <1>4, <1>5
<1>8. Placed(bs, fr2, pos)
  BY <1>1, <1>4, <1>7 DEF Placed
<1>9. Fit(bs, fr2)
  BY <1>4, <1>6, <1>8 DEF Fit
<1>10. QED
  BY <1>9 DEF fr2

-----------------------------------------------------------------------------
(* What the handlers do with the buffers.                                  *)

(* What is below a frozen buffer stays as it is.                           *)
Keeps(old, new) ==
  \A i \in 1..Len(old) : old[i].kind = "frozen" =>
    \A j \in 1..(i - 1) : j \in 1..Len(new) /\ new[j] = old[j]

Grown(old, new) == \A j \in 1..Len(old) : j \in 1..Len(new) /\ new[j] = old[j]

LEMMA GrownKeeps ==
  ASSUME NEW old, NEW new, Grown(old, new), Len(old) \in Nat
  PROVE  Keeps(old, new)
<1>1. \A i \in 1..Len(old) : \A j \in 1..(i - 1) : j \in 1..Len(old)
  OBVIOUS
<1>2. QED
  BY <1>1 DEF Grown, Keeps

LEMMA BufferOpened ==
  ASSUME NEW kind \in {"macro", "frozen", "unread"}, NEW macro, NEW tokens
  PROVE  /\ Buffer(OpenBuffer(kind, macro, tokens))
         /\ OpenBuffer(kind, macro, tokens).kind = kind
         /\ OpenBuffer(kind, macro, tokens).macro = macro
         /\ OpenBuffer(kind, macro, tokens).tokens = tokens
BY DEF Buffer, OpenBuffer

LEMMA NoTokens ==
  /\ Sequence(<< >>) /\ Len(<< >>) = 0
  /\ Sequence(<< << >> >>)
<1>1. Sequence(<< >>) /\ Len(<< >>) = 0
  BY IsSequence, EmptySeq
<1>2. Sequence(Append(<< >>, << >>))
  BY <1>1, Appended
<1>3. Append(<< >>, << >>) = << << >> >>
  OBVIOUS
<1>4. QED
  BY <1>1, <1>2, <1>3

LEMMA AfterLeft ==
  ASSUME NEW k \in 0..Len(open_buffers), Buffers(open_buffers), Settled(k)
  PROVE  /\ Left(open_buffers, After(k))
         /\ Len(After(k)) = k
         /\ \A i \in 1..Len(open_buffers) : open_buffers[i].kind = "frozen" =>
              /\ i \in 1..k
              /\ After(k)[i].kind = "frozen"
              /\ \A j \in 1..(i - 1) : j \in 1..k /\ After(k)[j] = open_buffers[j]
<1>1. Len(open_buffers) \in Nat /\ k \in Nat /\ k <= Len(open_buffers)
  BY Indices DEF Buffers
<1> DEFINE new == After(k)
<1>2. /\ new = [i \in 1..k |-> new[i]]
      /\ \A i \in 1..k : new[i] = IF i = k /\ ~Exhausted(open_buffers[k])
                                  THEN [open_buffers[k] EXCEPT !.buf_pos = @ + 1]
                                  ELSE open_buffers[i]
  BY DEF After
<1>3. Sequence(new) /\ Len(new) = k
  <2> HIDE DEF new
  <2> QED
    BY <1>1, <1>2, Tabulated
<1>4. \A i \in 1..k : i \in 1..Len(open_buffers) /\ Buffer(open_buffers[i])
  BY <1>1 DEF Buffers
<1>5. ASSUME NEW i \in 1..k
      PROVE  /\ Buffer(new[i])
             /\ new[i].kind = open_buffers[i].kind
             /\ new[i].macro = open_buffers[i].macro
             /\ new[i].tokens = open_buffers[i].tokens
  <2>1. CASE i = k /\ ~Exhausted(open_buffers[k])
    <3>1. new[i] = [open_buffers[i] EXCEPT !.buf_pos = @ + 1]
      BY <1>2, <2>1
    <3>2. QED
      BY <1>4, <3>1 DEF Buffer
  <2>2. CASE ~(i = k /\ ~Exhausted(open_buffers[k]))
    <3>1. new[i] = open_buffers[i]
      BY <1>2, <2>2
    <3>2. QED
      BY <1>4, <3>1
  <2>3. QED
    BY <2>1, <2>2
<1>6. \A i \in 1..Len(open_buffers) : i > k => open_buffers[i].kind # "frozen"
  BY <1>1 DEF Settled, Poppable
<1>7. Left(open_buffers, new)
  BY <1>1, <1>3, <1>5, <1>6 DEF Left, Buffers
<1>8. ASSUME NEW i \in 1..Len(open_buffers), open_buffers[i].kind = "frozen"
      PROVE  /\ i \in 1..k
             /\ new[i].kind = "frozen"
             /\ \A j \in 1..(i - 1) : j \in 1..k /\ new[j] = open_buffers[j]
  <2>1. i \in 1..k
    BY <1>1, <1>6, <1>8
  <2>2. \A j \in 1..(i - 1) : j \in 1..k /\ j # k
    BY <1>1, <2>1
  <2>3. \A j \in 1..(i - 1) : new[j] = open_buffers[j]
    BY <1>2, <2>2
  <2>4. QED
    BY <1>5, <1>8, <2>1, <2>2, <2>3
<1>9. QED
  BY <1>3, <1>7, <1>8

LEMMA ExpandFits ==
  ASSUME NEW call, NEW buffers, NEW frames, Fit(buffers, frames), ACall(call),
         ~Inside(call.name, buffers), Expand(call, buffers, frames)
  PROVE  Fit(open_buffers', calls') /\ Grown(buffers, open_buffers')
<1> DEFINE next == Len(call.evald) + 1
<1>1. CASE next <= Len(call.args)
  <2> DEFINE b == OpenBuffer("frozen", call.name, call.args[next])
             call2 == [call EXCEPT !.stage = "expand", !.evald = Append(@, << >>)]
  <2>1. open_buffers' = Append(buffers, b) /\ calls' = Append(frames, call2)
    BY <1>1 DEF Expand
  <2>2. Buffer(b) /\ b.kind = "frozen" /\ b.tokens = call.args[next]
    BY BufferOpened
  <2>3. Sequence(call.evald) /\ Sequence(call.args)
    BY DEF ACall
  <2> DEFINE more == Append(call.evald, << >>)
  <2>4. Sequence(more) /\ Len(more) = next
    BY <2>3, Appended
  <2>5. /\ ACall(call2) /\ call2.stage = "expand" /\ call2.name = call.name
        /\ call2.args = call.args /\ call2.evald = more
    <3>1. call2 = [call EXCEPT !.stage = "expand", !.evald = more]
      OBVIOUS
    <3> HIDE DEF more, call2
    <3>2. call2 = [name |-> call.name, mf |-> call.mf, stage |-> "expand",
                   nestcnt |-> call.nestcnt, args |-> call.args, evald |-> more]
      BY <3>1 DEF ACall
    <3>3. QED
      BY <2>3, <2>4, <3>2 DEF ACall
  <2>6. b.tokens = call2.args[Len(call2.evald)] /\ ~Inside(call2.name, buffers)
    BY <2>2, <2>4, <2>5
  <2> HIDE DEF b, call2, more
  <2>7. Fit(Append(buffers, b), Append(frames, call2))
    BY <2>2, <2>5, <2>6, FrozenFits
  <2>8. Grown(buffers, Append(buffers, b))
    BY <2>2, MoreBuffers DEF Grown, Fit
  <2>9. QED
    BY <2>1, <2>7, <2>8
<1>2. CASE ~(next <= Len(call.args))
  <2> DEFINE b == OpenBuffer("macro", call.name, Substituted(call.mf, call.args, call.evald))
  <2>1. open_buffers' = Append(buffers, b) /\ calls' = frames
    BY <1>2 DEF Expand
  <2>2. Buffer(b) /\ b.kind = "macro" /\ b.macro = call.name
    BY BufferOpened
  <2> HIDE DEF b
  <2>3. Fit(Append(buffers, b), frames)
    BY <2>2, OpenedFits
  <2>4. Grown(buffers, Append(buffers, b))
    BY <2>2, MoreBuffers DEF Grown, Fit
  <2>5. QED
    BY <2>1, <2>3, <2>4
<1>3. QED
  BY <1>1, <1>2

LEMMA ReturnFits ==
  ASSUME NEW t, NEW buffers, NEW frames, Fit(buffers, frames), Return(t, buffers, frames)
  PROVE  Fit(open_buffers', calls') /\ Keeps(buffers, open_buffers')
<1>1. Len(buffers) \in Nat
  BY Indices DEF Fit, Buffers
<1>2. Grown(buffers, buffers)
  BY DEF Grown
<1>3. CASE frames = << >>
  BY <1>1, <1>2, <1>3, GrownKeeps DEF Return
<1>4. CASE frames # << >> /\ t = TT_ENDOFCODE
  <2> DEFINE call == Last(frames)
             below == BelowFrozen(buffers)
  <2>1. Expand(call, below, Front(frames))
    BY <1>4 DEF Return
  <2>2. /\ Fit(below, Front(frames)) /\ ~Inside(call.name, below)
        /\ \A i \in 1..Len(buffers) : buffers[i].kind = "frozen" => i <= Len(below) + 1
        /\ \A i \in 1..Len(below) : below[i] = buffers[i]
    BY <1>4, BelowFrozenFits
  <2>3. ACall(call)
    <3>1. Sequence(frames)
      BY DEF Fit, Expanding
    <3>2. Len(frames) \in 1..Len(frames) /\ call = frames[Len(frames)]
      BY <1>4, <3>1, InFront
    <3>3. QED
      BY <3>2 DEF Fit, Expanding
  <2> HIDE DEF call, below
  <2>4. Fit(open_buffers', calls') /\ Grown(below, open_buffers')
    BY <2>1, <2>2, <2>3, ExpandFits
  <2>5. Len(below) \in Nat
    BY <2>2, Indices DEF Fit, Buffers
  <2>6. \A i \in 1..Len(buffers) : buffers[i].kind = "frozen" =>
          \A j \in 1..(i - 1) : j \in 1..Len(below)
    BY <1>1, <2>2, <2>5
  <2>7. Keeps(buffers, open_buffers')
    BY <2>2, <2>4, <2>6 DEF Keeps, Grown
  <2>8. QED
    BY <2>4, <2>7
<1>5. CASE frames # << >> /\ t # TT_ENDOFCODE
  <2> DEFINE call == Last(frames)
             longer == [call.evald EXCEPT ![Len(call.evald)] = Append(@, t)]
             call2 == [call EXCEPT !.evald = longer]
  <2>1. open_buffers' = buffers /\ calls' = Append(Front(frames), call2)
    BY <1>5 DEF Return
  <2>2. ACall(call) /\ call.stage = "expand"
    <3>1. Sequence(frames)
      BY DEF Fit, Expanding
    <3>2. Len(frames) \in 1..Len(frames) /\ call = frames[Len(frames)]
      BY <1>5, <3>1, InFront
    <3>3. QED
      BY <3>2 DEF Fit, Expanding
  <2>3. Len(call.evald) \in Nat /\ call.evald = [i \in 1..Len(call.evald) |-> call.evald[i]]
    BY <2>2, Indices DEF ACall
  <2>4. longer = [i \in 1..Len(call.evald) |-> longer[i]]
    BY <2>3
  <2>5. Sequence(longer) /\ Len(longer) = Len(call.evald)
    <3> HIDE DEF longer
    <3> QED
      BY <2>3, <2>4, Tabulated
  <2> HIDE DEF longer
  <2>6. /\ ACall(call2) /\ call2.stage = "expand" /\ call2.name = call.name
        /\ call2.args = call.args /\ call2.evald = longer
    BY <2>2, <2>5 DEF ACall
  <2> HIDE DEF call2
  <2>7. Fit(buffers, Append(Front(frames), call2))
    BY <1>5, <2>5, <2>6, RevisedFits
  <2>8. QED
    BY <1>1, <1>2, <2>1, <2>7, GrownKeeps
<1>6. QED
  BY <1>3, <1>4, <1>5

-----------------------------------------------------------------------------
(* The steps.                                                              *)

LEMMA ReadFurther ==
  ASSUME NEW k \in 0..Len(open_buffers), NEW fr, Fit(open_buffers, fr), Settled(k)
  PROVE  /\ Fit(After(k), fr)
         /\ \A n : Inside(n, After(k)) => Inside(n, open_buffers)
         /\ Len(open_buffers) \in Nat
<1>1. Left(open_buffers, After(k)) /\ Buffers(open_buffers)
  BY AfterLeft DEF Fit
<1>2. QED
  BY <1>1, LeftFits, LeftInside, Indices DEF Buffers

LEMMA KeepsAfter ==
  ASSUME NEW k \in 0..Len(open_buffers), Buffers(open_buffers), Settled(k),
         Keeps(After(k), open_buffers')
  PROVE  Keeps(open_buffers, open_buffers')
<1>1. SUFFICES ASSUME NEW i \in 1..Len(open_buffers), open_buffers[i].kind = "frozen",
                      NEW j \in 1..(i - 1)
               PROVE  j \in 1..Len(open_buffers') /\ open_buffers'[j] = open_buffers[j]
  BY DEF Keeps
<1>2. /\ Len(After(k)) = k /\ i \in 1..k /\ After(k)[i].kind = "frozen"
      /\ After(k)[j] = open_buffers[j]
  BY <1>1, AfterLeft
<1>3. j \in 1..Len(open_buffers') /\ open_buffers'[j] = After(k)[j]
  BY <1>1, <1>2 DEF Keeps
<1>4. QED
  BY <1>2, <1>3

(* When pop_buffer could remove all buffers, no argument is expanded.      *)
LEMMA NoneFrozen ==
  ASSUME NEW fr, Fit(open_buffers, fr), Settled(0)
  PROVE  Fit(<< >>, fr) /\ \A new : Keeps(open_buffers, new)
<1>1. Len(open_buffers) \in Nat
  BY Indices DEF Fit, Buffers
<1>2. \A i \in 1..Len(open_buffers) : open_buffers[i].kind # "frozen"
  BY <1>1 DEF Settled, Poppable
<1>3. Left(open_buffers, << >>)
  BY <1>1, <1>2, NoTokens DEF Left, Buffers
<1>4. QED
  BY <1>2, <1>3, LeftFits DEF Keeps

LEMMA PreprocessingFits ==
  ASSUME ExpansionInv, Preprocessing
  PROVE  Fit(open_buffers, calls)
BY DEF ExpansionInv, Pending, Preprocessing

LEMMA CallingPending ==
  ASSUME ExpansionInv, NEW stage \in {"paren", "arguments"}, Calling(stage)
  PROVE  Pending(open_buffers, calls)
<1>1. CASE Fit(open_buffers, calls)
  <2>1. Sequence(calls) /\ calls # << >>
    BY <1>1 DEF Fit, Expanding, Calling
  <2>2. Len(calls) \in 1..Len(calls) /\ Last(calls) = calls[Len(calls)]
    BY <2>1, InFront
  <2>3. Last(calls).stage = "expand"
    BY <1>1, <2>2 DEF Fit, Expanding
  <2>4. QED
    BY <2>3 DEF Calling
<1>2. QED
  BY <1>1 DEF ExpansionInv

LEMMA EnterMacroStep ==
  ASSUME NEW t, NEW buffers, Fit(buffers, calls), EnterMacro(t, buffers)
  PROVE  Fit(open_buffers', calls') /\ Keeps(buffers, open_buffers')
<1>1. Len(buffers) \in Nat
  BY Indices DEF Fit, Buffers
<1>2. calls' = calls /\ ~Inside(t, buffers)
  BY DEF EnterMacro, MayEnter
<1>3. CASE macros[t].value = << >>
  <2>1. open_buffers' = buffers
    BY <1>3 DEF EnterMacro
  <2>2. Grown(buffers, open_buffers')
    BY <2>1 DEF Grown
  <2>3. QED
    BY <1>1, <1>2, <2>1, <2>2, GrownKeeps
<1>4. CASE macros[t].value # << >>
  <2> DEFINE b == OpenBuffer("macro", t, Substituted(macros[t], << >>, << >>))
  <2>1. open_buffers' = Append(buffers, b)
    BY <1>4 DEF EnterMacro
  <2>2. Buffer(b) /\ b.kind = "macro" /\ b.macro = t
    BY BufferOpened
  <2> HIDE DEF b
  <2>3. Fit(Append(buffers, b), calls)
    BY <1>2, <2>2, OpenedFits
  <2>4. Grown(buffers, open_buffers')
    BY <2>1, <2>2, MoreBuffers DEF Grown, Fit
  <2>5. QED
    BY <1>1, <1>2, <2>1, <2>3, <2>4, GrownKeeps
<1>5. QED
  BY <1>3, <1>4

LEMMA CallMacroStep ==
  ASSUME NEW t, NEW buffers, Fit(buffers, calls), CallMacro(t, buffers)
  PROVE  Pending(open_buffers', calls') /\ Keeps(buffers, open_buffers')
<1> DEFINE call == Call(t, macros[t])
<1>1. open_buffers' = buffers /\ calls' = Append(calls, call) /\ ~Inside(t, buffers)
  BY DEF CallMacro
<1>2. ACall(call) /\ call.stage = "paren" /\ call.name = t
  BY NoTokens DEF ACall, Call
<1> HIDE DEF call
<1>3. Sequence(calls)
  BY DEF Fit, Expanding
<1>4. /\ Sequence(calls') /\ calls' # << >> /\ Last(calls') = call
      /\ Front(calls') = calls
  BY <1>1, <1>3, Appended, FrontAppended
<1>5. Pending(open_buffers', calls')
  BY <1>1, <1>2, <1>4 DEF Pending
<1>6. Len(buffers) \in Nat
  BY Indices DEF Fit, Buffers
<1>7. Grown(buffers, open_buffers')
  BY <1>1 DEF Grown
<1>8. QED
  BY <1>5, <1>6, <1>7, GrownKeeps

LEMMA PreprocessStep ==
  ASSUME ExpansionInv, Preprocess
  PROVE  ExpansionInv' /\ Keeps(open_buffers, open_buffers')
<1>1. Fit(open_buffers, calls)
  BY PreprocessingFits DEF Preprocess
<1>k. PICK k \in 0..Len(open_buffers) : \E t \in Readable(k) :
        /\ Settled(k)
        /\ EnterMacro(t, After(k)) \/ CallMacro(t, After(k)) \/ Leave(t, After(k))
  BY DEF Preprocess
<1>2. PICK t \in Readable(k) :
        /\ Settled(k)
        /\ EnterMacro(t, After(k)) \/ CallMacro(t, After(k)) \/ Leave(t, After(k))
  BY <1>k
<1>3. Fit(After(k), calls) /\ Buffers(open_buffers)
  BY <1>1, <1>2, ReadFurther DEF Fit
<1>4. CASE EnterMacro(t, After(k))
  BY <1>2, <1>3, <1>4, EnterMacroStep, KeepsAfter DEF ExpansionInv
<1>5. CASE CallMacro(t, After(k))
  BY <1>2, <1>3, <1>5, CallMacroStep, KeepsAfter DEF ExpansionInv
<1>6. CASE Leave(t, After(k))
  <2>1. Return(t, After(k), calls)
    BY <1>6 DEF Leave
  <2>2. QED
    BY <1>2, <1>3, <2>1, ReturnFits, KeepsAfter DEF ExpansionInv
<1>7. QED
  BY <1>2, <1>4, <1>5, <1>6

LEMMA DirectiveStep ==
  ASSUME ExpansionInv, Directive
  PROVE  ExpansionInv' /\ Keeps(open_buffers, open_buffers')
<1>1. Fit(open_buffers, calls) /\ Settled(0)
  BY PreprocessingFits DEF Directive
<1>2. open_buffers' = << >> /\ calls' = calls
  BY DEF Directive
<1>3. Fit(open_buffers', calls')
  BY <1>1, <1>2, NoneFrozen
<1>4. QED
  BY <1>1, <1>3, NoneFrozen DEF ExpansionInv

LEMMA EndOfFileStep ==
  ASSUME ExpansionInv, EndOfFile
  PROVE  ExpansionInv' /\ Keeps(open_buffers, open_buffers')
<1>1. Fit(open_buffers, calls) /\ Settled(0)
  BY PreprocessingFits DEF EndOfFile
<1>2. Fit(<< >>, calls) /\ Keeps(open_buffers, open_buffers')
  BY <1>1, NoneFrozen
<1>3. CASE files > 0
  <2>1. open_buffers' = << >> /\ calls' = calls
    BY <1>3 DEF EndOfFile
  <2>2. QED
    BY <1>2, <2>1 DEF ExpansionInv
<1>4. CASE ~(files > 0)
  <2>1. Return(TT_ENDOFCODE, << >>, calls)
    BY <1>4 DEF EndOfFile
  <2>2. QED
    BY <1>2, <2>1, ReturnFits DEF ExpansionInv
<1>5. QED
  BY <1>3, <1>4

(* The innermost call reads on, as call.                                   *)
LEMMA StillPending ==
  ASSUME NEW buffers, NEW call, Pending(open_buffers, calls), Fit(buffers, Front(calls)),
         ~Inside(Last(calls).name, buffers),
         ACall(call), call.stage \in {"paren", "arguments"}, call.name = Last(calls).name,
         open_buffers' = buffers, calls' = Append(Front(calls), call)
  PROVE  Pending(open_buffers', calls')
<1>1. Sequence(Front(calls))
  BY DEF Fit, Expanding
<1>2. /\ Sequence(calls') /\ calls' # << >> /\ Last(calls') = call
      /\ Front(calls') = Front(calls)
  BY <1>1, Appended, FrontAppended
<1>3. QED
  BY <1>2 DEF Pending

LEMMA FindParenthesisStep ==
  ASSUME ExpansionInv, FindParenthesis
  PROVE  ExpansionInv' /\ Keeps(open_buffers, open_buffers')
<1>1. Pending(open_buffers, calls)
  BY CallingPending DEF FindParenthesis
<1> DEFINE call == [Last(calls) EXCEPT !.stage = "arguments"]
<1>k. PICK k \in 0..Len(open_buffers) : \E t \in Readable(k) :
        /\ Settled(k)
        /\ IF t = "("
           THEN calls' = Append(Front(calls), call) /\ open_buffers' = After(k)
           ELSE Return(Last(calls).name, Append(After(k), Unread(t)), Front(calls))
  BY DEF FindParenthesis
<1>2. PICK t \in Readable(k) :
        /\ Settled(k)
        /\ IF t = "("
           THEN calls' = Append(Front(calls), call) /\ open_buffers' = After(k)
           ELSE Return(Last(calls).name, Append(After(k), Unread(t)), Front(calls))
  BY <1>k
<1>3. /\ Fit(open_buffers, Front(calls)) /\ Buffers(open_buffers)
      /\ ~Inside(Last(calls).name, open_buffers) /\ ACall(Last(calls))
  BY <1>1 DEF Pending, Fit
<1>4. Fit(After(k), Front(calls)) /\ ~Inside(Last(calls).name, After(k))
  BY <1>2, <1>3, ReadFurther
<1>5. Len(After(k)) \in Nat
  BY <1>4, Indices DEF Fit, Buffers
<1>6. CASE t = "("
  <2>1. calls' = Append(Front(calls), call) /\ open_buffers' = After(k)
    BY <1>2, <1>6
  <2>2. ACall(call) /\ call.stage = "arguments" /\ call.name = Last(calls).name
    BY <1>3 DEF ACall
  <2> HIDE DEF call
  <2>3. Pending(open_buffers', calls')
    BY <1>1, <1>4, <2>1, <2>2, StillPending
  <2>4. Grown(After(k), open_buffers')
    BY <2>1 DEF Grown
  <2>5. QED
    BY <1>2, <1>3, <1>5, <2>3, <2>4, GrownKeeps, KeepsAfter DEF ExpansionInv
<1>7. CASE t # "("
  <2> DEFINE buffers == Append(After(k), Unread(t))
  <2>1. Return(Last(calls).name, buffers, Front(calls))
    BY <1>2, <1>7
  <2>2. Buffer(Unread(t)) /\ Unread(t).kind = "unread"
    BY BufferOpened DEF Unread
  <2>3. Fit(buffers, Front(calls))
    BY <1>4, <2>2, OpenedFits
  <2>4. Buffers(After(k)) /\ Grown(After(k), buffers)
    BY <1>4, <2>2, MoreBuffers DEF Fit, Grown
  <2> HIDE DEF buffers
  <2>5. Fit(open_buffers', calls') /\ Keeps(buffers, open_buffers')
    BY <2>1, <2>3, ReturnFits
  <2>6. Keeps(After(k), open_buffers')
    <3>1. \A i \in 1..Len(After(k)) : \A j \in 1..(i - 1) : j \in 1..Len(After(k))
      BY <1>5
    <3>2. QED
      BY <2>4, <2>5, <3>1 DEF Keeps, Grown
  <2>7. QED
    BY <1>2, <1>3, <2>5, <2>6, KeepsAfter DEF ExpansionInv
<1>8. QED
  BY <1>6, <1>7

LEMMA TokenAdded ==
  ASSUME NEW args, NEW t, Sequence(args)
  PROVE  Sequence(WithToken(args, t))
<1>1. CASE args = << >>
  <2>1. Sequence(Append(<< >>, <<t>>))
    BY NoTokens, Appended
  <2>2. Append(<< >>, <<t>>) = << <<t>> >>
    OBVIOUS
  <2>3. QED
    BY <1>1, <2>1, <2>2 DEF WithToken
<1>2. CASE args # << >>
  <2> DEFINE more == [args EXCEPT ![Len(args)] = Append(@, t)]
  <2>1. Len(args) \in Nat /\ args = [i \in 1..Len(args) |-> args[i]]
    BY Indices
  <2>2. more = [i \in 1..Len(args) |-> more[i]]
    BY <2>1
  <2>3. Sequence(more)
    <3> HIDE DEF more
    <3> QED
      BY <2>1, <2>2, Tabulated
  <2>4. QED
    BY <1>2, <2>3 DEF WithToken
<1>3. QED
  BY <1>1, <1>2

Changed(call, args, nest) == [call EXCEPT !.args = args, !.nestcnt = nest]

LEMMA ArgumentsChanged ==
  ASSUME NEW call, NEW args, NEW nest, NEW new, ACall(call), Sequence(args),
         new = Changed(call, args, nest)
  PROVE  ACall(new) /\ new.stage = call.stage /\ new.name = call.name
<1> DEFINE r == [call EXCEPT !.args = args]
<1>1. r = [name |-> call.name, mf |-> call.mf, stage |-> call.stage,
           nestcnt |-> call.nestcnt, args |-> args, evald |-> call.evald]
  BY DEF ACall
<1>2. new = [r EXCEPT !.nestcnt = nest]
  BY DEF Changed
<1> HIDE DEF r
<1>3. new = [name |-> call.name, mf |-> call.mf, stage |-> call.stage,
             nestcnt |-> nest, args |-> args, evald |-> call.evald]
  BY <1>1, <1>2
<1>4. Sequence(call.evald)
  BY DEF ACall
<1>5. QED
  BY <1>3, <1>4 DEF ACall

LEMMA ArgumentAdded ==
  ASSUME NEW call, NEW t, ACall(call), call.stage = "arguments"
  PROVE  /\ ACall(WithArgument(call, t)) /\ WithArgument(call, t).stage = "arguments"
         /\ WithArgument(call, t).name = call.name
<1>1. Sequence(call.args) /\ Sequence(call.evald)
  BY DEF ACall
<1>2. CASE t = "," /\ call.nestcnt = 1 /\ Len(call.args) < Len(call.mf.params)
  <2> DEFINE more == Append(call.args, << >>)
  <2>1. WithArgument(call, t) = [call EXCEPT !.args = more]
    BY <1>2 DEF WithArgument
  <2>2. Sequence(more)
    BY <1>1, Appended
  <2> HIDE DEF more
  <2>3. QED
    BY <1>1, <2>1, <2>2 DEF ACall
<1>3. CASE ~(t = "," /\ call.nestcnt = 1 /\ Len(call.args) < Len(call.mf.params))
  <2> DEFINE more == WithToken(call.args, t)
             nest == IF t = "(" THEN call.nestcnt + 1
                     ELSE IF t = ")" THEN call.nestcnt - 1 ELSE call.nestcnt
  <2>1. WithArgument(call, t) = [call EXCEPT !.args = more, !.nestcnt = nest]
    BY <1>3 DEF WithArgument
  <2>2. Sequence(more)
    BY <1>1, TokenAdded
  <2> HIDE DEF more, nest
  <2> DEFINE new == WithArgument(call, t)
  <2>3. new = Changed(call, more, nest)
    BY <2>1 DEF Changed
  <2> HIDE DEF new
  <2>4. ACall(new) /\ new.stage = call.stage /\ new.name = call.name
    BY <2>2, <2>3, ArgumentsChanged
  <2>5. QED
    BY <2>4 DEF new
<1>4. QED
  BY <1>2, <1>3

LEMMA ReadArgumentStep ==
  ASSUME ExpansionInv, ReadArgument
  PROVE  ExpansionInv' /\ Keeps(open_buffers, open_buffers')
<1>1. Pending(open_buffers, calls) /\ Last(calls).stage = "arguments"
  BY CallingPending DEF ReadArgument, Calling
<1>k. PICK k \in 0..Len(open_buffers) : \E t \in Readable(k) :
        /\ Settled(k)
        /\ \/ Return(Last(calls).name, After(k), Front(calls))
           \/ Expand(Last(calls), After(k), Front(calls))
           \/ /\ calls' = Append(Front(calls), WithArgument(Last(calls), t))
              /\ open_buffers' = After(k)
  BY DEF ReadArgument
<1>2. PICK t \in Readable(k) :
        /\ Settled(k)
        /\ \/ Return(Last(calls).name, After(k), Front(calls))
           \/ Expand(Last(calls), After(k), Front(calls))
           \/ /\ calls' = Append(Front(calls), WithArgument(Last(calls), t))
              /\ open_buffers' = After(k)
  BY <1>k
<1>3. /\ Fit(open_buffers, Front(calls)) /\ Buffers(open_buffers)
      /\ ~Inside(Last(calls).name, open_buffers) /\ ACall(Last(calls))
  BY <1>1 DEF Pending, Fit
<1>4. Fit(After(k), Front(calls)) /\ ~Inside(Last(calls).name, After(k))
  BY <1>2, <1>3, ReadFurther
<1>5. Len(After(k)) \in Nat
  BY <1>4, Indices DEF Fit, Buffers
<1>6. CASE Return(Last(calls).name, After(k), Front(calls))
  BY <1>2, <1>3, <1>4, <1>6, ReturnFits, KeepsAfter DEF ExpansionInv
<1>7. CASE Expand(Last(calls), After(k), Front(calls))
  <2>1. Fit(open_buffers', calls') /\ Grown(After(k), open_buffers')
    BY <1>3, <1>4, <1>7, ExpandFits
  <2>2. QED
    BY <1>2, <1>3, <1>5, <2>1, GrownKeeps, KeepsAfter DEF ExpansionInv
<1>8. CASE /\ calls' = Append(Front(calls), WithArgument(Last(calls), t))
           /\ open_buffers' = After(k)
  <2> DEFINE call == WithArgument(Last(calls), t)
  <2>1. ACall(call) /\ call.stage = "arguments" /\ call.name = Last(calls).name
    BY <1>1, <1>3, ArgumentAdded
  <2> HIDE DEF call
  <2>2. calls' = Append(Front(calls), call)
    BY <1>8 DEF call
  <2>3. Pending(open_buffers', calls')
    BY <1>1, <1>4, <1>8, <2>1, <2>2, StillPending
  <2>4. Grown(After(k), open_buffers')
    BY <1>8 DEF Grown
  <2>5. QED
    BY <1>2, <1>3, <1>5, <2>3, <2>4, GrownKeeps, KeepsAfter DEF ExpansionInv
<1>9. QED
  BY <1>2, <1>6, <1>7, <1>8

LEMMA InitFits == Init => ExpansionInv
<1>1. SUFFICES ASSUME Init PROVE Fit(<< >>, << >>)
  BY DEF Init, ExpansionInv
<1>2. Buffers(<< >>) /\ EntersOnce(<< >>) /\ Expanding(<< >>)
  BY NoTokens DEF Buffers, EntersOnce, Expanding
<1>3. 1..Len(<< >>) = {}
  BY NoTokens
<1>4. << >> \in [1..Len(<< >>) -> 1..Len(<< >>)]
  BY <1>3, NoTokens
<1>5. Placed(<< >>, << >>, << >>)
  BY <1>3, <1>4 DEF Placed
<1>6. QED
  BY <1>2, <1>4, <1>5 DEF Fit

LEMMA ExpansionStep ==
  ASSUME ExpansionInv, [Next]_vars
  PROVE  ExpansionInv' /\ Keeps(open_buffers, open_buffers')
<1>1. CASE get_token \/ UNCHANGED vars
  <2>1. UNCHANGED <<open_buffers, calls>>
    BY <1>1 DEF get_token, vars
  <2>2. Len(open_buffers) \in Nat
    BY Indices DEF ExpansionInv, Pending, Fit, Buffers
  <2>3. ExpansionInv'
    BY <2>1 DEF ExpansionInv, Fit, Pending, Inside
  <2>4. Grown(open_buffers, open_buffers')
    BY <2>1 DEF Grown
  <2>5. QED
    BY <2>2, <2>3, <2>4, GrownKeeps
<1>2. QED
  BY <1>1, PreprocessStep, DirectiveStep, EndOfFileStep, FindParenthesisStep,
     ReadArgumentStep DEF Next, Lex

-----------------------------------------------------------------------------
(* The properties.                                                         *)

(* However macros call each other, wherever a file or a definition ends:   *)
(* each call that waits for an argument has the frozen buffer of that      *)
(* argument, and has not been entered below it.                            *)
THEOREM ExpansionInvariant == Spec => []ExpansionInv
<1>1. ExpansionInv /\ [Next]_vars => ExpansionInv'
  BY ExpansionStep
<1>2. QED
  BY InitFits, <1>1, PTL DEF Spec

LEMMA FitsEither ==
  ASSUME ExpansionInv
  PROVE  \E fr : Fit(open_buffers, fr)
BY DEF ExpansionInv, Pending

(* "Per ISO, a macro may not appear twice in this stack" (lex_cpp.h 144):  *)
(* also when a call is entered long after its name was read, on a stack    *)
(* that its arguments have changed.                                        *)
THEOREM NoMacroTwiceHolds == Spec => []NoMacroTwice
<1>1. ExpansionInv => NoMacroTwice
  BY FitsEither DEF Fit, EntersOnce, NoMacroTwice
<1>2. QED
  BY ExpansionInvariant, <1>1, PTL

LEMMA Unmoved ==
  ASSUME NEW i \in FrozenBuffers, ExpansionInv, [Next]_vars
  PROVE  UNCHANGED <<macros, files, eof, text>>
<1>1. PICK fr : Fit(open_buffers, fr)
  BY FitsEither
<1>2. /\ i \in 1..Len(open_buffers) /\ open_buffers[i].kind = "frozen"
      /\ Buffers(open_buffers)
  BY <1>1 DEF FrozenBuffers, Fit
<1>3. ASSUME NEW k \in 0..Len(open_buffers), Settled(k)
      PROVE  k # 0
  BY <1>2, <1>3, AfterLeft
<1>4. 0 \in 0..Len(open_buffers)
  BY <1>2, Indices DEF Buffers
<1>5. ASSUME NEW k \in 0..Len(open_buffers), NEW t, Settled(k), Read(k, t)
      PROVE  UNCHANGED <<eof, text>>
  BY <1>3, <1>5 DEF Read
<1>6. CASE Preprocess
  BY <1>5, <1>6 DEF Preprocess
<1>7. CASE FindParenthesis
  BY <1>5, <1>7 DEF FindParenthesis
<1>8. CASE ReadArgument
  BY <1>5, <1>8 DEF ReadArgument
<1>9. CASE Directive \/ EndOfFile
  BY <1>3, <1>4, <1>9 DEF Directive, EndOfFile
<1>10. CASE get_token \/ UNCHANGED vars
  BY <1>10 DEF get_token, vars
<1>11. QED
  BY <1>6, <1>7, <1>8, <1>9, <1>10 DEF Next, Lex

(* While an argument is expanded, "as if they formed the rest of the       *)
(* preprocessing file" (lex_cpp.cpp 649): no step touches the buffers      *)
(* below, the file, the directives or the macros.                          *)
THEOREM ArgumentsIsolatedHolds == Spec => ArgumentsIsolated
<1>1. ASSUME ExpansionInv, [Next]_vars, NEW i \in FrozenBuffers
      PROVE  /\ SubSeq(open_buffers', 1, i - 1) = SubSeq(open_buffers, 1, i - 1)
             /\ UNCHANGED <<macros, files, eof, text>>
  <2>1. PICK fr : Fit(open_buffers, fr)
    BY <1>1, FitsEither
  <2>2. Sequence(open_buffers) /\ Len(open_buffers) \in Nat
    BY <2>1, Indices DEF Fit, Buffers
  <2>3. ExpansionInv' /\ Keeps(open_buffers, open_buffers')
    BY <1>1, ExpansionStep
  <2>4. Sequence(open_buffers') /\ Len(open_buffers') \in Nat
    <3>1. Buffers(open_buffers')
      BY <2>3 DEF ExpansionInv, Pending, Fit
    <3>2. QED
      BY <3>1, Indices DEF Buffers
  <2>5. i \in 1..Len(open_buffers) /\ open_buffers[i].kind = "frozen"
    BY <1>1 DEF FrozenBuffers
  <2>6. \A j \in 1..(i - 1) : j \in 1..Len(open_buffers') /\ open_buffers'[j] = open_buffers[j]
    BY <2>3, <2>5 DEF Keeps
  <2> DEFINE n == i - 1
  <2>7. n \in Nat /\ n <= Len(open_buffers)
    BY <2>2, <2>5
  <2>8. n <= Len(open_buffers')
    <3>1. CASE n = 0
      BY <2>4, <3>1
    <3>2. CASE n # 0
      <4>1. n \in 1..n
        BY <2>2, <2>5, <2>7, <3>2
      <4>2. n \in 1..Len(open_buffers')
        BY <2>6, <4>1
      <4>3. QED
        BY <2>4, <4>2
    <3>3. QED
      BY <3>1, <3>2
  <2> HIDE DEF n
  <2>9. /\ Sequence(SubSeq(open_buffers, 1, n)) /\ Len(SubSeq(open_buffers, 1, n)) = n
        /\ \A j \in 1..n : SubSeq(open_buffers, 1, n)[j] = open_buffers[j]
    BY <2>2, <2>7, Beginning
  <2>10. /\ Sequence(SubSeq(open_buffers', 1, n)) /\ Len(SubSeq(open_buffers', 1, n)) = n
         /\ \A j \in 1..n : SubSeq(open_buffers', 1, n)[j] = open_buffers'[j]
    BY <2>4, <2>7, <2>8, Beginning
  <2>11. \A j \in 1..n : SubSeq(open_buffers', 1, n)[j] = SubSeq(open_buffers, 1, n)[j]
    BY <2>6, <2>9, <2>10 DEF n
  <2>12. SubSeq(open_buffers', 1, n) = SubSeq(open_buffers, 1, n)
    BY <2>9, <2>10, <2>11, Same
  <2>13. QED
    BY <1>1, <2>12, Unmoved DEF n
<1>2. ExpansionInv /\ [Next]_vars =>
        [\A i \in FrozenBuffers :
           /\ SubSeq(open_buffers', 1, i - 1) = SubSeq(open_buffers, 1, i - 1)
           /\ UNCHANGED <<macros, files, eof, text>>]_vars
  BY <1>1
<1>3. QED
  BY ExpansionInvariant, <1>2, PTL DEF Spec, ArgumentsIsolated

(* Where m calls have their frozen buffers, the first c of them are those  *)
(* up to the one of call c.                                                *)
LEMMA FrozenInOrder ==
  ASSUME NEW fr, NEW pos, Buffers(open_buffers), Sequence(fr), Placed(open_buffers, fr, pos),
         NEW c \in 1..Len(fr)
  PROVE  Cardinality({j \in FrozenBuffers : j <= pos[c]}) = c
<1>1. Len(fr) \in Nat /\ Len(open_buffers) \in Nat
  BY Indices DEF Buffers
<1>2. pos \in [1..Len(fr) -> 1..Len(open_buffers)]
  BY DEF Placed
<1> DEFINE T == {j \in FrozenBuffers : j <= pos[c]}
           f == [d \in 1..c |-> pos[d]]
<1>3. \A d \in 1..c : d \in 1..Len(fr)
  BY <1>1
<1>4. \A d \in 1..Len(fr) : pos[d] \in FrozenBuffers
  BY <1>2 DEF Placed, FrozenBuffers
<1>5. \A d, e \in 1..Len(fr) : d < e => pos[d] < pos[e]
  BY DEF Placed
<1>6. \A d \in 1..Len(fr) : pos[d] \in Nat
  BY <1>2
<1>7. ASSUME NEW d \in 1..Len(fr)
      PROVE  pos[d] <= pos[c] <=> d <= c
  BY <1>1, <1>5, <1>6
<1>8. f \in [1..c -> T]
  BY <1>3, <1>4, <1>7
<1>9. \A d, e \in 1..c : f[d] = f[e] => d = e
  <2>1. ASSUME NEW d \in 1..Len(fr), NEW e \in 1..Len(fr), pos[d] = pos[e]
        PROVE  d = e
    BY <1>5, <1>6, <2>1
  <2>2. QED
    BY <1>3, <2>1
<1>10. \A i \in T : \E d \in 1..c : f[d] = i
  <2>1. SUFFICES ASSUME NEW i \in T PROVE \E d \in 1..c : f[d] = i
    OBVIOUS
  <2>2. PICK d \in 1..Len(fr) : pos[d] = i
    BY DEF Placed, FrozenBuffers
  <2>3. d \in 1..c
    BY <1>1, <1>7, <2>2
  <2>4. QED
    BY <2>2, <2>3
<1> HIDE DEF T, f
<1>11. f \in Bijection(1..c, T)
  BY <1>8, <1>9, <1>10 DEF Bijection, Injection, Surjection, IsInjective
<1>12. ExistsBijection(1..c, T)
  BY <1>11 DEF ExistsBijection
<1>13. Cardinality(T) = c
  BY <1>1, <1>12, FS_CountingElements
<1>14. QED
  BY <1>13 DEF T

LEMMA AsManyFrozen ==
  ASSUME NEW fr, NEW pos, Buffers(open_buffers), Sequence(fr), Placed(open_buffers, fr, pos)
  PROVE  Cardinality(FrozenBuffers) = Len(fr)
<1>1. Len(fr) \in Nat /\ (fr = << >> <=> Len(fr) = 0)
  BY Indices
<1>2. CASE Len(fr) = 0
  <2>1. FrozenBuffers = {}
    BY <1>2 DEF Placed, FrozenBuffers
  <2>2. QED
    BY <1>2, <2>1, FS_EmptySet
<1>3. CASE Len(fr) # 0
  <2>1. pos \in [1..Len(fr) -> 1..Len(open_buffers)] /\ Len(fr) \in 1..Len(fr) /\ fr # << >>
    BY <1>1, <1>3 DEF Placed
  <2>2. \A i \in 1..Len(open_buffers) : open_buffers[i].kind = "frozen" => i <= pos[Len(fr)]
    BY <2>1, LastFrozen
  <2>3. FrozenBuffers = {j \in FrozenBuffers : j <= pos[Len(fr)]}
    BY <2>2 DEF FrozenBuffers
  <2>4. Cardinality({j \in FrozenBuffers : j <= pos[Len(fr)]}) = Len(fr)
    BY <2>1, FrozenInOrder
  <2>5. QED
    BY <2>3, <2>4
<1>4. QED
  BY <1>2, <1>3

(* The calls that expand an argument are all, or all but the innermost.    *)
LEMMA ExpandingCalls ==
  ASSUME ExpansionInv
  PROVE  \E fr : /\ Fit(open_buffers, fr)
                 /\ \A c \in 1..Len(fr) : fr[c] = calls[c]
                 /\ {c \in 1..Len(calls) : calls[c].stage = "expand"} = 1..Len(fr)
<1>1. CASE Fit(open_buffers, calls)
  <2>1. {c \in 1..Len(calls) : calls[c].stage = "expand"} = 1..Len(calls)
    BY <1>1 DEF Fit, Expanding
  <2>2. QED
    BY <1>1, <2>1
<1>2. CASE Pending(open_buffers, calls)
  <2> DEFINE fr == Front(calls)
  <2>1. /\ Len(calls) \in Nat \ {0} /\ Last(calls) = calls[Len(calls)]
        /\ Len(fr) = Len(calls) - 1
        /\ \A c \in 1..(Len(calls) - 1) : fr[c] = calls[c]
    BY <1>2, InFront DEF Pending
  <2>2. Fit(open_buffers, fr) /\ Last(calls).stage # "expand"
    BY <1>2 DEF Pending
  <2> HIDE DEF fr
  <2>3. \A c \in 1..Len(fr) : fr[c] = calls[c] /\ fr[c].stage = "expand"
    BY <2>1, <2>2 DEF Fit, Expanding
  <2>4. \A c \in 1..Len(calls) : calls[c].stage = "expand" <=> c \in 1..Len(fr)
    <3>1. SUFFICES ASSUME NEW c \in 1..Len(calls)
                   PROVE  calls[c].stage = "expand" <=> c \in 1..Len(fr)
      OBVIOUS
    <3>2. CASE c = Len(calls)
      <4>1. calls[c].stage # "expand"
        BY <2>1, <2>2, <3>2
      <4>2. c \notin 1..Len(fr)
        BY <2>1, <3>2
      <4>3. QED
        BY <4>1, <4>2
    <3>3. CASE c # Len(calls)
      <4>1. c \in 1..Len(fr)
        BY <2>1, <3>1, <3>3
      <4>2. QED
        BY <2>3, <4>1
    <3>4. QED
      BY <3>2, <3>3
  <2>5. \A c \in 1..Len(fr) : c \in 1..Len(calls)
    BY <2>1
  <2>6. {c \in 1..Len(calls) : calls[c].stage = "expand"} = 1..Len(fr)
    BY <2>4, <2>5
  <2>7. QED
    BY <2>2, <2>3, <2>6
<1>3. QED
  BY <1>1, <1>2 DEF ExpansionInv

(* Each call that expands an argument has one frozen buffer, in the order  *)
(* of the calls, and it holds that argument: pop_frozen_buffer removes the *)
(* buffer of the call that asked for it, whatever was left above.          *)
THEOREM CallsFrozenHolds == Spec => []CallsFrozen
<1>1. ASSUME ExpansionInv PROVE CallsFrozen
  <2> DEFINE expanding == {c \in 1..Len(calls) : calls[c].stage = "expand"}
  <2>1. PICK fr : /\ Fit(open_buffers, fr)
                  /\ \A c \in 1..Len(fr) : fr[c] = calls[c]
                  /\ expanding = 1..Len(fr)
    BY <1>1, ExpandingCalls
  <2>2. PICK pos \in [1..Len(fr) -> 1..Len(open_buffers)] : Placed(open_buffers, fr, pos)
    BY <2>1 DEF Fit
  <2>3. Buffers(open_buffers) /\ Sequence(fr) /\ Len(fr) \in Nat
    BY <2>1, Indices DEF Fit, Expanding
  <2>4. Cardinality(FrozenBuffers) = Len(fr)
    BY <2>2, <2>3, AsManyFrozen
  <2>5. Cardinality(1..Len(fr)) = Len(fr)
    <3>1. Cardinality(1..Len(fr)) = IF 1 > Len(fr) THEN 0 ELSE Len(fr) - 1 + 1
      BY <2>3, FS_Interval
    <3>2. QED
      BY <2>3, <3>1
  <2>6. ASSUME NEW i \in FrozenBuffers
        PROVE  LET c == Cardinality({j \in FrozenBuffers : j <= i})
               IN  /\ c \in 1..Len(fr)
                   /\ open_buffers[i].tokens = calls[c].args[Len(calls[c].evald)]
    <3>1. PICK c \in 1..Len(fr) : pos[c] = i
      BY <2>2 DEF Placed, FrozenBuffers
    <3>2. Cardinality({j \in FrozenBuffers : j <= i}) = c
      BY <2>2, <2>3, <3>1, FrozenInOrder
    <3>3. open_buffers[i].tokens = fr[c].args[Len(fr[c].evald)]
      BY <2>2, <3>1 DEF Placed
    <3>4. QED
      BY <2>1, <3>2, <3>3
  <2>7. Cardinality(FrozenBuffers) = Cardinality(expanding)
    BY <2>1, <2>4, <2>5
  <2>8. QED
    BY <2>1, <2>6, <2>7 DEF CallsFrozen
<1>2. QED
  BY ExpansionInvariant, <1>1, PTL

-----------------------------------------------------------------------------
(* Tokens and what pasting makes of them.                                  *)

(* In TLA+ a string is a sequence of characters, so that this holds; the   *)
(* prover knows nothing of strings but that they differ.                   *)
TextsConcatenate ==
  \A s, t, u \in STRING : s \o t \in STRING /\ (s \o t) \o u = s \o (t \o u)

Word(t) == TextsConcatenate => t \in STRING

Words(s) == Sequence(s) /\ \A i \in 1..Len(s) : Word(s[i])

LEMMA WordsOfStrings ==
  ASSUME NEW s
  PROVE  /\ s \in Seq(STRING) => Words(s)
         /\ Words(s) /\ TextsConcatenate => s \in Seq(STRING)
<1>1. ASSUME s \in Seq(STRING)
      PROVE  Words(s)
  <2>1. Sequence(s) /\ \A i \in 1..Len(s) : s[i] \in STRING
    BY <1>1, IsSequence
  <2>2. QED
    BY <2>1 DEF Words, Word
<1>2. ASSUME Words(s), TextsConcatenate
      PROVE  s \in Seq(STRING)
  <2>1. Len(s) \in Nat /\ s = [i \in 1..Len(s) |-> s[i]]
    BY <1>2, Indices DEF Words
  <2>2. \A i \in 1..Len(s) : s[i] \in STRING
    BY <1>2 DEF Words, Word
  <2>3. s \in [1..Len(s) -> STRING]
    BY <2>1, <2>2
  <2>4. QED
    BY <2>1, <2>3, SeqDef
<1>3. QED
  BY <1>1, <1>2

LEMMA WordPasted ==
  ASSUME NEW s, NEW t, Word(s), Word(t)
  PROVE  Word(s \o t)
BY DEF Word, TextsConcatenate

LEMMA NoWords == Words(<< >>)
<1>1. Sequence(<< >>) /\ Len(<< >>) = 0
  BY NoTokens
<1>2. QED
  BY <1>1 DEF Words

LEMMA Concatenated ==
  ASSUME NEW s, NEW t, Sequence(s), Sequence(t)
  PROVE  /\ Sequence(s \o t) /\ Len(s \o t) = Len(s) + Len(t)
         /\ \A i \in 1..Len(s) : (s \o t)[i] = s[i]
         /\ \A i \in 1..Len(t) : (s \o t)[Len(s) + i] = t[i]
<1> DEFINE S == Range(s) \union Range(t)
<1>1. s \in Seq(S) /\ t \in Seq(S)
  BY SeqMonotonic DEF Sequence
<1>2. /\ s \o t \in Seq(S) /\ Len(s \o t) = Len(s) + Len(t)
      /\ \A i \in 1..Len(s) : (s \o t)[i] = s[i]
      /\ \A i \in 1..Len(t) : (s \o t)[Len(s) + i] = t[i]
  <2> HIDE DEF S
  <2> QED
    BY <1>1
<1>3. QED
  BY <1>2, IsSequence

LEMMA WordsConcatenated ==
  ASSUME NEW s, NEW t, Words(s), Words(t)
  PROVE  Words(s \o t)
<1>1. /\ Sequence(s \o t) /\ Len(s \o t) = Len(s) + Len(t)
      /\ Len(s) \in Nat /\ Len(t) \in Nat
      /\ \A i \in 1..Len(s) : (s \o t)[i] = s[i]
      /\ \A i \in 1..Len(t) : (s \o t)[Len(s) + i] = t[i]
  BY Concatenated, Indices DEF Words
<1>2. ASSUME NEW i \in 1..(Len(s) + Len(t))
      PROVE  Word((s \o t)[i])
  <2>1. CASE i \in 1..Len(s)
    BY <1>1, <2>1 DEF Words
  <2>2. CASE i \notin 1..Len(s)
    <3>1. i - Len(s) \in 1..Len(t) /\ Len(s) + (i - Len(s)) = i
      BY <1>1, <2>2
    <3>2. (s \o t)[i] = t[i - Len(s)]
      BY <1>1, <3>1
    <3>3. QED
      BY <3>1, <3>2 DEF Words
  <2>3. QED
    BY <2>1, <2>2
<1>3. QED
  BY <1>1, <1>2 DEF Words

LEMMA InRest ==
  ASSUME NEW s, Sequence(s), s # << >>
  PROVE  /\ Sequence(Tail(s)) /\ Len(Tail(s)) = Len(s) - 1
         /\ \A i \in 1..Len(Tail(s)) : Tail(s)[i] = s[i + 1]
         /\ Head(s) = s[1]
<1> DEFINE S == Range(s)
<1>1. s \in Seq(S)
  BY DEF Sequence
<1>2. /\ Tail(s) \in Seq(S) /\ Len(Tail(s)) = Len(s) - 1
      /\ \A i \in 1..Len(Tail(s)) : Tail(s)[i] = s[i + 1]
      /\ Head(s) = s[1]
  <2> HIDE DEF S
  <2> QED
    BY <1>1
<1>3. QED
  BY <1>2, IsSequence

LEMMA WordsInside ==
  ASSUME NEW s, Words(s), s # << >>
  PROVE  /\ Words(Front(s)) /\ Word(Last(s))
         /\ Words(Tail(s)) /\ Word(Head(s))
<1>1. Sequence(s) /\ Len(s) \in Nat \ {0} /\ \A i \in 1..Len(s) : Word(s[i])
  BY Indices DEF Words
<1>2. /\ Sequence(Front(s)) /\ Len(Front(s)) = Len(s) - 1 /\ Last(s) = s[Len(s)]
      /\ \A i \in 1..(Len(s) - 1) : Front(s)[i] = s[i]
  BY <1>1, InFront
<1>3. /\ Sequence(Tail(s)) /\ Len(Tail(s)) = Len(s) - 1 /\ Head(s) = s[1]
      /\ \A i \in 1..Len(Tail(s)) : Tail(s)[i] = s[i + 1]
  BY <1>1, InRest
<1>4. /\ 1 \in 1..Len(s) /\ Len(s) \in 1..Len(s)
      /\ \A i \in 1..(Len(s) - 1) : i \in 1..Len(s) /\ i + 1 \in 1..Len(s)
  BY <1>1
<1>5. QED
  BY <1>1, <1>2, <1>3, <1>4 DEF Words

LEMMA One ==
  ASSUME NEW e
  PROVE  Sequence(<<e>>) /\ Len(<<e>>) = 1 /\ (Word(e) => Words(<<e>>))
<1>1. <<e>> \in Seq({e}) /\ Len(<<e>>) = 1 /\ \A i \in 1..1 : <<e>>[i] = e
  OBVIOUS
<1>2. QED
  BY <1>1, IsSequence DEF Words

LEMMA WordsAppended ==
  ASSUME NEW s, NEW e, Words(s), Word(e)
  PROVE  Words(Append(s, e))
<1>1. /\ Sequence(s) /\ Len(s) \in Nat /\ Sequence(Append(s, e))
      /\ Len(Append(s, e)) = Len(s) + 1
      /\ \A i \in 1..Len(s) : Append(s, e)[i] = s[i]
      /\ Append(s, e)[Len(s) + 1] = e
  BY Appended, Indices DEF Words
<1>2. \A i \in 1..Len(Append(s, e)) : i \in 1..Len(s) \/ i = Len(s) + 1
  BY <1>1
<1>3. QED
  BY <1>1, <1>2 DEF Words

-----------------------------------------------------------------------------
(* What becomes of a replacement list.                                     *)

LEMMA Pasted ==
  ASSUME NEW dest, NEW tokens, NEW paste, Words(dest), Words(tokens)
  PROVE  Words(append_or_paste(dest, tokens, paste))
<1>1. Words(dest \o tokens)
  BY WordsConcatenated
<1>2. CASE paste /\ dest # << >> /\ tokens # << >>
  <2> DEFINE joined == <<Last(dest) \o Head(tokens)>>
  <2>1. Words(joined)
    BY <1>2, WordsInside, WordPasted, One
  <2>2. Words(Front(dest)) /\ Words(Tail(tokens))
    BY <1>2, WordsInside
  <2> HIDE DEF joined
  <2>3. Words(Front(dest) \o joined)
    BY <2>1, <2>2, WordsConcatenated
  <2>4. Words(Front(dest) \o joined \o Tail(tokens))
    BY <2>2, <2>3, WordsConcatenated
  <2>5. append_or_paste(dest, tokens, paste) = Front(dest) \o joined \o Tail(tokens)
    BY <1>2 DEF append_or_paste, joined
  <2>6. QED
    BY <2>4, <2>5
<1>3. CASE ~(paste /\ dest # << >> /\ tokens # << >>)
  BY <1>1, <1>3 DEF append_or_paste
<1>4. QED
  BY <1>2, <1>3

(* The list of an object-like macro.                                       *)
Concats(g, value, m) ==
  /\ g = [i \in 0..m |-> g[i]]
  /\ \A i \in 0..m :
       g[i] = IF i = 0 THEN << >>
              ELSE IF value[i] = "##" THEN g[i - 1]
              ELSE append_or_paste(g[i - 1], <<value[i]>>, Holds(value, i - 1, "##"))

LEMMA ConcatsExist ==
  ASSUME NEW value, NEW n \in Nat
  PROVE  \E g : Concats(g, value, n)
<1> DEFINE T == {m \in Nat : \E g : Concats(g, value, m)}
<1>1. 0 \in T
  <2> DEFINE g == [i \in 0..0 |-> << >>]
  <2>1. Concats(g, value, 0)
    BY DEF Concats
  <2>2. QED
    BY <2>1
<1>2. ASSUME NEW m \in Nat, m \in T
      PROVE  m + 1 \in T
  <2>1. PICK g : Concats(g, value, m)
    BY <1>2
  <2> DEFINE last == IF value[m + 1] = "##" THEN g[m]
                     ELSE append_or_paste(g[m], <<value[m + 1]>>, Holds(value, m, "##"))
             h == [i \in 0..(m + 1) |-> IF i = m + 1 THEN last ELSE g[i]]
  <2>2. h = [i \in 0..(m + 1) |-> h[i]]
    OBVIOUS
  <2>3. /\ h[m + 1] = last
        /\ \A i \in 0..m : h[i] = g[i]
    OBVIOUS
  <2>4. m + 1 # 0 /\ (m + 1) - 1 = m /\ m \in 0..m
    OBVIOUS
  <2> HIDE DEF h
  <2>5. ASSUME NEW i \in 0..(m + 1)
        PROVE  h[i] = IF i = 0 THEN << >>
                      ELSE IF value[i] = "##" THEN h[i - 1]
                      ELSE append_or_paste(h[i - 1], <<value[i]>>, Holds(value, i - 1, "##"))
    <3>1. CASE i = m + 1
      BY <2>3, <2>4, <3>1
    <3>2. CASE i \in 0..m
      <4>1. i # 0 => i - 1 \in 0..m
        BY <3>2
      <4>2. h[i] = g[i] /\ (i # 0 => h[i - 1] = g[i - 1])
        BY <2>3, <3>2, <4>1
      <4>3. QED
        BY <2>1, <3>2, <4>2 DEF Concats
    <3>3. QED
      BY <3>1, <3>2
  <2>6. Concats(h, value, m + 1)
    BY <2>2, <2>5 DEF Concats
  <2>7. QED
    BY <2>6
<1>3. n \in T
  <2> HIDE DEF T
  <2> QED
    BY <1>1, <1>2, Induction
<1>4. QED
  BY <1>3

(* What the list is after each of its places, for an object-like macro and *)
(* for a call alike.                                                       *)
Progress(r, mf, args, evald) ==
  /\ r[0] = << >>
  /\ \A i \in 1..Len(mf.value) :
       /\ i \in Links(mf) =>
            r[i] = append_or_paste(r[i - 1], Link(mf, args, evald, i), Linked(mf, i))
       /\ i \notin Links(mf) => r[i] = r[i - 1]

LEMMA ListTyped ==
  ASSUME NEW mf, WellFormed(mf)
  PROVE  /\ Len(mf.value) \in Nat /\ DOMAIN mf.value = 1..Len(mf.value)
         /\ \A i \in 1..Len(mf.value) : mf.value[i] \in STRING /\ mf.value[i] # Empty
         /\ mf.is_function \in BOOLEAN /\ mf.params \in Seq(STRING)
         /\ Len(mf.params) \in Nat
         /\ \A i \in 1..Len(mf.value) :
              i \in Links(mf) <=> mf.value[i] # "#" /\ mf.value[i] # "##"
         /\ \A i : i \in Links(mf) => i \in 1..Len(mf.value)
BY DEF WellFormed, Links

(* Where the operators stand: ## between links, # before a parameter.      *)
LEMMA OperatorsInside ==
  ASSUME NEW mf, WellFormed(mf), NEW i \in 1..Len(mf.value)
  PROVE  /\ mf.value[i] = "##" =>
              1 < i /\ i + 1 \in 1..Len(mf.value) /\ mf.value[i + 1] # "##"
         /\ mf.value[i] = "#" =>
              /\ mf.is_function /\ i + 1 \in Links(mf)
              /\ mf.value[i + 1] \in Range(mf.params)
<1>1. /\ Len(mf.value) \in Nat /\ DOMAIN mf.value = 1..Len(mf.value)
      /\ \A j \in 1..Len(mf.value) :
           j \in Links(mf) <=> mf.value[j] # "#" /\ mf.value[j] # "##"
  BY ListTyped
<1>2. ASSUME mf.value[i] = "##"
      PROVE  1 < i /\ i + 1 \in 1..Len(mf.value) /\ mf.value[i + 1] # "##"
  <2>1. 1 < i /\ i < Len(mf.value) /\ mf.value[i + 1] # "##"
    BY <1>1, <1>2 DEF WellFormed
  <2>2. QED
    BY <1>1, <2>1
<1>3. ASSUME mf.value[i] = "#"
      PROVE  mf.is_function /\ i + 1 \in Links(mf) /\ mf.value[i + 1] \in Range(mf.params)
  <2>1. mf.is_function /\ i < Len(mf.value) /\ mf.value[i + 1] \in Range(mf.params)
    BY <1>1, <1>3 DEF WellFormed
  <2>2. mf.value[i + 1] # "#" /\ mf.value[i + 1] # "##"
    BY <2>1 DEF WellFormed
  <2>3. i + 1 \in 1..Len(mf.value)
    BY <1>1, <2>1
  <2>4. QED
    BY <1>1, <2>1, <2>2, <2>3
<1>4. QED
  BY <1>2, <1>3

LEMMA Indexed ==
  ASSUME NEW mf, NEW t, mf.params \in Seq(STRING)
  PROVE  /\ Index(mf, t) \in Nat
         /\ t # Empty /\ t \in Range(mf.params) => Index(mf, t) # 0
         /\ mf.params = << >> => Index(mf, t) = 0
<1>1. Len(mf.params) \in Nat /\ DOMAIN mf.params = 1..Len(mf.params)
      /\ (mf.params = << >> <=> Len(mf.params) = 0)
  OBVIOUS
<1>2. CASE t = "__VA_ARGS__"
  <2>1. Index(mf, t) = Len(mf.params)
    BY <1>2 DEF Index
  <2>2. t \in Range(mf.params) => Len(mf.params) # 0
    BY <1>1 DEF Range
  <2>3. QED
    BY <1>1, <2>1, <2>2
<1>3. CASE t # "__VA_ARGS__" /\ t \in Range(mf.params) /\ t # Empty
  <2>1. PICK i \in DOMAIN mf.params : mf.params[i] = t
    BY <1>3 DEF Range
  <2>2. (CHOOSE j \in DOMAIN mf.params : mf.params[j] = t) \in DOMAIN mf.params
    BY <2>1
  <2>3. Index(mf, t) \in DOMAIN mf.params
    BY <1>3, <2>2 DEF Index
  <2>4. QED
    BY <1>1, <2>1, <2>3
<1>4. CASE t # "__VA_ARGS__" /\ ~(t \in Range(mf.params) /\ t # Empty)
  BY <1>4 DEF Index
<1>5. QED
  BY <1>2, <1>3, <1>4

LEMMA ListEvaluated ==
  ASSUME NEW mf, WellFormed(mf), ~mf.is_function
  PROVE  \E r : /\ Progress(r, mf, << >>, << >>)
                /\ evaluate_concats(mf) = r[Len(mf.value)]
<1> DEFINE after == CHOOSE g : g = [i \in 0..Len(mf.value) |->
             IF i = 0 THEN << >>
             ELSE IF mf.value[i] = "##" THEN g[i - 1]
             ELSE append_or_paste(g[i - 1], <<mf.value[i]>>, Holds(mf.value, i - 1, "##"))]
<1>1. /\ Len(mf.value) \in Nat /\ mf.params \in Seq(STRING)
      /\ \A i \in 1..Len(mf.value) :
           i \in Links(mf) <=> mf.value[i] # "#" /\ mf.value[i] # "##"
  BY ListTyped
<1>2. PICK g : Concats(g, mf.value, Len(mf.value))
  BY <1>1, ConcatsExist
<1>3. g = [i \in 0..Len(mf.value) |->
             IF i = 0 THEN << >>
             ELSE IF mf.value[i] = "##" THEN g[i - 1]
             ELSE append_or_paste(g[i - 1], <<mf.value[i]>>, Holds(mf.value, i - 1, "##"))]
  BY <1>2 DEF Concats
<1>4. after = [i \in 0..Len(mf.value) |->
             IF i = 0 THEN << >>
             ELSE IF mf.value[i] = "##" THEN after[i - 1]
             ELSE append_or_paste(after[i - 1], <<mf.value[i]>>, Holds(mf.value, i - 1, "##"))]
  BY <1>3
<1>5. evaluate_concats(mf) = after[Len(mf.value)]
  BY DEF evaluate_concats
<1> HIDE DEF after
<1>6. \A i \in 0..Len(mf.value) :
        after[i] = IF i = 0 THEN << >>
                   ELSE IF mf.value[i] = "##" THEN after[i - 1]
                   ELSE append_or_paste(after[i - 1], <<mf.value[i]>>, Holds(mf.value, i - 1, "##"))
  BY <1>4
<1>7. after[0] = << >>
  <2>1. 0 \in 0..Len(mf.value)
    BY <1>1
  <2>2. QED
    BY <1>6, <2>1, Zenon
<1>8. ASSUME NEW i \in 1..Len(mf.value)
      PROVE  /\ i \in Links(mf) =>
                  after[i] = append_or_paste(after[i - 1], Link(mf, << >>, << >>, i), Linked(mf, i))
             /\ i \notin Links(mf) => after[i] = after[i - 1]
  <2>1. mf.value[i] # "#" /\ ~Holds(mf.value, i - 1, "#")
    <3>1. ~Holds(mf.value, i - 1, "#")
      <4>1. SUFFICES ASSUME i - 1 \in DOMAIN mf.value, mf.value[i - 1] = "#" PROVE FALSE
        BY DEF Holds
      <4>2. i - 1 \in 1..Len(mf.value)
        BY <4>1, ListTyped
      <4>3. QED
        BY <4>1, <4>2, OperatorsInside
    <3>2. QED
      BY <3>1, OperatorsInside
  <2>2. Linked(mf, i) <=> Holds(mf.value, i - 1, "##")
    BY <2>1 DEF Linked
  <2>3. Link(mf, << >>, << >>, i) = <<mf.value[i]>>
    <3>1. Index(mf, mf.value[i]) = 0
      BY <1>1, Indexed DEF WellFormed
    <3>2. QED
      BY <3>1 DEF Link
  <2>4. i \in 0..Len(mf.value) /\ i # 0
    BY <1>1
  <2>5. after[i] = IF mf.value[i] = "##" THEN after[i - 1]
                   ELSE append_or_paste(after[i - 1], <<mf.value[i]>>, Holds(mf.value, i - 1, "##"))
    BY <1>6, <2>4
  <2>6. Linked(mf, i) = Holds(mf.value, i - 1, "##")
    BY <2>2 DEF Linked, Holds
  <2>7. i \in Links(mf) <=> mf.value[i] # "##"
    BY <1>1, <2>1
  <2>8. QED
    BY <2>3, <2>5, <2>6, <2>7
<1>9. QED
  BY <1>5, <1>7, <1>8 DEF Progress

(* What FlattenSeq makes of a sequence of sequences, one after another.    *)
Flattens(f, seqs, S) ==
  /\ f[0] = << >>
  /\ \A i \in 0..Len(seqs) : f[i] \in Seq(S)
  /\ \A i \in 1..Len(seqs) : f[i] = f[i - 1] \o seqs[i]

LEMMA Flattened ==
  ASSUME NEW S, NEW seqs \in Seq(Seq(S))
  PROVE  \E f : Flattens(f, seqs, S) /\ FlattenSeq(seqs) = f[Len(seqs)]
<1>1. Len(seqs) \in Nat /\ \A i \in 1..Len(seqs) : seqs[i] \in Seq(S)
  OBVIOUS
<1>2. CASE Len(seqs) = 0
  <2> DEFINE f == [i \in 0..0 |-> << >>]
  <2>1. FlattenSeq(seqs) = << >> /\ << >> \in Seq(S)
    BY <1>2 DEF FlattenSeq
  <2>2. f[0] = << >> /\ \A i \in 0..0 : f[i] = << >>
    OBVIOUS
  <2> HIDE DEF f
  <2>3. \A i \in 1..Len(seqs) : FALSE
    BY <1>2
  <2>4. Flattens(f, seqs, S)
    BY <1>2, <2>1, <2>2, <2>3 DEF Flattens
  <2>5. QED
    BY <1>2, <2>1, <2>2, <2>4
<1>3. CASE Len(seqs) # 0
  <2> DEFINE D == 1..Len(seqs)
             base == [i \in D |-> seqs[i]]
             next == [i \in D |-> i - 1]
             step == [i \in D |-> [v \in Seq(S) |-> v \o seqs[i]]]
             flatten == CHOOSE f : f = [i \in D |-> IF i = 1 THEN seqs[i] ELSE f[i - 1] \o seqs[i]]
  <2>1. base \in [D -> Seq(S)]
    BY <1>1
  <2>2. step \in [D -> [Seq(S) -> Seq(S)]]
    BY <1>1
  <2>3. \A i \in D : i \notin {1} => next[i] \in D /\ next[i] < i
    BY <1>1
  <2>4. Descending(D, Seq(S), {1}, base, next, step)
    <3> HIDE DEF D, base, next, step
    <3>1. QED
      BY <2>1, <2>2, <2>3 DEF Descending
  <2>5. D \subseteq 0..Len(seqs)
    BY <1>1
  <2>6. PICK g \in [D -> Seq(S)] : Descends(g, D, {1}, base, next, step)
    <3> HIDE DEF D, base, next, step
    <3>1. QED
      BY <1>1, <2>4, <2>5, Descent
  <2>7. \A i \in D : g[i] = IF i = 1 THEN seqs[i] ELSE g[i - 1] \o seqs[i]
    <3>1. SUFFICES ASSUME NEW i \in D
                   PROVE  g[i] = IF i = 1 THEN seqs[i] ELSE g[i - 1] \o seqs[i]
      OBVIOUS
    <3>2. g[i] = IF i \in {1} THEN base[i] ELSE step[i][g[next[i]]]
      <4> HIDE DEF D, base, next, step
      <4>1. QED
        BY <2>6, <3>1 DEF Descends
    <3>3. i \in {1} \/ next[i] \in D
      BY <2>3
    <3>4. i = 1 \/ g[next[i]] \in Seq(S)
      <4> HIDE DEF D, next
      <4>1. QED
        BY <3>3
    <3>5. QED
      BY <3>2, <3>4
  <2>8. g = [i \in D |-> IF i = 1 THEN seqs[i] ELSE g[i - 1] \o seqs[i]]
    <3> HIDE DEF D
    <3>1. QED
      BY <2>7
  <2>9. flatten = [i \in D |-> IF i = 1 THEN seqs[i] ELSE flatten[i - 1] \o seqs[i]]
    BY <2>8
  <2>10. FlattenSeq(seqs) = flatten[Len(seqs)]
    BY <1>3 DEF FlattenSeq
  <2> HIDE DEF flatten
  <2>11. \A i \in D : flatten[i] = IF i = 1 THEN seqs[i] ELSE flatten[i - 1] \o seqs[i]
    BY <2>9
  <2> DEFINE T == {i \in Nat : i + 1 <= Len(seqs) => flatten[i + 1] \in Seq(S)}
  <2>12. 0 \in T
    <3>1. 1 \in D
      BY <1>1, <1>3
    <3>2. flatten[1] = seqs[1]
      BY <2>11, <3>1
    <3>3. QED
      BY <1>1, <3>1, <3>2
  <2>13. ASSUME NEW i \in Nat, i \in T
         PROVE  i + 1 \in T
    <3>1. SUFFICES ASSUME (i + 1) + 1 <= Len(seqs) PROVE flatten[(i + 1) + 1] \in Seq(S)
      OBVIOUS
    <3>2. /\ (i + 1) + 1 \in D /\ (i + 1) + 1 # 1 /\ ((i + 1) + 1) - 1 = i + 1
          /\ i + 1 <= Len(seqs)
      BY <1>1, <3>1
    <3>3. flatten[i + 1] \in Seq(S) /\ seqs[(i + 1) + 1] \in Seq(S)
      BY <1>1, <2>13, <3>2
    <3>4. flatten[(i + 1) + 1] = flatten[i + 1] \o seqs[(i + 1) + 1]
      BY <2>11, <3>2
    <3>5. QED
      BY <3>3, <3>4
  <2>14. \A i \in Nat : i \in T
    <3> HIDE DEF T
    <3>1. QED
      BY <2>12, <2>13, Induction
  <2>15. ASSUME NEW i \in D
         PROVE  flatten[i] \in Seq(S)
    <3>1. i - 1 \in Nat /\ (i - 1) + 1 = i /\ i <= Len(seqs)
      BY <1>1
    <3>2. i - 1 \in T
      BY <2>14, <3>1
    <3>3. QED
      BY <3>1, <3>2
  <2> DEFINE f == [i \in 0..Len(seqs) |-> IF i = 0 THEN << >> ELSE flatten[i]]
  <2>16. f[0] = << >> /\ \A i \in D : f[i] = flatten[i]
    BY <1>1
  <2>17. \A i \in 0..Len(seqs) : i = 0 \/ i \in D
    BY <1>1
  <2> HIDE DEF f
  <2>18. ASSUME NEW i \in 0..Len(seqs)
         PROVE  f[i] \in Seq(S)
    <3>1. << >> \in Seq(S)
      OBVIOUS
    <3>2. QED
      BY <2>15, <2>16, <2>17, <3>1
  <2>19. ASSUME NEW i \in D
         PROVE  f[i] = f[i - 1] \o seqs[i]
    <3>1. CASE i = 1
      <4>1. f[i] = seqs[1] /\ f[i - 1] = << >> /\ seqs[1] \in Seq(S)
        BY <1>1, <2>11, <2>16, <3>1
      <4>2. QED
        BY <3>1, <4>1
    <3>2. CASE i # 1
      <4>1. i - 1 \in D
        BY <1>1, <3>2
      <4>2. QED
        BY <2>11, <2>16, <3>2, <4>1
    <3>3. QED
      BY <3>1, <3>2
  <2>20. Flattens(f, seqs, S)
    BY <2>16, <2>18, <2>19 DEF Flattens
  <2>21. f[Len(seqs)] = flatten[Len(seqs)]
    BY <1>1, <1>3, <2>16
  <2>22. QED
    BY <2>10, <2>20, <2>21
<1>4. QED
  BY <1>2, <1>3

(* What is there is not changed by what comes after it.                    *)
LEMMA FlattenedBefore ==
  ASSUME NEW S, NEW seqs \in Seq(Seq(S)), NEW f, Flattens(f, seqs, S),
         NEW i \in 0..Len(seqs), NEW n, n = Len(seqs)
  PROVE  /\ Len(f[i]) \in Nat /\ Len(f[i]) <= Len(f[n])
         /\ \A k \in 1..Len(f[i]) : f[n][k] = f[i][k]
<1>1. n \in Nat /\ i \in Nat /\ i <= n
  OBVIOUS
<1> DEFINE T == {d \in Nat : i + d <= n =>
                   /\ Len(f[i]) <= Len(f[i + d])
                   /\ \A k \in 1..Len(f[i]) : f[i + d][k] = f[i][k]}
<1>2. 0 \in T
  <2>1. i + 0 = i
    BY <1>1
  <2>2. Len(f[i]) \in Nat
    BY DEF Flattens
  <2>3. QED
    BY <2>1, <2>2
<1>3. ASSUME NEW d \in Nat, d \in T
      PROVE  d + 1 \in T
  <2>1. SUFFICES ASSUME i + (d + 1) <= n
                 PROVE  /\ Len(f[i]) <= Len(f[i + (d + 1)])
                        /\ \A k \in 1..Len(f[i]) : f[i + (d + 1)][k] = f[i][k]
    OBVIOUS
  <2> DEFINE j == i + d
  <2>2. /\ j \in 0..n /\ j + 1 \in 1..n /\ i + (d + 1) = j + 1 /\ (j + 1) - 1 = j
        /\ i \in 0..n
    BY <1>1, <2>1
  <2>3. /\ Len(f[i]) <= Len(f[j])
        /\ \A k \in 1..Len(f[i]) : f[j][k] = f[i][k]
    BY <1>1, <1>3, <2>2
  <2> HIDE DEF j
  <2>4. f[j + 1] = f[j] \o seqs[j + 1]
    BY <2>2 DEF Flattens
  <2>5. f[j] \in Seq(S) /\ seqs[j + 1] \in Seq(S) /\ f[i] \in Seq(S)
    BY <2>2 DEF Flattens
  <2>6. PICK a \in Seq(S), b \in Seq(S), c \in Seq(S) :
          a = f[j] /\ b = seqs[j + 1] /\ c = f[i]
    BY <2>5
  <2>7. /\ Len(c) <= Len(a \o b)
        /\ \A k \in 1..Len(c) : (a \o b)[k] = c[k]
    <3>1. /\ Len(a \o b) = Len(a) + Len(b) /\ Len(a) \in Nat /\ Len(b) \in Nat
          /\ Len(c) \in Nat /\ \A k \in 1..Len(a) : (a \o b)[k] = a[k]
      OBVIOUS
    <3>4. Len(c) <= Len(a)
      BY <2>3, <2>6
    <3>2. \A k \in 1..Len(c) : k \in 1..Len(a) /\ a[k] = c[k]
      BY <2>3, <2>6, <3>1, <3>4
    <3>3. QED
      BY <3>1, <3>2, <3>4
  <2>8. QED
    BY <2>2, <2>4, <2>6, <2>7
<1>4. n - i \in Nat /\ i + (n - i) = n
  BY <1>1
<1>5. n - i \in T
  <2> HIDE DEF T
  <2> QED
    BY <1>2, <1>3, <1>4, Induction
<1>6. Len(f[i]) \in Nat
  BY DEF Flattens
<1>7. QED
  BY <1>1, <1>4, <1>5, <1>6

(* The component made at a place of the list adds what C++ links there.    *)
LEMMA ComponentIs ==
  ASSUME NEW mf, WellFormed(mf), NEW i \in 1..Len(mf.value)
  PROVE  /\ mf.value[i] = "#" => ComponentOf(mf, i) = << >>
         /\ mf.value[i] = "##" =>
              \E c : ComponentOf(mf, i) = <<c>> /\ c.tag = "PASTE"
         /\ i \in Links(mf) =>
              \E c : /\ ComponentOf(mf, i) = <<c>> /\ c.tag # "PASTE"
                     /\ \A args, evald : Added(c, args, evald) = Link(mf, args, evald, i)
<1> DEFINE t == mf.value[i]
           p == Index(mf, t)
<1>1. /\ mf.params \in Seq(STRING) /\ t # Empty
      /\ i \in Links(mf) <=> t # "#" /\ t # "##"
  BY ListTyped
<1>2. p \in Nat
  BY <1>1, Indexed
<1>3. t = "#" => ComponentOf(mf, i) = << >>
  BY DEF ComponentOf
<1>4. ASSUME t = "##"
      PROVE  \E c : ComponentOf(mf, i) = <<c>> /\ c.tag = "PASTE"
  <2>1. ComponentOf(mf, i) = <<Component("PASTE", Empty, 0)>>
    BY <1>4 DEF ComponentOf
  <2>2. Component("PASTE", Empty, 0).tag = "PASTE"
    BY DEF Component
  <2>3. QED
    BY <2>1, <2>2
<1>5. ASSUME t # "#", t # "##"
      PROVE  \E c : /\ ComponentOf(mf, i) = <<c>> /\ c.tag # "PASTE"
                    /\ \A args, evald : Added(c, args, evald) = Link(mf, args, evald, i)
  <2>1. CASE Holds(mf.value, i - 1, "#")
    <3> DEFINE c == Component("STRINGIFY", Empty, p)
    <3>1. ComponentOf(mf, i) = <<c>>
      BY <1>5, <2>1 DEF ComponentOf
    <3>2. c.tag = "STRINGIFY" /\ c.index = p
      BY DEF Component
    <3>3. p # 0
      <4>1. i - 1 \in 1..Len(mf.value) /\ mf.value[i - 1] = "#" /\ (i - 1) + 1 = i
        BY <2>1, ListTyped DEF Holds
      <4>2. t \in Range(mf.params)
        <5>1. mf.value[(i - 1) + 1] \in Range(mf.params)
          BY <4>1, OperatorsInside
        <5>2. QED
          BY <4>1, <5>1
      <4>3. QED
        BY <1>1, <4>2, Indexed
    <3> HIDE DEF c
    <3>4. ASSUME NEW args, NEW evald
          PROVE  Added(c, args, evald) = Link(mf, args, evald, i)
      <4>1. Added(c, args, evald) = IF p > Len(args) THEN << >> ELSE <<Quoted(args[p])>>
        BY <3>2 DEF Added
      <4>2. Link(mf, args, evald, i) = IF p > Len(args) THEN << >> ELSE <<Quoted(args[p])>>
        BY <2>1, <3>3 DEF Link
      <4>3. QED
        BY <4>1, <4>2
    <3>5. QED
      BY <3>1, <3>2, <3>4
  <2>2. CASE ~Holds(mf.value, i - 1, "#") /\ p = 0
    <3> DEFINE c == Component("TOKEN_SPAN", t, 0)
    <3>1. ComponentOf(mf, i) = <<c>>
      BY <1>5, <2>2 DEF ComponentOf
    <3>2. c.tag = "TOKEN_SPAN" /\ c.token = t
      BY DEF Component
    <3> HIDE DEF c
    <3>3. ASSUME NEW args, NEW evald
          PROVE  Added(c, args, evald) = Link(mf, args, evald, i)
      BY <2>2, <3>2 DEF Added, Link
    <3>4. QED
      BY <3>1, <3>2, <3>3
  <2>3. CASE ~Holds(mf.value, i - 1, "#") /\ p # 0 /\ Operand(mf.value, i)
    <3> DEFINE c == Component("RAW_ARGUMENT", Empty, p)
    <3>1. ComponentOf(mf, i) = <<c>>
      BY <1>5, <2>3 DEF ComponentOf
    <3>2. c.tag = "RAW_ARGUMENT" /\ c.index = p
      BY DEF Component
    <3> HIDE DEF c
    <3>3. ASSUME NEW args, NEW evald
          PROVE  Added(c, args, evald) = Link(mf, args, evald, i)
      <4>1. Added(c, args, evald) = IF p > Len(args) THEN << >> ELSE args[p]
        BY <3>2 DEF Added
      <4>2. Link(mf, args, evald, i) = IF p > Len(args) THEN << >> ELSE args[p]
        BY <2>3 DEF Link, Operand
      <4>3. QED
        BY <4>1, <4>2
    <3>4. QED
      BY <3>1, <3>2, <3>3
  <2>4. CASE ~Holds(mf.value, i - 1, "#") /\ p # 0 /\ ~Operand(mf.value, i)
    <3> DEFINE c == Component("EXPANDED_ARGUMENT", Empty, p)
    <3>1. ComponentOf(mf, i) = <<c>>
      BY <1>5, <2>4 DEF ComponentOf
    <3>2. c.tag = "EXPANDED_ARGUMENT" /\ c.index = p
      BY DEF Component
    <3> HIDE DEF c
    <3>3. ASSUME NEW args, NEW evald
          PROVE  Added(c, args, evald) = Link(mf, args, evald, i)
      <4>1. Added(c, args, evald) = IF p > Len(args) THEN << >> ELSE evald[p]
        BY <3>2 DEF Added
      <4>2. Link(mf, args, evald, i) = IF p > Len(args) THEN << >> ELSE evald[p]
        BY <2>4 DEF Link, Operand
      <4>3. QED
        BY <4>1, <4>2
    <3>4. QED
      BY <3>1, <3>2, <3>3
  <2>5. QED
    BY <2>1, <2>2, <2>3, <2>4
<1>6. QED
  BY <1>1, <1>3, <1>4, <1>5

(* The list after a component.                                             *)
Substitutes(g, parts, args, evald, m) ==
  /\ g = [i \in 0..m |-> g[i]]
  /\ \A i \in 0..m :
       g[i] = IF i = 0 THEN [res |-> << >>, paste_next |-> FALSE]
              ELSE IF parts[i].tag = "PASTE" THEN [g[i - 1] EXCEPT !.paste_next = TRUE]
              ELSE LET so_far == g[i - 1]
                   IN  [res |-> append_or_paste(so_far.res, Added(parts[i], args, evald),
                                                so_far.paste_next),
                        paste_next |-> FALSE]

LEMMA SubstitutesExist ==
  ASSUME NEW parts, NEW args, NEW evald, NEW n \in Nat
  PROVE  \E g : Substitutes(g, parts, args, evald, n)
<1> DEFINE First == [res |-> << >>, paste_next |-> FALSE]
           Further(old, i) ==
             IF parts[i].tag = "PASTE" THEN [old EXCEPT !.paste_next = TRUE]
             ELSE LET so_far == old
                  IN  [res |-> append_or_paste(so_far.res, Added(parts[i], args, evald),
                                               so_far.paste_next),
                       paste_next |-> FALSE]
<1>1. \A g, m : Substitutes(g, parts, args, evald, m) <=>
        /\ g = [i \in 0..m |-> g[i]]
        /\ \A i \in 0..m : g[i] = IF i = 0 THEN First ELSE Further(g[i - 1], i)
  BY Zenon DEF Substitutes
<1> HIDE DEF First, Further
<1> DEFINE T == {m \in Nat : \E g : Substitutes(g, parts, args, evald, m)}
<1>2. 0 \in T
  <2> DEFINE g == [i \in 0..0 |-> First]
  <2>1. g = [i \in 0..0 |-> g[i]] /\ \A i \in 0..0 : i = 0 /\ g[i] = First
    OBVIOUS
  <2> HIDE DEF g
  <2>2. Substitutes(g, parts, args, evald, 0)
    BY <1>1, <2>1
  <2>3. QED
    BY <2>2
<1>3. ASSUME NEW m \in Nat, m \in T
      PROVE  m + 1 \in T
  <2>1. PICK g : Substitutes(g, parts, args, evald, m)
    BY <1>3
  <2>2. \A i \in 0..m : g[i] = IF i = 0 THEN First ELSE Further(g[i - 1], i)
    BY <1>1, <2>1
  <2> DEFINE last == Further(g[m], m + 1)
             h == [i \in 0..(m + 1) |-> IF i = m + 1 THEN last ELSE g[i]]
  <2>3. h = [i \in 0..(m + 1) |-> h[i]]
    OBVIOUS
  <2>4. h[m + 1] = last /\ \A i \in 0..m : h[i] = g[i]
    OBVIOUS
  <2>5. m + 1 # 0 /\ (m + 1) - 1 = m /\ m \in 0..m
    OBVIOUS
  <2> HIDE DEF h
  <2>6. ASSUME NEW i \in 0..(m + 1)
        PROVE  h[i] = IF i = 0 THEN First ELSE Further(h[i - 1], i)
    <3>1. CASE i = m + 1
      BY <2>4, <2>5, <3>1
    <3>2. CASE i \in 0..m
      <4>1. i # 0 => i - 1 \in 0..m
        BY <3>2
      <4>2. h[i] = g[i] /\ (i # 0 => h[i - 1] = g[i - 1])
        BY <2>4, <3>2, <4>1
      <4>3. QED
        BY <2>2, <3>2, <4>2
    <3>3. QED
      BY <3>1, <3>2
  <2>7. Substitutes(h, parts, args, evald, m + 1)
    BY <1>1, <2>3, <2>6
  <2>8. QED
    BY <2>7
<1>4. n \in T
  <2> HIDE DEF T
  <2> QED
    BY <1>2, <1>3, Induction
<1>5. QED
  BY <1>4

LEMMA PastesNext ==
  ASSUME NEW r, DOMAIN r = {"res", "paste_next"}
  PROVE  /\ [r EXCEPT !.paste_next = TRUE].res = r.res
         /\ DOMAIN [r EXCEPT !.paste_next = TRUE] = DOMAIN r
OBVIOUS

LEMMA OneFlattened ==
  ASSUME NEW S, NEW s \in Seq(S), NEW d, NEW t, t = s \o <<d>>, NEW parts,
         \A k \in 1..Len(t) : parts[k] = t[k]
  PROVE  Len(t) = Len(s) + 1 /\ parts[Len(t)] = d
<1>1. Sequence(s) /\ Sequence(<<d>>) /\ Len(<<d>>) = 1 /\ Len(s) \in Nat
  BY IsSequence, One
<1>2. /\ Len(t) = Len(s) + 1
      /\ \A i \in 1..1 : t[Len(s) + i] = <<d>>[i]
  BY <1>1, Concatenated
<1>3. t[Len(s) + 1] = d
  BY <1>2
<1>4. Len(s) + 1 \in 1..Len(t)
  BY <1>1, <1>2
<1>5. QED
  BY <1>2, <1>3, <1>4

(* What substitute_and_unroll makes of the list, place by place.           *)
LEMMA ListUnrolled ==
  ASSUME NEW mf, NEW args, NEW evald, WellFormed(mf)
  PROVE  \E r : /\ Progress(r, mf, args, evald)
                /\ substitute_and_unroll(mf, args, evald) = r[Len(mf.value)]
<1> DEFINE parts == componentize(mf)
           m == Len(parts)
           n == Len(mf.value)
           First == [res |-> << >>, paste_next |-> FALSE]
           Further(old, i) ==
             IF parts[i].tag = "PASTE" THEN [old EXCEPT !.paste_next = TRUE]
             ELSE LET so_far == old
                  IN  [res |-> append_or_paste(so_far.res, Added(parts[i], args, evald),
                                               so_far.paste_next),
                       paste_next |-> FALSE]
           after == CHOOSE g : g = [i \in 0..m |-> IF i = 0 THEN First ELSE Further(g[i - 1], i)]
           made == [i \in 1..n |-> ComponentOf(mf, i)]
           S == {ComponentOf(mf, i)[1] : i \in 1..n}
<1>1. substitute_and_unroll(mf, args, evald) = after[m].res
  BY Zenon DEF substitute_and_unroll
<1>2. \A g, k : Substitutes(g, parts, args, evald, k) <=>
        /\ g = [i \in 0..k |-> g[i]]
        /\ \A i \in 0..k : g[i] = IF i = 0 THEN First ELSE Further(g[i - 1], i)
  BY Zenon DEF Substitutes
<1>3. parts = FlattenSeq(made)
  BY Zenon DEF componentize
<1>4. n \in Nat /\ \A i \in 1..n : i \in Links(mf) <=> mf.value[i] # "#" /\ mf.value[i] # "##"
  BY ListTyped
<1>5. made \in Seq(Seq(S)) /\ Len(made) = n /\ \A i \in 1..n : made[i] = ComponentOf(mf, i)
  <2>1. ASSUME NEW i \in 1..n
        PROVE  ComponentOf(mf, i) \in Seq(S)
    <3>1. ComponentOf(mf, i) = << >> \/ \E c : ComponentOf(mf, i) = <<c>>
      BY <1>4, ComponentIs
    <3>2. ASSUME NEW c, ComponentOf(mf, i) = <<c>>
          PROVE  ComponentOf(mf, i) \in Seq(S)
      <4>1. <<c>>[1] = c
        OBVIOUS
      <4>2. ComponentOf(mf, i)[1] = c
        BY <3>2, <4>1
      <4>3. c \in S
        BY <4>2
      <4> HIDE DEF S
      <4>4. <<c>> \in Seq(S)
        BY <4>3
      <4>5. QED
        BY <3>2, <4>4
    <3>3. << >> \in Seq(S)
      OBVIOUS
    <3> HIDE DEF S
    <3>4. QED
      BY <3>1, <3>2, <3>3
  <2> HIDE DEF S
  <2>2. QED
    BY <1>4, <2>1
<1> HIDE DEF made, S
<1>6. PICK f : Flattens(f, made, S) /\ parts = f[n]
  BY <1>3, <1>5, Flattened
<1>7. ASSUME NEW i \in 0..n
      PROVE  /\ Len(f[i]) \in Nat /\ Len(f[i]) <= m
             /\ \A k \in 1..Len(f[i]) : parts[k] = f[i][k]
  <2> HIDE DEF parts, n
  <2>1. i \in 0..Len(made) /\ n = Len(made)
    BY <1>5
  <2>2. /\ Len(f[i]) \in Nat /\ Len(f[i]) <= Len(f[n])
        /\ \A k \in 1..Len(f[i]) : f[n][k] = f[i][k]
    BY <1>5, <1>6, <2>1, FlattenedBefore
  <2>3. QED
    BY <1>6, <2>2
<1> DEFINE c(i) == Len(f[i])
<1>8. c(0) = 0 /\ m = c(n)
  BY <1>6 DEF Flattens
<1>9. m \in Nat
  BY <1>4, <1>7
<1>10. PICK g : Substitutes(g, parts, args, evald, m)
  BY <1>9, SubstitutesExist
<1>f. /\ First.res = << >> /\ First.paste_next = FALSE
      /\ DOMAIN First = {"res", "paste_next"}
      /\ \A old, i :
           /\ parts[i].tag = "PASTE" => Further(old, i) = [old EXCEPT !.paste_next = TRUE]
           /\ parts[i].tag # "PASTE" =>
                Further(old, i) = [res |-> append_or_paste(old.res, Added(parts[i], args, evald),
                                                           old.paste_next),
                                   paste_next |-> FALSE]
  <2> HIDE DEF parts
  <2>1. QED
    OBVIOUS
<1> HIDE DEF parts, First, Further
<1>11. g = [i \in 0..m |-> IF i = 0 THEN First ELSE Further(g[i - 1], i)]
  BY <1>2, <1>10
<1>12. after = [i \in 0..m |-> IF i = 0 THEN First ELSE Further(after[i - 1], i)]
  BY <1>11
<1> HIDE DEF after, m
<1>13. \A i \in 0..m : after[i] = IF i = 0 THEN First ELSE Further(after[i - 1], i)
  BY <1>12
<1>14. after[0] = First
  BY <1>9, <1>13
<1>15. \A r : DOMAIN [r EXCEPT !.paste_next = TRUE] = DOMAIN r
  OBVIOUS
<1> DEFINE Fine(i) == /\ DOMAIN after[c(i)] = {"res", "paste_next"}
                      /\ after[c(i)].paste_next = Linked(mf, i + 1)
<1>16. ASSUME NEW i \in 1..n, Fine(i - 1)
       PROVE  /\ Fine(i)
              /\ i \in Links(mf) =>
                   after[c(i)].res = append_or_paste(after[c(i - 1)].res, Link(mf, args, evald, i),
                                                     Linked(mf, i))
              /\ i \notin Links(mf) => after[c(i)].res = after[c(i - 1)].res
  <2>1. /\ i - 1 \in 0..n /\ i \in 0..n /\ (i - 1) + 1 = i /\ (i + 1) - 1 = i /\ (i + 1) - 2 = i - 1
        /\ i \in DOMAIN mf.value
    BY <1>4, ListTyped
  <2>2. f[i] = f[i - 1] \o ComponentOf(mf, i)
    BY <1>5, <1>6 DEF Flattens
  <2>3. f[i - 1] \in Seq(S)
    BY <1>5, <1>6, <2>1 DEF Flattens
  <2>4. Linked(mf, i + 1) = (\/ Holds(mf.value, i, "##")
                             \/ Holds(mf.value, i, "#") /\ Holds(mf.value, i - 1, "##"))
    BY <2>1 DEF Linked
  <2>5. after[c(i - 1)].paste_next = Linked(mf, i)
    BY <1>16, <2>1
  <2>6. CASE mf.value[i] = "#"
    <3>1. ComponentOf(mf, i) = << >>
      BY <2>6, ComponentIs
    <3>2. f[i] = f[i - 1]
      BY <2>2, <2>3, <3>1
    <3>3. ~Holds(mf.value, i - 1, "#")
      <4>1. SUFFICES ASSUME i - 1 \in DOMAIN mf.value, mf.value[i - 1] = "#" PROVE FALSE
        BY DEF Holds
      <4>2. i - 1 \in 1..n
        BY <4>1, ListTyped
      <4>3. i \in Links(mf)
        BY <2>1, <4>1, <4>2, OperatorsInside
      <4>4. QED
        BY <1>4, <2>6, <4>3
    <3>4. Linked(mf, i + 1) = Linked(mf, i)
      <4>1. ~Holds(mf.value, i, "##") /\ Holds(mf.value, i, "#")
        BY <2>1, <2>6 DEF Holds
      <4>2. QED
        BY <2>4, <3>3, <4>1 DEF Linked, Holds
    <3>5. i \notin Links(mf)
      BY <1>4, <2>6
    <3>6. QED
      BY <1>16, <2>1, <3>2, <3>4, <3>5
  <2>7. CASE mf.value[i] = "##"
    <3>1. PICK d : ComponentOf(mf, i) = <<d>> /\ d.tag = "PASTE"
      BY <2>7, ComponentIs
    <3>2. c(i) = c(i - 1) + 1 /\ parts[c(i)] = d
      BY <1>7, <2>1, <2>2, <2>3, <3>1, OneFlattened
    <3>3. c(i) \in 0..m /\ c(i) # 0 /\ c(i) - 1 = c(i - 1)
      BY <1>7, <1>9, <2>1, <3>2
    <3>8. after[c(i)] = Further(after[c(i - 1)], c(i))
      BY <1>13, <3>3
    <3>4. after[c(i)] = [after[c(i - 1)] EXCEPT !.paste_next = TRUE]
      BY <1>f, <3>1, <3>2, <3>8
    <3>5. Linked(mf, i + 1) = TRUE
      BY <2>1, <2>4, <2>7 DEF Holds
    <3>6. i \notin Links(mf)
      BY <1>4, <2>7
    <3>7. QED
      BY <1>15, <1>16, <3>4, <3>5, <3>6, PastesNext
  <2>8. CASE mf.value[i] # "#" /\ mf.value[i] # "##"
    <3>1. i \in Links(mf)
      BY <1>4, <2>8
    <3>2. PICK d : /\ ComponentOf(mf, i) = <<d>> /\ d.tag # "PASTE"
                   /\ \A as, es : Added(d, as, es) = Link(mf, as, es, i)
      BY <3>1, ComponentIs
    <3>3. c(i) = c(i - 1) + 1 /\ parts[c(i)] = d
      BY <1>7, <2>1, <2>2, <2>3, <3>2, OneFlattened
    <3>4. c(i) \in 0..m /\ c(i) # 0 /\ c(i) - 1 = c(i - 1)
      BY <1>7, <1>9, <2>1, <3>3
    <3> DEFINE list == append_or_paste(after[c(i - 1)].res, Link(mf, args, evald, i), Linked(mf, i))
    <3>9. after[c(i)] = Further(after[c(i - 1)], c(i))
      BY <1>13, <3>4
    <3>10. Added(parts[c(i)], args, evald) = Link(mf, args, evald, i)
      BY <3>2, <3>3
    <3>5. after[c(i)] = [res |-> list, paste_next |-> FALSE]
      <4>1. parts[c(i)].tag # "PASTE"
        BY <3>2, <3>3
      <4> DEFINE old == after[c(i - 1)]
                 k == c(i)
      <4>2. Further(old, k) =
              [res |-> append_or_paste(old.res, Added(parts[k], args, evald), old.paste_next),
               paste_next |-> FALSE]
        <5> HIDE DEF old, k
        <5>1. parts[k].tag # "PASTE"
          BY <4>1 DEF k
        <5>2. QED
          BY <1>f, <5>1
      <4>3. QED
        BY <2>5, <3>9, <3>10, <4>2
    <3> HIDE DEF list
    <3>6. Linked(mf, i + 1) = FALSE
      BY <2>4, <2>8 DEF Holds
    <3>7. after[c(i)].res = list /\ after[c(i)].paste_next = FALSE
          /\ DOMAIN after[c(i)] = {"res", "paste_next"}
      BY <3>5
    <3>8. QED
      BY <3>1, <3>6, <3>7 DEF list
  <2>9. QED
    BY <2>6, <2>7, <2>8
<1>17. Fine(0)
  <2>1. Linked(mf, 0 + 1) = FALSE
    <3>1. 0 \notin DOMAIN mf.value /\ (0 + 1) - 1 = 0
      BY <1>4, ListTyped
    <3>2. QED
      BY <3>1 DEF Linked, Holds
  <2>2. QED
    BY <1>8, <1>14, <1>f, <2>1
<1> HIDE DEF Fine
<1> DEFINE T == {i \in Nat : i <= n => Fine(i)}
<1>18. ASSUME NEW i \in Nat, i \in T
       PROVE  i + 1 \in T
  <2>1. SUFFICES ASSUME i + 1 <= n PROVE Fine(i + 1)
    OBVIOUS
  <2>2. i + 1 \in 1..n /\ (i + 1) - 1 = i /\ i <= n
    BY <1>4, <2>1
  <2>3. Fine((i + 1) - 1)
    BY <1>18, <2>2
  <2>4. QED
    BY <1>16, <2>2, <2>3
<1>19. 0 \in T
  BY <1>17
<1>20. \A i \in Nat : i \in T
  <2> HIDE DEF T
  <2> QED
    BY <1>18, <1>19, Induction
<1>21. \A i \in 1..n : Fine(i - 1)
  <2>1. SUFFICES ASSUME NEW i \in 1..n PROVE Fine(i - 1)
    OBVIOUS
  <2>2. i - 1 \in Nat /\ i - 1 <= n
    BY <1>4
  <2>3. i - 1 \in T
    BY <1>20, <2>2
  <2>4. QED
    BY <2>2, <2>3
<1> DEFINE r == [i \in 0..n |-> after[c(i)].res]
<1>22. /\ \A i \in 0..n : r[i] = after[c(i)].res
       /\ 0 \in 0..n /\ n \in 0..n /\ \A i \in 1..n : i \in 0..n /\ i - 1 \in 0..n
  BY <1>4
<1> HIDE DEF r
<1>23. r[0] = << >>
  BY <1>8, <1>14, <1>22, <1>f
<1>24. ASSUME NEW i \in 1..n
       PROVE  /\ i \in Links(mf) =>
                   r[i] = append_or_paste(r[i - 1], Link(mf, args, evald, i), Linked(mf, i))
              /\ i \notin Links(mf) => r[i] = r[i - 1]
  BY <1>16, <1>21, <1>22
<1>25. Progress(r, mf, args, evald)
  BY <1>23, <1>24 DEF Progress
<1>26. substitute_and_unroll(mf, args, evald) = r[n]
  BY <1>1, <1>8, <1>22 DEF m
<1>27. QED
  BY <1>25, <1>26

(* The arguments of a call, each a sequence of tokens.                     *)
Lists(args) == Sequence(args) /\ \A k \in 1..Len(args) : Words(args[k])

LEMMA QuotedWord ==
  ASSUME NEW s, Words(s)
  PROVE  Word(Quoted(s))
<1>1. SUFFICES ASSUME TextsConcatenate PROVE Quoted(s) \in STRING
  BY DEF Word
<1>2. s \in Seq(STRING) /\ Quote \in STRING
  BY <1>1, WordsOfStrings, ConstantsAssumption
<1> DEFINE n == Len(s)
           joined == CHOOSE g : g = [i \in 0..n |-> IF i = 0 THEN Quote ELSE g[i - 1] \o s[i]]
           D == 0..n
           base == [i \in D |-> Quote]
           down == [i \in D |-> i - 1]
           step == [i \in D |-> [v \in STRING |-> IF i = 0 THEN v ELSE v \o s[i]]]
<1>3. n \in Nat /\ \A i \in 1..n : s[i] \in STRING
  BY <1>2
<1>4. Descending(D, STRING, {0}, base, down, step)
  <2>1. base \in [D -> STRING]
    BY <1>2
  <2>2. ASSUME NEW i \in D, NEW v \in STRING
        PROVE  (IF i = 0 THEN v ELSE v \o s[i]) \in STRING
    <3>1. i = 0 \/ i \in 1..n
      BY <1>3
    <3>2. QED
      BY <1>1, <1>3, <3>1 DEF TextsConcatenate
  <2>3. step \in [D -> [STRING -> STRING]]
    BY <2>2
  <2>4. \A i \in D : i \notin {0} => down[i] \in D /\ down[i] < i
    BY <1>3
  <2> HIDE DEF D, base, down, step
  <2>5. QED
    BY <2>1, <2>3, <2>4 DEF Descending
<1>5. PICK g \in [D -> STRING] : Descends(g, D, {0}, base, down, step)
  <2>1. D \subseteq 0..n
    OBVIOUS
  <2> HIDE DEF D, base, down, step
  <2>2. QED
    BY <1>3, <1>4, <2>1, Descent
<1>6. \A i \in D : g[i] = IF i = 0 THEN Quote ELSE g[i - 1] \o s[i]
  <2>1. SUFFICES ASSUME NEW i \in D
                 PROVE  g[i] = IF i = 0 THEN Quote ELSE g[i - 1] \o s[i]
    OBVIOUS
  <2>2. g[i] = IF i \in {0} THEN base[i] ELSE step[i][g[down[i]]]
    <3> HIDE DEF D, base, down, step
    <3> QED
      BY <1>5, <2>1 DEF Descends
  <2>3. i = 0 \/ down[i] \in D
    BY <1>3
  <2>4. i = 0 \/ g[down[i]] \in STRING
    <3> HIDE DEF D, down
    <3> QED
      BY <2>3
  <2>5. QED
    BY <2>2, <2>4
<1>7. g = [i \in 0..n |-> IF i = 0 THEN Quote ELSE g[i - 1] \o s[i]]
  <2> HIDE DEF n
  <2> QED
    BY <1>6
<1>8. joined = [i \in 0..n |-> IF i = 0 THEN Quote ELSE joined[i - 1] \o s[i]]
  BY <1>7
<1>9. Quoted(s) = joined[n] \o Quote
  BY DEF Quoted
<1> HIDE DEF joined
<1>10. \A i \in 0..n : joined[i] = IF i = 0 THEN Quote ELSE joined[i - 1] \o s[i]
  BY <1>8
<1> DEFINE T == {i \in Nat : i <= n => joined[i] \in STRING}
<1>11. 0 \in T
  BY <1>2, <1>3, <1>10
<1>12. ASSUME NEW i \in Nat, i \in T
       PROVE  i + 1 \in T
  <2>1. SUFFICES ASSUME i + 1 <= n PROVE joined[i + 1] \in STRING
    OBVIOUS
  <2>2. i + 1 \in 0..n /\ i + 1 # 0 /\ (i + 1) - 1 = i /\ i <= n /\ i + 1 \in 1..n
    BY <1>3, <2>1
  <2>3. joined[i + 1] = joined[i] \o s[i + 1]
    BY <1>10, <2>2
  <2>4. joined[i] \in STRING /\ s[i + 1] \in STRING
    BY <1>3, <1>12, <2>2
  <2>5. QED
    BY <1>1, <2>3, <2>4 DEF TextsConcatenate
<1>13. n \in T
  <2> HIDE DEF T, n
  <2> QED
    BY <1>3, <1>11, <1>12, Induction
<1>14. QED
  BY <1>1, <1>2, <1>3, <1>9, <1>13 DEF TextsConcatenate

LEMMA LinkWords ==
  ASSUME NEW mf, NEW args, NEW evald, WellFormed(mf), Lists(args), Lists(evald),
         Len(args) <= Len(evald), NEW i \in Links(mf)
  PROVE  Words(Link(mf, args, evald, i))
<1> DEFINE p == Index(mf, mf.value[i])
<1>1. /\ i \in 1..Len(mf.value) /\ mf.value[i] \in STRING /\ mf.params \in Seq(STRING)
      /\ Len(args) \in Nat /\ Len(evald) \in Nat
  BY ListTyped, Indices DEF Lists
<1>2. p \in Nat
  BY <1>1, Indexed
<1>3. CASE p = 0
  <2>1. Link(mf, args, evald, i) = <<mf.value[i]>>
    BY <1>3 DEF Link
  <2>2. QED
    BY <1>1, <2>1, One DEF Word
<1>4. CASE p # 0 /\ p > Len(args)
  <2>1. Link(mf, args, evald, i) = << >>
    BY <1>4 DEF Link
  <2>2. QED
    BY <2>1, NoWords
<1>5. CASE p # 0 /\ ~(p > Len(args))
  <2>1. p \in 1..Len(args) /\ p \in 1..Len(evald)
    BY <1>1, <1>2, <1>5
  <2>2. Words(args[p]) /\ Words(evald[p])
    BY <2>1 DEF Lists
  <2>3. Words(<<Quoted(args[p])>>)
    BY <2>2, QuotedWord, One
  <2>4. \/ Link(mf, args, evald, i) = <<Quoted(args[p])>>
        \/ Link(mf, args, evald, i) = args[p]
        \/ Link(mf, args, evald, i) = evald[p]
    BY <1>5 DEF Link
  <2>5. QED
    BY <2>2, <2>3, <2>4
<1>6. QED
  BY <1>3, <1>4, <1>5

(* The list stays a sequence of tokens.                                    *)
LEMMA ProgressWords ==
  ASSUME NEW r, NEW mf, NEW args, NEW evald, WellFormed(mf), Progress(r, mf, args, evald),
         \A i \in Links(mf) : Words(Link(mf, args, evald, i))
  PROVE  \A i \in 0..Len(mf.value) : Words(r[i])
<1>1. Len(mf.value) \in Nat
  BY ListTyped
<1> DEFINE T == {i \in Nat : i <= Len(mf.value) => Words(r[i])}
<1>2. 0 \in T
  BY NoWords DEF Progress
<1>3. ASSUME NEW i \in Nat, i \in T
      PROVE  i + 1 \in T
  <2>1. SUFFICES ASSUME i + 1 <= Len(mf.value) PROVE Words(r[i + 1])
    OBVIOUS
  <2>2. i + 1 \in 1..Len(mf.value) /\ (i + 1) - 1 = i /\ i <= Len(mf.value)
    BY <1>1, <2>1
  <2>3. Words(r[i])
    BY <1>3, <2>2
  <2>4. /\ i + 1 \in Links(mf) =>
             r[i + 1] = append_or_paste(r[i], Link(mf, args, evald, i + 1), Linked(mf, i + 1))
        /\ i + 1 \notin Links(mf) => r[i + 1] = r[i]
    BY <2>2 DEF Progress
  <2>5. QED
    BY <2>3, <2>4, Pasted
<1>4. \A i \in Nat : i \in T
  <2> HIDE DEF T
  <2> QED
    BY <1>2, <1>3, Induction
<1>5. QED
  BY <1>1, <1>4

LEMMA ListMade ==
  ASSUME NEW mf, NEW args, NEW evald, WellFormed(mf),
         ~mf.is_function => args = << >> /\ evald = << >>
  PROVE  \E r : /\ Progress(r, mf, args, evald)
                /\ Substituted(mf, args, evald) = r[Len(mf.value)]
<1>1. CASE mf.is_function
  <2>1. Substituted(mf, args, evald) = substitute_and_unroll(mf, args, evald)
    BY <1>1 DEF Substituted
  <2>2. QED
    BY <2>1, ListUnrolled
<1>2. CASE ~mf.is_function
  <2>1. Substituted(mf, args, evald) = evaluate_concats(mf)
    BY <1>2 DEF Substituted
  <2>2. QED
    BY <1>2, <2>1, ListEvaluated
<1>3. QED
  BY <1>1, <1>2

LEMMA SubstitutedSequence ==
  ASSUME NEW mf, NEW args, NEW evald, WellFormed(mf),
         Lists(args), Lists(evald), Len(args) <= Len(evald),
         ~mf.is_function => args = << >> /\ evald = << >>
  PROVE  Words(Substituted(mf, args, evald))
<1>1. PICK r : /\ Progress(r, mf, args, evald)
               /\ Substituted(mf, args, evald) = r[Len(mf.value)]
  BY ListMade
<1>2. \A i \in Links(mf) : Words(Link(mf, args, evald, i))
  BY LinkWords
<1>3. Len(mf.value) \in 0..Len(mf.value)
  BY ListTyped
<1>4. QED
  BY <1>1, <1>2, <1>3, ProgressWords

-----------------------------------------------------------------------------
(* That it is what C++ makes of the list.                                  *)

(* Two links of a chain that are not empty.                                *)
LEMMA Joined ==
  ASSUME NEW l, NEW r, l \in Seq(STRING), r \in Seq(STRING), l # << >>, r # << >>,
         TextsConcatenate
  PROVE  /\ Join(l, r) \in Seq(STRING) /\ Join(l, r) # << >>
         /\ Len(l) \in Nat \ {0} /\ Len(r) \in Nat \ {0}
         /\ Len(Join(l, r)) = Len(l) + Len(r) - 1
         /\ \A i \in 1..(Len(l) - 1) : Join(l, r)[i] = l[i]
         /\ Join(l, r)[Len(l)] = l[Len(l)] \o r[1]
         /\ \A i \in (Len(l) + 1)..(Len(l) + Len(r) - 1) : Join(l, r)[i] = r[i - Len(l) + 1]
<1> DEFINE a == Front(l)
           e == l[Len(l)] \o r[1]
           c == Tail(r)
<1>1. /\ Len(l) \in Nat \ {0} /\ Len(r) \in Nat \ {0} /\ Sequence(l) /\ Sequence(r)
      /\ l[Len(l)] \in STRING /\ r[1] \in STRING
  BY IsSequence
<1>2. /\ Sequence(a) /\ Len(a) = Len(l) - 1 /\ Last(l) = l[Len(l)]
      /\ \A i \in 1..(Len(l) - 1) : a[i] = l[i]
  BY <1>1, InFront
<1>3. /\ Sequence(c) /\ Len(c) = Len(r) - 1 /\ Head(r) = r[1]
      /\ \A i \in 1..Len(c) : c[i] = r[i + 1]
  BY <1>1, InRest
<1>4. e \in STRING
  BY <1>1 DEF TextsConcatenate
<1>5. Join(l, r) = a \o <<e>> \o c
  BY <1>2, <1>3 DEF Join
<1>6. a \in Seq(STRING) /\ c \in Seq(STRING)
  <2>1. Words(l) /\ Words(r)
    BY WordsOfStrings
  <2>2. QED
    BY <2>1, WordsInside, WordsOfStrings
<1> HIDE DEF a, e, c
<1>7. PICK x \in Seq(STRING), y \in Seq(STRING), d \in STRING : x = a /\ y = c /\ d = e
  BY <1>4, <1>6
<1>8. /\ x \o <<d>> \in Seq(STRING) /\ Len(x \o <<d>>) = Len(x) + 1
      /\ \A i \in 1..Len(x) : (x \o <<d>>)[i] = x[i]
      /\ (x \o <<d>>)[Len(x) + 1] = d
      /\ Len(x) \in Nat /\ Len(y) \in Nat
  <2>1. PICK o \in Seq(STRING) : o = <<d>> /\ Len(o) = 1 /\ o[1] = d
    <3>1. Words(<<d>>)
      BY One DEF Word
    <3>2. <<d>> \in Seq(STRING)
      BY <3>1, WordsOfStrings
    <3>3. Len(<<d>>) = 1 /\ <<d>>[1] = d
      OBVIOUS
    <3>4. QED
      BY <3>2, <3>3
  <2>2. /\ x \o o \in Seq(STRING) /\ Len(x \o o) = Len(x) + Len(o)
        /\ \A i \in 1..Len(x) : (x \o o)[i] = x[i]
        /\ \A i \in (Len(x) + 1)..(Len(x) + Len(o)) : (x \o o)[i] = o[i - Len(x)]
        /\ Len(x) \in Nat /\ Len(y) \in Nat
    OBVIOUS
  <2>3. (x \o o)[Len(x) + 1] = o[1]
    <3>1. Len(x) + 1 \in (Len(x) + 1)..(Len(x) + Len(o)) /\ (Len(x) + 1) - Len(x) = 1
      BY <2>1, <2>2
    <3>2. QED
      BY <2>2, <3>1
  <2>4. QED
    BY <2>1, <2>2, <2>3
<1>9. PICK z \in Seq(STRING) : z = x \o <<d>>
  BY <1>8
<1>10. /\ z \o y \in Seq(STRING) /\ Len(z \o y) = Len(z) + Len(y)
       /\ \A i \in 1..Len(z) : (z \o y)[i] = z[i]
       /\ \A i \in (Len(z) + 1)..(Len(z) + Len(y)) : (z \o y)[i] = y[i - Len(z)]
  OBVIOUS
<1>11. Join(l, r) = z \o y
  BY <1>5, <1>7, <1>9
<1>12. /\ Len(z) = Len(l) /\ Len(y) = Len(r) - 1
       /\ z[Len(l)] = l[Len(l)] \o r[1]
       /\ \A i \in 1..(Len(l) - 1) : z[i] = l[i]
  <2>1. Len(x) = Len(l) - 1 /\ Len(x) + 1 = Len(l)
    BY <1>1, <1>2, <1>7
  <2>2. d = l[Len(l)] \o r[1]
    BY <1>7 DEF e
  <2>3. QED
    BY <1>2, <1>3, <1>7, <1>8, <1>9, <2>1, <2>2
<1>13. ASSUME NEW i \in (Len(l) + 1)..(Len(l) + Len(r) - 1)
       PROVE  (z \o y)[i] = r[i - Len(l) + 1]
  <2>1. i - Len(l) \in 1..Len(y) /\ i \in (Len(z) + 1)..(Len(z) + Len(y))
    BY <1>1, <1>12
  <2>2. (z \o y)[i] = y[i - Len(l)]
    BY <1>10, <1>12, <2>1
  <2>3. y[i - Len(l)] = r[i - Len(l) + 1]
    BY <1>3, <1>7, <2>1
  <2>4. QED
    BY <2>2, <2>3
<1>14. /\ Len(l) \in 1..Len(z) /\ Len(z \o y) = Len(l) + Len(r) - 1
       /\ \A i \in 1..(Len(l) - 1) : i \in 1..Len(z)
  BY <1>1, <1>10, <1>12
<1>15. z \o y # << >>
  <2>1. Len(z \o y) # 0
    BY <1>1, <1>14
  <2>2. QED
    BY <1>10, <2>1
<1>16. QED
  BY <1>1, <1>10, <1>11, <1>12, <1>13, <1>14, <1>15

LEMMA JoinTyped ==
  ASSUME NEW l, NEW r, l \in Seq(STRING), r \in Seq(STRING), TextsConcatenate
  PROVE  /\ Join(l, r) \in Seq(STRING)
         /\ l # << >> => Join(l, r) # << >>
         /\ l = << >> => Join(l, r) = r
         /\ r = << >> => Join(l, r) = l
         /\ append_or_paste(l, r, TRUE) = Join(l, r)
         /\ append_or_paste(l, r, FALSE) = l \o r
<1>1. /\ append_or_paste(l, r, TRUE) = Join(l, r)
      /\ append_or_paste(l, r, FALSE) = l \o r
  BY DEF append_or_paste, Join
<1>2. CASE l = << >>
  <2>1. Join(l, r) = << >> \o r
    BY <1>2 DEF Join
  <2>2. << >> \o r = r
    OBVIOUS
  <2>3. QED
    BY <1>1, <1>2, <2>1, <2>2
<1>3. CASE l # << >> /\ r = << >>
  <2>1. Join(l, r) = l \o << >>
    BY <1>3 DEF Join
  <2>2. l \o << >> = l
    OBVIOUS
  <2>3. QED
    BY <1>1, <1>3, <2>1, <2>2
<1>4. CASE l # << >> /\ r # << >>
  BY <1>1, <1>4, Joined
<1>5. QED
  BY <1>2, <1>3, <1>4

LEMMA SameTexts ==
  ASSUME NEW s \in Seq(STRING), NEW t \in Seq(STRING), Len(s) = Len(t),
         \A i \in 1..Len(s) : s[i] = t[i]
  PROVE  s = t
BY IsSequence, Same

(* Pasting is associative, and so is joining.                              *)
LEMMA JoinAssociates ==
  ASSUME NEW a, NEW b, NEW c, a \in Seq(STRING), b \in Seq(STRING), c \in Seq(STRING),
         TextsConcatenate
  PROVE  Join(Join(a, b), c) = Join(a, Join(b, c))
<1>0. Join(a, b) \in Seq(STRING) /\ Join(b, c) \in Seq(STRING)
  BY JoinTyped
<1>1. CASE a = << >> \/ b = << >> \/ c = << >>
  <2>1. CASE a = << >>
    <3>1. Join(a, b) = b /\ Join(a, Join(b, c)) = Join(b, c)
      BY <1>0, <2>1, JoinTyped
    <3>2. QED
      BY <3>1
  <2>2. CASE b = << >>
    <3>1. Join(a, b) = a /\ Join(b, c) = c
      BY <2>2, JoinTyped
    <3>2. QED
      BY <3>1
  <2>3. CASE c = << >>
    <3>1. Join(Join(a, b), c) = Join(a, b) /\ Join(b, c) = b
      BY <1>0, <2>3, JoinTyped
    <3>2. QED
      BY <3>1
  <2>4. QED
    BY <1>1, <2>1, <2>2, <2>3
<1>2. CASE a # << >> /\ b # << >> /\ c # << >>
  <2> DEFINE ab == Join(a, b)
             bc == Join(b, c)
             x == Join(ab, c)
             y == Join(a, bc)
             p == Len(a)
             q == Len(b)
             n == Len(c)
  <2>1. /\ ab \in Seq(STRING) /\ ab # << >> /\ Len(ab) = p + q - 1
        /\ p \in Nat \ {0} /\ q \in Nat \ {0}
        /\ \A i \in 1..(p - 1) : ab[i] = a[i]
        /\ ab[p] = a[p] \o b[1]
        /\ \A i \in (p + 1)..(p + q - 1) : ab[i] = b[i - p + 1]
    BY <1>2, Joined
  <2>2. /\ bc \in Seq(STRING) /\ bc # << >> /\ Len(bc) = q + n - 1
        /\ n \in Nat \ {0}
        /\ \A i \in 1..(q - 1) : bc[i] = b[i]
        /\ bc[q] = b[q] \o c[1]
        /\ \A i \in (q + 1)..(q + n - 1) : bc[i] = c[i - q + 1]
    BY <1>2, Joined
  <2> HIDE DEF ab, bc
  <2>3. /\ x \in Seq(STRING) /\ Len(x) = (p + q - 1) + n - 1
        /\ \A i \in 1..((p + q - 1) - 1) : x[i] = ab[i]
        /\ x[p + q - 1] = ab[p + q - 1] \o c[1]
        /\ \A i \in ((p + q - 1) + 1)..((p + q - 1) + n - 1) : x[i] = c[i - (p + q - 1) + 1]
    <3>1. /\ x \in Seq(STRING) /\ Len(x) = Len(ab) + n - 1
          /\ \A i \in 1..(Len(ab) - 1) : x[i] = ab[i]
          /\ x[Len(ab)] = ab[Len(ab)] \o c[1]
          /\ \A i \in (Len(ab) + 1)..(Len(ab) + n - 1) : x[i] = c[i - Len(ab) + 1]
      <4>1. ab \in Seq(STRING) /\ ab # << >> /\ c # << >>
        BY <1>0, <1>2, <2>1 DEF ab
      <4>2. PICK u : u = ab
        OBVIOUS
      <4>3. /\ Join(u, c) \in Seq(STRING) /\ Len(Join(u, c)) = Len(u) + Len(c) - 1
            /\ \A i \in 1..(Len(u) - 1) : Join(u, c)[i] = u[i]
            /\ Join(u, c)[Len(u)] = u[Len(u)] \o c[1]
            /\ \A i \in (Len(u) + 1)..(Len(u) + Len(c) - 1) : Join(u, c)[i] = c[i - Len(u) + 1]
        BY <4>1, <4>2, Joined
      <4>4. QED
        BY <4>2, <4>3
    <3> HIDE DEF x, p, q, n
    <3>2. QED
      BY <2>1, <3>1
  <2>4. /\ y \in Seq(STRING) /\ Len(y) = p + (q + n - 1) - 1
        /\ \A i \in 1..(p - 1) : y[i] = a[i]
        /\ y[p] = a[p] \o bc[1]
        /\ \A i \in (p + 1)..(p + (q + n - 1) - 1) : y[i] = bc[i - p + 1]
    <3>1. /\ y \in Seq(STRING) /\ Len(y) = p + Len(bc) - 1
          /\ \A i \in 1..(p - 1) : y[i] = a[i]
          /\ y[p] = a[p] \o bc[1]
          /\ \A i \in (p + 1)..(p + Len(bc) - 1) : y[i] = bc[i - p + 1]
      <4>1. bc \in Seq(STRING) /\ bc # << >> /\ a # << >>
        BY <1>0, <1>2, <2>2 DEF bc
      <4>2. PICK u : u = bc
        OBVIOUS
      <4>3. /\ Join(a, u) \in Seq(STRING) /\ Len(Join(a, u)) = Len(a) + Len(u) - 1
            /\ \A i \in 1..(Len(a) - 1) : Join(a, u)[i] = a[i]
            /\ Join(a, u)[Len(a)] = a[Len(a)] \o u[1]
            /\ \A i \in (Len(a) + 1)..(Len(a) + Len(u) - 1) : Join(a, u)[i] = u[i - Len(a) + 1]
        BY <4>1, <4>2, Joined
      <4>4. QED
        BY <4>2, <4>3
    <3> HIDE DEF y, p, q, n
    <3>2. QED
      BY <2>2, <3>1
  <2>5. a[p] \in STRING /\ b[1] \in STRING /\ c[1] \in STRING
    BY <2>1, <2>2
  <2> HIDE DEF x, y, p, q, n
  <2>6. Len(x) = Len(y) /\ Len(x) = p + q + n - 2
    BY <2>1, <2>2, <2>3, <2>4
  <2>7. ASSUME NEW i \in 1..(p + q + n - 2)
        PROVE  x[i] = y[i]
    <3>1. CASE i < p
      <4>1. i \in 1..(p - 1) /\ i \in 1..((p + q - 1) - 1)
        BY <2>1, <2>2, <3>1
      <4>2. QED
        BY <2>1, <2>3, <2>4, <4>1
    <3>2. CASE i = p /\ q = 1
      <4>1. p + q - 1 = p
        BY <2>1, <3>2
      <4>2. x[i] = (a[p] \o b[1]) \o c[1]
        BY <2>1, <2>3, <3>2, <4>1
      <4>3. y[i] = a[p] \o (b[1] \o c[1])
        BY <2>2, <2>4, <3>2
      <4>4. QED
        BY <2>5, <4>2, <4>3 DEF TextsConcatenate
    <3>3. CASE i = p /\ q # 1
      <4>1. p \in 1..((p + q - 1) - 1) /\ 1 \in 1..(q - 1)
        BY <2>1, <3>3
      <4>2. x[i] = a[p] \o b[1]
        BY <2>1, <2>3, <3>3, <4>1
      <4>3. y[i] = a[p] \o b[1]
        BY <2>2, <2>4, <3>3, <4>1
      <4>4. QED
        BY <4>2, <4>3
    <3>4. CASE p < i /\ i < p + q - 1
      <4>1. /\ i \in 1..((p + q - 1) - 1) /\ i \in (p + 1)..(p + q - 1)
            /\ i \in (p + 1)..(p + (q + n - 1) - 1) /\ i - p + 1 \in 1..(q - 1)
        BY <2>1, <2>2, <3>4
      <4>2. x[i] = b[i - p + 1]
        BY <2>1, <2>3, <4>1
      <4>3. y[i] = b[i - p + 1]
        BY <2>2, <2>4, <4>1
      <4>4. QED
        BY <4>2, <4>3
    <3>5. CASE p < i /\ i = p + q - 1
      <4>1. /\ i \in (p + 1)..(p + q - 1) /\ i \in (p + 1)..(p + (q + n - 1) - 1)
            /\ i - p + 1 = q
        BY <2>1, <2>2, <3>5
      <4>2. x[i] = b[q] \o c[1]
        BY <2>1, <2>3, <3>5, <4>1
      <4>3. y[i] = b[q] \o c[1]
        BY <2>2, <2>4, <4>1
      <4>4. QED
        BY <4>2, <4>3
    <3>6. CASE p + q - 1 < i
      <4>1. /\ i \in ((p + q - 1) + 1)..((p + q - 1) + n - 1)
            /\ i \in (p + 1)..(p + (q + n - 1) - 1)
            /\ i - p + 1 \in (q + 1)..(q + n - 1)
            /\ (i - p + 1) - q + 1 = i - (p + q - 1) + 1
        BY <2>1, <2>2, <3>6
      <4>2. x[i] = c[i - (p + q - 1) + 1]
        BY <2>3, <4>1
      <4>3. y[i] = c[i - (p + q - 1) + 1]
        <5>1. y[i] = bc[i - p + 1]
          BY <2>4, <4>1
        <5>2. PICK k : k = i - p + 1
          OBVIOUS
        <5>3. bc[k] = c[k - q + 1]
          BY <2>2, <4>1, <5>2
        <5>4. QED
          BY <4>1, <5>1, <5>2, <5>3
      <4>4. QED
        BY <4>2, <4>3
    <3>7. p < i \/ i = p \/ i < p
      BY <2>1
    <3>8. i < p + q - 1 \/ i = p + q - 1 \/ p + q - 1 < i
      BY <2>1
    <3>9. QED
      BY <3>1, <3>2, <3>3, <3>4, <3>5, <3>6, <3>7, <3>8
  <2>8. x = y
    BY <2>3, <2>4, <2>6, <2>7, SameTexts
  <2>9. QED
    BY <2>8 DEF x, y, ab, bc
<1>3. QED
  BY <1>1, <1>2

(* A chain grows behind what stands before it.                             *)
LEMMA JoinedBehind ==
  ASSUME NEW b, NEW p, NEW l, b \in Seq(STRING), p \in Seq(STRING), l \in Seq(STRING),
         TextsConcatenate, p # << >> \/ b = << >>
  PROVE  Join(b \o p, l) = b \o Join(p, l)
<1>0. b \o p \in Seq(STRING) /\ Join(p, l) \in Seq(STRING)
  <2>1. b \o p \in Seq(STRING)
    OBVIOUS
  <2>2. QED
    BY <2>1, JoinTyped
<1>1. CASE b = << >>
  <2>1. << >> \o p = p /\ << >> \o Join(p, l) = Join(p, l)
    BY <1>0
  <2>2. QED
    BY <1>1, <2>1
<1>2. CASE l = << >>
  <2>1. Join(b \o p, l) = b \o p
    BY <1>0, <1>2, JoinTyped
  <2>2. Join(p, l) = p
    BY <1>2, JoinTyped
  <2>3. QED
    BY <2>1, <2>2
<1>3. CASE b # << >> /\ p # << >> /\ l # << >>
  <2> DEFINE m == Len(b)
             n == Len(p)
             k == Len(l)
             w == b \o p
             z == Join(p, l)
             x == Join(w, l)
             y == b \o z
  <2>1. /\ m \in Nat /\ n \in Nat \ {0} /\ k \in Nat \ {0} /\ Len(w) = m + n /\ w # << >>
        /\ \A i \in 1..m : w[i] = b[i]
        /\ \A i \in (m + 1)..(m + n) : w[i] = p[i - m]
    BY <1>3
  <2>2. /\ z \in Seq(STRING) /\ Len(z) = n + k - 1
        /\ \A i \in 1..(n - 1) : z[i] = p[i]
        /\ z[n] = p[n] \o l[1]
        /\ \A i \in (n + 1)..(n + k - 1) : z[i] = l[i - n + 1]
    BY <1>3, Joined
  <2> HIDE DEF w, z
  <2>3. /\ x \in Seq(STRING) /\ Len(x) = (m + n) + k - 1
        /\ \A i \in 1..((m + n) - 1) : x[i] = w[i]
        /\ x[m + n] = w[m + n] \o l[1]
        /\ \A i \in ((m + n) + 1)..((m + n) + k - 1) : x[i] = l[i - (m + n) + 1]
    <3>1. /\ x \in Seq(STRING) /\ Len(x) = Len(w) + k - 1
          /\ \A i \in 1..(Len(w) - 1) : x[i] = w[i]
          /\ x[Len(w)] = w[Len(w)] \o l[1]
          /\ \A i \in (Len(w) + 1)..(Len(w) + k - 1) : x[i] = l[i - Len(w) + 1]
      <4>1. w \in Seq(STRING)
        BY <1>0 DEF w
      <4>2. QED
        BY <1>3, <2>1, <4>1, Joined
    <3> HIDE DEF x, m, n, k
    <3>2. QED
      BY <2>1, <3>1
  <2>4. /\ y \in Seq(STRING) /\ Len(y) = m + (n + k - 1)
        /\ \A i \in 1..m : y[i] = b[i]
        /\ \A i \in (m + 1)..(m + (n + k - 1)) : y[i] = z[i - m]
    <3>1. PICK u \in Seq(STRING) : u = z
      BY <2>2
    <3>2. /\ b \o u \in Seq(STRING) /\ Len(b \o u) = Len(b) + Len(u)
          /\ \A i \in 1..Len(b) : (b \o u)[i] = b[i]
          /\ \A i \in (Len(b) + 1)..(Len(b) + Len(u)) : (b \o u)[i] = u[i - Len(b)]
      OBVIOUS
    <3>3. QED
      BY <2>2, <3>1, <3>2
  <2> HIDE DEF x, y, m, n, k
  <2>5. Len(x) = Len(y) /\ Len(x) = m + n + k - 1
    BY <2>1, <2>3, <2>4
  <2>6. ASSUME NEW i \in 1..(m + n + k - 1)
        PROVE  x[i] = y[i]
    <3>1. CASE i <= m
      <4>1. i \in 1..m /\ i \in 1..((m + n) - 1)
        BY <2>1, <3>1
      <4>2. QED
        BY <2>1, <2>3, <2>4, <4>1
    <3>2. CASE m < i /\ i < m + n
      <4>1. /\ i \in 1..((m + n) - 1) /\ i \in (m + 1)..(m + n)
            /\ i \in (m + 1)..(m + (n + k - 1)) /\ i - m \in 1..(n - 1)
        BY <2>1, <3>2
      <4>2. x[i] = p[i - m]
        BY <2>1, <2>3, <4>1
      <4>3. y[i] = p[i - m]
        BY <2>2, <2>4, <4>1
      <4>4. QED
        BY <4>2, <4>3
    <3>3. CASE i = m + n
      <4>1. /\ i \in (m + 1)..(m + n) /\ i \in (m + 1)..(m + (n + k - 1)) /\ i - m = n
        BY <2>1, <3>3
      <4>2. x[i] = p[n] \o l[1]
        BY <2>1, <2>3, <3>3, <4>1
      <4>3. y[i] = p[n] \o l[1]
        BY <2>2, <2>4, <4>1
      <4>4. QED
        BY <4>2, <4>3
    <3>4. CASE m + n < i
      <4>1. /\ i \in ((m + n) + 1)..((m + n) + k - 1)
            /\ i \in (m + 1)..(m + (n + k - 1))
            /\ i - m \in (n + 1)..(n + k - 1)
            /\ (i - m) - n + 1 = i - (m + n) + 1
        BY <2>1, <3>4
      <4>2. x[i] = l[i - (m + n) + 1]
        BY <2>3, <4>1
      <4>3. PICK j : j = i - m
        OBVIOUS
      <4>4. z[j] = l[j - n + 1]
        BY <2>2, <4>1, <4>3
      <4>5. y[i] = z[j]
        BY <2>4, <4>1, <4>3
      <4>6. QED
        BY <4>1, <4>2, <4>3, <4>4, <4>5
    <3>5. QED
      BY <2>1, <3>1, <3>2, <3>3, <3>4
  <2>7. x = y
    BY <2>3, <2>4, <2>5, <2>6, SameTexts
  <2>8. QED
    BY <2>7 DEF x, y, w, z
<1>4. QED
  BY <1>1, <1>2, <1>3

(* The chain from a place on: as it says, for no place is its own rest.    *)
Chained(mf, i) == i \in Links(mf) /\ Holds(mf.value, i + 1, "##")

LEMMA FollowingPlaces ==
  ASSUME NEW mf, WellFormed(mf), NEW i \in 1..Len(mf.value)
  PROVE  /\ i \notin Links(mf) => i + 1 \in 1..Len(mf.value)
         /\ Chained(mf, i) => i + 2 \in 1..Len(mf.value)
<1>1. /\ Len(mf.value) \in Nat /\ DOMAIN mf.value = 1..Len(mf.value)
      /\ \A j \in 1..Len(mf.value) :
           j \in Links(mf) <=> mf.value[j] # "#" /\ mf.value[j] # "##"
      /\ \A j : j \in Links(mf) => j \in 1..Len(mf.value)
  BY ListTyped
<1>2. ASSUME i \notin Links(mf)
      PROVE  i + 1 \in 1..Len(mf.value)
  <2>1. mf.value[i] = "#" \/ mf.value[i] = "##"
    BY <1>1, <1>2
  <2>2. QED
    BY <1>1, <2>1, OperatorsInside
<1>3. ASSUME Chained(mf, i)
      PROVE  i + 2 \in 1..Len(mf.value)
  <2>1. i + 1 \in 1..Len(mf.value) /\ mf.value[i + 1] = "##"
    BY <1>1, <1>3 DEF Chained, Holds
  <2>2. (i + 1) + 1 \in 1..Len(mf.value)
    BY <2>1, OperatorsInside
  <2>3. QED
    BY <2>2
<1>4. QED
  BY <1>2, <1>3

LEMMA ChainIs ==
  ASSUME NEW mf, NEW args, NEW evald, WellFormed(mf), TextsConcatenate,
         \A i \in Links(mf) : Words(Link(mf, args, evald, i)),
         NEW chain, chain = Chain(mf, args, evald)
  PROVE  \A i \in 1..Len(mf.value) :
           /\ chain[i] \in Seq(STRING)
           /\ i \notin Links(mf) => chain[i] = chain[i + 1]
           /\ Chained(mf, i) => chain[i] = Join(Link(mf, args, evald, i), chain[i + 2])
           /\ i \in Links(mf) /\ ~Chained(mf, i) => chain[i] = Link(mf, args, evald, i)
<1> DEFINE n == Len(mf.value)
           D == 1..n
           V == Seq(STRING)
           L == Links(mf)
           C == {i \in L : Chained(mf, i)}
           W(i) == Link(mf, args, evald, i)
           Value(g, i) == IF i \notin L THEN g[i + 1]
                          ELSE IF i \in C THEN Join(W(i), g[i + 2])
                          ELSE W(i)
           rank == [i \in D |-> n - i]
           step == [i \in D |-> [g \in [D -> V] |-> Value(g, i)]]
<1>1. /\ n \in Nat
      /\ \A i \in D : i \notin L => i + 1 \in D
      /\ \A i \in D : i \in C => i + 2 \in D
      /\ \A i \in D : i \in L => W(i) \in V
      /\ L \subseteq D
  <2>1. \A i \in L : W(i) \in V
    BY WordsOfStrings
  <2>2. QED
    BY <2>1, ListTyped, FollowingPlaces
<1>2. \A i \in D, g \in [D -> V] : Value(g, i) \in V
  <2>1. SUFFICES ASSUME NEW i \in D, NEW g \in [D -> V] PROVE Value(g, i) \in V
    OBVIOUS
  <2>2. CASE i \notin L
    BY <1>1, <2>2
  <2>3. CASE i \in C
    <3>1. g[i + 2] \in V /\ W(i) \in V
      BY <1>1, <2>3
    <3>2. Join(W(i), g[i + 2]) \in V
      <4> HIDE DEF W
      <4>1. PICK x : x = g[i + 2]
        OBVIOUS
      <4>2. PICK w : w = W(i)
        OBVIOUS
      <4>3. QED
        BY <3>1, <4>1, <4>2, JoinTyped
    <3>3. QED
      BY <2>3, <3>2
  <2>4. CASE i \in L /\ i \notin C
    BY <1>1, <2>4
  <2>5. QED
    BY <2>2, <2>3, <2>4
<1>3. rank \in [D -> 0..n]
  BY <1>1
<1>4. Ranked(D, V, rank, step)
  <2>1. step \in [D -> [[D -> V] -> V]]
    <3> HIDE DEF V, Value, D
    <3>1. QED
      BY <1>2
  <2>2. ASSUME NEW d \in D, NEW g \in [D -> V], NEW h \in [D -> V],
               \A c \in D : rank[c] < rank[d] => g[c] = h[c]
        PROVE  step[d][g] = step[d][h]
    <3>1. \A c \in D : d < c => g[c] = h[c]
      <4>1. \A c \in D : d < c => rank[c] < rank[d]
        BY <1>1
      <4>2. QED
        BY <2>2, <4>1
    <3>2. /\ d \notin L => g[d + 1] = h[d + 1]
          /\ d \in C => g[d + 2] = h[d + 2]
      <4>1. d < d + 1 /\ d < d + 2
        BY <1>1
      <4>2. QED
        BY <1>1, <3>1, <4>1
    <3>3. Value(g, d) = Value(h, d)
      BY <3>2
    <3> HIDE DEF V, Value, D
    <3>4. QED
      BY <3>3
  <2>3. QED
    BY <2>1, <2>2 DEF Ranked
<1>5. PICK g \in [D -> V] : \A d \in D : g[d] = step[d][g]
  <2>1. V # {}
    <3>1. << >> \in V
      OBVIOUS
    <3>2. QED
      BY <3>1
  <2> HIDE DEF D, V, step, rank
  <2>2. QED
    BY <1>1, <1>3, <1>4, <2>1, RankedDescent
<1>6. g = [i \in D |-> Value(g, i)]
  <2>1. \A i \in D : g[i] = Value(g, i)
    <3> HIDE DEF V, Value, D
    <3>1. QED
      BY <1>5
  <2> HIDE DEF D, V, Value
  <2>2. QED
    BY <2>1
<1> DEFINE Rest(f, i) == IF i \notin Links(mf) THEN f[i + 1]
                         ELSE IF Holds(mf.value, i + 1, "##")
                         THEN Join(Link(mf, args, evald, i), f[i + 2])
                         ELSE Link(mf, args, evald, i)
<1>7. \A f, i : Rest(f, i) = Value(f, i)
  BY Zenon DEF Chained
<1>8. chain = CHOOSE f : f = [i \in D |-> Rest(f, i)]
  BY DEF Chain
<1>9. g = [i \in D |-> Rest(g, i)]
  <2> HIDE DEF D, V, Value, Rest
  <2>1. QED
    BY <1>6, <1>7
<1>10. chain = [i \in D |-> Rest(chain, i)]
  <2> HIDE DEF D, V, Value, Rest
  <2>1. QED
    BY <1>8, <1>9
<1>11. \A i \in D : chain[i] = Value(chain, i)
  <2> HIDE DEF D, V, Value, Rest
  <2>1. QED
    BY <1>7, <1>10
<1> DEFINE T == {i \in D : chain[i] \in V}
<1>12. Hereditary(D, rank, T)
  <2>1. SUFFICES ASSUME NEW d \in D, \A c \in D : rank[c] < rank[d] => c \in T
                 PROVE  chain[d] \in V
    BY DEF Hereditary
  <2>2. \A c \in D : d < c => chain[c] \in V
    <3>1. \A c \in D : d < c => rank[c] < rank[d]
      BY <1>1
    <3>2. QED
      BY <2>1, <3>1
  <2>3. /\ d \notin L => chain[d + 1] \in V
        /\ d \in C => chain[d + 2] \in V
    <3>1. d < d + 1 /\ d < d + 2
      BY <1>1
    <3>2. QED
      BY <1>1, <2>2, <3>1
  <2> DEFINE h == [i \in D |-> IF d < i THEN chain[i] ELSE << >>]
  <2>4. h \in [D -> V]
    <3>1. << >> \in V
      OBVIOUS
    <3> HIDE DEF V
    <3>2. QED
      BY <2>2, <3>1
  <2>5. Value(h, d) = Value(chain, d)
    <3>1. /\ d \notin L => h[d + 1] = chain[d + 1]
          /\ d \in C => h[d + 2] = chain[d + 2]
      <4>1. d < d + 1 /\ d < d + 2
        BY <1>1
      <4>2. \A c \in D : d < c => h[c] = chain[c]
        OBVIOUS
      <4> HIDE DEF h
      <4>3. QED
        BY <1>1, <4>1, <4>2
    <3> HIDE DEF h
    <3>2. QED
      BY <3>1
  <2>6. QED
    <3> HIDE DEF h, Value, V, D
    <3>1. QED
      BY <1>2, <1>11, <2>4, <2>5
<1>13. \A i \in D : chain[i] \in V
  <2>1. D \subseteq T
    <3> HIDE DEF D, V, rank, T
    <3>1. QED
      BY <1>1, <1>3, <1>12, RankedInduction
  <2>2. QED
    BY <2>1
<1>14. QED
  <2>1. SUFFICES ASSUME NEW i \in D
                 PROVE  /\ i \notin L => chain[i] = chain[i + 1]
                        /\ Chained(mf, i) => chain[i] = Join(W(i), chain[i + 2])
                        /\ i \in L /\ ~Chained(mf, i) => chain[i] = W(i)
    BY <1>13
  <2>2. chain[i] = Value(chain, i) /\ (Chained(mf, i) => i \in L)
    BY <1>11 DEF Chained
  <2>3. QED
    BY <2>2

(* A chain is being made: before is the list so far, and after what it is  *)
(* to be once the rest of the chain is joined to it.                       *)
Grows(before, after, rest) ==
  \E b, p \in Seq(STRING) :
    before = b \o p /\ after = b \o Join(p, rest) /\ (p # << >> \/ b = << >>)

LEMMA GrowsBehind ==
  ASSUME NEW x, NEW b \in Seq(STRING), NEW p \in Seq(STRING), NEW l \in Seq(STRING),
         TextsConcatenate, x = b \o p, p # << >> \/ b = << >>
  PROVE  Join(x, l) = b \o Join(p, l)
BY JoinedBehind

LEMMA GrowsOn ==
  ASSUME NEW x, NEW y, NEW l, NEW rest, l \in Seq(STRING), rest \in Seq(STRING),
         TextsConcatenate, Grows(x, y, Join(l, rest))
  PROVE  Grows(Join(x, l), y, rest)
<1>1. PICK b \in Seq(STRING), p \in Seq(STRING) :
        x = b \o p /\ y = b \o Join(p, Join(l, rest)) /\ (p # << >> \/ b = << >>)
  BY DEF Grows
<1>2. Join(x, l) = b \o Join(p, l)
  BY <1>1, GrowsBehind
<1>3. y = b \o Join(Join(p, l), rest)
  <2>1. Join(Join(p, l), rest) = Join(p, Join(l, rest))
    BY JoinAssociates
  <2>2. QED
    BY <1>1, <2>1
<1>4. Join(p, l) \in Seq(STRING)
  BY JoinTyped
<1>5. Join(p, l) # << >> \/ b = << >>
  BY <1>1, JoinTyped
<1>6. PICK q \in Seq(STRING) : q = Join(p, l)
  BY <1>4
<1>7. Join(x, l) = b \o q /\ y = b \o Join(q, rest) /\ (q # << >> \/ b = << >>)
  BY <1>2, <1>3, <1>5, <1>6
<1>8. QED
  BY <1>7 DEF Grows

LEMMA GrowsLast ==
  ASSUME NEW x, NEW y, NEW l, l \in Seq(STRING), TextsConcatenate, Grows(x, y, l)
  PROVE  y = Join(x, l)
BY JoinedBehind DEF Grows

(* Whether what follows place i belongs to the chain before it.            *)
Waiting(mf, i) == Holds(mf.value, i + 1, "##") \/ Linked(mf, i + 1)

LEMMA WaitingEnds ==
  ASSUME NEW mf, WellFormed(mf)
  PROVE  ~Waiting(mf, 0) /\ ~Waiting(mf, Len(mf.value))
<1> DEFINE v == mf.value
           n == Len(v)
<1>1. n \in Nat /\ DOMAIN v = 1..n
  BY ListTyped
<1>2. \A i \in 1..n : /\ v[i] = "##" => 1 < i /\ i + 1 \in 1..n
                      /\ v[i] = "#" => i + 1 \in 1..n
  <2>1. \A i \in Links(mf) : i \in 1..n
    BY ListTyped
  <2>2. QED
    BY <2>1, OperatorsInside
<1>3. ~Holds(v, 0, "##") /\ ~Holds(v, 0, "#") /\ ~Holds(v, 1, "##") /\ ~Holds(v, -1, "##")
  BY <1>1, <1>2 DEF Holds
<1>4. ~Holds(v, n, "##") /\ ~Holds(v, n, "#") /\ ~Holds(v, n + 1, "##")
  BY <1>1, <1>2 DEF Holds
<1>5. ~Waiting(mf, 0)
  <2>1. 0 + 1 = 1 /\ 1 - 1 = 0
    OBVIOUS
  <2>2. QED
    BY <1>3, <2>1 DEF Waiting, Linked
<1>6. ~Waiting(mf, n)
  <2>1. (n + 1) - 1 = n
    BY <1>1
  <2> HIDE DEF n
  <2>2. QED
    BY <1>4, <2>1 DEF Waiting, Linked
<1>7. QED
  BY <1>5, <1>6

LEMMA WaitingOn ==
  ASSUME NEW mf, WellFormed(mf), NEW i \in Nat, NEW k, k = i + 1, k \in 1..Len(mf.value)
  PROVE  /\ mf.value[k] = "##" => Waiting(mf, i) /\ Waiting(mf, k)
         /\ mf.value[k] = "#" => (Waiting(mf, i) <=> Waiting(mf, k))
         /\ k \in Links(mf) => /\ Waiting(mf, i) <=> Linked(mf, k)
                               /\ Waiting(mf, k) <=> Chained(mf, k)
         /\ Chained(mf, k) => k + 1 \in 1..Len(mf.value) /\ k + 1 \notin Links(mf)
<1> DEFINE v == mf.value
           n == Len(v)
<1>1. /\ n \in Nat /\ DOMAIN v = 1..n
      /\ \A j \in 1..n : j \in Links(mf) <=> v[j] # "#" /\ v[j] # "##"
  BY ListTyped
<1>2. /\ (k + 1) - 1 = k /\ (k + 1) - 2 = i /\ k - 1 = i
      /\ i + 1 = k
  OBVIOUS
<1>3. /\ Waiting(mf, i) <=> Holds(v, k, "##") \/ Linked(mf, k)
      /\ Waiting(mf, k) <=> Holds(v, k + 1, "##") \/ Linked(mf, k + 1)
  BY DEF Waiting
<1>4. /\ Linked(mf, k + 1) <=> Holds(v, k, "##") \/ (Holds(v, k, "#") /\ Holds(v, i, "##"))
      /\ Linked(mf, k) <=> Holds(v, i, "##") \/ (Holds(v, i, "#") /\ Holds(v, k - 2, "##"))
  BY <1>2 DEF Linked
<1>5. \A t : Holds(v, k, t) <=> v[k] = t
  BY <1>1 DEF Holds
<1>6. Holds(v, i, "#") => k \in Links(mf)
  <2>1. SUFFICES ASSUME i \in 1..n, v[i] = "#" PROVE k \in Links(mf)
    BY <1>1 DEF Holds
  <2>2. QED
    BY <2>1, OperatorsInside
<1>7. ASSUME v[k] = "#"
      PROVE  Waiting(mf, i) <=> Waiting(mf, k)
  <2>1. k + 1 \in Links(mf)
    BY <1>7, OperatorsInside
  <2>2. k + 1 \in 1..n /\ v[k + 1] # "##"
    BY <1>1, <2>1, ListTyped
  <2>3. ~Holds(v, k + 1, "##") /\ ~Holds(v, k, "##") /\ Holds(v, k, "#") /\ ~Holds(v, i, "#")
    BY <1>1, <1>5, <1>6, <1>7, <2>2 DEF Holds
  <2>4. QED
    BY <1>3, <1>4, <2>3
<1>8. ASSUME v[k] = "##"
      PROVE  Waiting(mf, i) /\ Waiting(mf, k)
  BY <1>3, <1>4, <1>5, <1>8
<1>9. ASSUME k \in Links(mf)
      PROVE  /\ Waiting(mf, i) <=> Linked(mf, k)
             /\ Waiting(mf, k) <=> Chained(mf, k)
  <2>1. ~Holds(v, k, "##") /\ ~Holds(v, k, "#")
    BY <1>1, <1>5, <1>9
  <2>2. Chained(mf, k) <=> Holds(v, k + 1, "##")
    BY <1>9 DEF Chained
  <2>3. QED
    BY <1>3, <1>4, <2>1, <2>2
<1>10. ASSUME Chained(mf, k)
       PROVE  k + 1 \in 1..n /\ k + 1 \notin Links(mf)
  <2>1. k + 1 \in 1..n /\ v[k + 1] = "##"
    BY <1>1, <1>10 DEF Chained, Holds
  <2>2. QED
    BY <1>1, <2>1
<1>11. QED
  BY <1>7, <1>8, <1>9, <1>10

(* Place by place: the list so far is the replacement so far, or lacks     *)
(* what is left of the chain that is being made.                           *)
LEMMA ReplacedSo ==
  ASSUME NEW mf, NEW args, NEW evald, WellFormed(mf), TextsConcatenate,
         Lists(args), Lists(evald), Len(args) <= Len(evald),
         ~mf.is_function => args = << >> /\ evald = << >>,
         ~TakesTokenBefore(mf, args, evald)
  PROVE  Substituted(mf, args, evald) = Replacement(mf, args, evald)
<1> DEFINE n == Len(mf.value)
           L == Links(mf)
           V == Seq(STRING)
           W(i) == Link(mf, args, evald, i)
           chain == Chain(mf, args, evald)
           seqs == [i \in DOMAIN mf.value |->
                      IF i \in L /\ ~Linked(mf, i) THEN chain[i] ELSE << >>]
<1>1. /\ n \in Nat /\ DOMAIN mf.value = 1..n /\ L \subseteq 1..n
      /\ \A j \in 1..n : j \in L <=> mf.value[j] # "#" /\ mf.value[j] # "##"
  BY ListTyped
<1>2. \A i \in L : Words(W(i))
  BY LinkWords
<1>3. \A i \in L : W(i) \in V
  BY <1>2, WordsOfStrings
<1>4. \A i \in 1..n :
        /\ chain[i] \in V
        /\ i \notin L => chain[i] = chain[i + 1]
        /\ Chained(mf, i) => chain[i] = Join(W(i), chain[i + 2])
        /\ i \in L /\ ~Chained(mf, i) => chain[i] = W(i)
  <2> HIDE DEF chain
  <2>1. QED
    BY <1>2, ChainIs DEF chain
<1>5. PICK r : /\ Progress(r, mf, args, evald)
               /\ Substituted(mf, args, evald) = r[n]
  BY ListMade
<1>6. \A i \in 0..n : r[i] \in V
  BY <1>2, <1>5, ProgressWords, WordsOfStrings
<1>7. /\ seqs \in Seq(V) /\ Len(seqs) = n
      /\ \A i \in 1..n : seqs[i] = IF i \in L /\ ~Linked(mf, i) THEN chain[i] ELSE << >>
  <2>1. << >> \in V
    OBVIOUS
  <2>2. seqs \in [1..n -> V]
    <3> HIDE DEF V, chain, n
    <3>1. QED
      BY <1>1, <1>4, <2>1
  <2>3. \A i \in 1..n : seqs[i] = IF i \in L /\ ~Linked(mf, i) THEN chain[i] ELSE << >>
    <3> HIDE DEF chain, n
    <3>1. QED
      BY <1>1
  <2> HIDE DEF seqs, V, n
  <2>4. QED
    BY <1>1, <2>2, <2>3
<1>8. Replacement(mf, args, evald) = FlattenSeq(seqs)
  BY DEF Replacement
<1> HIDE DEF seqs, chain, V, W, L, n
<1>9. PICK F : Flattens(F, seqs, STRING) /\ FlattenSeq(seqs) = F[n]
  <2>1. seqs \in Seq(Seq(STRING))
    BY <1>7 DEF V
  <2>2. QED
    BY <1>7, <2>1, Flattened
<1>10. /\ F[0] = << >>
       /\ \A i \in 0..n : F[i] \in V
       /\ \A i \in 1..n : F[i] = F[i - 1] \o seqs[i]
  BY <1>7, <1>9 DEF Flattens, V
<1>11. /\ r[0] = << >>
       /\ \A i \in 1..n :
            /\ i \in L => r[i] = append_or_paste(r[i - 1], W(i), Linked(mf, i))
            /\ i \notin L => r[i] = r[i - 1]
  BY <1>5 DEF Progress, n, L, W
<1> DEFINE NoLink(i) == \A j \in L : i < j
           Right(i) == /\ NoLink(i) => r[i] = << >>
                       /\ ~Waiting(mf, i) => F[i] = r[i]
                       /\ Waiting(mf, i) => Grows(r[i], F[i], chain[i + 1])
           T == {i \in Nat : i <= n => Right(i)}
<1>12. 0 \in T
  BY <1>10, <1>11, WaitingEnds
<1>13. ASSUME NEW i \in Nat, i \in T
       PROVE  i + 1 \in T
  <2>1. SUFFICES ASSUME i + 1 <= n PROVE Right(i + 1)
    OBVIOUS
  <2>2. PICK k : k = i + 1
    OBVIOUS
  <2>3. /\ k \in 1..n /\ k - 1 = i /\ i \in 0..n /\ k \in 0..n /\ k \in Nat
        /\ k + 1 = i + 2 /\ i <= n
    BY <1>1, <2>1, <2>2
  <2>4. /\ NoLink(i) => r[i] = << >>
        /\ ~Waiting(mf, i) => F[i] = r[i]
        /\ Waiting(mf, i) => Grows(r[i], F[i], chain[k])
    BY <1>13, <2>2, <2>3
  <2>5. /\ r[i] \in V /\ F[i] \in V /\ chain[k] \in V
        /\ k \in L => r[k] = append_or_paste(r[i], W(k), Linked(mf, k))
        /\ k \notin L => r[k] = r[i]
        /\ F[k] = F[i] \o seqs[k]
        /\ seqs[k] = IF k \in L /\ ~Linked(mf, k) THEN chain[k] ELSE << >>
        /\ k \notin L => chain[k] = chain[k + 1]
        /\ k \in L /\ ~Chained(mf, k) => chain[k] = W(k)
    BY <1>4, <1>6, <1>7, <1>10, <1>11, <2>3
  <2>6. /\ mf.value[k] = "##" => Waiting(mf, i) /\ Waiting(mf, k)
        /\ mf.value[k] = "#" => (Waiting(mf, i) <=> Waiting(mf, k))
        /\ k \in L => /\ Waiting(mf, i) <=> Linked(mf, k)
                      /\ Waiting(mf, k) <=> Chained(mf, k)
    BY <2>2, <2>3, WaitingOn DEF n, L
  <2>7. F[i] \o << >> = F[i]
    BY <2>5 DEF V
  <2>8. NoLink(k) => NoLink(i) /\ k \notin L
    <3>1. SUFFICES ASSUME NoLink(k) PROVE NoLink(i) /\ k \notin L
      OBVIOUS
    <3>2. \A j \in L : j \in Nat /\ k < j
      BY <1>1, <3>1
    <3>3. QED
      BY <2>2, <2>3, <3>2
  <2>9. NoLink(k) => r[k] = << >>
    BY <2>4, <2>5, <2>8
  <2>10. Chained(mf, k) => /\ k \in L /\ chain[k + 1] \in V
                           /\ chain[k] = Join(W(k), chain[k + 1])
    <3>1. SUFFICES ASSUME Chained(mf, k)
                   PROVE  /\ k \in L /\ chain[k + 1] \in V
                          /\ chain[k] = Join(W(k), chain[k + 1])
      OBVIOUS
    <3>2. k + 1 \in 1..n /\ k + 1 \notin L
      BY <2>2, <2>3, <3>1, WaitingOn DEF n, L
    <3>3. chain[k + 1] \in V /\ chain[k + 1] = chain[(k + 1) + 1]
      BY <1>4, <3>2
    <3>4. chain[k] = Join(W(k), chain[k + 2])
      BY <1>4, <2>3, <3>1
    <3>5. (k + 1) + 1 = k + 2 /\ k \in L
      BY <2>3, <3>1 DEF Chained, L
    <3>6. QED
      BY <3>3, <3>4, <3>5
  <2>11. CASE k \notin L
    <3>1. Waiting(mf, i) <=> Waiting(mf, k)
      BY <1>1, <2>3, <2>6, <2>11
    <3>2. r[k] = r[i] /\ F[k] = F[i] /\ chain[k] = chain[k + 1]
      BY <2>5, <2>7, <2>11
    <3>3. Right(k)
      BY <2>4, <2>9, <3>1, <3>2
    <3>4. QED
      BY <2>2, <3>3
  <2>12. CASE k \in L /\ ~Linked(mf, k)
    <3>1. /\ F[i] = r[i] /\ F[k] = r[i] \o chain[k]
          /\ Waiting(mf, k) <=> Chained(mf, k)
      BY <2>4, <2>5, <2>6, <2>12
    <3>2. W(k) \in V
      BY <1>3, <2>12
    <3>3. r[k] = r[i] \o W(k)
      <4>1. r[k] = append_or_paste(r[i], W(k), Linked(mf, k))
        BY <2>5, <2>12
      <4>2. QED
        BY <2>12, <4>1 DEF append_or_paste
    <3>4. ~Chained(mf, k) => F[k] = r[k]
      BY <2>5, <2>12, <3>1, <3>3
    <3>5. ASSUME Chained(mf, k)
          PROVE  Grows(r[k], F[k], chain[k + 1])
      <4>1. chain[k] = Join(W(k), chain[k + 1])
        BY <2>10, <3>5
      <4>2. W(k) # << >> \/ r[i] = << >>
        <5>1. SUFFICES ASSUME W(k) = << >> PROVE r[i] = << >>
          OBVIOUS
        <5>2. ~(\E j \in L : j < k)
          <6>1. Holds(mf.value, k + 1, "##")
            BY <3>5 DEF Chained
          <6>2. QED
            BY <2>12, <5>1, <6>1 DEF TakesTokenBefore, L, W
        <5>3. NoLink(i)
          <6>1. SUFFICES ASSUME NEW j \in L PROVE i < j
            OBVIOUS
          <6>2. j \in Nat /\ ~(j < k)
            BY <1>1, <5>2, <6>1
          <6>3. QED
            BY <2>2, <2>3, <6>2
        <5>4. QED
          BY <2>4, <5>3
      <4>3. PICK b \in Seq(STRING), p \in Seq(STRING) : b = r[i] /\ p = W(k)
        BY <2>5, <3>2 DEF V
      <4>4. r[k] = b \o p /\ F[k] = b \o Join(p, chain[k + 1]) /\ (p # << >> \/ b = << >>)
        BY <3>1, <3>3, <4>1, <4>2, <4>3
      <4>5. QED
        BY <4>4 DEF Grows
    <3>6. Right(k)
      BY <2>9, <3>1, <3>4, <3>5
    <3>7. QED
      BY <2>2, <3>6
  <2>13. CASE k \in L /\ Linked(mf, k)
    <3>1. F[k] = F[i] /\ Grows(r[i], F[i], chain[k]) /\ (Waiting(mf, k) <=> Chained(mf, k))
      BY <2>4, <2>5, <2>6, <2>7, <2>13
    <3>2. W(k) \in V
      BY <1>3, <2>13
    <3>3. r[k] = Join(r[i], W(k))
      <4>1. r[k] = append_or_paste(r[i], W(k), Linked(mf, k))
        BY <2>5, <2>13
      <4>2. QED
        BY <2>13, <4>1 DEF append_or_paste, Join
    <3>4. ASSUME ~Chained(mf, k)
          PROVE  F[k] = r[k]
      <4>1. Grows(r[i], F[i], W(k))
        BY <2>5, <2>13, <3>1, <3>4
      <4>2. PICK x : x = W(k)
        OBVIOUS
      <4>3. F[i] = Join(r[i], x)
        BY <3>2, <4>1, <4>2, GrowsLast DEF V
      <4>4. QED
        BY <3>1, <3>3, <4>2, <4>3
    <3>5. ASSUME Chained(mf, k)
          PROVE  Grows(r[k], F[k], chain[k + 1])
      <4>1. chain[k + 1] \in V /\ chain[k] = Join(W(k), chain[k + 1])
        BY <2>10, <3>5
      <4>2. PICK x, y : x = W(k) /\ y = chain[k + 1]
        OBVIOUS
      <4>3. x \in Seq(STRING) /\ y \in Seq(STRING) /\ Grows(r[i], F[i], Join(x, y))
        BY <3>1, <3>2, <4>1, <4>2 DEF V
      <4>4. Grows(Join(r[i], x), F[i], y)
        BY <4>3, GrowsOn
      <4>5. QED
        BY <3>1, <3>3, <4>2, <4>4
    <3>6. Right(k)
      BY <2>9, <3>1, <3>4, <3>5
    <3>7. QED
      BY <2>2, <3>6
  <2>14. QED
    BY <2>11, <2>12, <2>13
<1>14. n \in T
  <2> HIDE DEF T
  <2>1. QED
    BY <1>1, <1>12, <1>13, Induction
<1>15. F[n] = r[n]
  <2>1. ~Waiting(mf, n)
    BY WaitingEnds DEF n
  <2>2. QED
    BY <1>1, <1>14, <2>1
<1>16. QED
  BY <1>5, <1>8, <1>9, <1>15

-----------------------------------------------------------------------------
(* The types of the state.                                                 *)

(* The buffers and the calls with what they hold.  The end of the code is  *)
(* in no list: it is only put back, alone.                                 *)
Token(t) == t # TT_ENDOFCODE => Word(t)

Ended(b) == b.kind = "unread" /\ b.macro = Empty /\ b.tokens = <<TT_ENDOFCODE>>

TypedBuffer(b) ==
  /\ Buffer(b) /\ b.macro \in Names \union {Empty}
  /\ Words(b.tokens) \/ Ended(b)
  /\ Sequence(b.tokens) /\ b.buf_pos \in 0..Len(b.tokens)

TypedBuffers(bs) == Sequence(bs) /\ \A i \in 1..Len(bs) : TypedBuffer(bs[i])

(* How many arguments a call may have: with no parameter, one in excess.   *)
Arity(mf) == Len(mf.params) + (IF mf.params = << >> THEN 1 ELSE 0)

TypedCall(c) ==
  /\ ACall(c) /\ c.name \in Names /\ WellFormed(c.mf) /\ c.mf.is_function
  /\ c.stage \in {"paren", "arguments", "expand"} /\ c.nestcnt \in Nat \ {0}
  /\ Lists(c.args) /\ Lists(c.evald)
  /\ Len(c.evald) <= Len(c.args) /\ Len(c.args) <= Arity(c.mf)

TypedCalls(cs) == Sequence(cs) /\ \A i \in 1..Len(cs) : TypedCall(cs[i])

TypedMacros(m) ==
  DOMAIN m = Names /\ \A n \in Names : m[n] = NoMacro \/ WellFormed(m[n])

Typed ==
  /\ TypedMacros(macros)
  /\ files \in Nat /\ eof \in BOOLEAN /\ text \in Seq(SUBSET Tokens) /\ reading \in BOOLEAN
  /\ TypedBuffers(open_buffers) /\ TypedCalls(calls)

LEMMA TypedSuffices == Typed => TypeOK
<1>1. SUFFICES ASSUME Typed PROVE TypeOK
  OBVIOUS
<1>2. DOMAIN open_buffers = 1..Len(open_buffers) /\ DOMAIN calls = 1..Len(calls)
  BY <1>1, Indices DEF Typed, TypedBuffers, TypedCalls
<1>3. ASSUME NEW i \in DOMAIN open_buffers
      PROVE  /\ open_buffers[i].kind \in {"macro", "frozen", "unread"}
             /\ open_buffers[i].macro \in Names \union {Empty}
             /\ open_buffers[i].buf_pos \in 0..Len(open_buffers[i].tokens)
  BY <1>1, <1>2 DEF Typed, TypedBuffers, TypedBuffer, Buffer
<1>4. ASSUME NEW i \in DOMAIN calls
      PROVE  TypedCall(calls[i])
  BY <1>1, <1>2 DEF Typed, TypedCalls
<1>5. QED
  BY <1>1, <1>3, <1>4 DEF TypeOK, Typed, TypedMacros, TypedCall, Arity

LEMMA OneBufferMore ==
  ASSUME NEW bs, NEW b, TypedBuffers(bs), TypedBuffer(b)
  PROVE  TypedBuffers(Append(bs, b))
<1>1. /\ Sequence(bs) /\ Len(bs) \in Nat /\ Sequence(Append(bs, b))
      /\ Len(Append(bs, b)) = Len(bs) + 1
      /\ \A i \in 1..Len(bs) : Append(bs, b)[i] = bs[i]
      /\ Append(bs, b)[Len(bs) + 1] = b
  BY Appended, Indices DEF TypedBuffers
<1>2. \A i \in 1..Len(Append(bs, b)) : i \in 1..Len(bs) \/ i = Len(bs) + 1
  BY <1>1
<1>3. QED
  BY <1>1, <1>2 DEF TypedBuffers

LEMMA OneCallMore ==
  ASSUME NEW cs, NEW c, TypedCalls(cs), TypedCall(c)
  PROVE  TypedCalls(Append(cs, c))
<1>1. /\ Sequence(cs) /\ Len(cs) \in Nat /\ Sequence(Append(cs, c))
      /\ Len(Append(cs, c)) = Len(cs) + 1
      /\ \A i \in 1..Len(cs) : Append(cs, c)[i] = cs[i]
      /\ Append(cs, c)[Len(cs) + 1] = c
  BY Appended, Indices DEF TypedCalls
<1>2. \A i \in 1..Len(Append(cs, c)) : i \in 1..Len(cs) \/ i = Len(cs) + 1
  BY <1>1
<1>3. QED
  BY <1>1, <1>2 DEF TypedCalls

LEMMA InnermostCall ==
  ASSUME NEW cs, TypedCalls(cs), cs # << >>
  PROVE  TypedCalls(Front(cs)) /\ TypedCall(Last(cs))
<1>1. /\ Len(cs) \in Nat \ {0} /\ Last(cs) = cs[Len(cs)] /\ Sequence(Front(cs))
      /\ Len(Front(cs)) = Len(cs) - 1
      /\ \A i \in 1..(Len(cs) - 1) : Front(cs)[i] = cs[i]
  BY InFront DEF TypedCalls
<1>2. Len(cs) \in 1..Len(cs) /\ \A i \in 1..Len(Front(cs)) : i \in 1..Len(cs)
  BY <1>1
<1>3. QED
  BY <1>1, <1>2 DEF TypedCalls

LEMMA OneListMore ==
  ASSUME NEW args, NEW a, Lists(args), Words(a)
  PROVE  Lists(Append(args, a)) /\ Len(Append(args, a)) = Len(args) + 1
<1>1. /\ Sequence(args) /\ Len(args) \in Nat /\ Sequence(Append(args, a))
      /\ Len(Append(args, a)) = Len(args) + 1
      /\ \A i \in 1..Len(args) : Append(args, a)[i] = args[i]
      /\ Append(args, a)[Len(args) + 1] = a
  BY Appended, Indices DEF Lists
<1>2. \A i \in 1..Len(Append(args, a)) : i \in 1..Len(args) \/ i = Len(args) + 1
  BY <1>1
<1>3. QED
  BY <1>1, <1>2 DEF Lists

(* A token more in the last of the lists.                                  *)
LEMMA LongerList ==
  ASSUME NEW args, NEW t, NEW new, Lists(args), Word(t),
         new = [args EXCEPT ![Len(args)] = Append(@, t)]
  PROVE  Lists(new) /\ Len(new) = Len(args)
<1>1. Len(args) \in Nat /\ args = [i \in 1..Len(args) |-> args[i]]
  BY Indices DEF Lists
<1>2. new = [i \in 1..Len(args) |-> new[i]]
  BY <1>1
<1>3. Sequence(new) /\ Len(new) = Len(args)
  BY <1>1, <1>2, Tabulated
<1>4. ASSUME NEW i \in 1..Len(args)
      PROVE  Words(new[i])
  <2>1. Words(args[i]) /\ Words(Append(args[i], t))
    BY WordsAppended DEF Lists
  <2>2. new[i] = args[i] \/ new[i] = Append(args[i], t)
    BY <1>1
  <2>3. QED
    BY <2>1, <2>2
<1>5. QED
  BY <1>3, <1>4 DEF Lists

LEMMA NoLists ==
  /\ Lists(<< >>) /\ Lists(<< << >> >>) /\ Len(<< << >> >>) = 1
  /\ \A t : Word(t) => Lists(<< <<t>> >>) /\ Len(<< <<t>> >>) = 1
<1>1. Lists(<< >>)
  BY NoTokens DEF Lists
<1>2. ASSUME NEW a, Words(a)
      PROVE  Lists(<<a>>) /\ Len(<<a>>) = 1
  <2>1. Sequence(<<a>>) /\ Len(<<a>>) = 1 /\ <<a>>[1] = a
    BY One
  <2>2. QED
    BY <1>2, <2>1 DEF Lists
<1>3. Lists(<< << >> >>) /\ Len(<< << >> >>) = 1
  BY <1>2, NoWords
<1>4. ASSUME NEW t, Word(t)
      PROVE  Lists(<< <<t>> >>) /\ Len(<< <<t>> >>) = 1
  <2>1. Words(<<t>>)
    BY <1>4, One
  <2>2. QED
    BY <1>2, <2>1
<1>5. QED
  BY <1>1, <1>3, <1>4

LEMMA TypedWhenMade ==
  ASSUME NEW c, NEW name \in Names, NEW mf, WellFormed(mf), mf.is_function,
         NEW stage \in {"paren", "arguments", "expand"}, NEW nestcnt \in Nat \ {0},
         NEW args, NEW evald, Lists(args), Lists(evald),
         Len(evald) <= Len(args), Len(args) <= Arity(mf),
         c = [name |-> name, mf |-> mf, stage |-> stage, nestcnt |-> nestcnt,
              args |-> args, evald |-> evald]
  PROVE  TypedCall(c)
<1>1. /\ c.name = name /\ c.mf = mf /\ c.stage = stage /\ c.nestcnt = nestcnt
      /\ c.args = args /\ c.evald = evald
  OBVIOUS
<1>2. ACall(c)
  BY <1>1 DEF ACall, Lists
<1>3. QED
  BY <1>1, <1>2 DEF TypedCall

LEMMA TypedWhenOpened ==
  ASSUME NEW kind \in {"macro", "frozen", "unread"}, NEW macro \in Names \union {Empty},
         NEW tokens, Sequence(tokens),
         \/ Words(tokens)
         \/ kind = "unread" /\ macro = Empty /\ tokens = <<TT_ENDOFCODE>>
  PROVE  TypedBuffer(OpenBuffer(kind, macro, tokens))
<1> DEFINE b == OpenBuffer(kind, macro, tokens)
<1>1. Buffer(b) /\ b.macro = macro /\ b.tokens = tokens
  BY BufferOpened
<1>2. b.buf_pos = 0 /\ b.kind = kind
  BY DEF OpenBuffer
<1>3. Len(tokens) \in Nat
  BY Indices
<1> HIDE DEF b
<1>4. TypedBuffer(b)
  BY <1>1, <1>2, <1>3 DEF TypedBuffer, Ended
<1>5. QED
  BY <1>4 DEF b

LEMMA AfterTyped ==
  ASSUME NEW k \in 0..Len(open_buffers), TypedBuffers(open_buffers)
  PROVE  TypedBuffers(After(k))
<1> DEFINE new == After(k)
<1>1. Len(open_buffers) \in Nat /\ k \in Nat /\ k <= Len(open_buffers)
  BY Indices DEF TypedBuffers
<1>2. /\ new = [i \in 1..k |-> new[i]]
      /\ \A i \in 1..k : new[i] = IF i = k /\ ~Exhausted(open_buffers[k])
                                  THEN [open_buffers[k] EXCEPT !.buf_pos = @ + 1]
                                  ELSE open_buffers[i]
  BY DEF After
<1> HIDE DEF new
<1>3. Sequence(new) /\ Len(new) = k
  BY <1>1, <1>2, Tabulated
<1>4. ASSUME NEW i \in 1..k
      PROVE  TypedBuffer(new[i])
  <2> DEFINE b == open_buffers[i]
  <2>1. TypedBuffer(b)
    BY <1>1 DEF TypedBuffers
  <2>2. CASE i = k /\ ~Exhausted(b)
    <3>1. new[i] = [b EXCEPT !.buf_pos = b.buf_pos + 1]
      BY <1>2, <2>2
    <3>2. b.buf_pos + 1 \in 0..Len(b.tokens)
      <4>1. Len(b.tokens) \in Nat /\ b.buf_pos \in 0..Len(b.tokens)
        BY <2>1, Indices DEF TypedBuffer
      <4>2. ~(b.buf_pos >= Len(b.tokens))
        BY <2>2 DEF Exhausted
      <4> HIDE DEF b
      <4>3. QED
        BY <4>1, <4>2
    <3> HIDE DEF b
    <3>3. b = [kind |-> b.kind, macro |-> b.macro, tokens |-> b.tokens, buf_pos |-> b.buf_pos]
          /\ b.kind \in {"macro", "frozen", "unread"}
      BY <2>1 DEF TypedBuffer, Buffer
    <3>4. new[i] = [kind |-> b.kind, macro |-> b.macro, tokens |-> b.tokens,
                    buf_pos |-> b.buf_pos + 1]
      BY <3>1, <3>3
    <3>5. /\ new[i].kind = b.kind /\ new[i].macro = b.macro /\ new[i].tokens = b.tokens
          /\ new[i].buf_pos = b.buf_pos + 1
      BY <3>4
    <3>6. Buffer(new[i])
      BY <3>3, <3>4, <3>5 DEF Buffer
    <3>7. QED
      BY <2>1, <3>2, <3>5, <3>6 DEF TypedBuffer, Ended
  <2>3. CASE ~(i = k /\ ~Exhausted(b))
    <3>1. new[i] = b
      BY <1>2, <2>3
    <3>2. QED
      BY <2>1, <3>1
  <2>4. QED
    BY <2>2, <2>3
<1>5. QED
  BY <1>3, <1>4 DEF TypedBuffers, new

LEMMA BelowTyped ==
  ASSUME NEW bs, NEW fr, Fit(bs, fr), fr # << >>, TypedBuffers(bs)
  PROVE  TypedBuffers(BelowFrozen(bs))
<1> DEFINE new == BelowFrozen(bs)
<1>1. /\ Fit(new, Front(fr)) /\ Len(new) < Len(bs)
      /\ \A i \in 1..Len(new) : new[i] = bs[i]
  BY BelowFrozenFits
<1>2. Sequence(new)
  BY <1>1 DEF Fit, Buffers
<1>3. Len(new) \in Nat /\ Len(bs) \in Nat
  BY <1>2, Indices DEF TypedBuffers
<1> HIDE DEF new
<1>4. \A i \in 1..Len(new) : i \in 1..Len(bs)
  BY <1>1, <1>3
<1>5. QED
  BY <1>1, <1>2, <1>4 DEF TypedBuffers, new

LEMMA ArityIs ==
  ASSUME NEW mf, mf.params \in Seq(STRING)
  PROVE  /\ Len(mf.params) \in Nat /\ Arity(mf) \in Nat
         /\ Len(mf.params) <= Arity(mf) /\ 1 <= Arity(mf)
<1>1. Len(mf.params) \in Nat /\ (mf.params = << >> <=> Len(mf.params) = 0)
  OBVIOUS
<1>2. CASE mf.params = << >>
  <2>1. Arity(mf) = Len(mf.params) + 1
    BY <1>2 DEF Arity
  <2>2. QED
    BY <1>1, <2>1
<1>3. CASE mf.params # << >>
  <2>1. Arity(mf) = Len(mf.params) + 0
    BY <1>3 DEF Arity
  <2>2. QED
    BY <1>1, <1>3, <2>1
<1>4. QED
  BY <1>2, <1>3

LEMMA ExpandTyped ==
  ASSUME NEW call, NEW buffers, NEW frames, TypedCall(call), TypedBuffers(buffers),
         TypedCalls(frames), Expand(call, buffers, frames)
  PROVE  TypedBuffers(open_buffers') /\ TypedCalls(calls')
<1> DEFINE next == Len(call.evald) + 1
<1>1. /\ Lists(call.args) /\ Lists(call.evald)
      /\ Len(call.args) \in Nat /\ Len(call.evald) \in Nat
  BY Indices DEF TypedCall, Lists
<1>2. CASE next <= Len(call.args)
  <2> DEFINE b == OpenBuffer("frozen", call.name, call.args[next])
             more == Append(call.evald, << >>)
             r == [call EXCEPT !.stage = "expand"]
             call2 == [call EXCEPT !.stage = "expand", !.evald = more]
  <2>1. open_buffers' = Append(buffers, b) /\ calls' = Append(frames, call2)
    BY <1>2 DEF Expand
  <2>2. TypedBuffer(b)
    <3>1. next \in 1..Len(call.args)
      BY <1>1, <1>2
    <3>2. Words(call.args[next])
      BY <1>1, <3>1 DEF Lists
    <3>3. call.name \in Names \union {Empty}
      BY DEF TypedCall
    <3>4. QED
      BY <3>2, <3>3, TypedWhenOpened DEF Words
  <2>3. Lists(more) /\ Len(more) = next
    BY <1>1, NoWords, OneListMore
  <2> HIDE DEF b, more
  <2>4. call2 = [name |-> call.name, mf |-> call.mf, stage |-> "expand",
                 nestcnt |-> call.nestcnt, args |-> call.args, evald |-> more]
    <3>1. call = [name |-> call.name, mf |-> call.mf, stage |-> call.stage,
                  nestcnt |-> call.nestcnt, args |-> call.args, evald |-> call.evald]
      BY DEF TypedCall, ACall
    <3>2. r = [name |-> call.name, mf |-> call.mf, stage |-> "expand",
               nestcnt |-> call.nestcnt, args |-> call.args, evald |-> call.evald]
      BY <3>1
    <3>3. call2 = [r EXCEPT !.evald = more]
      OBVIOUS
    <3> HIDE DEF r, call2
    <3>4. QED
      BY <3>2, <3>3
  <2> HIDE DEF call2
  <2>5. TypedCall(call2)
    BY <1>2, <2>3, <2>4, TypedWhenMade DEF TypedCall
  <2>6. QED
    BY <2>1, <2>2, <2>5, OneBufferMore, OneCallMore
<1>3. CASE ~(next <= Len(call.args))
  <2> DEFINE list == Substituted(call.mf, call.args, call.evald)
  <2>1. open_buffers' = Append(buffers, OpenBuffer("macro", call.name, list)) /\ calls' = frames
    BY <1>3 DEF Expand
  <2>2. Len(call.args) <= Len(call.evald)
    BY <1>1, <1>3
  <2>3. Words(list)
    BY <1>1, <2>2, SubstitutedSequence DEF TypedCall
  <2> HIDE DEF list
  <2>4. call.name \in Names \union {Empty}
    BY DEF TypedCall
  <2>5. TypedBuffer(OpenBuffer("macro", call.name, list))
    BY <2>3, <2>4, TypedWhenOpened DEF Words
  <2>6. QED
    BY <2>1, <2>5, OneBufferMore
<1>4. QED
  BY <1>2, <1>3

LEMMA ReturnTyped ==
  ASSUME NEW t, NEW buffers, NEW frames, Token(t), Fit(buffers, frames), TypedBuffers(buffers),
         TypedCalls(frames), Return(t, buffers, frames)
  PROVE  /\ TypedBuffers(open_buffers') /\ TypedCalls(calls')
         /\ reading \in BOOLEAN => reading' \in BOOLEAN
<1>1. CASE frames = << >>
  BY <1>1 DEF Return
<1>2. CASE frames # << >> /\ t = TT_ENDOFCODE
  <2>1. Expand(Last(frames), BelowFrozen(buffers), Front(frames)) /\ reading' = reading
    BY <1>2 DEF Return
  <2>2. TypedCall(Last(frames)) /\ TypedCalls(Front(frames))
    BY <1>2, InnermostCall
  <2>3. TypedBuffers(BelowFrozen(buffers))
    BY <1>2, BelowTyped
  <2>4. QED
    BY <2>1, <2>2, <2>3, ExpandTyped
<1>3. CASE frames # << >> /\ t # TT_ENDOFCODE
  <2> DEFINE call == Last(frames)
             longer == [call.evald EXCEPT ![Len(call.evald)] = Append(@, t)]
             call2 == [call EXCEPT !.evald = longer]
  <2>1. /\ open_buffers' = buffers /\ calls' = Append(Front(frames), call2)
        /\ reading' = reading
    BY <1>3 DEF Return
  <2>2. TypedCall(call) /\ TypedCalls(Front(frames))
    BY <1>3, InnermostCall
  <2>3. Lists(longer) /\ Len(longer) = Len(call.evald)
    <3> DEFINE evald == call.evald
    <3>1. Lists(evald)
      BY <2>2 DEF TypedCall
    <3>2. longer = [evald EXCEPT ![Len(evald)] = Append(@, t)]
      OBVIOUS
    <3> HIDE DEF evald, longer
    <3>3. \A new : new = [evald EXCEPT ![Len(evald)] = Append(@, t)] =>
                   Lists(new) /\ Len(new) = Len(evald)
      BY <1>3, <3>1, LongerList DEF Token
    <3>4. Lists(longer) /\ Len(longer) = Len(evald)
      BY <3>2, <3>3
    <3>5. QED
      BY <3>4 DEF evald
  <2> HIDE DEF longer, call
  <2>4. call2 = [name |-> call.name, mf |-> call.mf, stage |-> call.stage,
                 nestcnt |-> call.nestcnt, args |-> call.args, evald |-> longer]
    BY <2>2 DEF TypedCall, ACall
  <2> HIDE DEF call2
  <2>5. TypedCall(call2)
    BY <2>2, <2>3, <2>4, TypedWhenMade DEF TypedCall
  <2>6. QED
    BY <2>1, <2>2, <2>5, OneCallMore
<1>4. QED
  BY <1>1, <1>2, <1>3

LEMMA EnterMacroTyped ==
  ASSUME NEW t, NEW buffers, TypedMacros(macros), TypedBuffers(buffers),
         EnterMacro(t, buffers)
  PROVE  TypedBuffers(open_buffers')
<1>1. t \in Names /\ macros[t] # NoMacro /\ ~macros[t].is_function
  BY DEF EnterMacro, MayEnter, Scalar
<1> DEFINE list == Substituted(macros[t], << >>, << >>)
<1>2. WellFormed(macros[t])
  BY <1>1 DEF TypedMacros
<1>3. Words(list)
  <2>1. Lists(<< >>) /\ Len(<< >>) <= Len(<< >>)
    BY NoLists, NoTokens
  <2>2. QED
    BY <1>1, <1>2, <2>1, SubstitutedSequence
<1>4. \/ open_buffers' = buffers
      \/ open_buffers' = Append(buffers, OpenBuffer("macro", t, list))
  BY DEF EnterMacro
<1> HIDE DEF list
<1>5. t \in Names \union {Empty}
  BY <1>1
<1>6. TypedBuffer(OpenBuffer("macro", t, list))
  BY <1>3, <1>5, TypedWhenOpened DEF Words
<1>7. QED
  BY <1>4, <1>6, OneBufferMore

LEMMA CallMacroTyped ==
  ASSUME NEW t, NEW buffers, TypedMacros(macros), TypedCalls(calls), CallMacro(t, buffers)
  PROVE  TypedCalls(calls')
<1> DEFINE mf == macros[t]
           args == IF mf.params # << >> THEN << << >> >> ELSE << >>
           call == Call(t, mf)
<1>1. t \in Names /\ mf.is_function /\ calls' = Append(calls, call) /\ WellFormed(mf)
  <2>1. t \in Names /\ mf.is_function /\ calls' = Append(calls, call)
    BY DEF CallMacro
  <2>2. ~NoMacro.is_function
    BY DEF NoMacro, macro_type
  <2>3. mf # NoMacro
    BY <2>1, <2>2
  <2>4. QED
    BY <2>1, <2>3 DEF TypedMacros
<1>2. call = [name |-> t, mf |-> mf, stage |-> "paren", nestcnt |-> 1,
              args |-> args, evald |-> << >>]
  BY DEF Call
<1>3. Len(mf.params) \in Nat /\ (mf.params = << >> <=> Len(mf.params) = 0)
  BY <1>1 DEF WellFormed
<1>4. Lists(args) /\ Len(args) \in {0, 1} /\ (Len(args) = 1 => mf.params # << >>)
  <2>1. CASE mf.params # << >>
    BY <2>1, NoLists
  <2>2. CASE mf.params = << >>
    BY <2>2, NoLists, NoTokens
  <2>3. QED
    BY <2>1, <2>2
<1>5. Lists(<< >>) /\ Len(<< >>) = 0
  BY NoLists, NoTokens
<1> HIDE DEF args, call, mf
<1>6. Len(args) <= Arity(mf)
  <2>1. /\ Len(mf.params) \in Nat /\ Arity(mf) \in Nat
        /\ Len(mf.params) <= Arity(mf) /\ 1 <= Arity(mf)
    BY <1>1, ArityIs DEF WellFormed
  <2>2. \A n \in {0, 1}, a \in Nat : 1 <= a => n <= a
    OBVIOUS
  <2>3. QED
    BY <1>4, <2>1, <2>2
<1>7. TypedCall(call)
  <2>1. Len(<< >>) <= Len(args) /\ 1 \in Nat \ {0}
    BY <1>4, <1>5
  <2>2. QED
    BY <1>1, <1>2, <1>4, <1>5, <1>6, <2>1, TypedWhenMade
<1>8. QED
  BY <1>1, <1>7, OneCallMore

LEMMA WithTokenTyped ==
  ASSUME NEW mf, mf.params \in Seq(STRING), NEW args, NEW t, Lists(args), Word(t),
         Len(args) <= Arity(mf)
  PROVE  /\ Lists(WithToken(args, t)) /\ Len(WithToken(args, t)) <= Arity(mf)
         /\ Len(args) <= Len(WithToken(args, t))
<1>1. 1 <= Arity(mf)
  BY ArityIs
<1>2. Len(args) \in Nat
  BY Indices DEF Lists
<1>3. CASE args = << >>
  <2>1. WithToken(args, t) = << <<t>> >>
    BY <1>3 DEF WithToken
  <2>2. Len(args) = 0
    BY <1>3, NoTokens
  <2>3. QED
    BY <1>1, <2>1, <2>2, NoLists
<1>4. CASE args # << >>
  <2>1. WithToken(args, t) = [args EXCEPT ![Len(args)] = Append(@, t)]
    BY <1>4 DEF WithToken
  <2>2. Lists(WithToken(args, t)) /\ Len(WithToken(args, t)) = Len(args)
    BY <2>1, LongerList
  <2>3. QED
    BY <1>2, <2>2
<1>5. QED
  BY <1>3, <1>4

LEMMA WithArgumentTyped ==
  ASSUME NEW call, NEW t, TypedCall(call), Word(t), ~(t = ")" /\ call.nestcnt = 1)
  PROVE  TypedCall(WithArgument(call, t))
<1> DEFINE new == WithArgument(call, t)
<1>1. /\ call.name \in Names /\ WellFormed(call.mf) /\ call.mf.is_function
      /\ call.stage \in {"paren", "arguments", "expand"}
      /\ call.nestcnt \in Nat \ {0} /\ Lists(call.args) /\ Lists(call.evald)
      /\ Len(call.evald) <= Len(call.args) /\ Len(call.args) <= Arity(call.mf)
      /\ call.mf.params \in Seq(STRING)
  BY DEF TypedCall, WellFormed
<1>2. Len(call.args) \in Nat /\ Len(call.evald) \in Nat /\ Len(call.mf.params) \in Nat
  BY <1>1, Indices DEF Lists
<1>3. call = [name |-> call.name, mf |-> call.mf, stage |-> call.stage,
              nestcnt |-> call.nestcnt, args |-> call.args, evald |-> call.evald]
  BY DEF TypedCall, ACall
<1>4. CASE t = "," /\ call.nestcnt = 1 /\ Len(call.args) < Len(call.mf.params)
  <2> DEFINE more == Append(call.args, << >>)
  <2>1. new = [call EXCEPT !.args = more]
    BY <1>4 DEF WithArgument
  <2>2. Lists(more) /\ Len(more) = Len(call.args) + 1
    BY <1>1, NoWords, OneListMore
  <2> HIDE DEF more, new
  <2>3. new = [name |-> call.name, mf |-> call.mf, stage |-> call.stage,
               nestcnt |-> call.nestcnt, args |-> more, evald |-> call.evald]
    BY <1>3, <2>1
  <2>4. Len(more) <= Arity(call.mf) /\ Len(call.evald) <= Len(more)
    <3>1. Len(call.mf.params) <= Arity(call.mf) /\ Arity(call.mf) \in Nat
      BY <1>1, ArityIs
    <3>2. \A e, a, p, r \in Nat : e <= a /\ a < p /\ p <= r => a + 1 <= r /\ e <= a + 1
      OBVIOUS
    <3>3. Len(call.args) + 1 <= Arity(call.mf) /\ Len(call.evald) <= Len(call.args) + 1
      <4>1. Len(call.evald) <= Len(call.args) /\ Len(call.args) < Len(call.mf.params)
        BY <1>1, <1>4
      <4>2. QED
        BY <1>2, <3>1, <3>2, <4>1
    <3>4. QED
      BY <2>2, <3>3
  <2>5. TypedCall(new)
    BY <1>1, <2>2, <2>3, <2>4, TypedWhenMade
  <2>6. QED
    BY <2>5 DEF new
<1>5. CASE ~(t = "," /\ call.nestcnt = 1 /\ Len(call.args) < Len(call.mf.params))
  <2> DEFINE more == WithToken(call.args, t)
             nest == IF t = "(" THEN call.nestcnt + 1
                     ELSE IF t = ")" THEN call.nestcnt - 1 ELSE call.nestcnt
  <2>1. new = [call EXCEPT !.args = more, !.nestcnt = nest]
    BY <1>5 DEF WithArgument
  <2>2. Lists(more) /\ Len(more) <= Arity(call.mf) /\ Len(call.args) <= Len(more)
    BY <1>1, WithTokenTyped
  <2>3. nest \in Nat \ {0}
    BY <1>1
  <2> HIDE DEF more, nest, new
  <2> DEFINE r == [call EXCEPT !.args = more]
  <2>4. r = [name |-> call.name, mf |-> call.mf, stage |-> call.stage,
             nestcnt |-> call.nestcnt, args |-> more, evald |-> call.evald]
    BY <1>3
  <2>5. new = [r EXCEPT !.nestcnt = nest]
    BY <2>1
  <2> HIDE DEF r
  <2>6. new = [name |-> call.name, mf |-> call.mf, stage |-> call.stage,
               nestcnt |-> nest, args |-> more, evald |-> call.evald]
    BY <2>4, <2>5
  <2>7. Len(call.evald) <= Len(more)
    <3>1. Len(more) \in Nat
      BY <2>2, Indices DEF Lists
    <3>2. QED
      BY <1>1, <1>2, <2>2, <3>1
  <2>8. TypedCall(new)
    BY <1>1, <2>2, <2>3, <2>6, <2>7, TypedWhenMade
  <2>9. QED
    BY <2>8 DEF new
<1>6. QED
  BY <1>4, <1>5

LEMMA InitTyped == Init => Typed
<1>1. SUFFICES ASSUME Init PROVE Typed
  OBVIOUS
<1>2. PICK p \in Programs : macros = p.macros /\ text = p.text
  BY <1>1 DEF Init
<1>3. TypedMacros(macros) /\ text \in Seq(SUBSET (Tokens \ {TT_ENDOFCODE}))
  BY <1>2, ConstantsAssumption DEF TypedMacros
<1>4. text \in Seq(SUBSET Tokens)
  <2>1. SUBSET (Tokens \ {TT_ENDOFCODE}) \subseteq SUBSET Tokens
    OBVIOUS
  <2>2. QED
    BY <1>3, <2>1, SeqMonotonic
<1>5. TypedBuffers(<< >>) /\ TypedCalls(<< >>)
  BY NoTokens DEF TypedBuffers, TypedCalls
<1>6. QED
  BY <1>1, <1>3, <1>4, <1>5 DEF Init, Typed

LEMMA ReadWord ==
  ASSUME NEW k \in 0..Len(open_buffers), NEW t \in Readable(k), TypedBuffers(open_buffers)
  PROVE  Token(t)
<1>1. Tokens \subseteq STRING \union {TT_ENDOFCODE}
  BY ConstantsAssumption DEF Tokens
<1>2. CASE k = 0
  BY <1>1, <1>2 DEF Readable, Token, Word
<1>3. CASE k # 0
  <2>1. t \in Range(open_buffers[k].tokens) \/ t = TT_ENDOFCODE
    BY <1>3 DEF Readable
  <2>2. Words(open_buffers[k].tokens) \/ open_buffers[k].tokens = <<TT_ENDOFCODE>>
    <3>1. Len(open_buffers) \in Nat
      BY Indices DEF TypedBuffers
    <3>2. k \in 1..Len(open_buffers)
      BY <1>3, <3>1
    <3>3. QED
      BY <3>2 DEF TypedBuffers, TypedBuffer, Ended
  <2>3. CASE Words(open_buffers[k].tokens)
    BY <2>1, <2>3, Indices DEF Words, Token, Range
  <2>4. CASE open_buffers[k].tokens = <<TT_ENDOFCODE>>
    <3>1. Range(<<TT_ENDOFCODE>>) = {TT_ENDOFCODE}
      BY DEF Range
    <3>2. QED
      BY <2>1, <2>4, <3>1 DEF Token
  <2>5. QED
    BY <2>2, <2>3, <2>4
<1>4. QED
  BY <1>2, <1>3

LEMMA NameWord ==
  ASSUME NEW t \in Names
  PROVE  Token(t) /\ t # TT_ENDOFCODE
BY ConstantsAssumption DEF Token, Word

LEMMA ReadTyped ==
  ASSUME NEW k, NEW t, Read(k, t), eof \in BOOLEAN, text \in Seq(SUBSET Tokens)
  PROVE  eof' \in BOOLEAN /\ text' \in Seq(SUBSET Tokens)
<1>1. \/ UNCHANGED <<eof, text>>
      \/ eof' = TRUE /\ text' = text
      \/ text # << >> /\ text' = Tail(text) /\ eof' = eof
  BY DEF Read, FromFile
<1>2. CASE UNCHANGED <<eof, text>>
  BY <1>2
<1>3. CASE eof' = TRUE /\ text' = text
  BY <1>3
<1>4. CASE text # << >> /\ text' = Tail(text) /\ eof' = eof
  BY <1>4
<1>5. QED
  BY <1>1, <1>2, <1>3, <1>4

LEMMA PreprocessTyped ==
  ASSUME ExpansionInv, Typed, Preprocess
  PROVE  Typed'
<1>1. Fit(open_buffers, calls) /\ macros' = macros /\ files' = files
  BY PreprocessingFits DEF Preprocess
<1>k. PICK k \in 0..Len(open_buffers) : \E t \in Readable(k) :
        /\ Settled(k) /\ Read(k, t)
        /\ EnterMacro(t, After(k)) \/ CallMacro(t, After(k)) \/ Leave(t, After(k))
  BY DEF Preprocess
<1>2. PICK t \in Readable(k) :
        /\ Settled(k) /\ Read(k, t)
        /\ EnterMacro(t, After(k)) \/ CallMacro(t, After(k)) \/ Leave(t, After(k))
  BY <1>k
<1>3. eof' \in BOOLEAN /\ text' \in Seq(SUBSET Tokens)
  BY <1>2, ReadTyped DEF Typed
<1>4. Fit(After(k), calls)
  BY <1>1, <1>2, ReadFurther
<1>5. /\ TypedBuffers(After(k)) /\ TypedCalls(calls) /\ TypedMacros(macros)
      /\ reading \in BOOLEAN /\ files \in Nat
  BY AfterTyped DEF Typed
<1>w. Token(t)
  BY <1>2, ReadWord DEF Typed
<1>6. CASE EnterMacro(t, After(k))
  <2>1. TypedBuffers(open_buffers')
    BY <1>5, <1>6, EnterMacroTyped
  <2>2. calls' = calls /\ reading' = reading
    BY <1>6 DEF EnterMacro
  <2>3. QED
    BY <1>1, <1>3, <1>5, <2>1, <2>2 DEF Typed
<1>7. CASE CallMacro(t, After(k))
  <2>1. TypedCalls(calls')
    BY <1>5, <1>7, CallMacroTyped
  <2>2. open_buffers' = After(k) /\ reading' = reading
    BY <1>7 DEF CallMacro
  <2>3. QED
    BY <1>1, <1>3, <1>5, <2>1, <2>2 DEF Typed
<1>8. CASE Leave(t, After(k))
  <2>1. Return(t, After(k), calls)
    BY <1>8 DEF Leave
  <2>2. TypedBuffers(open_buffers') /\ TypedCalls(calls') /\ reading' \in BOOLEAN
    BY <1>4, <1>5, <2>1, <1>w, ReturnTyped
  <2>3. QED
    BY <1>1, <1>3, <1>5, <2>2 DEF Typed
<1>9. QED
  BY <1>2, <1>6, <1>7, <1>8

LEMMA DirectiveTyped ==
  ASSUME Typed, Directive
  PROVE  Typed'
<1>1. /\ text # << >> /\ text' = Tail(text) /\ open_buffers' = << >>
      /\ calls' = calls /\ reading' = reading
  BY DEF Directive
<1>2. text' \in Seq(SUBSET Tokens)
  BY <1>1 DEF Typed
<1>3. TypedBuffers(<< >>)
  BY NoTokens DEF TypedBuffers
<1>4. CASE /\ \E n \in Names : \E m \in Definitions[n] \union {NoMacro} :
                macros' = [macros EXCEPT ![n] = m]
           /\ UNCHANGED <<files, eof>>
  <2>1. PICK n \in Names : \E m \in Definitions[n] \union {NoMacro} :
          macros' = [macros EXCEPT ![n] = m]
    BY <1>4
  <2>2. PICK m \in Definitions[n] \union {NoMacro} : macros' = [macros EXCEPT ![n] = m]
    BY <2>1
  <2>3. m = NoMacro \/ WellFormed(m)
    BY <2>2, ConstantsAssumption
  <2>4. TypedMacros(macros')
    BY <2>2, <2>3 DEF Typed, TypedMacros
  <2>5. QED
    BY <1>1, <1>2, <1>3, <1>4, <2>4 DEF Typed
<1>5. CASE files' = files + 1 /\ eof' \in BOOLEAN /\ UNCHANGED macros
  BY <1>1, <1>2, <1>3, <1>5 DEF Typed, TypedMacros
<1>6. QED
  BY <1>4, <1>5 DEF Directive

LEMMA EndOfFileTyped ==
  ASSUME ExpansionInv, Typed, EndOfFile
  PROVE  Typed'
<1>1. Fit(open_buffers, calls) /\ Settled(0) /\ macros' = macros /\ text' = text
  BY PreprocessingFits DEF EndOfFile
<1>2. TypedBuffers(<< >>)
  BY NoTokens DEF TypedBuffers
<1>3. CASE files > 0
  <2>1. /\ files' = files - 1 /\ eof' = FALSE /\ open_buffers' = << >>
        /\ calls' = calls /\ reading' = reading
    BY <1>3 DEF EndOfFile
  <2>2. files' \in Nat
    BY <1>3, <2>1 DEF Typed
  <2>3. QED
    BY <1>1, <1>2, <2>1, <2>2 DEF Typed
<1>4. CASE ~(files > 0)
  <2>1. eof' = TRUE /\ Return(TT_ENDOFCODE, << >>, calls) /\ files' = files
    BY <1>4 DEF EndOfFile
  <2>2. Fit(<< >>, calls)
    BY <1>1, NoneFrozen
  <2>w. Token(TT_ENDOFCODE)
    BY DEF Token
  <2>3. TypedBuffers(open_buffers') /\ TypedCalls(calls') /\ reading' \in BOOLEAN
    BY <1>2, <2>1, <2>2, <2>w, ReturnTyped DEF Typed
  <2>4. QED
    BY <1>1, <2>1, <2>3 DEF Typed
<1>5. QED
  BY <1>3, <1>4

LEMMA UnreadTyped ==
  ASSUME NEW t, Token(t)
  PROVE  TypedBuffer(Unread(t)) /\ Buffer(Unread(t)) /\ Unread(t).kind = "unread"
<1>1. Sequence(<<t>>) /\ (t # TT_ENDOFCODE => Words(<<t>>))
  BY One DEF Token
<1>2. Empty \in Names \union {Empty}
  OBVIOUS
<1>3. QED
  BY <1>1, <1>2, TypedWhenOpened, BufferOpened DEF Unread

LEMMA FindParenthesisTyped ==
  ASSUME ExpansionInv, Typed, FindParenthesis
  PROVE  Typed'
<1>1. /\ Pending(open_buffers, calls) /\ macros' = macros /\ files' = files
      /\ calls # << >>
  BY CallingPending DEF FindParenthesis, Calling
<1> DEFINE last == Last(calls)
           call == [last EXCEPT !.stage = "arguments"]
<1>k. PICK k \in 0..Len(open_buffers) : \E t \in Readable(k) :
        /\ Settled(k) /\ Read(k, t)
        /\ IF t = "("
           THEN /\ calls' = Append(Front(calls), call) /\ open_buffers' = After(k)
                /\ reading' = reading
           ELSE Return(last.name, Append(After(k), Unread(t)), Front(calls))
  BY DEF FindParenthesis
<1>2. PICK t \in Readable(k) :
        /\ Settled(k) /\ Read(k, t)
        /\ IF t = "("
           THEN /\ calls' = Append(Front(calls), call) /\ open_buffers' = After(k)
                /\ reading' = reading
           ELSE Return(last.name, Append(After(k), Unread(t)), Front(calls))
  BY <1>k
<1>3. Fit(open_buffers, Front(calls))
  BY <1>1 DEF Pending
<1>4. Fit(After(k), Front(calls))
  BY <1>2, <1>3, ReadFurther
<1>5. eof' \in BOOLEAN /\ text' \in Seq(SUBSET Tokens)
  BY <1>2, ReadTyped DEF Typed
<1>6. /\ TypedBuffers(After(k)) /\ TypedMacros(macros) /\ reading \in BOOLEAN /\ files \in Nat
      /\ TypedCalls(Front(calls)) /\ TypedCall(last)
  BY <1>1, AfterTyped, InnermostCall DEF Typed
<1>w. Token(t) /\ Token(last.name)
  BY <1>2, <1>6, ReadWord, NameWord DEF Typed, TypedCall
<1>7. CASE t = "("
  <2>1. /\ calls' = Append(Front(calls), call) /\ open_buffers' = After(k)
        /\ reading' = reading
    BY <1>2, <1>7
  <2> HIDE DEF last
  <2>2. call = [name |-> last.name, mf |-> last.mf, stage |-> "arguments",
                nestcnt |-> last.nestcnt, args |-> last.args, evald |-> last.evald]
    BY <1>6 DEF TypedCall, ACall
  <2> HIDE DEF call
  <2>3. TypedCall(call)
    BY <1>6, <2>2, TypedWhenMade DEF TypedCall
  <2>4. QED
    BY <1>1, <1>5, <1>6, <2>1, <2>3, OneCallMore DEF Typed
<1>8. CASE t # "("
  <2> DEFINE buffers == Append(After(k), Unread(t))
  <2>1. Return(last.name, buffers, Front(calls))
    BY <1>2, <1>8
  <2>2. TypedBuffer(Unread(t)) /\ Buffer(Unread(t)) /\ Unread(t).kind = "unread"
    BY <1>w, UnreadTyped
  <2>3. Fit(buffers, Front(calls)) /\ TypedBuffers(buffers)
    BY <1>4, <1>6, <2>2, OpenedFits, OneBufferMore
  <2> HIDE DEF buffers, last
  <2>4. TypedBuffers(open_buffers') /\ TypedCalls(calls') /\ reading' \in BOOLEAN
    BY <1>6, <1>w, <2>1, <2>3, ReturnTyped
  <2>5. QED
    BY <1>1, <1>5, <1>6, <2>4 DEF Typed
<1>9. QED
  BY <1>7, <1>8

LEMMA ReadArgumentTyped ==
  ASSUME ExpansionInv, Typed, ReadArgument
  PROVE  Typed'
<1>1. /\ Pending(open_buffers, calls) /\ macros' = macros /\ files' = files
      /\ calls # << >>
  BY CallingPending DEF ReadArgument, Calling
<1> DEFINE last == Last(calls)
<1>k. PICK k \in 0..Len(open_buffers) : \E t \in Readable(k) :
        /\ Settled(k) /\ Read(k, t)
        /\ \/ Return(last.name, After(k), Front(calls))
           \/ Expand(last, After(k), Front(calls)) /\ reading' = reading
           \/ /\ t # TT_ENDOFCODE /\ ~(t = ")" /\ last.nestcnt = 1)
              /\ calls' = Append(Front(calls), WithArgument(last, t))
              /\ open_buffers' = After(k) /\ reading' = reading
  BY DEF ReadArgument
<1>2. PICK t \in Readable(k) :
        /\ Settled(k) /\ Read(k, t)
        /\ \/ Return(last.name, After(k), Front(calls))
           \/ Expand(last, After(k), Front(calls)) /\ reading' = reading
           \/ /\ t # TT_ENDOFCODE /\ ~(t = ")" /\ last.nestcnt = 1)
              /\ calls' = Append(Front(calls), WithArgument(last, t))
              /\ open_buffers' = After(k) /\ reading' = reading
  BY <1>k
<1>3. Fit(open_buffers, Front(calls))
  BY <1>1 DEF Pending
<1>4. Fit(After(k), Front(calls))
  BY <1>2, <1>3, ReadFurther
<1>5. eof' \in BOOLEAN /\ text' \in Seq(SUBSET Tokens)
  BY <1>2, ReadTyped DEF Typed
<1>6. /\ TypedBuffers(After(k)) /\ TypedMacros(macros) /\ reading \in BOOLEAN /\ files \in Nat
      /\ TypedCalls(Front(calls)) /\ TypedCall(last)
  BY <1>1, AfterTyped, InnermostCall DEF Typed
<1>w. Token(t) /\ Token(last.name)
  BY <1>2, <1>6, ReadWord, NameWord DEF Typed, TypedCall
<1> HIDE DEF last
<1>7. CASE Return(last.name, After(k), Front(calls))
  <2>1. TypedBuffers(open_buffers') /\ TypedCalls(calls') /\ reading' \in BOOLEAN
    BY <1>4, <1>6, <1>7, <1>w, ReturnTyped
  <2>2. QED
    BY <1>1, <1>5, <1>6, <2>1 DEF Typed
<1>8. CASE Expand(last, After(k), Front(calls)) /\ reading' = reading
  <2>1. TypedBuffers(open_buffers') /\ TypedCalls(calls')
    BY <1>6, <1>8, ExpandTyped
  <2>2. QED
    BY <1>1, <1>5, <1>6, <1>8, <2>1 DEF Typed
<1>9. CASE /\ t # TT_ENDOFCODE /\ ~(t = ")" /\ last.nestcnt = 1)
           /\ calls' = Append(Front(calls), WithArgument(last, t))
           /\ open_buffers' = After(k) /\ reading' = reading
  <2>1. TypedCall(WithArgument(last, t))
    BY <1>6, <1>9, <1>w, WithArgumentTyped DEF Token
  <2>2. TypedCalls(calls')
    BY <1>6, <1>9, <2>1, OneCallMore
  <2>3. QED
    BY <1>1, <1>5, <1>6, <1>9, <2>2 DEF Typed
<1>10. QED
  BY <1>2, <1>7, <1>8, <1>9

LEMMA TypedStep ==
  ASSUME ExpansionInv, Typed, [Next]_vars
  PROVE  Typed'
<1>1. CASE get_token \/ UNCHANGED vars
  <2>1. /\ UNCHANGED <<macros, files, eof, text, open_buffers, calls>>
        /\ reading' = TRUE \/ reading' = reading
    BY <1>1 DEF get_token, vars
  <2>2. QED
    BY <2>1 DEF Typed
<1>2. QED
  BY <1>1, PreprocessTyped, DirectiveTyped, EndOfFileTyped, FindParenthesisTyped,
     ReadArgumentTyped DEF Next, Lex

(* The state of the lexer is of its types: no buffer is read beyond its    *)
(* end, no call counts its parentheses below one or has more arguments     *)
(* than parameters, whatever substitute_and_unroll made of the lists of    *)
(* the macros entered before.                                              *)
THEOREM MacrosTyped == Spec => []TypeOK
<1>1. ExpansionInv /\ Typed /\ [Next]_vars => Typed'
  BY TypedStep
<1>2. Spec => []Typed
  BY InitTyped, <1>1, ExpansionInvariant, PTL DEF Spec
<1>3. QED
  BY <1>2, TypedSuffices, PTL

-----------------------------------------------------------------------------
(* What a macro is entered with.                                           *)

Made(new, call) ==
  \/ TakesTokenBefore(call.mf, call.args, call.evald)
  \/ new.tokens = Replacement(call.mf, call.args, call.evald)

(* No macro was entered.                                                   *)
Quiet(bs) == bs # << >> => Last(bs).kind # "macro" \/ Last(bs).buf_pos # 0

(* A macro was entered that call is a call of.                             *)
EnteredBy(call) == Last(open_buffers').macro = call.name /\ Made(Last(open_buffers'), call)

LEMMA OpenedQuiet ==
  ASSUME NEW bs, NEW b, Sequence(bs), b.kind # "macro"
  PROVE  Quiet(Append(bs, b))
BY Appended DEF Quiet

LEMMA AfterQuiet ==
  ASSUME NEW k \in 0..Len(open_buffers), TypedBuffers(open_buffers), Settled(k)
  PROVE  Quiet(After(k))
<1> DEFINE new == After(k)
<1>1. Len(open_buffers) \in Nat /\ k \in Nat /\ k <= Len(open_buffers)
  BY Indices DEF TypedBuffers
<1>2. /\ new = [i \in 1..k |-> new[i]]
      /\ \A i \in 1..k : new[i] = IF i = k /\ ~Exhausted(open_buffers[k])
                                  THEN [open_buffers[k] EXCEPT !.buf_pos = @ + 1]
                                  ELSE open_buffers[i]
  BY DEF After
<1> HIDE DEF new
<1>3. Sequence(new) /\ Len(new) = k
  BY <1>1, <1>2, Tabulated
<1>4. SUFFICES ASSUME new # << >>
               PROVE  Last(new).kind # "macro" \/ Last(new).buf_pos # 0
  BY DEF Quiet, new
<1>5. k \in 1..k /\ k \in 1..Len(open_buffers)
  <2>1. Len(new) # 0
    BY <1>3, <1>4, Indices
  <2>2. QED
    BY <1>1, <1>3, <2>1
<1>6. Last(new) = new[k]
  BY <1>3 DEF Last
<1> DEFINE b == open_buffers[k]
<1>7. TypedBuffer(b) /\ b.buf_pos \in Nat /\ ~Poppable(b)
  <2>1. TypedBuffer(b) /\ ~Poppable(b)
    BY <1>5 DEF TypedBuffers, Settled
  <2>2. QED
    BY <2>1, Indices DEF TypedBuffer
<1>8. CASE ~Exhausted(b)
  <2>1. new[k] = [b EXCEPT !.buf_pos = b.buf_pos + 1]
    BY <1>2, <1>5, <1>8
  <2> HIDE DEF b
  <2>2. b = [kind |-> b.kind, macro |-> b.macro, tokens |-> b.tokens, buf_pos |-> b.buf_pos]
    BY <1>7 DEF TypedBuffer, Buffer
  <2>3. new[k].buf_pos = b.buf_pos + 1
    BY <2>1, <2>2
  <2>4. b.buf_pos + 1 # 0
    BY <1>7
  <2>5. QED
    BY <1>6, <2>3, <2>4
<1>9. CASE Exhausted(b)
  <2>1. new[k] = b
    BY <1>2, <1>5, <1>9
  <2>2. b.kind = "frozen"
    BY <1>7, <1>9 DEF Poppable
  <2>3. QED
    BY <1>6, <2>1, <2>2
<1>10. QED
  BY <1>8, <1>9

LEMMA ExpandMade ==
  ASSUME NEW call, NEW buffers, NEW frames, TextsConcatenate, TypedCall(call),
         Sequence(buffers), Expand(call, buffers, frames)
  PROVE  Quiet(open_buffers') \/ (calls' = frames /\ EnteredBy(call))
<1> DEFINE next == Len(call.evald) + 1
<1>1. CASE next <= Len(call.args)
  <2> DEFINE b == OpenBuffer("frozen", call.name, call.args[next])
  <2>1. open_buffers' = Append(buffers, b) /\ b.kind = "frozen"
    BY <1>1 DEF Expand, OpenBuffer
  <2> HIDE DEF b
  <2>2. Quiet(open_buffers')
    BY <2>1, OpenedQuiet
  <2>3. QED
    BY <2>2
<1>2. CASE ~(next <= Len(call.args))
  <2> DEFINE list == Substituted(call.mf, call.args, call.evald)
             b == OpenBuffer("macro", call.name, list)
  <2>1. open_buffers' = Append(buffers, b) /\ calls' = frames
    BY <1>2 DEF Expand
  <2>2. b.macro = call.name /\ b.tokens = list
    BY DEF OpenBuffer
  <2>3. /\ Lists(call.args) /\ Lists(call.evald) /\ WellFormed(call.mf) /\ call.mf.is_function
        /\ Len(call.args) <= Len(call.evald)
    <3>1. /\ Lists(call.args) /\ Lists(call.evald) /\ WellFormed(call.mf)
          /\ call.mf.is_function
      BY DEF TypedCall
    <3>2. Len(call.args) \in Nat /\ Len(call.evald) \in Nat
      BY <3>1, Indices DEF Lists
    <3>3. QED
      BY <1>2, <3>1, <3>2
  <2>4. \/ TakesTokenBefore(call.mf, call.args, call.evald)
        \/ list = Replacement(call.mf, call.args, call.evald)
    BY <2>3, ReplacedSo
  <2> HIDE DEF b, list
  <2>5. Last(open_buffers') = b
    BY <2>1, Appended
  <2>6. QED
    BY <2>1, <2>2, <2>4, <2>5 DEF EnteredBy, Made
<1>3. QED
  BY <1>1, <1>2

LEMMA ReturnMade ==
  ASSUME NEW t, NEW buffers, NEW frames, TextsConcatenate, Fit(buffers, frames),
         TypedBuffers(buffers), Quiet(buffers), TypedCalls(frames), Return(t, buffers, frames)
  PROVE  \/ Quiet(open_buffers')
         \/ /\ frames # << >> /\ t = TT_ENDOFCODE
            /\ calls' = Front(frames) /\ EnteredBy(Last(frames))
<1>1. CASE frames = << >> \/ t # TT_ENDOFCODE
  <2>1. open_buffers' = buffers
    BY <1>1 DEF Return
  <2>2. QED
    BY <2>1
<1>2. CASE frames # << >> /\ t = TT_ENDOFCODE
  <2>1. Expand(Last(frames), BelowFrozen(buffers), Front(frames))
    BY <1>2 DEF Return
  <2>2. TypedCall(Last(frames)) /\ Sequence(BelowFrozen(buffers))
    BY <1>2, InnermostCall, BelowTyped DEF TypedBuffers
  <2>3. QED
    BY <1>2, <2>1, <2>2, ExpandMade
<1>3. QED
  BY <1>1, <1>2

(* An object-like macro has no arguments.                                  *)
LEMMA EnterMacroMade ==
  ASSUME NEW t, NEW buffers, TextsConcatenate, TypedMacros(macros), TypedBuffers(buffers),
         Quiet(buffers), EnterMacro(t, buffers)
  PROVE  Quiet(open_buffers') \/ (calls' = calls /\ EnteredBy(Call(t, macros[t])))
<1> DEFINE mf == macros[t]
           call == Call(t, mf)
           list == Substituted(mf, << >>, << >>)
           b == OpenBuffer("macro", t, list)
<1>1. t \in Names /\ mf # NoMacro /\ ~mf.is_function
  BY DEF EnterMacro, MayEnter, Scalar
<1>2. WellFormed(mf)
  BY <1>1 DEF TypedMacros
<1>3. \/ TakesTokenBefore(mf, << >>, << >>)
      \/ list = Replacement(mf, << >>, << >>)
  <2>1. Lists(<< >>) /\ Len(<< >>) <= Len(<< >>)
    BY NoLists, NoTokens
  <2> HIDE DEF mf
  <2>2. QED
    BY <1>1, <1>2, <2>1, ReplacedSo
<1>4. call.name = t /\ call.mf = mf /\ call.args = << >> /\ call.evald = << >>
  <2>1. mf.params = << >>
    BY <1>1, <1>2 DEF WellFormed
  <2> HIDE DEF mf
  <2>2. QED
    BY <2>1 DEF Call
<1>5. b.macro = t /\ b.tokens = list
  BY DEF OpenBuffer
<1>6. calls' = calls /\ (open_buffers' = buffers \/ open_buffers' = Append(buffers, b))
  BY DEF EnterMacro
<1> HIDE DEF b, list, call, mf
<1>7. CASE open_buffers' = buffers
  BY <1>7
<1>8. CASE open_buffers' = Append(buffers, b)
  <2>1. Last(open_buffers') = b
    BY <1>8, Appended DEF TypedBuffers
  <2>2. EnteredBy(call)
    BY <1>3, <1>4, <1>5, <2>1 DEF EnteredBy, Made
  <2>3. QED
    BY <1>6, <2>2 DEF call, mf
<1>9. QED
  BY <1>6, <1>7, <1>8

(* What ReplacedAsWritten says of a step.                                  *)
AsWritten ==
  \/ Quiet(open_buffers')
  \/ open_buffers' = open_buffers
  \/ /\ calls' = calls
     /\ \E name : EnteredBy(Call(name, macros[name]))
  \/ calls' # calls /\ EnteredBy(Last(calls))

LEMMA AsWrittenSuffices ==
  AsWritten => (Entered =>
    LET new == Last(open_buffers')
        call == IF calls' = calls THEN Call(new.macro, macros[new.macro]) ELSE Last(calls)
    IN  \/ TakesTokenBefore(call.mf, call.args, call.evald)
        \/ new.tokens = Replacement(call.mf, call.args, call.evald))
<1> DEFINE new == Last(open_buffers')
           call == IF calls' = calls THEN Call(new.macro, macros[new.macro]) ELSE Last(calls)
<1>1. SUFFICES ASSUME AsWritten, Entered PROVE Made(new, call)
  BY DEF Made
<1>2. ~Quiet(open_buffers') /\ open_buffers' # open_buffers
  BY <1>1 DEF Entered, Quiet
<1>3. CASE calls' = calls /\ \E name : EnteredBy(Call(name, macros[name]))
  <2>1. PICK name : EnteredBy(Call(name, macros[name]))
    BY <1>3
  <2>2. Call(name, macros[name]).name = name
    BY DEF Call
  <2>3. new.macro = name /\ Made(new, Call(name, macros[name]))
    BY <2>1, <2>2 DEF EnteredBy
  <2>4. QED
    BY <1>3, <2>3
<1>4. CASE calls' # calls /\ EnteredBy(Last(calls))
  BY <1>4 DEF EnteredBy
<1>5. QED
  BY <1>1, <1>2, <1>3, <1>4 DEF AsWritten

LEMMA FewerCalls ==
  ASSUME NEW cs, Sequence(cs), cs # << >>
  PROVE  Front(cs) # cs
<1>1. Len(cs) \in Nat /\ Len(Front(cs)) = Len(cs) - 1
  BY InFront, Indices
<1>2. QED
  BY <1>1

LEMMA PreprocessMade ==
  ASSUME TextsConcatenate, ExpansionInv, Typed, Preprocess
  PROVE  AsWritten
<1>1. Fit(open_buffers, calls)
  BY PreprocessingFits DEF Preprocess
<1>k. PICK k \in 0..Len(open_buffers) : \E t \in Readable(k) :
        /\ Settled(k) /\ Read(k, t)
        /\ EnterMacro(t, After(k)) \/ CallMacro(t, After(k)) \/ Leave(t, After(k))
  BY DEF Preprocess
<1>2. PICK t \in Readable(k) :
        /\ Settled(k) /\ Read(k, t)
        /\ EnterMacro(t, After(k)) \/ CallMacro(t, After(k)) \/ Leave(t, After(k))
  BY <1>k
<1>3. /\ TypedBuffers(After(k)) /\ TypedCalls(calls) /\ TypedMacros(macros)
      /\ Quiet(After(k)) /\ Fit(After(k), calls)
  BY <1>1, <1>2, AfterTyped, AfterQuiet, ReadFurther DEF Typed
<1>4. CASE EnterMacro(t, After(k))
  BY <1>3, <1>4, EnterMacroMade DEF AsWritten
<1>5. CASE CallMacro(t, After(k))
  BY <1>3, <1>5 DEF CallMacro, AsWritten
<1>6. CASE Leave(t, After(k))
  <2>1. Return(t, After(k), calls)
    BY <1>6 DEF Leave
  <2>2. \/ Quiet(open_buffers')
        \/ calls # << >> /\ calls' = Front(calls) /\ EnteredBy(Last(calls))
    BY <1>3, <2>1, ReturnMade
  <2>3. QED
    BY <1>3, <2>2, FewerCalls DEF AsWritten, TypedCalls
<1>7. QED
  BY <1>2, <1>4, <1>5, <1>6

LEMMA EndOfFileMade ==
  ASSUME TextsConcatenate, ExpansionInv, Typed, EndOfFile
  PROVE  AsWritten
<1>1. Fit(open_buffers, calls) /\ Settled(0)
  BY PreprocessingFits DEF EndOfFile
<1>2. TypedBuffers(<< >>) /\ Quiet(<< >>)
  BY NoTokens DEF TypedBuffers, Quiet
<1>3. CASE files > 0
  BY <1>2, <1>3 DEF EndOfFile, AsWritten
<1>4. CASE ~(files > 0)
  <2>1. Return(TT_ENDOFCODE, << >>, calls)
    BY <1>4 DEF EndOfFile
  <2>2. Fit(<< >>, calls) /\ TypedCalls(calls)
    BY <1>1, NoneFrozen DEF Typed
  <2>3. \/ Quiet(open_buffers')
        \/ calls # << >> /\ calls' = Front(calls) /\ EnteredBy(Last(calls))
    BY <1>2, <2>1, <2>2, ReturnMade
  <2>4. QED
    BY <2>2, <2>3, FewerCalls DEF AsWritten, TypedCalls
<1>5. QED
  BY <1>3, <1>4

(* The name of a call that has no parenthesis, or no end, goes back to who *)
(* asked for a token; it is not the end of the code.                       *)
LEMMA GivenBack ==
  ASSUME NEW c, TypedCall(c)
  PROVE  c.name # TT_ENDOFCODE
BY NameWord DEF TypedCall

LEMMA FindParenthesisMade ==
  ASSUME TextsConcatenate, ExpansionInv, Typed, FindParenthesis
  PROVE  AsWritten
<1>1. Pending(open_buffers, calls) /\ calls # << >>
  BY CallingPending DEF FindParenthesis, Calling
<1> DEFINE name == Last(calls).name
<1>k. PICK k \in 0..Len(open_buffers) : \E t \in Readable(k) :
        /\ Settled(k) /\ Read(k, t)
        /\ \/ open_buffers' = After(k)
           \/ Return(name, Append(After(k), Unread(t)), Front(calls))
  BY DEF FindParenthesis
<1>2. PICK t \in Readable(k) :
        /\ Settled(k) /\ Read(k, t)
        /\ \/ open_buffers' = After(k)
           \/ Return(name, Append(After(k), Unread(t)), Front(calls))
  BY <1>k
<1>3. Fit(After(k), Front(calls))
  <2>1. Fit(open_buffers, Front(calls))
    BY <1>1 DEF Pending
  <2>2. QED
    BY <1>2, <2>1, ReadFurther
<1>4. /\ TypedBuffers(After(k)) /\ Quiet(After(k))
      /\ TypedCalls(Front(calls)) /\ TypedCall(Last(calls))
  BY <1>1, <1>2, AfterTyped, AfterQuiet, InnermostCall DEF Typed
<1>5. CASE open_buffers' = After(k)
  BY <1>4, <1>5 DEF AsWritten
<1>6. CASE Return(name, Append(After(k), Unread(t)), Front(calls))
  <2> DEFINE buffers == Append(After(k), Unread(t))
  <2>1. TypedBuffer(Unread(t)) /\ Buffer(Unread(t)) /\ Unread(t).kind = "unread"
    BY <1>2, ReadWord, UnreadTyped DEF Typed
  <2>2. Fit(buffers, Front(calls)) /\ TypedBuffers(buffers) /\ Quiet(buffers)
    BY <1>3, <1>4, <2>1, OpenedFits, OneBufferMore, OpenedQuiet DEF TypedBuffers
  <2>3. name # TT_ENDOFCODE
    BY <1>4, GivenBack
  <2> HIDE DEF buffers, name
  <2>4. Return(name, buffers, Front(calls))
    BY <1>6 DEF buffers
  <2>5. Quiet(open_buffers')
    BY <1>4, <2>2, <2>3, <2>4, ReturnMade
  <2>6. QED
    BY <2>5 DEF AsWritten
<1>7. QED
  BY <1>2, <1>5, <1>6

LEMMA ReadArgumentMade ==
  ASSUME TextsConcatenate, ExpansionInv, Typed, ReadArgument
  PROVE  AsWritten
<1>1. Pending(open_buffers, calls) /\ calls # << >>
  BY CallingPending DEF ReadArgument, Calling
<1> DEFINE last == Last(calls)
<1>k. PICK k \in 0..Len(open_buffers) : \E t \in Readable(k) :
        /\ Settled(k) /\ Read(k, t)
        /\ \/ Return(last.name, After(k), Front(calls))
           \/ Expand(last, After(k), Front(calls))
           \/ open_buffers' = After(k)
  BY DEF ReadArgument
<1>2. /\ Settled(k)
      /\ \/ Return(last.name, After(k), Front(calls))
         \/ Expand(last, After(k), Front(calls))
         \/ open_buffers' = After(k)
      /\ \E t : Read(k, t)
  BY <1>k
<1>3. Fit(After(k), Front(calls))
  <2>1. Fit(open_buffers, Front(calls))
    BY <1>1 DEF Pending
  <2>2. QED
    BY <1>2, <2>1, ReadFurther
<1>4. /\ TypedBuffers(After(k)) /\ Quiet(After(k))
      /\ TypedCalls(Front(calls)) /\ TypedCall(last)
  BY <1>1, <1>2, AfterTyped, AfterQuiet, InnermostCall DEF Typed
<1>5. CASE Return(last.name, After(k), Front(calls))
  <2>1. last.name # TT_ENDOFCODE
    BY <1>4, GivenBack
  <2> HIDE DEF last
  <2>2. Quiet(open_buffers')
    BY <1>3, <1>4, <1>5, <2>1, ReturnMade
  <2>3. QED
    BY <2>2 DEF AsWritten
<1>6. CASE Expand(last, After(k), Front(calls))
  <2>1. Front(calls) # calls
    BY <1>1, FewerCalls DEF Typed, TypedCalls
  <2>2. Quiet(open_buffers') \/ (calls' = Front(calls) /\ EnteredBy(last))
    <3> HIDE DEF last
    <3>1. QED
      BY <1>4, <1>6, ExpandMade DEF TypedBuffers
  <2>3. QED
    BY <2>1, <2>2 DEF AsWritten
<1>7. CASE open_buffers' = After(k)
  BY <1>4, <1>7 DEF AsWritten
<1>8. QED
  BY <1>2, <1>5, <1>6, <1>7

LEMMA MadeStep ==
  ASSUME TextsConcatenate, ExpansionInv, Typed, [Next]_vars
  PROVE  AsWritten
<1>1. CASE get_token \/ UNCHANGED vars
  BY <1>1 DEF get_token, vars, AsWritten
<1>2. CASE Directive
  BY <1>2 DEF Directive, AsWritten, Quiet
<1>3. QED
  BY <1>1, <1>2, PreprocessMade, EndOfFileMade, FindParenthesisMade, ReadArgumentMade
     DEF Next, Lex

(* A macro is entered with the replacement list that C++ makes of it, the  *)
(* arguments as they were written beside # and ## and expanded elsewhere,  *)
(* whatever the lists and the arguments are; but for chains of ## that     *)
(* take the token before them.                                             *)
THEOREM ReplacedAsWrittenHolds ==
  ASSUME TextsConcatenate
  PROVE  Spec => ReplacedAsWritten
<1>1. ExpansionInv /\ Typed /\ [Next]_vars => Typed'
  BY TypedStep
<1>2. ASSUME ExpansionInv, Typed, [Next]_vars
      PROVE  Entered =>
               LET new == Last(open_buffers')
                   call == IF calls' = calls THEN Call(new.macro, macros[new.macro])
                           ELSE Last(calls)
               IN  \/ TakesTokenBefore(call.mf, call.args, call.evald)
                   \/ new.tokens = Replacement(call.mf, call.args, call.evald)
  BY <1>2, MadeStep, AsWrittenSuffices
<1>3. QED
  BY InitTyped, <1>1, <1>2, ExpansionInvariant, PTL DEF Spec, ReplacedAsWritten

-----------------------------------------------------------------------------
(* What is popped was read.                                                *)

NoneFrozenBetween(bs, j, m) == \A f \in (j + 1)..(m - 1) : bs[f].kind # "frozen"

(* The end of the code is put back on top of what it was the end of.       *)
ReadBelow(bs) ==
  \A m \in 1..Len(bs) : \A j \in 1..(m - 1) :
    Ended(bs[m]) /\ NoneFrozenBetween(bs, j, m) => Exhausted(bs[j])

LEMMA LessRead ==
  ASSUME NEW old, NEW new, ReadBelow(old), Len(old) \in Nat, Len(new) \in Nat,
         Len(new) <= Len(old),
         \A i \in 1..Len(new) : /\ new[i].kind = old[i].kind
                                /\ Ended(new[i]) => Ended(old[i])
                                /\ Exhausted(old[i]) => Exhausted(new[i])
  PROVE  ReadBelow(new)
<1>1. SUFFICES ASSUME NEW m \in 1..Len(new), NEW j \in 1..(m - 1),
                      Ended(new[m]), NoneFrozenBetween(new, j, m)
               PROVE  Exhausted(new[j])
  BY DEF ReadBelow
<1>2. m \in 1..Len(old) /\ j \in 1..Len(new)
  BY <1>1
<1>3. NoneFrozenBetween(old, j, m)
  <2>1. \A f \in (j + 1)..(m - 1) : f \in 1..Len(new)
    BY <1>1
  <2>2. QED
    BY <1>1, <2>1 DEF NoneFrozenBetween
<1>4. Exhausted(old[j])
  BY <1>1, <1>2, <1>3 DEF ReadBelow
<1>5. QED
  BY <1>2, <1>4

LEMMA MoreRead ==
  ASSUME NEW bs, NEW b, Sequence(bs), ReadBelow(bs),
         Ended(b) => \A j \in 1..Len(bs) :
                       NoneFrozenBetween(bs, j, Len(bs) + 1) => Exhausted(bs[j])
  PROVE  ReadBelow(Append(bs, b))
<1> DEFINE new == Append(bs, b)
           n == Len(bs)
<1>1. /\ n \in Nat /\ Len(new) = n + 1
      /\ \A i \in 1..n : new[i] = bs[i]
      /\ new[n + 1] = b
  BY Appended, Indices
<1> HIDE DEF new, n
<1>2. SUFFICES ASSUME NEW m \in 1..(n + 1), NEW j \in 1..(m - 1),
                      Ended(new[m]), NoneFrozenBetween(new, j, m)
               PROVE  Exhausted(new[j])
  BY <1>1 DEF ReadBelow, new
<1>3. j \in 1..n /\ new[j] = bs[j]
  BY <1>1
<1>4. NoneFrozenBetween(bs, j, m)
  <2>1. \A f \in (j + 1)..(m - 1) : f \in 1..n
    BY <1>1, <1>2
  <2>2. QED
    BY <1>1, <1>2, <2>1 DEF NoneFrozenBetween
<1>5. CASE m = n + 1
  BY <1>1, <1>2, <1>3, <1>4, <1>5 DEF n
<1>6. CASE m \in 1..n
  <2>1. Exhausted(bs[j])
    BY <1>1, <1>2, <1>4, <1>6 DEF ReadBelow, n
  <2>2. QED
    BY <1>3, <2>1
<1>7. QED
  BY <1>1, <1>5, <1>6

LEMMA AfterRead ==
  ASSUME NEW k \in 0..Len(open_buffers), TypedBuffers(open_buffers), ReadBelow(open_buffers)
  PROVE  ReadBelow(After(k))
<1> DEFINE new == After(k)
<1>1. Len(open_buffers) \in Nat /\ k \in Nat /\ k <= Len(open_buffers)
  BY Indices DEF TypedBuffers
<1>2. /\ new = [i \in 1..k |-> new[i]]
      /\ \A i \in 1..k : new[i] = IF i = k /\ ~Exhausted(open_buffers[k])
                                  THEN [open_buffers[k] EXCEPT !.buf_pos = @ + 1]
                                  ELSE open_buffers[i]
  BY DEF After
<1> HIDE DEF new
<1>3. Len(new) = k
  BY <1>1, <1>2, Tabulated
<1>4. ASSUME NEW i \in 1..k
      PROVE  /\ new[i].kind = open_buffers[i].kind
             /\ Ended(new[i]) => Ended(open_buffers[i])
             /\ Exhausted(open_buffers[i]) => Exhausted(new[i])
  <2>1. Buffer(open_buffers[i])
    BY <1>1 DEF TypedBuffers, TypedBuffer
  <2>2. CASE i = k /\ ~Exhausted(open_buffers[k])
    <3>1. new[i] = [open_buffers[i] EXCEPT !.buf_pos = @ + 1]
      BY <1>2, <2>2
    <3>2. /\ new[i].kind = open_buffers[i].kind /\ new[i].macro = open_buffers[i].macro
          /\ new[i].tokens = open_buffers[i].tokens
      BY <2>1, <3>1 DEF Buffer
    <3>3. QED
      BY <2>2, <3>2 DEF Ended
  <2>3. CASE ~(i = k /\ ~Exhausted(open_buffers[k]))
    BY <1>2, <2>3
  <2>4. QED
    BY <2>2, <2>3
<1>5. ReadBelow(new)
  BY <1>1, <1>3, <1>4, LessRead
<1>6. QED
  BY <1>5 DEF new

(* Where the end of the code comes from a buffer: an argument was read, or *)
(* it was put back there when it was.                                      *)
LEMMA EndRead ==
  ASSUME NEW k \in 1..Len(open_buffers), TextsConcatenate, TypedBuffers(open_buffers),
         ReadBelow(open_buffers), Settled(k), Read(k, TT_ENDOFCODE),
         NEW j \in 1..k, NoneFrozenBetween(open_buffers, j, k + 1)
  PROVE  /\ Exhausted(After(k)[j])
         /\ Exhausted(open_buffers[j]) \/ open_buffers[j] = Unread(TT_ENDOFCODE)
<1> DEFINE top == open_buffers[k]
<1>1. Len(open_buffers) \in Nat /\ k # 0 /\ k <= Len(open_buffers)
  BY Indices DEF TypedBuffers
<1>2. TypedBuffer(top) /\ ~Poppable(top)
  BY <1>1 DEF TypedBuffers, Settled
<1>3. After(k)[j] = IF j = k /\ ~Exhausted(top) THEN [top EXCEPT !.buf_pos = @ + 1]
                    ELSE open_buffers[j]
  BY DEF After
<1>4. TT_ENDOFCODE = IF Exhausted(top) THEN TT_ENDOFCODE ELSE top.tokens[top.buf_pos + 1]
  BY <1>1 DEF Read
<1>5. CASE Exhausted(top)
  <2>1. top.kind = "frozen"
    BY <1>2, <1>5 DEF Poppable
  <2>2. j = k
    <3>1. j < k => k \in (j + 1)..((k + 1) - 1)
      OBVIOUS
    <3>2. ~(j < k)
      BY <2>1, <3>1 DEF NoneFrozenBetween
    <3>3. QED
      BY <3>2
  <2>3. QED
    BY <1>3, <1>5, <2>2
<1>6. CASE ~Exhausted(top)
  <2> HIDE DEF top
  <2>1. /\ Len(top.tokens) \in Nat /\ top.buf_pos \in 0..Len(top.tokens)
        /\ ~(top.buf_pos >= Len(top.tokens))
    BY <1>2, <1>6, Indices DEF TypedBuffer, Exhausted
  <2>2. top.buf_pos + 1 \in 1..Len(top.tokens)
    BY <2>1
  <2>3. ~Words(top.tokens)
    <3>1. ~Word(TT_ENDOFCODE)
      BY ConstantsAssumption DEF Word
    <3>2. QED
      BY <1>4, <1>6, <2>2, <3>1 DEF Words
  <2>4. Ended(top)
    BY <1>2, <2>3 DEF TypedBuffer
  <2>5. Len(top.tokens) = 1 /\ top.buf_pos = 0
    <3>1. Len(<<TT_ENDOFCODE>>) = 1
      BY One
    <3>2. QED
      BY <2>1, <2>4, <3>1 DEF Ended
  <2>6. CASE j = k
    <3>1. top = Unread(TT_ENDOFCODE)
      BY <1>2, <2>4, <2>5 DEF TypedBuffer, Buffer, Ended, Unread, OpenBuffer
    <3>2. After(k)[j] = [top EXCEPT !.buf_pos = top.buf_pos + 1]
      BY <1>3, <1>6, <2>6
    <3>3. After(k)[j].tokens = top.tokens /\ After(k)[j].buf_pos = top.buf_pos + 1
      BY <1>2, <3>2 DEF TypedBuffer, Buffer
    <3>4. Exhausted(After(k)[j])
      <4>1. PICK b : b = After(k)[j]
        OBVIOUS
      <4>2. b.buf_pos = 1 /\ Len(b.tokens) = 1
        BY <2>5, <3>3, <4>1
      <4>3. Exhausted(b)
        BY <4>2 DEF Exhausted
      <4>4. QED
        BY <4>1, <4>3
    <3>5. QED
      BY <2>6, <3>1, <3>4 DEF top
  <2>7. CASE j # k
    <3>1. NoneFrozenBetween(open_buffers, j, k)
      <4>1. \A f \in (j + 1)..(k - 1) : f \in (j + 1)..((k + 1) - 1)
        OBVIOUS
      <4>2. QED
        BY <4>1 DEF NoneFrozenBetween
    <3>2. j \in 1..(k - 1) /\ k \in 1..Len(open_buffers)
      BY <2>7
    <3>3. Exhausted(open_buffers[j])
      BY <2>4, <3>1, <3>2 DEF ReadBelow, top
    <3>4. QED
      BY <1>3, <2>7, <3>3
  <2>8. QED
    BY <2>6, <2>7
<1>7. QED
  BY <1>5, <1>6

(* The frozen buffers of bs are not popped.                                *)
StayFrozen(bs) ==
  \A i \in 1..Len(bs) : bs[i].kind = "frozen" =>
    i \in 1..Len(open_buffers') /\ open_buffers'[i].kind = "frozen"

(* What NothingLost says of a step.                                        *)
NothingGone ==
  \A i \in FrozenBuffers :
    Len(open_buffers') < i \/ open_buffers'[i].kind # "frozen"
      => \A j \in i..Len(open_buffers) :
           \/ open_buffers[j].buf_pos = Len(open_buffers[j].tokens)
           \/ open_buffers[j] = Unread(TT_ENDOFCODE)

LEMMA StayingSuffices ==
  ASSUME StayFrozen(open_buffers), Len(open_buffers') \in Nat
  PROVE  NothingGone
BY DEF StayFrozen, NothingGone, FrozenBuffers

LEMMA StayAfter ==
  ASSUME NEW k \in 0..Len(open_buffers), Buffers(open_buffers), Settled(k),
         StayFrozen(After(k))
  PROVE  StayFrozen(open_buffers)
BY AfterLeft DEF StayFrozen

LEMMA StayAppended ==
  ASSUME NEW bs, NEW b, Sequence(bs), open_buffers' = Append(bs, b)
  PROVE  StayFrozen(bs)
<1>1. /\ Len(bs) \in Nat /\ Len(open_buffers') = Len(bs) + 1
      /\ \A i \in 1..Len(bs) : open_buffers'[i] = bs[i]
  BY Appended, Indices
<1>2. \A i \in 1..Len(bs) : i \in 1..Len(open_buffers')
  BY <1>1
<1>3. QED
  BY <1>1, <1>2 DEF StayFrozen

LEMMA ExpandRead ==
  ASSUME NEW call, NEW buffers, NEW frames, Sequence(buffers), ReadBelow(buffers),
         Expand(call, buffers, frames)
  PROVE  ReadBelow(open_buffers') /\ StayFrozen(buffers)
<1>1. PICK b : open_buffers' = Append(buffers, b) /\ b.kind \in {"frozen", "macro"}
  <2> DEFINE next == Len(call.evald) + 1
             f == OpenBuffer("frozen", call.name, call.args[next])
             m == OpenBuffer("macro", call.name, Substituted(call.mf, call.args, call.evald))
  <2>1. open_buffers' = Append(buffers, f) \/ open_buffers' = Append(buffers, m)
    BY DEF Expand
  <2>2. f.kind = "frozen" /\ m.kind = "macro"
    BY DEF OpenBuffer
  <2> HIDE DEF f, m
  <2>3. QED
    BY <2>1, <2>2
<1>2. ~Ended(b)
  BY <1>1 DEF Ended
<1>3. QED
  BY <1>1, <1>2, MoreRead, StayAppended

(* When an argument comes to its end, its frozen buffer is the last one.   *)
LEMMA LastGone ==
  ASSUME NEW k \in 1..Len(open_buffers), TextsConcatenate, TypedBuffers(open_buffers),
         ReadBelow(open_buffers), Settled(k), Read(k, TT_ENDOFCODE),
         Fit(After(k), calls), calls # << >>,
         Expand(Last(calls), BelowFrozen(After(k)), Front(calls))
  PROVE  ReadBelow(open_buffers') /\ NothingGone
<1> DEFINE bs == After(k)
           below == BelowFrozen(bs)
<1>1. /\ Fit(below, Front(calls))
      /\ \A i \in 1..Len(bs) : bs[i].kind = "frozen" => i <= Len(below) + 1
      /\ Len(below) < Len(bs)
      /\ \A i \in 1..Len(below) : below[i] = bs[i]
  BY BelowFrozenFits
<1>2. Buffers(open_buffers)
  BY DEF TypedBuffers, TypedBuffer, Buffers
<1>3. /\ Len(bs) = k
      /\ \A i \in 1..Len(open_buffers) : open_buffers[i].kind = "frozen" =>
           i \in 1..k /\ bs[i].kind = "frozen"
  <2>1. k \in 0..Len(open_buffers)
    OBVIOUS
  <2>2. QED
    BY <1>2, <2>1, AfterLeft
<1>4. Sequence(below) /\ Len(below) \in Nat /\ Len(open_buffers) \in Nat
  BY <1>1, <1>2, Indices DEF Fit, Buffers
<1>5. ReadBelow(bs)
  <2>1. k \in 0..Len(open_buffers)
    OBVIOUS
  <2>2. QED
    BY <2>1, AfterRead
<1> HIDE DEF bs, below
<1>6. ReadBelow(below)
  <2>1. \A i \in 1..Len(below) : below[i] = bs[i]
    BY <1>1
  <2>2. QED
    BY <1>1, <1>3, <1>4, <1>5, <2>1, LessRead
<1>7. ReadBelow(open_buffers') /\ StayFrozen(below)
  <2>1. Expand(Last(calls), below, Front(calls))
    BY DEF below, bs
  <2>2. QED
    BY <1>4, <1>6, <2>1, ExpandRead
<1>8. ASSUME NEW i \in FrozenBuffers,
             Len(open_buffers') < i \/ open_buffers'[i].kind # "frozen",
             NEW j \in i..Len(open_buffers)
      PROVE  \/ open_buffers[j].buf_pos = Len(open_buffers[j].tokens)
             \/ open_buffers[j] = Unread(TT_ENDOFCODE)
  <2>1. i \in 1..Len(open_buffers) /\ i \in 1..k /\ bs[i].kind = "frozen"
    BY <1>3 DEF FrozenBuffers
  <2>2. i \notin 1..Len(below)
    <3>1. SUFFICES ASSUME i \in 1..Len(below) PROVE FALSE
      OBVIOUS
    <3>2. below[i].kind = "frozen"
      BY <1>1, <2>1, <3>1
    <3>3. i \in 1..Len(open_buffers') /\ open_buffers'[i].kind = "frozen"
      BY <1>7, <3>1, <3>2 DEF StayFrozen
    <3>4. Len(open_buffers') \in Nat
      <4>1. PICK b : open_buffers' = Append(below, b)
        BY DEF Expand, below, bs
      <4>2. Len(open_buffers') = Len(below) + 1
        BY <1>4, <4>1, Appended
      <4>3. QED
        BY <1>4, <4>2
    <3>5. QED
      BY <1>8, <3>3, <3>4
  <2>3. i = Len(below) + 1
    BY <1>1, <1>3, <1>4, <2>1, <2>2
  <2>4. \A f \in 1..Len(open_buffers) : open_buffers[f].kind = "frozen" => f <= i
    BY <1>1, <1>3, <2>3
  <2>5. TypedBuffer(open_buffers[j]) /\ j \in 1..Len(open_buffers)
    BY <2>1 DEF TypedBuffers
  <2>6. Exhausted(open_buffers[j]) => open_buffers[j].buf_pos = Len(open_buffers[j].tokens)
    <3>1. /\ Len(open_buffers[j].tokens) \in Nat
          /\ open_buffers[j].buf_pos \in 0..Len(open_buffers[j].tokens)
      BY <2>5, Indices DEF TypedBuffer
    <3>2. QED
      BY <3>1 DEF Exhausted
  <2>7. CASE j > k
    <3>1. j \in (k + 1)..Len(open_buffers)
      BY <1>4, <2>5, <2>7
    <3>2. Exhausted(open_buffers[j])
      BY <3>1 DEF Settled, Poppable
    <3>3. QED
      BY <2>6, <3>2
  <2>8. CASE j \in 1..k
    <3>1. NoneFrozenBetween(open_buffers, j, k + 1)
      <4>1. SUFFICES ASSUME NEW f \in (j + 1)..((k + 1) - 1)
                     PROVE  open_buffers[f].kind # "frozen"
        BY DEF NoneFrozenBetween
      <4>2. f \in 1..Len(open_buffers) /\ ~(f <= i)
        BY <1>4, <2>1, <2>5
      <4>3. QED
        BY <2>4, <4>2
    <3>2. Exhausted(open_buffers[j]) \/ open_buffers[j] = Unread(TT_ENDOFCODE)
      BY <2>8, <3>1, EndRead
    <3>3. QED
      BY <2>6, <3>2
  <2>9. QED
    BY <2>5, <2>7, <2>8
<1>9. QED
  BY <1>7, <1>8 DEF NothingGone

LEMMA ReturnRead ==
  ASSUME NEW t, NEW buffers, NEW frames, Sequence(buffers), ReadBelow(buffers),
         Return(t, buffers, frames), frames = << >> \/ t # TT_ENDOFCODE
  PROVE  ReadBelow(open_buffers') /\ StayFrozen(buffers)
<1>1. open_buffers' = buffers
  BY DEF Return
<1>2. QED
  BY <1>1 DEF StayFrozen

LEMMA NoBuffers ==
  /\ ReadBelow(<< >>)
  /\ \A fr : Fit(open_buffers, fr) /\ Settled(0) => FrozenBuffers = {}
<1>1. ReadBelow(<< >>)
  BY NoTokens DEF ReadBelow
<1>2. ASSUME NEW fr, Fit(open_buffers, fr), Settled(0)
      PROVE  FrozenBuffers = {}
  <2>1. Buffers(open_buffers) /\ 0 \in 0..Len(open_buffers)
    BY <1>2, Indices DEF Fit, Buffers
  <2>2. QED
    BY <1>2, <2>1, AfterLeft DEF FrozenBuffers
<1>3. QED
  BY <1>1, <1>2

LEMMA PreprocessRead ==
  ASSUME TextsConcatenate, ExpansionInv, Typed, ReadBelow(open_buffers), Preprocess,
         Len(open_buffers') \in Nat
  PROVE  ReadBelow(open_buffers') /\ NothingGone
<1>1. Fit(open_buffers, calls)
  BY PreprocessingFits DEF Preprocess
<1>k. PICK k \in 0..Len(open_buffers) : \E t \in Readable(k) :
        /\ Settled(k) /\ Read(k, t) /\ (k = 0 => t # TT_ENDOFCODE)
        /\ EnterMacro(t, After(k)) \/ CallMacro(t, After(k)) \/ Leave(t, After(k))
  BY DEF Preprocess
<1>2. PICK t \in Readable(k) :
        /\ Settled(k) /\ Read(k, t) /\ (k = 0 => t # TT_ENDOFCODE)
        /\ EnterMacro(t, After(k)) \/ CallMacro(t, After(k)) \/ Leave(t, After(k))
  BY <1>k
<1>3. /\ Fit(After(k), calls) /\ ReadBelow(After(k)) /\ Sequence(After(k))
      /\ Buffers(open_buffers) /\ TypedBuffers(open_buffers)
  <2>1. Fit(After(k), calls) /\ Buffers(open_buffers) /\ TypedBuffers(open_buffers)
    BY <1>1, <1>2, ReadFurther DEF Fit, Typed
  <2>2. QED
    BY <2>1, AfterRead DEF Fit, Buffers
<1>4. SUFFICES ASSUME ~(calls # << >> /\ t = TT_ENDOFCODE /\ Leave(t, After(k)))
               PROVE  ReadBelow(open_buffers') /\ StayFrozen(After(k))
  <2>1. CASE calls # << >> /\ t = TT_ENDOFCODE /\ Leave(t, After(k))
    <3>1. Return(TT_ENDOFCODE, After(k), calls)
      BY <2>1 DEF Leave
    <3>2. Expand(Last(calls), BelowFrozen(After(k)), Front(calls))
      BY <2>1, <3>1 DEF Return
    <3>3. k \in 1..Len(open_buffers) /\ Read(k, TT_ENDOFCODE)
      <4>1. Len(open_buffers) \in Nat
        BY <1>3, Indices DEF Buffers
      <4>2. QED
        BY <1>2, <2>1, <4>1
    <3>4. QED
      BY <1>2, <1>3, <2>1, <3>2, <3>3, LastGone
  <2>2. CASE ~(calls # << >> /\ t = TT_ENDOFCODE /\ Leave(t, After(k)))
    BY <1>2, <1>3, <1>4, <2>2, StayAfter, StayingSuffices
  <2>3. QED
    BY <2>1, <2>2
<1>5. CASE EnterMacro(t, After(k))
  <2>1. PICK b : /\ b.kind = "macro"
                 /\ open_buffers' = After(k) \/ open_buffers' = Append(After(k), b)
    <3> DEFINE m == OpenBuffer("macro", t, Substituted(macros[t], << >>, << >>))
    <3>1. open_buffers' = After(k) \/ open_buffers' = Append(After(k), m)
      BY <1>5 DEF EnterMacro
    <3>2. m.kind = "macro"
      BY DEF OpenBuffer
    <3> HIDE DEF m
    <3>3. QED
      BY <3>1, <3>2
  <2>2. ~Ended(b)
    BY <2>1 DEF Ended
  <2>3. CASE open_buffers' = After(k)
    BY <1>3, <2>3 DEF StayFrozen
  <2>4. CASE open_buffers' = Append(After(k), b)
    BY <1>3, <2>2, <2>4, MoreRead, StayAppended
  <2>5. QED
    BY <2>1, <2>3, <2>4
<1>6. CASE CallMacro(t, After(k))
  BY <1>3, <1>6 DEF CallMacro, StayFrozen
<1>7. CASE Leave(t, After(k))
  <2>1. Return(t, After(k), calls) /\ (calls = << >> \/ t # TT_ENDOFCODE)
    BY <1>4, <1>7 DEF Leave
  <2>2. QED
    BY <1>3, <2>1, ReturnRead
<1>8. QED
  BY <1>2, <1>5, <1>6, <1>7

LEMMA EndOfFileRead ==
  ASSUME ExpansionInv, EndOfFile
  PROVE  ReadBelow(open_buffers') /\ NothingGone
<1>1. Fit(open_buffers, calls) /\ Settled(0)
  BY PreprocessingFits DEF EndOfFile
<1>2. NothingGone
  BY <1>1, NoBuffers DEF NothingGone
<1>3. CASE files > 0
  BY <1>2, <1>3, NoBuffers DEF EndOfFile
<1>4. CASE ~(files > 0)
  <2>1. Return(TT_ENDOFCODE, << >>, calls) /\ Fit(<< >>, calls)
    BY <1>1, <1>4, NoneFrozen DEF EndOfFile
  <2>2. calls = << >>
    <3>1. SUFFICES ASSUME calls # << >> PROVE FALSE
      OBVIOUS
    <3>2. Len(BelowFrozen(<< >>)) < 0 /\ Fit(BelowFrozen(<< >>), Front(calls))
      BY <2>1, <3>1, BelowFrozenFits, NoTokens
    <3>3. Len(BelowFrozen(<< >>)) \in Nat
      BY <3>2, Indices DEF Fit, Buffers
    <3>4. QED
      BY <3>2, <3>3
  <2>3. QED
    BY <1>2, <2>1, <2>2, ReturnRead, NoBuffers, NoTokens
<1>5. QED
  BY <1>3, <1>4

LEMMA FindParenthesisRead ==
  ASSUME TextsConcatenate, ExpansionInv, Typed, ReadBelow(open_buffers), FindParenthesis,
         Len(open_buffers') \in Nat
  PROVE  ReadBelow(open_buffers') /\ NothingGone
<1>1. Pending(open_buffers, calls) /\ calls # << >>
  BY CallingPending DEF FindParenthesis, Calling
<1> DEFINE name == Last(calls).name
<1>k. PICK k \in 0..Len(open_buffers) : \E t \in Readable(k) :
        /\ Settled(k) /\ Read(k, t)
        /\ \/ open_buffers' = After(k)
           \/ Return(name, Append(After(k), Unread(t)), Front(calls))
  BY DEF FindParenthesis
<1>2. PICK t \in Readable(k) :
        /\ Settled(k) /\ Read(k, t)
        /\ \/ open_buffers' = After(k)
           \/ Return(name, Append(After(k), Unread(t)), Front(calls))
  BY <1>k
<1>3. Fit(open_buffers, Front(calls))
  BY <1>1 DEF Pending
<1>4. /\ Fit(After(k), Front(calls)) /\ ReadBelow(After(k)) /\ Sequence(After(k))
      /\ Buffers(open_buffers) /\ TypedBuffers(open_buffers) /\ Len(open_buffers) \in Nat
  <2>1. Fit(After(k), Front(calls)) /\ Buffers(open_buffers) /\ TypedBuffers(open_buffers)
    BY <1>2, <1>3, ReadFurther DEF Fit, Typed
  <2>2. QED
    BY <2>1, AfterRead, Indices DEF Fit, Buffers
<1>5. SUFFICES ReadBelow(open_buffers') /\ StayFrozen(After(k))
  BY <1>2, <1>4, StayAfter, StayingSuffices
<1>6. CASE open_buffers' = After(k)
  BY <1>4, <1>6 DEF StayFrozen
<1>7. CASE Return(name, Append(After(k), Unread(t)), Front(calls))
  <2>1. open_buffers' = Append(After(k), Unread(t))
    <3>1. name # TT_ENDOFCODE
      BY <1>1, InnermostCall, GivenBack DEF Typed
    <3> HIDE DEF name
    <3>2. QED
      BY <1>7, <3>1 DEF Return
  <2>2. Len(After(k)) = k
    BY <1>2, <1>4, AfterLeft
  <2>3. ASSUME Ended(Unread(t)), NEW j \in 1..k, NoneFrozenBetween(After(k), j, k + 1)
        PROVE  Exhausted(After(k)[j])
    <3>1. t = TT_ENDOFCODE
      <4>1. Unread(t).tokens = <<t>>
        BY DEF Unread, OpenBuffer
      <4>2. <<t>> = <<TT_ENDOFCODE>>
        BY <2>3, <4>1 DEF Ended
      <4>3. QED
        BY <4>2
    <3>2. k \in 1..Len(open_buffers)
      BY <1>4, <2>3
    <3>3. NoneFrozenBetween(open_buffers, j, k + 1)
      <4>1. SUFFICES ASSUME NEW f \in (j + 1)..((k + 1) - 1), open_buffers[f].kind = "frozen"
                     PROVE  FALSE
        BY DEF NoneFrozenBetween
      <4>2. f \in 1..Len(open_buffers)
        BY <1>4
      <4>3. After(k)[f].kind = "frozen"
        BY <1>2, <1>4, <4>1, <4>2, AfterLeft
      <4>4. QED
        BY <2>3, <4>3 DEF NoneFrozenBetween
    <3>4. QED
      BY <1>2, <1>4, <3>1, <3>2, <3>3, EndRead
  <2> DEFINE bs == After(k)
             b == Unread(t)
  <2>4. Ended(b) => \A j \in 1..Len(bs) : NoneFrozenBetween(bs, j, Len(bs) + 1)
                                            => Exhausted(bs[j])
    BY <2>2, <2>3
  <2>5. Sequence(bs) /\ ReadBelow(bs) /\ open_buffers' = Append(bs, b)
    BY <1>4, <2>1
  <2> HIDE DEF bs, b
  <2>6. ReadBelow(open_buffers') /\ StayFrozen(bs)
    BY <2>4, <2>5, MoreRead, StayAppended
  <2>7. QED
    BY <2>6 DEF bs
<1>8. QED
  BY <1>2, <1>6, <1>7

LEMMA ReadArgumentRead ==
  ASSUME ExpansionInv, Typed, ReadBelow(open_buffers), ReadArgument,
         Len(open_buffers') \in Nat
  PROVE  ReadBelow(open_buffers') /\ NothingGone
<1>1. Pending(open_buffers, calls) /\ calls # << >>
  BY CallingPending DEF ReadArgument, Calling
<1> DEFINE last == Last(calls)
<1>k. PICK k \in 0..Len(open_buffers) : \E t \in Readable(k) :
        /\ Settled(k) /\ Read(k, t)
        /\ \/ Return(last.name, After(k), Front(calls))
           \/ Expand(last, After(k), Front(calls))
           \/ open_buffers' = After(k)
  BY DEF ReadArgument
<1>2. /\ Settled(k)
      /\ \/ Return(last.name, After(k), Front(calls))
         \/ Expand(last, After(k), Front(calls))
         \/ open_buffers' = After(k)
      /\ \E t : Read(k, t)
  BY <1>k
<1>3. Fit(open_buffers, Front(calls))
  BY <1>1 DEF Pending
<1>4. /\ Fit(After(k), Front(calls)) /\ ReadBelow(After(k)) /\ Sequence(After(k))
      /\ Buffers(open_buffers) /\ TypedBuffers(open_buffers)
  <2>1. Fit(After(k), Front(calls)) /\ Buffers(open_buffers) /\ TypedBuffers(open_buffers)
    BY <1>2, <1>3, ReadFurther DEF Fit, Typed
  <2>2. QED
    BY <2>1, AfterRead DEF Fit, Buffers
<1>5. SUFFICES ReadBelow(open_buffers') /\ StayFrozen(After(k))
  BY <1>2, <1>4, StayAfter, StayingSuffices
<1>6. last.name # TT_ENDOFCODE
  BY <1>1, InnermostCall, GivenBack DEF Typed
<1> HIDE DEF last
<1>7. CASE Return(last.name, After(k), Front(calls))
  BY <1>4, <1>6, <1>7, ReturnRead
<1>8. CASE Expand(last, After(k), Front(calls))
  BY <1>4, <1>8, ExpandRead
<1>9. CASE open_buffers' = After(k)
  BY <1>4, <1>9 DEF StayFrozen
<1>10. QED
  BY <1>2, <1>7, <1>8, <1>9

LEMMA ReadStep ==
  ASSUME TextsConcatenate, ExpansionInv, Typed, ReadBelow(open_buffers), [Next]_vars
  PROVE  ReadBelow(open_buffers') /\ NothingGone
<1>1. Len(open_buffers) \in Nat /\ Len(open_buffers') \in Nat
  <2>1. Buffers(open_buffers)
    BY DEF ExpansionInv, Pending, Fit
  <2>2. ExpansionInv'
    BY ExpansionStep
  <2>3. Buffers(open_buffers')
    BY <2>2 DEF ExpansionInv, Pending, Fit
  <2>4. QED
    BY <2>1, <2>3, Indices DEF Buffers
<1>2. CASE get_token \/ UNCHANGED vars
  <2>1. open_buffers' = open_buffers
    BY <1>2 DEF get_token, vars
  <2>2. StayFrozen(open_buffers)
    BY <2>1 DEF StayFrozen
  <2>3. QED
    BY <1>1, <2>1, <2>2, StayingSuffices
<1>3. CASE Directive
  <2>1. Settled(0) /\ open_buffers' = << >> /\ Fit(open_buffers, calls)
    BY <1>3, PreprocessingFits DEF Directive
  <2>2. QED
    BY <2>1, NoBuffers DEF NothingGone
<1>4. QED
  BY <1>1, <1>2, <1>3, PreprocessRead, EndOfFileRead, FindParenthesisRead, ReadArgumentRead
     DEF Next, Lex

(* A frozen buffer is popped only when it and all above it were read,      *)
(* though the end of its argument may be seen, and put back, by a call     *)
(* that looks for its parenthesis: the expansion of an argument loses no   *)
(* token of it.                                                            *)
THEOREM NothingLostHolds ==
  ASSUME TextsConcatenate
  PROVE  Spec => NothingLost
<1> DEFINE Inv == Typed /\ ReadBelow(open_buffers)
<1>1. Init => Inv
  BY InitTyped, NoBuffers DEF Init
<1>2. ExpansionInv /\ Inv /\ [Next]_vars => Inv'
  BY TypedStep, ReadStep
<1>3. ASSUME ExpansionInv, Inv, [Next]_vars
      PROVE  \A i \in FrozenBuffers :
               Len(open_buffers') < i \/ open_buffers'[i].kind # "frozen"
                 => \A j \in i..Len(open_buffers) :
                      \/ open_buffers[j].buf_pos = Len(open_buffers[j].tokens)
                      \/ open_buffers[j] = Unread(TT_ENDOFCODE)
  BY <1>3, ReadStep DEF NothingGone
<1> HIDE DEF Inv
<1>4. QED
  BY <1>1, <1>2, <1>3, ExpansionInvariant, PTL DEF Spec, NothingLost
=============================================================================
