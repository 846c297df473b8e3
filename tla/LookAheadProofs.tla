--------------------------- MODULE LookAheadProofs ---------------------------
(***************************************************************************)
(* Proofs about LookAhead.  First for the look-aheads of the parser's type *)
(* reader: the lexer and its rewind buffers implement one stream with a    *)
(* cursor that returns to its marks.  Then with the scan for functional    *)
(* casts as well, which records tokens twice: no token is jumped over.     *)
(***************************************************************************)
EXTENDS LookAhead, SequenceTheorems, TLAPS

(* A buffer that is exhausted goes on where the ones below it do, however  *)
(* many of those are exhausted, too.                                       *)
Skipped(i, j) == \A l \in (i + 1)..j : Exhausted(l)

ExhaustedPass ==
  \A i, j \in 0..Len(open_buffers) :
    i < j /\ Skipped(i, j) => Upcoming(j) = Upcoming(i)

NotScanning == phase # "scanning"

ReplayInv ==
  /\ TypeOK
  /\ NotScanning
  /\ BuffersAbut
  /\ RecordsAbut
  /\ ExhaustedPass

LEMMA BufferTypes ==
  ASSUME TypeOK
  PROVE  /\ Len(open_buffers) \in Nat
         /\ \A i \in 1..Len(open_buffers) :
              /\ open_buffers[i] \in Buffers
              /\ open_buffers[i].tokens \in Seq(Nat \ {0})
              /\ open_buffers[i].tokens # << >>
              /\ Len(open_buffers[i].tokens) \in Nat \ {0}
              /\ open_buffers[i].buf_pos \in Nat
              /\ pos(i) \in Nat
              /\ First(i) \in Nat \ {0}
         /\ \A i \in 0..Len(open_buffers) : Upcoming(i) \in Nat \ {0}
         /\ Cursor \in Nat \ {0}
<1>1. /\ Len(open_buffers) \in Nat
      /\ \A i \in 1..Len(open_buffers) : open_buffers[i] \in Buffers
  BY DEF TypeOK
<1>2. ASSUME NEW i \in 1..Len(open_buffers)
      PROVE  /\ open_buffers[i].tokens \in Seq(Nat \ {0})
             /\ open_buffers[i].tokens # << >>
             /\ open_buffers[i].buf_pos \in Nat
  BY <1>1 DEF Buffers
<1>3. ASSUME NEW i \in 1..Len(open_buffers)
      PROVE  Len(open_buffers[i].tokens) \in Nat \ {0} /\ First(i) \in Nat \ {0}
  <2>1. PICK s \in Seq(Nat \ {0}) : s = open_buffers[i].tokens /\ s # << >>
    BY <1>2
  <2>2. Len(s) \in Nat \ {0} /\ s[1] \in Nat \ {0}
    BY <2>1
  <2>3. QED
    BY <2>1, <2>2 DEF First
<1>4. ASSUME NEW i \in 1..Len(open_buffers)
      PROVE  pos(i) \in Nat
  BY <1>2 DEF pos, TypeOK
<1>5. ASSUME NEW i \in 0..Len(open_buffers)
      PROVE  Upcoming(i) \in Nat \ {0}
  BY <1>1, <1>3, <1>4 DEF Upcoming, TypeOK
<1>6. QED
  BY <1>1, <1>2, <1>3, <1>4, <1>5 DEF Cursor

LEMMA FunctionIsSequence ==
  ASSUME NEW S, NEW n \in Nat, NEW f \in [1..n -> S]
  PROVE  f \in Seq(S) /\ Len(f) = n
OBVIOUS

(* Pushing a buffer saves where the others were left.                      *)
LEMMA PushedBuffer ==
  ASSUME TypeOK, NEW toks \in Seq(Nat \ {0}), toks # << >>, push_buffer(toks)
  PROVE  /\ open_buffers' \in Seq(Buffers) /\ buffer_pos' = 0
         /\ Len(open_buffers') = Len(open_buffers) + 1
         /\ open_buffers'[Len(open_buffers) + 1].tokens = toks
         /\ \A i \in 1..Len(open_buffers) :
              /\ open_buffers'[i].tokens = open_buffers[i].tokens
              /\ open_buffers'[i].buf_pos = pos(i)
<1> DEFINE saved == [i \in 1..Len(open_buffers) |->
                       [open_buffers[i] EXCEPT !.buf_pos = pos(i)]]
           new == [tokens |-> toks, buf_pos |-> 0]
<1>1. Len(open_buffers) \in Nat
  BY BufferTypes
<1>2. ASSUME NEW i \in 1..Len(open_buffers)
      PROVE  /\ [open_buffers[i] EXCEPT !.buf_pos = pos(i)] \in Buffers
             /\ [open_buffers[i] EXCEPT !.buf_pos = pos(i)].tokens = open_buffers[i].tokens
             /\ [open_buffers[i] EXCEPT !.buf_pos = pos(i)].buf_pos = pos(i)
  BY BufferTypes DEF Buffers
<1>3. saved \in Seq(Buffers) /\ Len(saved) = Len(open_buffers)
  <2>1. saved \in [1..Len(open_buffers) -> Buffers]
    BY <1>2, Zenon
  <2> HIDE DEF saved
  <2>2. QED
    BY <1>1, <2>1, FunctionIsSequence
<1>4. new \in Buffers
  BY DEF Buffers
<1>5. open_buffers' = Append(saved, new) /\ buffer_pos' = 0
  BY DEF push_buffer
<1>6. \A i \in 1..Len(open_buffers) :
        /\ saved[i].tokens = open_buffers[i].tokens
        /\ saved[i].buf_pos = pos(i)
  BY <1>2
<1>7. new.tokens = toks
  OBVIOUS
<1> HIDE DEF saved, new
<1>8. /\ Append(saved, new) \in Seq(Buffers)
      /\ Len(Append(saved, new)) = Len(open_buffers) + 1
      /\ Append(saved, new)[Len(open_buffers) + 1] = new
      /\ \A i \in 1..Len(open_buffers) : Append(saved, new)[i] = saved[i]
  BY <1>1, <1>3, <1>4
<1>9. QED
  BY <1>5, <1>6, <1>7, <1>8

(* The first len tokens taken off the top leave the buffers below.         *)
LEMMA KeptBuffers ==
  ASSUME TypeOK, NEW k \in 0..Len(open_buffers),
         open_buffers' = SubSeq(open_buffers, 1, k)
  PROVE  /\ open_buffers' \in Seq(Buffers)
         /\ Len(open_buffers') = k
         /\ \A i \in 1..k : open_buffers'[i] = open_buffers[i]
<1>1. PICK s \in Seq(Buffers) : s = open_buffers
  BY DEF TypeOK
<1>2. Len(s) \in Nat /\ k \in 0..Len(s)
  BY <1>1
<1>3. /\ SubSeq(s, 1, k) \in Seq(Buffers)
      /\ Len(SubSeq(s, 1, k)) = k
      /\ \A i \in 1..k : SubSeq(s, 1, k)[i] = s[i]
  BY <1>2, SubSeqProperties
<1>4. QED
  BY <1>1, <1>3

(* Where a token is taken from, the cursor stands.                         *)
LEMMA TakenAtCursor ==
  ASSUME ReplayInv, Take
  PROVE  \/ \E k \in 1..Len(open_buffers) :
               ~Exhausted(k) /\ Upcoming(k) = Cursor /\ TakeAbove(k)
         \/ Upcoming(0) = Cursor /\ TakeBelow
<1>1. PICK k \in 0..Len(open_buffers) :
        /\ Skipped(k, Len(open_buffers))
        /\ \/ k > 0 /\ ~Exhausted(k) /\ TakeAbove(k)
           \/ k = 0 /\ TakeBelow
  BY DEF Take, Skipped
<1>2. Len(open_buffers) \in Nat
  BY BufferTypes DEF ReplayInv
<1>3. Upcoming(k) = Cursor
  <2>1. CASE k = Len(open_buffers)
    BY <2>1 DEF Cursor
  <2>2. CASE k < Len(open_buffers)
    BY <1>1, <1>2, <2>2 DEF Cursor, ReplayInv, ExhaustedPass
  <2>3. QED
    BY <1>2, <2>1, <2>2
<1>4. QED
  BY <1>1, <1>2, <1>3

(* What reading one token does to the buffers and to the cursor.           *)
TokenRead ==
  /\ fresh' \in Nat
  /\ open_buffers' \in Seq(Buffers)
  /\ buffer_pos' \in Nat
  /\ BuffersAbut'
  /\ ExhaustedPass'
  /\ delivered' = Cursor
  /\ Cursor' = Cursor + 1

LEMMA AboveReads ==
  ASSUME ReplayInv, NEW k \in 1..Len(open_buffers),
         ~Exhausted(k), Upcoming(k) = Cursor, TakeAbove(k)
  PROVE  TokenRead
<1>1. /\ TypeOK /\ BuffersAbut /\ ExhaustedPass
      /\ Len(open_buffers) \in Nat /\ fresh \in Nat
  BY BufferTypes DEF ReplayInv, TypeOK
<1>2. /\ open_buffers' \in Seq(Buffers)
      /\ Len(open_buffers') = k
      /\ \A i \in 1..k : open_buffers'[i] = open_buffers[i]
  BY <1>1, KeptBuffers DEF TakeAbove
<1>3. \A i \in 1..k :
        /\ pos(i) \in Nat /\ First(i) \in Nat
        /\ Len(open_buffers[i].tokens) \in Nat \ {0}
        /\ open_buffers[i].tokens \in Seq(Nat \ {0})
  BY <1>1, BufferTypes
<1>4. fresh' = fresh /\ buffer_pos' = pos(k) + 1
  BY DEF TakeAbove
<1>5. \A i \in 1..k : First(i)' = First(i)
  BY <1>2 DEF First
<1>6. /\ \A i \in 1..(k - 1) : pos(i)' = pos(i)
      /\ pos(k)' = pos(k) + 1
  BY <1>1, <1>2, <1>4 DEF pos
<1>7. /\ \A i \in 0..(k - 1) : Upcoming(i)' = Upcoming(i)
      /\ Upcoming(k)' = Upcoming(k) + 1
  <2>1. Upcoming(0)' = Upcoming(0)
    BY <1>4 DEF Upcoming
  <2>2. \A i \in 1..k : Upcoming(i) = First(i) + pos(i)
    BY DEF Upcoming
  <2>3. \A i \in 1..k : Upcoming(i)' = First(i)' + pos(i)'
    BY DEF Upcoming
  <2>4. \A i \in 1..(k - 1) : Upcoming(i)' = Upcoming(i)
    BY <1>5, <1>6, <2>2, <2>3
  <2>5. \A i \in 0..(k - 1) : i = 0 \/ i \in 1..(k - 1)
    OBVIOUS
  <2>6. Upcoming(k)' = Upcoming(k) + 1
    BY <1>3, <1>5, <1>6, <2>2, <2>3
  <2>7. QED
    BY <2>1, <2>4, <2>5, <2>6
<1>8. pos(k) < Len(open_buffers[k].tokens)
  BY <1>3 DEF Exhausted
<1>9. BuffersAbut'
  <2>1. SUFFICES ASSUME NEW i \in 1..k
                 PROVE  /\ \A j \in 1..Len(open_buffers[i].tokens) :
                             open_buffers[i].tokens[j] = First(i) + j - 1
                        /\ pos(i)' <= Len(open_buffers[i].tokens)
                        /\ First(i) + Len(open_buffers[i].tokens) = Upcoming(i - 1)'
    BY <1>2, <1>5 DEF BuffersAbut
  <2>2. /\ \A j \in 1..Len(open_buffers[i].tokens) :
             open_buffers[i].tokens[j] = First(i) + j - 1
        /\ pos(i) <= Len(open_buffers[i].tokens)
        /\ First(i) + Len(open_buffers[i].tokens) = Upcoming(i - 1)
    BY <1>1 DEF BuffersAbut
  <2>3. i = k \/ i \in 1..(k - 1)
    OBVIOUS
  <2>4. pos(i)' <= Len(open_buffers[i].tokens)
    BY <1>3, <1>6, <1>8, <2>2, <2>3
  <2>5. QED
    BY <1>7, <2>2, <2>4
<1>10. ExhaustedPass'
  <2>1. SUFFICES ASSUME NEW i \in 0..k, NEW j \in 0..k, i < j, Skipped(i, j)'
                 PROVE  Upcoming(j)' = Upcoming(i)'
    BY <1>2 DEF ExhaustedPass
  <2>2. \A l \in (i + 1)..j : l < k => Exhausted(l)
    BY <1>2, <1>6, <2>1 DEF Skipped, Exhausted
  <2>3. CASE j < k
    <3>1. Skipped(i, j)
      BY <2>2, <2>3 DEF Skipped
    <3>2. QED
      BY <1>1, <1>7, <2>1, <2>3, <3>1 DEF ExhaustedPass
  <2>4. CASE j = k
    <3>1. pos(k) + 1 = Len(open_buffers[k].tokens)
      <4>1. Exhausted(k)'
        BY <2>1, <2>4 DEF Skipped
      <4>2. pos(k) + 1 >= Len(open_buffers[k].tokens)
        BY <1>2, <1>6, <4>1 DEF Exhausted
      <4>3. QED
        BY <1>3, <1>8, <4>2
    <3>2. Upcoming(k)' = Upcoming(k - 1)'
      <4>1. Upcoming(k) = First(k) + pos(k)
        BY DEF Upcoming
      <4>2. First(k) + Len(open_buffers[k].tokens) = Upcoming(k - 1)
        BY <1>1 DEF BuffersAbut
      <4>3. Upcoming(k) + 1 = Upcoming(k - 1)
        <5>1. First(k) \in Nat /\ pos(k) \in Nat
          BY <1>1, BufferTypes
        <5>2. (First(k) + pos(k)) + 1 = First(k) + (pos(k) + 1)
          BY <5>1
        <5>3. QED
          BY <3>1, <4>1, <4>2, <5>2
      <4>4. k - 1 \in 0..(k - 1)
        OBVIOUS
      <4>5. Upcoming(k - 1)' = Upcoming(k - 1)
        BY <1>7, <4>4
      <4>6. QED
        BY <1>7, <4>3, <4>5
    <3>3. CASE i = k - 1
      BY <2>4, <3>2, <3>3
    <3>4. CASE i < k - 1
      <4>1. Skipped(i, k - 1)
        BY <2>2, <2>4 DEF Skipped
      <4>2. Upcoming(k - 1) = Upcoming(i)
        BY <1>1, <3>4, <4>1 DEF ExhaustedPass
      <4>3. QED
        BY <1>7, <2>4, <3>2, <3>4, <4>2
    <3>5. QED
      BY <2>1, <2>4, <3>3, <3>4
  <2>5. QED
    BY <2>1, <2>3, <2>4
<1>11. delivered' = Cursor
  <2>1. delivered' = open_buffers[k].tokens[pos(k) + 1]
    BY DEF TakeAbove
  <2>2. pos(k) + 1 \in 1..Len(open_buffers[k].tokens)
    BY <1>3, <1>8
  <2>3. open_buffers[k].tokens[pos(k) + 1] = First(k) + (pos(k) + 1) - 1
    BY <1>1, <2>2 DEF BuffersAbut
  <2>4. QED
    BY <1>3, <2>1, <2>3 DEF Upcoming
<1>12. Cursor' = Cursor + 1
  BY <1>2, <1>7 DEF Cursor
<1>13. QED
  BY <1>1, <1>2, <1>3, <1>4, <1>9, <1>10, <1>11, <1>12 DEF TokenRead

LEMMA BelowReads ==
  ASSUME ReplayInv, Upcoming(0) = Cursor, TakeBelow
  PROVE  TokenRead
<1>1. /\ fresh \in Nat /\ fresh' = fresh + 1 /\ delivered' = fresh + 1
      /\ open_buffers' = << >>
      /\ buffer_pos' = buffer_pos /\ buffer_pos \in Nat
  BY DEF TakeBelow, ReplayInv, TypeOK
<1>2. Len(open_buffers') = 0 /\ open_buffers' \in Seq(Buffers)
  BY <1>1
<1>3. BuffersAbut' /\ ExhaustedPass'
  BY <1>2 DEF BuffersAbut, ExhaustedPass
<1>4. delivered' = Cursor /\ Cursor' = Cursor + 1
  BY <1>1, <1>2 DEF Cursor, Upcoming
<1>5. QED
  BY <1>1, <1>2, <1>3, <1>4 DEF TokenRead

LEMMA TakeReads ==
  ASSUME ReplayInv, Take
  PROVE  TokenRead
BY TakenAtCursor, AboveReads, BelowReads

-----------------------------------------------------------------------------
(* The innermost record, and the mark that it goes back to.                *)
Innermost == lookaheads[Len(lookaheads)]

LEMMA RecordTypes ==
  ASSUME TypeOK
  PROVE  /\ Len(lookaheads) \in Nat /\ Len(marks) = Len(lookaheads)
         /\ \A i \in 1..Len(lookaheads) :
              /\ lookaheads[i] \in Seq(Nat \ {0})
              /\ Len(lookaheads[i]) \in Nat
              /\ marks[i] \in Nat
         /\ lookaheads # << >> => Len(lookaheads) \in 1..Len(lookaheads)
<1>1. PICK s \in Seq(Seq(Nat \ {0})) : s = lookaheads
  BY DEF TypeOK
<1>2. PICK m \in Seq(Nat) : m = marks
  BY DEF TypeOK
<1>3. Len(m) = Len(s)
  BY <1>1, <1>2 DEF TypeOK
<1>4. \A i \in 1..Len(s) : s[i] \in Seq(Nat \ {0}) /\ m[i] \in Nat
  BY <1>3
<1>5. \A i \in 1..Len(s) : Len(s[i]) \in Nat
  BY <1>4
<1>6. s # << >> => Len(s) \in 1..Len(s)
  OBVIOUS
<1>7. QED
  BY <1>1, <1>2, <1>3, <1>4, <1>5, <1>6

(* Rewinding puts the cursor where the innermost look-ahead began.         *)
LEMMA PushReturns ==
  ASSUME ReplayInv, lookaheads # << >>, Innermost # << >>,
         push_buffer(Innermost), UNCHANGED fresh
  PROVE  /\ open_buffers' \in Seq(Buffers)
         /\ buffer_pos' \in Nat
         /\ BuffersAbut'
         /\ ExhaustedPass'
         /\ Cursor' = marks[Len(marks)]
<1> PICK n \in Nat : n = Len(open_buffers)
  BY BufferTypes DEF ReplayInv
<1> PICK top \in Nat : top = Len(lookaheads)
  BY RecordTypes DEF ReplayInv
<1>1. TypeOK /\ BuffersAbut /\ RecordsAbut /\ ExhaustedPass
  BY DEF ReplayInv
<1>2. /\ top \in 1..Len(lookaheads) /\ Len(marks) = top
      /\ Innermost \in Seq(Nat \ {0})
      /\ marks[top] \in Nat
  BY <1>1, RecordTypes DEF Innermost
<1>3. /\ open_buffers' \in Seq(Buffers) /\ buffer_pos' = 0
      /\ Len(open_buffers') = n + 1
      /\ open_buffers'[n + 1].tokens = Innermost
      /\ \A i \in 1..n : /\ open_buffers'[i].tokens = open_buffers[i].tokens
                        /\ open_buffers'[i].buf_pos = pos(i)
  BY <1>1, <1>2, PushedBuffer
<1>4. /\ Len(Innermost) \in Nat \ {0}
      /\ \A j \in 1..Len(Innermost) : Innermost[j] = marks[top] + j - 1
      /\ marks[top] + Len(Innermost) = Cursor
  BY <1>1, <1>2 DEF RecordsAbut, Innermost
<1>5. \A i \in 1..n :
        /\ pos(i) \in Nat /\ First(i) \in Nat
        /\ Len(open_buffers[i].tokens) \in Nat \ {0}
  BY <1>1, BufferTypes
<1>6. /\ \A i \in 1..n : First(i)' = First(i)
      /\ First(n + 1)' = marks[top]
  <2>1. \A i \in 1..n : First(i)' = First(i)
    BY <1>3 DEF First
  <2>2. 1 \in 1..Len(Innermost)
    BY <1>4
  <2>3. Innermost[1] = marks[top] + 1 - 1
    BY <1>4, <2>2
  <2>4. First(n + 1)' = Innermost[1]
    BY <1>3 DEF First
  <2>5. QED
    BY <1>2, <2>1, <2>3, <2>4
<1>7. /\ \A i \in 1..n : pos(i)' = pos(i)
      /\ pos(n + 1)' = 0
  <2>1. \A i \in 1..n : i # n + 1
    BY <1>1
  <2>2. QED
    BY <1>3, <2>1 DEF pos
<1>8. /\ \A i \in 0..n : Upcoming(i)' = Upcoming(i)
      /\ Upcoming(n + 1)' = marks[top]
  <2>1. Upcoming(0)' = Upcoming(0)
    BY DEF Upcoming
  <2>2. \A i \in 1..n : Upcoming(i) = First(i) + pos(i)
    BY DEF Upcoming
  <2>3. \A i \in 1..(n + 1) : Upcoming(i)' = First(i)' + pos(i)'
    BY DEF Upcoming
  <2>4. \A i \in 1..n : Upcoming(i)' = Upcoming(i)
    BY <1>1, <1>6, <1>7, <2>2, <2>3
  <2>5. \A i \in 0..n : i = 0 \/ i \in 1..n
    OBVIOUS
  <2>6. n + 1 \in 1..(n + 1)
    BY <1>1
  <2>7. Upcoming(n + 1)' = marks[top]
    BY <1>2, <1>6, <1>7, <2>3, <2>6
  <2>8. QED
    BY <2>1, <2>4, <2>5, <2>7
<1>9. BuffersAbut'
  <2>1. SUFFICES ASSUME NEW i \in 1..(n + 1)
                 PROVE  /\ \A j \in 1..Len(open_buffers'[i].tokens) :
                             open_buffers'[i].tokens[j] = First(i)' + j - 1
                        /\ pos(i)' <= Len(open_buffers'[i].tokens)
                        /\ First(i)' + Len(open_buffers'[i].tokens) = Upcoming(i - 1)'
    BY <1>3 DEF BuffersAbut
  <2>2. CASE i = n + 1
    <3>1. i - 1 = n /\ n \in 0..n
      BY <1>1, <2>2
    <3>2. Upcoming(i - 1)' = Cursor
      BY <1>8, <3>1 DEF Cursor
    <3>3. QED
      BY <1>3, <1>4, <1>6, <1>7, <2>2, <3>2
  <2>3. CASE i \in 1..n
    <3>1. /\ \A j \in 1..Len(open_buffers[i].tokens) :
               open_buffers[i].tokens[j] = First(i) + j - 1
          /\ pos(i) <= Len(open_buffers[i].tokens)
          /\ First(i) + Len(open_buffers[i].tokens) = Upcoming(i - 1)
      BY <1>1, <2>3 DEF BuffersAbut
    <3>2. i - 1 \in 0..n
      BY <1>1, <2>3
    <3>3. QED
      BY <1>3, <1>6, <1>7, <1>8, <2>3, <3>1, <3>2
  <2>4. QED
    BY <1>1, <2>1, <2>2, <2>3
<1>10. ExhaustedPass'
  <2>1. SUFFICES ASSUME NEW i \in 0..(n + 1), NEW j \in 0..(n + 1), i < j,
                        Skipped(i, j)'
                 PROVE  Upcoming(j)' = Upcoming(i)'
    BY <1>3 DEF ExhaustedPass
  <2>2. ~Exhausted(n + 1)'
    BY <1>3, <1>4, <1>7 DEF Exhausted
  <2>3. j \in 0..n
    <3>1. \A l \in (i + 1)..j : Exhausted(l)'
      BY <2>1 DEF Skipped
    <3>2. j \in (i + 1)..j
      BY <1>1, <2>1
    <3>3. j # n + 1
      BY <2>2, <3>1, <3>2
    <3>4. QED
      BY <1>1, <3>3
  <2>4. i \in 0..n
    BY <1>1, <2>1, <2>3
  <2>5. \A l \in (i + 1)..j : l \in 1..n
    BY <1>1, <2>3, <2>4
  <2>6. \A l \in (i + 1)..j : Exhausted(l)
    BY <1>3, <1>7, <2>1, <2>5 DEF Skipped, Exhausted
  <2>7. Upcoming(j) = Upcoming(i)
    BY <1>1, <2>1, <2>3, <2>4, <2>6 DEF ExhaustedPass, Skipped
  <2>8. QED
    BY <1>8, <2>3, <2>4, <2>7
<1>11. Cursor' = marks[Len(marks)]
  BY <1>2, <1>3, <1>8 DEF Cursor
<1>12. QED
  BY <1>3, <1>9, <1>10, <1>11

-----------------------------------------------------------------------------
(* One lemma per operation: it keeps the invariant, and the cursor moves   *)
(* as the stream of TokenCursor allows.                                    *)

(* Adding tokens to the innermost record changes no other.                 *)
LEMMA AddedToRecord ==
  ASSUME NEW recs \in Seq(Seq(Nat \ {0})), recs # << >>,
         NEW toks \in Seq(Nat \ {0}), NEW new,
         new = [recs EXCEPT ![Len(recs)] = @ \o toks]
  PROVE  /\ new \in Seq(Seq(Nat \ {0}))
         /\ Len(new) = Len(recs)
         /\ \A i \in 1..Len(recs) : i # Len(recs) => new[i] = recs[i]
         /\ new[Len(recs)] = recs[Len(recs)] \o toks
<1>1. Len(recs) \in 1..Len(recs)
  OBVIOUS
<1>2. recs[Len(recs)] \in Seq(Nat \ {0})
  BY <1>1
<1>3. recs[Len(recs)] \o toks \in Seq(Nat \ {0})
  BY <1>2
<1>4. QED
  BY <1>1, <1>3

LEMMA GetTokenStep ==
  ASSUME ReplayInv, get_token
  PROVE  ReplayInv' /\ Stream!Read
<1>1. TypeOK /\ RecordsAbut
  BY DEF ReplayInv
<1>2. TokenRead
  BY TakeReads DEF get_token
<1>3. Cursor \in Nat \ {0} /\ delivered' \in Nat \ {0}
  BY <1>1, <1>2, BufferTypes DEF TokenRead
<1>4. marks' = marks /\ phase' = "idle"
  BY DEF get_token
<1>5. CASE lookaheads = << >>
  <2>1. lookaheads' = << >>
    BY <1>5 DEF get_token, Recorded
  <2>2. TypeOK'
    BY <1>1, <1>2, <1>3, <1>4, <1>5, <2>1 DEF TypeOK, TokenRead
  <2>3. RecordsAbut'
    BY <2>1 DEF RecordsAbut
  <2>4. QED
    BY <1>2, <1>4, <2>2, <2>3 DEF ReplayInv, NotScanning, TokenRead, Stream!Read
<1>6. CASE lookaheads # << >>
  <2> PICK n \in Nat : n = Len(lookaheads)
    BY <1>1, RecordTypes
  <2>1. /\ n \in 1..n /\ Len(marks) = n
        /\ lookaheads[n] \in Seq(Nat \ {0})
        /\ \A i \in 1..n : marks[i] \in Nat
    BY <1>1, <1>6, RecordTypes
  <2>2. lookaheads' = [lookaheads EXCEPT ![Len(lookaheads)] = @ \o <<delivered'>>]
    BY <1>6 DEF get_token, Recorded
  <2>3. <<delivered'>> \in Seq(Nat \ {0})
    BY <1>3
  <2>4. lookaheads \in Seq(Seq(Nat \ {0}))
    BY <1>1 DEF TypeOK
  <2>5. /\ lookaheads' \in Seq(Seq(Nat \ {0}))
        /\ Len(lookaheads') = n
        /\ \A i \in 1..n : i # n => lookaheads'[i] = lookaheads[i]
        /\ lookaheads'[n] = lookaheads[n] \o <<delivered'>>
    BY <1>6, <2>2, <2>3, <2>4, AddedToRecord
  <2>6. TypeOK'
    BY <1>1, <1>2, <1>3, <1>4, <2>5 DEF TypeOK, TokenRead
  <2>7. RecordsAbut'
    <3>1. SUFFICES ASSUME NEW i \in 1..n
                   PROVE  /\ \A j \in 1..Len(lookaheads'[i]) :
                               lookaheads'[i][j] = marks[i] + j - 1
                          /\ marks[i] + Len(lookaheads'[i])
                               = IF i = n THEN Cursor' ELSE marks[i + 1]
      BY <1>4, <2>5 DEF RecordsAbut
    <3>2. /\ \A j \in 1..Len(lookaheads[i]) : lookaheads[i][j] = marks[i] + j - 1
          /\ marks[i] + Len(lookaheads[i])
               = IF i = n THEN Cursor ELSE marks[i + 1]
      BY <1>1 DEF RecordsAbut
    <3>3. CASE i # n
      BY <2>5, <3>2, <3>3
    <3>4. CASE i = n
      <4>1. PICK r \in Seq(Nat \ {0}) : r = lookaheads[n]
        BY <2>1
      <4>2. /\ Len(r) \in Nat
            /\ Len(r \o <<delivered'>>) = Len(r) + 1
            /\ \A j \in 1..Len(r) : (r \o <<delivered'>>)[j] = r[j]
            /\ (r \o <<delivered'>>)[Len(r) + 1] = delivered'
        BY <2>3
      <4>3. marks[n] \in Nat /\ marks[n] + Len(r) = Cursor
        BY <2>1, <3>2, <3>4, <4>1
      <4>4. delivered' = Cursor /\ Cursor' = Cursor + 1
        BY <1>2 DEF TokenRead
      <4>5. marks[n] + Len(r \o <<delivered'>>) = Cursor'
        BY <1>3, <4>2, <4>3, <4>4
      <4>6. \A j \in 1..Len(r) : (r \o <<delivered'>>)[j] = marks[n] + j - 1
        BY <3>2, <3>4, <4>1, <4>2
      <4>7. (r \o <<delivered'>>)[Len(r) + 1] = marks[n] + (Len(r) + 1) - 1
        BY <4>2, <4>3, <4>4
      <4>8. \A j \in 1..(Len(r) + 1) : j \in 1..Len(r) \/ j = Len(r) + 1
        BY <4>2
      <4>9. QED
        BY <2>5, <3>4, <4>1, <4>2, <4>5, <4>6, <4>7, <4>8
    <3>5. QED
      BY <3>3, <3>4
  <2>8. QED
    BY <1>2, <1>4, <2>6, <2>7 DEF ReplayInv, NotScanning, TokenRead, Stream!Read
<1>7. QED
  BY <1>5, <1>6

(* What depends on the buffers only is kept with them.                     *)
LEMMA SameBuffers ==
  ASSUME ReplayInv, UNCHANGED <<fresh, open_buffers, buffer_pos>>
  PROVE  /\ BuffersAbut' /\ ExhaustedPass'
         /\ Cursor' = Cursor
<1>1. \A i \in Nat : /\ pos(i)' = pos(i)
                     /\ First(i)' = First(i)
                     /\ Exhausted(i)' = Exhausted(i)
  BY DEF pos, First, Exhausted
<1>2. \A i \in Nat : Upcoming(i)' = Upcoming(i)
  BY <1>1 DEF Upcoming, First, pos
<1>3. Len(open_buffers) \in Nat
  BY BufferTypes DEF ReplayInv
<1>4. Cursor' = Cursor
  BY <1>2, <1>3 DEF Cursor
<1>5. BuffersAbut'
  <2>1. \A i \in 1..Len(open_buffers) : i \in Nat /\ i - 1 \in Nat
    BY <1>3
  <2>2. QED
    BY <1>1, <1>2, <2>1 DEF BuffersAbut, ReplayInv
<1>6. ExhaustedPass'
  <2>1. \A i \in 0..Len(open_buffers) : i \in Nat
    BY <1>3
  <2>2. \A i, j \in 0..Len(open_buffers) : \A l \in (i + 1)..j : l \in Nat
    BY <2>1
  <2>3. QED
    BY <1>1, <1>2, <2>1, <2>2 DEF ExhaustedPass, Skipped, ReplayInv
<1>7. QED
  BY <1>4, <1>5, <1>6

LEMMA LookAheadStep ==
  ASSUME ReplayInv, look_ahead
  PROVE  ReplayInv' /\ Stream!Begin
<1> PICK n \in Nat : n = Len(lookaheads)
  BY RecordTypes DEF ReplayInv
<1>1. TypeOK /\ RecordsAbut
  BY DEF ReplayInv
<1>2. BuffersAbut' /\ ExhaustedPass' /\ Cursor' = Cursor
  BY SameBuffers DEF look_ahead
<1>3. Cursor \in Nat
  BY <1>1, BufferTypes
<1>4. /\ lookaheads \in Seq(Seq(Nat \ {0}))
      /\ marks \in Seq(Nat) /\ Len(marks) = n
  BY <1>1 DEF TypeOK
<1>5. /\ Append(lookaheads, << >>) \in Seq(Seq(Nat \ {0}))
      /\ Len(Append(lookaheads, << >>)) = n + 1
      /\ \A i \in 1..n : Append(lookaheads, << >>)[i] = lookaheads[i]
      /\ Append(lookaheads, << >>)[n + 1] = << >>
  BY <1>4
<1>6. /\ Append(marks, Cursor) \in Seq(Nat)
      /\ Len(Append(marks, Cursor)) = n + 1
      /\ \A i \in 1..n : Append(marks, Cursor)[i] = marks[i]
      /\ Append(marks, Cursor)[n + 1] = Cursor
  BY <1>3, <1>4
<1>7. /\ lookaheads' = Append(lookaheads, << >>)
      /\ marks' = Append(marks, Cursor)
      /\ UNCHANGED <<fresh, open_buffers, buffer_pos, phase, delivered>>
  BY DEF look_ahead
<1>8. TypeOK'
  BY <1>1, <1>5, <1>6, <1>7 DEF TypeOK
<1>9. RecordsAbut'
  <2>1. SUFFICES ASSUME NEW i \in 1..(n + 1)
                 PROVE  /\ \A j \in 1..Len(lookaheads'[i]) :
                             lookaheads'[i][j] = marks'[i] + j - 1
                        /\ marks'[i] + Len(lookaheads'[i])
                             = IF i = n + 1 THEN Cursor' ELSE marks'[i + 1]
    <3>1. Len(lookaheads') = n + 1
      BY <1>5, <1>7
    <3>2. QED
      BY <3>1 DEF RecordsAbut
  <2>2. CASE i = n + 1
    BY <1>2, <1>3, <1>5, <1>6, <1>7, <2>2
  <2>3. CASE i \in 1..n
    <3>1. /\ \A j \in 1..Len(lookaheads[i]) : lookaheads[i][j] = marks[i] + j - 1
          /\ marks[i] + Len(lookaheads[i])
               = IF i = n THEN Cursor ELSE marks[i + 1]
      BY <1>1, <2>3 DEF RecordsAbut
    <3>2. lookaheads'[i] = lookaheads[i] /\ marks'[i] = marks[i]
      BY <1>5, <1>6, <1>7, <2>3
    <3>3. marks'[i + 1] = IF i = n THEN Cursor ELSE marks[i + 1]
      BY <1>6, <1>7, <2>3
    <3>4. QED
      BY <2>3, <3>1, <3>2, <3>3
  <2>4. QED
    BY <2>1, <2>2, <2>3
<1>10. QED
  BY <1>2, <1>7, <1>8, <1>9 DEF ReplayInv, NotScanning, Stream!Begin

LEMMA RewindStep ==
  ASSUME ReplayInv, rewind
  PROVE  ReplayInv' /\ Stream!Return
<1> PICK n \in Nat : n = Len(lookaheads)
  BY RecordTypes DEF ReplayInv
<1>1. TypeOK /\ RecordsAbut
  BY DEF ReplayInv
<1>2. /\ n \in 1..n /\ Len(marks) = n /\ marks # << >>
      /\ lookaheads # << >>
      /\ lookaheads[n] \in Seq(Nat \ {0})
      /\ \A i \in 1..n : marks[i] \in Nat
  BY <1>1, RecordTypes DEF rewind
<1>3. UNCHANGED <<fresh, delivered, marks>>
  BY DEF rewind
<1>4. marks[n] + Len(lookaheads[n]) = Cursor
  BY <1>1, <1>2 DEF RecordsAbut
<1>5. CASE lookaheads[n] = << >>
  <2>1. UNCHANGED <<open_buffers, buffer_pos, lookaheads, phase>>
    BY <1>5 DEF rewind
  <2>2. BuffersAbut' /\ ExhaustedPass' /\ Cursor' = Cursor
    BY <1>3, <2>1, SameBuffers
  <2>3. TypeOK' /\ NotScanning'
    BY <1>1, <1>3, <2>1 DEF TypeOK, NotScanning, ReplayInv
  <2>4. RecordsAbut'
    BY <1>1, <1>3, <2>1, <2>2 DEF RecordsAbut
  <2>5. Cursor' = marks[Len(marks)]
    BY <1>2, <1>4, <1>5, <2>2
  <2>6. QED
    BY <1>2, <1>3, <2>2, <2>3, <2>4, <2>5 DEF ReplayInv, Stream!Return
<1>6. CASE lookaheads[n] # << >>
  <2>1. /\ lookaheads' = [lookaheads EXCEPT ![n] = << >>]
        /\ push_buffer(Innermost)
        /\ phase' = "rewound"
    BY <1>6 DEF rewind, Innermost
  <2>2. /\ open_buffers' \in Seq(Buffers)
        /\ buffer_pos' \in Nat
        /\ BuffersAbut' /\ ExhaustedPass'
        /\ Cursor' = marks[n]
    BY <1>2, <1>3, <1>6, <2>1, PushReturns DEF Innermost
  <2>3. /\ lookaheads' \in Seq(Seq(Nat \ {0}))
        /\ Len(lookaheads') = n
        /\ \A i \in 1..n : lookaheads'[i] = IF i = n THEN << >> ELSE lookaheads[i]
    <3>1. lookaheads \in Seq(Seq(Nat \ {0}))
      BY <1>1 DEF TypeOK
    <3>2. << >> \in Seq(Nat \ {0})
      OBVIOUS
    <3>3. QED
      BY <1>2, <2>1, <3>1, <3>2
  <2>4. TypeOK' /\ NotScanning'
    BY <1>1, <1>3, <2>1, <2>2, <2>3 DEF TypeOK, NotScanning
  <2>5. RecordsAbut'
    <3>1. SUFFICES ASSUME NEW i \in 1..n
                   PROVE  /\ \A j \in 1..Len(lookaheads'[i]) :
                               lookaheads'[i][j] = marks[i] + j - 1
                          /\ marks[i] + Len(lookaheads'[i])
                               = IF i = n THEN Cursor' ELSE marks[i + 1]
      BY <1>3, <2>3 DEF RecordsAbut
    <3>2. CASE i = n
      BY <1>2, <2>2, <2>3, <3>2
    <3>3. CASE i # n
      BY <1>1, <2>3, <3>3 DEF RecordsAbut
    <3>4. QED
      BY <3>2, <3>3
  <2>6. QED
    BY <1>2, <1>3, <2>2, <2>4, <2>5 DEF ReplayInv, Stream!Return
<1>7. QED
  BY <1>5, <1>6

LEMMA WithoutLast ==
  ASSUME NEW S, NEW s \in Seq(S), NEW n \in Nat \ {0}, Len(s) = n
  PROVE  \E t \in Seq(S) : /\ t = SubSeq(s, 1, Len(s) - 1)
                           /\ Len(t) = n - 1
                           /\ \A i \in 1..(n - 1) : t[i] = s[i]
<1>1. PICK k \in Nat : k = n - 1 /\ k \in 0..Len(s)
  <2>1. n - 1 \in Nat /\ n - 1 \in 0..Len(s)
    OBVIOUS
  <2>2. QED
    BY <2>1
<1>2. /\ SubSeq(s, 1, k) \in Seq(S)
      /\ Len(SubSeq(s, 1, k)) = k
      /\ \A i \in 1..k : SubSeq(s, 1, k)[i] = s[i]
  BY <1>1, SubSeqProperties
<1>3. QED
  BY <1>1, <1>2

LEMMA EndStep ==
  ASSUME ReplayInv, end_look_ahead
  PROVE  ReplayInv' /\ Stream!End
<1> PICK n \in Nat : n = Len(lookaheads)
  BY RecordTypes DEF ReplayInv
<1>1. TypeOK /\ RecordsAbut
  BY DEF ReplayInv
<1>2. /\ n \in 1..n /\ Len(marks) = n /\ marks # << >>
      /\ lookaheads # << >>
      /\ \A i \in 1..n : /\ lookaheads[i] \in Seq(Nat \ {0})
                       /\ marks[i] \in Nat
  BY <1>1, RecordTypes DEF end_look_ahead
<1>3. PICK outer \in Seq(Seq(Nat \ {0})) :
        /\ outer = SubSeq(lookaheads, 1, Len(lookaheads) - 1)
        /\ Len(outer) = n - 1
        /\ \A i \in 1..(n - 1) : outer[i] = lookaheads[i]
  <2>1. lookaheads \in Seq(Seq(Nat \ {0})) /\ n \in Nat \ {0}
    BY <1>1, <1>2 DEF TypeOK
  <2>2. QED
    BY <2>1, WithoutLast
<1>4. PICK kept \in Seq(Nat) :
        /\ kept = SubSeq(marks, 1, Len(marks) - 1)
        /\ Len(kept) = n - 1
        /\ \A i \in 1..(n - 1) : kept[i] = marks[i]
  <2>1. marks \in Seq(Nat) /\ n \in Nat \ {0}
    BY <1>1, <1>2 DEF TypeOK
  <2>2. QED
    BY <1>2, <2>1, WithoutLast
<1>5. PICK record \in Seq(Nat \ {0}) : record = lookaheads[n]
  BY <1>2
<1>6. /\ lookaheads' = HandedOver(outer, record)
      /\ marks' = kept
      /\ phase' = "idle"
      /\ UNCHANGED <<fresh, open_buffers, buffer_pos, delivered>>
  BY <1>3, <1>4, <1>5 DEF end_look_ahead
<1>7. BuffersAbut' /\ ExhaustedPass' /\ Cursor' = Cursor
  BY <1>6, SameBuffers
<1>8. Stream!End
  BY <1>2, <1>4, <1>6, <1>7 DEF Stream!End
<1>9. CASE n = 1
  <2>1. outer = << >>
    BY <1>3, <1>9
  <2>2. lookaheads' = << >>
    BY <1>6, <2>1 DEF HandedOver
  <2>3. TypeOK'
    BY <1>1, <1>4, <1>6, <1>9, <2>2 DEF TypeOK
  <2>4. RecordsAbut'
    BY <2>2 DEF RecordsAbut
  <2>5. QED
    BY <1>6, <1>7, <1>8, <2>3, <2>4 DEF ReplayInv, NotScanning
<1>10. CASE n # 1
  <2>0. n - 1 \in Nat \ {0}
    BY <1>2, <1>10
  <2> PICK m \in Nat \ {0} : m = n - 1
    BY <2>0
  <2>1. outer # << >> /\ Len(outer) = m
    BY <1>3
  <2>2. lookaheads' = [outer EXCEPT ![Len(outer)] = @ \o record]
    BY <1>6, <2>1 DEF HandedOver
  <2>3. /\ lookaheads' \in Seq(Seq(Nat \ {0}))
        /\ Len(lookaheads') = m
        /\ \A i \in 1..m : i # m => lookaheads'[i] = outer[i]
        /\ lookaheads'[m] = outer[m] \o record
    BY <2>1, <2>2, AddedToRecord
  <2>4. TypeOK'
    BY <1>1, <1>4, <1>6, <2>3 DEF TypeOK
  <2>5. RecordsAbut'
    <3>1. SUFFICES ASSUME NEW i \in 1..m
                   PROVE  /\ \A j \in 1..Len(lookaheads'[i]) :
                               lookaheads'[i][j] = marks'[i] + j - 1
                          /\ marks'[i] + Len(lookaheads'[i])
                               = IF i = m THEN Cursor' ELSE marks'[i + 1]
      BY <2>3 DEF RecordsAbut
    <3>2. /\ \A l \in 1..n :
               /\ \A j \in 1..Len(lookaheads[l]) : lookaheads[l][j] = marks[l] + j - 1
               /\ marks[l] + Len(lookaheads[l])
                    = IF l = n THEN Cursor ELSE marks[l + 1]
      BY <1>1 DEF RecordsAbut
    <3>3. CASE i # m
      <4>1. i \in 1..n /\ i \in 1..(n - 1) /\ i + 1 \in 1..(n - 1) /\ i # n
        BY <3>3
      <4>2. lookaheads'[i] = lookaheads[i]
        BY <1>3, <2>3, <3>3, <4>1
      <4>3. marks'[i] = marks[i] /\ marks'[i + 1] = marks[i + 1]
        BY <1>4, <1>6, <4>1
      <4>4. QED
        BY <3>2, <3>3, <4>1, <4>2, <4>3
    <3>4. CASE i = m
      <4>1. m \in 1..n /\ m \in 1..(n - 1) /\ m # n /\ m + 1 = n
        BY <3>4
      <4>2. PICK r \in Seq(Nat \ {0}) : r = lookaheads[m]
        BY <1>2, <4>1
      <4>3. lookaheads'[m] = r \o record
        BY <1>3, <2>3, <4>1, <4>2
      <4>4. marks'[m] = marks[m] /\ marks[m] \in Nat /\ marks[n] \in Nat
        BY <1>2, <1>4, <1>6, <4>1
      <4>5. /\ \A j \in 1..Len(r) : r[j] = marks[m] + j - 1
            /\ marks[m] + Len(r) = marks[n]
        BY <3>2, <4>1, <4>2
      <4>6. /\ \A j \in 1..Len(record) : record[j] = marks[n] + j - 1
            /\ marks[n] + Len(record) = Cursor
        BY <1>2, <1>5, <3>2
      <4>7. /\ Len(r) \in Nat /\ Len(record) \in Nat
            /\ Len(r \o record) = Len(r) + Len(record)
            /\ \A j \in 1..Len(r) : (r \o record)[j] = r[j]
            /\ \A j \in (Len(r) + 1)..(Len(r) + Len(record)) :
                 (r \o record)[j] = record[j - Len(r)]
        OBVIOUS
      <4>8. marks[m] + Len(r \o record) = Cursor
        BY <4>4, <4>5, <4>6, <4>7
      <4>9. ASSUME NEW j \in 1..(Len(r) + Len(record))
            PROVE  (r \o record)[j] = marks[m] + j - 1
        <5>1. CASE j \in 1..Len(r)
          BY <4>5, <4>7, <5>1
        <5>2. CASE j \in (Len(r) + 1)..(Len(r) + Len(record))
          <6>1. j - Len(r) \in 1..Len(record)
            BY <4>7, <5>2
          <6>2. (r \o record)[j] = marks[n] + (j - Len(r)) - 1
            BY <4>6, <4>7, <5>2, <6>1
          <6>3. marks[n] + (j - Len(r)) - 1 = marks[m] + j - 1
            BY <4>4, <4>5, <4>7
          <6>4. QED
            BY <6>2, <6>3
        <5>3. QED
          BY <4>7, <5>1, <5>2
      <4>10. QED
        BY <1>7, <3>4, <4>3, <4>4, <4>7, <4>8, <4>9
    <3>5. QED
      BY <3>3, <3>4
  <2>6. QED
    BY <1>6, <1>7, <1>8, <2>4, <2>5 DEF ReplayInv, NotScanning
<1>11. QED
  BY <1>9, <1>10

LEMMA StartsEmpty ==
  Init => ReplayInv /\ Stream!Init
<1> SUFFICES ASSUME Init PROVE ReplayInv /\ Stream!Init
  OBVIOUS
<1>1. Len(open_buffers) = 0 /\ Len(lookaheads) = 0 /\ Len(marks) = 0
  BY DEF Init
<1>2. TypeOK
  BY <1>1 DEF Init, TypeOK
<1>3. BuffersAbut /\ RecordsAbut /\ ExhaustedPass
  BY <1>1 DEF BuffersAbut, RecordsAbut, ExhaustedPass
<1>4. Cursor = 1
  BY <1>1 DEF Init, Cursor, Upcoming
<1>5. QED
  BY <1>2, <1>3, <1>4 DEF Init, ReplayInv, NotScanning, Stream!Init

LEMMA StepKept ==
  ASSUME CastsParsed = FALSE, ReplayInv, [Next]_vars
  PROVE  ReplayInv' /\ [Stream!Next]_Stream!vars
<1>1. CASE get_token
  BY <1>1, GetTokenStep DEF Stream!Next
<1>2. CASE look_ahead
  BY <1>2, LookAheadStep DEF Stream!Next
<1>3. CASE rewind
  BY <1>3, RewindStep DEF Stream!Next
<1>4. CASE end_look_ahead
  BY <1>4, EndStep DEF Stream!Next
<1>5. CASE BeginCast
  BY <1>5 DEF BeginCast
<1>6. CASE ScanCast
  BY <1>6 DEF ScanCast, ReplayInv, NotScanning
<1>7. CASE UNCHANGED vars
  <2>1. BuffersAbut' /\ ExhaustedPass' /\ Cursor' = Cursor
    BY <1>7, SameBuffers DEF vars
  <2>2. TypeOK' /\ NotScanning'
    BY <1>7 DEF vars, TypeOK, NotScanning, ReplayInv
  <2>3. RecordsAbut'
    BY <1>7, <2>1 DEF vars, RecordsAbut, ReplayInv
  <2>4. QED
    BY <1>7, <2>1, <2>2, <2>3 DEF vars, ReplayInv, Stream!vars
<1>8. QED
  BY <1>1, <1>2, <1>3, <1>4, <1>5, <1>6, <1>7 DEF Next

-----------------------------------------------------------------------------
(* While no functional cast is parsed, every reachable state of the lexer  *)
(* has buffers that abut, records that abut and no scan in progress.       *)
THEOREM Replay ==
  ASSUME CastsParsed = FALSE
  PROVE  Spec => []ReplayInv
<1>1. Init => ReplayInv
  BY StartsEmpty
<1>2. ReplayInv /\ [Next]_vars => ReplayInv'
  BY StepKept
<1>3. QED
  BY <1>1, <1>2, PTL DEF Spec

(* The buffers of the lexer, lexer::open_buffers, abut: a buffer holds     *)
(* consecutive tokens and goes on where the one above it ends.             *)
THEOREM RewoundBuffersAbut ==
  ASSUME CastsParsed = FALSE
  PROVE  Spec => []BuffersAbut
<1>1. ReplayInv => BuffersAbut
  BY DEF ReplayInv
<1>2. QED
  BY <1>1, Replay, PTL

(* Each lexer::look_ahead holds what was read since it began, up to where  *)
(* the next one began.                                                     *)
THEOREM LookAheadRecordsAbut ==
  ASSUME CastsParsed = FALSE
  PROVE  Spec => []RecordsAbut
<1>1. ReplayInv => RecordsAbut
  BY DEF ReplayInv
<1>2. QED
  BY <1>1, Replay, PTL

(* The lexer with its rewind buffers implements a stream with a cursor     *)
(* that goes back to the mark of the innermost look-ahead.                 *)
THEOREM LexerImplementsCursor ==
  ASSUME CastsParsed = FALSE
  PROVE  Spec => ImplementsCursor
<1>1. Init => ReplayInv /\ Stream!Init
  BY StartsEmpty
<1>2. ReplayInv /\ [Next]_vars => ReplayInv' /\ [Stream!Next]_Stream!vars
  BY StepKept
<1>3. QED
  BY <1>1, <1>2, PTL DEF Spec, ImplementsCursor, Stream!Spec

-----------------------------------------------------------------------------
(* With functional casts a record may have a token twice.  What is left is *)
(* a stream that never falls and never jumps: within a record or a buffer, *)
(* from one record to the next, and from the last record or buffer to what *)
(* is delivered next.                                                      *)
Follows(x, y) == x <= y /\ y <= x + 1

Smooth(toks) ==
  /\ \A i, j \in 1..Len(toks) : i <= j => toks[i] <= toks[j]
  /\ \A j \in 1..Len(toks) : j + 1 <= Len(toks) => toks[j + 1] <= toks[j] + 1

Final(toks) == toks[Len(toks)]

(* What index k would deliver, if it has a token left.                     *)
Peek(k) == IF k = 0 THEN fresh + 1 ELSE open_buffers[k].tokens[pos(k) + 1]

(* The index that delivers once the buffers above n are gone.              *)
Served(k, n) ==
  /\ k \in 0..n /\ (k > 0 => ~Exhausted(k))
  /\ \A l \in (k + 1)..n : Exhausted(l)

Top(k) == Served(k, Len(open_buffers))

BufferSmooth(i) ==
  /\ Smooth(open_buffers[i].tokens)
  /\ pos(i) <= Len(open_buffers[i].tokens)
  /\ \A k \in 0..(i - 1) :
       Served(k, i - 1) => Follows(Final(open_buffers[i].tokens), Peek(k))

BuffersSmooth == \A i \in 1..Len(open_buffers) : BufferSmooth(i)

(* The last of the first n records that is not empty.                      *)
LastRecord(records, i, n) ==
  i \in 1..n /\ records[i] # << >> /\ \A l \in (i + 1)..n : records[l] = << >>

RecordSmooth(records, i) ==
  /\ Smooth(records[i])
  /\ records[i] # << >> =>
       \A h \in 1..(i - 1) :
         LastRecord(records, h, i - 1) => Follows(Final(records[h]), records[i][1])

RecordsSmooth == \A i \in 1..Len(lookaheads) : RecordSmooth(lookaheads, i)

InRecords(i) == LastRecord(lookaheads, i, Len(lookaheads))

Current ==
  phase # "rewound" =>
    \A i \in 1..Len(lookaheads) : InRecords(i) => Final(lookaheads[i]) = delivered

GoesOn(k) ==
  /\ Peek(k) <= delivered + 1
  /\ phase # "rewound" => delivered <= Peek(k)
  /\ \A i \in 1..Len(lookaheads) :
       InRecords(i) => Follows(Final(lookaheads[i]), Peek(k))

SmoothInv ==
  /\ TypeOK
  /\ BuffersSmooth
  /\ RecordsSmooth
  /\ Current
  /\ \A k \in 0..Len(open_buffers) : Top(k) => GoesOn(k)

LEMMA RecordEnds ==
  ASSUME NEW toks \in Seq(Nat \ {0}), toks # << >>
  PROVE  /\ Len(toks) \in Nat \ {0} /\ 1 \in 1..Len(toks) /\ Len(toks) \in 1..Len(toks)
         /\ toks[1] \in Nat \ {0} /\ Final(toks) \in Nat \ {0}
         /\ Smooth(toks) => toks[1] <= Final(toks)
BY DEF Final, Smooth

LEMMA SmoothJoined ==
  ASSUME NEW s \in Seq(Nat \ {0}), NEW t \in Seq(Nat \ {0}), Smooth(s), Smooth(t),
         s # << >> /\ t # << >> => Follows(Final(s), t[1])
  PROVE  /\ s \o t \in Seq(Nat \ {0}) /\ Smooth(s \o t)
         /\ t # << >> => s \o t # << >> /\ Final(s \o t) = Final(t)
         /\ s # << >> => s \o t # << >> /\ (s \o t)[1] = s[1]
         /\ s = << >> => s \o t = t
         /\ t = << >> => s \o t = s
<1>1. /\ s \o t \in Seq(Nat \ {0})
      /\ Len(s) \in Nat /\ Len(t) \in Nat /\ Len(s \o t) = Len(s) + Len(t)
      /\ \A i \in 1..Len(s) : (s \o t)[i] = s[i] /\ s[i] \in Nat
      /\ \A i \in 1..Len(t) : (s \o t)[Len(s) + i] = t[i] /\ t[i] \in Nat
  OBVIOUS
<1>2. s = << >> => s \o t = t
  OBVIOUS
<1>3. t = << >> => s \o t = s
  OBVIOUS
<1>4. CASE s = << >> \/ t = << >>
  <2>1. Smooth(s \o t)
    BY <1>2, <1>3, <1>4
  <2>2. QED
    BY <1>1, <1>2, <1>3, <1>4, <2>1
<1>5. CASE s # << >> /\ t # << >>
  <2>1. Len(s) \in 1..Len(s) /\ Len(t) \in 1..Len(t) /\ 1 \in 1..Len(t) /\ 1 \in 1..Len(s)
    BY <1>1, <1>5
  <2>2. Follows(s[Len(s)], t[1])
    BY <1>5 DEF Final
  <2>3. \A i \in 1..Len(s \o t) : i \in 1..Len(s) \/ i - Len(s) \in 1..Len(t)
    BY <1>1
  <2>4. \A i \in 1..Len(s \o t) :
          i - Len(s) \in 1..Len(t) => (s \o t)[i] = t[i - Len(s)]
    <3>1. \A i \in 1..Len(s \o t) : Len(s) + (i - Len(s)) = i
      BY <1>1
    <3>2. QED
      BY <1>1, <3>1
  <2>5. ASSUME NEW i \in 1..Len(s \o t), NEW j \in 1..Len(s \o t), i <= j
        PROVE  (s \o t)[i] <= (s \o t)[j]
    <3>1. CASE i \in 1..Len(s) /\ j \in 1..Len(s)
      BY <1>1, <2>5, <3>1 DEF Smooth
    <3>2. CASE i \in 1..Len(s) /\ j - Len(s) \in 1..Len(t)
      <4>1. s[i] <= s[Len(s)]
        BY <2>1, <3>2 DEF Smooth
      <4>2. t[1] <= t[j - Len(s)]
        BY <2>1, <3>2 DEF Smooth
      <4>3. s[Len(s)] <= t[1]
        BY <2>2 DEF Follows
      <4>4. s[i] \in Nat /\ s[Len(s)] \in Nat /\ t[1] \in Nat /\ t[j - Len(s)] \in Nat
        BY <1>1, <2>1, <3>2
      <4>5. QED
        BY <1>1, <2>4, <3>2, <4>1, <4>2, <4>3, <4>4
    <3>3. CASE i - Len(s) \in 1..Len(t)
      <4>1. j - Len(s) \in 1..Len(t) /\ i - Len(s) <= j - Len(s)
        BY <1>1, <2>5, <3>3
      <4>2. QED
        BY <2>4, <3>3, <4>1 DEF Smooth
    <3>4. QED
      BY <2>3, <3>1, <3>2, <3>3
  <2>6. ASSUME NEW j \in 1..Len(s \o t), j + 1 <= Len(s \o t)
        PROVE  (s \o t)[j + 1] <= (s \o t)[j] + 1
    <3>0. j + 1 \in 1..Len(s \o t)
      BY <1>1, <2>6
    <3>1. CASE j \in 1..Len(s) /\ j + 1 \in 1..Len(s)
      <4>1. s[j + 1] <= s[j] + 1
        BY <1>1, <3>1 DEF Smooth
      <4>2. QED
        BY <1>1, <3>1, <4>1
    <3>2. CASE j = Len(s)
      <4>1. (s \o t)[j] = s[Len(s)] /\ (s \o t)[j + 1] = t[1]
        BY <1>1, <2>1, <3>2
      <4>2. QED
        BY <2>2, <4>1 DEF Follows
    <3>3. CASE j - Len(s) \in 1..Len(t)
      <4>1. PICK m \in 1..Len(t) : m = j - Len(s)
        BY <3>3
      <4>2. (j + 1) - Len(s) = m + 1 /\ m + 1 \in 1..Len(t)
        BY <1>1, <2>6, <4>1
      <4>3. t[m + 1] <= t[m] + 1
        <5>1. \A i \in 1..Len(t) : i + 1 <= Len(t) => t[i + 1] <= t[i] + 1
          BY DEF Smooth
        <5>2. m + 1 <= Len(t)
          BY <1>1, <4>2
        <5>3. QED
          BY <5>1, <5>2
      <4>4. (s \o t)[j] = t[m] /\ (s \o t)[j + 1] = t[m + 1]
        BY <2>4, <3>0, <3>3, <4>1, <4>2
      <4>5. QED
        BY <4>3, <4>4
    <3>4. QED
      BY <1>1, <2>6, <3>1, <3>2, <3>3
  <2>7. (s \o t)[Len(s \o t)] = t[Len(t)]
    BY <1>1, <2>1
  <2>8. s \o t # << >> /\ (s \o t)[1] = s[1]
    BY <1>1, <2>1
  <2>9. Smooth(s \o t)
    BY <2>5, <2>6 DEF Smooth
  <2>10. QED
    BY <1>1, <1>5, <2>7, <2>8, <2>9 DEF Final
<1>6. QED
  BY <1>4, <1>5

(* The token at index k, where one is left.                                *)
LEMMA PeekTypes ==
  ASSUME TypeOK, NEW k \in 0..Len(open_buffers), k > 0 => ~Exhausted(k)
  PROVE  /\ Peek(k) \in Nat \ {0}
         /\ k > 0 => pos(k) + 1 \in 1..Len(open_buffers[k].tokens)
<1>1. CASE k = 0
  BY <1>1 DEF Peek, TypeOK
<1>2. CASE k # 0
  <2>1. k \in 1..Len(open_buffers)
    BY <1>2, BufferTypes
  <2>2. PICK s \in Seq(Nat \ {0}) : s = open_buffers[k].tokens
    BY <2>1, BufferTypes
  <2>3. pos(k) \in Nat /\ Len(s) \in Nat /\ pos(k) < Len(s)
    BY <1>2, <2>1, <2>2, BufferTypes DEF Exhausted
  <2>4. pos(k) + 1 \in 1..Len(s)
    BY <2>3
  <2>5. s[pos(k) + 1] \in Nat \ {0}
    BY <2>4
  <2>6. QED
    BY <1>2, <2>2, <2>4, <2>5 DEF Peek
<1>3. QED
  BY <1>1, <1>2

(* Reading a token gives the one at the index that is served, and leaves   *)
(* buffers from which that token goes on.                                  *)
SmoothRead ==
  /\ fresh' \in Nat /\ open_buffers' \in Seq(Buffers) /\ buffer_pos' \in Nat
  /\ BuffersSmooth'
  /\ \E k \in 0..Len(open_buffers) : Top(k) /\ delivered' = Peek(k)
  /\ \A k \in 0..Len(open_buffers') : Top(k)' => Follows(delivered', Peek(k)')

LEMMA SmoothAbove ==
  ASSUME TypeOK, BuffersSmooth, NEW k \in 1..Len(open_buffers), Top(k), TakeAbove(k)
  PROVE  SmoothRead
<1>1. Len(open_buffers) \in Nat /\ fresh \in Nat /\ ~Exhausted(k)
  BY BufferTypes DEF TypeOK, Top, Served
<1>2. /\ open_buffers' \in Seq(Buffers)
      /\ Len(open_buffers') = k
      /\ \A i \in 1..k : open_buffers'[i] = open_buffers[i]
  BY <1>1, KeptBuffers DEF TakeAbove
<1>3. \A i \in 1..k : pos(i) \in Nat /\ Len(open_buffers[i].tokens) \in Nat \ {0}
  BY <1>1, BufferTypes
<1>4. fresh' = fresh /\ buffer_pos' = pos(k) + 1
  BY DEF TakeAbove
<1>5. /\ \A i \in 1..(k - 1) : pos(i)' = pos(i)
      /\ pos(k)' = pos(k) + 1
  BY <1>1, <1>2, <1>4 DEF pos
<1>6. pos(k) + 1 \in 1..Len(open_buffers[k].tokens)
  BY <1>1, PeekTypes
<1>7. \A i \in 1..(k - 1) : Exhausted(i)' = Exhausted(i)
  BY <1>2, <1>5 DEF Exhausted
<1>8. \A i \in 0..(k - 1) : Peek(i)' = Peek(i)
  <2>1. Peek(0)' = Peek(0)
    BY <1>4 DEF Peek
  <2>2. \A i \in 1..(k - 1) : Peek(i)' = Peek(i)
    BY <1>2, <1>5 DEF Peek
  <2>3. \A i \in 0..(k - 1) : i = 0 \/ i \in 1..(k - 1)
    OBVIOUS
  <2>4. QED
    BY <2>1, <2>2, <2>3
<1>9. ASSUME NEW m \in 0..(k - 1), NEW j \in 0..m, Served(j, m)'
      PROVE  Served(j, m)
  <2>1. \A l \in (j + 1)..m : l \in 1..(k - 1)
    OBVIOUS
  <2>2. j > 0 => j \in 1..(k - 1)
    OBVIOUS
  <2>3. QED
    BY <1>7, <1>9, <2>1, <2>2 DEF Served
<1>10. BuffersSmooth'
  <2>1. SUFFICES ASSUME NEW i \in 1..k PROVE BufferSmooth(i)'
    BY <1>2 DEF BuffersSmooth
  <2>2. BufferSmooth(i)
    BY <1>1 DEF BuffersSmooth
  <2>3. open_buffers'[i].tokens = open_buffers[i].tokens
    BY <1>2
  <2>4. pos(i)' <= Len(open_buffers[i].tokens)
    <3>1. i = k \/ i \in 1..(k - 1)
      OBVIOUS
    <3>2. QED
      BY <1>3, <1>5, <1>6, <2>2, <3>1 DEF BufferSmooth
  <2>5. ASSUME NEW j \in 0..(i - 1), Served(j, i - 1)'
        PROVE  Follows(Final(open_buffers[i].tokens), Peek(j)')
    <3>1. i - 1 \in 0..(k - 1) /\ j \in 0..(k - 1)
      OBVIOUS
    <3>2. Served(j, i - 1)
      BY <1>9, <2>5, <3>1
    <3>3. QED
      BY <1>8, <2>2, <3>1, <3>2 DEF BufferSmooth
  <2>6. QED
    BY <2>2, <2>3, <2>4, <2>5 DEF BufferSmooth
<1>11. PICK s \in Seq(Nat \ {0}) : s = open_buffers[k].tokens
  BY BufferTypes
<1>12. Smooth(s) /\ delivered' = s[pos(k) + 1] /\ delivered' = Peek(k)
  BY <1>11 DEF BuffersSmooth, BufferSmooth, TakeAbove, Peek
<1>13. ASSUME NEW j \in 0..k, Top(j)'
       PROVE  Follows(delivered', Peek(j)')
  <2>1. Served(j, k)'
    BY <1>2, <1>13 DEF Top
  <2>2. CASE j = k
    <3>1. Peek(k)' = s[pos(k) + 2]
      <4>1. (pos(k) + 1) + 1 = pos(k) + 2
        BY <1>3
      <4>2. k # 0
        OBVIOUS
      <4>3. open_buffers'[k].tokens = s
        BY <1>2, <1>11
      <4>4. Peek(k)' = s[pos(k)' + 1]
        BY <4>2, <4>3 DEF Peek
      <4>5. QED
        BY <1>5, <4>1, <4>4
    <3>2. pos(k) + 1 < Len(s)
      <4>1. ~Exhausted(k)'
        BY <2>1, <2>2 DEF Served
      <4>2. ~(pos(k) + 1 >= Len(s))
        BY <1>2, <1>5, <1>11, <4>1 DEF Exhausted
      <4>3. QED
        BY <1>3, <1>11, <4>2
    <3>3. PICK p \in 1..Len(s) : p = pos(k) + 1 /\ p + 1 = pos(k) + 2 /\ p + 1 \in 1..Len(s)
      <4>1. pos(k) + 1 \in 1..Len(s) /\ (pos(k) + 1) + 1 = pos(k) + 2
        BY <1>3, <1>6, <1>11
      <4>2. (pos(k) + 1) + 1 \in 1..Len(s)
        BY <1>3, <1>11, <3>2
      <4>3. QED
        BY <4>1, <4>2
    <3>4. s[p] <= s[p + 1] /\ s[p + 1] <= s[p] + 1
      BY <1>12, <3>3 DEF Smooth
    <3>5. QED
      BY <1>12, <2>2, <3>1, <3>3, <3>4 DEF Follows
  <2>3. CASE j # k
    <3>1. j \in 0..(k - 1) /\ k - 1 \in 0..(k - 1) /\ k \in (j + 1)..k
      BY <2>3
    <3>2. Exhausted(k)'
      BY <2>1, <3>1 DEF Served
    <3>3. pos(k) + 1 = Len(s)
      <4>1. pos(k) + 1 >= Len(s)
        BY <1>2, <1>5, <1>11, <3>2 DEF Exhausted
      <4>2. QED
        BY <1>3, <1>6, <1>11, <4>1
    <3>4. Served(j, k - 1)'
      <4>1. \A l \in (j + 1)..(k - 1) : l \in (j + 1)..k
        OBVIOUS
      <4>2. QED
        BY <2>1, <3>1, <4>1 DEF Served
    <3>5. Served(j, k - 1)
      BY <1>9, <3>1, <3>4
    <3>6. Follows(Final(s), Peek(j))
      BY <1>11, <3>1, <3>5 DEF BuffersSmooth, BufferSmooth
    <3>7. QED
      BY <1>8, <1>12, <3>1, <3>3, <3>6 DEF Final
  <2>4. QED
    BY <2>2, <2>3
<1>14. buffer_pos' \in Nat /\ k \in 0..Len(open_buffers)
  BY <1>1, <1>3, <1>4
<1>15. QED
  BY <1>1, <1>2, <1>4, <1>10, <1>12, <1>13, <1>14 DEF SmoothRead

LEMMA SmoothBelow ==
  ASSUME TypeOK, Top(0), TakeBelow
  PROVE  SmoothRead
<1>1. /\ fresh \in Nat /\ fresh' = fresh + 1 /\ delivered' = fresh + 1
      /\ open_buffers' = << >>
      /\ buffer_pos' = buffer_pos /\ buffer_pos \in Nat
  BY DEF TakeBelow, TypeOK
<1>2. Len(open_buffers') = 0 /\ open_buffers' \in Seq(Buffers)
  BY <1>1
<1>3. BuffersSmooth'
  BY <1>2 DEF BuffersSmooth
<1>4. delivered' = Peek(0) /\ Peek(0)' = delivered' + 1
  BY <1>1 DEF Peek
<1>5. Follows(delivered', Peek(0)')
  BY <1>1, <1>4 DEF Follows
<1>6. \A k \in 0..0 : k = 0
  OBVIOUS
<1>7. 0 \in 0..Len(open_buffers)
  BY DEF Top, Served
<1>8. QED
  BY <1>1, <1>2, <1>3, <1>4, <1>5, <1>6, <1>7 DEF SmoothRead

LEMMA TakeSmooth ==
  ASSUME TypeOK, BuffersSmooth, Take
  PROVE  SmoothRead
<1>1. PICK k \in 0..Len(open_buffers) :
        /\ \A i \in (k + 1)..Len(open_buffers) : Exhausted(i)
        /\ \/ k > 0 /\ ~Exhausted(k) /\ TakeAbove(k)
           \/ k = 0 /\ TakeBelow
  BY DEF Take
<1>2. Top(k)
  BY <1>1 DEF Top, Served
<1>3. k > 0 => k \in 1..Len(open_buffers)
  OBVIOUS
<1>4. QED
  BY <1>1, <1>2, <1>3, SmoothAbove, SmoothBelow

-----------------------------------------------------------------------------
(* What a read adds to the innermost record, once or twice.                *)
LEMMA RecordedSmooth ==
  ASSUME SmoothInv, SmoothRead, NEW toks \in Seq(Nat \ {0}), toks # << >>,
         \A j \in 1..Len(toks) : toks[j] = delivered',
         lookaheads' = Recorded(toks)
  PROVE  /\ delivered' \in Nat \ {0} /\ delivered' <= delivered + 1
         /\ lookaheads' \in Seq(Seq(Nat \ {0})) /\ Len(lookaheads') = Len(lookaheads)
         /\ RecordsSmooth'
         /\ \A i \in 1..Len(lookaheads') :
              InRecords(i)' => Final(lookaheads'[i]) = delivered'
<1> PICK n \in Nat : n = Len(lookaheads)
  BY RecordTypes DEF SmoothInv
<1>1. TypeOK /\ RecordsSmooth /\ Current
  BY DEF SmoothInv
<1>2. PICK k \in 0..Len(open_buffers) : Top(k) /\ delivered' = Peek(k)
  BY DEF SmoothRead
<1>3. GoesOn(k)
  BY <1>2 DEF SmoothInv
<1>4. delivered' \in Nat \ {0}
  BY <1>1, <1>2, PeekTypes DEF Top, Served
<1>5. delivered' <= delivered + 1
  BY <1>2, <1>3 DEF GoesOn
<1>6. CASE n = 0
  <2>1. lookaheads = << >>
    BY <1>1, <1>6, RecordTypes
  <2>2. lookaheads' = << >> /\ Len(lookaheads') = 0
    BY <2>1 DEF Recorded
  <2>3. QED
    BY <1>4, <1>5, <1>6, <2>2 DEF RecordsSmooth
<1>7. CASE n # 0
  <2>1. /\ lookaheads \in Seq(Seq(Nat \ {0})) /\ lookaheads # << >>
        /\ n \in 1..n /\ n \in 1..Len(lookaheads)
        /\ \A i \in 1..n : lookaheads[i] \in Seq(Nat \ {0})
    BY <1>1, <1>7, RecordTypes DEF TypeOK
  <2>2. lookaheads' = [lookaheads EXCEPT ![Len(lookaheads)] = @ \o toks]
    BY <2>1 DEF Recorded
  <2>3. /\ lookaheads' \in Seq(Seq(Nat \ {0}))
        /\ Len(lookaheads') = n
        /\ \A i \in 1..n : i # n => lookaheads'[i] = lookaheads[i]
        /\ lookaheads'[n] = lookaheads[n] \o toks
    BY <2>1, <2>2, AddedToRecord
  <2>4. PICK r \in Seq(Nat \ {0}) : r = lookaheads[n]
    BY <2>1
  <2>5. RecordSmooth(lookaheads, n)
    BY <1>1, <2>1 DEF RecordsSmooth
  <2>6. Smooth(toks) /\ toks[1] = delivered' /\ Final(toks) = delivered'
    <3>1. Len(toks) \in 1..Len(toks) /\ 1 \in 1..Len(toks)
      BY RecordEnds
    <3>2. \A j \in 1..Len(toks) : j + 1 <= Len(toks) => j + 1 \in 1..Len(toks)
      OBVIOUS
    <3>3. QED
      BY <1>4, <3>1, <3>2 DEF Smooth, Final
  <2>7. r # << >> => Follows(Final(r), delivered')
    <3>1. SUFFICES ASSUME r # << >> PROVE Follows(Final(r), delivered')
      OBVIOUS
    <3>2. \A l \in (n + 1)..n : lookaheads[l] = << >>
      OBVIOUS
    <3>3. InRecords(n)
      BY <2>1, <2>4, <3>1, <3>2 DEF InRecords, LastRecord
    <3>4. QED
      BY <1>2, <1>3, <2>1, <2>4, <3>3 DEF GoesOn
  <2>8. /\ Smooth(r \o toks)
        /\ r \o toks # << >> /\ Final(r \o toks) = delivered'
        /\ r # << >> => (r \o toks)[1] = r[1]
        /\ r = << >> => r \o toks = toks
    <3>1. Smooth(r)
      BY <2>4, <2>5 DEF RecordSmooth
    <3>2. r # << >> /\ toks # << >> => Follows(Final(r), toks[1])
      BY <2>6, <2>7
    <3>3. QED
      BY <2>6, <3>1, <3>2, SmoothJoined
  <2>9. ASSUME NEW m \in 0..(n - 1), NEW h \in 1..m, LastRecord(lookaheads', h, m)
        PROVE  LastRecord(lookaheads, h, m) /\ lookaheads'[h] = lookaheads[h]
    <3>1. \A l \in 1..m : l \in 1..n /\ l # n
      BY <2>9
    <3>2. \A l \in (h + 1)..m : l \in 1..m
      OBVIOUS
    <3>3. QED
      BY <2>3, <2>9, <3>1, <3>2 DEF LastRecord
  <2>10. RecordsSmooth'
    <3>1. SUFFICES ASSUME NEW i \in 1..n PROVE RecordSmooth(lookaheads', i)
      BY <2>3 DEF RecordsSmooth
    <3>2. RecordSmooth(lookaheads, i)
      BY <1>1 DEF RecordsSmooth
    <3>3. i - 1 \in 0..(n - 1) /\ \A h \in 1..(i - 1) : h \in 1..n
      OBVIOUS
    <3>4. CASE i # n
      BY <2>3, <2>9, <3>2, <3>3, <3>4 DEF RecordSmooth
    <3>5. CASE i = n
      <4>1. ASSUME NEW h \in 1..(n - 1), LastRecord(lookaheads', h, n - 1)
            PROVE  Follows(Final(lookaheads'[h]), (r \o toks)[1])
        <5>1. LastRecord(lookaheads, h, n - 1) /\ lookaheads'[h] = lookaheads[h]
          BY <2>9, <3>3, <3>5, <4>1
        <5>2. CASE r # << >>
          BY <2>4, <2>5, <2>8, <5>1, <5>2 DEF RecordSmooth
        <5>3. CASE r = << >>
          <6>1. \A l \in (h + 1)..n : l = n \/ l \in (h + 1)..(n - 1)
            OBVIOUS
          <6>2. InRecords(h) /\ h \in 1..Len(lookaheads)
            <7>1. lookaheads[n] = << >> /\ n = Len(lookaheads) /\ h \in 1..n
              BY <2>4, <5>3
            <7>2. h \in 1..(n - 1) /\ lookaheads[h] # << >>
              BY <5>1 DEF LastRecord
            <7>3. \A l \in (h + 1)..(n - 1) : lookaheads[l] = << >>
              BY <5>1 DEF LastRecord
            <7>4. \A l \in (h + 1)..n : lookaheads[l] = << >>
              BY <6>1, <7>1, <7>3
            <7>5. LastRecord(lookaheads, h, n)
              BY <7>1, <7>2, <7>4 DEF LastRecord
            <7>6. QED
              BY <7>1, <7>5 DEF InRecords
          <6>3. Follows(Final(lookaheads[h]), delivered')
            BY <1>2, <1>3, <6>2 DEF GoesOn
          <6>4. QED
            BY <2>6, <2>8, <5>1, <5>3, <6>3
        <5>4. QED
          BY <5>2, <5>3
      <4>2. QED
        BY <2>3, <2>4, <2>8, <3>5, <4>1 DEF RecordSmooth
    <3>6. QED
      BY <3>4, <3>5
  <2>11. ASSUME NEW i \in 1..n, InRecords(i)'
         PROVE  Final(lookaheads'[i]) = delivered'
    <3>1. i = n
      <4>1. SUFFICES ASSUME i # n PROVE FALSE
        OBVIOUS
      <4>2. n \in (i + 1)..n
        BY <4>1
      <4>3. lookaheads'[n] = << >>
        BY <2>3, <2>11, <4>2 DEF InRecords, LastRecord
      <4>4. QED
        BY <2>3, <2>4, <2>8, <4>3
    <3>2. QED
      BY <2>3, <2>4, <2>8, <3>1
  <2>12. QED
    BY <1>4, <1>5, <2>3, <2>10, <2>11
<1>8. QED
  BY <1>6, <1>7

(* get_token and the scan of a cast.                                       *)
LEMMA ReadSmooth ==
  ASSUME SmoothInv, SmoothRead, NEW toks \in Seq(Nat \ {0}), toks # << >>,
         \A j \in 1..Len(toks) : toks[j] = delivered',
         lookaheads' = Recorded(toks), marks' = marks,
         phase' \in {"idle", "scanning"}
  PROVE  SmoothInv' /\ delivered' <= delivered + 1
<1>1. /\ delivered' \in Nat \ {0} /\ delivered' <= delivered + 1
      /\ lookaheads' \in Seq(Seq(Nat \ {0})) /\ Len(lookaheads') = Len(lookaheads)
      /\ RecordsSmooth'
      /\ \A i \in 1..Len(lookaheads') :
           InRecords(i)' => Final(lookaheads'[i]) = delivered'
  BY RecordedSmooth
<1>2. TypeOK'
  BY <1>1 DEF SmoothInv, TypeOK, SmoothRead
<1>3. ASSUME NEW k \in 0..Len(open_buffers'), Top(k)'
      PROVE  GoesOn(k)'
  <2>1. Follows(delivered', Peek(k)')
    BY <1>3 DEF SmoothRead
  <2>2. QED
    BY <1>1, <2>1 DEF GoesOn, Follows
<1>4. Current'
  BY <1>1 DEF Current
<1>5. QED
  BY <1>1, <1>2, <1>3, <1>4 DEF SmoothInv, SmoothRead

LEMMA GetTokenSmooth ==
  ASSUME SmoothInv, get_token
  PROVE  SmoothInv' /\ delivered' <= delivered + 1
<1>1. SmoothRead
  BY TakeSmooth DEF get_token, SmoothInv
<1>2. delivered' \in Nat \ {0}
  BY <1>1, PeekTypes DEF SmoothRead, SmoothInv, Top, Served
<1>3. PICK toks \in Seq(Nat \ {0}) :
        /\ toks = <<delivered'>> /\ toks # << >>
        /\ \A j \in 1..Len(toks) : toks[j] = delivered'
  <2>1. PICK d \in Nat \ {0} : d = delivered'
    BY <1>2
  <2>2. <<d>> \in Seq(Nat \ {0}) /\ Len(<<d>>) = 1
    OBVIOUS
  <2>3. \A j \in 1..1 : <<d>>[j] = d
    OBVIOUS
  <2>4. <<d>> # << >>
    BY <2>2
  <2>5. QED
    BY <2>1, <2>2, <2>3, <2>4
<1>4. lookaheads' = Recorded(toks) /\ marks' = marks /\ phase' \in {"idle", "scanning"}
  BY <1>3 DEF get_token
<1>5. QED
  BY <1>1, <1>3, <1>4, ReadSmooth

LEMMA ScanCastSmooth ==
  ASSUME SmoothInv, ScanCast
  PROVE  SmoothInv' /\ delivered' <= delivered + 1
<1>1. SmoothRead
  BY TakeSmooth DEF ScanCast, SmoothInv
<1>2. delivered' \in Nat \ {0}
  BY <1>1, PeekTypes DEF SmoothRead, SmoothInv, Top, Served
<1>3. PICK toks \in Seq(Nat \ {0}) :
        /\ toks = <<delivered', delivered'>> /\ toks # << >>
        /\ \A j \in 1..Len(toks) : toks[j] = delivered'
  <2>1. PICK d \in Nat \ {0} : d = delivered'
    BY <1>2
  <2>2. <<d, d>> \in Seq(Nat \ {0}) /\ Len(<<d, d>>) = 2
    OBVIOUS
  <2>3. \A j \in 1..2 : <<d, d>>[j] = d
    OBVIOUS
  <2>4. <<d, d>> # << >>
    BY <2>2
  <2>5. QED
    BY <2>1, <2>2, <2>3, <2>4
<1>4. lookaheads' = Recorded(toks) /\ marks' = marks /\ phase' \in {"idle", "scanning"}
  BY <1>3 DEF ScanCast
<1>5. QED
  BY <1>1, <1>3, <1>4, ReadSmooth

(* What depends on the buffers only is kept with them.                     *)
LEMMA BuffersStay ==
  ASSUME TypeOK, UNCHANGED <<fresh, open_buffers, buffer_pos>>
  PROVE  /\ BuffersSmooth => BuffersSmooth'
         /\ \A k : Top(k)' <=> Top(k)
         /\ \A k : Peek(k)' = Peek(k)
<1>1. \A i : pos(i)' = pos(i) /\ Exhausted(i)' = Exhausted(i) /\ Peek(i)' = Peek(i)
  BY DEF pos, Exhausted, Peek
<1>2. \A k, n : Served(k, n)' <=> Served(k, n)
  BY <1>1 DEF Served
<1>3. \A k : Top(k)' <=> Top(k)
  BY <1>2 DEF Top
<1>4. \A i : BufferSmooth(i) => BufferSmooth(i)'
  BY <1>1, <1>2 DEF BufferSmooth
<1>5. QED
  BY <1>1, <1>3, <1>4 DEF BuffersSmooth

(* A new record, empty or with the token that is current.                  *)
LEMMA RecordBegun ==
  ASSUME SmoothInv, NEW toks \in Seq(Nat \ {0}), NEW mark \in Nat,
         phase # "rewound" \/ toks = << >>,
         toks = << >> \/ toks = <<delivered>>,
         lookaheads' = Append(lookaheads, toks), marks' = Append(marks, mark),
         phase' = "scanning" \/ phase' = phase, phase \in {"idle"},
         UNCHANGED <<fresh, open_buffers, buffer_pos, delivered>>
  PROVE  SmoothInv'
<1> PICK n \in Nat : n = Len(lookaheads)
  BY RecordTypes DEF SmoothInv
<1>1. TypeOK /\ BuffersSmooth /\ RecordsSmooth /\ Current
  BY DEF SmoothInv
<1>2. /\ lookaheads \in Seq(Seq(Nat \ {0})) /\ marks \in Seq(Nat) /\ Len(marks) = n
  BY <1>1 DEF TypeOK
<1>3. /\ lookaheads' \in Seq(Seq(Nat \ {0})) /\ Len(lookaheads') = n + 1
      /\ \A i \in 1..n : lookaheads'[i] = lookaheads[i]
      /\ lookaheads'[n + 1] = toks
  BY <1>2
<1>4. marks' \in Seq(Nat) /\ Len(marks') = n + 1
  BY <1>2
<1>5. TypeOK'
  BY <1>1, <1>3, <1>4 DEF TypeOK
<1>6. /\ BuffersSmooth'
      /\ \A k : (Top(k)' <=> Top(k)) /\ Peek(k)' = Peek(k)
  BY <1>1, BuffersStay
<1>7. Smooth(toks) /\ (toks # << >> => toks[1] = delivered /\ Final(toks) = delivered)
  <2>1. CASE toks = << >>
    BY <2>1 DEF Smooth
  <2>2. CASE toks = <<delivered>>
    <3>1. Len(toks) = 1 /\ toks[1] = delivered
      BY <2>2
    <3>2. \A i \in 1..1 : i = 1
      OBVIOUS
    <3>3. delivered \in Nat
      BY <1>1 DEF TypeOK
    <3>4. QED
      BY <3>1, <3>2, <3>3 DEF Smooth, Final
  <2>3. QED
    BY <2>1, <2>2
<1>8. ASSUME NEW m \in 0..n, NEW h \in 1..m
      PROVE  LastRecord(lookaheads', h, m) <=> LastRecord(lookaheads, h, m)
  <2>1. \A l \in 1..m : l \in 1..n
    OBVIOUS
  <2>2. \A l \in (h + 1)..m : l \in 1..m
    OBVIOUS
  <2>3. QED
    BY <1>3, <2>1, <2>2 DEF LastRecord
<1>9. ASSUME NEW i \in 1..n, LastRecord(lookaheads, i, n)
      PROVE  InRecords(i) /\ i \in 1..Len(lookaheads) /\ Final(lookaheads[i]) = delivered
  <2>1. InRecords(i) /\ i \in 1..Len(lookaheads)
    BY <1>9 DEF InRecords
  <2>2. QED
    BY <1>1, <2>1 DEF Current
<1>10. RecordsSmooth'
  <2>1. SUFFICES ASSUME NEW i \in 1..(n + 1) PROVE RecordSmooth(lookaheads', i)
    BY <1>3 DEF RecordsSmooth
  <2>2. CASE i = n + 1
    <3>1. ASSUME NEW h \in 1..n, LastRecord(lookaheads', h, n), toks # << >>
          PROVE  Follows(Final(lookaheads'[h]), toks[1])
      <4>1. n \in 0..n
        OBVIOUS
      <4>2. Final(lookaheads'[h]) = delivered
        BY <1>3, <1>8, <1>9, <3>1, <4>1
      <4>3. delivered \in Nat
        BY <1>1 DEF TypeOK
      <4>4. QED
        BY <1>7, <3>1, <4>2, <4>3 DEF Follows
    <3>2. i - 1 = n
      BY <2>2
    <3>3. QED
      BY <1>3, <1>7, <2>2, <3>1, <3>2 DEF RecordSmooth
  <2>3. CASE i \in 1..n
    <3>1. RecordSmooth(lookaheads, i)
      BY <1>1, <2>3 DEF RecordsSmooth
    <3>2. i - 1 \in 0..n /\ \A h \in 1..(i - 1) : h \in 1..n
      BY <2>3
    <3>3. QED
      BY <1>3, <1>8, <2>3, <3>1, <3>2 DEF RecordSmooth
  <2>4. QED
    BY <2>2, <2>3
<1>11. ASSUME NEW i \in 1..(n + 1), InRecords(i)'
       PROVE  \/ toks # << >> /\ Final(lookaheads'[i]) = delivered
              \/ i \in 1..n /\ LastRecord(lookaheads, i, n) /\ lookaheads'[i] = lookaheads[i]
  <2>1. LastRecord(lookaheads', i, n + 1)
    BY <1>3, <1>11 DEF InRecords
  <2>2. CASE i = n + 1
    BY <1>3, <1>7, <2>1, <2>2 DEF LastRecord
  <2>3. CASE i \in 1..n
    <3>1. \A l \in (i + 1)..n : l \in (i + 1)..(n + 1)
      OBVIOUS
    <3>2. LastRecord(lookaheads', i, n)
      BY <2>1, <2>3, <3>1 DEF LastRecord
    <3>3. n \in 0..n
      OBVIOUS
    <3>4. QED
      BY <1>3, <1>8, <2>3, <3>2, <3>3
  <2>4. QED
    BY <2>2, <2>3
<1>12. Current'
  BY <1>3, <1>9, <1>11 DEF Current
<1>13. ASSUME NEW k \in 0..Len(open_buffers'), Top(k)'
       PROVE  GoesOn(k)'
  <2>1. k \in 0..Len(open_buffers) /\ Top(k) /\ Peek(k)' = Peek(k)
    BY <1>6, <1>13
  <2>2. GoesOn(k)
    BY <2>1 DEF SmoothInv
  <2>3. delivered <= Peek(k) /\ Peek(k) <= delivered + 1
    BY <2>2 DEF GoesOn
  <2>4. ASSUME NEW i \in 1..(n + 1), InRecords(i)'
        PROVE  Follows(Final(lookaheads'[i]), Peek(k))
    <3>1. Final(lookaheads'[i]) = delivered
      BY <1>3, <1>9, <1>11, <2>4
    <3>2. QED
      BY <2>3, <3>1 DEF Follows
  <2>5. QED
    BY <1>3, <2>1, <2>3, <2>4 DEF GoesOn
<1>14. QED
  BY <1>5, <1>6, <1>10, <1>12, <1>13 DEF SmoothInv

LEMMA LookAheadSmooth ==
  ASSUME SmoothInv, look_ahead
  PROVE  SmoothInv' /\ delivered' <= delivered + 1
<1>1. Cursor \in Nat /\ delivered \in Nat
  BY BufferTypes DEF SmoothInv, TypeOK
<1>2. << >> \in Seq(Nat \ {0})
  OBVIOUS
<1>3. SmoothInv'
  BY <1>1, <1>2, RecordBegun DEF look_ahead
<1>4. QED
  BY <1>1, <1>3 DEF look_ahead

LEMMA BeginCastSmooth ==
  ASSUME SmoothInv, BeginCast
  PROVE  SmoothInv' /\ delivered' <= delivered + 1
<1>1. delivered \in Nat \ {0}
  BY DEF SmoothInv, TypeOK, BeginCast
<1>2. <<delivered>> \in Seq(Nat \ {0})
  BY <1>1
<1>3. SmoothInv'
  BY <1>1, <1>2, RecordBegun DEF BeginCast
<1>4. QED
  BY <1>1, <1>3 DEF BeginCast

(* Rewinding puts the innermost record in front of what is delivered next. *)
LEMMA RewindSmooth ==
  ASSUME SmoothInv, rewind
  PROVE  SmoothInv' /\ delivered' <= delivered + 1
<1> PICK n \in Nat : n = Len(lookaheads)
  BY RecordTypes DEF SmoothInv
<1> PICK b \in Nat : b = Len(open_buffers)
  BY BufferTypes DEF SmoothInv
<1>1. TypeOK /\ BuffersSmooth /\ RecordsSmooth /\ Current
  BY DEF SmoothInv
<1>2. /\ n \in 1..n /\ lookaheads \in Seq(Seq(Nat \ {0}))
      /\ phase # "rewound"
      /\ UNCHANGED <<fresh, delivered, marks>> /\ delivered \in Nat
  BY <1>1, RecordTypes DEF rewind, TypeOK
<1>3. PICK r \in Seq(Nat \ {0}) : r = lookaheads[n]
  BY <1>1, <1>2, RecordTypes
<1>4. CASE r = << >>
  <2>1. UNCHANGED <<open_buffers, buffer_pos, lookaheads, phase>>
    BY <1>3, <1>4 DEF rewind
  <2>2. TypeOK' /\ RecordsSmooth' /\ Current'
    BY <1>1, <1>2, <2>1 DEF TypeOK, RecordsSmooth, Current, InRecords
  <2>3. BuffersSmooth' /\ \A k : (Top(k)' <=> Top(k)) /\ Peek(k)' = Peek(k)
    BY <1>1, <1>2, <2>1, BuffersStay
  <2>4. ASSUME NEW k \in 0..Len(open_buffers'), Top(k)'
        PROVE  GoesOn(k)'
    <3>1. GoesOn(k)
      BY <2>1, <2>3, <2>4 DEF SmoothInv
    <3>2. QED
      BY <1>2, <2>1, <2>3, <3>1 DEF GoesOn, InRecords
  <2>5. QED
    BY <1>2, <2>2, <2>3, <2>4 DEF SmoothInv
<1>5. CASE r # << >>
  <2>1. /\ lookaheads' = [lookaheads EXCEPT ![n] = << >>]
        /\ push_buffer(r)
        /\ phase' = "rewound"
    BY <1>3, <1>5 DEF rewind
  <2>2. /\ open_buffers' \in Seq(Buffers) /\ buffer_pos' = 0
        /\ Len(open_buffers') = b + 1
        /\ open_buffers'[b + 1].tokens = r
        /\ \A i \in 1..b : /\ open_buffers'[i].tokens = open_buffers[i].tokens
                          /\ open_buffers'[i].buf_pos = pos(i)
    BY <1>1, <1>5, <2>1, PushedBuffer
  <2>3. /\ lookaheads' \in Seq(Seq(Nat \ {0})) /\ Len(lookaheads') = n
        /\ \A i \in 1..n : lookaheads'[i] = IF i = n THEN << >> ELSE lookaheads[i]
    <3>1. << >> \in Seq(Nat \ {0})
      OBVIOUS
    <3>2. QED
      BY <1>2, <2>1, <3>1
  <2>4. TypeOK'
    BY <1>1, <1>2, <2>1, <2>2, <2>3 DEF TypeOK
  <2>5. /\ \A i \in 1..b : pos(i)' = pos(i)
        /\ pos(b + 1)' = 0
    <3>1. \A i \in 1..b : i # b + 1
      OBVIOUS
    <3>2. QED
      BY <2>2, <3>1 DEF pos
  <2>6. /\ \A i \in 1..b : Exhausted(i)' = Exhausted(i)
        /\ ~Exhausted(b + 1)'
    <3>1. \A i \in 1..b : Exhausted(i)' = Exhausted(i)
      BY <2>2, <2>5 DEF Exhausted
    <3>2. Len(r) \in Nat \ {0}
      BY <1>5
    <3>3. QED
      BY <2>2, <2>5, <3>1, <3>2 DEF Exhausted
  <2>7. /\ \A i \in 0..b : Peek(i)' = Peek(i)
        /\ Peek(b + 1)' = r[1]
    <3>1. Peek(0)' = Peek(0)
      BY <1>2 DEF Peek
    <3>2. \A i \in 1..b : Peek(i)' = Peek(i)
      BY <2>2, <2>5 DEF Peek
    <3>3. Peek(b + 1)' = r[1]
      <4>1. b + 1 # 0 /\ 0 + 1 = 1
        OBVIOUS
      <4>2. QED
        BY <2>2, <2>5, <4>1 DEF Peek
    <3>4. \A i \in 0..b : i = 0 \/ i \in 1..b
      OBVIOUS
    <3>5. QED
      BY <3>1, <3>2, <3>3, <3>4
  <2>8. ASSUME NEW m \in 0..b, NEW j \in 0..m
        PROVE  Served(j, m)' <=> Served(j, m)
    <3>1. \A l \in (j + 1)..m : l \in 1..b
      OBVIOUS
    <3>2. j > 0 => j \in 1..b
      OBVIOUS
    <3>3. QED
      BY <2>6, <3>1, <3>2 DEF Served
  <2>9. InRecords(n) /\ RecordSmooth(lookaheads, n) /\ n \in 1..Len(lookaheads)
    <3>1. \A l \in (n + 1)..n : lookaheads[l] = << >>
      OBVIOUS
    <3>2. InRecords(n)
      BY <1>2, <1>3, <1>5, <3>1 DEF InRecords, LastRecord
    <3>3. QED
      BY <1>1, <1>2, <3>2 DEF RecordsSmooth
  <2>10. Smooth(r) /\ Final(r) = delivered /\ r[1] \in Nat /\ r[1] <= delivered
    <3>1. Smooth(r) /\ Final(r) = delivered
      BY <1>1, <1>2, <1>3, <2>9 DEF RecordSmooth, Current
    <3>2. QED
      BY <1>5, <3>1, RecordEnds
  <2>11. BuffersSmooth'
    <3>1. SUFFICES ASSUME NEW i \in 1..(b + 1) PROVE BufferSmooth(i)'
      BY <2>2 DEF BuffersSmooth
    <3>2. i - 1 \in 0..b /\ \A k \in 0..(i - 1) : k \in 0..b
      OBVIOUS
    <3>3. CASE i \in 1..b
      <4>1. BufferSmooth(i)
        BY <1>1, <3>3 DEF BuffersSmooth
      <4>2. open_buffers'[i].tokens = open_buffers[i].tokens /\ pos(i)' = pos(i)
        BY <2>2, <2>5, <3>3
      <4>3. ASSUME NEW k \in 0..(i - 1), Served(k, i - 1)'
            PROVE  Follows(Final(open_buffers[i].tokens), Peek(k)')
        <5>1. Served(k, i - 1) /\ Peek(k)' = Peek(k)
          BY <2>7, <2>8, <3>2, <4>3
        <5>2. QED
          BY <4>1, <5>1 DEF BufferSmooth
      <4>4. QED
        BY <4>1, <4>2, <4>3 DEF BufferSmooth
    <3>4. CASE i = b + 1
      <4>1. i - 1 = b /\ Len(r) \in Nat
        BY <3>4
      <4>2. ASSUME NEW k \in 0..b, Served(k, b)'
            PROVE  Follows(Final(r), Peek(k)')
        <5>1. b \in 0..b
          OBVIOUS
        <5>2. Top(k) /\ Peek(k)' = Peek(k)
          BY <2>7, <2>8, <4>2, <5>1 DEF Top
        <5>3. GoesOn(k)
          BY <5>2 DEF SmoothInv
        <5>4. QED
          BY <1>3, <2>9, <5>2, <5>3 DEF GoesOn
      <4>3. QED
        BY <2>2, <2>5, <2>10, <3>4, <4>1, <4>2 DEF BufferSmooth
    <3>5. QED
      BY <3>3, <3>4
  <2>12. ASSUME NEW m \in 0..n, NEW h \in 1..m, LastRecord(lookaheads', h, m)
         PROVE  /\ h # n /\ lookaheads'[h] = lookaheads[h]
                /\ LastRecord(lookaheads, h, IF m = n THEN n - 1 ELSE m)
    <3>1. h \in 1..n /\ h # n /\ lookaheads'[h] = lookaheads[h]
      BY <2>3, <2>12 DEF LastRecord
    <3>2. lookaheads[h] # << >>
      BY <2>12, <3>1 DEF LastRecord
    <3>3. \A l \in (h + 1)..m : l \in 1..n /\ lookaheads'[l] = << >>
      BY <2>12, <3>1 DEF LastRecord
    <3>4. \A l \in (h + 1)..m : l # n => lookaheads[l] = << >>
      BY <2>3, <3>3
    <3>5. CASE m = n
      <4>1. h \in 1..(n - 1) /\ \A l \in (h + 1)..(n - 1) : l \in (h + 1)..m /\ l # n
        BY <3>1, <3>5
      <4>2. QED
        BY <3>1, <3>2, <3>4, <3>5, <4>1 DEF LastRecord
    <3>6. CASE m # n
      <4>1. \A l \in (h + 1)..m : l # n
        BY <3>6
      <4>2. QED
        BY <3>1, <3>2, <3>4, <3>6, <4>1 DEF LastRecord
    <3>7. QED
      BY <3>5, <3>6
  <2>13. RecordsSmooth'
    <3>1. SUFFICES ASSUME NEW i \in 1..n PROVE RecordSmooth(lookaheads', i)
      BY <2>3 DEF RecordsSmooth
    <3>2. CASE i = n
      <4>1. lookaheads'[i] = << >>
        BY <2>3, <3>2
      <4>2. Smooth(<< >>)
        BY DEF Smooth
      <4>3. QED
        BY <4>1, <4>2 DEF RecordSmooth
    <3>3. CASE i # n
      <4>1. RecordSmooth(lookaheads, i) /\ lookaheads'[i] = lookaheads[i]
        BY <1>1, <2>3, <3>3 DEF RecordsSmooth
      <4>2. i - 1 \in 0..n /\ i - 1 # n
        OBVIOUS
      <4>3. QED
        BY <2>12, <4>1, <4>2 DEF RecordSmooth
    <3>4. QED
      BY <3>2, <3>3
  <2>14. ASSUME NEW i \in 1..n, InRecords(i)'
         PROVE  Follows(Final(lookaheads'[i]), r[1])
    <3>1. n \in 0..n
      OBVIOUS
    <3>2. LastRecord(lookaheads', i, n)
      BY <2>3, <2>14 DEF InRecords
    <3>3. i # n /\ lookaheads'[i] = lookaheads[i] /\ LastRecord(lookaheads, i, n - 1)
      BY <2>12, <3>1, <3>2
    <3>4. i \in 1..(n - 1)
      BY <3>3
    <3>5. QED
      BY <1>3, <1>5, <2>9, <3>3, <3>4 DEF RecordSmooth
  <2>15. ASSUME NEW k \in 0..(b + 1), Top(k)'
         PROVE  GoesOn(k)'
    <3>1. k = b + 1
      <4>1. SUFFICES ASSUME k # b + 1 PROVE FALSE
        OBVIOUS
      <4>2. b + 1 \in (k + 1)..(b + 1)
        BY <4>1
      <4>3. Exhausted(b + 1)'
        BY <2>2, <2>15, <4>2 DEF Top, Served
      <4>4. QED
        BY <2>6, <4>3
    <3>2. Peek(k)' = r[1]
      BY <2>7, <3>1
    <3>3. QED
      BY <1>2, <2>1, <2>3, <2>10, <2>14, <3>2 DEF GoesOn
  <2>16. Current'
    BY <2>1 DEF Current
  <2>17. QED
    BY <1>2, <2>2, <2>4, <2>11, <2>13, <2>15, <2>16 DEF SmoothInv
<1>6. QED
  BY <1>4, <1>5

(* The record that ends is joined to the one before it.                    *)
LEMMA EndSmooth ==
  ASSUME SmoothInv, end_look_ahead
  PROVE  SmoothInv' /\ delivered' <= delivered + 1
<1> PICK n \in Nat : n = Len(lookaheads)
  BY RecordTypes DEF SmoothInv
<1>1. TypeOK /\ BuffersSmooth /\ RecordsSmooth /\ Current
  BY DEF SmoothInv
<1>2. /\ n \in 1..n /\ Len(marks) = n /\ phase # "rewound"
      /\ \A i \in 1..n : lookaheads[i] \in Seq(Nat \ {0})
      /\ delivered \in Nat
  BY <1>1, RecordTypes DEF end_look_ahead, TypeOK
<1>3. PICK outer \in Seq(Seq(Nat \ {0})) :
        /\ outer = SubSeq(lookaheads, 1, Len(lookaheads) - 1)
        /\ Len(outer) = n - 1
        /\ \A i \in 1..(n - 1) : outer[i] = lookaheads[i]
  <2>1. lookaheads \in Seq(Seq(Nat \ {0})) /\ n \in Nat \ {0}
    BY <1>1, <1>2 DEF TypeOK
  <2>2. QED
    BY <2>1, WithoutLast
<1>4. PICK kept \in Seq(Nat) :
        kept = SubSeq(marks, 1, Len(marks) - 1) /\ Len(kept) = n - 1
  <2>1. marks \in Seq(Nat) /\ n \in Nat \ {0}
    BY <1>1, <1>2 DEF TypeOK
  <2>2. QED
    BY <1>2, <2>1, WithoutLast
<1>5. PICK record \in Seq(Nat \ {0}) : record = lookaheads[n]
  BY <1>2
<1>6. /\ lookaheads' = HandedOver(outer, record)
      /\ marks' = kept /\ phase' = "idle"
      /\ UNCHANGED <<fresh, open_buffers, buffer_pos, delivered>>
  BY <1>3, <1>4, <1>5 DEF end_look_ahead
<1>7. /\ BuffersSmooth'
      /\ \A k : (Top(k)' <=> Top(k)) /\ Peek(k)' = Peek(k)
  BY <1>1, <1>6, BuffersStay
<1>8. CASE n = 1
  <2>1. outer = << >>
    BY <1>3, <1>8
  <2>2. lookaheads' = << >> /\ Len(lookaheads') = 0
    BY <1>6, <2>1 DEF HandedOver
  <2>3. TypeOK'
    BY <1>1, <1>4, <1>6, <1>8, <2>2 DEF TypeOK
  <2>4. RecordsSmooth' /\ Current'
    BY <2>2 DEF RecordsSmooth, Current
  <2>5. ASSUME NEW k \in 0..Len(open_buffers'), Top(k)'
        PROVE  GoesOn(k)'
    <3>1. GoesOn(k) /\ Peek(k)' = Peek(k)
      BY <1>6, <1>7, <2>5 DEF SmoothInv
    <3>2. QED
      BY <1>2, <1>6, <2>2, <3>1 DEF GoesOn
  <2>6. QED
    BY <1>2, <1>6, <1>7, <2>3, <2>4, <2>5 DEF SmoothInv
<1>9. CASE n # 1
  <2>0. n - 1 \in Nat \ {0}
    BY <1>2, <1>9
  <2> PICK m \in Nat \ {0} : m = n - 1
    BY <2>0
  <2>1. outer # << >> /\ Len(outer) = m
    BY <1>3
  <2>2. lookaheads' = [outer EXCEPT ![Len(outer)] = @ \o record]
    BY <1>6, <2>1 DEF HandedOver
  <2>3. PICK r \in Seq(Nat \ {0}) : r = lookaheads[m]
    <3>1. m \in 1..n
      OBVIOUS
    <3>2. QED
      BY <1>2, <3>1
  <2>4. /\ lookaheads' \in Seq(Seq(Nat \ {0}))
        /\ Len(lookaheads') = m
        /\ \A i \in 1..m : i # m => lookaheads'[i] = lookaheads[i]
        /\ lookaheads'[m] = r \o record
    <3>1. \A i \in 1..m : outer[i] = lookaheads[i]
      BY <1>3
    <3>2. m \in 1..m
      OBVIOUS
    <3>3. /\ lookaheads' \in Seq(Seq(Nat \ {0}))
          /\ Len(lookaheads') = Len(outer)
          /\ \A i \in 1..Len(outer) : i # Len(outer) => lookaheads'[i] = outer[i]
          /\ lookaheads'[Len(outer)] = outer[Len(outer)] \o record
      BY <2>1, <2>2, AddedToRecord
    <3>4. outer[m] = r
      BY <2>3, <3>1, <3>2
    <3>5. QED
      BY <2>1, <3>1, <3>3, <3>4
  <2>5. TypeOK'
    BY <1>1, <1>4, <1>6, <2>4 DEF TypeOK
  <2>6. RecordSmooth(lookaheads, m) /\ RecordSmooth(lookaheads, n)
    <3>1. m \in 1..n
      OBVIOUS
    <3>2. QED
      BY <1>1, <1>2, <3>1 DEF RecordsSmooth
  <2>7. r # << >> /\ record # << >> => Follows(Final(r), record[1])
    <3>1. SUFFICES ASSUME r # << >>, record # << >> PROVE Follows(Final(r), record[1])
      OBVIOUS
    <3>2. m \in 1..(n - 1) /\ \A l \in (m + 1)..(n - 1) : lookaheads[l] = << >>
      OBVIOUS
    <3>3. LastRecord(lookaheads, m, n - 1)
      BY <2>3, <3>1, <3>2 DEF LastRecord
    <3>4. QED
      BY <1>5, <2>3, <2>6, <3>1, <3>2, <3>3 DEF RecordSmooth
  <2>8. /\ r \o record \in Seq(Nat \ {0}) /\ Smooth(r \o record)
        /\ record # << >> => r \o record # << >> /\ Final(r \o record) = Final(record)
        /\ r # << >> => r \o record # << >> /\ (r \o record)[1] = r[1]
        /\ r = << >> => r \o record = record
        /\ record = << >> => r \o record = r
    <3>1. Smooth(r) /\ Smooth(record)
      BY <1>5, <2>3, <2>6 DEF RecordSmooth
    <3>2. QED
      BY <2>7, <3>1, SmoothJoined
  <2>9. ASSUME NEW j \in 0..(m - 1), NEW h \in 1..j, LastRecord(lookaheads', h, j)
        PROVE  LastRecord(lookaheads, h, j) /\ lookaheads'[h] = lookaheads[h]
    <3>1. \A l \in 1..j : l \in 1..m /\ l # m
      BY <2>9
    <3>2. \A l \in (h + 1)..j : l \in 1..j
      OBVIOUS
    <3>3. QED
      BY <2>4, <2>9, <3>1, <3>2 DEF LastRecord
  <2>10. ASSUME NEW h \in 1..(m - 1), LastRecord(lookaheads, h, m - 1), r = << >>
         PROVE  LastRecord(lookaheads, h, m) /\ h \in 1..m
    <3>1. \A l \in (h + 1)..m : l = m \/ l \in (h + 1)..(m - 1)
      OBVIOUS
    <3>2. h \in 1..m
      OBVIOUS
    <3>3. QED
      BY <2>3, <2>10, <3>1, <3>2 DEF LastRecord
  <2>11. RecordsSmooth'
    <3>1. SUFFICES ASSUME NEW i \in 1..m PROVE RecordSmooth(lookaheads', i)
      BY <2>4 DEF RecordsSmooth
    <3>2. i - 1 \in 0..(m - 1) /\ i \in 1..n
      OBVIOUS
    <3>3. RecordSmooth(lookaheads, i)
      BY <1>1, <3>2 DEF RecordsSmooth
    <3>4. CASE i # m
      BY <2>4, <2>9, <3>2, <3>3, <3>4 DEF RecordSmooth
    <3>5. CASE i = m
      <4>1. ASSUME NEW h \in 1..(m - 1), LastRecord(lookaheads', h, m - 1),
                   r \o record # << >>
            PROVE  Follows(Final(lookaheads'[h]), (r \o record)[1])
        <5>1. LastRecord(lookaheads, h, m - 1) /\ lookaheads'[h] = lookaheads[h]
          BY <2>9, <3>2, <3>5, <4>1
        <5>2. CASE r # << >>
          BY <2>3, <2>6, <2>8, <5>1, <5>2 DEF RecordSmooth
        <5>3. CASE r = << >>
          <6>1. LastRecord(lookaheads, h, m) /\ h \in 1..m /\ m = n - 1
            BY <2>10, <5>1, <5>3
          <6>2. record # << >> /\ (r \o record)[1] = record[1]
            BY <2>8, <4>1, <5>3
          <6>3. Follows(Final(lookaheads[h]), record[1])
            BY <1>5, <2>6, <6>1, <6>2 DEF RecordSmooth
          <6>4. QED
            BY <5>1, <6>2, <6>3
        <5>4. QED
          BY <5>2, <5>3
      <4>2. QED
        BY <2>4, <2>8, <3>5, <4>1 DEF RecordSmooth
    <3>6. QED
      BY <3>4, <3>5
  <2>12. ASSUME NEW i \in 1..m, InRecords(i)'
         PROVE  \E j \in 1..n : InRecords(j) /\ Final(lookaheads'[i]) = Final(lookaheads[j])
    <3>1. LastRecord(lookaheads', i, m)
      BY <2>4, <2>12 DEF InRecords
    <3>2. CASE record # << >>
      <4>1. i = m
        <5>1. SUFFICES ASSUME i # m PROVE FALSE
          OBVIOUS
        <5>2. m \in (i + 1)..m
          BY <5>1
        <5>3. lookaheads'[m] = << >>
          BY <3>1, <5>2 DEF LastRecord
        <5>4. QED
          BY <2>4, <2>8, <3>2, <5>3
      <4>2. \A l \in (n + 1)..n : lookaheads[l] = << >>
        OBVIOUS
      <4>3. InRecords(n)
        BY <1>2, <1>5, <3>2, <4>2 DEF InRecords, LastRecord
      <4>4. QED
        BY <1>2, <1>5, <2>4, <2>8, <3>2, <4>1, <4>3
    <3>3. CASE record = << >>
      <4>1. \A l \in 1..m : lookaheads'[l] = lookaheads[l]
        BY <2>3, <2>4, <2>8, <3>3
      <4>2. \A l \in (i + 1)..n : l = n \/ l \in (i + 1)..m
        OBVIOUS
      <4>3. \A l \in (i + 1)..m : l \in 1..m
        OBVIOUS
      <4>4. i \in 1..n /\ lookaheads[i] # << >>
        BY <3>1, <4>1 DEF LastRecord
      <4>5. \A l \in (i + 1)..n : lookaheads[l] = << >>
        BY <1>5, <3>1, <3>3, <4>1, <4>2, <4>3 DEF LastRecord
      <4>6. InRecords(i)
        BY <4>4, <4>5 DEF InRecords, LastRecord
      <4>7. QED
        BY <4>1, <4>4, <4>6
    <3>4. QED
      BY <3>2, <3>3
  <2>13. Current'
    BY <1>1, <1>2, <1>6, <2>4, <2>12 DEF Current
  <2>14. ASSUME NEW k \in 0..Len(open_buffers'), Top(k)'
         PROVE  GoesOn(k)'
    <3>1. GoesOn(k) /\ Peek(k)' = Peek(k)
      BY <1>6, <1>7, <2>14 DEF SmoothInv
    <3>2. ASSUME NEW i \in 1..m, InRecords(i)'
          PROVE  Follows(Final(lookaheads'[i]), Peek(k))
      <4>1. PICK j \in 1..n : InRecords(j) /\ Final(lookaheads'[i]) = Final(lookaheads[j])
        BY <2>12, <3>2
      <4>2. QED
        BY <3>1, <4>1 DEF GoesOn
    <3>3. QED
      BY <1>2, <1>6, <2>4, <3>1, <3>2 DEF GoesOn
  <2>15. QED
    BY <1>2, <1>6, <1>7, <2>5, <2>11, <2>13, <2>14 DEF SmoothInv
<1>10. QED
  BY <1>8, <1>9

LEMMA StartsSmooth ==
  Init => SmoothInv
<1> SUFFICES ASSUME Init PROVE SmoothInv
  OBVIOUS
<1>1. Len(open_buffers) = 0 /\ Len(lookaheads) = 0 /\ Len(marks) = 0
  BY DEF Init
<1>2. TypeOK
  BY <1>1 DEF Init, TypeOK
<1>3. BuffersSmooth /\ RecordsSmooth /\ Current
  BY <1>1 DEF BuffersSmooth, RecordsSmooth, Current
<1>4. ASSUME NEW k \in 0..Len(open_buffers)
      PROVE  GoesOn(k)
  <2>1. k = 0 /\ Peek(k) = 1 /\ delivered = 0
    BY <1>1, <1>4 DEF Init, Peek
  <2>2. QED
    BY <1>1, <2>1 DEF GoesOn
<1>5. QED
  BY <1>2, <1>3, <1>4 DEF SmoothInv

LEMMA SmoothKept ==
  ASSUME SmoothInv, [Next]_vars
  PROVE  SmoothInv' /\ [delivered' <= delivered + 1]_vars
<1>1. CASE get_token
  BY <1>1, GetTokenSmooth
<1>2. CASE look_ahead
  BY <1>2, LookAheadSmooth
<1>3. CASE rewind
  BY <1>3, RewindSmooth
<1>4. CASE end_look_ahead
  BY <1>4, EndSmooth
<1>5. CASE BeginCast
  BY <1>5, BeginCastSmooth
<1>6. CASE ScanCast
  BY <1>6, ScanCastSmooth
<1>7. CASE UNCHANGED vars
  <2>1. UNCHANGED <<fresh, open_buffers, buffer_pos, lookaheads, phase, delivered, marks>>
    BY <1>7 DEF vars
  <2>2. TypeOK /\ BuffersSmooth /\ RecordsSmooth /\ Current
    BY DEF SmoothInv
  <2>3. TypeOK' /\ RecordsSmooth' /\ Current'
    BY <2>1, <2>2 DEF TypeOK, RecordsSmooth, Current, InRecords
  <2>4. BuffersSmooth' /\ \A k : (Top(k)' <=> Top(k)) /\ Peek(k)' = Peek(k)
    BY <2>1, <2>2, BuffersStay
  <2>5. ASSUME NEW k \in 0..Len(open_buffers'), Top(k)'
        PROVE  GoesOn(k)'
    <3>1. GoesOn(k)
      BY <2>1, <2>4, <2>5 DEF SmoothInv
    <3>2. QED
      BY <2>1, <2>4, <3>1 DEF GoesOn, InRecords
  <2>6. QED
    BY <1>7, <2>3, <2>4, <2>5 DEF SmoothInv
<1>8. QED
  BY <1>1, <1>2, <1>3, <1>4, <1>5, <1>6, <1>7 DEF Next

-----------------------------------------------------------------------------
(* With functional casts and without them, lexer::get_token never jumps    *)
(* over a token: what it returns is at most the one after what it returned *)
(* before, however look-aheads nest, rewind and end.                       *)
THEOREM NothingSkippedHolds ==
  Spec => NothingSkipped
<1>1. Init => SmoothInv
  BY StartsSmooth
<1>2. SmoothInv /\ [Next]_vars => SmoothInv' /\ [delivered' <= delivered + 1]_vars
  BY SmoothKept
<1>3. QED
  BY <1>1, <1>2, PTL DEF Spec, NothingSkipped

(* The buffers, the records and the marks keep their types, with casts and *)
(* without; there is one record for each mark.                             *)
THEOREM BuffersAndRecordsTyped ==
  Spec => []TypeOK
<1>1. Init => SmoothInv
  BY StartsSmooth
<1>2. SmoothInv /\ [Next]_vars => SmoothInv'
  BY SmoothKept
<1>3. SmoothInv => TypeOK
  BY DEF SmoothInv
<1>4. QED
  BY <1>1, <1>2, <1>3, PTL DEF Spec
=============================================================================
