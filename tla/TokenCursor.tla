----------------------------- MODULE TokenCursor -----------------------------
(***************************************************************************)
(* What the lexer promises to a parser that looks ahead: one stream of     *)
(* tokens, a cursor, and the places to which the look-aheads in progress   *)
(* may take it back.  A token is named by its position in the stream.      *)
(***************************************************************************)
EXTENDS Sequences, Integers

VARIABLES
  cursor,    \* the position of the token to be delivered next
  marks,     \* where each look-ahead in progress began, innermost last
  delivered  \* the token delivered last; 0 before the first

vars == <<cursor, marks, delivered>>

Init ==
  /\ cursor = 1
  /\ marks = << >>
  /\ delivered = 0

Read ==
  /\ delivered' = cursor
  /\ cursor' = cursor + 1
  /\ UNCHANGED marks

Begin ==
  /\ marks' = Append(marks, cursor)
  /\ UNCHANGED <<cursor, delivered>>

Return ==
  /\ marks # << >>
  /\ cursor' = marks[Len(marks)]
  /\ UNCHANGED <<marks, delivered>>

End ==
  /\ marks # << >>
  /\ marks' = SubSeq(marks, 1, Len(marks) - 1)
  /\ UNCHANGED <<cursor, delivered>>

Next == Read \/ Begin \/ Return \/ End

Spec == Init /\ [][Next]_vars
=============================================================================
