------------------------------ MODULE LookAhead ------------------------------
(***************************************************************************)
(* Look-ahead and rewinding in jdi::lexer: lexer::look_ahead records every *)
(* token that get_token returns, rewind pushes the record back as a buffer *)
(* above the files and macros, and preprocess_and_read_token serves the    *)
(* buffers before anything else (src/System/lex_cpp.h 310-346,             *)
(* lex_cpp.cpp 1457-1530).                                                 *)
(*                                                                         *)
(* A token is its position in the stream that the files and the macros     *)
(* make up; what lies below the rewind buffers is the number of tokens     *)
(* taken from it.  A rewind buffer never lies below a macro buffer, for a  *)
(* macro is entered only when no rewound token is left.                    *)
(***************************************************************************)
EXTENDS Sequences, Integers

CONSTANTS
  MaxReads,    \* bound: positions that are read
  MaxMarks,    \* bound: look-aheads in progress
  MaxBuffers,  \* bound: rewind buffers stacked
  MaxRecord,   \* bound: a record this long is not added to
  CastsParsed  \* TRUE when AST_Builder parses functional casts

ASSUME BoundsAssumption ==
  /\ MaxReads \in Nat
  /\ MaxMarks \in Nat
  /\ MaxBuffers \in Nat
  /\ MaxRecord \in Nat
  /\ CastsParsed \in BOOLEAN

VARIABLES
  fresh,         \* how many tokens were taken from below the buffers
  open_buffers,  \* lexer::open_buffers: tokens, and buf_pos when not on top
  buffer_pos,    \* lexer::buffer_pos: the tokens read of the topmost buffer
  lookaheads,    \* look_ahead::buffer of each look-ahead, innermost last
  phase,         \* "scanning" in the loop of AST.cpp 685-695; "rewound" from
                 \* a rewind to the get_token that follows it; else "idle"
  delivered,     \* the token that get_token returned last
  marks          \* history: the cursor when each look-ahead began

vars == <<fresh, open_buffers, buffer_pos, lookaheads, phase, delivered, marks>>

Init ==
  /\ fresh = 0
  /\ open_buffers = << >>
  /\ buffer_pos = 0
  /\ lookaheads = << >>
  /\ phase = "idle"
  /\ delivered = 0
  /\ marks = << >>

-----------------------------------------------------------------------------
(* The buffers.  Index 0 stands for the files and macros below them.       *)

pos(i) ==
  IF i = Len(open_buffers) THEN buffer_pos ELSE open_buffers[i].buf_pos

Exhausted(i) == pos(i) >= Len(open_buffers[i].tokens)

First(i) == open_buffers[i].tokens[1]

(* The position of the token that index i would deliver next.              *)
Upcoming(i) == IF i = 0 THEN fresh + 1 ELSE First(i) + pos(i)

Cursor == Upcoming(Len(open_buffers))

(* Mutant of push_buffer: where the buffer below was left is not saved.    *)
push_buffer_unsaved(toks) ==
  /\ open_buffers' = Append(open_buffers, [tokens |-> toks, buf_pos |-> 0])
  /\ buffer_pos' = 0

push_buffer(toks) ==
  /\ open_buffers' =
       Append([i \in 1..Len(open_buffers) |-> [open_buffers[i] EXCEPT !.buf_pos = pos(i)]],
              [tokens |-> toks, buf_pos |-> 0])
  /\ buffer_pos' = 0

(* The lookahead_buffer of the lexer is the innermost record.              *)
Recorded(toks) ==
  IF lookaheads = << >> THEN lookaheads
  ELSE [lookaheads EXCEPT ![Len(lookaheads)] = @ \o toks]

(* Mutant of TakeAbove: buffer_pos is not advanced.                        *)
TakeAboveAgain(k) ==
  /\ delivered' = open_buffers[k].tokens[pos(k) + 1]
  /\ open_buffers' = SubSeq(open_buffers, 1, k)
  /\ buffer_pos' = pos(k)
  /\ UNCHANGED fresh

(* Deliver from buffer k, after popping the exhausted ones on top of it.   *)
TakeAbove(k) ==
  /\ delivered' = open_buffers[k].tokens[pos(k) + 1]
  /\ open_buffers' = SubSeq(open_buffers, 1, k)
  /\ buffer_pos' = pos(k) + 1
  /\ UNCHANGED fresh

(* Deliver from the files and macros, all buffers being exhausted.         *)
TakeBelow ==
  /\ fresh < MaxReads
  /\ delivered' = fresh + 1
  /\ fresh' = fresh + 1
  /\ open_buffers' = << >>
  /\ UNCHANGED buffer_pos

RecordRoom ==
  lookaheads # << >> => Len(lookaheads[Len(lookaheads)]) < MaxRecord

Take ==
  /\ RecordRoom
  /\ \E k \in 0..Len(open_buffers) :
       /\ \A i \in (k + 1)..Len(open_buffers) : Exhausted(i)
       /\ \/ k > 0 /\ ~Exhausted(k) /\ TakeAbove(k)
          \/ k = 0 /\ TakeBelow

-----------------------------------------------------------------------------
(* The operations.                                                         *)

get_token ==
  /\ phase # "scanning"
  /\ Take
  /\ phase' = "idle"
  /\ lookaheads' = Recorded(<<delivered'>>)
  /\ UNCHANGED marks

(* look_ahead::look_ahead, as read_referencers uses it.                    *)
look_ahead ==
  /\ phase = "idle"
  /\ Len(lookaheads) < MaxMarks /\ RecordRoom
  /\ lookaheads' = Append(lookaheads, << >>)
  /\ marks' = Append(marks, Cursor)
  /\ UNCHANGED <<fresh, open_buffers, buffer_pos, phase, delivered>>

(* Mutant of rewind: an empty record is pushed, too.                       *)
rewind_empty ==
  /\ phase # "rewound"
  /\ lookaheads # << >>
  /\ Len(open_buffers) < MaxBuffers
  /\ lookaheads' = [lookaheads EXCEPT ![Len(lookaheads)] = << >>]
  /\ push_buffer(lookaheads[Len(lookaheads)])
  /\ phase' = "rewound"
  /\ UNCHANGED <<fresh, delivered, marks>>

rewind ==
  /\ phase # "rewound"
  /\ lookaheads # << >>
  /\ Len(open_buffers) < MaxBuffers
  /\ IF lookaheads[Len(lookaheads)] = << >>
     THEN UNCHANGED <<open_buffers, buffer_pos, lookaheads, phase>>
     ELSE /\ lookaheads' = [lookaheads EXCEPT ![Len(lookaheads)] = << >>]
          /\ push_buffer(lookaheads[Len(lookaheads)])
          /\ phase' = "rewound"
  /\ UNCHANGED <<fresh, delivered, marks>>

(* Mutant of HandedOver: the record is dropped.                            *)
HandedOverDropped(outer, record) == outer

(* ~look_ahead leaves its record to the look-ahead it interrupted.         *)
HandedOver(outer, record) ==
  IF outer = << >> THEN outer ELSE [outer EXCEPT ![Len(outer)] = @ \o record]

end_look_ahead ==
  /\ phase # "rewound"
  /\ lookaheads # << >>
  /\ lookaheads' = HandedOver(SubSeq(lookaheads, 1, Len(lookaheads) - 1),
                              lookaheads[Len(lookaheads)])
  /\ marks' = SubSeq(marks, 1, Len(marks) - 1)
  /\ phase' = "idle"
  /\ UNCHANGED <<fresh, open_buffers, buffer_pos, delivered>>

-----------------------------------------------------------------------------
(* A functional cast, T(...), looks ahead for the closing parenthesis.     *)

(* The parenthesis was read already: it is pushed on the record.           *)
BeginCast ==
  /\ CastsParsed /\ phase = "idle" /\ delivered > 0
  /\ Len(lookaheads) < MaxMarks /\ RecordRoom
  /\ lookaheads' = Append(lookaheads, <<delivered>>)
  /\ phase' = "scanning"
  /\ marks' = Append(marks, delivered)
  /\ UNCHANGED <<fresh, open_buffers, buffer_pos, delivered>>

(* lb.push(get_next_token()): get_token records, and so does push.         *)
ScanCast ==
  /\ phase = "scanning"
  /\ Take
  /\ lookaheads' = Recorded(<<delivered', delivered'>>)
  /\ UNCHANGED <<phase, marks>>

Next ==
  \/ get_token
  \/ look_ahead
  \/ rewind
  \/ end_look_ahead
  \/ BeginCast
  \/ ScanCast

Spec == Init /\ [][Next]_vars

-----------------------------------------------------------------------------
(* Properties.                                                             *)

Buffers == [tokens : Seq(Nat \ {0}) \ {<< >>}, buf_pos : Nat]

(* Buffers are never empty (rewind returns early), tokens are of the       *)
(* stream, and every look-ahead has its mark.                              *)
TypeOK ==
  /\ fresh \in Nat
  /\ open_buffers \in Seq(Buffers)
  /\ buffer_pos \in Nat
  /\ lookaheads \in Seq(Seq(Nat \ {0}))
  /\ phase \in {"idle", "scanning", "rewound"}
  /\ delivered \in Nat
  /\ marks \in Seq(Nat) /\ Len(marks) = Len(lookaheads)

(* A buffer holds consecutive tokens and is read no further than its end,  *)
(* and where it ends the next one below goes on.                           *)
BuffersAbut ==
  \A i \in 1..Len(open_buffers) :
    LET toks == open_buffers[i].tokens
    IN  /\ \A j \in 1..Len(toks) : toks[j] = First(i) + j - 1
        /\ pos(i) <= Len(toks)
        /\ First(i) + Len(toks) = Upcoming(i - 1)

(* The record of each look-ahead is what was read since it began, up to    *)
(* where the next one began: rewinding it returns to its mark.             *)
RecordsAbut ==
  \A i \in 1..Len(lookaheads) :
    /\ \A j \in 1..Len(lookaheads[i]) : lookaheads[i][j] = marks[i] + j - 1
    /\ marks[i] + Len(lookaheads[i])
         = IF i = Len(lookaheads) THEN Cursor ELSE marks[i + 1]

(* Reading never jumps over a token: what is delivered next is at most the *)
(* token after the last, whatever was rewound, nested or abandoned.        *)
NothingSkipped == [][delivered' <= delivered + 1]_vars

(* The parser sees one stream with a cursor that returns to its marks.     *)
Stream == INSTANCE TokenCursor WITH cursor <- Cursor

ImplementsCursor == Stream!Spec
=============================================================================
