----------------------------- MODULE Conditionals -----------------------------
(***************************************************************************)
(* Conditional inclusion in jdi::lexer: the stack "conditionals" that      *)
(* handle_preprocessor keeps, its loop that skips the text of a group      *)
(* whose condition is false, and the include stack that preprocess_and_    *)
(* read_token unwinds at the end of a file                                 *)
(* (src/System/lex_cpp.cpp 827-1173, 1417-1455, 1532-1565).                *)
(*                                                                         *)
(* The lexer has no lines.  What is read at a time is a directive, from a  *)
(* # wherever it stands to the end of what its case reads, or the text     *)
(* between two directives; which comes next is chosen by the environment,  *)
(* so every behaviour stands for a family of source files.  In a file with *)
(* no # within a line and none alone on its line these are the lines of    *)
(* C++; a # within a line is read as a directive here too, and what one    *)
(* alone on its line does is NullDirective.  The value of an #if           *)
(* expression is chosen by the environment as well.                        *)
(***************************************************************************)
EXTENDS Sequences, Integers

CONSTANTS
  Names,       \* the identifiers that #define, #undef and #ifdef mention
  MaxFiles,    \* the include limit of line 1097 (9000 in the code)
  MaxNesting,  \* bound: no #if is read with this many sections open
  Malformed    \* the inputs below that the environment may supply

(* The kinds of ill-formed input, and the legal one that the lexer reads   *)
(* as something else:                                                      *)
(*   else_after_else  a second #else in one section                        *)
(*   elif_after_else  an #elif, #elifdef or #elifndef after #else          *)
(*   nameless         an #ifdef or relative with no identifier after it    *)
(*   no_directive     a # that no identifier or number follows, on its     *)
(*                    line or the next                                     *)
(*   null_directive   a # alone on its line, which is legal                *)
(*   unbalanced       an included file that closes or changes a section    *)
(*                    its includer opened, or that ends inside a section   *)
(*                    of its own                                           *)
MalformedKinds == {"else_after_else", "elif_after_else", "nameless",
                   "no_directive", "null_directive", "unbalanced"}

ASSUME ConstantsAssumption ==
  /\ MaxFiles \in Nat
  /\ MaxNesting \in Nat
  /\ Malformed \subseteq MalformedKinds

VARIABLES
  conditionals,  \* lexer::conditionals, innermost last
  skipping,      \* TRUE in the skip loop of handle_preprocessor
  files,         \* lexer::files: how many sections were open when each
                 \* suspended file was entered
  entered,       \* the same number for the file being read
  eof,           \* the file being read has no more input
  macros,        \* the names in the macro map
  line,          \* history: the kind of what was read last
  fate           \* history: whether the last text was delivered

vars == <<conditionals, skipping, files, entered, eof, macros, line, fate>>

condition(t, pst) == [is_true |-> t, seen_else |-> FALSE, parents_true |-> pst]

(* parents_true is set while no group of the section was processed yet, so *)
(* only an #else can leave it set beside is_true.                          *)
Conditions ==
  {c \in [is_true : BOOLEAN, seen_else : BOOLEAN, parents_true : BOOLEAN] :
     c.is_true /\ c.parents_true => c.seen_else}

back == conditionals[Len(conditionals)]

Popped == SubSeq(conditionals, 1, Len(conditionals) - 1)

WithBack(c) == [conditionals EXCEPT ![Len(conditionals)] = c]

(* conditionals.empty() or conditionals.back().is_true                     *)
Live(cs) == cs = << >> \/ cs[Len(cs)].is_true

AllLive(cs) == \A i \in 1..Len(cs) : cs[i].is_true

(* Each member of the lexer holds values of its type, and a condition is   *)
(* one that the directives can make.                                       *)
TypeOK ==
  /\ conditionals \in Seq(Conditions)
  /\ skipping \in BOOLEAN
  /\ files \in Seq(Nat)
  /\ entered \in Nat
  /\ eof \in BOOLEAN
  /\ macros \subseteq Names
  /\ line \in {"none", "if", "elif", "else", "endif", "text", "other"}
  /\ fate \in {"none", "delivered", "dropped"}

Init ==
  /\ conditionals = << >>
  /\ skipping = FALSE
  /\ files = << >>
  /\ entered = 0
  /\ eof = FALSE
  /\ macros = {}
  /\ line = "none"
  /\ fate = "none"

-----------------------------------------------------------------------------
(* Reading a directive: the main loop and the skip loop both hand a # to   *)
(* the top of handle_preprocessor, and a directive that ends in "break"    *)
(* reaches the test that enters the skip loop or leaves it.                *)

Read(kind) ==
  /\ ~eof
  /\ line' = kind

Resume == skipping' = ~Live(conditionals')

KeepFiles == UNCHANGED <<files, entered, eof, fate>>

(* The environment keeps an included file from touching the sections of    *)
(* its includer unless such files are among the malformed inputs.          *)
OwnSection ==
  conditionals = << >> \/ entered < Len(conditionals) \/ "unbalanced" \in Malformed

(* Mutant of Pushed: a directive in a skipped group is evaluated.          *)
PushedUntested(cs, c) == Append(cs, condition(c, ~c))

(* Mutant of Pushed: parents_true only tells whether the parents are true. *)
PushedParents(cs, c) == Append(cs, condition(Live(cs) /\ c, Live(cs)))

Pushed(cs, c) ==
  Append(cs, IF Live(cs) THEN condition(c, ~c) ELSE condition(FALSE, FALSE))

(* #if                                                                     *)
If(c) ==
  /\ Read("if")
  /\ Len(conditionals) < MaxNesting
  /\ conditionals' = Pushed(conditionals, c)
  /\ Resume /\ KeepFiles
  /\ UNCHANGED macros

IfDef(name) == If(name \in macros)

IfNDef(name) == If(name \notin macros)

(* #ifdef or #ifndef with no identifier: an error, and nothing is pushed.  *)
IfDefNameless ==
  /\ "nameless" \in Malformed
  /\ Read("if")
  /\ UNCHANGED <<conditionals, macros>>
  /\ Resume /\ KeepFiles

(* What #elif, #elifdef and #elifndef share; opened is the stack that the  *)
(* jump to the case of #if, #ifdef or #ifndef leaves.                      *)
Alternative(opened) ==
  /\ Read("elif")
  /\ OwnSection
  /\ conditionals # << >> /\ back.seen_else => "elif_after_else" \in Malformed
  /\ conditionals' =
       IF conditionals = << >> THEN conditionals
       ELSE IF back.is_true
            THEN WithBack([back EXCEPT !.is_true = FALSE, !.parents_true = FALSE])
       ELSE IF back.parents_true THEN opened
       ELSE conditionals
  /\ Resume /\ KeepFiles
  /\ UNCHANGED macros

Elif(c) == Alternative(Pushed(Popped, c))

ElifDef(name) == Elif(name \in macros)

ElifNDef(name) == Elif(name \notin macros)

ElifDefNameless == "nameless" \in Malformed /\ Alternative(Popped)

(* Mutant of Negated: parents_true is not consulted.                       *)
NegatedAlways(c) == ~c.is_true

Negated(c) == c.parents_true /\ ~c.is_true

Else ==
  /\ Read("else")
  /\ OwnSection
  /\ conditionals # << >> /\ back.seen_else => "else_after_else" \in Malformed
  /\ conditionals' =
       IF conditionals = << >> THEN conditionals
       ELSE WithBack([back EXCEPT !.is_true = Negated(back), !.seen_else = TRUE])
  /\ Resume /\ KeepFiles
  /\ UNCHANGED macros

(* Mutant of EndIf: the case returns, so skipping is never resumed.        *)
EndIfReturns ==
  /\ Read("endif")
  /\ OwnSection
  /\ conditionals' = IF conditionals = << >> THEN conditionals ELSE Popped
  /\ skipping' = FALSE
  /\ KeepFiles
  /\ UNCHANGED macros

EndIf ==
  /\ Read("endif")
  /\ OwnSection
  /\ conditionals' = IF conditionals = << >> THEN conditionals ELSE Popped
  /\ Resume /\ KeepFiles
  /\ UNCHANGED macros

Define(name) ==
  /\ Read("other")
  /\ macros' = IF Live(conditionals) THEN macros \union {name} ELSE macros
  /\ UNCHANGED conditionals
  /\ Resume /\ KeepFiles

(* Mutant of Undef: executed in a skipped group too.                       *)
UndefUntested(name) ==
  /\ Read("other")
  /\ macros' = macros \ {name}
  /\ UNCHANGED conditionals
  /\ Resume /\ KeepFiles

Undef(name) ==
  /\ Read("other")
  /\ macros' = IF Live(conditionals) THEN macros \ {name} ELSE macros
  /\ UNCHANGED conditionals
  /\ Resume /\ KeepFiles

(* Mutant of IncludeRoom: off by one.                                      *)
IncludeRoomForOneMore == Len(files) <= MaxFiles + 1

(* The negation of files.size() > 9000.                                    *)
IncludeRoom == Len(files) <= MaxFiles

(* #include and #include_next.  A file that cannot be opened is an error   *)
(* and is entered all the same, as an empty file.                          *)
Include(found) ==
  /\ Read("other")
  /\ IF Live(conditionals) /\ IncludeRoom
     THEN /\ files' = Append(files, entered)
          /\ entered' = Len(conditionals)
          /\ eof' = ~found
     ELSE UNCHANGED <<files, entered, eof>>
  /\ UNCHANGED <<conditionals, macros, fate>>
  /\ Resume

(* #error, #warning, #pragma, #line, #import, #using and unknown names.    *)
OtherDirective ==
  /\ Read("other")
  /\ UNCHANGED <<conditionals, macros>>
  /\ Resume /\ KeepFiles

(* A # alone on its line, before a line that begins with a name or number: *)
(* the newline is passed over, the name is taken for that of the directive *)
(* and, when it is unknown, its line is dropped.  A line that begins with  *)
(* the name of a directive becomes that directive: the other actions.      *)
NullDirective ==
  /\ "null_directive" \in Malformed
  /\ Read("text")
  /\ fate' = "dropped"
  /\ UNCHANGED <<conditionals, files, entered, eof, macros>>
  /\ Resume

(* A # with no identifier after it, on the next line neither:              *)
(* handle_preprocessor returns at once, before the test that would resume  *)
(* skipping.                                                               *)
NoDirective ==
  /\ "no_directive" \in Malformed
  /\ Read("other")
  /\ skipping' = FALSE
  /\ KeepFiles
  /\ UNCHANGED <<conditionals, macros>>

(* Text up to the next #: the skip loop drops it, the main loop returns it.*)
Text ==
  /\ Read("text")
  /\ fate' = IF skipping THEN "dropped" ELSE "delivered"
  /\ UNCHANGED <<conditionals, skipping, files, entered, eof, macros>>

-----------------------------------------------------------------------------
(* The end of a file.                                                      *)

(* The reader runs out of input.  A balanced file has closed its sections. *)
ReachEnd ==
  /\ ~eof
  /\ files # << >> => entered = Len(conditionals) \/ "unbalanced" \in Malformed
  /\ eof' = TRUE
  /\ line' = "other"
  /\ UNCHANGED <<conditionals, skipping, files, entered, macros, fate>>

(* The skip loop meets TT_ENDOFCODE: an error, and back to the main loop.  *)
EndInSkip ==
  /\ eof /\ skipping
  /\ skipping' = FALSE
  /\ line' = "other"
  /\ UNCHANGED <<conditionals, files, entered, eof, macros, fate>>

(* pop_file from the main loop; with no file suspended, TT_ENDOFCODE is    *)
(* returned, and again on every later call.                                *)
pop_file ==
  /\ eof /\ ~skipping
  /\ IF files = << >>
     THEN UNCHANGED <<files, entered, eof>>
     ELSE /\ entered' = files[Len(files)]
          /\ files' = SubSeq(files, 1, Len(files) - 1)
          /\ eof' = FALSE
  /\ line' = "other"
  /\ UNCHANGED <<conditionals, skipping, macros, fate>>

Directive ==
  \/ \E c \in BOOLEAN : If(c) \/ Elif(c)
  \/ \E name \in Names :
       \/ IfDef(name) \/ IfNDef(name) \/ ElifDef(name) \/ ElifNDef(name)
       \/ Define(name) \/ Undef(name)
  \/ IfDefNameless \/ ElifDefNameless
  \/ Else
  \/ EndIf
  \/ \E found \in BOOLEAN : Include(found)
  \/ OtherDirective
  \/ NoDirective

Next ==
  \/ Directive
  \/ NullDirective
  \/ Text
  \/ ReachEnd
  \/ EndInSkip
  \/ pop_file

Spec == Init /\ [][Next]_vars

-----------------------------------------------------------------------------
(* Properties.                                                             *)

(* A section that is being processed, or whose later groups still may be,  *)
(* sits in groups that are all processed: the single flag handle_          *)
(* preprocessor tests (back().is_true, line 1163) stands for the stack.    *)
Enclosed(cs) ==
  \A i, j \in 1..Len(cs) :
    j < i /\ (cs[i].is_true \/ cs[i].parents_true) => cs[j].is_true

EnclosingLive == Enclosed(conditionals)

(* The main loop (lines 1417-1455) reads a file only while every open      *)
(* section is live, and the skip loop only while one is not.               *)
MainLoopLive == ~eof => (skipping <=> ~AllLive(conditionals))

(* A directive in a skipped group defines, undefines and includes nothing, *)
(* whichever enclosing section it is that is not live.                     *)
SkippedInert ==
  [][macros' # macros \/ Len(files') > Len(files) => AllLive(conditionals)]_vars

(* Every include that was entered is within the limit of line 1097, which  *)
(* tests before the push: one more than MaxFiles files can be suspended.   *)
IncludeDepth == Len(files) <= MaxFiles + 1

(* The encoding of a section in a condition: a group is done when it is    *)
(* live or when neither it nor a later group may become so.                *)
SectionOf(c) == [live |-> c.is_true, done |-> c.is_true \/ ~c.parents_true,
                 final |-> c.seen_else]

SectionsOf(cs) == [i \in 1..Len(cs) |-> SectionOf(cs[i])]

Sections == INSTANCE ConditionalSections WITH sections <- SectionsOf(conditionals)

(* The lexer delivers and drops the lines of text that conditional         *)
(* inclusion promises, whatever the well-formed input.  The promise is     *)
(* about lines, and holds of files where a line is what is read at a time. *)
ImplementsSections == Sections!Spec
=============================================================================
