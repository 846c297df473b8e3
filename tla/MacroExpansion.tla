---------------------------- MODULE MacroExpansion ----------------------------
(***************************************************************************)
(* Macro expansion in jdi::lexer: preprocess_and_read_token takes tokens   *)
(* from the buffers that entered macros left and then from the file, and   *)
(* handle_macro enters object-like macros and calls function-like ones.    *)
(* parse_macro_function reads the arguments raw and expands each of them   *)
(* by calling preprocess_and_read_token again, on a frozen buffer that     *)
(* holds the argument (src/System/lex_cpp.cpp 166-169, 584-673, 1227-1249, *)
(* 1397-1455, 1477-1565).                                                  *)
(*                                                                         *)
(* What the files contain is chosen by the environment as it is read.      *)
(* White space is left out.  A directive is read as one token, "#".        *)
(***************************************************************************)
EXTENDS MacroSubstitution, FiniteSets

CONSTANTS
  Names,        \* the identifiers
  Definitions,  \* for each name the macros that #define may give it
  Programs,     \* the programs: the macros there are before and, for each
                \* place in the text of the files, the tokens that may be read
  TT_ENDOFCODE, \* the token at the end of what is read, which is no text
  MaxFiles,     \* bound: files suspended by #include
  MaxBuffers    \* bound: buffers open

Punctuation == {"(", ")", ","}

Tokens == Names \union Punctuation \union {"#", TT_ENDOFCODE}

NoMacro == macro_type(FALSE, <<"none">>, << >>)

(* A list that is not reported, and pastes no ##.  Parameters are names.   *)
WellFormed(mf) ==
  /\ mf.is_function \in BOOLEAN
  /\ ~mf.is_function => mf.params = << >>
  /\ mf.params \in Seq(STRING) /\ mf.value \in Seq(STRING \ {Empty})
  /\ "#" \notin Range(mf.params) /\ "##" \notin Range(mf.params)
  /\ \A i \in DOMAIN mf.value :
       /\ mf.value[i] = "##" =>
            1 < i /\ i < Len(mf.value) /\ mf.value[i + 1] # "##"
       /\ mf.value[i] = "#" =>
            mf.is_function /\ i < Len(mf.value) /\ mf.value[i + 1] \in Range(mf.params)

ASSUME ConstantsAssumption ==
  /\ Names \union Punctuation \union {"#", Quote} \subseteq STRING
  /\ Names \intersect (Punctuation \union {"#"}) = {} /\ TT_ENDOFCODE \notin STRING
  /\ MaxFiles \in Nat /\ MaxBuffers \in Nat
  /\ DOMAIN Definitions = Names
  /\ \A n \in Names : \A m \in Definitions[n] : WellFormed(m)
  /\ \A p \in Programs :
       /\ p.text \in Seq(SUBSET (Tokens \ {TT_ENDOFCODE}))
       /\ DOMAIN p.macros = Names
       /\ \A n \in Names : p.macros[n] = NoMacro \/ WellFormed(p.macros[n])

VARIABLES
  macros,        \* lexer::macros
  files,         \* how many files lexer::files holds
  eof,           \* the file being read has no more input
  text,          \* what is left of the text of the program
  open_buffers,  \* lexer::open_buffers, innermost last
  calls,         \* the calls of parse_macro_function in progress
  reading,       \* get_token was called and did not return
  delivered      \* what get_token returned last

vars == <<macros, files, eof, text, open_buffers, calls, reading, delivered>>

(* OpenBuffer.  kind tells how it came to be: "macro" for one with a       *)
(* macro_info, "frozen" for push_frozen_buffer(&arg) and "unread" for the  *)
(* token that was not the parenthesis of a call.                           *)
OpenBuffer(kind, macro, tokens) ==
  [kind |-> kind, macro |-> macro, tokens |-> tokens, buf_pos |-> 0]

(* A call of parse_macro_function: it looks for a parenthesis, reads the   *)
(* arguments or expands the last of evald.                                 *)
Call(name, mf) ==
  [name |-> name, mf |-> mf, stage |-> "paren", nestcnt |-> 1,
   args |-> IF mf.params # << >> THEN << << >> >> ELSE << >>, evald |-> << >>]

Init ==
  /\ \E p \in Programs : macros = p.macros /\ text = p.text
  /\ files = 0
  /\ eof = FALSE
  /\ open_buffers = << >>
  /\ calls = << >>
  /\ reading = FALSE
  /\ delivered = "none"

-----------------------------------------------------------------------------
(* Where a token comes from.                                               *)

(* Mutant of Exhausted: off by one, the last token is not delivered.       *)
ExhaustedEarly(buf) == buf.buf_pos + 1 >= Len(buf.tokens)

Exhausted(buf) == buf.buf_pos >= Len(buf.tokens)

(* Mutant of Poppable: pop_buffer does not look at is_frozen.              *)
PoppableFrozen(buf) == Exhausted(buf)

Poppable(buf) == Exhausted(buf) /\ buf.kind # "frozen"

(* k is the buffer on top once pop_buffer removed what it could.           *)
Settled(k) ==
  /\ \A i \in (k + 1)..Len(open_buffers) : Poppable(open_buffers[i])
  /\ k > 0 => ~Poppable(open_buffers[k])

(* read_token: with no file suspended, the end of the code comes again.    *)
FromFile(t) ==
  \/ /\ ~eof /\ text # << >> /\ t \in Head(text)
     /\ text' = Tail(text)
     /\ UNCHANGED eof
  \/ /\ t = TT_ENDOFCODE
     /\ eof' = TRUE
     /\ UNCHANGED text

(* The tokens that index k may deliver; 0 stands for the file.             *)
Readable(k) == IF k = 0 THEN Tokens ELSE Range(open_buffers[k].tokens) \union {TT_ENDOFCODE}

Read(k, t) ==
  IF k = 0 THEN FromFile(t)
  ELSE LET top == open_buffers[k]
       IN  /\ t = IF Exhausted(top) THEN TT_ENDOFCODE ELSE top.tokens[top.buf_pos + 1]
           /\ UNCHANGED <<eof, text>>

(* The buffers that are left when it did.                                  *)
After(k) ==
  [i \in 1..k |-> IF i = k /\ ~Exhausted(open_buffers[k])
                  THEN [open_buffers[k] EXCEPT !.buf_pos = @ + 1]
                  ELSE open_buffers[i]]

Inside(name, buffers) ==
  \E i \in 1..Len(buffers) : buffers[i].kind = "macro" /\ buffers[i].macro = name

Room == Len(open_buffers) < MaxBuffers

-----------------------------------------------------------------------------
(* Calling a macro function.                                               *)

(* Expand the next argument or, after the last, enter the macro.           *)
Expand(call, buffers, frames) ==
  LET next == Len(call.evald) + 1
  IN  IF next <= Len(call.args)
      THEN /\ open_buffers' =
                Append(buffers, OpenBuffer("frozen", call.name, call.args[next]))
           /\ calls' = Append(frames, [call EXCEPT !.stage = "expand",
                                                   !.evald = Append(@, << >>)])
      ELSE /\ open_buffers' =
                Append(buffers, OpenBuffer("macro", call.name,
                                           Substituted(call.mf, call.args, call.evald)))
           /\ calls' = frames

(* Mutant of BelowFrozen: only the buffer on top is popped.                *)
BelowFrozenTop(buffers) == Front(buffers)

(* pop_frozen_buffer: pop what is left above the frozen buffer, and it.    *)
BelowFrozen(buffers) ==
  LET frozen == {i \in 1..Len(buffers) : buffers[i].kind = "frozen"}
      last   == CHOOSE i \in frozen : \A j \in frozen : j <= i
  IN  SubSeq(buffers, 1, last - 1)

(* preprocess_and_read_token returns t, to get_token or to the innermost   *)
(* call, which is expanding an argument.                                   *)
Return(t, buffers, frames) ==
  IF frames = << >>
  THEN /\ delivered' = t
       /\ reading' = FALSE
       /\ open_buffers' = buffers
       /\ calls' = frames
  ELSE LET call == Last(frames)
       IN  /\ IF t = TT_ENDOFCODE
              THEN Expand(call, BelowFrozen(buffers), Front(frames))
              ELSE /\ open_buffers' = buffers
                   /\ calls' = Append(Front(frames),
                        [call EXCEPT !.evald[Len(call.evald)] = Append(@, t)])
           /\ UNCHANGED <<reading, delivered>>

(* Mutant of CallMacro: inside_macro is not asked.                         *)
CallMacroInside(t, buffers) ==
  /\ t \in Names /\ macros[t].is_function
  /\ calls' = Append(calls, Call(t, macros[t]))
  /\ open_buffers' = buffers
  /\ UNCHANGED <<reading, delivered>>

CallMacro(t, buffers) ==
  /\ t \in Names /\ macros[t].is_function /\ ~Inside(t, buffers)
  /\ calls' = Append(calls, Call(t, macros[t]))
  /\ open_buffers' = buffers
  /\ UNCHANGED <<reading, delivered>>

Scalar(t) == t \in Names /\ macros[t] # NoMacro /\ ~macros[t].is_function

(* Mutant of MayEnter: inside_macro is not asked.                          *)
MayEnterInside(t, buffers) == Scalar(t)

MayEnter(t, buffers) == Scalar(t) /\ ~Inside(t, buffers)

EnterMacro(t, buffers) ==
  /\ MayEnter(t, buffers)
  /\ open_buffers' =
       IF macros[t].value = << >> THEN buffers
       ELSE Append(buffers, OpenBuffer("macro", t, Substituted(macros[t], << >>, << >>)))
  /\ UNCHANGED <<calls, reading, delivered>>

(* handle_macro has nothing to do with the token, and it is returned.      *)
Leave(t, buffers) ==
  /\ t \in Names => \/ macros[t] = NoMacro
                    \/ Inside(t, buffers)
  /\ Return(t, buffers, calls)

-----------------------------------------------------------------------------
(* The loop of preprocess_and_read_token.                                  *)

Preprocessing == reading /\ (calls # << >> => Last(calls).stage = "expand")

Preprocess ==
  /\ Preprocessing /\ Room
  /\ \E k \in 0..Len(open_buffers) : \E t \in Readable(k) :
       /\ Settled(k)
       /\ k = 0 => t \notin {"#", TT_ENDOFCODE}
       /\ Read(k, t)
       /\ EnterMacro(t, After(k)) \/ CallMacro(t, After(k)) \/ Leave(t, After(k))
  /\ UNCHANGED <<macros, files>>

(* A directive of the file: handle_preprocessor.                           *)
Directive ==
  /\ Preprocessing /\ Settled(0) /\ ~eof
  /\ text # << >> /\ "#" \in Head(text)
  /\ text' = Tail(text)
  /\ \/ /\ \E n \in Names : \E m \in Definitions[n] \union {NoMacro} :
             macros' = [macros EXCEPT ![n] = m]
        /\ UNCHANGED <<files, eof>>
     \/ /\ files < MaxFiles
        /\ files' = files + 1
        /\ eof' \in BOOLEAN
        /\ UNCHANGED macros
  /\ open_buffers' = << >>
  /\ UNCHANGED <<calls, reading, delivered>>

(* Mutant of EndOfFile: files.empty() is not tested.                       *)
EndOfFileUntested ==
  /\ Preprocessing /\ Settled(0)
  /\ files' = files - 1
  /\ eof' = FALSE
  /\ open_buffers' = << >>
  /\ UNCHANGED <<macros, text, calls, reading, delivered>>

(* The end of a file; pop_file goes back to the one that included it.      *)
EndOfFile ==
  /\ Preprocessing /\ Settled(0)
  /\ IF files > 0
     THEN /\ files' = files - 1
          /\ eof' = FALSE
          /\ open_buffers' = << >>
          /\ UNCHANGED <<calls, reading, delivered>>
     ELSE /\ eof' = TRUE
          /\ Return(TT_ENDOFCODE, << >>, calls)
          /\ UNCHANGED files
  /\ UNCHANGED <<macros, text>>

-----------------------------------------------------------------------------
(* The loops of parse_macro_function that read_raw feeds.                  *)

Calling(stage) == calls # << >> /\ Last(calls).stage = stage

Unread(t) == OpenBuffer("unread", Empty, <<t>>)

FindParenthesis ==
  /\ Calling("paren") /\ Room
  /\ \E k \in 0..Len(open_buffers) : \E t \in Readable(k) :
       /\ Settled(k) /\ Read(k, t)
       /\ IF t = "("
          THEN /\ calls' = Append(Front(calls), [Last(calls) EXCEPT !.stage = "arguments"])
               /\ open_buffers' = After(k)
               /\ UNCHANGED <<reading, delivered>>
          ELSE Return(Last(calls).name, Append(After(k), Unread(t)), Front(calls))
  /\ UNCHANGED <<macros, files>>

(* args with one more token in the last argument.                          *)
WithToken(args, t) ==
  IF args = << >> THEN << <<t>> >> ELSE [args EXCEPT ![Len(args)] = Append(@, t)]

(* The call after a token of its arguments.                                *)
WithArgument(call, t) ==
  IF t = "," /\ call.nestcnt = 1 /\ Len(call.args) < Len(call.mf.params)
  THEN [call EXCEPT !.args = Append(@, << >>)]
  ELSE [call EXCEPT !.args = WithToken(@, t),
                    !.nestcnt = IF t = "(" THEN @ + 1
                                ELSE IF t = ")" THEN @ - 1 ELSE @]

ReadArgument ==
  /\ Calling("arguments") /\ Room
  /\ \E k \in 0..Len(open_buffers) : \E t \in Readable(k) :
       /\ Settled(k) /\ Read(k, t)
       /\ IF t = TT_ENDOFCODE THEN Return(Last(calls).name, After(k), Front(calls))
          ELSE IF t = ")" /\ Last(calls).nestcnt = 1
          THEN /\ Expand(Last(calls), After(k), Front(calls))
               /\ UNCHANGED <<reading, delivered>>
          ELSE /\ calls' = Append(Front(calls), WithArgument(Last(calls), t))
               /\ open_buffers' = After(k)
               /\ UNCHANGED <<reading, delivered>>
  /\ UNCHANGED <<macros, files>>

get_token ==
  /\ ~reading
  /\ reading' = TRUE
  /\ UNCHANGED <<macros, files, eof, text, open_buffers, calls, delivered>>

Lex == Preprocess \/ Directive \/ EndOfFile \/ FindParenthesis \/ ReadArgument

Next == get_token \/ Lex

Spec == Init /\ [][Next]_vars /\ WF_vars(Lex)

-----------------------------------------------------------------------------
(* Properties.                                                             *)

(* The state of the lexer is of its types: nothing counts below zero, no   *)
(* call has more arguments than parameters, and no buffer is read beyond   *)
(* its end.                                                                *)
TypeOK ==
  /\ DOMAIN macros = Names
  /\ files \in Nat /\ eof \in BOOLEAN /\ text \in Seq(SUBSET Tokens)
  /\ \A i \in DOMAIN open_buffers :
       LET buf == open_buffers[i]
       IN  /\ buf.kind \in {"macro", "frozen", "unread"}
           /\ buf.macro \in Names \union {Empty}
           /\ buf.buf_pos \in 0..Len(buf.tokens)
  /\ \A i \in DOMAIN calls :
       LET call == calls[i]
       IN  /\ call.name \in Names /\ call.mf.is_function
           /\ call.stage \in {"paren", "arguments", "expand"}
           /\ call.nestcnt \in Nat \ {0}
           /\ Len(call.evald) <= Len(call.args)
           /\ Len(call.args) <= Len(call.mf.params) + (IF call.mf.params = << >> THEN 1 ELSE 0)
  /\ reading \in BOOLEAN

(* "Per ISO, a macro may not appear twice in this stack" (lex_cpp.h 144),  *)
(* however its calls nest and whatever buffers they outlive.               *)
NoMacroTwice ==
  \A i, j \in 1..Len(open_buffers) :
    i # j /\ open_buffers[i].kind = "macro" /\ open_buffers[j].kind = "macro"
      => open_buffers[i].macro # open_buffers[j].macro

FrozenBuffers == {i \in 1..Len(open_buffers) : open_buffers[i].kind = "frozen"}

(* Each call that expands an argument has one frozen buffer, the calls in  *)
(* the order of the buffers, and it holds the argument being expanded.     *)
CallsFrozen ==
  LET expanding == {c \in 1..Len(calls) : calls[c].stage = "expand"}
  IN  /\ Cardinality(FrozenBuffers) = Cardinality(expanding)
      /\ \A i \in FrozenBuffers :
           LET c == Cardinality({j \in FrozenBuffers : j <= i})
           IN  /\ c \in expanding
               /\ open_buffers[i].tokens = calls[c].args[Len(calls[c].evald)]

(* While an argument is expanded no token comes from outside of it, "as if *)
(* they formed the rest of the preprocessing file with no other            *)
(* preprocessing tokens being available" (lex_cpp.cpp 649-650): the        *)
(* buffers below the frozen one, the file and the macros are not touched.  *)
ArgumentsIsolated ==
  [][\A i \in FrozenBuffers :
       /\ SubSeq(open_buffers', 1, i - 1) = SubSeq(open_buffers, 1, i - 1)
       /\ UNCHANGED <<macros, files, eof, text>>]_vars

(* A frozen buffer is popped only when it and all above it were read: the  *)
(* expansion of an argument loses no token of it.                          *)
NothingLost ==
  [][\A i \in FrozenBuffers :
       Len(open_buffers') < i \/ open_buffers'[i].kind # "frozen"
         => \A j \in i..Len(open_buffers) :
              \/ open_buffers[j].buf_pos = Len(open_buffers[j].tokens)
              \/ open_buffers[j] = Unread(TT_ENDOFCODE)]_vars

(* A macro is entered with the replacement list that C++ makes of it: the  *)
(* arguments of a call as they were written beside # and ##, and fully     *)
(* expanded elsewhere; but for chains of ## that take the token before.    *)
Entered ==
  /\ open_buffers' # << >> /\ open_buffers' # open_buffers
  /\ Last(open_buffers').kind = "macro" /\ Last(open_buffers').buf_pos = 0

ReplacedAsWritten ==
  [][Entered =>
       LET new == Last(open_buffers')
           call == IF calls' = calls THEN Call(new.macro, macros[new.macro]) ELSE Last(calls)
       IN  \/ TakesTokenBefore(call.mf, call.args, call.evald)
           \/ new.tokens = Replacement(call.mf, call.args, call.evald)]_vars

(* get_token returns, however the macros refer to each other.              *)
Terminates == reading ~> ~reading
=============================================================================
