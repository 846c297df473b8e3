--------------------------- MODULE MacroSubstitution ---------------------------
(***************************************************************************)
(* What the replacement list of a macro becomes: macro_type::componentize  *)
(* makes components of the list of a function-like macro once, for         *)
(* substitute_and_unroll to put the arguments of each call into; the list  *)
(* of an object-like macro goes through evaluate_concats                   *)
(* (src/System/macros.cpp 67-283).  The second part is what C++ makes of   *)
(* the list.                                                               *)
(*                                                                         *)
(* A token is its text, so that \o of two tokens pastes them.  White space *)
(* is left out: paste_tokens is never given any.  So are lists that are    *)
(* reported, with ## at an end or # before anything but a parameter, and   *)
(* __VA_OPT__, which falls through to the code of a parameter (102) and    *)
(* makes a span that ends before it begins.                                *)
(***************************************************************************)
EXTENDS Sequences, Integers, SequencesExt

(* No text.  The parameter of that name takes what is left of the          *)
(* arguments.                                                              *)
Empty == ""

Quote == "'"

(* macro_type.                                                             *)
macro_type(is_function, params, value) ==
  [is_function |-> is_function, params |-> params, value |-> value]

(* The parameter that a name stands for, or 0.                             *)
Index(mf, t) ==
  IF t = "__VA_ARGS__" THEN Len(mf.params)
  ELSE IF t \in Range(mf.params) /\ t # Empty
  THEN CHOOSE i \in DOMAIN mf.params : mf.params[i] = t
  ELSE 0

Holds(seq, i, t) == i \in DOMAIN seq /\ seq[i] = t

-----------------------------------------------------------------------------
(* macro_type::FuncComponent.  A span is cut into its tokens.              *)
Component(tag, token, index) == [tag |-> tag, token |-> token, index |-> index]

(* Mutant of Operand: the ## after a parameter is not seen.                *)
OperandBefore(value, i) == Holds(value, i - 1, "##")

(* An operand of ## takes its argument as it was written.                  *)
Operand(value, i) == Holds(value, i - 1, "##") \/ Holds(value, i + 1, "##")

(* What token i of the list becomes.                                       *)
ComponentOf(mf, i) ==
  LET t == mf.value[i]
  IN  IF t = "#" THEN << >>
      ELSE IF t = "##" THEN <<Component("PASTE", Empty, 0)>>
      ELSE IF Holds(mf.value, i - 1, "#") THEN <<Component("STRINGIFY", Empty, Index(mf, t))>>
      ELSE IF Index(mf, t) = 0 THEN <<Component("TOKEN_SPAN", t, 0)>>
      ELSE <<Component(IF Operand(mf.value, i) THEN "RAW_ARGUMENT" ELSE "EXPANDED_ARGUMENT",
                       Empty, Index(mf, t))>>

componentize(mf) == FlattenSeq([i \in 1..Len(mf.value) |-> ComponentOf(mf, i)])

Quoted(tokens) ==
  LET joined[i \in 0..Len(tokens)] ==
        IF i = 0 THEN Quote ELSE joined[i - 1] \o tokens[i]
  IN  joined[Len(tokens)] \o Quote

append_or_paste(dest, tokens, paste) ==
  IF paste /\ dest # << >> /\ tokens # << >>
  THEN Front(dest) \o <<Last(dest) \o Head(tokens)>> \o Tail(tokens)
  ELSE dest \o tokens

(* What a component adds; a call may have fewer arguments than parameters. *)
Added(part, args, evald) ==
  IF part.tag = "TOKEN_SPAN" THEN <<part.token>>
  ELSE IF part.index > Len(args) THEN << >>
  ELSE CASE part.tag = "RAW_ARGUMENT" -> args[part.index]
         [] part.tag = "EXPANDED_ARGUMENT" -> evald[part.index]
         [] part.tag = "STRINGIFY" -> <<Quoted(args[part.index])>>

substitute_and_unroll(mf, args, evald) ==
  LET parts == componentize(mf)
      after[i \in 0..Len(parts)] ==
        IF i = 0 THEN [res |-> << >>, paste_next |-> FALSE]
        ELSE IF parts[i].tag = "PASTE" THEN [after[i - 1] EXCEPT !.paste_next = TRUE]
        ELSE LET so_far == after[i - 1]
             IN  [res |-> append_or_paste(so_far.res, Added(parts[i], args, evald),
                                          so_far.paste_next),
                  paste_next |-> FALSE]
  IN  after[Len(parts)].res

evaluate_concats(mf) ==
  LET after[i \in 0..Len(mf.value)] ==
        IF i = 0 THEN << >>
        ELSE IF mf.value[i] = "##" THEN after[i - 1]
        ELSE append_or_paste(after[i - 1], <<mf.value[i]>>, Holds(mf.value, i - 1, "##"))
  IN  after[Len(mf.value)]

Substituted(mf, args, evald) ==
  IF mf.is_function THEN substitute_and_unroll(mf, args, evald)
  ELSE evaluate_concats(mf)

-----------------------------------------------------------------------------
(* [cpp.subst], [cpp.stringize] and [cpp.concat]: the list is a sequence   *)
(* of chains whose links are joined by ##.  A link is a token, or the      *)
(* argument of a parameter, which may be empty.                            *)

Links(mf) == {i \in DOMAIN mf.value : mf.value[i] \notin {"#", "##"}}

Link(mf, args, evald, i) ==
  LET p == Index(mf, mf.value[i])
      chained == Holds(mf.value, i + 1, "##") \/ Holds(mf.value, i - 1, "##")
  IN  IF p = 0 THEN <<mf.value[i]>>
      ELSE IF p > Len(args) THEN << >>
      ELSE IF Holds(mf.value, i - 1, "#") THEN <<Quoted(args[p])>>
      ELSE IF chained THEN args[p]
      ELSE evald[p]

Join(left, right) ==
  IF left = << >> \/ right = << >> THEN left \o right
  ELSE Front(left) \o <<Last(left) \o Head(right)>> \o Tail(right)

Linked(mf, i) ==
  \/ Holds(mf.value, i - 1, "##")
  \/ Holds(mf.value, i - 1, "#") /\ Holds(mf.value, i - 2, "##")

(* The chain from link i on.                                               *)
Chain(mf, args, evald) ==
  LET chain[i \in 1..Len(mf.value)] ==
        IF i \notin Links(mf) THEN chain[i + 1]
        ELSE IF Holds(mf.value, i + 1, "##")
        THEN Join(Link(mf, args, evald, i), chain[i + 2])
        ELSE Link(mf, args, evald, i)
  IN  chain

Replacement(mf, args, evald) ==
  FlattenSeq([i \in DOMAIN mf.value |->
    IF i \in Links(mf) /\ ~Linked(mf, i) THEN Chain(mf, args, evald)[i] ELSE << >>])

(* A chain that begins with an empty link, and is not the first: an empty  *)
(* operand clears paste_next, but not that of the next ##, which takes the *)
(* token before the chain (macros.cpp 190-194).                            *)
TakesTokenBefore(mf, args, evald) ==
  \E i \in Links(mf) :
    /\ ~Linked(mf, i) /\ Holds(mf.value, i + 1, "##")
    /\ Link(mf, args, evald, i) = << >>
    /\ \E j \in Links(mf) : j < i
=============================================================================
