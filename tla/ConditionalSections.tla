------------------------- MODULE ConditionalSections -------------------------
(***************************************************************************)
(* What conditional inclusion promises to whoever polls the lexer, stated  *)
(* without the lexer's encoding.  An if-section is open from its #if to    *)
(* its #endif and consists of groups; a section has                        *)
(*   live   TRUE when the group being read is the one to process,          *)
(*   done   TRUE when no later group of the section may be processed,      *)
(*   final  TRUE once its #else was read.                                  *)
(* A line of text reaches the caller exactly when every open section is    *)
(* live.                                                                   *)
(***************************************************************************)
EXTENDS Sequences, Integers

VARIABLES
  sections,  \* the open if-sections, outermost first
  line,      \* the kind of the last line read
  fate       \* what became of the last line of text: delivered or dropped

vars == <<sections, line, fate>>

Section(live, done, final) == [live |-> live, done |-> done, final |-> final]

Innermost == sections[Len(sections)]

Outer == SubSeq(sections, 1, Len(sections) - 1)

Processing == \A i \in 1..Len(sections) : sections[i].live

Init ==
  /\ sections = << >>
  /\ line = "none"
  /\ fate = "none"

(* #if, #ifdef, #ifndef: the first group is processed when its condition   *)
(* holds and the directive itself is in a processed group.                 *)
OpenSection(holds) ==
  /\ line' = "if"
  /\ sections' = Append(sections, Section(Processing /\ holds,
                                          Processing => holds, FALSE))
  /\ UNCHANGED fate

(* #elif and its relatives: the next group is processed when no earlier    *)
(* one was and its condition holds.                                        *)
NextGroup(holds) ==
  /\ line' = "elif"
  /\ sections # << >>
  /\ ~Innermost.final
  /\ sections' = Append(Outer, Section(~Innermost.done /\ holds,
                                       Innermost.done \/ holds, FALSE))
  /\ UNCHANGED fate

(* #else: the last group is processed when no earlier one was.             *)
LastGroup ==
  /\ line' = "else"
  /\ sections # << >>
  /\ ~Innermost.final
  /\ sections' = Append(Outer, Section(~Innermost.done, TRUE, TRUE))
  /\ UNCHANGED fate

CloseSection ==
  /\ line' = "endif"
  /\ sections # << >>
  /\ sections' = Outer
  /\ UNCHANGED fate

(* A directive that has no #if to belong to is diagnosed and ignored.      *)
StrayDirective ==
  /\ line' \in {"elif", "else", "endif"}
  /\ sections = << >>
  /\ UNCHANGED <<sections, fate>>

Text ==
  /\ line' = "text"
  /\ fate' = IF Processing THEN "delivered" ELSE "dropped"
  /\ UNCHANGED sections

Other ==
  /\ line' = "other"
  /\ UNCHANGED <<sections, fate>>

Next ==
  \/ \E holds \in BOOLEAN : OpenSection(holds) \/ NextGroup(holds)
  \/ LastGroup
  \/ CloseSection
  \/ StrayDirective
  \/ Text
  \/ Other

Spec == Init /\ [][Next]_vars
=============================================================================
