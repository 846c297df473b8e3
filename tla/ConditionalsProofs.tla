-------------------------- MODULE ConditionalsProofs --------------------------
(***************************************************************************)
(* Proofs about Conditionals.  The first part holds for any input; the     *)
(* second for input without bare hashes and unbalanced includes; the third *)
(* shows that for well-formed input the lexer implements                   *)
(* ConditionalSections.                                                    *)
(***************************************************************************)
EXTENDS Conditionals, SequenceTheorems, TLAPS

(* The flag of the innermost section speaks for all of them.               *)
LEMMA LiveIsAllLive ==
  ASSUME NEW cs \in Seq(Conditions), Enclosed(cs)
  PROVE  Live(cs) <=> AllLive(cs)
<1>1. CASE cs = << >>
  BY <1>1 DEF Live, AllLive
<1>2. CASE cs # << >>
  <2>1. Len(cs) \in 1..Len(cs)
    BY <1>2
  <2>2. QED
    BY <1>2, <2>1 DEF Live, AllLive, Enclosed
<1>3. QED
  BY <1>1, <1>2

LEMMA PushedProperties ==
  ASSUME NEW cs \in Seq(Conditions), Enclosed(cs), NEW c \in BOOLEAN
  PROVE  /\ Pushed(cs, c) \in Seq(Conditions)
         /\ Enclosed(Pushed(cs, c))
         /\ Len(Pushed(cs, c)) = Len(cs) + 1
         /\ \A i \in 1..Len(cs) : Pushed(cs, c)[i] = cs[i]
<1> DEFINE new == IF Live(cs) THEN condition(c, ~c) ELSE condition(FALSE, FALSE)
<1>1. new \in Conditions
  BY DEF Conditions, condition
<1>2. Pushed(cs, c) = Append(cs, new)
  BY DEF Pushed
<1>3. new.is_true \/ new.parents_true => AllLive(cs)
  BY LiveIsAllLive DEF condition
<1> HIDE DEF new
<1>4. /\ Append(cs, new) \in Seq(Conditions)
      /\ Len(Append(cs, new)) = Len(cs) + 1
      /\ \A i \in 1..Len(cs) : Append(cs, new)[i] = cs[i]
      /\ Append(cs, new)[Len(cs) + 1] = new
  BY <1>1
<1>5. Enclosed(Append(cs, new))
  <2> SUFFICES ASSUME NEW i \in 1..(Len(cs) + 1), NEW j \in 1..(Len(cs) + 1), j < i,
                      Append(cs, new)[i].is_true \/ Append(cs, new)[i].parents_true
               PROVE  Append(cs, new)[j].is_true
    BY <1>4 DEF Enclosed
  <2>1. j \in 1..Len(cs) /\ Append(cs, new)[j] = cs[j]
    BY <1>4
  <2>2. CASE i \in 1..Len(cs)
    BY <1>4, <2>1, <2>2 DEF Enclosed
  <2>3. CASE i = Len(cs) + 1
    BY <1>4, <1>3, <2>1, <2>3 DEF AllLive
  <2>4. QED
    BY <2>2, <2>3
<1>6. QED
  BY <1>2, <1>4, <1>5

LEMMA ShortenedProperties ==
  ASSUME NEW S, NEW s \in Seq(S), s # << >>
  PROVE  LET rest == SubSeq(s, 1, Len(s) - 1)
         IN  /\ rest \in Seq(S)
             /\ Len(rest) = Len(s) - 1
             /\ \A i \in 1..(Len(s) - 1) : rest[i] = s[i]
<1>1. PICK n \in Nat : n = Len(s) - 1
  OBVIOUS
<1>2. \A i \in 1..n : s[i] \in S
  BY <1>1
<1>3. /\ SubSeq(s, 1, n) \in Seq(S)
      /\ Len(SubSeq(s, 1, n)) = IF 1 <= n THEN n - 1 + 1 ELSE 0
      /\ \A i \in 1..(n - 1 + 1) : SubSeq(s, 1, n)[i] = s[1 + i - 1]
  BY <1>2, SubSeqProperties
<1>4. QED
  BY <1>1, <1>3

LEMMA PoppedProperties ==
  ASSUME NEW cs \in Seq(Conditions), cs # << >>, Enclosed(cs)
  PROVE  LET rest == SubSeq(cs, 1, Len(cs) - 1)
         IN  /\ rest \in Seq(Conditions)
             /\ Enclosed(rest)
             /\ Len(rest) = Len(cs) - 1
             /\ \A i \in 1..(Len(cs) - 1) : rest[i] = cs[i]
<1> DEFINE rest == SubSeq(cs, 1, Len(cs) - 1)
<1>1. Len(cs) \in Nat /\ Len(cs) > 0
  OBVIOUS
<1>2. /\ rest \in Seq(Conditions)
      /\ Len(rest) = Len(cs) - 1
      /\ \A i \in 1..(Len(cs) - 1) : rest[i] = cs[i]
  BY ShortenedProperties
<1> HIDE DEF rest
<1>3. Enclosed(rest)
  BY <1>1, <1>2 DEF Enclosed
<1>4. QED
  BY <1>2, <1>3 DEF rest

(* The innermost section may be revised freely as long as it does not come *)
(* to promise processing where it promised none.                           *)
LEMMA RevisedProperties ==
  ASSUME NEW cs \in Seq(Conditions), cs # << >>, Enclosed(cs),
         NEW new \in Conditions,
         new.is_true \/ new.parents_true
           => cs[Len(cs)].is_true \/ cs[Len(cs)].parents_true
  PROVE  LET revised == [cs EXCEPT ![Len(cs)] = new]
         IN  /\ revised \in Seq(Conditions)
             /\ Enclosed(revised)
             /\ Len(revised) = Len(cs)
             /\ revised[Len(cs)] = new
             /\ \A i \in 1..(Len(cs) - 1) : revised[i] = cs[i]
<1> DEFINE revised == [cs EXCEPT ![Len(cs)] = new]
<1>1. Len(cs) \in Nat /\ Len(cs) > 0
  OBVIOUS
<1>2. /\ revised \in Seq(Conditions)
      /\ Len(revised) = Len(cs)
      /\ revised[Len(cs)] = new
      /\ \A i \in 1..(Len(cs) - 1) : revised[i] = cs[i]
  BY <1>1
<1> HIDE DEF revised
<1>3. Enclosed(revised)
  <2> SUFFICES ASSUME NEW i \in 1..Len(cs), NEW j \in 1..Len(cs), j < i,
                      revised[i].is_true \/ revised[i].parents_true
               PROVE  revised[j].is_true
    BY <1>2 DEF Enclosed
  <2>1. j \in 1..(Len(cs) - 1) /\ revised[j] = cs[j]
    BY <1>1, <1>2
  <2>2. cs[i].is_true \/ cs[i].parents_true
    <3>1. CASE i = Len(cs)
      BY <1>2, <3>1
    <3>2. CASE i # Len(cs)
      BY <1>1, <1>2, <3>2
    <3>3. QED
      BY <3>1, <3>2
  <2>3. QED
    BY <2>1, <2>2 DEF Enclosed
<1>4. QED
  BY <1>2, <1>3 DEF revised

-----------------------------------------------------------------------------
(* Any input.                                                              *)

StackInv == TypeOK /\ EnclosingLive

(* The revisions that #elif and #else make of the innermost section.       *)
LEMMA Closed ==
  ASSUME NEW c \in Conditions
  PROVE  LET new == [c EXCEPT !.is_true = FALSE, !.parents_true = FALSE]
         IN  /\ new \in Conditions
             /\ new.is_true = FALSE
             /\ new.seen_else = c.seen_else
             /\ new.parents_true = FALSE
<1>1. c \in [is_true : BOOLEAN, seen_else : BOOLEAN, parents_true : BOOLEAN]
  BY DEF Conditions
<1>2. QED
  BY <1>1 DEF Conditions

LEMMA Reversed ==
  ASSUME NEW c \in Conditions
  PROVE  LET new == [c EXCEPT !.is_true = Negated(c), !.seen_else = TRUE]
         IN  /\ new \in Conditions
             /\ new.is_true = (c.parents_true /\ ~c.is_true)
             /\ new.seen_else = TRUE
             /\ new.parents_true = c.parents_true
<1>1. c \in [is_true : BOOLEAN, seen_else : BOOLEAN, parents_true : BOOLEAN]
  BY DEF Conditions
<1>2. Negated(c) \in BOOLEAN /\ Negated(c) = (c.parents_true /\ ~c.is_true)
  BY DEF Negated
<1>3. PICK b \in BOOLEAN : b = Negated(c)
  BY <1>2
<1>4. QED
  BY <1>1, <1>2, <1>3 DEF Conditions

LEMMA AlternativeStack ==
  ASSUME StackInv, NEW opened,
         conditionals # << >> => opened \in Seq(Conditions) /\ Enclosed(opened),
         Alternative(opened)
  PROVE  conditionals' \in Seq(Conditions) /\ Enclosed(conditionals')
<1> USE DEF StackInv, TypeOK, EnclosingLive
<1>1. CASE conditionals = << >>
  BY <1>1 DEF Alternative
<1>2. CASE conditionals # << >> /\ back.is_true
  <2> DEFINE new == [back EXCEPT !.is_true = FALSE, !.parents_true = FALSE]
  <2>1. new \in Conditions /\ ~new.is_true /\ ~new.parents_true
    <3>1. back \in Conditions
      BY <1>2 DEF back
    <3>2. QED
      BY <3>1, Closed
  <2>2. conditionals' = [conditionals EXCEPT ![Len(conditionals)] = new]
    BY <1>2 DEF Alternative, WithBack
  <2> HIDE DEF new
  <2>3. QED
    BY <1>2, <2>1, <2>2, RevisedProperties
<1>3. CASE conditionals # << >> /\ ~back.is_true
  BY <1>3 DEF Alternative
<1>4. QED
  BY <1>1, <1>2, <1>3

LEMMA ElseStack ==
  ASSUME StackInv, Else
  PROVE  conditionals' \in Seq(Conditions) /\ Enclosed(conditionals')
<1> USE DEF StackInv, TypeOK, EnclosingLive
<1>1. CASE conditionals = << >>
  BY <1>1 DEF Else
<1>2. CASE conditionals # << >>
  <2> DEFINE new == [back EXCEPT !.is_true = Negated(back), !.seen_else = TRUE]
  <2>1. /\ new \in Conditions
        /\ new.is_true \/ new.parents_true => back.parents_true
    <3>1. back \in Conditions
      BY <1>2 DEF back
    <3>2. QED
      BY <3>1, Reversed
  <2>2. conditionals' = [conditionals EXCEPT ![Len(conditionals)] = new]
    BY <1>2 DEF Else, WithBack
  <2> HIDE DEF new
  <2>3. QED
    BY <1>2, <2>1, <2>2, RevisedProperties DEF back
<1>3. QED
  BY <1>1, <1>2

(* #ifdef and #elifdef are an #if and an #elif over the macro map.         *)
LEMMA DirectiveForms ==
  ASSUME Directive
  PROVE  \/ \E c \in BOOLEAN : If(c) \/ Elif(c)
         \/ ElifDefNameless
         \/ Else
         \/ EndIf
         \/ \E name \in Names : Define(name) \/ Undef(name)
         \/ IfDefNameless
         \/ \E found \in BOOLEAN : Include(found)
         \/ OtherDirective
         \/ NoDirective
<1>1. ASSUME NEW name \in Names, IfDef(name) \/ IfNDef(name)
      PROVE  \E c \in BOOLEAN : If(c)
  <2>1. If(name \in macros) \/ If(name \notin macros)
    BY <1>1, Zenon DEF IfDef, IfNDef
  <2>2. (name \in macros) \in BOOLEAN /\ (name \notin macros) \in BOOLEAN
    OBVIOUS
  <2>3. QED
    BY <2>1, <2>2, Zenon
<1>2. ASSUME NEW name \in Names, ElifDef(name) \/ ElifNDef(name)
      PROVE  \E c \in BOOLEAN : Elif(c)
  <2>1. Elif(name \in macros) \/ Elif(name \notin macros)
    BY <1>2, Zenon DEF ElifDef, ElifNDef
  <2>2. (name \in macros) \in BOOLEAN /\ (name \notin macros) \in BOOLEAN
    OBVIOUS
  <2>3. QED
    BY <2>1, <2>2, Zenon
<1>3. QED
  BY <1>1, <1>2 DEF Directive

(* What every directive does to the stack.                                 *)
LEMMA StackStep ==
  ASSUME StackInv, [Next]_vars
  PROVE  conditionals' \in Seq(Conditions) /\ Enclosed(conditionals')
<1> USE DEF StackInv, TypeOK, EnclosingLive
<1>1. ASSUME NEW c \in BOOLEAN, If(c)
      PROVE  conditionals' \in Seq(Conditions) /\ Enclosed(conditionals')
  BY <1>1, PushedProperties DEF If
<1>2. conditionals # << >> => Popped \in Seq(Conditions) /\ Enclosed(Popped)
  BY PoppedProperties DEF Popped
<1>3. ASSUME NEW c \in BOOLEAN, Elif(c)
      PROVE  conditionals' \in Seq(Conditions) /\ Enclosed(conditionals')
  <2>1. conditionals # << >>
          => Pushed(Popped, c) \in Seq(Conditions) /\ Enclosed(Pushed(Popped, c))
    BY <1>2, PushedProperties
  <2>2. QED
    BY <1>3, <2>1, AlternativeStack DEF Elif
<1>4. CASE ElifDefNameless
  BY <1>2, <1>4, AlternativeStack DEF ElifDefNameless
<1>5. CASE Else
  BY <1>5, ElseStack
<1>6. CASE EndIf
  BY <1>2, <1>6 DEF EndIf
<1>7. ASSUME UNCHANGED conditionals
      PROVE  conditionals' \in Seq(Conditions) /\ Enclosed(conditionals')
  BY <1>7
<1>8. CASE \/ \E name \in Names : Define(name) \/ Undef(name)
           \/ IfDefNameless
           \/ OtherDirective
           \/ NoDirective
           \/ \E found \in BOOLEAN : Include(found)
           \/ NullDirective
           \/ Text
           \/ ReachEnd
           \/ EndInSkip
           \/ pop_file
           \/ UNCHANGED vars
  BY <1>7, <1>8 DEF Define, Undef, IfDefNameless, OtherDirective, NoDirective,
                     Include, NullDirective, Text, ReachEnd, EndInSkip, pop_file,
                     vars
<1> HIDE DEF StackInv, TypeOK, EnclosingLive
<1>9. CASE Directive
  BY <1>1, <1>3, <1>4, <1>5, <1>6, <1>8, <1>9, DirectiveForms
<1>10. QED
  BY <1>8, <1>9 DEF Next

(* What the directives have in common apart from the stack.                *)
LEMMA DirectiveFrame ==
  ASSUME Directive
  PROVE  /\ ~eof
         /\ skipping' \in BOOLEAN
         /\ "no_directive" \notin Malformed => skipping' = ~Live(conditionals')
         /\ line' \in {"if", "elif", "else", "endif", "other"}
         /\ fate' = fate
         /\ \/ macros' = macros
            \/ /\ Live(conditionals)
               /\ \E name \in Names : macros' \in {macros \union {name}, macros \ {name}}
         /\ \/ UNCHANGED <<files, entered, eof>>
            \/ /\ Live(conditionals) /\ IncludeRoom
               /\ conditionals' = conditionals
               /\ files' = Append(files, entered)
               /\ entered' = Len(conditionals)
               /\ eof' \in BOOLEAN
<1> USE DEF Read, Resume, KeepFiles
<1>1. ASSUME NEW c \in BOOLEAN, If(c) \/ Elif(c)
      PROVE  /\ ~eof /\ line' \in {"if", "elif"} /\ UNCHANGED macros
             /\ KeepFiles /\ Resume
  BY <1>1 DEF If, Elif, Alternative
<1>2. CASE ElifDefNameless \/ Else \/ EndIf \/ IfDefNameless \/ OtherDirective
  BY <1>2 DEF ElifDefNameless, Alternative, Else, EndIf, IfDefNameless, OtherDirective
<1>3. ASSUME NEW name \in Names, Define(name) \/ Undef(name)
      PROVE  /\ ~eof /\ line' = "other" /\ KeepFiles /\ Resume
             /\ \/ macros' = macros
                \/ /\ Live(conditionals)
                   /\ macros' \in {macros \union {name}, macros \ {name}}
  BY <1>3 DEF Define, Undef
<1>4. CASE \E found \in BOOLEAN : Include(found)
  BY <1>4 DEF Include
<1>5. CASE NoDirective
  BY <1>5 DEF NoDirective
<1>6. QED
  BY <1>1, <1>2, <1>3, <1>4, <1>5, DirectiveForms

LEMMA StackInvStep ==
  ASSUME StackInv, [Next]_vars
  PROVE  StackInv'
<1>1. conditionals' \in Seq(Conditions) /\ Enclosed(conditionals')
  BY StackStep
<1> USE DEF StackInv, TypeOK, EnclosingLive
<1>2. CASE Directive
  <2>1. files' \in Seq(Nat) /\ entered' \in Nat /\ eof' \in BOOLEAN
    <3>1. Len(conditionals) \in Nat /\ Append(files, entered) \in Seq(Nat)
      OBVIOUS
    <3>2. QED
      BY <1>2, <3>1, DirectiveFrame
  <2>2. macros' \subseteq Names
    BY <1>2, DirectiveFrame
  <2>3. QED
    BY <1>1, <1>2, <2>1, <2>2, DirectiveFrame
<1>3. CASE Text \/ NullDirective
  BY <1>1, <1>3 DEF Text, NullDirective, Read, Resume
<1>4. CASE ReachEnd \/ EndInSkip
  BY <1>1, <1>4 DEF ReachEnd, EndInSkip
<1>5. CASE pop_file
  <2>1. files # << >> => /\ files[Len(files)] \in Nat
                         /\ SubSeq(files, 1, Len(files) - 1) \in Seq(Nat)
    OBVIOUS
  <2>2. QED
    BY <1>1, <1>5, <2>1 DEF pop_file
<1>6. CASE UNCHANGED vars
  BY <1>6 DEF vars
<1>7. QED
  BY <1>2, <1>3, <1>4, <1>5, <1>6 DEF Next

(* The invariant holds in every reachable state: whatever the lines are, the
   lexer's stack holds conditions that the directives can make, and each live
   one is enclosed by live ones. *)
THEOREM Stack == Spec => []StackInv
<1>1. Init => StackInv
  <2> SUFFICES ASSUME Init PROVE StackInv
    OBVIOUS
  <2>1. TypeOK
    <3>1. << >> \in Seq(Conditions) /\ << >> \in Seq(Nat)
      OBVIOUS
    <3>2. QED
      BY <3>1 DEF Init, TypeOK
  <2>2. EnclosingLive
    BY DEF Init, EnclosingLive, Enclosed
  <2>3. QED
    BY <2>1, <2>2 DEF StackInv
<1>2. StackInv /\ [Next]_vars => StackInv'
  BY StackInvStep
<1>3. QED
  BY <1>1, <1>2, PTL DEF Spec

(* Whatever the input, every variable keeps its type: in particular a      *)
(* condition of the stack never has is_true and parents_true both set      *)
(* before its #else.                                                       *)
THEOREM TypeCorrect == Spec => []TypeOK
<1>1. StackInv => TypeOK
  BY DEF StackInv
<1>2. QED
  BY <1>1, Stack, PTL

(* Whatever the input, a section that is processed or still may be sits in *)
(* groups that are all processed.                                          *)
THEOREM EnclosingSectionsLive == Spec => []EnclosingLive
<1>1. StackInv => EnclosingLive
  BY DEF StackInv
<1>2. QED
  BY <1>1, Stack, PTL

(* Whatever the input, no directive in a skipped group touches the macro   *)
(* map or enters a file, although handle_preprocessor tests the innermost  *)
(* section only.                                                           *)
THEOREM SkippedGroupsInert == Spec => SkippedInert
<1>1. ASSUME StackInv, [Next]_vars, macros' # macros \/ Len(files') > Len(files)
      PROVE  AllLive(conditionals)
  <2> USE DEF StackInv, TypeOK, EnclosingLive
  <2>1. Live(conditionals)
    <3>1. CASE Directive
      BY <1>1, <3>1, DirectiveFrame
    <3>2. CASE NullDirective \/ Text \/ ReachEnd \/ EndInSkip \/ UNCHANGED vars
      BY <1>1, <3>2 DEF NullDirective, Text, ReachEnd, EndInSkip, vars
    <3>3. CASE pop_file
      <4>1. Len(files) \in Nat
        BY <1>1
      <4>2. files # << >> => Len(SubSeq(files, 1, Len(files) - 1)) < Len(files)
        BY <1>1
      <4>3. macros' = macros /\ ~(Len(files') > Len(files))
        <5>1. files' = files \/ (files # << >> /\ files' = SubSeq(files, 1, Len(files) - 1))
          BY <3>3 DEF pop_file
        <5>2. ~(Len(files') > Len(files))
          BY <4>1, <4>2, <5>1
        <5>3. QED
          BY <3>3, <5>2 DEF pop_file
      <4>4. QED
        BY <1>1, <4>3
    <3>4. QED
      BY <1>1, <3>1, <3>2, <3>3 DEF Next
  <2>2. QED
    BY <1>1, <2>1, LiveIsAllLive
<1>2. StackInv /\ [Next]_vars
        => [macros' # macros \/ Len(files') > Len(files) => AllLive(conditionals)]_vars
  BY <1>1
<1>3. QED
  BY <1>2, Stack, PTL DEF Spec, SkippedInert

(* Whatever the input, the include stack stays within its limit.           *)
THEOREM IncludesBounded == Spec => []IncludeDepth
<1> USE ConstantsAssumption
<1>1. Init => IncludeDepth
  BY DEF Init, IncludeDepth
<1>2. ASSUME StackInv, IncludeDepth, [Next]_vars
      PROVE  IncludeDepth'
  <2>1. files \in Seq(Nat) /\ Len(files) \in Nat /\ entered \in Nat /\ MaxFiles \in Nat
    BY <1>2 DEF StackInv, TypeOK
  <2>2. CASE Directive
    <3>1. CASE files' = files
      BY <1>2, <3>1 DEF IncludeDepth
    <3>2. CASE IncludeRoom /\ files' = Append(files, entered)
      BY <2>1, <3>2 DEF IncludeDepth, IncludeRoom
    <3>3. QED
      BY <2>2, <3>1, <3>2, DirectiveFrame
  <2>3. CASE NullDirective \/ Text \/ ReachEnd \/ EndInSkip \/ UNCHANGED vars
    BY <1>2, <2>3 DEF NullDirective, Text, ReachEnd, EndInSkip, vars, IncludeDepth
  <2>4. CASE pop_file /\ files = << >>
    BY <1>2, <2>4 DEF pop_file, IncludeDepth
  <2>5. CASE pop_file /\ files # << >>
    <3>1. files' = SubSeq(files, 1, Len(files) - 1)
      BY <2>5 DEF pop_file
    <3>2. Len(SubSeq(files, 1, Len(files) - 1)) < Len(files)
      BY <2>1, <2>5
    <3>3. QED
      BY <1>2, <2>1, <3>1, <3>2 DEF IncludeDepth
  <2>6. QED
    BY <1>2, <2>2, <2>3, <2>4, <2>5 DEF Next
<1>3. QED
  BY <1>1, <1>2, Stack, PTL DEF Spec

-----------------------------------------------------------------------------
(* Input in which an identifier follows every # and an included file       *)
(* closes the sections it opens, and no other.                             *)

(* The sections that were open when a file was entered are live, so only   *)
(* the sections of the file itself decide whether it is skipped; and when  *)
(* its input ends none of those is left.                                   *)
InStep ==
  /\ MainLoopLive
  /\ eof /\ files # << >> => ~skipping /\ AllLive(conditionals)
  /\ entered <= Len(conditionals)
  /\ \A i \in 1..entered : conditionals[i].is_true
  /\ \A i \in 1..Len(files) : files[i] <= entered
  /\ \A i, j \in 1..Len(files) : i <= j => files[i] <= files[j]

(* A directive leaves alone the sections its file did not open.            *)
LEMMA OuterSections ==
  ASSUME StackInv, InStep, "unbalanced" \notin Malformed, Directive
  PROVE  /\ entered <= Len(conditionals')
         /\ \A i \in 1..entered : conditionals'[i] = conditionals[i]
<1> DEFINE Kept(cs) == /\ entered <= Len(cs)
                       /\ \A i \in 1..entered : cs[i] = conditionals[i]
<1>1. /\ conditionals \in Seq(Conditions) /\ Enclosed(conditionals)
      /\ Len(conditionals) \in Nat /\ entered \in Nat /\ entered <= Len(conditionals)
  BY DEF StackInv, TypeOK, EnclosingLive, InStep
<1>2. Kept(conditionals)
  BY <1>1
<1>3. ASSUME NEW c \in BOOLEAN
      PROVE  Kept(Pushed(conditionals, c))
  BY <1>1, PushedProperties
<1>4. conditionals # << >> /\ entered < Len(conditionals)
        => /\ Popped \in Seq(Conditions) /\ Enclosed(Popped)
           /\ Len(Popped) = Len(conditionals) - 1
           /\ Kept(Popped)
  BY <1>1, PoppedProperties DEF Popped
<1>5. ASSUME NEW c \in BOOLEAN, conditionals # << >>, entered < Len(conditionals)
      PROVE  Kept(Pushed(Popped, c))
  <2>1. /\ Len(Pushed(Popped, c)) = Len(Popped) + 1
        /\ \A i \in 1..Len(Popped) : Pushed(Popped, c)[i] = Popped[i]
    BY <1>4, <1>5, PushedProperties
  <2>2. QED
    BY <1>1, <1>4, <1>5, <2>1
<1>6. ASSUME NEW c, conditionals # << >>, entered < Len(conditionals)
      PROVE  Kept(WithBack(c))
  BY <1>1, <1>6 DEF WithBack
<1> SUFFICES Kept(conditionals')
  OBVIOUS
<1> HIDE DEF Kept
<1>7. ASSUME NEW opened, Alternative(opened),
             conditionals # << >> /\ entered < Len(conditionals) => Kept(opened)
      PROVE  Kept(conditionals')
  BY <1>2, <1>6, <1>7 DEF Alternative, OwnSection
<1>8. CASE \E c \in BOOLEAN : If(c)
  BY <1>3, <1>8 DEF If
<1>9. CASE \E c \in BOOLEAN : Elif(c)
  BY <1>5, <1>7, <1>9 DEF Elif
<1>10. CASE ElifDefNameless
  BY <1>4, <1>7, <1>10 DEF ElifDefNameless
<1>11. CASE Else
  BY <1>2, <1>6, <1>11 DEF Else, OwnSection
<1>12. CASE EndIf
  BY <1>2, <1>4, <1>12 DEF EndIf, OwnSection
<1>13. CASE \/ \E name \in Names : Define(name) \/ Undef(name)
            \/ IfDefNameless
            \/ \E found \in BOOLEAN : Include(found)
            \/ OtherDirective
            \/ NoDirective
  <2>1. conditionals' = conditionals
    BY <1>13 DEF Define, Undef, IfDefNameless, Include, OtherDirective, NoDirective
  <2>2. QED
    BY <1>2, <2>1
<1>14. QED
  BY <1>8, <1>9, <1>10, <1>11, <1>12, <1>13, DirectiveForms

LEMMA InStepStep ==
  ASSUME StackInv, InStep, {"no_directive", "unbalanced"} \cap Malformed = {},
         [Next]_vars
  PROVE  InStep'
<1>1. /\ StackInv' /\ "unbalanced" \notin Malformed /\ "no_directive" \notin Malformed
  BY StackInvStep
<1>2. /\ conditionals \in Seq(Conditions) /\ conditionals' \in Seq(Conditions)
      /\ files \in Seq(Nat) /\ Len(files) \in Nat /\ Len(conditionals) \in Nat
      /\ entered \in Nat /\ eof \in BOOLEAN /\ skipping \in BOOLEAN
      /\ Live(conditionals) <=> AllLive(conditionals)
      /\ Live(conditionals') <=> AllLive(conditionals')
  BY <1>1, LiveIsAllLive DEF StackInv, TypeOK, EnclosingLive
<1>3. CASE Directive
  <2>1. /\ entered <= Len(conditionals')
        /\ \A i \in 1..entered : conditionals'[i] = conditionals[i]
    BY <1>1, <1>3, OuterSections
  <2>2. MainLoopLive'
    BY <1>1, <1>2, <1>3, DirectiveFrame DEF MainLoopLive
  <2>3. CASE UNCHANGED <<files, entered, eof>>
    BY <1>3, <2>1, <2>2, <2>3, DirectiveFrame DEF InStep
  <2>4. CASE /\ Live(conditionals)
             /\ conditionals' = conditionals
             /\ files' = Append(files, entered)
             /\ entered' = Len(conditionals)
    <3>1. skipping' = FALSE /\ AllLive(conditionals')
      BY <1>1, <1>2, <1>3, <2>4, DirectiveFrame
    <3>2. \A i \in 1..entered' : conditionals'[i].is_true
      BY <1>2, <2>4 DEF AllLive
    <3>3. /\ Len(files') = Len(files) + 1
          /\ files'[Len(files) + 1] = entered
          /\ \A i \in 1..Len(files) : files'[i] = files[i] /\ files[i] \in Nat
      BY <1>2, <2>4
    <3>4. /\ \A i \in 1..Len(files') : files'[i] <= entered'
          /\ \A i, j \in 1..Len(files') : i <= j => files'[i] <= files'[j]
      BY <1>2, <2>4, <3>3 DEF InStep
    <3>5. QED
      BY <1>2, <2>2, <2>4, <3>1, <3>2, <3>4 DEF InStep
  <2>5. QED
    BY <1>3, <2>3, <2>4, DirectiveFrame
<1>4. CASE Text \/ NullDirective
  <2>1. CASE Text
    BY <2>1 DEF Text, Read, InStep, MainLoopLive
  <2>2. CASE NullDirective
    <3>1. /\ UNCHANGED <<conditionals, files, entered, eof>> /\ ~eof
          /\ skipping' = ~Live(conditionals')
      BY <2>2 DEF NullDirective, Read, Resume
    <3>2. MainLoopLive'
      BY <1>2, <3>1 DEF MainLoopLive
    <3>3. QED
      BY <3>1, <3>2 DEF InStep
  <2>3. QED
    BY <1>4, <2>1, <2>2
<1>5. CASE ReachEnd
  <2>1. files # << >> => entered = Len(conditionals)
    BY <1>1, <1>5 DEF ReachEnd
  <2>2. files # << >> => AllLive(conditionals) /\ ~skipping
    BY <1>2, <1>5, <2>1 DEF ReachEnd, InStep, AllLive, MainLoopLive
  <2>3. QED
    BY <1>5, <2>2 DEF ReachEnd, InStep, MainLoopLive
<1>6. CASE EndInSkip
  BY <1>6 DEF EndInSkip, InStep, MainLoopLive
<1>7. CASE pop_file /\ files = << >>
  BY <1>7 DEF pop_file, InStep, MainLoopLive
<1>8. CASE pop_file /\ files # << >>
  <2>1. /\ conditionals' = conditionals /\ skipping' = skipping /\ eof' = FALSE
        /\ files' = SubSeq(files, 1, Len(files) - 1)
        /\ entered' = files[Len(files)]
        /\ ~skipping /\ AllLive(conditionals)
    BY <1>8 DEF pop_file, InStep
  <2>2. Len(files) \in 1..Len(files)
    BY <1>2, <1>8
  <2>3. entered' <= entered /\ entered' \in Nat
    BY <1>2, <2>1, <2>2 DEF InStep
  <2>4. /\ Len(files') = Len(files) - 1
        /\ \A i \in 1..Len(files') : files'[i] = files[i]
    BY <1>2, <1>8, <2>1, ShortenedProperties
  <2>5. /\ \A i \in 1..Len(files') : files'[i] <= entered'
        /\ \A i, j \in 1..Len(files') : i <= j => files'[i] <= files'[j]
    <3>1. \A i \in 1..Len(files') : i \in 1..Len(files) /\ i <= Len(files) /\ files'[i] = files[i]
      BY <1>2, <2>4
    <3>2. \A i, j \in 1..Len(files) : i <= j => files[i] <= files[j]
      BY DEF InStep
    <3>3. \A i \in 1..Len(files') : files'[i] <= entered'
      BY <2>1, <2>2, <3>1, <3>2
    <3>4. QED
      BY <3>1, <3>2, <3>3
  <2>6. /\ entered' <= Len(conditionals')
        /\ \A i \in 1..entered' : conditionals'[i].is_true
    BY <1>2, <2>1, <2>3 DEF InStep
  <2>7. MainLoopLive'
    BY <2>1 DEF MainLoopLive
  <2>8. QED
    BY <2>1, <2>5, <2>6, <2>7 DEF InStep
<1>9. CASE UNCHANGED vars
  BY <1>9 DEF vars, InStep, MainLoopLive
<1>10. QED
  BY <1>3, <1>4, <1>5, <1>6, <1>7, <1>8, <1>9 DEF Next

(* The main loop reads a file exactly while every open section is live,    *)
(* for every input without nameless hashes and unbalanced includes.        *)
THEOREM SkipLoopInStep ==
  ASSUME {"no_directive", "unbalanced"} \cap Malformed = {}
  PROVE  Spec => []MainLoopLive
<1>1. Init => InStep
  BY DEF Init, InStep, MainLoopLive, AllLive
<1>2. StackInv /\ InStep /\ [Next]_vars => InStep'
  BY InStepStep
<1>3. InStep => MainLoopLive
  BY DEF InStep
<1>4. QED
  BY <1>1, <1>2, <1>3, Stack, PTL DEF Spec

-----------------------------------------------------------------------------
(* Well-formed input: the refinement.                                      *)

SectionRecords == [live : BOOLEAN, done : BOOLEAN, final : BOOLEAN]

LEMMA SectionType ==
  ASSUME NEW c \in Conditions
  PROVE  /\ SectionOf(c) \in SectionRecords
         /\ SectionOf(c).live = c.is_true
         /\ SectionOf(c).done = (c.is_true \/ ~c.parents_true)
         /\ SectionOf(c).final = c.seen_else
<1>1. c \in [is_true : BOOLEAN, seen_else : BOOLEAN, parents_true : BOOLEAN]
  BY DEF Conditions
<1>2. QED
  BY <1>1 DEF SectionOf, SectionRecords

LEMMA SectionsType ==
  ASSUME NEW cs \in Seq(Conditions)
  PROVE  /\ SectionsOf(cs) \in Seq(SectionRecords)
         /\ Len(SectionsOf(cs)) = Len(cs)
         /\ \A i \in 1..Len(cs) : SectionsOf(cs)[i] = SectionOf(cs[i])
<1>1. \A i \in 1..Len(cs) : SectionOf(cs[i]) \in SectionRecords
  BY SectionType
<1>2. QED
  BY <1>1 DEF SectionsOf

LEMMA SectionsOfPushed ==
  ASSUME NEW cs \in Seq(Conditions), NEW c \in Conditions
  PROVE  SectionsOf(Append(cs, c)) = Append(SectionsOf(cs), SectionOf(c))
<1> DEFINE longer == Append(cs, c)
           image == Append(SectionsOf(cs), SectionOf(c))
<1>1. /\ longer \in Seq(Conditions) /\ Len(longer) = Len(cs) + 1
      /\ \A i \in 1..Len(cs) : longer[i] = cs[i]
      /\ longer[Len(cs) + 1] = c
  OBVIOUS
<1>2. /\ SectionsOf(cs) \in Seq(SectionRecords) /\ Len(SectionsOf(cs)) = Len(cs)
      /\ \A i \in 1..Len(cs) : SectionsOf(cs)[i] = SectionOf(cs[i])
      /\ SectionOf(c) \in SectionRecords
  BY SectionsType, SectionType
<1>3. /\ image \in Seq(SectionRecords) /\ Len(image) = Len(cs) + 1
      /\ \A i \in 1..Len(cs) : image[i] = SectionsOf(cs)[i]
      /\ image[Len(cs) + 1] = SectionOf(c)
  BY <1>2
<1> HIDE DEF longer, image
<1>4. /\ SectionsOf(longer) \in Seq(SectionRecords)
      /\ Len(SectionsOf(longer)) = Len(cs) + 1
      /\ \A i \in 1..(Len(cs) + 1) : SectionsOf(longer)[i] = SectionOf(longer[i])
  BY <1>1, SectionsType
<1>5. ASSUME NEW i \in 1..(Len(cs) + 1)
      PROVE  SectionsOf(longer)[i] = image[i]
  <2>1. CASE i = Len(cs) + 1
    BY <1>1, <1>3, <1>4, <2>1
  <2>2. CASE i \in 1..Len(cs)
    BY <1>1, <1>2, <1>3, <1>4, <2>2
  <2>3. QED
    BY <2>1, <2>2
<1>6. SectionsOf(longer) = image
  BY <1>3, <1>4, <1>5, SeqEqual
<1>7. QED
  BY <1>6 DEF longer, image

LEMMA SectionsOfPopped ==
  ASSUME NEW cs \in Seq(Conditions), cs # << >>
  PROVE  LET outer == SubSeq(SectionsOf(cs), 1, Len(SectionsOf(cs)) - 1)
         IN  /\ SectionsOf(SubSeq(cs, 1, Len(cs) - 1)) = outer
             /\ \A c \in Conditions :
                  SectionsOf([cs EXCEPT ![Len(cs)] = c]) = Append(outer, SectionOf(c))
<1> DEFINE rest == SubSeq(cs, 1, Len(cs) - 1)
           outer == SubSeq(SectionsOf(cs), 1, Len(SectionsOf(cs)) - 1)
<1>1. Len(cs) \in Nat /\ Len(cs) > 0
  OBVIOUS
<1>2. /\ SectionsOf(cs) \in Seq(SectionRecords)
      /\ Len(SectionsOf(cs)) = Len(cs) /\ SectionsOf(cs) # << >>
      /\ \A i \in 1..Len(cs) : SectionsOf(cs)[i] = SectionOf(cs[i])
  BY <1>1, SectionsType
<1>3. /\ rest \in Seq(Conditions) /\ Len(rest) = Len(cs) - 1
      /\ \A i \in 1..(Len(cs) - 1) : rest[i] = cs[i]
  BY ShortenedProperties
<1>4. /\ outer \in Seq(SectionRecords) /\ Len(outer) = Len(cs) - 1
      /\ \A i \in 1..(Len(cs) - 1) : outer[i] = SectionsOf(cs)[i]
  BY <1>2, ShortenedProperties
<1> HIDE DEF rest, outer
<1>5. SectionsOf(rest) = outer
  <2>1. /\ SectionsOf(rest) \in Seq(SectionRecords)
        /\ Len(SectionsOf(rest)) = Len(cs) - 1
        /\ \A i \in 1..(Len(cs) - 1) : SectionsOf(rest)[i] = SectionOf(rest[i])
    BY <1>3, SectionsType
  <2>2. \A i \in 1..(Len(cs) - 1) : SectionsOf(rest)[i] = outer[i]
    BY <1>1, <1>2, <1>3, <1>4, <2>1
  <2>3. QED
    BY <1>4, <2>1, <2>2, SeqEqual
<1>6. ASSUME NEW c \in Conditions
      PROVE  SectionsOf([cs EXCEPT ![Len(cs)] = c]) = Append(outer, SectionOf(c))
  <2> DEFINE revised == [cs EXCEPT ![Len(cs)] = c]
  <2>1. /\ revised \in Seq(Conditions) /\ Len(revised) = Len(cs)
        /\ revised[Len(cs)] = c
        /\ \A i \in 1..(Len(cs) - 1) : revised[i] = cs[i]
    BY <1>1
  <2> HIDE DEF revised
  <2>2. /\ Append(outer, SectionOf(c)) \in Seq(SectionRecords)
        /\ Len(Append(outer, SectionOf(c))) = Len(cs)
        /\ Append(outer, SectionOf(c))[Len(cs)] = SectionOf(c)
        /\ \A i \in 1..(Len(cs) - 1) : Append(outer, SectionOf(c))[i] = outer[i]
    BY <1>1, <1>4, SectionType
  <2>3. /\ SectionsOf(revised) \in Seq(SectionRecords)
        /\ Len(SectionsOf(revised)) = Len(cs)
        /\ \A i \in 1..Len(cs) : SectionsOf(revised)[i] = SectionOf(revised[i])
    BY <2>1, SectionsType
  <2>4. \A i \in 1..Len(cs) : SectionsOf(revised)[i] = Append(outer, SectionOf(c))[i]
    <3> SUFFICES ASSUME NEW i \in 1..Len(cs)
                 PROVE  SectionsOf(revised)[i] = Append(outer, SectionOf(c))[i]
      OBVIOUS
    <3>1. CASE i = Len(cs)
      <4>1. SectionsOf(revised)[i] = SectionOf(revised[i])
        BY <2>3
      <4>2. QED
        BY <2>1, <2>2, <3>1, <4>1
    <3>2. CASE i \in 1..(Len(cs) - 1)
      <4>1. Append(outer, SectionOf(c))[i] = SectionOf(cs[i])
        BY <1>2, <1>4, <2>2, <3>2
      <4>2. SectionsOf(revised)[i] = SectionOf(cs[i])
        BY <2>1, <2>3, <3>2
      <4>3. QED
        BY <4>1, <4>2
    <3>3. i = Len(cs) \/ i \in 1..(Len(cs) - 1)
      BY <1>1
    <3>4. QED
      BY <3>1, <3>2, <3>3
  <2>5. SectionsOf(revised) = Append(outer, SectionOf(c))
    BY <2>2, <2>3, <2>4, SeqEqual
  <2>6. QED
    BY <2>5 DEF revised
<1>7. QED
  BY <1>5, <1>6 DEF rest, outer

LEMMA ProcessingIsAllLive ==
  ASSUME TypeOK
  PROVE  /\ Sections!Processing <=> AllLive(conditionals)
         /\ SectionsOf(conditionals) = << >> <=> conditionals = << >>
<1>1. /\ conditionals \in Seq(Conditions)
      /\ SectionsOf(conditionals) \in Seq(SectionRecords)
      /\ Len(SectionsOf(conditionals)) = Len(conditionals)
      /\ \A i \in 1..Len(conditionals) :
           SectionsOf(conditionals)[i] = SectionOf(conditionals[i])
  BY SectionsType DEF TypeOK
<1>2. \A i \in 1..Len(conditionals) :
        SectionsOf(conditionals)[i].live = conditionals[i].is_true
  BY <1>1, SectionType
<1>3. Sections!Processing <=> AllLive(conditionals)
  BY <1>1, <1>2 DEF Sections!Processing, AllLive
<1>4. QED
  BY <1>1, <1>3

LEMMA IfRefines ==
  ASSUME StackInv, NEW c \in BOOLEAN, If(c)
  PROVE  Sections!OpenSection(c)
<1>1. /\ conditionals \in Seq(Conditions)
      /\ Live(conditionals) <=> AllLive(conditionals)
      /\ Sections!Processing <=> AllLive(conditionals)
  BY LiveIsAllLive, ProcessingIsAllLive DEF StackInv, TypeOK, EnclosingLive
<1> DEFINE new == IF Live(conditionals) THEN condition(c, ~c) ELSE condition(FALSE, FALSE)
           section == Sections!Section(Sections!Processing /\ c,
                                       Sections!Processing => c, FALSE)
<1>2. new \in Conditions
  BY DEF Conditions, condition
<1>3. SectionOf(new) = section
  BY <1>1 DEF SectionOf, condition, Sections!Section
<1>4. conditionals' = Append(conditionals, new)
  BY DEF If, Pushed
<1>5. SectionsOf(conditionals') = Append(SectionsOf(conditionals), section)
  <2> HIDE DEF new, section
  <2>1. QED
    BY <1>1, <1>2, <1>3, <1>4, SectionsOfPushed
<1>6. line' = "if" /\ fate' = fate
  BY DEF If, Read, KeepFiles
<1>7. QED
  BY <1>5, <1>6 DEF Sections!OpenSection

LEMMA EndIfRefines ==
  ASSUME StackInv, EndIf
  PROVE  Sections!CloseSection \/ Sections!StrayDirective
<1>1. line' = "endif" /\ fate' = fate
  BY DEF EndIf, Read, KeepFiles
<1>2. CASE conditionals = << >>
  <2>1. conditionals' = conditionals /\ SectionsOf(conditionals) = << >>
    BY <1>2, ProcessingIsAllLive DEF EndIf, StackInv
  <2>2. QED
    BY <1>1, <2>1 DEF Sections!StrayDirective
<1>3. CASE conditionals # << >>
  <2>1. SectionsOf(conditionals') = Sections!Outer
    BY <1>3, SectionsOfPopped DEF EndIf, Popped, Sections!Outer, StackInv, TypeOK
  <2>2. SectionsOf(conditionals) # << >>
    BY <1>3, ProcessingIsAllLive DEF StackInv
  <2>3. QED
    BY <1>1, <2>1, <2>2 DEF Sections!CloseSection
<1>4. QED
  BY <1>2, <1>3

(* The innermost section, when there is one and its #else is not read.     *)
LEMMA InnermostSection ==
  ASSUME StackInv, conditionals # << >>, ~back.seen_else
  PROVE  /\ back \in Conditions /\ back.is_true \in BOOLEAN
         /\ back.is_true => ~back.parents_true
         /\ Sections!Innermost = SectionOf(back)
         /\ Sections!Innermost.done = (back.is_true \/ ~back.parents_true)
         /\ ~Sections!Innermost.final
         /\ SectionsOf(conditionals) # << >>
         /\ SectionsOf(Popped) = Sections!Outer
         /\ \A c \in Conditions :
              SectionsOf(WithBack(c)) = Append(Sections!Outer, SectionOf(c))
<1>1. /\ conditionals \in Seq(Conditions) /\ Len(conditionals) \in 1..Len(conditionals)
      /\ SectionsOf(conditionals) # << >>
  BY ProcessingIsAllLive DEF StackInv, TypeOK
<1>2. back \in Conditions
  BY <1>1 DEF back
<1>3. back.is_true \in BOOLEAN /\ (back.is_true => ~back.parents_true)
  BY <1>2 DEF Conditions
<1>4. Sections!Innermost = SectionOf(back)
  BY <1>1, SectionsType DEF Sections!Innermost, back
<1>5. QED
  BY <1>1, <1>2, <1>3, <1>4, SectionType, SectionsOfPopped
     DEF Popped, WithBack, Sections!Outer

LEMMA ElifRefines ==
  ASSUME StackInv, Malformed = {}, NEW c \in BOOLEAN, Elif(c)
  PROVE  Sections!NextGroup(c) \/ Sections!StrayDirective
<1>1. /\ line' = "elif" /\ fate' = fate
      /\ conditionals # << >> => ~back.seen_else
  BY DEF Elif, Alternative, Read, KeepFiles
<1>2. CASE conditionals = << >>
  <2>1. conditionals' = conditionals /\ SectionsOf(conditionals) = << >>
    BY <1>2, ProcessingIsAllLive DEF Elif, Alternative, StackInv
  <2>2. QED
    BY <1>1, <2>1 DEF Sections!StrayDirective
<1>3. ASSUME conditionals # << >>,
             SectionsOf(conditionals')
               = Append(Sections!Outer,
                        Sections!Section(~Sections!Innermost.done /\ c,
                                         Sections!Innermost.done \/ c, FALSE))
      PROVE  Sections!NextGroup(c)
  BY <1>1, <1>3, InnermostSection DEF Sections!NextGroup
<1>4. CASE conditionals # << >> /\ back.is_true
  <2> DEFINE new == [back EXCEPT !.is_true = FALSE, !.parents_true = FALSE]
  <2>1. /\ new \in Conditions /\ new.is_true = FALSE /\ new.parents_true = FALSE
        /\ new.seen_else = FALSE
    <3>1. back \in Conditions /\ back.seen_else \in BOOLEAN
      BY <1>1, <1>4, InnermostSection DEF Conditions
    <3>2. QED
      BY <1>1, <1>4, <3>1, Closed
  <2>2. conditionals' = WithBack(new)
    BY <1>4 DEF Elif, Alternative
  <2> HIDE DEF new
  <2>3. SectionOf(new) = Sections!Section(FALSE, TRUE, FALSE)
    BY <2>1 DEF SectionOf, Sections!Section
  <2>4. Sections!Innermost.done = TRUE
    BY <1>1, <1>4, InnermostSection
  <2>5. SectionsOf(conditionals') = Append(Sections!Outer, SectionOf(new))
    BY <1>1, <1>4, <2>1, <2>2, InnermostSection
  <2>6. QED
    BY <1>3, <1>4, <2>3, <2>4, <2>5
<1>5. CASE conditionals # << >> /\ ~back.is_true /\ back.parents_true
  <2>1. /\ conditionals \in Seq(Conditions) /\ Enclosed(conditionals)
        /\ Len(conditionals) \in 1..Len(conditionals)
    BY <1>5 DEF StackInv, TypeOK, EnclosingLive
  <2>2. /\ Popped \in Seq(Conditions)
        /\ Len(Popped) = Len(conditionals) - 1
        /\ \A i \in 1..(Len(conditionals) - 1) : Popped[i] = conditionals[i]
        /\ Enclosed(Popped)
    BY <1>5, <2>1, PoppedProperties DEF Popped
  <2>3. Live(Popped)
    <3>1. \A j \in 1..(Len(conditionals) - 1) : conditionals[j].is_true
      BY <1>5, <2>1 DEF Enclosed, back
    <3>2. AllLive(Popped)
      BY <2>1, <2>2, <3>1 DEF AllLive
    <3>3. QED
      BY <2>2, <3>2, LiveIsAllLive
  <2>4. conditionals' = Append(Popped, condition(c, ~c))
    BY <1>5, <2>3 DEF Elif, Alternative, Pushed
  <2>5. condition(c, ~c) \in Conditions
    BY DEF condition, Conditions
  <2>6. SectionOf(condition(c, ~c)) = Sections!Section(c, c, FALSE)
    BY DEF SectionOf, condition, Sections!Section
  <2>7. SectionsOf(conditionals') = Append(Sections!Outer, Sections!Section(c, c, FALSE))
    BY <1>1, <1>5, <2>2, <2>4, <2>5, <2>6, SectionsOfPushed, InnermostSection
  <2>8. Sections!Innermost.done = FALSE
    BY <1>1, <1>5, InnermostSection
  <2>9. Sections!Section(~Sections!Innermost.done /\ c, Sections!Innermost.done \/ c, FALSE)
          = Sections!Section(c, c, FALSE)
    BY <2>8 DEF Sections!Section
  <2>10. QED
    BY <1>3, <1>5, <2>7, <2>9
<1>6. CASE conditionals # << >> /\ ~back.is_true /\ ~back.parents_true
  <2>1. conditionals' = conditionals
    BY <1>6 DEF Elif, Alternative
  <2>2. conditionals = WithBack(back)
    BY <1>6 DEF WithBack, back, StackInv, TypeOK
  <2>3. SectionsOf(conditionals') = Append(Sections!Outer, SectionOf(back))
    BY <1>1, <1>6, <2>1, <2>2, InnermostSection
  <2>4. SectionOf(back) = Sections!Section(FALSE, TRUE, FALSE)
    <3>1. back.is_true = FALSE /\ back.seen_else = FALSE
      BY <1>1, <1>6, InnermostSection DEF Conditions
    <3>2. QED
      BY <1>6, <3>1 DEF SectionOf, Sections!Section
  <2>5. Sections!Innermost.done = TRUE
    BY <1>1, <1>6, InnermostSection
  <2>6. QED
    BY <1>3, <1>6, <2>3, <2>4, <2>5
<1>7. QED
  BY <1>2, <1>4, <1>5, <1>6

LEMMA ElseRefines ==
  ASSUME StackInv, Malformed = {}, Else
  PROVE  Sections!LastGroup \/ Sections!StrayDirective
<1>1. /\ line' = "else" /\ fate' = fate
      /\ conditionals # << >> => ~back.seen_else
  BY DEF Else, Read, KeepFiles
<1>2. CASE conditionals = << >>
  <2>1. conditionals' = conditionals /\ SectionsOf(conditionals) = << >>
    BY <1>2, ProcessingIsAllLive DEF Else, StackInv
  <2>2. QED
    BY <1>1, <2>1 DEF Sections!StrayDirective
<1>3. CASE conditionals # << >>
  <2> DEFINE new == [back EXCEPT !.is_true = Negated(back), !.seen_else = TRUE]
  <2>1. back \in Conditions
    BY <1>1, <1>3, InnermostSection
  <2>2. /\ new \in Conditions
        /\ new.is_true = (back.parents_true /\ ~back.is_true)
        /\ new.seen_else = TRUE /\ new.parents_true = back.parents_true
    BY <2>1, Reversed
  <2>3. conditionals' = WithBack(new)
    BY <1>3 DEF Else
  <2> HIDE DEF new
  <2>4. SectionsOf(conditionals') = Append(Sections!Outer, SectionOf(new))
    BY <1>1, <1>3, <2>2, <2>3, InnermostSection
  <2>5. SectionOf(new) = Sections!Section(~Sections!Innermost.done, TRUE, TRUE)
    <3>1. /\ new.is_true = ~Sections!Innermost.done
          /\ (new.is_true \/ ~new.parents_true) = TRUE
      BY <1>1, <1>3, <2>2, InnermostSection
    <3>2. QED
      BY <2>2, <3>1 DEF SectionOf, Sections!Section
  <2>6. SectionsOf(conditionals) # << >> /\ ~Sections!Innermost.final
    BY <1>1, <1>3, InnermostSection
  <2>7. QED
    BY <1>1, <2>4, <2>5, <2>6 DEF Sections!LastGroup
<1>4. QED
  BY <1>2, <1>3

LEMMA StepRefines ==
  ASSUME StackInv, InStep, Malformed = {}, [Next]_vars
  PROVE  [Sections!Next]_(Sections!vars)
<1>1. ASSUME NEW c \in BOOLEAN, If(c)
      PROVE  Sections!Next
  BY <1>1, IfRefines DEF Sections!Next
<1>2. ASSUME NEW c \in BOOLEAN, Elif(c)
      PROVE  Sections!Next
  BY <1>2, ElifRefines DEF Sections!Next
<1>3. CASE Else
  BY <1>3, ElseRefines DEF Sections!Next
<1>4. CASE EndIf
  BY <1>4, EndIfRefines DEF Sections!Next
<1>5. ASSUME line' = "other", UNCHANGED <<conditionals, fate>>
      PROVE  Sections!Next
  BY <1>5 DEF Sections!Next, Sections!Other
<1>6. CASE Directive
  <2>1. ~ElifDefNameless /\ ~IfDefNameless /\ ~NoDirective
    BY DEF ElifDefNameless, IfDefNameless, NoDirective
  <2>2. CASE \/ \E name \in Names : Define(name) \/ Undef(name)
             \/ OtherDirective
             \/ \E found \in BOOLEAN : Include(found)
    BY <1>5, <2>2 DEF Define, Undef, OtherDirective, Include, Read, KeepFiles
  <2>3. CASE \/ \E c \in BOOLEAN : If(c) \/ Elif(c)
             \/ Else
             \/ EndIf
    BY <1>1, <1>2, <1>3, <1>4, <2>3
  <2>4. QED
    BY <1>6, <2>1, <2>2, <2>3, DirectiveForms
<1>7. CASE Text
  <2>1. skipping <=> ~Sections!Processing
    BY <1>7, ProcessingIsAllLive DEF Text, Read, InStep, MainLoopLive, StackInv
  <2>2. Sections!Text
    BY <1>7, <2>1 DEF Text, Read, Sections!Text
  <2>3. QED
    BY <2>2 DEF Sections!Next
<1>8. CASE NullDirective \/ ReachEnd \/ EndInSkip \/ pop_file
  BY <1>5, <1>8 DEF NullDirective, ReachEnd, EndInSkip, pop_file
<1>9. CASE UNCHANGED vars
  BY <1>9 DEF vars, Sections!vars
<1>10. QED
  BY <1>6, <1>7, <1>8, <1>9 DEF Next

(* For well-formed input the lexer delivers and drops the lines of text    *)
(* that the abstract specification of conditional inclusion says, however  *)
(* deep sections nest and whichever files are included in them.            *)
THEOREM LexerImplementsSections ==
  ASSUME Malformed = {}
  PROVE  Spec => ImplementsSections
<1>1. Init => Sections!Init
  <2>1. SectionsOf(<< >>) = << >>
    BY DEF SectionsOf
  <2>2. QED
    BY <2>1 DEF Init, Sections!Init
<1>2. Init => InStep
  BY DEF Init, InStep, MainLoopLive, AllLive
<1>3. StackInv /\ InStep /\ [Next]_vars => InStep'
  BY InStepStep
<1>4. StackInv /\ InStep /\ [Next]_vars => [Sections!Next]_(Sections!vars)
  BY StepRefines
<1>5. QED
  BY <1>1, <1>2, <1>3, <1>4, Stack, PTL DEF Spec, ImplementsSections, Sections!Spec
==============================================================================
