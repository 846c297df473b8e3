--------------------------- MODULE ReferencerStacks ---------------------------
(***************************************************************************)
(* What ref_stack promises to its users: each object is a stack of         *)
(* referencers (*, &, [], parameters, class::*) with a name, "ordered such *)
(* that each dereference symbol can be evaluated simply by popping one     *)
(* item" (src/Storage/references.h 47-49).  A stack is written as a        *)
(* sequence whose head is the top.                                         *)
(***************************************************************************)
EXTENDS Sequences

CONSTANTS
  Stacks,       \* the objects
  Referencers,  \* the kinds of referencers
  Names         \* what a declarator can name

VARIABLES stacks, names

vars == <<stacks, names>>

Unnamed == ""

Init ==
  /\ stacks = [s \in Stacks |-> << >>]
  /\ names = [s \in Stacks |-> Unnamed]

Push(s, r) ==
  /\ stacks' = [stacks EXCEPT ![s] = <<r>> \o @]
  /\ UNCHANGED names

PushBottom(s, r) ==
  /\ stacks' = [stacks EXCEPT ![s] = Append(@, r)]
  /\ UNCHANGED names

Pop(s) ==
  /\ stacks' = [stacks EXCEPT ![s] = IF @ = << >> THEN @ ELSE Tail(@)]
  /\ UNCHANGED names

(* t is put on top of s, or below it, and is left empty.                   *)
PutOnTop(s, t) == stacks' = [stacks EXCEPT ![s] = stacks[t] \o @, ![t] = << >>]

PutBelow(s, t) == stacks' = [stacks EXCEPT ![s] = @ \o stacks[t], ![t] = << >>]

(* The name of a nested declarator is the name of the whole.               *)
Nest(s, t) ==
  /\ PutOnTop(s, t)
  /\ names' = [names EXCEPT ![s] =
                 IF stacks[t] = << >> /\ names[t] = Unnamed THEN @ ELSE names[t]]

(* A copy leaves the stack that is copied alone.                           *)
CopyBelow(s, t) ==
  /\ stacks' = [stacks EXCEPT ![s] = @ \o stacks[t]]
  /\ UNCHANGED names

Copy(s, t) ==
  /\ stacks' = [stacks EXCEPT ![s] = stacks[t]]
  /\ names' = [names EXCEPT ![s] = names[t]]

Swap(s, t) ==
  /\ stacks' = [stacks EXCEPT ![s] = stacks[t], ![t] = stacks[s]]
  /\ names' = [names EXCEPT ![s] = names[t], ![t] = names[s]]

(* All of t goes on top of s, its name is forgotten.                       *)
Consume(s, t) ==
  /\ PutOnTop(s, t)
  /\ names' = [names EXCEPT ![t] = Unnamed]

Clear(s) ==
  /\ stacks' = [stacks EXCEPT ![s] = << >>]
  /\ names' = [names EXCEPT ![s] = Unnamed]

Rename(s) ==
  /\ \E n \in Names : names' = [names EXCEPT ![s] = n]
  /\ UNCHANGED stacks

Next ==
  \/ \E s \in Stacks :
       \/ \E r \in Referencers : Push(s, r) \/ PushBottom(s, r)
       \/ Pop(s) \/ Clear(s) \/ Rename(s)
  \/ \E s, t \in Stacks :
       /\ s # t
       /\ \/ PutOnTop(s, t) /\ UNCHANGED names
          \/ PutBelow(s, t) /\ UNCHANGED names
          \/ Nest(s, t) \/ CopyBelow(s, t) \/ Copy(s, t) \/ Swap(s, t) \/ Consume(s, t)

Spec == Init /\ [][Next]_vars
=============================================================================
