----------------------------- MODULE Declarators -----------------------------
(***************************************************************************)
(* The readers of types and declarators (src/Parser/readers/read_type.cpp) *)
(* and the handler that declares what they read (Parser/handlers/          *)
(* handle_declarators.cpp): read_fulltype, read_referencers,               *)
(* read_referencers_post and read_function_params call each other, and     *)
(* build ref_stacks that are put on and below each other so that the one   *)
(* that is left has the referencers in the order in which C++ applies them.*)
(* frames is their C++ stack; a step is what one of them does between two  *)
(* calls or two rounds of its loop.                                        *)
(*                                                                         *)
(* Some tokens stand for all of their kind: int a type that is a keyword,  *)
(* const a flag, T a typedef, x an object that is known, a and b names    *)
(* that are new, "*" both kinds of pointers, "[]" an array bound and       *)
(* "=" a default value with their expressions.  A scope is a namespace.    *)
(* Left out: qualified names, operators, constructors and destructors,     *)
(* initializers and bit fields, and the cases of tokens that the lexer     *)
(* never makes (TT_MEMBER, TT_THROW).                                      *)
(***************************************************************************)
EXTENDS Sequences, Integers, SequencesExt

CONSTANTS
  Declarations  \* the inputs: their tokens, whether they are known to be read
                \* as C++ has it, and what they declare there

Types == {"int", "T"}

Tokens == Types \union {"const", "x", "a", "b", "*", "[]", "=", "(", ")", ",", ";"}

ASSUME ConstantsAssumption ==
  \A d \in Declarations :
    /\ d.tokens \in Seq(Tokens) /\ d.tokens # << >>
    /\ d.tokens[1] \in Types \union {"const"}
    /\ d.readable \in BOOLEAN

VARIABLES
  source,     \* the member of Declarations that is read
  at,         \* the index of the current token in its tokens
  looked_up,  \* whether that token came from get_token_in_scope
  frames,     \* the calls that are active, innermost last
  returned,   \* what the last of them returned, if the caller has yet to see it
  members     \* what was declared in the scope, in order

vars == <<source, at, looked_up, frames, returned, members>>

(* The nodes of ref_stacks, top first, with their name.                    *)
node(type) == [type |-> type, params |-> << >>]

node_func(params) == [type |-> "RT_FUNCTION", params |-> params]

NewStack == [nodes |-> << >>, name |-> ""]

push(s, n) == [s EXCEPT !.nodes = <<n>> \o @]

push_below(s, n) == [s EXCEPT !.nodes = Append(@, n)]

append_c(s, t) == [s EXCEPT !.nodes = t.nodes \o @]

append_nest_c(s, t) ==
  [nodes |-> t.nodes \o s.nodes,
   name |-> IF t.nodes = << >> /\ t.name = "" THEN s.name ELSE t.name]

(* full_type, and ref_stack::parameter.                                    *)
full_type(def, refs) == [def |-> def, refs |-> refs]

(* A call.  refs is the stack that it was given or makes, nested that of a *)
(* declarator in parentheses.                                              *)
Call(proc, refs) ==
  [proc |-> proc, stage |-> "start", def |-> "none", refs |-> refs,
   nested |-> NewStack, params |-> << >>]

Init ==
  /\ source \in Declarations
  /\ at = 1
  /\ looked_up = TRUE
  /\ frames = <<Call("handle_declarators", NewStack)>>
  /\ returned = << >>
  /\ members = << >>

-----------------------------------------------------------------------------
(* Tokens.                                                                 *)

(* What get_token_in_scope makes of an identifier, or get_token, which     *)
(* leaves it alone.                                                        *)
TypeOf(p, in_scope) ==
  IF p > Len(source.tokens) THEN "endofcode"
  ELSE LET t == source.tokens[p]
       IN  CASE t \in {"a", "b"} -> "identifier"
             [] t = "int" -> "declarator"
             [] t = "T" -> IF in_scope THEN "declarator" ELSE "identifier"
             [] t = "x" -> IF in_scope THEN "definition" ELSE "identifier"
             [] OTHER -> t

token == TypeOf(at, looked_up)

(* A token is read with get_token_in_scope.                                *)
Next_token ==
  /\ at' = at + (IF token = "endofcode" THEN 0 ELSE 1)
  /\ looked_up' = TRUE

Stay == UNCHANGED <<at, looked_up>>

(* What the parenthesis at the current token opens.  The scan is a         *)
(* look-ahead, which is rewound.  A comma is an operator there, a name     *)
(* after a type tells parameters, and the end of the code does not end it. *)
parenths_type ==
  LET scan[p \in 1..(Len(source.tokens) + 1), seen_type \in BOOLEAN] ==
        LET t == TypeOf(p, TRUE)
            Parameters == IF seen_type THEN "PT_FUNCTION" ELSE "PT_GROUPORINIT"
        IN  CASE t \in {")", "="} -> "PT_FUNCTION"
              [] t \in {"*", "identifier"} -> Parameters
              [] t = "(" ->
                   IF seen_type THEN "PT_FUNCTION"
                   ELSE IF scan[p + 1, FALSE] = "endless" THEN "endless"
                   ELSE "PT_GROUPORINIT"
              [] t \in {"declarator", "const"} -> scan[p + 1, TRUE]
              [] t = "definition" ->
                   IF seen_type THEN scan[p + 1, TRUE] ELSE "PT_GROUPORINIT"
              [] t = "," -> "PT_INITIALIZERS"
              [] t = "endofcode" -> "endless"
              [] OTHER -> scan[p + 1, seen_type]
  IN  scan[at + 1, FALSE]

-----------------------------------------------------------------------------
(* Calls.                                                                  *)

Top == Last(frames)

At(proc, stage) ==
  /\ frames # << >> /\ returned = << >>
  /\ Top.proc = proc /\ Top.stage = stage

Back(proc, stage) ==
  /\ returned # << >>
  /\ Top.proc = proc /\ Top.stage = stage

Value == returned[1]

Continue(f) ==
  /\ frames' = Append(Front(frames), f)
  /\ returned' = << >>

CallFrom(f, callee) ==
  /\ frames' = Front(frames) \o <<f, callee>>
  /\ returned' = << >>

Return(type, error) ==
  /\ frames' = Front(frames)
  /\ returned' = <<[type |-> type, error |-> error]>>

-----------------------------------------------------------------------------
(* read_fulltype and read_type.                                            *)

(* The specifiers from p0 on, and where they end: a typedef after a type   *)
(* ends them, a keyword is reported and replaces the first.                *)
Specifiers(p0, def0) ==
  LET more[p \in 1..(Len(source.tokens) + 1), def \in Types \union {"none"}] ==
        LET t == TypeOf(p, TRUE)
        IN  CASE t = "const" -> more[p + 1, def]
              [] t = "declarator" /\ (def = "none" \/ source.tokens[p] = "int") ->
                   more[p + 1, source.tokens[p]]
              [] OTHER -> [p |-> p, def |-> def]
  IN  more[p0, def0]

read_type ==
  CASE token = "const" -> Specifiers(at + 1, "none")
    [] token = "declarator" -> Specifiers(at + 1, source.tokens[at])
    [] token = "definition" -> [p |-> at + 1, def |-> "none"]
    [] OTHER -> [p |-> at, def |-> "none"]

ReadType ==
  /\ At("read_fulltype", "start")
  /\ LET r == read_type
     IN  /\ at' = r.p
         /\ looked_up' = (looked_up \/ r.p > at)
         /\ CallFrom([Top EXCEPT !.stage = "referencers", !.def = r.def],
                     Call("read_referencers", NewStack))
  /\ UNCHANGED <<source, members>>

FulltypeRead ==
  /\ Back("read_fulltype", "referencers")
  /\ Return(full_type(Top.def, Value.type.refs), FALSE)
  /\ Stay
  /\ UNCHANGED <<source, members>>

-----------------------------------------------------------------------------
(* read_referencers.                                                       *)

ArrayWithoutName ==
  /\ At("read_referencers", "start")
  /\ token = "[]"
  /\ Continue(Call("read_referencers_post", Top.refs))
  /\ Stay
  /\ UNCHANGED <<source, members>>

(* After the look-ahead, the token comes from get_token.                   *)
Parenthesis ==
  /\ At("read_referencers", "start")
  /\ token = "("
  /\ \/ /\ parenths_type = "PT_FUNCTION"
        /\ CallFrom([Top EXCEPT !.stage = "parameters"],
                    Call("read_function_params", NewStack))
     \/ /\ parenths_type \in {"PT_GROUPORINIT", "PT_INITIALIZERS"}
        /\ CallFrom([Top EXCEPT !.stage = "nested"], Call("read_referencers", NewStack))
  /\ at' = at + 1
  /\ looked_up' = FALSE
  /\ UNCHANGED <<source, members>>

ParametersWithoutName ==
  /\ Back("read_referencers", "parameters")
  /\ IF Value.error THEN Return(full_type("none", Top.refs), TRUE)
     ELSE CallFrom([Top EXCEPT !.stage = "post"],
                   Call("read_referencers_post", Value.type.refs))
  /\ Stay
  /\ UNCHANGED <<source, members>>

(* A missing parenthesis is reported, and the token skipped all the same.  *)
Nested ==
  /\ Back("read_referencers", "nested")
  /\ CallFrom([Top EXCEPT !.stage = "nest", !.nested = Value.type.refs],
              Call("read_referencers_post", NewStack))
  /\ Next_token
  /\ UNCHANGED <<source, members>>

(* Mutant of Nest: the nested referencers are appended first.              *)
NestFirst(refs, post, nested) == append_c(append_nest_c(refs, nested), post)

Nest(refs, post, nested) == append_nest_c(append_c(refs, post), nested)

NestRead ==
  /\ Back("read_referencers", "nest")
  /\ Return(full_type("none", Nest(Top.refs, Value.type.refs, Top.nested)), Value.error)
  /\ Stay
  /\ UNCHANGED <<source, members>>

Name ==
  /\ At("read_referencers", "start")
  /\ token \in {"identifier", "declarator", "definition"}
  /\ CallFrom([Top EXCEPT !.stage = "post", !.refs.name = source.tokens[at]],
              Call("read_referencers_post", NewStack))
  /\ Next_token
  /\ UNCHANGED <<source, members>>

PostRead ==
  /\ Back("read_referencers", "post")
  /\ Return(full_type("none", append_c(Top.refs, Value.type.refs)), Value.error)
  /\ Stay
  /\ UNCHANGED <<source, members>>

PointerTo ==
  /\ At("read_referencers", "start")
  /\ token = "*"
  /\ Continue([Top EXCEPT !.refs = push(@, node("RT_POINTERTO"))])
  /\ Next_token
  /\ UNCHANGED <<source, members>>

Qualifier ==
  /\ At("read_referencers", "start")
  /\ token = "const"
  /\ Continue(Top)
  /\ Next_token
  /\ UNCHANGED <<source, members>>

NoReferencer ==
  /\ At("read_referencers", "start")
  /\ token \in {"=", ")", ",", ";", "endofcode"}
  /\ Return(full_type("none", Top.refs), FALSE)
  /\ Stay
  /\ UNCHANGED <<source, members>>

-----------------------------------------------------------------------------
(* read_referencers_post.                                                  *)

PostReferencer ==
  /\ At("read_referencers_post", "start")
  /\ \/ /\ token = "[]"
        /\ Continue([Top EXCEPT !.refs = push_below(@, node("RT_ARRAYBOUND"))])
     \/ /\ token = "*"
        /\ Continue([Top EXCEPT !.refs = push(@, node("RT_POINTERTO"))])
     \/ /\ token = "const"
        /\ Continue(Top)
     \/ /\ token = "("
        /\ CallFrom([Top EXCEPT !.stage = "parameters"],
                    Call("read_function_params", Top.refs))
  /\ Next_token
  /\ UNCHANGED <<source, members>>

(* The result of read_function_params is not looked at.                    *)
PostParameters ==
  /\ Back("read_referencers_post", "parameters")
  /\ Continue([Top EXCEPT !.stage = "start", !.refs = Value.type.refs])
  /\ Stay
  /\ UNCHANGED <<source, members>>

PostEnd ==
  /\ At("read_referencers_post", "start")
  /\ token \notin {"[]", "*", "const", "("}
  /\ Return(full_type("none", Top.refs), FALSE)
  /\ Stay
  /\ UNCHANGED <<source, members>>

-----------------------------------------------------------------------------
(* read_function_params.                                                   *)

Parameter ==
  /\ At("read_function_params", "start")
  /\ token \notin {")", "endofcode"}
  /\ CallFrom([Top EXCEPT !.stage = "parameter"], Call("read_fulltype", NewStack))
  /\ Stay
  /\ UNCHANGED <<source, members>>

ParametersCut ==
  /\ At("read_function_params", "start")
  /\ token = "endofcode"
  /\ Return(full_type("none", Top.refs), TRUE)
  /\ Stay
  /\ UNCHANGED <<source, members>>

(* What has no type is reported, and is a parameter all the same; so is    *)
(* what ends in no comma, and its token skipped.                           *)
ParameterRead ==
  /\ Back("read_function_params", "parameter")
  /\ LET p == IF token = "=" THEN at + 1 ELSE at
         t == TypeOf(p, looked_up \/ p > at)
     IN  /\ at' = IF t \in {")", "endofcode"} THEN p ELSE p + 1
         /\ looked_up' = (looked_up \/ t # ")" \/ p > at)
  /\ Continue([Top EXCEPT !.stage = "start", !.params = Append(@, Value.type)])
  /\ UNCHANGED <<source, members>>

CloseParameters ==
  /\ At("read_function_params", "start")
  /\ token = ")"
  /\ Continue([Top EXCEPT !.stage = "flags", !.refs = push_below(@, node_func(Top.params))])
  /\ Next_token
  /\ UNCHANGED <<source, members>>

FunctionFlag ==
  /\ At("read_function_params", "flags")
  /\ token = "const"
  /\ Continue(Top)
  /\ Next_token
  /\ UNCHANGED <<source, members>>

ParametersRead ==
  /\ At("read_function_params", "flags")
  /\ token # "const"
  /\ Return(full_type("none", Top.refs), FALSE)
  /\ Stay
  /\ UNCHANGED <<source, members>>

-----------------------------------------------------------------------------
(* handle_declarators.                                                     *)

Declaration ==
  /\ At("handle_declarators", "start")
  /\ CallFrom([Top EXCEPT !.stage = "type"], Call("read_fulltype", NewStack))
  /\ Stay
  /\ UNCHANGED <<source, members>>

(* Without a type there is no declaration.                                 *)
Typed ==
  /\ Back("handle_declarators", "type")
  /\ IF Value.type.def = "none"
     THEN /\ frames' = << >>
          /\ returned' = << >>
     ELSE Continue([Top EXCEPT !.stage = "declare", !.refs = Value.type.refs])
  /\ Stay
  /\ UNCHANGED <<source, members>>

(* A copy of a node_func takes the parameters of the node copied.          *)
Emptied(nodes) == [i \in 1..Len(nodes) |-> node(nodes[i].type)]

IsFunction(nodes) == nodes # << >> /\ nodes[1].type = "RT_FUNCTION"

(* The key of an overload, of which comparison sees the types of the       *)
(* parameters, but of theirs no more than how many there are; and what the *)
(* referencers are once arg_key has copied the types.                      *)
Key(nodes) ==
  [i \in 1..Len(nodes[1].params) |->
     LET p == nodes[1].params[i]
     IN  <<p.def, [j \in 1..Len(p.refs.nodes) |->
                     <<p.refs.nodes[j].type, Len(p.refs.nodes[j].params)>>]>>]

Keyed(nodes) ==
  [nodes EXCEPT ![1].params =
     [i \in 1..Len(@) |-> [@[i] EXCEPT !.refs.nodes = Emptied(@)]]]

member(name, nodes, key) == [name |-> name, nodes |-> nodes, key |-> key]

(* A function copies the referencers; an object takes them.                *)
Overload(name, nodes) ==
  /\ members' = Append(members, member(name, Keyed(nodes), Key(nodes)))
  /\ Continue([Top EXCEPT !.stage = "declared",
                          !.refs = [nodes |-> Emptied(nodes), name |-> name]])

DeclareNew(name, nodes) ==
  IF IsFunction(nodes) THEN Overload(name, nodes)
  ELSE /\ members' = Append(members, member(name, nodes, << >>))
       /\ Continue([Top EXCEPT !.stage = "declared", !.refs = NewStack])

(* An object that is known stays what it was, and so do the referencers.   *)
Redeclare(name, nodes) ==
  LET known == {m \in Range(members) : m.name = name}
  IN  IF \A m \in known : ~IsFunction(m.nodes)
      THEN /\ Continue([Top EXCEPT !.stage = "declared", !.refs.name = name])
           /\ UNCHANGED members
      ELSE IF ~IsFunction(nodes)
      THEN /\ frames' = << >>
           /\ returned' = << >>
           /\ UNCHANGED members
      ELSE IF \E m \in known : m.key = Key(nodes)
      THEN /\ Continue([Top EXCEPT !.stage = "declared", !.refs.nodes = Keyed(@)])
           /\ UNCHANGED members
      ELSE Overload(name, nodes)

Declare ==
  /\ At("handle_declarators", "declare")
  /\ LET name == Top.refs.name
         known == {m.name : m \in Range(members)} \union {"x", "T"}
     IN  \/ /\ name \in known \ {""}
            /\ Redeclare(name, Top.refs.nodes)
         \/ /\ name \notin known \union {""}
            /\ DeclareNew(name, Top.refs.nodes)
         \/ /\ name = "" /\ token = ","
            /\ DeclareNew("<unnamed>", Top.refs.nodes)
  /\ Stay
  /\ UNCHANGED source

(* A name after referencers that had none is taken for what is declared.   *)
NameAfterwards ==
  /\ At("handle_declarators", "declare")
  /\ Top.refs.name = "" /\ token \in {"definition", "declarator"}
  /\ CallFrom([Top EXCEPT !.stage = "foreign"], Call("read_referencers_post", Top.refs))
  /\ Next_token
  /\ UNCHANGED <<source, members>>

Foreign ==
  /\ Back("handle_declarators", "foreign")
  /\ Continue([Top EXCEPT !.stage = "declared", !.refs = Value.type.refs])
  /\ Stay
  /\ UNCHANGED <<source, members>>

(* The next declarator is read on the referencers that are left.           *)
Comma ==
  /\ At("handle_declarators", "declared")
  /\ token = ","
  /\ CallFrom([Top EXCEPT !.stage = "again"], Call("read_referencers", Top.refs))
  /\ Next_token
  /\ UNCHANGED <<source, members>>

Again ==
  /\ Back("handle_declarators", "again")
  /\ Continue([Top EXCEPT !.stage = "declare", !.refs = Value.type.refs])
  /\ Stay
  /\ UNCHANGED <<source, members>>

DeclaratorsEnd ==
  /\ \/ At("handle_declarators", "declared") /\ token # ","
     \/ /\ At("handle_declarators", "declare")
        /\ Top.refs.name = "" /\ token \notin {",", "definition", "declarator"}
  /\ frames' = << >>
  /\ Stay
  /\ UNCHANGED <<source, returned, members>>

Next ==
  \/ ReadType \/ FulltypeRead
  \/ ArrayWithoutName \/ Parenthesis \/ ParametersWithoutName \/ Nested
  \/ NestRead \/ Name \/ PostRead \/ PointerTo \/ Qualifier \/ NoReferencer
  \/ PostReferencer \/ PostParameters \/ PostEnd
  \/ Parameter \/ ParametersCut \/ ParameterRead \/ CloseParameters
  \/ FunctionFlag \/ ParametersRead
  \/ Declaration \/ Typed \/ Declare \/ NameAfterwards \/ Foreign \/ Comma
  \/ Again \/ DeclaratorsEnd

(* Calls run until they return.                                            *)
Spec == Init /\ [][Next]_vars /\ WF_vars(Next)

-----------------------------------------------------------------------------
(* Properties.                                                             *)

Declared == [i \in 1..Len(members) |->
               [name |-> members[i].name, nodes |-> members[i].nodes]]

(* Some parenthesis has nothing to close it, so that the look-ahead of     *)
(* read_referencers may run off the end of the code.                       *)
Unclosed ==
  \E p \in 1..Len(source.tokens) :
    /\ source.tokens[p] = "("
    /\ \A q \in p..Len(source.tokens) : source.tokens[q] # ")"

(* Whatever pointers, arrays, parameters and parentheses a declaration is  *)
(* written with, and however its readers hand their stacks to each other,  *)
(* each name is declared with the referencers that C++ gives it, "ordered  *)
(* such that each dereference symbol can be evaluated simply by popping    *)
(* one item" (references.h 47-49).  And any input whose parentheses are    *)
(* closed, however malformed, is read to an end.                           *)
DeclaredAsWritten ==
  /\ [](frames = << >> /\ source.readable => Declared = source.members)
  /\ <>(frames = << >> \/ Unclosed)
=============================================================================
