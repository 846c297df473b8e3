----------------------------- MODULE Expressions -----------------------------
(***************************************************************************)
(* The parser of expressions and the evaluation of what it builds          *)
(* (src/API/AST.h, AST.cpp, System/symbols.cpp, Storage/value_funcs.cpp).  *)
(* AST_Builder::parse_expression and parse_binary_or_unary_post call       *)
(* themselves for every operand; calls is their C++ stack, a frame for     *)
(* each call of parse_expression with what its caller does with the node,  *)
(* and a step is what happens between two tokens or two calls.  The input  *)
(* is any sequence of tokens of one of the Inputs, chosen one by one as the *)
(* parser asks for it.                                                     *)
(*                                                                         *)
(* Some tokens stand for all of their kind: 1 a literal, p a parameter of  *)
(* a template that is a value, T one that is a type, int and C types, M a  *)
(* template that is no type, v a name that is only known in C; and one     *)
(* operator for each precedence that the properties need.  Left out: the   *)
(* functional cast (LookAhead has it), qualified types, and types with     *)
(* more of a declarator than pointers (Declarators has them), strings and  *)
(* floating point, and two inputs that never return or that the parser     *)
(* cannot survive: "new T *", on which AST.cpp:303 loops, and a value      *)
(* divided by zero.                                                        *)
(***************************************************************************)
EXTENDS Integers, Sequences, SequencesExt, FiniteSetsExt

CONSTANTS
  Inputs  \* the inputs to parse: their tokens, the first of them, the bound on
          \* their length,
          \* and the precedence that the first call is given

ASSUME ConstantsAssumption ==
  \A i \in Inputs :
    i.length \in Nat \ {0} /\ i.prec \in {0, 2} /\ i.first \subseteq i.tokens

VARIABLES
  source,    \* the member of Inputs that the input is of
  input,     \* the tokens that were read; the last is the current one
  calls,     \* the calls of parse_expression that are active
  phase,     \* where the innermost call is
  node,      \* its left_node, or what it returns
  greater,   \* AST::tt_greater_is_op
  failed     \* whether an error was reported

vars == <<source, input, calls, phase, node, greater, failed>>

token == Last(input)

Types == {"int", "T", "C"}
Definitions == Types \union {"p", "M"}
Leaves == Definitions \union {"1", "v"}

-----------------------------------------------------------------------------
(* System/symbols.cpp: the precedences, and what an operator can be.       *)
Comma == 1
Scope == 18
UnaryPre == 16
UnaryPost == 17

Symbol(binary, pre, post, rtl) ==
  [binary |-> binary, pre |-> pre, post |-> post, rtl |-> rtl]

symbols ==
  [op \in {"=", "?", "&&", "<", ">", "-", "*", "!", "++"} |->
     CASE op = "="         -> Symbol(3, 0, 0, TRUE)
       [] op = "?"         -> Symbol(4, 0, 0, TRUE)
       [] op = "&&"        -> Symbol(6, 0, 0, FALSE)
       [] op \in {"<",">"} -> Symbol(11, 0, 0, FALSE)
       [] op = "-"         -> Symbol(13, UnaryPre, 0, FALSE)
       [] op = "*"         -> Symbol(14, UnaryPre, 0, FALSE)
       [] op = "!"         -> Symbol(0, UnaryPre, 0, FALSE)
       [] op = "++"        -> Symbol(0, UnaryPre, UnaryPost, FALSE)]

Operators == DOMAIN symbols
PrefixOperators == {op \in Operators : symbols[op].pre > 0}

(* A node: the class of it, its content, and its children in the order of  *)
(* the source.  A type is its name, and a * for each pointer to it.        *)
Node(class, content, kids) ==
  [class |-> class, content |-> content, kids |-> kids]
Null == Node("null", "", <<>>)
Leaf(t) ==
  Node(CASE t \in Definitions -> "definition"
         [] t = "v" -> "identifier"
         [] OTHER -> "literal", t, <<>>)
AsType(n) == [n EXCEPT !.class = "type"]
Pointer(n) == [AsType(n) EXCEPT !.kids = Append(@, Node("*", "", <<>>))]

-----------------------------------------------------------------------------
Init ==
  /\ source \in Inputs
  /\ \E t \in source.first : input = <<t>>
  /\ calls = <<[then |-> "done", prec |-> source.prec, op |-> "",
                left |-> Null, greater |-> TRUE]>>
  /\ phase = "expression" /\ node = Null /\ greater = TRUE /\ failed = FALSE

call == Last(calls)

(* AST_Builder::get_next_token.  Nothing follows the end of the code.      *)
Advance ==
  /\ IF token = "end" THEN input' = input
     ELSE \E t \in {"end"} \union
                  (IF Len(input) < source.length THEN source.tokens ELSE {}) :
            input' = Append(input, t)
  /\ UNCHANGED source

Stay == UNCHANGED <<source, input>>

(* A call of parse_expression with prec, whose caller goes on at then.     *)
Parse(then, prec, left, op) ==
  /\ calls' = Append(calls, [then |-> then, prec |-> prec, op |-> op,
                             left |-> left, greater |-> greater])
  /\ phase' = "expression" /\ node' = Null

Continue(n) == node' = n /\ phase' = "operator" /\ UNCHANGED calls
Go(to, n) == node' = n /\ phase' = to /\ UNCHANGED calls
Return(n) == node' = n /\ phase' = "return" /\ UNCHANGED calls
Calm == UNCHANGED <<greater, failed>>
Fail == failed' = TRUE /\ UNCHANGED greater
FailUnless(ok) == failed' = (failed \/ ~ok) /\ UNCHANGED greater

-----------------------------------------------------------------------------
(* parse_expression: the first token of an operand.                        *)

Operand ==
  /\ phase = "expression" /\ token \in Leaves
  /\ Continue(Leaf(token)) /\ Advance /\ Calm

Prefix ==
  /\ phase = "expression" /\ token \in PrefixOperators
  /\ Parse("prefix", symbols[token].pre, Null, token) /\ Advance /\ Calm

OpenParenthesis ==
  /\ phase = "expression" /\ token = "("
  /\ Parse("parenthesis", 0, Null, "") /\ Advance /\ Calm

OpenArray ==
  /\ phase = "expression" /\ token \in {"[", "{"}
  /\ Go("elements", Node("array", "", <<>>)) /\ Advance /\ Calm

(* The condition of the loop over the elements of an array.                *)
Elements ==
  /\ phase = "elements"
  /\ IF token \in {"}", ";", "end"}
     THEN Continue(node) /\ Advance
     ELSE Parse("element", Comma + 1, node, "") /\ Stay
  /\ Calm

Keyword ==
  /\ phase = "expression"
  /\ \/ token = "typename" /\ Parse("typename", Scope, Null, "")
     \/ token \in {"sizeof", "template", "static_cast", "new", "delete"}
        /\ Go(token, Null)
  /\ Advance /\ Calm

Sizeof ==
  /\ phase = "sizeof"
  /\ IF token = "(" THEN Go("sizeof type", Null) /\ Advance
     ELSE Parse("sizeof", UnaryPre, Null, "") /\ Stay
  /\ Calm

(* Parser/readers/read_type.cpp.  read_type takes any parameter of a       *)
(* template for a type, and leaves a token that is no type where it is.    *)
TypeNames == Types \union {"p"}

AtType == phase \in {"sizeof type", "cast type", "new type"}
AfterType == phase \in {"sizeof )", "cast >", "new bound"}

(* A second type is an error, and stands for both; a class is not read.    *)
AtSecondType ==
  AfterType /\ node # Null /\ node.kids = <<>> /\ token \in {"int", "T"}

SecondType ==
  /\ AtSecondType
  /\ Go(phase, [node EXCEPT !.content = token]) /\ Advance /\ Fail

(* What else could belong to the type, and is left out.                    *)
AtDeclarator ==
  \/ AtType /\ token = "typename"
  \/ AfterType /\ token = "::"
  \/ phase = "sizeof )" /\ token \in Definitions \union {"v", "(", "["}
     /\ ~AtSecondType

SizeofType ==
  /\ phase = "sizeof type" /\ ~AtDeclarator
  /\ IF token \in TypeNames
     THEN Go("sizeof )", AsType(Leaf(token))) /\ Advance
     ELSE Go("sizeof )", Null) /\ Stay
  /\ FailUnless(token \in TypeNames)

(* read_fulltype reads referencers after the type, even when there is none.*)
SizeofPointer ==
  /\ phase = "sizeof )" /\ token = "*"
  /\ Go(phase, Pointer(node)) /\ Advance /\ Calm

SizeofEnd ==
  /\ phase = "sizeof )" /\ token # "*" /\ ~AtSecondType /\ ~AtDeclarator
  /\ Continue(Node("sizeof", "", <<node>>)) /\ Advance
  /\ FailUnless(token = ")")

TemplateId ==
  /\ phase = "template"
  /\ IF token \in Definitions \union {"v"}
     THEN Continue(Node("template id", token, <<>>)) /\ Advance /\ Calm
     ELSE Return(Null) /\ Stay /\ Fail

(* The tokens that must follow static_cast, and where each one leads.      *)
Awaited ==
  [at \in {"static_cast", "cast type", "cast >", "cast ("} |->
     CASE at = "static_cast" -> [tokens |-> {"<"}, next |-> "cast type"]
       [] at = "cast type"   -> [tokens |-> TypeNames, next |-> "cast >"]
       [] at = "cast >"      -> [tokens |-> {">"}, next |-> "cast ("]
       [] at = "cast ("      -> [tokens |-> {"("}, next |-> "expression"]]

NamedCast ==
  /\ phase \in DOMAIN Awaited /\ ~AtSecondType /\ ~AtDeclarator
  /\ IF token \notin Awaited[phase].tokens THEN Return(Null) /\ Stay /\ Fail
     ELSE /\ Advance /\ Calm
          /\ IF phase = "cast (" THEN Parse("named cast", 0, node, "")
             ELSE Go(Awaited[phase].next,
                     IF phase = "cast type" THEN Leaf(token) ELSE node)

(* new and delete leave the token after them current, and the end of       *)
(* parse_expression (SkipToken) reads one more.                            *)
New ==
  /\ phase = "new"
  /\ IF token = "(" THEN Parse("placement", 0, Null, "") /\ Advance
     ELSE Go("new type", Null) /\ Stay
  /\ Calm

NewType ==
  /\ phase = "new type" /\ ~AtDeclarator
  /\ IF token \in TypeNames THEN Go("new bound", Leaf(token)) /\ Advance
     ELSE Go("new bound", Null) /\ Stay
  /\ FailUnless(token \in TypeNames)

NewBound ==
  /\ phase = "new bound" /\ token # "*" /\ ~AtSecondType /\ ~AtDeclarator
  /\ IF token = "[" THEN Parse("bound", 0, node, "") /\ Advance
     ELSE Go("skip", Node("new", "", <<node>>)) /\ Stay
  /\ Calm

Delete ==
  /\ phase = "delete"
  /\ IF token = "[" THEN Go("delete ]", Null) /\ Advance
     ELSE Parse("delete", UnaryPre, Null, "") /\ Stay
  /\ Calm

DeleteArray ==
  /\ phase = "delete ]"
  /\ IF token = "]" THEN Parse("delete", UnaryPre, Null, "[]") /\ Calm
     ELSE Return(Null) /\ Fail
  /\ Stay

SkipToken == phase = "skip" /\ Continue(node) /\ Advance /\ Calm

Keywords ==
  {"typename", "sizeof", "template", "static_cast", "new", "delete"}
Starts == Leaves \union PrefixOperators \union {"(", "[", "{"} \union Keywords

NoExpression ==
  /\ phase = "expression" /\ token \notin Starts
  /\ Return(Null) /\ Stay /\ Fail

-----------------------------------------------------------------------------
(* parse_binary_or_unary_post: what may follow an operand.                 *)

AtOperator == phase = "operator"
IsOperator == token \in Operators /\ ~(token = ">" /\ ~greater)
Low(prec) == prec < call.prec

IsTypename(n) == n.class \in {"definition", "type"} /\ n.content \in Types

NamesTemplate(n) ==
  \/ n.class = "definition" /\ n.content = "M"
  \/ n.class = "template id"
  \/ n.class = "access" /\ n.kids[2].class = "template id"

(* A < after a name binds like a scope, whether or not it names a template.*)
Triangle ==
  token = "<" /\ node.class \in {"definition", "access", "template id"}
OpensArguments == Triangle /\ NamesTemplate(node)

AtValueOperator ==
  /\ AtOperator /\ IsOperator /\ ~OpensArguments /\ ~IsTypename(node)
  /\ ~(Triangle /\ Low(Scope))

Stop ==
  /\ AtOperator
  /\ \/ ~IsOperator /\ token \notin {"::", ",", "[", "(", "typename"}
     \/ token = "(" /\ node.class \notin {"definition", "type", "access"}
     \/ token = "," /\ Low(Comma)
     \/ token = "[" /\ Low(UnaryPost)
     \/ Triangle /\ Low(Scope)
     \/ AtValueOperator /\ symbols[token].binary > 0
        /\ Low(symbols[token].binary)
     \/ AtValueOperator /\ symbols[token].binary = 0
        /\ symbols[token].post > 0 /\ Low(symbols[token].post)
  /\ Return(node) /\ Stay /\ Calm

(* Mutant: the name after :: may only be read by what binds even tighter.  *)
AccessTooTight ==
  /\ AtOperator /\ token = "::"
  /\ Parse("access", Scope + 2, node, "::") /\ Advance /\ Calm

Access ==
  /\ AtOperator /\ token = "::"
  /\ Parse("access", Scope + 1, node, "::") /\ Advance /\ Calm

TemplateArguments ==
  /\ AtOperator /\ OpensArguments /\ ~Low(Scope)
  /\ Parse("argument", Comma + 1, Node("instantiation", "", <<node>>), "")
  /\ greater' = FALSE /\ Advance /\ UNCHANGED failed

(* An operator after a type: only a pointer to it can follow.              *)
TypeOperator ==
  /\ AtOperator /\ IsOperator /\ IsTypename(node) /\ ~(Triangle /\ Low(Scope))
  /\ IF token = "*" THEN Continue(Pointer(node)) /\ Advance /\ Calm
     ELSE Return(Null) /\ Stay /\ Fail

(* Mutant: every operator is grouped from the right.                       *)
BinaryFromRight ==
  /\ AtValueOperator /\ token # "?"
  /\ symbols[token].binary > 0 /\ ~Low(symbols[token].binary)
  /\ Parse("right", symbols[token].binary, node, token) /\ Advance /\ Calm

Binary ==
  /\ AtValueOperator /\ token # "?"
  /\ symbols[token].binary > 0 /\ ~Low(symbols[token].binary)
  /\ Parse("right",
           symbols[token].binary + (IF symbols[token].rtl THEN 0 ELSE 1),
           node, token)
  /\ Advance /\ Calm

Ternary ==
  /\ AtValueOperator /\ token = "?" /\ ~Low(symbols[token].binary)
  /\ Parse("if true", 0, node, "?") /\ Advance /\ Calm

Postfix ==
  /\ AtValueOperator /\ symbols[token].binary = 0
  /\ symbols[token].post > 0 /\ ~Low(symbols[token].post)
  /\ Continue(Node("postfix", token, <<node>>)) /\ Advance /\ Calm

OnlyPrefix ==
  /\ AtValueOperator /\ symbols[token].binary = 0 /\ symbols[token].post = 0
  /\ Return(node) /\ Stay /\ Fail

TypenameAfter ==
  /\ AtOperator /\ token = "typename" /\ Return(Null) /\ Stay /\ Fail

(* Parentheses after a namespace or a template; those after a type, or an  *)
(* object of some type, are a functional cast.                             *)
IsCall == AtOperator /\ token = "(" /\ node = Leaf("M")

Call ==
  /\ IsCall /\ Parse("arguments", 0, node, "") /\ greater' = TRUE
  /\ Advance /\ UNCHANGED failed

CommaOperator ==
  /\ AtOperator /\ token = "," /\ ~Low(Comma)
  /\ Parse("right", Comma, node, ",") /\ Advance /\ Calm

Subscript ==
  /\ AtOperator /\ token = "[" /\ ~Low(UnaryPost)
  /\ Parse("index", Comma, node, "[") /\ Advance /\ Calm

(* The inputs that are left out.                                           *)
LeaveOut ==
  /\ \/ AtDeclarator
     \/ phase = "new bound" /\ token = "*"
     \/ AtOperator /\ token = "(" /\ ~IsCall
        /\ node.class \in {"definition", "type", "access"}
  /\ Go("left out", node) /\ Stay /\ Calm

-----------------------------------------------------------------------------
(* What a caller of parse_expression does with the node that it returns.   *)

Returned(then) == phase = "return" /\ call.then = then
Caller == Front(calls)
Leave(to, n) == calls' = Caller /\ phase' = to /\ node' = n
Resume(n) == Leave("operator", n)
GiveUp(n) == Leave("return", n)
Kids(n) == call.left.kids \o <<n>>
Grown(n) == [call.left EXCEPT !.kids = Append(@, n)]

(* A second call of parse_expression from where the first one was made.    *)
ParseNext(then, prec, left) ==
  /\ calls' = Append(Caller, [call EXCEPT !.then = then, !.prec = prec,
                                          !.left = left])
  /\ phase' = "expression" /\ node' = Null

OperandReturned ==
  /\ \/ Returned("prefix") /\ Resume(Node("unary", call.op, <<node>>))
     \/ Returned("sizeof") /\ Resume(Node("sizeof", "", <<node>>))
     \/ Returned("cast")
        /\ Resume(Node("cast", call.left.content, <<node>>))
     \/ Returned("delete") /\ Leave("skip", Node("delete", call.op, <<node>>))
  /\ Stay /\ Calm

ParenthesisReturned ==
  /\ Returned("parenthesis")
  /\ IF node # Null /\ token = ")"
     THEN /\ IF IsTypename(node) THEN ParseNext("cast", UnaryPre, node)
             ELSE Resume(node)
          /\ Advance /\ Calm
     ELSE GiveUp(Null) /\ Stay /\ FailUnless(node = Null)

ElementReturned ==
  /\ Returned("element")
  /\ IF token = "," THEN Leave("elements", Grown(node))
     ELSE Resume(Grown(node))
  /\ Advance /\ FailUnless(node # Null /\ token \in {",", "}"})

TypenameReturned ==
  /\ Returned("typename")
  /\ LET named == node.class \in {"definition", "access", "type"}
     IN  GiveUp(IF named THEN node ELSE Null) /\ FailUnless(named)
  /\ Stay

NamedCastReturned ==
  /\ Returned("named cast")
  /\ IF token = ")"
     THEN Resume(Node("cast", call.left.content, <<node>>)) /\ Advance
     ELSE GiveUp(Null) /\ Stay
  /\ FailUnless(token = ")")

NewReturned ==
  /\ \/ /\ Returned("placement")
        /\ IF node # Null /\ token = ")" THEN Leave("new type", Null) /\ Advance
           ELSE GiveUp(Null) /\ Stay
        /\ FailUnless(token = ")")
     \/ /\ Returned("bound")
        /\ IF node # Null /\ token = "]"
           THEN Leave("skip", Node("new", "", <<call.left, node>>)) /\ Advance
           ELSE GiveUp(Null) /\ Stay
        /\ FailUnless(token = "]")

RightReturned ==
  /\ Returned("right") \/ Returned("access")
  /\ IF node = Null THEN GiveUp(call.left)
     ELSE Resume(Node(IF call.op = "::" THEN "access" ELSE "binary", call.op,
                      <<call.left, node>>))
  /\ Stay /\ FailUnless(node # Null)

TrueReturned ==
  /\ Returned("if true")
  /\ IF node # Null /\ token = ":"
     THEN /\ ParseNext("if false", 0,
                       Node("ternary", "?", <<call.left, node>>))
          /\ Advance
     ELSE GiveUp(Null) /\ Stay
  /\ FailUnless(node = Null \/ token = ":")

FalseReturned ==
  /\ Returned("if false")
  /\ IF node = Null THEN GiveUp(Null) ELSE Resume(Grown(node))
  /\ Stay /\ Calm

(* Mutants: the flag is restored only after a closing bracket; an argument *)
(* that could not be read is read again.                                   *)
ArgumentRestoresLate ==
  /\ Returned("argument")
  /\ IF node # Null /\ token = ","
     THEN ParseNext("argument", Comma + 1, Grown(node)) /\ UNCHANGED greater
     ELSE /\ Resume(IF node = Null THEN call.left ELSE Grown(node))
          /\ greater' = IF token = ">" THEN call.greater ELSE greater
  /\ IF node # Null /\ token \in {",", ">"} THEN Advance ELSE Stay
  /\ failed' = (failed \/ (node # Null /\ token \notin {",", ">"}))

ArgumentRetried ==
  /\ Returned("argument")
  /\ IF node = Null THEN ParseNext("argument", Comma + 1, call.left)
     ELSE IF token = "," THEN ParseNext("argument", Comma + 1, Grown(node))
     ELSE Resume(Grown(node))
  /\ greater' = IF phase' = "operator" THEN call.greater ELSE greater
  /\ IF node # Null /\ token \in {",", ">"} THEN Advance ELSE Stay
  /\ failed' = (failed \/ (node # Null /\ token \notin {",", ">"}))

ArgumentReturned ==
  /\ Returned("argument")
  /\ IF node # Null /\ token = ","
     THEN ParseNext("argument", Comma + 1, Grown(node)) /\ UNCHANGED greater
     ELSE /\ Resume(IF node = Null THEN call.left ELSE Grown(node))
          /\ greater' = call.greater
  /\ IF node # Null /\ token \in {",", ">"} THEN Advance ELSE Stay
  /\ failed' = (failed \/ (node # Null /\ token \notin {",", ">"}))

ArgumentsReturned ==
  /\ Returned("arguments") /\ greater' = call.greater
  /\ IF node = Null THEN GiveUp(call.left) /\ Stay
     ELSE Resume(Node("call", "", <<call.left, node>>)) /\ Advance
  /\ failed' = (failed \/ node = Null \/ token # ")")

IndexReturned ==
  /\ Returned("index")
  /\ IF node = Null THEN GiveUp(call.left) /\ Stay
     ELSE IF token = "]"
     THEN Resume(Node("subscript", "", <<call.left, node>>)) /\ Advance
     ELSE GiveUp(Node("subscript", "", <<call.left, node>>)) /\ Stay
  /\ FailUnless(node # Null /\ token = "]")

Done == Returned("done") /\ Leave("done", node) /\ Stay /\ Calm

Finished == phase \in {"done", "left out"} /\ UNCHANGED vars

Expression ==
  \/ Operand \/ Prefix \/ OpenParenthesis \/ OpenArray \/ Elements
  \/ Keyword \/ Sizeof \/ SizeofType \/ SizeofPointer \/ SizeofEnd
  \/ SecondType \/ TemplateId \/ NamedCast
  \/ New \/ NewType \/ NewBound \/ Delete \/ DeleteArray \/ SkipToken
  \/ NoExpression

AfterOperand ==
  \/ Stop \/ Access \/ TemplateArguments \/ TypeOperator \/ Binary \/ Ternary
  \/ Postfix \/ OnlyPrefix \/ TypenameAfter \/ Call \/ CommaOperator
  \/ Subscript \/ LeaveOut

AfterCall ==
  \/ OperandReturned \/ ParenthesisReturned \/ ElementReturned
  \/ TypenameReturned \/ NamedCastReturned \/ NewReturned \/ RightReturned
  \/ TrueReturned \/ FalseReturned \/ ArgumentReturned \/ ArgumentsReturned
  \/ IndexReturned \/ Done

Step == Expression \/ AfterOperand \/ AfterCall
Next == Step \/ Finished

(* The parser runs until it returns, and the lexer always has a token.     *)
Spec == Init /\ [][Next]_vars /\ WF_vars(Step)

-----------------------------------------------------------------------------
(* Every node has a class that AST_TYPE has, and the flag, the calls and   *)
(* the tokens have their types.                                            *)
Classes ==
  {"null", "literal", "definition", "identifier", "template id", "type", "*",
   "array", "unary", "postfix", "binary", "ternary", "cast", "sizeof", "new",
   "delete", "access", "instantiation", "call", "subscript"}

TypeOK ==
  /\ source \in Inputs /\ input \in Seq(source.tokens \union {"end"})
  /\ node.class \in Classes
  /\ \A i \in DOMAIN calls :
       /\ calls[i].prec \in 0..Scope + 1 /\ calls[i].greater \in BOOLEAN
       /\ calls[i].left.class \in Classes
  /\ greater \in BOOLEAN /\ failed \in BOOLEAN

(* AST::tt_greater_is_op is one flag for the whole tree, set and restored  *)
(* around template arguments and calls on every way out of them (AST.cpp   *)
(* 536-560, 723-725): a > is an operator exactly when the innermost of     *)
(* those that are open is not a list of template arguments.                *)
GreaterIsOperator ==
  LET lists == {i \in DOMAIN calls : calls[i].then \in {"argument", "arguments"}}
  IN  greater <=> (lists = {} \/ calls[Max(lists)].then = "arguments")
=============================================================================
