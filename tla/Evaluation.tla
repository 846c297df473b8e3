------------------------------ MODULE Evaluation ------------------------------
(***************************************************************************)
(* What expressions are worth: eval, coerce, duplicate and remap of the    *)
(* nodes that Expressions builds (src/API/AST.cpp,                         *)
(* Storage/definition_duplicate.cpp, value.cpp, value_funcs.cpp), and what *)
(* the grammar of C++ makes of the same tokens, to compare the two.  The   *)
(* body of a template is evaluated twice: where it is read, with its       *)
(* parameters unknown, and in the copy that is remapped to the arguments.  *)
(***************************************************************************)
EXTENDS Expressions

(* A value of p that an instantiation can have; the definition it becomes  *)
(* has the name of the token that is written the same.                     *)
Constant == [c \in {"0", "2"} |-> IF c = "0" THEN 0 ELSE 2]
Bindings == [p : DOMAIN Constant]

-----------------------------------------------------------------------------
(* Storage/value.h: a value is a number, nothing, or not known yet.        *)

Value(type, n) == [type |-> type, n |-> n]
Integer(n) == Value("integer", n)
None == Value("none", 0)
Dependent == Value("dependent", 0)
Truth(b) == Integer(IF b THEN 1 ELSE 0)
Number(v) == v.type = "integer"

(* Storage/value_funcs.cpp.  The arithmetic and the comparisons test for   *)
(* dependent operands first, && for known ones.                            *)
Unknown(x, y) == IF Dependent \in {x, y} THEN Dependent ELSE None

Arithmetic(op, x, y) ==
  IF ~(Number(x) /\ Number(y)) THEN Unknown(x, y)
  ELSE CASE op = "-" -> Integer(x.n - y.n)
         [] op = "*" -> Integer(x.n * y.n)

Comparison(op, x, y) ==
  IF ~(Number(x) /\ Number(y)) THEN Unknown(x, y)
  ELSE Truth(IF op = "<" THEN x.n < y.n ELSE x.n > y.n)

(* Mutant: what is not a number counts as false.                           *)
BoolAndFalse(x, y) ==
  Truth(Number(x) /\ Number(y) /\ x.n # 0 /\ y.n # 0)

BoolAnd(x, y) ==
  IF Number(x) /\ Number(y) THEN Truth(x.n # 0 /\ y.n # 0) ELSE Unknown(x, y)

Operate(op, x, y) ==
  CASE op \in {"-", "*"} -> Arithmetic(op, x, y)
    [] op \in {"<", ">"} -> Comparison(op, x, y)
    [] op = "&&" -> BoolAnd(x, y)
    [] op \in {"=", ","} -> y

OperateUnary(op, x) ==
  IF ~Number(x) THEN x
  ELSE CASE op = "-"  -> Integer(-x.n)
         [] op = "*"  -> None
         [] op = "!"  -> Truth(x.n = 0)
         [] op = "++" -> Integer(x.n + 1)

-----------------------------------------------------------------------------
(* AST_Node_*::coerce, down to the definition of the type.  A parameter of *)
(* the template is one, the constant that replaces it is an int.           *)
TypeOf(name) ==
  IF name \in Types \union {"p", "M", "T=int"} THEN name ELSE "int"

RECURSIVE Coerce(_)
Coerce(n) ==
  CASE n.class \in {"literal", "identifier", "sizeof"} -> "int"
    [] n.class \in {"definition", "type", "cast"} -> TypeOf(n.content)
    [] n.class = "unary" /\ n.content = "!" -> "bool"
    [] n.class \in {"unary", "postfix", "binary", "call"} -> Coerce(n.kids[1])
    [] n.class = "ternary" -> Coerce(n.kids[2])
    [] n.class = "array" -> IF n.kids = <<>> THEN "int" ELSE Coerce(n.kids[1])
    [] n.class = "access" ->
         IF Coerce(n.kids[1]) = "C" /\ n.kids[2].content = "v" THEN "int"
         ELSE "none"
    [] OTHER -> "none"

(* definition::size_of: a parameter is a class without members.  Pointers  *)
(* are not looked at.                                                      *)
SizeOf(type) ==
  CASE type \in {"int", "T=int"} -> 4
    [] type \in {"bool", "T", "p", "C"} -> 1
    [] OTHER -> 0

RECURSIVE Eval(_)

EvalCast(n) ==
  LET x == Eval(n.kids[1]) IN
  IF n.content # "int" THEN None ELSE Integer(IF Number(x) THEN x.n ELSE 0)

EvalTernary(n) ==
  LET x == Eval(n.kids[1]) IN
  Eval(IF Number(x) /\ x.n # 0 THEN n.kids[2] ELSE n.kids[3])

EvalSubscript(n) ==
  LET i == Eval(n.kids[2])
      of == n.kids[1]
  IN  IF Number(i) /\ of.class = "array" /\ i.n \in 0..Len(of.kids) - 1
      THEN Eval(of.kids[i.n + 1]) ELSE None

EvalDefinition(n) ==
  CASE n.content \in DOMAIN Constant -> Integer(Constant[n.content])
    [] n.content \in {"p", "T"} -> Dependent
    [] OTHER -> None

EvalAccess(n) ==
  CASE Coerce(n.kids[1]) = "C" ->
         IF n.kids[2].content = "v" THEN Integer(5) ELSE Integer(0)
    [] Coerce(n.kids[1]) \in {"T", "p"} -> Dependent
    [] OTHER -> None

Eval(n) ==
  CASE n.class = "literal" ->
         Integer(IF n.content = "1" THEN 1 ELSE Constant[n.content])
    [] n.class = "definition" -> EvalDefinition(n)
    [] n.class = "binary" ->
         Operate(n.content, Eval(n.kids[1]), Eval(n.kids[2]))
    [] n.class \in {"unary", "postfix"} ->
         OperateUnary(n.content, Eval(n.kids[1]))
    [] n.class = "ternary" -> EvalTernary(n)
    [] n.class = "cast" -> EvalCast(n)
    [] n.class = "sizeof" -> Integer(SizeOf(Coerce(n.kids[1])))
    [] n.class = "array" ->
         IF n.kids = <<>> THEN Integer(0) ELSE Eval(n.kids[1])
    [] n.class = "subscript" -> EvalSubscript(n)
    [] n.class = "access" -> EvalAccess(n)
    [] OTHER -> None

(* AST::duplicate and AST::remap: T becomes a typedef of its argument, p a *)
(* constant, wherever a node of the copy refers to them.                   *)
FilterValues(name, b) ==
  IF name = "p" THEN b.p ELSE name     \* mutant: types keep the parameter

Filter(name, b) ==
  CASE name = "p" -> b.p [] name = "T" -> "T=int" [] OTHER -> name

(* The remap of a cast leaves its operand as it was.                       *)
RECURSIVE Remap(_, _)
Remap(n, b) ==
  LET kids == [i \in DOMAIN n.kids |-> Remap(n.kids[i], b)] IN
  CASE n.class \in {"definition", "type"} ->
         Node(n.class, Filter(n.content, b), kids)
    [] n.class = "cast" -> Node(n.class, Filter(n.content, b), n.kids)
    [] OTHER -> Node(n.class, n.content, kids)

RECURSIVE RefersTo(_)
RefersTo(n) ==
  (IF n.class \in {"definition", "type", "cast"} THEN {n.content} ELSE {})
    \union UNION {RefersTo(n.kids[i]) : i \in DOMAIN n.kids}

-----------------------------------------------------------------------------
(* The grammar of C++, read off a whole sequence s of tokens: the operator *)
(* that binds least, outside all brackets, is the root.                    *)

Levels ==
  <<{","}, {"=", "?"}, {"&&"}, {"<", ">"}, {"-"}, {"*"}>>
Level(op) == CHOOSE l \in DOMAIN Levels : op \in Levels[l]
Pairs == {<<"(", ")">>, <<"[", "]">>, <<"{", "}">>, <<"<", ">">>, <<"?", ":">>}

(* The brackets that are open after each token, ? and : among them.        *)
Nesting(s) ==
  LET opens(i) == \/ s[i] \in {"(", "[", "{", "?"}
                  \/ s[i] = "<" /\ i > 1 /\ s[i - 1] \in {"M", "static_cast"}
      nest[i \in 0..Len(s)] ==
        IF i = 0 THEN <<>>
        ELSE IF opens(i) THEN Append(nest[i - 1], i)
        ELSE IF nest[i - 1] # <<>> /\ <<s[Last(nest[i - 1])], s[i]>> \in Pairs
        THEN Front(nest[i - 1]) ELSE nest[i - 1]
  IN  nest

(* What each token ends: an operand, a type with its pointers, or nothing. *)
Ending(s) ==
  LET nest == Nesting(s)
      ends[i \in 1..Len(s)] ==
        LET open == Last(nest[i - 1])
            after == IF i = 1 THEN "nothing" ELSE ends[i - 1]
        IN
        CASE s[i] \in Types -> "type"
          [] s[i] = "*" /\ after = "type" -> "type"
          [] s[i] = "++" -> after
          [] s[i] \in (Leaves \ Types) \union DOMAIN Constant \union {"]", "}"} -> "operand"
          [] s[i] = ">" /\ nest[i] # nest[i - 1] -> "operand"
          [] s[i] = ")" /\ nest[i] # nest[i - 1] ->
               IF /\ after = "type"
                  /\ \A k \in open + 1..i - 1 : ends[k] = "type"
                  /\ open > 1 => /\ ends[open - 1] = "nothing"
                                 /\ s[open - 1] # "sizeof"
               THEN "nothing" ELSE "operand"
          [] OTHER -> "nothing"
  IN  ends

Outer(s) == {i \in DOMAIN s : Nesting(s)[i - 1] = <<>>}

BinaryOperators(s) ==
  {i \in Outer(s) \ {1} :
     \/ s[i] \in {",", "=", "?"}
     \/ /\ s[i] \in {"&&", "<", ">", "-", "*"} /\ Nesting(s)[i] = <<>>
        /\ Ending(s)[i - 1] # "nothing" /\ Ending(s)[i] # "type"}

Between(s, i, j) == SubSeq(s, i + 1, j - 1)

RECURSIVE Tree(_), Trees(_)

Trees(s) ==
  LET commas == {i \in Outer(s) : s[i] = ","}
      k == Min(commas)
  IN  IF s = <<>> THEN <<>>
      ELSE IF commas = {} THEN <<Tree(s)>>
      ELSE <<Tree(Between(s, 0, k))>> \o Trees(Between(s, k, Len(s) + 1))

AtRoot(s, k) ==
  LET n == Len(s)
      colon == CHOOSE i \in k..n : s[i] = ":" /\ Nesting(s)[i] = Nesting(s)[k - 1]
                                   /\ Nesting(s)[i] # Nesting(s)[i - 1]
  IN  IF s[k] = "?"
      THEN Node("ternary", "?", <<Tree(Between(s, 0, k)),
                                  Tree(Between(s, k, colon)),
                                  Tree(Between(s, colon, n + 1))>>)
      ELSE Node("binary", s[k], <<Tree(Between(s, 0, k)),
                                  Tree(Between(s, k, n + 1))>>)

Bracketed(s) ==
  LET n == Len(s)
      open == Last(Nesting(s)[n - 1])
      inner == Between(s, open, n)
      before == Between(s, 0, open)
  IN  IF s[n] # ")"
      THEN CASE s[n] = "]" -> Node("subscript", "", <<Tree(before), Tree(inner)>>)
             [] s[n] = "}" -> Node("array", "", Trees(inner))
             [] s[n] = ">" -> Node("instantiation", "", <<Tree(before)>> \o Trees(inner))
      ELSE IF open = 1 THEN Tree(inner)
      ELSE CASE s[1] = "sizeof" -> Node("sizeof", "", <<AsType(Tree(inner))>>)
             [] s[1] = "static_cast" -> Node("cast", s[3], <<Tree(inner)>>)
             [] OTHER -> Node("call", "", <<Tree(before), Tree(inner)>>)

(* Prefixes bind less than what follows an operand.                        *)
Tree(s) ==
  LET n == Len(s)
      roots == BinaryOperators(s)
      level == Min({Level(s[i]) : i \in roots})
      least == {i \in roots : Level(s[i]) = level}
      closed == Min({i \in 1..n : Nesting(s)[i] = <<>>})
  IN  IF roots # {} THEN AtRoot(s, IF level <= 2 THEN Min(least) ELSE Max(least))
      ELSE IF n = 1 THEN Leaf(s[1])
      ELSE CASE s[1] \in {"-", "*", "!", "++"} ->
                  Node("unary", s[1], <<Tree(Tail(s))>>)
             [] s[1] = "(" /\ closed < n /\ Ending(s)[closed] = "nothing" ->
                  Node("cast", s[2], <<Tree(Between(s, closed, n + 1))>>)
             [] s[1] = "sizeof" /\ s[2] # "(" ->
                  Node("sizeof", "", <<Tree(Tail(s))>>)
             [] OTHER ->
                  IF s[n] = "++" THEN Node("postfix", "++", <<Tree(Front(s))>>)
                  ELSE IF s[n] = "*" THEN Pointer(Tree(Front(s)))
                  ELSE IF s[n - 1] = "::"
                  THEN Node("access", "::", <<Tree(Between(s, 0, n - 1)), Leaf(s[n])>>)
                  ELSE Bracketed(s)

-----------------------------------------------------------------------------
Consumed == Front(input)
Parsed == phase = "done" /\ ~failed
Uses(tokens) == \E i \in DOMAIN Consumed : Consumed[i] \in tokens

(* What the comparison with the grammar leaves out: an array that ends     *)
(* without a brace, which is no error here; a :: that no name follows, and *)
(* a second :: after the name, which is grouped from the right, for        *)
(* parse_binary_or_unary_post compares no precedence at it; a pointer to a *)
(* value, which sizeof takes for a type; and the keywords of which AST.cpp *)
(* drops or leaves tokens.                                                 *)
Comparable ==
  /\ Nesting(Consumed)[Len(Consumed)] = <<>>
  /\ \A i \in DOMAIN Consumed :
       Consumed[i] = "::" =>
         /\ i < Len(Consumed) /\ Consumed[i + 1] = "v"
         /\ i + 1 < Len(Consumed) => Consumed[i + 2] # "::"
  /\ \A i \in 1..Len(Consumed) - 3 :
       SubSeq(Consumed, i, i + 3) # <<"sizeof", "(", "p", "*">>
  /\ ~Uses({"new", "delete", "typename", "template"})

CommaAfterColon ==
  \E i, j \in DOMAIN Consumed : i < j /\ Consumed[i] = ":" /\ Consumed[j] = ","

(* An expression that is parsed without an error is grouped as C++ groups  *)
(* it, and no token of it is lost: precedence climbing with a minimum for  *)
(* each operand (AST.cpp 583-640) builds the tree of the grammar.  The     *)
(* comma that an operand after a : takes as its own is left out; see       *)
(* CommaBindsLeast.                                                        *)
GroupsAsCpp ==
  Parsed /\ Comparable /\ ~CommaAfterColon => node = Tree(Consumed)

(* "The comma operator; has the lowest precedence of any operator"         *)
(* (System/symbols.h:32), of ?: too.                                       *)
CommaBindsLeast == Parsed /\ Comparable => node = Tree(Consumed)

EarlyNumber == Parsed /\ Comparable /\ Number(Eval(node))

(* A number that is computed while a parameter is unknown is the number    *)
(* that every instantiation computes: an operator whose operand is         *)
(* dependent says so.  For conditions, casts and sizes see                 *)
(* NumbersAreNotDependent.                                                 *)
EarlyValueStands ==
  EarlyNumber /\ ~Uses({"?", "sizeof", "static_cast", "int", "T"}) =>
    \A b \in Bindings : Eval(Remap(node, b)) = Eval(node)

(* VT_DEPENDENT: "The value stored depends on template parameters or other *)
(* matters of context" (Storage/value.h:36), for every expression.         *)
NumbersAreNotDependent ==
  EarlyNumber => \A b \in Bindings : Eval(Remap(node, b)) = Eval(node)

(* "If you hold any references to definitions in this map, update them"    *)
(* (API/AST.h:107): no node of the copy that an instantiation makes refers *)
(* to a parameter of the template.                                         *)
ParametersReplaced ==
  Parsed => \A b \in Bindings : RefersTo(Remap(node, b)) \cap {"p", "T"} = {}

(* An expression of a template, duplicated and remapped for its arguments, *)
(* is worth what C++ makes of the source with the arguments written out:   *)
(* each node evaluates its parameter as its argument.  Casts are left out  *)
(* where they depend on a parameter: their operand keeps it (see           *)
(* ParametersReplaced), and a parameter they cast to is remapped to a      *)
(* typedef of the argument, which Eval does not cast to.                   *)
RECURSIVE CastsDepend(_)
CastsDepend(n) ==
  \/ n.class = "cast" /\ RefersTo(n) \cap {"p", "T"} # {}
  \/ \E i \in DOMAIN n.kids : CastsDepend(n.kids[i])

Written(b) ==
  [i \in DOMAIN Consumed |->
     CASE Consumed[i] = "p" -> b.p [] Consumed[i] = "T" -> "int"
       [] OTHER -> Consumed[i]]

InstantiatedValue ==
  Parsed /\ Comparable /\ ~CommaAfterColon /\ ~CastsDepend(node) =>
    \A b \in Bindings : Eval(Remap(node, b)) = Eval(Tree(Written(b)))

(* Every input is parsed in finitely many steps: each loop of the parser   *)
(* ends or reads a token, up to the end of the code, which stays current.  *)
Ends == <>(phase \in {"done", "left out"})

=============================================================================
