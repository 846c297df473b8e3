-------------------------- MODULE DeclaratorGrammar --------------------------
(***************************************************************************)
(* The declarators of C++, and what each of them declares.  A declarator   *)
(* is written as the sequence of its tokens; an operator after the name    *)
(* binds before one in front of it, so that with nodes in the order in     *)
(* which they apply to the name,                                           *)
(*    * D  is what D is, of pointers,                                      *)
(*    D [] and D (P) are what D is, of arrays and of functions, where D is *)
(*                   a name or ends in another of these or in parentheses. *)
(* readable is set on those that the readers are known to get right.  They *)
(* do not where                                                            *)
(*  - a pointer comes before the bounds of an array without a name: the    *)
(*    bound is pushed below it (read_type.cpp 297),                        *)
(*  - the parameters of a function without a name begin with a type of the *)
(*    program, which is not looked up after the look-ahead (306), or have  *)
(*    a comma after their first type (216),                                *)
(*  - another declarator follows that of a function or of an object that   *)
(*    is known: it begins with the referencers that are left               *)
(*    (handle_declarators.cpp 281).                                        *)
(* The parameters of the parameters of a function are lost in the copies   *)
(* that its declaration makes (references.cpp 62), which Keyed takes away. *)
(***************************************************************************)
EXTENDS Declarators

Written(tokens, name, nodes, direct, readable) ==
  [tokens |-> tokens, name |-> name, nodes |-> nodes, direct |-> direct,
   readable |-> readable]

Named(n) == Written(<<n>>, n, << >>, TRUE, TRUE)

Abstract == Written(<< >>, "", << >>, TRUE, TRUE)

Pointer(d) ==
  Written(<<"*">> \o d.tokens, d.name, Append(d.nodes, node("RT_POINTERTO")), FALSE,
          /\ d.readable
          /\ \A i \in 1..Len(d.tokens) :
               d.tokens[i] = "[]" => \E j \in 1..(i - 1) : d.tokens[j] # "*")

Array(d) ==
  Written(Append(d.tokens, "[]"), d.name, Append(d.nodes, node("RT_ARRAYBOUND")), TRUE,
          d.readable)

(* A parameter has a type and a declarator, and may have a default.        *)
Param(type, d, default) == [type |-> type, d |-> d, default |-> default]

ParamTokens(p) ==
  <<p.type>> \o p.d.tokens \o (IF p.default THEN <<"=">> ELSE << >>)

RECURSIVE ParamsTokens(_)
ParamsTokens(ps) ==
  CASE ps = << >> -> << >>
    [] Len(ps) = 1 -> ParamTokens(ps[1])
    [] OTHER -> ParamTokens(ps[1]) \o <<",">> \o ParamsTokens(Tail(ps))

Function(d, ps) ==
  Written(d.tokens \o <<"(">> \o ParamsTokens(ps) \o <<")">>, d.name,
          Append(d.nodes,
                 node_func([i \in 1..Len(ps) |->
                              full_type(ps[i].type, [nodes |-> ps[i].d.nodes,
                                                     name |-> ps[i].d.name])])),
          TRUE,
          /\ d.readable /\ \A i \in 1..Len(ps) : ps[i].d.readable
          /\ d.tokens = << >> /\ ps # << >> =>
               /\ ps[1].type # "T"
               /\ \/ Len(ps) = 1
                  \/ ps[1].default
                  \/ \E i \in 1..Len(ps[1].d.tokens) : ps[1].d.tokens[i] # "[]")

Group(d) == Written(<<"(">> \o d.tokens \o <<")">>, d.name, d.nodes, TRUE, d.readable)

(* One more operator around the declarators ds, with parameters from pss.  *)
Extended(ds, pss) ==
  LET direct == {d \in ds : d.direct}
  IN  {Pointer(d) : d \in ds}
        \union {Array(d) : d \in direct}
        \union {Function(d, ps) : d \in direct, ps \in pss}
        \union {Group(d) : d \in {e \in ds : e.name # "" \/ (e.tokens # << >> /\ e.tokens[1] = "*")}}

(* What the declarator d declares, if anything.                            *)
Members(d) ==
  IF d.name \in {"", "x"} THEN << >>
  ELSE <<[name |-> d.name,
          nodes |-> IF IsFunction(d.nodes) THEN Keyed(d.nodes) ELSE d.nodes]>>

Single(specifiers, d) ==
  [tokens |-> specifiers \o d.tokens \o <<";">>, readable |-> d.readable,
   members |-> Members(d)]

Double(specifiers, d, e) ==
  [tokens |-> specifiers \o d.tokens \o <<",">> \o e.tokens \o <<";">>,
   readable |-> /\ d.readable /\ e.readable
                /\ ~IsFunction(d.nodes) /\ (d.name = "x" => d.nodes = << >>),
   members |-> Members(d) \o Members(e)]

(* Any tokens after a type, of which nothing is known.                     *)
Text(tokens) == [tokens |-> tokens, readable |-> FALSE, members |-> << >>]
=============================================================================
