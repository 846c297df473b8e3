--------------------------- MODULE MCMacroExpansion ---------------------------
(* Macros that refer to each other, and one macro with any replacement     *)
(* list that is short.                                                     *)
EXTENDS MacroExpansion

MCNames == {"A", "B", "f", "g"}

Scalars(values) == {macro_type(FALSE, << >>, v) : v \in values}
Functions(params, values) == {macro_type(TRUE, params, v) : v \in values}

MCDefinitions ==
  [n \in MCNames |->
     CASE n = "A" -> Scalars({<<"B">>, <<"f">>, <<"g", "(">>})
       [] n = "B" -> Scalars({<< >>, <<"A", "B">>})
       [] n = "f" -> Functions(<<"x">>, {<<"x", "A">>, <<"x", "##", "B", "f", "x">>})
       [] n = "g" -> Functions(<<"x", "y">>, {<<"y", "f", "x">>})]

Program(a, b, f, g, input) ==
  [macros |-> [n \in MCNames |-> CASE n = "A" -> a [] n = "B" -> b
                                    [] n = "f" -> f [] n = "g" -> g],
   text |-> input]

Recursive ==
  LET AnyOf(n) == MCDefinitions[n] \union {NoMacro}
      anything == MCNames \union Punctuation \union {"#"}
      code == <<MCNames, anything, anything, anything, anything>>
  IN  {Program(a, b, f, g, code) :
         a \in MCDefinitions["A"], b \in AnyOf("B"),
         f \in AnyOf("f"), g \in MCDefinitions["g"]}

(* Calls g(A,A), g(A,), g(,A), g(,), g(A), g() and those that run on.      *)
Substituting(params, tokens, n) ==
  {Program(macro_type(FALSE, << >>, <<"f", "##", "B">>), NoMacro, NoMacro, g,
           <<{"g"}, {"("}, {"A", ","}, {",", "A", ")"}, {"A", ")"}, {")"}>>) :
     g \in {m \in Functions(params, SeqOf(tokens, n)) : WellFormed(m)}}

MCPrograms ==
  Recursive
    \union Substituting(<<"x", "y">>, {"x", "y", "A", "##", "#"}, 4)
    \union Substituting(<<"x", "y">>, {"x", "y", "##"}, 5)
    \union Substituting(<<"x", "">>, {"x", "__VA_ARGS__", "##"}, 5)
=============================================================================
