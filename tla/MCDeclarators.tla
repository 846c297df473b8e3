---------------------------- MODULE MCDeclarators ----------------------------
(* Declarators of up to four operators, pairs of them, and short texts.    *)
EXTENDS DeclaratorGrammar

Abstract1 == Extended({Abstract}, {<< >>, <<Param("int", Abstract, FALSE)>>})

Abstract2 == Extended(Abstract1, {<< >>, <<Param("int", Named("b"), FALSE)>>})

(* Lists of parameters with declarators of their own.                      *)
Some ==
  {<< >>, <<Param("T", Abstract, FALSE)>>,
   <<Param("int", Named("b"), TRUE), Param("T", Pointer(Abstract), FALSE)>>}

Others ==
  {<<Param("int", d, FALSE)>> : d \in Abstract1 \union Abstract2}
    \union {<<Param(t, d, FALSE), Param("int", Pointer(Named("b")), FALSE)>> :
              t \in Types, d \in Abstract1}

Deep(d) ==
  LET once == Extended({d}, Some \union Others)
      twice == Extended(Extended({d}, Some), Some)
  IN  {d} \union once \union twice \union Extended(twice, Some)
        \union Extended(Extended(twice, {<< >>}), {<< >>})

Shallow(d) == {d} \union Extended({d}, Some) \union Extended(Extended({d}, {<< >>}), {<< >>})

Texts ==
  {<<"int">> \o t : t \in SeqOf({"T", "x", "a", "const", "*", "[]", "(", ")", ",", "int"}, 3)}
    \union {<<"const">> \o t : t \in SeqOf({"T", "a", "*", "const"}, 2)}
    \union {<<"T">> \o t : t \in SeqOf({"x", "a", "*", "(", ")", ","}, 5)}

(* The same name again, as an object and as functions.                     *)
Repeated ==
  LET forms == {<<"a">>, <<"a", "(", ")">>, <<"a", "(", "T", ")">>,
                <<"a", "(", "int", "(", "*", ")", "(", "int", ")", ")">>,
                <<"a", "(", "int", "(", "*", ")", "(", "T", ")", ")">>}
  IN  {<<"int">> \o f \o <<",">> \o g \o <<",">> \o h : f, g, h \in forms}

MCDeclarations ==
  {Single(<<"int">>, d) : d \in Deep(Named("a"))}
    \union {Single(<<"const", "T">>, d) : d \in Shallow(Named("x"))}
    \union {Single(<<"int", "const">>, d) : d \in Abstract1 \union Abstract2}
    \union {Double(<<"T">>, d, e) : d \in Shallow(Named("a")) \union Shallow(Named("x")),
                                    e \in Shallow(Named("b"))}
    \union {Text(t) : t \in Texts \union Repeated}
=============================================================================
