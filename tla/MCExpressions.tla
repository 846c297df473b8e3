---------------------------- MODULE MCExpressions ----------------------------
(* Small alphabets for Expressions, one for each group of constructs.      *)
EXTENDS Evaluation

In(first, tokens, length, prec) ==
  [first |-> first, tokens |-> tokens \union first, length |-> length,
   prec |-> prec]

MCInputs ==
  {In({"1", "-", "!"}, {"p", "*", "++", "&&", "<", "(", ")"}, 5, 0),
   In({"1", "p"}, {"=", "?", ":", ",", "-"}, 7, 0),
   In({"M"}, {"1", "<", ">", ",", "(", ")", "T"}, 7, 2),
   In({"{"}, {"1", "}", "[", "]", ",", "++", ";", "M"}, 6, 2),
   In({"(", "sizeof"}, {"p", "int", "T", "*", ")", "-"}, 6, 0),
   In({"static_cast"}, {"p", "int", "<", ">", "(", ")"}, 8, 0),
   In({"C", "typename", "template"}, {"v", "M", "::", "<", ">", "-"}, 6, 0),
   In({"new", "delete"}, {"T", "p", "1", "[", "]", "*", "(", ")"}, 5, 0)}
=============================================================================
