----------------------------- MODULE MCTemplates -----------------------------
(* Small programs for Templates, one for each group of constructs.         *)
EXTENDS Templates

Program(lists, patterns, constructs, temps, members, times) ==
  [lists |-> lists, patterns |-> patterns, constructs |-> constructs,
   templates |-> temps, members |-> members, uses |-> times,
   nest |-> 3, value |-> 2]

Type(name, default) == [name |-> name, kind |-> "type", default |-> default]
NoDefault == Argument("none", 0)
ValueParameter(name) == [name |-> name, kind |-> "value", default |-> NoDefault]
T == Type("T", NoDefault)
P == Type("P", NoDefault)
Named(name) == Argument("name", name)

OfMembers ==
  Program({<<T>>}, {}, {"object", "typedef", "class", "enum", "base"}, 1, 3, 1)
OfNames ==
  Program({<<T, Type("U", NoDefault)>>, <<Type("V", NoDefault), T>>}, {}, {"object", "rename"}, 1, 2, 2)
OfEnumerators ==
  Program({<<ValueParameter("n")>>}, {}, {"enum", "recursion", "unbounded"}, 2, 6, 2)
OfDependents ==
  Program({<<T>>}, {}, {"object", "hypothetical"}, 2, 3, 1)
OfSpecializations ==
  Program({<<T, Type("U", Argument("parameter", 1))>>},
          {[list |-> <<P>>, args |-> <<Named("P"), Named("P")>>],
           [list |-> <<P>>, args |-> <<Named("P"), Argument("type", 1)>>],
           [list |-> <<>>, args |-> <<Argument("type", 1), Argument("type", 2)>>]},
          {}, 3, 0, 2)

MCPrograms ==
  {OfMembers, OfNames, OfEnumerators, OfDependents, OfSpecializations}
=============================================================================
