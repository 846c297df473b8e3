------------------------------ MODULE Templates ------------------------------
(***************************************************************************)
(* Class templates: their parameters, the copy of a body for every list of *)
(* arguments, and the definitions that the copy is made to refer to        *)
(* (src/Parser/handlers/handle_templates.cpp, readers/                     *)
(* read_template_parameters.cpp, Storage/arg_key.cpp, definition.cpp,      *)
(* definition_duplicate.cpp).  A definition is its index in defs, the heap.*)
(* Declarations are read one by one; instantiating a template copies all   *)
(* that its body owns and then remaps the copies in turn, which evaluates  *)
(* their enumerators, which may instantiate again: frames is the C++ stack *)
(* of instantiate calls, and a step is one call, one remap or one return.  *)
(*                                                                         *)
(* A body has typed members (objects and typedefs), classes, enumerations  *)
(* and a base.  The program is one that C++ accepts in these ways: a       *)
(* template is used after its body, implemented once, and enumerators      *)
(* refer to themselves through smaller arguments only.  Left out: member   *)
(* templates, functions, friends, referencers of arguments.                *)
(***************************************************************************)
EXTENDS Integers, Sequences, SequencesExt, FiniteSetsExt, Functions

CONSTANTS
  Programs  \* the kinds of programs to read: the parameter lists and the
            \* specializations that they may declare, the constructs they
            \* use, and bounds: on templates (specializations included), on
            \* the definitions that bodies own, on uses, on instantiate calls
            \* within each other (128 in the code), and on arguments

ASSUME ConstantsAssumption ==
  \A p \in Programs :
    /\ {p.templates, p.members, p.uses, p.nest, p.value} \subseteq Nat
    /\ p.constructs \subseteq {"object", "typedef", "class", "enum", "base", "rename",
                               "recursion", "unbounded", "hypothetical"}

VARIABLES
  program,    \* the member of Programs that is read
  defs,       \* the definitions, in the order of allocation
  templates,  \* the templates and specializations
  open,       \* the body that is read: its template and its open classes
  frames,     \* the calls of definition_template::instantiate
  uses,       \* history: the number of uses,
  result,     \* history: what the last call was given and returned,
  exceeded    \* history: whether the limit of nesting was ever met

vars == <<program, defs, templates, open, frames, uses, result, exceeded>>

-----------------------------------------------------------------------------
(* Storage/definition.h and value.h.  A definition keeps what was written  *)
(* of it in spelt, which the program does not.                             *)

Value(type, n) == [type |-> type, n |-> n]
Integer(n) == Value("integer", n)
None == Value("none", 0)
Dependent == Value("dependent", 0)
Number(v) == v.type = "integer"

(* An expression: a number, a name, the enumerator A of another template,  *)
(* of this one for the argument less one (for ever, or down to zero), or   *)
(* an explicit one more than the enumerator before.  (An enumerator that   *)
(* is given no value after a dependent one has no expression to remap.)    *)
Expression(op, def, temp) == [op |-> op, def |-> def, temp |-> temp]
NoExpression == Expression("none", 0, 0)

(* No name: every parameter has one, and types of other kinds are spelt so. *)
NoName == ""

Definition(kind, parent, type) ==
  [kind |-> kind, parent |-> parent, type |-> type, value |-> None,
   expr |-> NoExpression, order |-> <<>>, general |-> <<>>, base |-> 0,
   spelt |-> NoName]

IntType == 1
ClassType == 2

(* Storage/arg_key.h: an argument is a type or a value, or abstract.       *)
Argument(kind, of) == [kind |-> kind, of |-> of]
Abstract(kind) == Argument(kind, -1)
IsAbstract(node) == node.of = -1
IsArgument(node) == node = Argument(node.kind, node.of)

(* A parameter is a type or a value.  A default is nothing, an argument of *)
(* its kind, or a parameter of its kind before that has none (one that is  *)
(* another's default fails, read_template_parameters.cpp 95).              *)
WellFormed(list) ==
  /\ list \in Seq(Range(list))
  /\ \A i, j \in DOMAIN list : list[i].name = list[j].name => i = j
  /\ \A i \in DOMAIN list :
       LET default == list[i].default IN
       /\ list[i].kind \in {"type", "value"} /\ list[i].name # NoName
       /\ IF default.kind = "parameter"
          THEN /\ default.of \in 1..i - 1 /\ list[default.of].default.kind = "none"
               /\ list[default.of].kind = list[i].kind
          ELSE /\ IsArgument(default) /\ ~IsAbstract(default)
               /\ default.kind \in {"none", list[i].kind}
               /\ default.kind = "type" => default.of \in {IntType, ClassType}

(* A pattern is of types and of the parameters of a list, each of them     *)
(* (one with a number in it matches any number, arg_key.cpp 151).          *)
Deducible(list, pattern) ==
  /\ WellFormed(list) /\ pattern \in Seq(Range(pattern))
  /\ \A i \in DOMAIN pattern :
       /\ IsArgument(pattern[i])
       /\ pattern[i].kind = "name" => \E p \in DOMAIN list : list[p].name = pattern[i].of
       /\ pattern[i].kind # "name" => pattern[i].kind = "type" /\ ~IsAbstract(pattern[i])
  /\ \A p \in DOMAIN list :
       \E i \in DOMAIN pattern : pattern[i] = Argument("name", list[p].name)

ASSUME ProgramsAssumption ==
  \A p \in Programs :
    /\ \A list \in p.lists : WellFormed(list)
    /\ \A r \in p.patterns : Deducible(r.list, r.args)

Template(params, named, names, defaults, body, of) ==
  [params |-> params, general |-> named, names |-> names,
   defaults |-> defaults, def |-> body, unread |-> TRUE,
   specializations |-> <<>>, instantiations |-> <<>>, of |-> of]

Init ==
  /\ program \in Programs
  /\ defs = <<Definition("atomic", 0, 0), Definition("class", 0, 0)>>
  /\ templates = <<>> /\ open = [temp |-> 0, scopes |-> <<>>]
  /\ frames = <<>> /\ uses = 0 /\ exceeded = FALSE
  /\ result = [temp |-> 0, args |-> <<>>, key |-> <<>>, def |-> 0]

Reading == frames = <<>>
AtOuter == Reading /\ open.temp = 0
KindOf(t, i) == defs[templates[t].params[i]].kind
Arity(t) == Len(templates[t].params)

-----------------------------------------------------------------------------
(* context_parser::handle_template: the list of parameters, each with its  *)
(* name, its kind and its default: a type, a value, the parameter at some  *)
(* place of the list, or none.                                             *)

Parameters(list) ==
  [i \in DOMAIN list |->
     [Definition(list[i].kind, 0, 0) EXCEPT
        !.value = IF list[i].kind = "value" THEN Dependent ELSE None]]

(* The definitions of a new template: its parameters, then its class.      *)
Allocate(list) == defs' = defs \o Parameters(list) \o <<Definition("class", 0, 0)>>
NewBody(list) == Len(defs) + Len(list) + 1

NewTemplate(list, of) ==
  LET params == [i \in DOMAIN list |-> Len(defs) + i]
      names == [i \in DOMAIN list |-> list[i].name]
      named == [m \in Range(names) |-> params[CHOOSE i \in DOMAIN names : names[i] = m]]
      defaults == [i \in DOMAIN list |-> list[i].default]
  IN  Template(params, named, names, defaults, NewBody(list), of)

OpenBody(t, body) == open' = [temp |-> t, scopes |-> <<body>>]

Declare(list, forward) ==
  /\ AtOuter /\ Len(templates) < program.templates
  /\ Allocate(list) /\ templates' = Append(templates, NewTemplate(list, 0))
  /\ IF forward THEN UNCHANGED open
     ELSE OpenBody(Len(templates) + 1, NewBody(list))
  /\ UNCHANGED <<program, frames, uses, result, exceeded>>

(* A map and what another one has besides.                                 *)
Both(map, other) ==
  [x \in DOMAIN map \union DOMAIN other |->
     IF x \in DOMAIN map THEN map[x] ELSE other[x]]

(* The names of a forward declaration are replaced one by one in the map   *)
(* that the body looks them up in, which does not overwrite.               *)
Inserted(map, name, def) == Both(map, [x \in {name} |-> def])

Erased(map, name) == Restrict(map, DOMAIN map \ {name})

RenamedKept(map, was, name, def) ==        \* mutant: the old name is kept
  IF was = name THEN map ELSE Inserted(map, name, def)

Renamed(map, was, name, def) ==
  IF was = name THEN map
  ELSE IF was \in DOMAIN map /\ map[was] = def
  THEN Inserted(Erased(map, was), name, def)
  ELSE Inserted(map, name, def)

NamedAnew(t, list) ==
  LET was == templates[t]
      map[i \in 0..Len(list)] ==
        IF i = 0 THEN was.general
        ELSE Renamed(map[i - 1], was.names[i], list[i].name, was.params[i])
  IN  map[Len(list)]

Redeclare(t, list) ==
  /\ AtOuter /\ "rename" \in program.constructs
  /\ templates[t].unread /\ templates[t].of = 0
  /\ defs[templates[t].def].order = <<>>
  /\ Len(list) = Arity(t) /\ \A i \in DOMAIN list : list[i].kind = KindOf(t, i)
  /\ templates' = [templates EXCEPT ![t].general = NamedAnew(t, list),
                     ![t].names = [i \in DOMAIN list |-> list[i].name]]
  /\ OpenBody(t, templates[t].def)
  /\ UNCHANGED <<program, defs, frames, uses, result, exceeded>>

(* A specialization: the key of its arguments, abstract where they are its *)
(* own parameters, and the places of the arguments each of those stands    *)
(* for.                                                                    *)
FilterOf(pattern) ==
  [i \in DOMAIN pattern |->
     IF pattern[i].kind = "name" THEN Abstract("type") ELSE pattern[i]]

Positions(list, pattern) ==
  [p \in DOMAIN list |->
     {i \in DOMAIN pattern : pattern[i] = Argument("name", list[p].name)}]

Specialize(t, list, pattern) ==
  /\ AtOuter /\ uses = 0 /\ Len(templates) < program.templates
  /\ templates[t].of = 0 /\ ~templates[t].unread
  /\ Len(pattern) = Arity(t)
  /\ \A i \in DOMAIN pattern :
       IF pattern[i].kind = "name"
       THEN \E p \in DOMAIN list : list[p].name = pattern[i].of /\ list[p].kind = KindOf(t, i)
       ELSE pattern[i].kind = KindOf(t, i)
  /\ Allocate(list)
  /\ templates' =
       Append([templates EXCEPT ![t].specializations =
                 Append(@, [filter |-> FilterOf(pattern), pattern |-> pattern,
                            inds |-> Positions(list, pattern),
                            temp |-> Len(templates) + 1])],
              NewTemplate(list, t))
  /\ OpenBody(Len(templates) + 1, NewBody(list))
  /\ UNCHANGED <<program, frames, uses, result, exceeded>>

-----------------------------------------------------------------------------
(* What is read into the innermost class of the open body.                 *)

scope == Last(open.scopes)
named == templates[open.temp].general
TypeNames == {x \in DOMAIN named : defs[named[x]].kind = "type"}
ValueNames == {x \in DOMAIN named : defs[named[x]].kind = "value"}

(* The definitions that one owns, and those that these own, and so on.     *)
Tree(body) ==
  LET tree[d \in DOMAIN defs] == {d} \union UNION {tree[m] : m \in Range(defs[d].order)}
  IN  tree[body]

Members == UNION {Tree(templates[t].def) \ {templates[t].def} : t \in DOMAIN templates}

ReadingBody == Reading /\ open.temp # 0 /\ Cardinality(Members) < program.members
Stay == UNCHANGED <<program, templates, frames, uses, result, exceeded>>

(* A member is declared in its scope: n more definitions, the first owned. *)
Declared(new) ==
  defs' = [defs EXCEPT ![scope].order = Append(@, Len(defs) + 1)] \o new

(* A type: a name of the list, an atomic one, or a typedef or class of the *)
(* body that is complete.                                                  *)
Types ==
  {[type |-> named[x], spelt |-> x] : x \in TypeNames} \union
  {[type |-> d, spelt |-> NoName] : d \in {IntType, ClassType} \union
     {m \in Tree(templates[open.temp].def) :
        \/ defs[m].kind = "typed" /\ "typedef" \in program.constructs
        \/ defs[m].kind = "class" /\ m \notin Range(open.scopes)}}

Member(t) ==
  /\ ReadingBody /\ "object" \in program.constructs
  /\ Declared(<<[Definition("typed", scope, t.type) EXCEPT !.spelt = t.spelt]>>)
  /\ Stay /\ UNCHANGED open

(* handle_dependent_tempinst: what depends on a parameter becomes a        *)
(* definition of its own, which nothing that is copied owns.               *)
Hypothetical(x, u) ==
  [Definition("hypothetical", scope, 0) EXCEPT
     !.expr = Expression("instance", named[x], u)]

DependentMember(x, u) ==
  /\ ReadingBody /\ "hypothetical" \in program.constructs
  /\ u # open.temp /\ ~templates[u].unread /\ Arity(u) = 1 /\ KindOf(u, 1) = "type"
  /\ Declared(<<Definition("typed", scope, Len(defs) + 2), Hypothetical(x, u)>>)
  /\ Stay /\ UNCHANGED open

OpenClass ==
  /\ ReadingBody /\ "class" \in program.constructs /\ Len(open.scopes) < 2
  /\ Declared(<<Definition("class", scope, 0)>>)
  /\ open' = [open EXCEPT !.scopes = Append(@, Len(defs) + 1)]
  /\ Stay

(* handle_class_inheritance: a base is a class or a parameter, or what a   *)
(* typedef stands for.                                                     *)
Unrolled(x) ==
  LET unrolled[d \in DOMAIN defs] ==
        IF defs[d].kind = "typed" THEN unrolled[defs[d].type] ELSE d
  IN  unrolled[x]

Spelt(t) ==
  LET spelt[d \in DOMAIN defs] ==
        IF defs[d].kind # "typed" THEN NoName
        ELSE IF defs[d].spelt # NoName THEN defs[d].spelt ELSE spelt[defs[d].type]
  IN  IF t.spelt # NoName THEN t.spelt ELSE spelt[t.type]

Inherit(t) ==
  /\ ReadingBody /\ "base" \in program.constructs
  /\ defs[scope].base = 0 /\ defs[scope].order = <<>>
  /\ defs[Unrolled(t.type)].kind \in {"class", "type"}
  /\ defs' = [defs EXCEPT ![scope].base = Unrolled(t.type), ![scope].spelt = Spelt(t)]
  /\ Stay /\ UNCHANGED open

(* handle_enum: enumerators are evaluated at once, and keep their          *)
(* expression.  One that instantiates for a parameter is dependent; the    *)
(* condition of a recursion is dependent too, and takes its other branch.  *)
Calls(e, x) ==
  /\ e.op \in {"access", "recursion", "unbounded"} /\ Number(x)
  /\ ~(e.op = "recursion" /\ x.n = 0)

Evaluated(e, x) ==
  CASE e.op = "number" -> Integer(0)
    [] e.op = "name" -> x
    [] e.op = "next" -> IF Number(x) THEN Integer(x.n + 1) ELSE x
    [] e.op = "recursion" -> Integer(0)
    [] OTHER -> Dependent

(* The same without the call: what it is made of the value that it found.  *)
Found(e, v) == IF e.op = "recursion" /\ Number(v) THEN Integer(v.n + 1) ELSE v

SelfAccesses ==
  {[expr |-> Expression(op, named[x], open.temp), spelt |-> x] :
     op \in {"recursion", "unbounded"} \intersect program.constructs, x \in ValueNames}

Accesses ==
  {[expr |-> Expression("access", named[x], u), spelt |-> x] :
     x \in ValueNames,
     u \in {u \in 1..open.temp - 1 :
             /\ ~templates[u].unread /\ templates[u].of = 0
             /\ Arity(u) = 1 /\ KindOf(u, 1) = "value"}}

Expressions ==
  {[expr |-> Expression("number", 0, 0), spelt |-> NoName]} \union
  {[expr |-> Expression("name", named[x], 0), spelt |-> x] : x \in ValueNames} \union
  (IF templates[open.temp].of # 0 \/ Arity(open.temp) # 1 THEN {}
   ELSE SelfAccesses \union Accesses)

Enumerator(parent, e, spelt) ==
  [Definition("constant", parent, IntType) EXCEPT !.expr = e, !.spelt = spelt,
     !.value = Evaluated(e, IF e.def = 0 THEN None
                            ELSE IF e.def > Len(defs) THEN Dependent
                            ELSE defs[e.def].value)]

Enumeration(e) ==
  LET n == Len(defs)
      first == Enumerator(n + 1, e.expr, e.spelt)
      next == [Enumerator(n + 1, Expression("next", n + 2, 0), NoName) EXCEPT
                 !.value = Evaluated(Expression("next", 0, 0), first.value)]
  IN  /\ ReadingBody /\ "enum" \in program.constructs /\ DOMAIN defs[scope].general = {}
      /\ defs' = [defs EXCEPT ![scope].order = Append(@, n + 1),
                     ![scope].general = [x \in {"A", "B"} |->
                                           IF x = "A" THEN n + 2 ELSE n + 3]]
                 \o <<[Definition("enum", scope, IntType) EXCEPT
                          !.order = <<n + 2, n + 3>>],
                       first, next>>
      /\ Stay /\ UNCHANGED open

CloseScope ==
  /\ Reading /\ open.temp # 0
  /\ IF Len(open.scopes) > 1
     THEN open' = [open EXCEPT !.scopes = Front(@)] /\ UNCHANGED templates
     ELSE /\ open' = [temp |-> 0, scopes |-> <<>>]
          /\ templates' = [templates EXCEPT ![open.temp].unread = FALSE]
  /\ UNCHANGED <<program, defs, frames, uses, result, exceeded>>

-----------------------------------------------------------------------------
(* read_template_parameters and check_read_template_parameters: arguments  *)
(* that are not given are defaults, in which the parameters that were      *)
(* given are replaced.                                                     *)

Default(t, i, args) ==
  LET default == templates[t].defaults[i] IN
  IF default.kind # "parameter" THEN default
  ELSE IF default.of <= Len(args) THEN args[default.of]
  ELSE Abstract(KindOf(t, i))

Key(t, args) ==
  [i \in 1..Arity(t) |-> IF i <= Len(args) THEN args[i] ELSE Default(t, i, args)]

Arguments(kind) ==
  IF kind = "value" THEN {Argument("value", n) : n \in 0..program.value}
  ELSE {Argument("type", d) : d \in {IntType, ClassType, result.def} \ {0}}

Frame(t, key, to, of) ==
  [temp |-> t, key |-> key, to |-> to, of |-> of, at |-> "enter", def |-> 0,
   copies |-> <<>>, todo |-> <<>>]

Use(t, args) ==
  /\ AtOuter /\ uses < program.uses /\ uses' = uses + 1
  /\ templates[t].of = 0 /\ ~templates[t].unread
  /\ Len(args) <= Arity(t)
  /\ \A i \in 1..Arity(t) :
       IF i <= Len(args) THEN args[i] \in Arguments(KindOf(t, i))
       ELSE templates[t].defaults[i].kind # "none"
  /\ LET key == Key(t, args) IN
     IF \E i \in DOMAIN key : IsAbstract(key[i])
     THEN /\ result' = [temp |-> t, args |-> args, key |-> key, def |-> 0]
          /\ UNCHANGED frames
     ELSE /\ frames' = <<Frame(t, key, "use", 0)>>
          /\ result' = [temp |-> 0, args |-> args, key |-> <<>>, def |-> 0]
  /\ UNCHANGED <<program, defs, templates, open, exceeded>>

-----------------------------------------------------------------------------
(* definition_template::find_specialization: the first of those that match *)
(* and have the greatest merit.                                            *)

Matches(filter, key) ==
  \A i \in DOMAIN filter :
    \/ IsAbstract(filter[i])
    \/ /\ filter[i].kind = key[i].kind
       /\ filter[i].kind = "type" => filter[i].of = key[i].of

(* spec_key::merit: one, and the places of what stands at more than one.   *)
Repeated(inds) == UNION {at \in Range(inds) : Cardinality(at) > 1}

(* Mutant: a parameter may stand for different arguments.                  *)
MeritAnyway(inds, key) == 1 + Cardinality(Repeated(inds))

Merit(inds, key) ==
  IF \E at \in Range(inds) : \E i, j \in at : key[i] # key[j] THEN 0
  ELSE 1 + Cardinality(Repeated(inds))

Merits(t, key) ==
  [s \in DOMAIN templates[t].specializations |->
     LET spec == templates[t].specializations[s] IN
     IF Matches(spec.filter, key) THEN Merit(spec.inds, key) ELSE 0]

(* The number of the specialization, or 0.                                 *)
Specialization(t, key) ==
  LET merits == Merits(t, key)
      best == {s \in DOMAIN merits : /\ merits[s] > 0
                                     /\ \A r \in DOMAIN merits : merits[r] <= merits[s]}
  IN  IF best = {} THEN 0 ELSE Min(best)

SpecializedKey(spec, key) == [p \in DOMAIN spec.inds |-> key[Min(spec.inds[p])]]

-----------------------------------------------------------------------------
(* definition_template::instantiate.                                       *)

frame == Last(frames)
Caller == Front(frames)
Entering == frames # <<>> /\ frame.at = "enter"
Chosen == Specialization(frame.temp, frame.key)
TooDeep == Len(frames) > program.nest
Instances(t) == templates[t].instantiations
Existing ==
  {i \in DOMAIN Instances(frame.temp) : Instances(frame.temp)[i].key = frame.key}

Returning(d) == Append(Caller, [frame EXCEPT !.at = "return", !.def = d])

Bail ==
  /\ Entering /\ TooDeep
  /\ frames' = Returning(0) /\ exceeded' = TRUE
  /\ UNCHANGED <<program, defs, templates, open, uses, result>>

Specialized ==
  /\ Entering /\ ~TooDeep /\ Chosen # 0
  /\ LET spec == templates[frame.temp].specializations[Chosen] IN
     frames' = Caller \o <<[frame EXCEPT !.at = "remap"],
                           Frame(spec.temp, SpecializedKey(spec, frame.key),
                                 "specialized", 0)>>
  /\ UNCHANGED <<program, defs, templates, open, uses, result, exceeded>>

Reuse ==
  /\ Entering /\ ~TooDeep /\ Chosen = 0 /\ Existing # {}
  /\ frames' = Returning(Instances(frame.temp)[Min(Existing)].def)
  /\ UNCHANGED <<program, defs, templates, open, uses, result, exceeded>>

(* arg_key::make_definition: a typedef or a constant for each parameter.   *)
MadeOf(node) ==
  IF node.kind = "type" THEN Definition("typed", 0, node.of)
  ELSE [Definition("constant", 0, IntType) EXCEPT !.value = Integer(node.of)]

(* All that a body owns, each after what it owns itself.                   *)
PostOrder(body) ==
  LET from[d \in DOMAIN defs] ==
        FlattenSeq([k \in DOMAIN defs[d].order |-> from[defs[d].order[k]]]) \o <<d>>
  IN  from[body]

(* definition_*::duplicate: the copies own copies, and refer to what the   *)
(* originals refer to.  Mutant: they own what the originals own.           *)
DuplicatesShallow(originals, copies) ==
  [i \in DOMAIN originals |-> defs[originals[i]]]

Duplicates(originals, copies) ==
  [i \in DOMAIN originals |->
     [defs[originals[i]] EXCEPT !.order = [k \in DOMAIN @ |-> copies[@[k]]]]]

Duplicate ==
  /\ Entering /\ ~TooDeep /\ Chosen = 0 /\ Existing = {}
  /\ LET t == templates[frame.temp]
         originals == PostOrder(t.def)
         n == Len(defs) + Len(originals)
         copies == [d \in Range(originals) |->
                      Len(defs) + CHOOSE i \in DOMAIN originals : originals[i] = d]
         made == [p \in Range(t.params) |->
                    n + CHOOSE i \in DOMAIN t.params : t.params[i] = p]
     IN  /\ defs' = defs \o Duplicates(originals, copies)
                         \o [i \in DOMAIN frame.key |-> MadeOf(frame.key[i])]
         /\ frames' = Append(Caller,
              [frame EXCEPT !.at = "remap", !.def = copies[t.def],
                 !.copies = Both(copies, made),
                 !.todo = [i \in DOMAIN originals |-> Len(defs) + i]])
         /\ templates' = [templates EXCEPT ![frame.temp].instantiations =
              Append(@, [key |-> frame.key, def |-> copies[t.def], copies |-> copies])]
  /\ UNCHANGED <<program, open, uses, result, exceeded>>

(* definition_*::remap.                                                    *)
filter(x) == IF x \in DOMAIN frame.copies THEN frame.copies[x] ELSE x

RemappedBase(x) ==
  IF x = 0 \/ filter(x) = x THEN x
  ELSE IF defs[Unrolled(filter(x))].kind # "class" THEN x ELSE Unrolled(filter(x))

Remapped(d) ==
  CASE d.kind = "typed" -> [d EXCEPT !.type = filter(@), !.parent = filter(@)]
    [] d.kind = "class" ->
         [d EXCEPT !.parent = filter(@), !.base = RemappedBase(@),
                   !.general = [x \in DOMAIN @ |-> filter(@[x])]]
    [] OTHER -> d

next == Head(frame.todo)
Remapping == frames # <<>> /\ frame.at = "remap" /\ frame.todo # <<>>
(* Mutant: the loop does not go on after an enumeration.                   *)
DoneAgain ==
  Append(Caller, [frame EXCEPT !.todo = IF defs[next].kind = "enum" THEN @ ELSE Tail(@)])

Done == Append(Caller, [frame EXCEPT !.todo = Tail(@)])

Remap ==
  /\ Remapping /\ defs[next].kind # "constant"
  /\ defs' = [defs EXCEPT ![next] = Remapped(@)] /\ frames' = Done
  /\ UNCHANGED <<program, templates, open, uses, result, exceeded>>

(* A value that is known takes the place of its expression.                *)
Settled(d, v) ==
  [d EXCEPT !.value = v, !.expr = IF v = Dependent THEN @ ELSE NoExpression]

(* Mutant: the enumerator is evaluated before its expression is remapped.  *)
RemapEnumeratorLate ==
  /\ Remapping /\ defs[next].kind = "constant"
  /\ LET e == defs[next].expr
         here == [defs[next] EXCEPT !.parent = filter(@), !.expr.def = filter(@)]
         x == IF e.def = 0 THEN None ELSE defs[e.def].value
     IN  defs' = [defs EXCEPT ![next] =
                    IF e.op = "none" THEN here ELSE Settled(here, Evaluated(e, x))]
  /\ frames' = Done
  /\ UNCHANGED <<program, templates, open, uses, result, exceeded>>

RemapEnumerator ==
  /\ Remapping /\ defs[next].kind = "constant"
  /\ LET e == [defs[next].expr EXCEPT !.def = filter(@)]
         x == IF e.def = 0 THEN None ELSE defs[e.def].value
         here == [defs[next] EXCEPT !.parent = filter(@), !.expr = e]
         arg == IF e.op = "access" THEN x.n ELSE x.n - 1
     IN  IF Calls(e, x)
         THEN /\ defs' = [defs EXCEPT ![next] = here]
              /\ frames' = Append(Done, Frame(e.temp, <<Argument("value", arg)>>,
                                              "enumerator", next))
         ELSE /\ defs' = [defs EXCEPT ![next] =
                             IF e.op = "none" THEN here
                             ELSE Settled(here, Evaluated(e, x))]
              /\ frames' = Done
  /\ UNCHANGED <<program, templates, open, uses, result, exceeded>>

Finish ==
  /\ frames # <<>> /\ frame.at = "remap" /\ frame.todo = <<>>
  /\ frames' = Returning(frame.def)
  /\ UNCHANGED <<program, defs, templates, open, uses, result, exceeded>>

(* AST_Node_Scope::eval of the definition that instantiate returned: that  *)
(* of nothing has no value, and a name that is not in it counts as 0.      *)
ValueIn(d) ==
  IF d = 0 THEN None
  ELSE IF "A" \notin DOMAIN defs[d].general THEN Integer(0)
  ELSE defs[defs[d].general["A"]].value

Return ==
  /\ frames # <<>> /\ frame.at = "return"
  /\ CASE frame.to = "use" ->
            /\ frames' = Caller /\ UNCHANGED defs
            /\ result' = [result EXCEPT !.temp = frame.temp, !.key = frame.key,
                                        !.def = frame.def]
       [] frame.to = "specialized" ->
            /\ frames' = [Caller EXCEPT ![Len(Caller)].at = "return",
                                        ![Len(Caller)].def = frame.def]
            /\ UNCHANGED <<program, defs, result>>
       [] frame.to = "enumerator" ->
            /\ frames' = Caller /\ UNCHANGED result
            /\ defs' = [defs EXCEPT ![frame.of] =
                          Settled(@, Found(defs[frame.of].expr, ValueIn(frame.def)))]
  /\ UNCHANGED <<program, templates, open, uses, exceeded>>

-----------------------------------------------------------------------------
Instantiate ==
  \/ Bail \/ Specialized \/ Reuse \/ Duplicate
  \/ Remap \/ RemapEnumerator \/ Finish \/ Return

TemplateDeclaration ==
  \/ \E list \in program.lists, forward \in BOOLEAN :
       (forward => "rename" \in program.constructs) /\ Declare(list, forward)
  \/ \E t \in DOMAIN templates :
       \/ \E list \in program.lists : Redeclare(t, list)
       \/ \E p \in program.patterns : Specialize(t, p.list, p.args)

MemberDeclaration ==
  /\ Reading /\ open.temp # 0
  /\ \/ \E t \in Types : Member(t)
     \/ \E t \in Types : Inherit(t)
     \/ \E e \in Expressions : Enumeration(e)
     \/ \E x \in TypeNames, u \in DOMAIN templates : DependentMember(x, u)
     \/ OpenClass
     \/ CloseScope

UseTemplate ==
  /\ AtOuter /\ uses < program.uses
  /\ \E t \in DOMAIN templates :
       \E n \in 0..Arity(t) :
         \E args \in [1..n -> Arguments("type") \union Arguments("value")] : Use(t, args)

(* The end of the input, of which there is no more to read.                *)
EndOfInput == AtOuter /\ UNCHANGED vars

Next ==
  \/ TemplateDeclaration \/ MemberDeclaration \/ UseTemplate
  \/ Instantiate \/ EndOfInput

(* instantiate runs until it returns; nothing else runs meanwhile.         *)
Spec == Init /\ [][Next]_vars /\ WF_vars(Instantiate)

-----------------------------------------------------------------------------
InProgress == {frames[i].def : i \in DOMAIN frames}

Completed ==
  {ti \in (DOMAIN templates) \X (1..Len(defs)) :
     /\ ti[2] \in DOMAIN Instances(ti[1]) /\ ~templates[ti[1]].unread
     /\ Instances(ti[1])[ti[2]].def \notin InProgress}

Position(t, name) == CHOOSE i \in 1..Arity(t) : templates[t].names[i] = name

(* What t<key> means by a type that is written as name, or as d.           *)
Meant(t, instance, name, d) ==
  IF name # NoName THEN instance.key[Position(t, name)].of
  ELSE IF d \in DOMAIN instance.copies THEN instance.copies[d] ELSE d

(* Every definition refers to definitions and is owned by one at most,     *)
(* copies included; each instance of a template has a key of its own, of   *)
(* its arity; and a call of instantiate is at one of its three points.     *)
TypeOK ==
  /\ \A d \in DOMAIN defs :
       /\ defs[d].kind \in {"atomic", "class", "type", "value", "typed", "enum",
                            "constant", "hypothetical"}
       /\ {defs[d].parent, defs[d].type, defs[d].base} \subseteq 0..Len(defs)
       /\ \A e \in DOMAIN defs :
            Range(defs[d].order) \intersect Range(defs[e].order) # {} => d = e
       /\ defs[d].value.type \in {"integer", "none", "dependent"}
  /\ \A t \in DOMAIN templates :
       /\ \A i, j \in DOMAIN Instances(t) :
            Instances(t)[i].key = Instances(t)[j].key => i = j
       /\ \A i \in DOMAIN Instances(t) : Len(Instances(t)[i].key) = Arity(t)
  /\ \A i \in DOMAIN frames : frames[i].at \in {"enter", "remap", "return"}

(* A complete instance has copies of all that the body owns, in the same   *)
(* order and with copies as their parents; each refers to the argument     *)
(* where the body refers to a parameter, to the copy where it refers to a  *)
(* member, and to the same definition otherwise, by the names that the     *)
(* parameters have in the declaration with the body.  An enumeration keeps *)
(* its parent, which definition_enum::remap does not map.                  *)
MembersAsWritten ==
  \A ti \in Completed :
    LET t == ti[1]
        instance == Instances(t)[ti[2]]
        copies == instance.copies
    IN  /\ DOMAIN copies = Tree(templates[t].def)
        /\ \A d \in DOMAIN copies :
             LET was == defs[d]
                 is == defs[copies[d]]
             IN  /\ is.kind = was.kind
                 /\ was.spelt \in {NoName} \union Range(templates[t].names)
                 /\ is.order = [i \in DOMAIN was.order |-> copies[was.order[i]]]
                 /\ was.kind # "enum" /\ d # templates[t].def =>
                      is.parent = copies[was.parent]
                 /\ was.kind = "typed" =>
                      Unrolled(is.type) =
                        Unrolled(Meant(t, instance, was.spelt, was.type))
                 /\ was.base # 0 =>
                      LET base == Meant(t, instance, was.spelt, was.base) IN
                      defs[base].kind = "class" => is.base = base
                 /\ is.general = [x \in DOMAIN was.general |-> copies[was.general[x]]]

(* The number that C++ gives the enumerator A of a template with one       *)
(* parameter, for the argument n.                                          *)
Meaning ==
  LET meaning[t \in DOMAIN templates, n \in -program.nest - 1..program.value] ==
        LET general == defs[templates[t].def].general
            expr == IF "A" \in DOMAIN general THEN defs[general["A"]].expr
                    ELSE NoExpression
        IN  CASE expr.op = "number" -> 0
              [] expr.op = "name" -> n
              [] expr.op = "access" -> meaning[expr.temp, n]
              [] expr.op = "recursion" -> IF n <= 0 THEN 0 ELSE meaning[t, n - 1] + 1
              [] OTHER -> 0
  IN  meaning

(* The enumerators of a complete instance have the numbers that the        *)
(* arguments give them, whichever other instances were made on the way and *)
(* in which order; as long as the limit of nesting was not met, for an     *)
(* instance that meets it stays without values.                            *)
ValuesAsWritten ==
  ~exceeded =>
  \A ti \in Completed :
    LET t == ti[1]
        instance == Instances(t)[ti[2]]
        general == defs[instance.def].general
        original == defs[templates[t].def].general
        a == defs[original["A"]]
    IN  "A" \in DOMAIN general =>
          /\ defs[general["A"]].value =
               Integer(IF a.expr.op = "name" THEN instance.key[Position(t, a.spelt)].of
                       ELSE IF a.expr.op = "number" THEN 0
                       ELSE Meaning[t, instance.key[1].of])
          /\ defs[general["B"]].value = Integer(defs[general["A"]].value.n + 1)

(* What a use names: its arguments, then defaults for those before them.   *)
Expected(t, args) ==
  LET key[i \in 0..Arity(t)] ==
        IF i = 0 THEN <<>>
        ELSE LET default == templates[t].defaults[i] IN
             Append(key[i - 1],
                    IF i <= Len(args) THEN args[i]
                    ELSE IF default.kind = "parameter" THEN key[i - 1][default.of]
                    ELSE default)
  IN  key[Arity(t)]

Fits(pattern, key) ==
  \A i \in DOMAIN pattern :
    IF pattern[i].kind = "name"
    THEN \A j \in DOMAIN pattern : pattern[j] = pattern[i] => key[j] = key[i]
    ELSE pattern[i] = key[i]

Fitting(t, key) ==
  {s \in DOMAIN templates[t].specializations :
     Fits(templates[t].specializations[s].pattern, key)}

IsInstance(t, key, d) ==
  \E i \in DOMAIN Instances(t) : Instances(t)[i].key = key /\ Instances(t)[i].def = d

(* A use gets the instance of its arguments and defaults: of a             *)
(* specialization that fits them if there is one, for the arguments that   *)
(* its parameters stand for, and of the template itself if there is none.  *)
InstanceDesignated ==
  result.temp # 0 /\ ~exceeded =>
    LET key == Expected(result.temp, result.args)
        fitting == Fitting(result.temp, key)
        specs == templates[result.temp].specializations
    IN  IF fitting = {} THEN IsInstance(result.temp, key, result.def)
        ELSE \E s \in fitting :
               IsInstance(specs[s].temp, SpecializedKey(specs[s], key), result.def)

(* Every instantiation returns: instances that need each other are found,  *)
(* and what needs ever new ones is cut off at the limit.                   *)
InstantiationReturns == frames # <<>> ~> frames = <<>>
=============================================================================
