-------------------------------- MODULE Scopes --------------------------------
(***************************************************************************)
(* Definitions and the scopes that hold them (src/Storage/definition.h,    *)
(* definition.cpp), as the handlers of declarations fill and search them   *)
(* (Parser/handlers, Parser/cclass_base.h).  A scope has two maps that own *)
(* definitions, members and c_structs, and lists of definitions and scopes *)
(* of others that lookup goes through.  A definition never goes away while *)
(* parsing, so a definition is its number in the order of allocation.      *)
(*                                                                         *)
(* The handlers are mutually recursive; open is their C++ stack, one frame *)
(* for each call of handle_scope or loop over enumerators, and type is the *)
(* result of read_type while declarators are read.  The input is any       *)
(* sequence of declarations, with errors a handler recovers from, except   *)
(* that no scope uses or inherits from one that uses it in turn, for then  *)
(* lookup never ends.  Left out: templates, constructors, friends, extern  *)
(* blocks, dec_order, protection, the overloads of a function (a second    *)
(* one leaves the function as it is here) and DEF_INCOMPLETE, which only   *)
(* decides whether an error is reported.  An error that leaves everything  *)
(* as it was is not a step.                                                *)
(***************************************************************************)
EXTENDS Integers, Sequences, SequencesExt, FiniteSetsExt

CONSTANTS
  Names,      \* the identifiers of the program
  MaxDefs,    \* bound: definitions, the global scope and int among them
  MaxOpen,    \* bound: frames
  MaxUses,    \* bound: used scopes of a scope, and ancestors of a class
  Namesakes   \* whether a namespace may have the name of an outer one

ASSUME ConstantsAssumption ==
  /\ MaxDefs \in Nat /\ MaxDefs >= 2
  /\ MaxOpen \in Nat \ {0} /\ MaxUses \in Nat
  /\ Namesakes \in BOOLEAN

VARIABLES
  defs,           \* the definitions that were allocated
  members,        \* definition_scope::members
  c_structs,      \* definition_scope::c_structs
  using_general,  \* definition_scope::using_general
  using_scopes,   \* definition_scope::using_scopes
  ancestors,      \* definition_class::ancestors
  open,           \* the calls of handle_scope that are active
  type            \* the type whose declarators are being read

maps == <<members, c_structs, using_general>>
vars == <<defs, maps, using_scopes, ancestors, open, type>>

None == 0
Global == 1
Builtin == 2
Slots == 1..MaxDefs
Defs == 1..Len(defs)

Classes == {"class", "union"}
Tagged == Classes \union {"enum"}        \* what c_structs holds
ScopeKinds == Tagged \union {"namespace"}
Kinds == ScopeKinds \union {"builtin", "typed", "constant"}
Frames == Tagged \union {"file", "namespace", "inline"}

(* A definition: typename is its flag DEF_TYPENAME, of is the type that a  *)
(* typedef stands for.  Objects and functions are "typed" both.            *)
Definition(kind, name, parent, of, typename) ==
  [kind |-> kind, name |-> name, parent |-> parent, of |-> of,
   typename |-> typename]

Init ==
  /\ defs = <<Definition("namespace", "", None, None, FALSE),
              Definition("builtin", "int", None, None, TRUE)>>
  /\ members = [s \in Slots |-> [n \in Names |-> None]]
  /\ c_structs = members /\ using_general = members
  /\ using_scopes = [s \in Slots |-> << >>]
  /\ ancestors = using_scopes
  /\ open = <<[scope |-> Global, by |-> "file"]>>
  /\ type = None

-----------------------------------------------------------------------------
(* Lookup.                                                                 *)

Kind(d) == IF d = None THEN "none" ELSE defs[d].kind

Own(s, n) == IF members[s][n] # None THEN members[s][n] ELSE using_general[s][n]

(* The scopes searched after those, in this order.                         *)
Searched(s) == using_scopes[s] \o ancestors[s]

First(found) ==
  LET hits == {i \in DOMAIN found : found[i] # None}
  IN IF hits = {} THEN None ELSE found[Min(hits)]

(* find_local of definition_scope and definition_class; no search goes     *)
(* deeper than there are scopes, k of them.                                *)
find_local(scope, n) ==
  LET find[k \in 0..MaxDefs] ==
        [s \in Slots |->
           IF k = 0 THEN None
           ELSE IF Own(s, n) # None THEN Own(s, n)
           ELSE First([i \in DOMAIN Searched(s) |-> find[k - 1][Searched(s)[i]]])]
  IN find[MaxDefs][scope]

FindIn(scopes, n) == First([i \in DOMAIN scopes |-> find_local(scopes[i], n)])

(* definition_class::look_up has no c_structs.                             *)
Structs(s, n) == IF Kind(s) \in {"class", "enum"} THEN None ELSE c_structs[s][n]

(* Mutant of Here: a scope's own definitions do not hide those of others.  *)
HereUsedFirst(s, n) ==
  First(<<FindIn(Searched(s), n), Own(s, n), Structs(s, n)>>)

(* What look_up finds before it asks the parent.                           *)
Here(s, n) ==
  IF Own(s, n) # None THEN Own(s, n)
  ELSE IF Structs(s, n) # None THEN Structs(s, n)
  ELSE FindIn(Searched(s), n)

look_up(scope, n) ==
  LET look[s \in Defs] ==
        IF Here(s, n) # None \/ defs[s].parent = None THEN Here(s, n)
        ELSE look[defs[s].parent]
  IN look[scope]

(* The definition at the end of a chain of typedefs.                       *)
Reduced(d) ==
  LET end[e \in 0..Len(defs)] ==
        IF Kind(e) = "typed" /\ defs[e].typename THEN end[defs[e].of] ELSE e
  IN end[d]

(* read_qualified_definition of n::m, by get_local.                        *)
Qualified(scope, n, m) ==
  LET q == Reduced(look_up(scope, n))
  IN IF Kind(q) \in ScopeKinds THEN find_local(q, m) ELSE None

Enclosing(scope) ==
  LET up[s \in Defs] ==
        {s} \union IF defs[s].parent = None THEN {} ELSE up[defs[s].parent]
  IN up[scope]

(* All that lookup in a scope goes through.                                *)
Reaches(scope) ==
  LET via[k \in 0..MaxDefs] ==
        IF k = 0 THEN {scope}
        ELSE LET nearer == via[k - 1]
             IN nearer \union UNION {ToSet(Searched(s)) : s \in nearer}
  IN via[MaxDefs]

-----------------------------------------------------------------------------
(* The handlers.  here is the scope they get.                              *)

here == Last(open).scope
Outer == open[Len(open) - 1].scope

Statement == type = None /\ Last(open).by # "enum"

Enter(scope, by) ==
  /\ Len(open) < MaxOpen
  /\ open' = Append(open, [scope |-> scope, by |-> by])

New == Len(defs) + 1

Allocate(kind, n, parent, of, typename) ==
  /\ New <= MaxDefs
  /\ defs' = Append(defs, Definition(kind, n, parent, of, typename))

(* std::map::insert: an entry that is there stays.                         *)
Inserted(map, s, n, d) == IF map[s][n] = None THEN [map EXCEPT ![s][n] = d] ELSE map

Uses(s, t) ==
  /\ Len(using_scopes[s]) < MaxUses
  /\ s \notin Reaches(t)                        \* excluded input, see above
  /\ using_scopes' = [using_scopes EXCEPT ![s] = Append(@, t)]

(* Mutant of Unwind: the file is not relaunched.                           *)
UnwindFile ==
  LET k == Max({i \in DOMAIN open : open[i].by # "namespace"})
  IN /\ open' = SubSeq(open, 1, k - 1)
     /\ type' = IF open[k].by \in Classes THEN open[k].scope ELSE None

(* handle_scope returns 1 to handle_namespace, which makes the outer       *)
(* handle_scope return 1 and so on, up to a caller that goes on: the rest  *)
(* of the body of a class, what follows an inline namespace, or the rest   *)
(* of the file, which is relaunched.                                       *)
Unwind ==
  LET k == Max({i \in DOMAIN open : open[i].by # "namespace"})
  IN /\ open' = SubSeq(open, 1, IF k = 1 THEN 1 ELSE k - 1)
     /\ type' = IF open[k].by \in Classes THEN open[k].scope ELSE None

(* handle_namespace.  The token is looked up in all enclosing scopes.      *)
handle_namespace(n, by) ==
  LET found == look_up(here, n)
  IN /\ Statement
     /\ Namesakes \/ found \in {None, members[here][n]}
     /\ \/ /\ found = None
           /\ Allocate("namespace", n, here, None, FALSE)
           /\ members' = Inserted(members, here, n, New)
           /\ Enter(New, by)
           /\ UNCHANGED type
        \/ /\ Kind(found) = "namespace"
           /\ Enter(found, by)
           /\ UNCHANGED <<defs, members, type>>
        \/ /\ Kind(found) \notin {"none", "namespace"}
           /\ by = "namespace"     \* handle_declarators recovers by itself
           /\ Unwind
           /\ UNCHANGED <<defs, members>>
     /\ UNCHANGED <<c_structs, using_general, using_scopes, ancestors>>

(* Mutant of get_location: another definition of that name is an error     *)
(* even if it is not qualified (cclass_base.h 72 without its condition).   *)
get_location_strict(scope, kind, n) ==
  LET found == look_up(scope, n)
      named == IF Kind(found) = kind THEN found ELSE None
      holders == {s \in Enclosing(scope) : c_structs[s][n] # None}
      nearest == Max(holders)
      same == holders # {} /\ Kind(c_structs[nearest][n]) = kind
  IN [class |-> IF same THEN c_structs[nearest][n] ELSE named,
      redeclare |-> same /\ nearest # scope,
      error |-> (found # None /\ named = None)
                \/ (holders # {} /\ ~same /\ nearest = scope)]

(* get_location: the class that the name after struct, union or enum       *)
(* denotes, whether a body makes a new one, and whether naming it is an    *)
(* error.                                                                  *)
get_location(scope, kind, n) ==
  LET found == look_up(scope, n)
      named == IF Kind(found) = kind THEN found ELSE None
      holders == {s \in Enclosing(scope) : c_structs[s][n] # None}
      nearest == Max(holders)       \* a scope is allocated after its parent
      same == holders # {} /\ Kind(c_structs[nearest][n]) = kind
  IN [class |-> IF same THEN c_structs[nearest][n] ELSE named,
      redeclare |-> same /\ nearest # scope,
      error |-> holders # {} /\ ~same /\ nearest = scope]

(* insnew.                                                                 *)
insnew(kind, n) ==
  /\ Allocate(kind, n, here, None, TRUE)
  /\ c_structs' = Inserted(c_structs, here, n, New)

(* Mutants of Implemented: the class of an outer scope is implemented; the *)
(* class that was declared here is not.                                    *)
ImplementedThere(kind, n) ==
  LET loc == get_location(here, kind, n)
  IN IF loc.class = None THEN New ELSE loc.class

ImplementedAnew(kind, n) == New

(* The class that a body, bases or an enumerator type are given to.        *)
Implemented(kind, n) ==
  LET loc == get_location(here, kind, n)
  IN IF loc.class = None \/ loc.redeclare THEN New ELSE loc.class

(* The class is found or made, and its name is not an error.               *)
Name(kind, n, class) ==
  /\ Statement
  /\ ~get_location(here, kind, n).error
  /\ IF class = New THEN insnew(kind, n) ELSE UNCHANGED <<defs, c_structs>>

(* handle_class and handle_union without a body.                           *)
class_mention(kind, n) ==
  LET named == get_location(here, kind, n).class
      class == IF named = None THEN New ELSE named
  IN /\ Name(kind, n, class)
     /\ type' = class
     /\ UNCHANGED <<members, using_general, using_scopes, ancestors, open>>

(* And with a body.                                                        *)
class_body(kind, n) ==
  LET class == Implemented(kind, n)
  IN /\ Name(kind, n, class)
     /\ Enter(class, kind)
     /\ UNCHANGED <<members, using_general, using_scopes, ancestors, type>>

(* handle_class with an ancestor, and a body or the error of having none.  *)
class_bases(n, b, body) ==
  LET class == Implemented("class", n)
      base == Reduced(look_up(here, b))
  IN /\ Name("class", n, class)
     /\ b # n                                   \* it would be the class itself
     /\ Kind(base) = "class" /\ \A i \in DOMAIN open : open[i].scope # base
     /\ class \notin Reaches(base)
     /\ Len(ancestors[class]) < MaxUses
     /\ ancestors' = [ancestors EXCEPT ![class] = Append(@, base)]
     /\ IF body THEN Enter(class, "class") /\ UNCHANGED type
                ELSE type' = class /\ UNCHANGED open
     /\ UNCHANGED <<members, using_general, using_scopes>>

(* handle_class_inheritance fails: the class was inserted already, and     *)
(* handle_scope skips the body.                                            *)
class_bad_base(n) ==
  /\ Implemented("class", n) = New
  /\ Name("class", n, New)
  /\ UNCHANGED <<members, using_general, using_scopes, ancestors, open, type>>

(* handle_enum up to its loop; only an enum with a type is made anew.      *)
handle_enum(n, typed, body) ==
  LET named == get_location(here, "enum", n).class
      enum == IF typed THEN Implemented("enum", n) ELSE IF named = None THEN New ELSE named
  IN /\ Name("enum", n, enum)
     /\ IF body THEN Enter(enum, "enum") /\ UNCHANGED type
                ELSE type' = enum /\ UNCHANGED open
     /\ UNCHANGED <<members, using_general, using_scopes, ancestors>>

(* Mutant of enumerator: its name is used in the scope of the enum.        *)
enumerator_of_parent(n) ==
  /\ Last(open).by = "enum"
  /\ members[here][n] = None
  /\ Allocate("constant", n, here, here, FALSE)
  /\ members' = Inserted(members, here, n, New)
  /\ using_general' = Inserted(using_general, defs[here].parent, n, New)
  /\ UNCHANGED <<c_structs, using_scopes, ancestors, open, type>>

(* One round of that loop.                                                 *)
enumerator(n) ==
  /\ Last(open).by = "enum"
  /\ members[here][n] = None
  /\ Allocate("constant", n, here, here, FALSE)
  /\ members' = Inserted(members, here, n, New)
  /\ using_general' = Inserted(using_general, Outer, n, New)
  /\ UNCHANGED <<c_structs, using_scopes, ancestors, open, type>>

(* A closing brace ends a call of handle_scope or the loop of handle_enum, *)
(* and its caller goes on.                                                 *)
right_brace ==
  /\ type = None /\ Len(open) > 1
  /\ open' = Front(open)
  /\ IF Last(open).by = "inline" THEN Uses(Outer, here) ELSE UNCHANGED using_scopes
  /\ IF Last(open).by \in Tagged THEN type' = here ELSE UNCHANGED type
  /\ UNCHANGED <<defs, maps, ancestors>>

(* read_type of a name, of N::name at the start of a declaration, where    *)
(* handle_scope looks up in the namespace, and of C::name.                 *)
Typenames ==
  LET simple == {look_up(here, n) : n \in Names}
      scoped == {look_up(s, n) : s \in {d \in simple : Kind(d) = "namespace"}, n \in Names}
      nested == {Qualified(here, n, m) :
                   n \in {x \in Names : Kind(look_up(here, x)) \notin {"none", "namespace"}},
                   m \in Names}
  IN {Builtin} \union {d \in (simple \union scoped \union nested) \ {None} : defs[d].typename}

read_type ==
  /\ Statement
  /\ type' \in Typenames
  /\ UNCHANGED <<defs, maps, using_scopes, ancestors, open>>

(* handle_declarators: a definition of its own, unless the name is taken   *)
(* in this scope, which is a redeclaration, an overload or an error.       *)
declarator(n, typename) ==
  /\ type # None
  /\ members[here][n] = None
  /\ Allocate("typed", n, here, IF typename THEN type ELSE None, typename)
  /\ members' = Inserted(members, here, n, New)
  /\ UNCHANGED <<c_structs, using_general, using_scopes, ancestors, open, type>>

semicolon ==
  /\ type # None
  /\ type' = None
  /\ UNCHANGED <<defs, maps, using_scopes, ancestors, open>>

(* using namespace n, or n::m.                                             *)
use_namespace(d) ==
  /\ Statement
  /\ Kind(d) = "namespace"
  /\ Uses(here, d)
  /\ UNCHANGED <<defs, maps, ancestors, open, type>>

(* using n::m, which is the only form that C++ has.                        *)
use_general(n, m) ==
  LET d == Qualified(here, n, m)
  IN /\ Statement
     /\ d # None
     /\ using_general' = Inserted(using_general, here, m, d)
     /\ UNCHANGED <<defs, members, c_structs, using_scopes, ancestors, open, type>>

Next ==
  \/ \E n \in Names, by \in {"namespace", "inline"} : handle_namespace(n, by)
  \/ \E kind \in Classes, n \in Names : class_mention(kind, n) \/ class_body(kind, n)
  \/ \E n, b \in Names, body \in BOOLEAN : class_bases(n, b, body)
  \/ \E n \in Names : class_bad_base(n)
  \/ \E n \in Names, typed, body \in BOOLEAN : handle_enum(n, typed, body)
  \/ \E n \in Names : enumerator(n)
  \/ right_brace
  \/ read_type
  \/ \E n \in Names, typename \in BOOLEAN : declarator(n, typename)
  \/ semicolon
  \/ \E n \in Names : use_namespace(look_up(here, n))
  \/ \E n, m \in Names : use_namespace(Qualified(here, n, m))
  \/ \E n, m \in Names : use_general(n, m)

Spec == Init /\ [][Next]_vars

-----------------------------------------------------------------------------
(* Types; a parent or type was allocated before what refers to it.         *)
TypeOK ==
  /\ defs \in Seq([kind : Kinds, name : Names \union {"", "int"}, parent : 0..MaxDefs,
                   of : 0..MaxDefs, typename : BOOLEAN])
  /\ Len(defs) \in 2..MaxDefs
  /\ \A d \in 3..Len(defs) : defs[d].parent \in 1..(d - 1) /\ defs[d].of \in 0..(d - 1)
  /\ {members, c_structs, using_general} \subseteq [Slots -> [Names -> 0..Len(defs)]]
  /\ {using_scopes, ancestors} \subseteq [Slots -> Seq(Defs)]
  /\ \A s \in Slots : Len(using_scopes[s]) <= MaxUses /\ Len(ancestors[s]) <= MaxUses
  /\ open \in Seq([scope : Defs, by : Frames]) /\ Len(open) \in 1..MaxOpen
  /\ type \in 0..Len(defs)

(* Definitions are held by unique_ptr, in the map of their parent under    *)
(* their name; one that no map held, or that two held, would be freed      *)
(* while types, used scopes and ancestors point to it.                     *)
Owned ==
  /\ \A d \in 3..Len(defs) :
       (IF defs[d].kind \in Tagged THEN c_structs ELSE members)[defs[d].parent][defs[d].name] = d
  /\ \A s \in Slots, n \in Names :
       \A d \in {members[s][n], c_structs[s][n]} \ {None} :
         defs[d].parent = s /\ defs[d].name = n
  /\ \A s \in Slots, n \in Names : Kind(members[s][n]) \notin Tagged

(* The body of a class or union belongs to a class of the scope it is in:  *)
(* when nclass is not null and will_redeclare is false, it is a "class in  *)
(* this scope" (handle_class.cpp 103-109).  That is so but where a tag of  *)
(* another kind stands between the scope and a class further out: it stops *)
(* the search of get_location, not that of look_up, and the body goes to   *)
(* the class further out.                                                  *)
ReopenedPastTag ==
  \A i \in 2..Len(open) :
    LET class == defs[open[i].scope]
        around == open[i - 1].scope
    IN open[i].by \in Classes =>
         \/ class.parent = around
         \/ \E e \in Enclosing(around) \ Enclosing(class.parent) :
              Kind(c_structs[e][class.name]) \in Tagged \ {class.kind}

(* A struct can be named by its tag in the scope that declares it,         *)
(* whatever else gets its name there or is looked up by it: c_structs      *)
(* exists "to emulate C's ability to have an object and structure by the   *)
(* same name".                                                             *)
StructsNameable ==
  \A s \in Defs, n \in Names :
    c_structs[s][n] # None =>
      get_location(s, Kind(c_structs[s][n]), n) =
        [class |-> c_structs[s][n], redeclare |-> FALSE, error |-> FALSE]

(* look_up finds what the nearest scope offers, where a scope offers its   *)
(* own definitions and those of all scopes that it uses or inherits from,  *)
(* and the former hide the latter: its members first, then the names it    *)
(* takes over by using, then its structs, "after using lookup but before   *)
(* checking used scopes" (definition.cpp 177).                             *)
Offers(s, n) ==
  ({Own(t, n) : t \in Reaches(s)} \union {Structs(s, n)}) \ {None}

OwnFirst(s, n, found) ==
  /\ members[s][n] # None => found = members[s][n]
  /\ members[s][n] = None /\ using_general[s][n] # None =>
       found = using_general[s][n]
  /\ Own(s, n) = None /\ Structs(s, n) # None => found = Structs(s, n)

ScopesMade == {d \in Defs : defs[d].kind \in ScopeKinds}

LooksUpNearest ==
  \A s \in ScopesMade, n \in Names :
    LET offering == {e \in Enclosing(s) : Offers(e, n) # {}}
        nearest == Max(offering)
        found == look_up(s, n)
    IN IF offering = {} THEN found = None
       ELSE /\ found \in Offers(nearest, n)
            /\ OwnFirst(nearest, n, found)

(* A declaration changes what a name means only where lookup goes through  *)
(* the scope it is made in, for an enumerator or an inline namespace the   *)
(* scope around, or the class it gives a base; everywhere else the program *)
(* keeps its meaning.                                                      *)
SearchedFrom(s) == UNION {Reaches(e) : e \in Enclosing(s)}

Affected ==
  (IF Last(open).by \in {"enum", "inline"} THEN {here, Outer} ELSE {here})
    \union {s \in Slots : ancestors'[s] # ancestors[s]}

DeclarationsLocal ==
  [][\A s \in ScopesMade, n \in Names :
       look_up(s, n)' # look_up(s, n) => SearchedFrom(s) \intersect Affected # {}
    ]_<<defs, maps, using_scopes, ancestors>>

(* "Copy the name and ensure it's a member of this scope"                  *)
(* (handle_namespace.cpp 39).                                              *)
NamespacesDefinedHere ==
  \A i \in 2..Len(open) :
    open[i].by \in {"namespace", "inline"} =>
      defs[open[i].scope].parent = open[i - 1].scope
=============================================================================
