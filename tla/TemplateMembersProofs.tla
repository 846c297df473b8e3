------------------------ MODULE TemplateMembersProofs ------------------------
(***************************************************************************)
(* Proofs about Templates: for any programs and any bounds, an instance    *)
(* has what its body was written to have.                                  *)
(***************************************************************************)
EXTENDS TemplatesProofs

-----------------------------------------------------------------------------
(* What is written of a template and its instances.                        *)
Whole(t) == Tree(templates[t].def)
Bodies == UNION {Whole(t) : t \in DOMAIN templates}

(* The parameters are apart, as are their names, which the map of the body *)
(* has no others than (not all of them once they were exchanged); defaults *)
(* are of the kind of their parameter.                                     *)
ParamsWritten(t) ==
  LET g == templates[t] IN
  /\ DOMAIN g.names = 1..Arity(t)
  /\ \A i \in 1..Arity(t) : KindOf(t, i) \in {"type", "value"} /\ g.names[i] # NoName
  /\ \A i, j \in 1..Arity(t) : g.params[i] = g.params[j] => i = j
  /\ \A i, j \in 1..Arity(t) : g.names[i] = g.names[j] => i = j
  /\ \A x \in DOMAIN g.general :
       \E i \in 1..Arity(t) : g.names[i] = x /\ g.general[x] = g.params[i]
  /\ \A i \in 1..Arity(t) :
       IF g.defaults[i].kind = "parameter" THEN KindOf(t, g.defaults[i].of) = KindOf(t, i)
       ELSE g.defaults[i].kind \in {"none", KindOf(t, i)}

(* x is the type parameter that is called name.                            *)
Spells(t, name, x) ==
  \E i \in 1..Arity(t) :
    templates[t].names[i] = name /\ templates[t].params[i] = x /\ KindOf(t, i) = "type"

SpecWritten(t, spec) ==
  \A p \in DOMAIN spec.inds : \A i \in spec.inds[p] : KindOf(spec.temp, p) = KindOf(t, i)

(* What is not read yet is only declared, or is open.  Only what was read  *)
(* has instances, and what a specialization is given is of the kinds of    *)
(* its parameters.                                                         *)
ReadWritten(t) ==
  LET g == templates[t] IN
  /\ g.unread /\ t # open.temp =>
       /\ g.of = 0
       /\ defs[g.def].order = << >> /\ defs[g.def].base = 0 /\ defs[g.def].spelt = NoName
  /\ \A i \in DOMAIN Instances(t) : ~g.unread
  /\ \A s \in DOMAIN g.specializations : SpecWritten(t, g.specializations[s])

(* A member of a body: its parent is in the body, and its type and base    *)
(* are what its spelling says, or no parameter.                            *)
MemberWritten(t, d) ==
  LET g == defs[d] IN
  /\ g.kind \in {"typed", "class", "enum", "constant"}
  /\ IF d = templates[t].def THEN g.kind = "class" ELSE g.parent \in Whole(t)
  /\ g.spelt \in {NoName} \union Range(templates[t].names)
  /\ g.kind = "typed" =>
       IF g.spelt # NoName THEN Spells(t, g.spelt, g.type)
       ELSE /\ defs[g.type].kind \notin {"type", "value"}
            /\ defs[g.type].kind = "typed" => g.type \in Whole(t)
  /\ g.base # 0 =>
       /\ g.kind = "class"
       /\ IF g.spelt # NoName THEN Spells(t, g.spelt, g.base) ELSE defs[g.base].kind = "class"
  /\ g.general = [x \in DOMAIN g.general |-> g.general[x]]
  /\ \A x \in DOMAIN g.general : g.kind = "class" /\ g.general[x] \in Whole(t)

KeyFits(t, key) ==
  DOMAIN key = 1..Arity(t) /\ \A i \in 1..Arity(t) : key[i].kind = KindOf(t, i)

(* What waits to be remapped.                                              *)
Awaited == UNION {Range(frames[j].todo) : j \in DOMAIN frames}

(* What was made for type arguments, which is not remapped.                *)
Stands(m, x) ==
  m \in DOMAIN defs /\ defs[m].kind = "typed" /\ defs[m].type = x /\ m \notin Awaited

(* map is what a call maps for an instance.                                *)
Maps(t, instance, map) ==
  /\ DOMAIN map = DOMAIN instance.copies \union Range(templates[t].params)
  /\ \A x \in DOMAIN instance.copies : map[x] = instance.copies[x]
  /\ \A i \in 1..Arity(t) :
       instance.key[i].kind = "type" => Stands(map[templates[t].params[i]], instance.key[i].of)

CopyOf(copies, x) == IF x \in DOMAIN copies THEN copies[x] ELSE x

(* The base is the one that is meant if that is a class.                   *)
BasedOn(g, x) == defs[x].kind = "class" => g.base = x

SameAs(is, was) ==
  /\ is.parent = was.parent /\ is.type = was.type /\ is.base = was.base
  /\ is.general = was.general

(* What a copy refers to once it is remapped.                              *)
CopyDone(t, instance, d) ==
  LET was == defs[d]
      copies == instance.copies
      is == defs[copies[d]]
  IN  /\ was.kind # "enum" /\ d # templates[t].def => is.parent = copies[was.parent]
      /\ was.kind = "typed" =>
           IF was.spelt # NoName
           THEN \A i \in 1..Arity(t) :
                  templates[t].names[i] = was.spelt => Stands(is.type, instance.key[i].of)
           ELSE is.type = CopyOf(copies, was.type)
      /\ was.base # 0 =>
           IF was.spelt # NoName
           THEN \A i \in 1..Arity(t) :
                  templates[t].names[i] = was.spelt => BasedOn(is, instance.key[i].of)
           ELSE BasedOn(is, CopyOf(copies, was.base))
      /\ is.general = [x \in DOMAIN was.general |-> copies[was.general[x]]]

CopyWritten(t, instance, d) ==
  LET was == defs[d]
      c == instance.copies[d]
      is == defs[c]
  IN  /\ c \in DOMAIN defs /\ c \notin Bodies
      /\ is.kind = was.kind
      /\ is.order = [k \in DOMAIN was.order |-> instance.copies[was.order[k]]]
      /\ c \in Awaited \/ CopyDone(t, instance, d)
      /\ \A j \in DOMAIN frames :
           c \in Range(frames[j].todo) =>
             /\ SameAs(is, was) /\ frames[j].def = instance.def
             /\ Maps(t, instance, frames[j].copies)

InstanceWritten(t, instance) ==
  /\ DOMAIN instance.copies = Whole(t)
  /\ KeyFits(t, instance.key) /\ KeyTyped(instance.key)
  /\ \A d \in Whole(t) : CopyWritten(t, instance, d)

TemplateWritten(t) ==
  /\ ParamsWritten(t) /\ ReadWritten(t)
  /\ \A d \in Whole(t) : MemberWritten(t, d)
  /\ \A i \in DOMAIN Instances(t) : InstanceWritten(t, Instances(t)[i])

WholesApart ==
  \A t, u \in DOMAIN templates : t # u => Whole(t) \intersect Whole(u) = {}

ExprWritten(e) ==
  e.op \in {"access", "recursion", "unbounded"} =>
    KindOf(e.temp, 1) = "value" /\ (templates[e.temp].unread => e.temp = open.temp)

FrameWritten(j) ==
  LET f == frames[j] IN
  /\ ~templates[f.temp].unread /\ KeyFits(f.temp, f.key)
  /\ \A c \in Range(f.todo) : c \notin Bodies
  /\ f.todo # << >> => f.at = "remap" /\ ~Passing(j)

OpenWritten ==
  open.temp # 0 =>
    /\ open.temp \in DOMAIN templates /\ templates[open.temp].unread /\ frames = << >>
    /\ \A x \in Range(open.scopes) : x \in Whole(open.temp) /\ defs[x].kind = "class"

Written ==
  /\ \A t \in DOMAIN templates : TemplateWritten(t)
  /\ WholesApart /\ OpenWritten
  /\ defs[IntType].kind = "atomic" /\ defs[ClassType].kind = "class"
  /\ \A d \in DOMAIN defs : ExprWritten(defs[d].expr)
  /\ \A j \in DOMAIN frames : FrameWritten(j)

LEMMA SpansWithin ==
  ASSUME Owned, Treelike, NEW b, NEW S, NEW T, Spans(S, b), Spans(T, b)
  PROVE  S \subseteq T
<1> DEFINE D == DOMAIN defs
           U == {d \in D : d \in S => d \in T}
<1>1. PICK n \in Nat : \E rank \in [D -> 0..n] : LowerOwned(rank)
  BY DEF Treelike
<1>2. PICK rank \in [D -> 0..n] : LowerOwned(rank)
  BY <1>1
<1>3. PICK below : below = [x \in D |-> n - rank[x]]
  OBVIOUS
<1>4. below \in [D -> 0..n] /\ \A x, y \in D : rank[x] < rank[y] => below[y] < below[x]
  BY <1>1, <1>2, <1>3
<1>5. \A e \in D : \A d \in Range(defs[e].order) : d \in D /\ rank[d] < rank[e]
  <2>1. TAKE e \in D
  <2>2. TAKE d \in Range(defs[e].order)
  <2>3. PICK k \in DOMAIN defs[e].order : defs[e].order[k] = d
    BY DEF Range
  <2>4. defs[e].order \in Seq(D)
    BY DEF Owned
  <2>5. QED
    BY <1>2, <2>3, <2>4, MembersOf DEF LowerOwned
<1>6. ASSUME NEW d \in D, \A c \in D : below[c] < below[d] => c \in U, d \in S
      PROVE  d \in T
  <2>1. CASE d = b
    BY <2>1 DEF Spans
  <2>2. ASSUME NEW e \in S, d \in Range(defs[e].order)
        PROVE  d \in T
    <3>1. e \in D /\ below[e] < below[d]
      BY <1>4, <1>5, <2>2 DEF Spans
    <3>2. e \in T
      BY <1>6, <2>2, <3>1
    <3>3. QED
      BY <2>2, <3>2 DEF Spans
  <2>3. QED
    BY <1>6, <2>1, <2>2 DEF Spans
<1>7. Hereditary(D, below, U)
  <2> HIDE DEF D
  <2>1. QED
    BY <1>6 DEF Hereditary
<1>8. D \subseteq U
  <2> HIDE DEF U, D
  <2>1. QED
    BY <1>4, <1>7, RankedInduction
<1>9. QED
  BY <1>8 DEF Spans

LEMMA SpansOnce ==
  ASSUME Owned, Treelike, NEW b, NEW S, NEW T, Spans(S, b), Spans(T, b)
  PROVE  S = T
BY SpansWithin

(* The order of duplicate is of what the body owns.                        *)
LEMMA PostOrderSpans ==
  ASSUME Owned, Treelike, NEW body \in DOMAIN defs
  PROVE  Range(PostOrder(body)) = Tree(body)
<1>1. PICK n \in Nat : \E rank \in [DOMAIN defs -> 0..n] : LowerOwned(rank)
  BY DEF Treelike
<1>2. PICK rank \in [DOMAIN defs -> 0..n] : LowerOwned(rank)
  BY <1>1
<1>3. PICK from : PostOrder(body) = from[body] /\ Posts(from)
  BY PostsAre
<1>4. Encloses(from[body], body)
  BY <1>3, PostsEnclose
<1>5. Rooted(from, rank)
  BY <1>1, <1>2, <1>3, PostsRooted
<1>6. Spans(Range(from[body]), body)
  <2>1. PICK s : s = Range(from[body])
    OBVIOUS
  <2>2. body \in s /\ \A d \in s : Range(defs[d].order) \subseteq s
    BY <1>4, <2>1 DEF Encloses
  <2>3. \A d \in s : d \in DOMAIN defs /\ (d = body \/ \E e \in s : d \in Range(defs[e].order))
    BY <1>5, <2>1 DEF Rooted
  <2>4. QED
    BY <2>1, <2>2, <2>3 DEF Spans
<1>7. QED
  BY <1>3, <1>6, TreeSpans, SpansOnce

TreesSpan == Owned /\ Treelike => \A x \in DOMAIN defs : Spans(Tree(x), x)
SpanOnce == Owned /\ Treelike => \A b, S, T : Spans(S, b) /\ Spans(T, b) => S = T

LEMMA TreesSpanning == TreesSpan /\ SpanOnce
BY TreeSpans, SpansOnce DEF TreesSpan, SpanOnce

LEMMA TreesSpanNext == TreesSpan' /\ SpanOnce'
BY TreesSpanning, PTL

(* What is owned stays, and what a step adds to it is all that is new.     *)
LEMMA TreeNow ==
  ASSUME DefsSound, DefsSound', NEW x \in DOMAIN defs, x \in DOMAIN defs',
         NEW S, Spans(S, x)'
  PROVE  Tree(x)' = S
<1>1. Owned' /\ Treelike'
  BY DEF DefsSound
<1>2. Spans(Tree(x), x)'
  BY <1>1, TreesSpanNext DEF TreesSpan
<1>3. QED
  BY <1>1, <1>2, TreesSpanNext DEF SpanOnce

LEMMA TreeKept ==
  ASSUME DefsSound, DefsSound', NEW x \in DOMAIN defs, DOMAIN defs \subseteq DOMAIN defs',
         \A d \in Tree(x) : defs'[d].order = defs[d].order
  PROVE  Tree(x)' = Tree(x)
<1>1. Spans(Tree(x), x)
  BY TreeSpans DEF DefsSound
<1>2. PICK S : S = Tree(x)
  OBVIOUS
<1>3. Spans(S, x)'
  <2>1. Spans(S, x)
    BY <1>1, <1>2
  <2>2. QED
    BY <1>2, <2>1 DEF Spans
<1>4. QED
  BY <1>2, <1>3, TreeNow

-----------------------------------------------------------------------------
(* What steps keep.                                                        *)
Alike(f, g) ==
  /\ g.kind = f.kind /\ g.order = f.order /\ g.parent = f.parent /\ g.type = f.type
  /\ g.base = f.base /\ g.general = f.general /\ g.spelt = f.spelt

NamesKept(t) ==
  /\ t \in DOMAIN templates /\ t \in DOMAIN templates'
  /\ templates'[t].params = templates[t].params
  /\ templates'[t].names = templates[t].names
  /\ templates'[t].def = templates[t].def

(* The members of t as they were.                                          *)
WholeKept(t) ==
  NamesKept(t) /\ Whole(t)' = Whole(t) /\ \A d \in Whole(t) : Alike(defs[d], defs'[d])

(* What has been remapped stays so.                                        *)
SettledKept ==
  \A m \in DOMAIN defs :
    m \notin Awaited =>
      /\ m \in DOMAIN defs' /\ m \notin Awaited'
      /\ defs'[m].kind = defs[m].kind /\ defs'[m].type = defs[m].type

(* Those that call for the same instance as before.                        *)
CallsKeptFor(c) ==
  \A j \in DOMAIN frames' :
    c \in Range(frames'[j].todo) =>
      /\ j \in DOMAIN frames /\ c \in Range(frames[j].todo)
      /\ frames'[j].def = frames[j].def /\ frames'[j].copies = frames[j].copies

LEMMA ArityKept ==
  ASSUME NEW t, NamesKept(t)
  PROVE  Arity(t)' = Arity(t)
BY DEF NamesKept, Arity

LEMMA KindOfSame ==
  ASSUME KindsKept, NEW t, templates'[t].params = templates[t].params, TemplateTyped(t)
  PROVE  Arity(t)' = Arity(t) /\ \A i \in 1..Arity(t) : KindOf(t, i)' = KindOf(t, i)
<1>0. Arity(t)' = Arity(t)
  BY DEF Arity
<1>2. DOMAIN templates[t].params = 1..Arity(t)
  BY SequenceIs DEF TemplateTyped, Arity
<1>3. \A i \in 1..Arity(t) : templates[t].params[i] \in DOMAIN defs
  BY <1>2 DEF TemplateTyped, Range
<1>4. QED
  BY <1>0, <1>3 DEF KindOf, KindsKept

LEMMA KindOfKept ==
  ASSUME KindsKept, NEW t, NamesKept(t), TemplateTyped(t)
  PROVE  \A i \in 1..Arity(t) : KindOf(t, i)' = KindOf(t, i)
BY KindOfSame DEF NamesKept

LEMMA KeyFitsKept ==
  ASSUME KindsKept, NEW t, NamesKept(t), TemplateTyped(t), NEW key, KeyFits(t, key)
  PROVE  KeyFits(t, key)'
BY KindOfKept, ArityKept DEF KeyFits

LEMMA StandsKept ==
  ASSUME SettledKept, NEW m, NEW x, Stands(m, x)
  PROVE  Stands(m, x)'
BY DEF SettledKept, Stands

LEMMA MapsKept ==
  ASSUME SettledKept, NEW t, NamesKept(t), NEW instance, NEW map, Maps(t, instance, map)
  PROVE  Maps(t, instance, map)'
<1>1. Arity(t)' = Arity(t) /\ templates'[t].params = templates[t].params
  BY ArityKept DEF NamesKept
<1>2. QED
  BY <1>1, StandsKept DEF Maps

(* What the types and bases of a body come to be are definitions.          *)
LEMMA BasesAre ==
  ASSUME DefsSound, DefsTyped, NEW t, TemplateWritten(t),
         NEW instance, InstanceWritten(t, instance),
         NEW d \in Whole(t), d \in DOMAIN defs, defs[d].base # 0
  PROVE  /\ CopyOf(instance.copies, defs[d].base) \in DOMAIN defs
         /\ defs[d].spelt # NoName =>
              \A i \in 1..Arity(t) :
                templates[t].names[i] = defs[d].spelt => instance.key[i].of \in DOMAIN defs
<1>1. MemberWritten(t, d) /\ ParamsWritten(t)
  BY DEF TemplateWritten
<1>2. defs[d].base \in DOMAIN defs
  <2>1. Refers(defs[d], Len(defs))
    BY DEF DefsTyped
  <2>2. DOMAIN defs = 1..Len(defs) /\ Len(defs) \in Nat
    BY SequenceIs DEF DefsSound
  <2>3. QED
    BY <2>1, <2>2 DEF Refers
<1>3. \A x \in DOMAIN instance.copies : instance.copies[x] \in DOMAIN defs
  BY DEF InstanceWritten, CopyWritten
<1>4. ASSUME defs[d].spelt # NoName,
             NEW i \in 1..Arity(t), templates[t].names[i] = defs[d].spelt
      PROVE  instance.key[i].of \in DOMAIN defs
  <2>1. Spells(t, defs[d].spelt, defs[d].base)
    BY <1>1, <1>4 DEF MemberWritten
  <2>2. KindOf(t, i) = "type"
    BY <1>1, <1>4, <2>1 DEF Spells, ParamsWritten
  <2>3. QED
    BY <2>2 DEF InstanceWritten, KeyFits, KeyTyped, Untyped
<1>5. QED
  BY <1>2, <1>3, <1>4 DEF CopyOf

LEMMA DoneKept ==
  ASSUME DefsSound, DefsTyped, KindsKept, SettledKept, NEW t, TemplateWritten(t), WholeKept(t),
         NEW instance, InstanceWritten(t, instance),
         NEW d \in Whole(t), d \in DOMAIN defs,
         Alike(defs[instance.copies[d]], defs'[instance.copies[d]]),
         CopyDone(t, instance, d)
  PROVE  CopyDone(t, instance, d)'
<1>1. PICK c, copies : copies = instance.copies /\ c = copies[d]
  OBVIOUS
<1>2. Alike(defs[c], defs'[c]) /\ Alike(defs[d], defs'[d])
  BY <1>1 DEF WholeKept
<1>3. /\ templates'[t].def = templates[t].def /\ templates'[t].names = templates[t].names
      /\ Arity(t)' = Arity(t)
  BY ArityKept DEF WholeKept, NamesKept
<1>4. \A x \in DOMAIN defs : defs'[x].kind = defs[x].kind
  BY DEF KindsKept
<1>5. (defs[d].kind # "enum" /\ d # templates[t].def => defs[c].parent = copies[defs[d].parent])'
  BY SMTT(30), <1>1, <1>2, <1>3 DEF CopyDone, Alike
<1>6. (defs[d].kind = "typed" =>
         IF defs[d].spelt # NoName
         THEN \A i \in 1..Arity(t) :
                templates[t].names[i] = defs[d].spelt => Stands(defs[c].type, instance.key[i].of)
         ELSE defs[c].type = CopyOf(copies, defs[d].type))'
  BY <1>1, <1>2, <1>3 DEF CopyDone, Alike, Stands, SettledKept, CopyOf
<1>7. (defs[d].base # 0 =>
         IF defs[d].spelt # NoName
         THEN \A i \in 1..Arity(t) :
                templates[t].names[i] = defs[d].spelt => BasedOn(defs[c], instance.key[i].of)
         ELSE BasedOn(defs[c], CopyOf(copies, defs[d].base)))'
  <2>1. CASE defs[d].base = 0
    BY <1>2, <2>1 DEF Alike
  <2>2. CASE defs[d].base # 0
    <3>1. /\ CopyOf(copies, defs[d].base) \in DOMAIN defs
          /\ defs[d].spelt # NoName =>
               \A i \in 1..Arity(t) :
                 templates[t].names[i] = defs[d].spelt => instance.key[i].of \in DOMAIN defs
      BY <1>1, <2>2, BasesAre
    <3>2. IF defs[d].spelt # NoName
          THEN \A i \in 1..Arity(t) :
                 templates[t].names[i] = defs[d].spelt => BasedOn(defs[c], instance.key[i].of)
          ELSE BasedOn(defs[c], CopyOf(copies, defs[d].base))
      BY <1>1, <2>2 DEF CopyDone
    <3>3. QED
      BY <1>2, <1>3, <1>4, <3>1, <3>2 DEF Alike, BasedOn, CopyOf
  <2>3. QED
    BY <2>1, <2>2
<1>8. (defs[c].general = [x \in DOMAIN defs[d].general |-> copies[defs[d].general[x]]])'
  BY <1>1, <1>2 DEF CopyDone, Alike
<1>9. QED
  BY <1>1, <1>5, <1>6, <1>7, <1>8 DEF CopyDone

(* The copy of d is remapped by the step, or is left as it was.            *)
CopyKept(t, instance, d) ==
  LET c == instance.copies[d] IN
  /\ CallsKeptFor(c) /\ c \notin Bodies' /\ defs'[c].order = defs[c].order
  /\ \/ c \notin Awaited' /\ CopyDone(t, instance, d)'
     \/ Alike(defs[c], defs'[c]) /\ (c \in Awaited => c \in Awaited')

LEMMA CopyWrittenKept ==
  ASSUME DefsSound, DefsTyped, KindsKept, SettledKept, NEW t, TemplateWritten(t), WholeKept(t),
         NEW instance, InstanceWritten(t, instance),
         NEW d \in Whole(t), d \in DOMAIN defs, CopyKept(t, instance, d)
  PROVE  CopyWritten(t, instance, d)'
<1>1. PICK c, copies : copies = instance.copies /\ c = copies[d]
  OBVIOUS
<1>2. /\ CallsKeptFor(c) /\ c \notin Bodies' /\ defs'[c].order = defs[c].order
      /\ \/ c \notin Awaited' /\ CopyDone(t, instance, d)'
         \/ Alike(defs[c], defs'[c]) /\ (c \in Awaited => c \in Awaited')
  BY <1>1 DEF CopyKept
<1>3. CopyWritten(t, instance, d)
  BY DEF InstanceWritten
<1>4. c \in DOMAIN defs /\ c \in DOMAIN defs'
  BY <1>1, <1>3 DEF CopyWritten, KindsKept
<1>5. Alike(defs[d], defs'[d]) /\ defs'[d].kind = defs[d].kind
  BY DEF WholeKept, KindsKept
<1>6. defs'[c].kind = defs'[d].kind
  BY <1>1, <1>3, <1>4, <1>5 DEF CopyWritten, KindsKept
<1>7. defs'[c].order = [k \in DOMAIN defs'[d].order |-> copies[defs'[d].order[k]]]
  BY <1>1, <1>2, <1>3, <1>5 DEF CopyWritten, Alike
<1>8. c \in Awaited' \/ CopyDone(t, instance, d)'
  <2>1. CASE CopyDone(t, instance, d)'
    BY <2>1
  <2>2. CASE Alike(defs[c], defs'[c]) /\ c \in Awaited'
    BY <2>2
  <2>3. CASE Alike(defs[c], defs'[c]) /\ c \notin Awaited
    <3>1. CopyDone(t, instance, d)
      BY <1>1, <1>3, <2>3 DEF CopyWritten
    <3>2. QED
      BY <1>1, <2>3, <3>1, DoneKept
  <2>4. QED
    BY <1>2, <2>1, <2>2, <2>3
<1>9. ASSUME NEW j \in DOMAIN frames', c \in Range(frames'[j].todo)
      PROVE  /\ SameAs(defs'[c], defs'[d]) /\ frames'[j].def = instance.def
             /\ Maps(t, instance, frames[j].copies)'
  <2>1. /\ j \in DOMAIN frames /\ c \in Range(frames[j].todo)
        /\ frames'[j].def = frames[j].def /\ frames'[j].copies = frames[j].copies
    BY <1>2, <1>9 DEF CallsKeptFor
  <2>2. /\ SameAs(defs[c], defs[d]) /\ frames[j].def = instance.def
        /\ Maps(t, instance, frames[j].copies)
    BY <1>1, <1>3, <2>1 DEF CopyWritten
  <2>3. c \in Awaited'
    BY <1>9 DEF Awaited
  <2>4. Alike(defs[c], defs'[c])
    BY <1>2, <2>3
  <2>5. Maps(t, instance, frames[j].copies)'
    <3>1. PICK map : map = frames'[j].copies
      OBVIOUS
    <3>2. Maps(t, instance, map)
      BY <2>1, <2>2, <3>1
    <3>3. Maps(t, instance, map)'
      BY <3>2, MapsKept DEF WholeKept
    <3>4. QED
      BY <3>1, <3>3
  <2>6. QED
    BY <1>5, <2>1, <2>2, <2>4, <2>5 DEF SameAs, Alike
<1>10. QED
  BY <1>1, <1>2, <1>4, <1>6, <1>7, <1>8, <1>9 DEF CopyWritten

LEMMA InstanceKept ==
  ASSUME DefsSound, DefsTyped, KindsKept, SettledKept, NEW t, TemplateTyped(t),
         TemplateWritten(t), WholeKept(t), Whole(t) \subseteq DOMAIN defs,
         NEW instance, InstanceWritten(t, instance),
         \A d \in Whole(t) : CopyKept(t, instance, d)
  PROVE  InstanceWritten(t, instance)'
<1>1. PICK key : key = instance.key
  OBVIOUS
<1>2. KeyFits(t, key)' /\ KeyTyped(key)'
  BY <1>1, KeyFitsKept, UntypedKept DEF InstanceWritten, WholeKept
<1>3. Whole(t)' = Whole(t)
  BY DEF WholeKept
<1>4. \A d \in Whole(t) : CopyWritten(t, instance, d)'
  BY CopyWrittenKept
<1>5. QED
  BY <1>1, <1>2, <1>3, <1>4 DEF InstanceWritten

LEMMA ParamsKept ==
  ASSUME KindsKept, NEW t, TemplateTyped(t), NamesKept(t), ParamsWritten(t),
         templates'[t].general = templates[t].general,
         templates'[t].defaults = templates[t].defaults,
         DefaultsSound(Arity(t), templates[t].defaults)
  PROVE  ParamsWritten(t)'
<1>1. Arity(t)' = Arity(t) /\ \A i \in 1..Arity(t) : KindOf(t, i)' = KindOf(t, i)
  BY ArityKept, KindOfKept
<1>2. \A i \in 1..Arity(t) : templates[t].defaults[i].kind = "parameter" =>
        templates[t].defaults[i].of \in 1..Arity(t)
  BY DEF DefaultsSound
<1>3. QED
  BY <1>1, <1>2 DEF ParamsWritten, NamesKept

LEMMA SpellsKept ==
  ASSUME KindsKept, NEW t, TemplateTyped(t), NamesKept(t), NEW name, NEW x, Spells(t, name, x)
  PROVE  Spells(t, name, x)'
BY ArityKept, KindOfKept DEF Spells, NamesKept

LEMMA MemberKept ==
  ASSUME DefsSound, DefsTyped, KindsKept, NEW t, TemplateTyped(t), NamesKept(t),
         Whole(t) \subseteq Whole(t)',
         NEW d \in DOMAIN defs, MemberWritten(t, d),
         defs'[d].parent = defs[d].parent, defs'[d].type = defs[d].type,
         defs'[d].base = defs[d].base, defs'[d].general = defs[d].general,
         defs'[d].spelt = defs[d].spelt
  PROVE  MemberWritten(t, d)'
<1>1. DOMAIN defs = 1..Len(defs) /\ Len(defs) \in Nat
  BY SequenceIs DEF DefsSound
<1>2. Refers(defs[d], Len(defs))
  BY DEF DefsTyped
<1>3. defs[d].kind = "typed" => defs[d].type \in DOMAIN defs
  BY <1>1, <1>2 DEF Refers
<1>4. defs[d].base # 0 => defs[d].base \in DOMAIN defs
  BY <1>1, <1>2 DEF Refers
<1>5. \A x \in DOMAIN defs : defs'[x].kind = defs[x].kind
  BY DEF KindsKept
<1>6. \A name, x : Spells(t, name, x) => Spells(t, name, x)'
  BY SpellsKept
<1>7. QED
  BY <1>3, <1>4, <1>5, <1>6 DEF MemberWritten, NamesKept

(* A specialization that was there, or that is of the kinds of its         *)
(* parameters.                                                             *)
SpecKept(t, s) ==
  \/ /\ s \in DOMAIN templates[t].specializations
     /\ templates'[t].specializations[s] = templates[t].specializations[s]
  \/ SpecWritten(t, templates[t].specializations[s])'

LEMMA ReadKept ==
  ASSUME KindsKept, NEW t, TemplateTyped(t), ReadWritten(t),
         templates'[t].params = templates[t].params,
         templates'[t].unread => templates[t].unread,
         templates'[t].unread /\ t # open'.temp =>
           /\ t # open.temp /\ templates'[t].of = templates[t].of
           /\ templates'[t].def = templates[t].def
           /\ Alike(defs[templates[t].def], defs'[templates[t].def]),
         \A i \in DOMAIN Instances(t)' : i \in DOMAIN Instances(t) \/ ~templates'[t].unread,
         \A s \in DOMAIN templates'[t].specializations : SpecKept(t, s),
         \A s \in DOMAIN templates[t].specializations :
           LET spec == templates[t].specializations[s] IN
           /\ TemplateTyped(spec.temp)
           /\ templates'[spec.temp].params = templates[spec.temp].params
           /\ DOMAIN spec.inds = 1..Arity(spec.temp)
           /\ \A p \in DOMAIN spec.inds : spec.inds[p] \subseteq 1..Arity(t)
  PROVE  ReadWritten(t)'
<1>1. PICK g : g = templates[t]
  OBVIOUS
<1>2. ASSUME NEW s \in DOMAIN g.specializations
      PROVE  SpecWritten(t, g.specializations[s])'
  <2>1. PICK spec : spec = g.specializations[s]
    OBVIOUS
  <2>2. ASSUME NEW p \in DOMAIN spec.inds, NEW i \in spec.inds[p]
        PROVE  KindOf(spec.temp, p)' = KindOf(t, i)'
    <3>1. /\ TemplateTyped(spec.temp) /\ templates'[spec.temp].params = templates[spec.temp].params
          /\ p \in 1..Arity(spec.temp) /\ i \in 1..Arity(t)
      BY <1>1, <1>2, <2>1, <2>2
    <3>2. KindOf(spec.temp, p) = KindOf(t, i)
      BY <1>1, <1>2, <2>1, <2>2 DEF ReadWritten, SpecWritten
    <3>3. KindOf(spec.temp, p)' = KindOf(spec.temp, p) /\ KindOf(t, i)' = KindOf(t, i)
      BY <3>1, KindOfSame
    <3>4. QED
      BY <3>2, <3>3
  <2>3. SpecWritten(t, spec)'
    BY <2>2 DEF SpecWritten
  <2>4. QED
    BY <2>1, <2>3
<1>3. ASSUME NEW s \in DOMAIN templates'[t].specializations
      PROVE  SpecWritten(t, templates[t].specializations[s])'
  <2>1. CASE /\ s \in DOMAIN templates[t].specializations
             /\ templates'[t].specializations[s] = templates[t].specializations[s]
    <3>1. PICK spec : spec = g.specializations[s]
      OBVIOUS
    <3>2. SpecWritten(t, spec)' /\ templates'[t].specializations[s] = spec
      BY <1>1, <1>2, <2>1, <3>1
    <3>3. QED
      BY <3>2
  <2>2. CASE SpecWritten(t, templates[t].specializations[s])'
    BY <2>2
  <2>3. QED
    BY <1>3, <2>1, <2>2 DEF SpecKept
<1>4. QED
  BY <1>1, <1>3 DEF ReadWritten, Alike

LEMMA SpecsAre ==
  ASSUME program \in Programs, TemplatesSound, NEW t \in DOMAIN templates,
         NEW s \in DOMAIN templates[t].specializations,
         NEW spec, spec = templates[t].specializations[s]
  PROVE  /\ spec.temp \in DOMAIN templates
         /\ DOMAIN spec.inds = 1..Arity(spec.temp)
         /\ \A p \in DOMAIN spec.inds : spec.inds[p] \subseteq 1..Arity(t)
<1>1. SpecializationSound(t, spec)
  BY DEF TemplatesSound, TemplateSound
<1>2. PICK r \in program.patterns :
        /\ Len(r.args) = Arity(t) /\ spec.inds = Positions(r.list, r.args)
        /\ spec.temp \in DOMAIN templates /\ Arity(spec.temp) = Len(r.list)
  BY <1>1 DEF SpecializationSound
<1>3. Deducible(r.list, r.args)
  BY <1>2, ProgramsAssumption
<1>4. DOMAIN r.list = 1..Len(r.list) /\ DOMAIN r.args = 1..Len(r.args)
  BY <1>3, DeducibleIs
<1>5. QED
  BY <1>2, <1>4 DEF Positions

LEMMA WholesAre ==
  ASSUME DefsSound, TemplatesSound, NEW t \in DOMAIN templates
  PROVE  /\ Whole(t) \subseteq DOMAIN defs /\ templates[t].def \in Whole(t)
         /\ Spans(Whole(t), templates[t].def)
<1>1. templates[t].def \in DOMAIN defs
  BY DEF TemplatesSound, TemplateSound
<1>2. Spans(Whole(t), templates[t].def)
  BY <1>1, TreeSpans DEF DefsSound, Whole
<1>3. QED
  BY <1>2 DEF Spans

LEMMA WholeSame ==
  ASSUME DefsSound, DefsSound', TemplatesSound, DOMAIN defs \subseteq DOMAIN defs',
         NEW t \in DOMAIN templates, templates'[t].def = templates[t].def,
         \A d \in Whole(t) : defs'[d].order = defs[d].order
  PROVE  Whole(t)' = Whole(t)
<1>1. PICK b : b = templates[t].def
  OBVIOUS
<1>2. b \in DOMAIN defs /\ \A d \in Tree(b) : defs'[d].order = defs[d].order
  BY <1>1 DEF TemplatesSound, TemplateSound, Whole
<1>3. Tree(b)' = Tree(b)
  BY <1>2, TreeKept
<1>4. QED
  BY <1>1, <1>3 DEF Whole

(* A template of which a step may have finished the body or have made an   *)
(* instance.                                                               *)
TemplateAsWas(t) ==
  /\ WholeKept(t)
  /\ templates'[t].general = templates[t].general
  /\ templates'[t].defaults = templates[t].defaults
  /\ templates'[t].of = templates[t].of
  /\ \A s \in DOMAIN templates'[t].specializations : SpecKept(t, s)
  /\ templates'[t].unread =>
       templates[t].unread /\ (t # open'.temp => t # open.temp)
  /\ \A i \in DOMAIN Instances(t)' :
       \/ /\ i \in DOMAIN Instances(t) /\ templates'[t].instantiations[i] = Instances(t)[i]
          /\ \A d \in Whole(t) : CopyKept(t, Instances(t)[i], d)
       \/ ~templates'[t].unread /\ InstanceWritten(t, Instances(t)[i])'

LEMMA TemplateWrittenKept ==
  ASSUME Sound, Typed, Written, KindsKept, SettledKept,
         \A u \in DOMAIN templates : templates'[u].params = templates[u].params,
         NEW t \in DOMAIN templates, TemplateAsWas(t)
  PROVE  TemplateWritten(t)'
<1>0. WholeKept(t)
  BY DEF TemplateAsWas
<1>1. /\ TemplateTyped(t) /\ TemplateWritten(t) /\ TemplateSound(t) /\ WholeKept(t) /\ NamesKept(t)
  BY <1>0 DEF Sound, Typed, Written, TemplatesTyped, TemplatesSound, WholeKept
<1>2. DefsSound /\ DefsTyped /\ TemplatesSound /\ program \in Programs /\ TemplatesTyped
  BY DEF Sound, Typed
<1>3. Whole(t) \subseteq DOMAIN defs /\ templates[t].def \in Whole(t)
  BY <1>2, WholesAre
<1>4. ParamsWritten(t)'
  BY <1>1, ParamsKept DEF TemplateWritten, TemplateAsWas, TemplateSound
<1>5. ReadWritten(t)'
  <2>1. \A s \in DOMAIN templates[t].specializations :
          LET spec == templates[t].specializations[s] IN
          /\ TemplateTyped(spec.temp)
          /\ templates'[spec.temp].params = templates[spec.temp].params
          /\ DOMAIN spec.inds = 1..Arity(spec.temp)
          /\ \A p \in DOMAIN spec.inds : spec.inds[p] \subseteq 1..Arity(t)
    BY <1>2, SpecsAre DEF TemplatesTyped
  <2>3. Alike(defs[templates[t].def], defs'[templates[t].def])
    BY <1>1, <1>3 DEF WholeKept
  <2>4. /\ ReadWritten(t) /\ templates'[t].of = templates[t].of
        /\ templates'[t].params = templates[t].params /\ templates'[t].def = templates[t].def
        /\ templates'[t].unread => templates[t].unread
        /\ templates'[t].unread /\ t # open'.temp => t # open.temp
        /\ \A s \in DOMAIN templates'[t].specializations : SpecKept(t, s)
        /\ \A i \in DOMAIN Instances(t)' : i \in DOMAIN Instances(t) \/ ~templates'[t].unread
    BY <1>1 DEF TemplateWritten, TemplateAsWas, NamesKept
  <2>5. QED
    BY <1>1, <2>1, <2>3, <2>4, ReadKept
<1>6. \A d \in Whole(t)' : MemberWritten(t, d)'
  BY <1>1, <1>2, <1>3, MemberKept DEF WholeKept, TemplateWritten, Alike
<1>7. ASSUME NEW i \in DOMAIN Instances(t)'
      PROVE  InstanceWritten(t, Instances(t)[i])'
  <2>1. CASE ~templates'[t].unread /\ InstanceWritten(t, Instances(t)[i])'
    BY <2>1
  <2>2. CASE /\ i \in DOMAIN Instances(t) /\ templates'[t].instantiations[i] = Instances(t)[i]
             /\ \A d \in Whole(t) : CopyKept(t, Instances(t)[i], d)
    <3>1. PICK instance : instance = Instances(t)[i]
      OBVIOUS
    <3>2. InstanceWritten(t, instance)
      BY <1>1, <2>2, <3>1 DEF TemplateWritten
    <3>3. InstanceWritten(t, instance)'
      BY <1>1, <1>2, <1>3, <2>2, <3>1, <3>2, InstanceKept
    <3>4. Instances(t)[i]' = instance
      BY <2>2, <3>1 DEF Instances
    <3>5. QED
      BY <3>3, <3>4
  <2>3. QED
    BY <1>7, <2>1, <2>2 DEF TemplateAsWas
<1>8. QED
  BY <1>4, <1>5, <1>6, <1>7 DEF TemplateWritten

-----------------------------------------------------------------------------
(* The steps of the calls change one definition at most, which waited to   *)
(* be remapped.                                                            *)
ExprKept(e) ==
  e.op \in {"access", "recursion", "unbounded"} =>
    \E d \in DOMAIN defs : defs[d].expr.op = e.op /\ defs[d].expr.temp = e.temp

LEMMA ExprWrittenKept ==
  ASSUME Sound, Typed, Written, KindsKept,
         \A t \in DOMAIN templates : templates'[t].params = templates[t].params,
         \A t \in DOMAIN templates :
           templates'[t].unread => templates[t].unread /\ (t = open.temp => t = open'.temp),
         NEW e, ExprKept(e)
  PROVE  ExprWritten(e)'
<1>1. SUFFICES ASSUME e.op \in {"access", "recursion", "unbounded"}
               PROVE  /\ KindOf(e.temp, 1)' = "value"
                      /\ templates'[e.temp].unread => e.temp = open'.temp
  BY DEF ExprWritten
<1>2. PICK d \in DOMAIN defs : defs[d].expr.op = e.op /\ defs[d].expr.temp = e.temp
  BY <1>1 DEF ExprKept
<1>3. ExprWritten(defs[d].expr) /\ ExpressionSound(defs[d].expr)
  BY DEF Written, Sound, DefsSound
<1>4. /\ KindOf(e.temp, 1) = "value" /\ (templates[e.temp].unread => e.temp = open.temp)
      /\ e.temp \in DOMAIN templates /\ Arity(e.temp) = 1
  BY <1>1, <1>2, <1>3 DEF ExprWritten, ExpressionSound
<1>5. KindOf(e.temp, 1)' = KindOf(e.temp, 1)
  BY <1>4, KindOfSame DEF Typed, TemplatesTyped
<1>6. QED
  BY <1>4, <1>5

LEMMA CallWritten ==
  ASSUME Sound, Sound', Typed, Written, UNCHANGED <<templates, open>>, KindsKept,
         DOMAIN defs' = DOMAIN defs, frames # << >>,
         NEW x, x \in DOMAIN defs => x \in Awaited /\ x \notin Bodies,
         \A d \in DOMAIN defs :
           /\ defs'[d].order = defs[d].order /\ ExprKept(defs'[d].expr)
           /\ d # x => Alike(defs[d], defs'[d]),
         x \notin Awaited', Awaited \ {x} \subseteq Awaited',
         \A c : CallsKeptFor(c),
         \A t \in DOMAIN templates : \A i \in DOMAIN Instances(t) :
           \A d \in Whole(t) :
             Instances(t)[i].copies[d] = x => CopyDone(t, Instances(t)[i], d)',
         \A j \in DOMAIN frames' : FrameWritten(j)'
  PROVE  Written'
<1>1. /\ DefsSound /\ DefsSound' /\ DefsTyped /\ TemplatesSound
  BY DEF Sound, Typed
<1>2. \A t \in DOMAIN templates :
        /\ Whole(t)' = Whole(t) /\ Whole(t) \subseteq DOMAIN defs
        /\ NamesKept(t)
  BY <1>1, WholesAre, WholeSame DEF NamesKept
<1>3. Bodies' = Bodies
  BY <1>2 DEF Bodies
<1>4. SettledKept
  <2>1. \A m \in DOMAIN defs : m \notin Awaited => m # x /\ m \notin Awaited'
    BY DEF CallsKeptFor, Awaited
  <2>2. QED
    BY <2>1 DEF SettledKept, Alike
<1>5. \A t \in DOMAIN templates : WholeKept(t)
  <2>1. TAKE t \in DOMAIN templates
  <2>2. \A d \in Whole(t) : d \in DOMAIN defs /\ d \in Bodies
    BY <1>2 DEF Bodies
  <2>3. \A d \in Whole(t) : Alike(defs[d], defs'[d])
    BY <2>2
  <2>4. QED
    BY <1>2, <2>3 DEF WholeKept
<1>6. ASSUME NEW t \in DOMAIN templates
      PROVE  TemplateAsWas(t)
  <2>1. ASSUME NEW i \in DOMAIN Instances(t), NEW d \in Whole(t)
        PROVE  CopyKept(t, Instances(t)[i], d)
    <3>1. PICK instance, c : instance = Instances(t)[i] /\ c = instance.copies[d]
      OBVIOUS
    <3>2. CopyWritten(t, instance, d)
      BY <2>1, <3>1 DEF Written, TemplateWritten, InstanceWritten
    <3>3. c \in DOMAIN defs /\ c \notin Bodies
      BY <3>1, <3>2 DEF CopyWritten
    <3>4. \/ c \notin Awaited' /\ CopyDone(t, instance, d)'
          \/ Alike(defs[c], defs'[c]) /\ (c \in Awaited => c \in Awaited')
      <4>1. CASE c = x
        <5>1. CopyDone(t, Instances(t)[i], d)'
          BY <2>1, <3>1, <4>1
        <5>2. Instances(t)[i]' = instance
          BY <3>1 DEF Instances
        <5>3. CopyDone(t, instance, d)'
          BY <5>1, <5>2
        <5>4. QED
          BY <4>1, <5>3
      <4>2. CASE c # x
        BY <3>3, <4>2
      <4>3. QED
        BY <4>1, <4>2
    <3>5. QED
      BY <1>3, <3>1, <3>3, <3>4 DEF CopyKept
  <2>2. QED
    BY <1>5, <2>1 DEF TemplateAsWas, Instances, SpecKept
<1>7. \A t \in DOMAIN templates' : TemplateWritten(t)'
  BY <1>2, <1>4, <1>6, TemplateWrittenKept
<1>8. WholesApart'
  BY <1>2 DEF WholesApart, Written
<1>9. OpenWritten'
  BY DEF OpenWritten, Written
<1>10. \A d \in DOMAIN defs' : ExprWritten(defs[d].expr)'
  <2>1. TAKE d \in DOMAIN defs'
  <2>2. PICK e : e = defs'[d].expr
    OBVIOUS
  <2>3. ExprWritten(e)'
    BY <1>2, <2>2, ExprWrittenKept
  <2>4. QED
    BY <2>2, <2>3
<1>11. defs'[IntType].kind = "atomic" /\ defs'[ClassType].kind = "class"
  BY DEF Written, Typed, Untyped, KindsKept
<1>12. QED
  BY <1>7, <1>8, <1>9, <1>10, <1>11 DEF Written

LEMMA FrameWrittenKept ==
  ASSUME Sound, Typed, KindsKept, UNCHANGED <<templates>>, Bodies' = Bodies,
         NEW j \in DOMAIN frames, FrameWritten(j),
         frames'[j].temp = frames[j].temp, frames'[j].key = frames[j].key,
         Range(frames'[j].todo) \subseteq Range(frames[j].todo),
         frames'[j].todo # << >> => frames'[j].at = "remap" /\ ~Passing(j)'
  PROVE  FrameWritten(j)'
<1>1. frames[j].temp \in DOMAIN templates
  BY DEF Sound, FramesSound, FrameSound
<1>2. TemplateTyped(frames[j].temp) /\ NamesKept(frames[j].temp)
  BY <1>1 DEF Typed, TemplatesTyped, NamesKept
<1>3. PICK t, key : t = frames[j].temp /\ key = frames[j].key
  OBVIOUS
<1>4. KeyFits(t, key)' /\ ~templates'[t].unread
  BY <1>2, <1>3, KeyFitsKept DEF FrameWritten
<1>5. KeyFits(frames[j].temp, frames[j].key)' /\ ~templates'[frames'[j].temp].unread
  BY <1>3, <1>4
<1>6. QED
  BY <1>5 DEF FrameWritten

TodoSame(j) ==
  /\ j \in DOMAIN frames /\ j \in DOMAIN frames'
  /\ frames'[j].todo = frames[j].todo /\ frames'[j].def = frames[j].def
  /\ frames'[j].copies = frames[j].copies

LEMMA SameWritten ==
  ASSUME Sound, Sound', Typed, Written, UNCHANGED <<templates, open>>, KindsKept,
         DOMAIN defs' = DOMAIN defs, frames # << >>,
         \A d \in DOMAIN defs : ExprKept(defs'[d].expr) /\ Alike(defs[d], defs'[d]),
         \A j \in DOMAIN frames : frames[j].todo = << >> \/ TodoSame(j),
         \A j \in DOMAIN frames' : frames'[j].todo = << >> \/ TodoSame(j),
         \A j \in DOMAIN frames' : FrameWritten(j)'
  PROVE  Written'
<1>1. Awaited' = Awaited
  BY DEF Awaited, TodoSame, Range
<1>2. \A c : CallsKeptFor(c)
  BY DEF CallsKeptFor, TodoSame, Range
<1>3. 0 \notin DOMAIN defs
  BY SequenceIs DEF Sound, DefsSound
<1>4. 0 \notin Awaited'
  <2>1. \A j \in DOMAIN frames : Range(frames[j].todo) \subseteq DOMAIN defs
    BY DEF Sound, FramesSound, FrameSound
  <2>2. QED
    BY <1>1, <1>3, <2>1 DEF Awaited
<1>5. \A t \in DOMAIN templates : \A i \in DOMAIN Instances(t) : \A d \in Whole(t) :
        Instances(t)[i].copies[d] # 0
  BY ZenonT(30), <1>3 DEF Written, TemplateWritten, InstanceWritten, CopyWritten
<1>6. \A d \in DOMAIN defs : defs'[d].order = defs[d].order
  BY DEF Alike
<1>7. QED
  BY <1>1, <1>2, <1>3, <1>4, <1>5, <1>6, CallWritten

LEMMA BodiesSame ==
  ASSUME Sound, Sound', UNCHANGED <<templates>>, DOMAIN defs' = DOMAIN defs,
         \A d \in DOMAIN defs : defs'[d].order = defs[d].order
  PROVE  Bodies' = Bodies
<1>1. \A t \in DOMAIN templates : Whole(t)' = Whole(t)
  BY WholesAre, WholeSame DEF Sound
<1>2. QED
  BY <1>1 DEF Bodies

LEMMA DefsSame ==
  ASSUME UNCHANGED defs
  PROVE  /\ KindsKept /\ DOMAIN defs' = DOMAIN defs
         /\ \A d \in DOMAIN defs : ExprKept(defs'[d].expr) /\ Alike(defs[d], defs'[d])
         /\ \A d \in DOMAIN defs : defs'[d].order = defs[d].order
BY DEF KindsKept, ExprKept, Alike

LEMMA TopWritten ==
  ASSUME Sound, Sound', Typed, Written, UNCHANGED <<templates, open, defs>>, frames # << >>,
         NEW f, frames' = Append(Caller, f), f.todo = << >>, frame.todo = << >>,
         f.temp = frame.temp, f.key = frame.key, f.to = frame.to
  PROVE  Written'
<1>1. /\ DOMAIN frames' = DOMAIN frames /\ Len(frames) \in DOMAIN frames
      /\ \A j \in DOMAIN frames : frames'[j] = IF j = Len(frames) THEN f ELSE frames[j]
      /\ frame = frames[Len(frames)]
  BY TopReplaced, TopIs DEF Sound
<1>2. Len(frames') = Len(frames)
  BY <1>1, SequenceIs DEF Sound, FramesSound
<1>3. ASSUME NEW j \in DOMAIN frames'
      PROVE  FrameWritten(j)'
  <2>1. FrameWritten(j) /\ j \in DOMAIN frames
    BY <1>1, <1>3 DEF Written
  <2>2. \A k \in DOMAIN frames : frames'[k].to = frames[k].to
    BY <1>1
  <2>3. DOMAIN frames = 1..Len(frames) /\ Len(frames) \in Nat
    BY SequenceIs DEF Sound, FramesSound
  <2>4. Passing(j)' => Passing(j)
    BY <1>2, <2>1, <2>2, <2>3 DEF Passing
  <2>5. CASE j = Len(frames)
    BY <1>1, <2>1, <2>5, FrameWrittenKept, DefsSame, BodiesSame DEF Range
  <2>6. CASE j # Len(frames)
    <3>1. frames'[j] = frames[j]
      BY <1>1, <2>1, <2>6
    <3>2. frames[j].todo # << >> => frames[j].at = "remap" /\ ~Passing(j)
      BY <2>1 DEF FrameWritten
    <3>3. QED
      BY <2>1, <2>4, <3>1, <3>2, FrameWrittenKept, DefsSame, BodiesSame
  <2>7. QED
    BY <2>5, <2>6
<1>4. \A j \in DOMAIN frames : frames[j].todo = << >> \/ TodoSame(j)
  BY <1>1 DEF TodoSame
<1>5. \A j \in DOMAIN frames' : frames'[j].todo = << >> \/ TodoSame(j)
  BY <1>1 DEF TodoSame
<1>6. QED
  BY <1>3, <1>4, <1>5, SameWritten, DefsSame

LEMMA ReturnsWritten ==
  ASSUME Sound, Sound', Typed, Written, UNCHANGED <<templates, open, defs>>, frames # << >>,
         NEW d, frames' = Returning(d), frame.at = "remap" => frame.todo = << >>
  PROVE  Written'
<1>1. DOMAIN frame = FrameFields /\ FrameWritten(Len(frames)) /\ frame = frames[Len(frames)]
  BY TopIs DEF Sound, Written
<1>2. frame.todo = << >>
  BY <1>1 DEF FrameWritten
<1>3. QED
  BY <1>1, <1>2, TopWritten, ReturnedIs DEF Returning

LEMMA BailWritten ==
  ASSUME Sound, Sound', Typed, Written, Bail
  PROVE  Written'
BY ReturnsWritten DEF Bail, Entering

LEMMA ReuseWritten ==
  ASSUME Sound, Sound', Typed, Written, Reuse
  PROVE  Written'
BY ReturnsWritten DEF Reuse, Entering

LEMMA FinishWritten ==
  ASSUME Sound, Sound', Typed, Written, Finish
  PROVE  Written'
BY ReturnsWritten DEF Finish

LEMMA SpecializedFits ==
  ASSUME program \in Programs, TemplatesSound, NEW t \in DOMAIN templates, ReadWritten(t),
         NEW s \in DOMAIN templates[t].specializations,
         NEW spec, spec = templates[t].specializations[s], NEW key, KeyFits(t, key)
  PROVE  KeyFits(spec.temp, SpecializedKey(spec, key))
<1>1. SpecializationSound(t, spec)
  BY DEF TemplatesSound, TemplateSound
<1>2. PICK r \in program.patterns :
        /\ Len(r.args) = Arity(t) /\ spec.inds = Positions(r.list, r.args)
        /\ spec.temp \in DOMAIN templates /\ Arity(spec.temp) = Len(r.list)
  BY <1>1 DEF SpecializationSound
<1>3. Deducible(r.list, r.args)
  BY <1>2, ProgramsAssumption
<1>4. /\ DOMAIN r.list = 1..Len(r.list) /\ DOMAIN r.args = 1..Len(r.args)
      /\ Len(r.args) \in Nat
  BY <1>3, DeducibleIs
<1>5. DOMAIN spec.inds = 1..Arity(spec.temp)
  BY <1>2, <1>4 DEF Positions
<1>6. ASSUME NEW p \in 1..Arity(spec.temp)
      PROVE  SpecializedKey(spec, key)[p].kind = KindOf(spec.temp, p)
  <2>1. spec.inds[p] = {i \in DOMAIN r.args : r.args[i] = Argument("name", r.list[p].name)}
    BY <1>2, <1>4 DEF Positions
  <2>2. spec.inds[p] # {}
    BY <1>2, <1>3, <1>4, <2>1 DEF Deducible
  <2>3. spec.inds[p] \subseteq Nat
    BY <1>4, <2>1
  <2>4. Min(spec.inds[p]) \in spec.inds[p]
    BY <2>2, <2>3, MinIs
  <2>5. KindOf(spec.temp, p) = KindOf(t, Min(spec.inds[p]))
    <3>1. PICK i : i = Min(spec.inds[p])
      OBVIOUS
    <3>2. p \in DOMAIN spec.inds /\ i \in spec.inds[p]
      BY <1>5, <2>4, <3>1
    <3>3. \A q \in DOMAIN spec.inds : \A k \in spec.inds[q] :
            KindOf(spec.temp, q) = KindOf(t, k)
      BY DEF ReadWritten, SpecWritten
    <3>4. QED
      BY <3>1, <3>2, <3>3
  <2>6. Min(spec.inds[p]) \in 1..Arity(t)
    BY <1>2, <1>4, <2>1, <2>4
  <2>7. QED
    BY <1>5, <2>5, <2>6 DEF SpecializedKey, KeyFits
<1>7. QED
  BY <1>5, <1>6 DEF SpecializedKey, KeyFits

LEMMA NothingOpen ==
  ASSUME Sound, Written, frames # << >>, NEW t \in DOMAIN templates, templates[t].of # 0
  PROVE  ~templates[t].unread
<1>1. open.temp = 0
  BY DEF Written, OpenWritten
<1>2. t # 0
  BY SequenceIs DEF Sound, TemplatesSound
<1>3. QED
  BY <1>1, <1>2 DEF Written, TemplateWritten, ReadWritten

LEMMA CallsWritten ==
  ASSUME Sound, Sound', Typed, Written, UNCHANGED <<templates>>, KindsKept,
         Bodies' = Bodies, frames # << >>,
         DOMAIN frames' = 1..Len(frames) + 1,
         \A i \in 1..Len(frames) - 1 : frames'[i] = frames[i],
         NEW f, NEW g, frames'[Len(frames)] = f, frames'[Len(frames) + 1] = g,
         f.temp = frame.temp, f.key = frame.key, f.to = frame.to,
         Range(f.todo) \subseteq Range(frame.todo),
         f.todo # << >> => f.at = "remap" /\ g.to # "specialized",
         g.todo = << >>, g.temp \in DOMAIN templates, ~templates[g.temp].unread,
         KeyFits(g.temp, g.key)
  PROVE  \A j \in DOMAIN frames' : FrameWritten(j)'
<1>1. TAKE j \in DOMAIN frames'
<1>2. /\ Len(frames) \in Nat \ {0} /\ DOMAIN frames = 1..Len(frames) /\ frame = frames[Len(frames)]
  BY TopIs, SequenceIs DEF Sound, FramesSound
<1>3. Len(frames') = Len(frames) + 1
  <2>1. Len(frames') \in Nat /\ DOMAIN frames' = 1..Len(frames')
    BY SequenceIs DEF Sound, FramesSound
  <2>2. QED
    BY <1>2, <2>1
<1>4. CASE j = Len(frames) + 1
  <2>1. PICK t, key : t = g.temp /\ key = g.key
    OBVIOUS
  <2>2. KeyFits(t, key)'
    BY <2>1, KeyFitsKept DEF Typed, TemplatesTyped, NamesKept
  <2>3. frames'[j].temp = t /\ frames'[j].key = key /\ frames'[j].todo = << >>
    BY <1>4, <2>1
  <2>4. KeyFits(frames[j].temp, frames[j].key)' /\ ~templates'[frames'[j].temp].unread
    BY <2>1, <2>2, <2>3
  <2>5. QED
    BY <2>3, <2>4 DEF FrameWritten, Range
<1>5. CASE j = Len(frames)
  <2>1. FrameWritten(j) /\ j \in DOMAIN frames /\ frames'[j] = f /\ frames[j] = frame
    BY <1>2, <1>5 DEF Written
  <2>2. f.todo # << >> => f.at = "remap" /\ ~Passing(j)'
    BY <1>2, <1>5 DEF Passing
  <2>3. QED
    BY <2>1, <2>2, FrameWrittenKept
<1>6. CASE j \in 1..Len(frames) - 1
  <2>1. FrameWritten(j) /\ j \in DOMAIN frames /\ frames'[j] = frames[j]
    BY <1>2, <1>6 DEF Written
  <2>2. j + 1 \in 1..Len(frames) /\ frames'[j + 1].to = frames[j + 1].to
    BY <1>2, <1>6
  <2>3. Passing(j)' => Passing(j)
    BY <1>2, <1>6, <2>2 DEF Passing
  <2>4. frames[j].todo # << >> => frames[j].at = "remap" /\ ~Passing(j)
    BY <2>1 DEF FrameWritten
  <2>5. QED
    BY <2>1, <2>3, <2>4, FrameWrittenKept
<1>7. QED
  BY <1>1, <1>2, <1>4, <1>5, <1>6

LEMMA SpecializedWritten ==
  ASSUME Sound, Sound', Typed, Written, Specialized
  PROVE  Written'
<1>1. PICK spec : spec = templates[frame.temp].specializations[Chosen]
  OBVIOUS
<1>2. PICK key : key = SpecializedKey(spec, frame.key)
  OBVIOUS
<1>3. PICK f, g : f = [frame EXCEPT !.at = "remap"] /\ g = Frame(spec.temp, key, "specialized", 0)
  OBVIOUS
<1>4. /\ frames' = Caller \o <<f, g>> /\ frames # << >> /\ frame.at = "enter" /\ Chosen # 0
      /\ UNCHANGED <<program, defs, templates, open, uses, result, exceeded>>
  BY <1>1, <1>2, <1>3 DEF Specialized, Entering
<1>5. /\ DOMAIN frames' = 1..Len(frames) + 1
      /\ \A i \in 1..Len(frames) - 1 : frames'[i] = frames[i]
      /\ frames'[Len(frames)] = f /\ frames'[Len(frames) + 1] = g
  BY <1>4, CalledIs DEF Sound
<1>6. /\ DOMAIN frame = FrameFields /\ FrameWritten(Len(frames)) /\ frame = frames[Len(frames)]
      /\ frame.temp \in DOMAIN templates /\ Len(frames) \in Nat \ {0}
      /\ DOMAIN frames = 1..Len(frames)
  BY <1>4, TopIs, SequenceIs DEF Sound, Written, FramesSound
<1>7. frame.todo = << >>
  BY <1>4, <1>6 DEF FrameWritten
<1>8. f.temp = frame.temp /\ f.key = frame.key /\ f.to = frame.to /\ f.todo = << >>
  BY <1>3, <1>6, <1>7 DEF FrameFields
<1>9. g.temp = spec.temp /\ g.key = key /\ g.todo = << >>
  BY <1>3 DEF Frame
<1>10. Chosen \in Fitting(frame.temp, frame.key)
  BY <1>4, ChosenIs DEF Sound
<1>11. Chosen \in DOMAIN templates[frame.temp].specializations
  BY <1>10 DEF Fitting
<1>12. KeyFits(spec.temp, key)
  BY <1>1, <1>2, <1>6, <1>11, SpecializedFits
     DEF Sound, Written, TemplateWritten, FrameWritten
<1>13. spec.temp \in DOMAIN templates /\ ~templates[spec.temp].unread
  <2>1. SpecializationSound(frame.temp, spec)
    BY <1>1, <1>6, <1>11 DEF Sound, TemplatesSound, TemplateSound
  <2>2. spec.temp \in DOMAIN templates /\ templates[spec.temp].of # 0
    BY <2>1 DEF SpecializationSound
  <2>3. QED
    BY <1>4, <2>2, NothingOpen
<1>14. \A j \in DOMAIN frames' : FrameWritten(j)'
  <2>1. KindsKept /\ Bodies' = Bodies
    BY <1>4, DefsSame, BodiesSame
  <2>2. Range(f.todo) \subseteq Range(frame.todo)
    BY <1>8 DEF Range
  <2>3. QED
    BY <1>4, <1>5, <1>8, <1>9, <1>12, <1>13, <2>1, <2>2, CallsWritten
<1>15. \A j \in DOMAIN frames : frames[j].todo = << >> \/ TodoSame(j)
  <2>1. TAKE j \in DOMAIN frames
  <2>2. CASE j = Len(frames)
    BY <1>6, <1>7, <2>2
  <2>3. CASE j \in 1..Len(frames) - 1
    BY <1>5, <1>6, <2>3 DEF TodoSame
  <2>4. QED
    BY <1>6, <2>2, <2>3
<1>16. \A j \in DOMAIN frames' : frames'[j].todo = << >> \/ TodoSame(j)
  <2>1. TAKE j \in DOMAIN frames'
  <2>2. CASE j = Len(frames) \/ j = Len(frames) + 1
    BY <1>5, <1>8, <1>9, <2>2
  <2>3. CASE j \in 1..Len(frames) - 1
    BY <1>5, <1>6, <2>3 DEF TodoSame
  <2>4. QED
    BY <1>5, <1>6, <2>2, <2>3
<1>17. QED
  BY <1>4, <1>14, <1>15, <1>16, SameWritten, DefsSame

LEMMA SameCount ==
  ASSUME NEW a \in Nat, NEW b \in Nat, 1..a = 1..b
  PROVE  a = b
<1>1. \A k \in Nat \ {0} : k \in 1..k
  OBVIOUS
<1>2. a # 0 => a \in 1..b
  BY <1>1
<1>3. b # 0 => b \in 1..a
  BY <1>1
<1>4. QED
  BY <1>2, <1>3

LEMMA PopWritten ==
  ASSUME Sound, Sound', Typed, Written, UNCHANGED <<templates, open>>, KindsKept,
         DOMAIN defs' = DOMAIN defs, frames # << >>, frame.at = "return",
         \A d \in DOMAIN defs : ExprKept(defs'[d].expr) /\ Alike(defs[d], defs'[d]),
         NEW m, m = Len(frames) - 1, DOMAIN frames' = 1..m,
         \A i \in 1..m :
           /\ frames'[i].temp = frames[i].temp /\ frames'[i].key = frames[i].key
           /\ frames'[i].to = frames[i].to /\ frames'[i].todo = frames[i].todo
           /\ frames[i].todo # << >> => frames'[i] = frames[i]
  PROVE  Written'
<1>1. /\ Len(frames) \in Nat \ {0} /\ DOMAIN frames = 1..Len(frames) /\ frame = frames[Len(frames)]
  BY TopIs, SequenceIs DEF Sound, FramesSound
<1>2. Len(frames') = m
  <2>1. Len(frames') \in Nat /\ DOMAIN frames' = 1..Len(frames')
    BY SequenceIs DEF Sound, FramesSound
  <2>2. m \in Nat /\ 1..Len(frames') = 1..m
    BY <1>1, <2>1
  <2>3. QED
    BY <2>1, <2>2, SameCount
<1>3. Bodies' = Bodies
  BY BodiesSame DEF Alike
<1>4. ASSUME NEW j \in DOMAIN frames'
      PROVE  FrameWritten(j)'
  <2>1. j \in DOMAIN frames /\ FrameWritten(j)
    BY <1>1, <1>4 DEF Written
  <2>2. Passing(j)' => Passing(j)
    <3>1. ASSUME j < Len(frames')
          PROVE  j + 1 \in 1..m /\ j < Len(frames)
      BY <1>1, <1>2, <1>4, <3>1
    <3>2. QED
      BY <3>1 DEF Passing
  <2>3. frames[j].todo # << >> => frames[j].at = "remap" /\ ~Passing(j)
    BY <2>1 DEF FrameWritten
  <2>4. QED
    BY <1>3, <1>4, <2>1, <2>2, <2>3, FrameWrittenKept
<1>5. \A j \in DOMAIN frames : frames[j].todo = << >> \/ TodoSame(j)
  <2>1. TAKE j \in DOMAIN frames
  <2>2. CASE j = Len(frames)
    <3>1. FrameWritten(j) /\ frames[j].at = "return"
      BY <1>1, <2>2 DEF Written
    <3>2. QED
      BY <3>1 DEF FrameWritten
  <2>3. CASE j \in 1..m
    BY <1>1, <2>3 DEF TodoSame
  <2>4. QED
    BY <1>1, <2>2, <2>3
<1>6. \A j \in DOMAIN frames' : frames'[j].todo = << >> \/ TodoSame(j)
  BY <1>1 DEF TodoSame
<1>7. QED
  BY <1>4, <1>5, <1>6, SameWritten

LEMMA ReturnWritten ==
  ASSUME Sound, Sound', Typed, Written, Return
  PROVE  Written'
<1>1. /\ frames # << >> /\ frame.at = "return" /\ UNCHANGED <<templates, open>>
  BY DEF Return
<1>2. frame.to \in {"use", "specialized", "enumerator"}
  BY <1>1, TopIs DEF Sound, FrameSound
<1>3. PICK s, m : s = Caller /\ m = Len(frames) - 1
  OBVIOUS
<1>4. /\ Sequence(s) /\ m = Len(s) /\ \A i \in 1..m : s[i] = frames[i]
      /\ Len(frames) \in Nat \ {0} /\ DOMAIN frames = 1..Len(frames) /\ DOMAIN s = 1..m
      /\ frame = frames[Len(frames)] /\ FrameSound(Len(frames))
  BY <1>1, <1>3, TopIs, SequenceIs DEF Sound, FramesSound
<1>5. CASE frame.to = "use"
  <2>1. frames' = s /\ UNCHANGED defs
    BY <1>1, <1>3, <1>5 DEF Return
  <2>2. \A i \in 1..m : frames'[i] = frames[i]
    BY <1>4, <2>1
  <2>3. QED
    BY <1>1, <1>3, <1>4, <2>1, <2>2, PopWritten, DefsSame
<1>6. CASE frame.to = "specialized"
  <2>1. PICK d : d = frame.def
    OBVIOUS
  <2>2. frames' = [s EXCEPT ![m].at = "return", ![m].def = d] /\ UNCHANGED defs
    BY <1>1, <1>3, <1>4, <1>6, <2>1 DEF Return
  <2>3. Len(frames) # 1 /\ m \in DOMAIN s /\ m \in DOMAIN frames /\ m + 1 = Len(frames)
        /\ m < Len(frames)
    BY <1>3, <1>4, <1>6 DEF FrameSound
  <2>4. DOMAIN s[m] = FrameFields /\ s[m] = frames[m]
    BY <1>4, <2>3 DEF Sound, FramesSound, FrameSound
  <2>5. PICK f : f = [s[m] EXCEPT !.at = "return", !.def = d]
    OBVIOUS
  <2>6. frames' = [s EXCEPT ![m] = f]
    BY <1>4, <2>2, <2>3, <2>4, <2>5, CallerReturns
  <2>7. frames[m].todo = << >>
    <3>1. Passing(m)
      BY <1>4, <1>6, <2>3 DEF Passing
    <3>2. FrameWritten(m)
      BY <2>3 DEF Written
    <3>3. QED
      BY <3>1, <3>2 DEF FrameWritten
  <2>8. f.temp = s[m].temp /\ f.key = s[m].key /\ f.to = s[m].to /\ f.todo = s[m].todo
    BY <2>4, <2>5, ReturnedIs
  <2>9. DOMAIN frames' = 1..m /\ \A i \in 1..m : frames'[i] = IF i = m THEN f ELSE frames[i]
    BY <1>4, <2>6
  <2>10. \A i \in 1..m :
           /\ frames'[i].temp = frames[i].temp /\ frames'[i].key = frames[i].key
           /\ frames'[i].to = frames[i].to /\ frames'[i].todo = frames[i].todo
           /\ frames[i].todo # << >> => frames'[i] = frames[i]
    BY <2>4, <2>7, <2>8, <2>9
  <2>11. QED
    BY <1>1, <1>3, <2>2, <2>9, <2>10, PopWritten, DefsSame
<1>7. CASE frame.to = "enumerator"
  <2>1. PICK y, v : y = frame.of /\ v = Found(defs[frame.of].expr, ValueIn(frame.def))
    OBVIOUS
  <2>2. PICK r : r = Settled(defs[y], v)
    OBVIOUS
  <2>3. frames' = s /\ defs' = [defs EXCEPT ![y] = r]
    BY <1>1, <1>3, <1>7, <2>1, <2>2 DEF Return
  <2>4. \A d \in DOMAIN defs : defs'[d] = IF d = y THEN r ELSE defs[d]
    BY <2>3
  <2>5. y \in DOMAIN defs => Alike(defs[y], r) /\ r.expr \in {defs[y].expr, NoExpression}
    <3>1. y \in DOMAIN defs => DOMAIN defs[y] = DefinitionFields
      BY DEF Sound, DefsSound
    <3>2. QED
      BY <2>2, <3>1 DEF Settled, Alike, DefinitionFields
  <2>6. \A d \in DOMAIN defs : Alike(defs[d], defs'[d])
    BY <2>4, <2>5 DEF Alike
  <2>7. \A d \in DOMAIN defs : ExprKept(defs'[d].expr)
    BY <2>4, <2>5 DEF ExprKept, NoExpression, Expression
  <2>8. DOMAIN defs' = DOMAIN defs /\ KindsKept
    BY <2>3, <2>6 DEF KindsKept, Alike
  <2>9. \A i \in 1..m : frames'[i] = frames[i]
    BY <1>4, <2>3
  <2>10. QED
    BY <1>1, <1>3, <1>4, <2>3, <2>6, <2>7, <2>8, <2>9, PopWritten
<1>8. QED
  BY <1>2, <1>5, <1>6, <1>7

(* What a typedef stands for is what its type stands for.                  *)
LEMMA UnrolledOf ==
  ASSUME DefsSound, DefsTyped, ChainsEnd, NEW x \in DOMAIN defs
  PROVE  /\ defs[x].kind = "typed" =>
              defs[x].type \in DOMAIN defs /\ Unrolled(x) = Unrolled(defs[x].type)
         /\ defs[x].kind # "typed" => Unrolled(x) = x
<1>1. PICK f : Unrolls(f) /\ \A y : Unrolled(y) = f[y]
  BY UnrollsAre
<1>2. f[x] = IF defs[x].kind = "typed" THEN f[defs[x].type] ELSE x
  BY <1>1 DEF Unrolls
<1>3. defs[x].kind = "typed" => defs[x].type \in DOMAIN defs
  <2>1. Len(defs) \in Nat /\ DOMAIN defs = 1..Len(defs)
    BY SequenceIs DEF DefsSound
  <2>2. QED
    BY <2>1 DEF DefsTyped, Refers
<1>4. QED
  BY <1>1, <1>2, <1>3

(* What remapping makes of g, but for the values of enumerators.           *)
RemapOf(g, r) ==
  /\ g.kind # "enum" => r.parent = filter(g.parent)
  /\ IF g.kind = "typed" THEN r.type = filter(g.type) ELSE r.type = g.type
  /\ IF g.kind = "class"
     THEN /\ r.base = RemappedBase(g.base)
          /\ r.general = [x \in DOMAIN g.general |-> filter(g.general[x])]
     ELSE r.base = g.base /\ r.general = g.general

(* A call finds what it maps for the instance that it remaps.              *)
FilterMaps(t, instance) ==
  /\ \A x \in Whole(t) : filter(x) = instance.copies[x]
  /\ \A i \in 1..Arity(t) :
       KindOf(t, i) = "type" => Stands(filter(templates[t].params[i]), instance.key[i].of)
  /\ \A x \in DOMAIN defs \ Whole(t) : defs[x].kind \notin {"type", "value"} => filter(x) = x

LEMMA FilterMapsFor ==
  ASSUME NEW t, TemplateTyped(t), ParamsWritten(t),
         NEW instance, InstanceWritten(t, instance), Maps(t, instance, frame.copies)
  PROVE  FilterMaps(t, instance)
<1>1. DOMAIN templates[t].params = 1..Arity(t)
  BY SequenceIs DEF TemplateTyped, Arity
<1>2. DOMAIN instance.copies = Whole(t)
  BY DEF InstanceWritten
<1>3. \A x \in Range(templates[t].params) : defs[x].kind \in {"type", "value"}
  BY <1>1 DEF ParamsWritten, KindOf, Range
<1>4. \A i \in 1..Arity(t) : templates[t].params[i] \in Range(templates[t].params)
  BY <1>1 DEF Range
<1>5. PICK map : map = frame.copies
  OBVIOUS
<1>6. /\ DOMAIN map = Whole(t) \union Range(templates[t].params)
      /\ \A x \in Whole(t) : map[x] = instance.copies[x]
      /\ \A i \in 1..Arity(t) :
           instance.key[i].kind = "type" => Stands(map[templates[t].params[i]], instance.key[i].of)
  BY <1>2, <1>5 DEF Maps
<1>7. \A i \in 1..Arity(t) : instance.key[i].kind = KindOf(t, i)
  BY DEF InstanceWritten, KeyFits
<1>8. \A x : filter(x) = IF x \in DOMAIN map THEN map[x] ELSE x
  BY <1>5 DEF filter
<1>9. QED
  BY <1>3, <1>4, <1>6, <1>7, <1>8 DEF FilterMaps

(* The copy that is remapped has what was written of its original.         *)
LEMMA RemappedDone ==
  ASSUME Sound, Typed, Written, KindsKept, SettledKept, UNCHANGED templates,
         NEW t \in DOMAIN templates, WholeKept(t),
         NEW instance, InstanceWritten(t, instance), FilterMaps(t, instance),
         NEW d \in Whole(t), NEW c, c = instance.copies[d],
         SameAs(defs[c], defs[d]), RemapOf(defs[c], defs'[c])
  PROVE  CopyDone(t, instance, d)'
<1>1. PICK copies, g, r : copies = instance.copies /\ g = defs[d] /\ r = defs'[c]
  OBVIOUS
<1>2. /\ TemplateTyped(t) /\ TemplateWritten(t) /\ MemberWritten(t, d) /\ ParamsWritten(t)
  BY DEF Typed, TemplatesTyped, Written, TemplateWritten
<1>3. /\ Whole(t) \subseteq DOMAIN defs /\ d \in DOMAIN defs
      /\ DefsSound /\ DefsTyped /\ ChainsEnd /\ TemplatesSound
  BY WholesAre DEF Sound, Typed
<1>4. c \in DOMAIN defs /\ defs[c].kind = g.kind
  BY <1>1 DEF InstanceWritten, CopyWritten
<1>5. /\ g.kind # "enum" => r.parent = filter(g.parent)
      /\ g.kind = "typed" => r.type = filter(g.type)
      /\ IF g.kind = "class"
         THEN /\ r.base = RemappedBase(g.base)
              /\ r.general = [x \in DOMAIN g.general |-> filter(g.general[x])]
         ELSE r.base = g.base /\ r.general = g.general
  BY <1>1, <1>4 DEF RemapOf, SameAs
<1>6. \A x \in DOMAIN defs : defs[x].kind \notin {"type", "value"} => filter(x) = CopyOf(copies, x)
  BY <1>1 DEF FilterMaps, CopyOf, InstanceWritten
<1>7. defs'[d] = g \/ Alike(g, defs'[d])
  BY <1>1 DEF WholeKept
<1>8. defs'[d].kind = g.kind /\ Alike(g, defs'[d])
  BY <1>1, <1>7 DEF Alike
<1>9. g.kind # "enum" /\ d # templates[t].def => r.parent = copies[g.parent]
  BY <1>1, <1>2, <1>5 DEF MemberWritten, FilterMaps
<1>10. r.general = [x \in DOMAIN g.general |-> copies[g.general[x]]]
  <2>1. \A x \in DOMAIN g.general : g.kind = "class" /\ g.general[x] \in Whole(t)
    BY <1>1, <1>2 DEF MemberWritten
  <2>2. g.general = [x \in DOMAIN g.general |-> g.general[x]]
    BY <1>1, <1>2 DEF MemberWritten
  <2>3. CASE g.kind = "class"
    BY <1>1, <1>5, <2>1, <2>3 DEF FilterMaps
  <2>4. CASE g.kind # "class"
    <3>1. DOMAIN g.general = {} /\ r.general = g.general
      BY <1>5, <2>1, <2>4
    <3>2. QED
      BY <2>2, <3>1
  <2>5. QED
    BY <2>3, <2>4
<1>11. ASSUME NEW i \in 1..Arity(t), NEW x, g.spelt # NoName, Spells(t, g.spelt, x),
              templates[t].names[i] = g.spelt
       PROVE  x = templates[t].params[i] /\ KindOf(t, i) = "type"
              /\ x \in DOMAIN defs /\ defs[x].kind = "type"
  <2>1. x = templates[t].params[i] /\ KindOf(t, i) = "type"
    BY <1>2, <1>11 DEF Spells, ParamsWritten
  <2>2. DOMAIN templates[t].params = 1..Arity(t)
    BY <1>2, SequenceIs DEF TemplateTyped, Arity
  <2>3. QED
    BY <1>2, <2>1, <2>2 DEF TemplateTyped, KindOf, Range
<1>12. g.kind = "typed" =>
         IF g.spelt # NoName
         THEN \A i \in 1..Arity(t) :
                templates[t].names[i] = g.spelt => Stands(r.type, instance.key[i].of)'
         ELSE r.type = CopyOf(copies, g.type)
  <2>1. SUFFICES ASSUME g.kind = "typed"
                 PROVE  IF g.spelt # NoName
                        THEN \A i \in 1..Arity(t) :
                               templates[t].names[i] = g.spelt =>
                                 Stands(r.type, instance.key[i].of)'
                        ELSE r.type = CopyOf(copies, g.type)
    OBVIOUS
  <2>2. CASE g.spelt # NoName
    <3>1. Spells(t, g.spelt, g.type)
      BY <1>1, <1>2, <2>1, <2>2 DEF MemberWritten
    <3>2. ASSUME NEW i \in 1..Arity(t), templates[t].names[i] = g.spelt
          PROVE  Stands(r.type, instance.key[i].of)'
      <4>1. g.type = templates[t].params[i] /\ KindOf(t, i) = "type"
        BY <1>11, <2>2, <3>1, <3>2
      <4>2. Stands(r.type, instance.key[i].of)
        BY <1>5, <2>1, <4>1 DEF FilterMaps
      <4>3. PICK m, a : m = r.type /\ a = instance.key[i].of
        OBVIOUS
      <4>4. Stands(m, a)'
        BY <4>2, <4>3, StandsKept
      <4>5. m' = r.type /\ a' = instance.key[i].of
        BY <4>3
      <4>6. QED
        BY <4>3, <4>4
    <3>3. QED
      BY <2>2, <3>2
  <2>3. CASE g.spelt = NoName
    <3>1. defs[g.type].kind \notin {"type", "value"}
      BY <1>1, <1>2, <2>1, <2>3 DEF MemberWritten
    <3>2. g.type \in DOMAIN defs
      BY <1>1, <1>3, <2>1, UnrolledOf
    <3>3. QED
      BY <1>5, <1>6, <2>1, <2>3, <3>1, <3>2
  <2>4. QED
    BY <2>2, <2>3
<1>13. g.base # 0 =>
         IF g.spelt # NoName
         THEN \A i \in 1..Arity(t) :
                templates[t].names[i] = g.spelt => BasedOn(r, instance.key[i].of)'
         ELSE BasedOn(r, CopyOf(copies, g.base))'
  <2>1. SUFFICES ASSUME g.base # 0
                 PROVE  IF g.spelt # NoName
                        THEN \A i \in 1..Arity(t) :
                               templates[t].names[i] = g.spelt =>
                                 BasedOn(r, instance.key[i].of)'
                        ELSE BasedOn(r, CopyOf(copies, g.base))'
    OBVIOUS
  <2>2. g.kind = "class" /\ r.base = RemappedBase(g.base)
    BY <1>1, <1>2, <1>5, <2>1 DEF MemberWritten
  <2>3. CASE g.spelt # NoName
    <3>1. Spells(t, g.spelt, g.base)
      BY <1>1, <1>2, <2>1, <2>3 DEF MemberWritten
    <3>2. ASSUME NEW i \in 1..Arity(t), templates[t].names[i] = g.spelt
          PROVE  BasedOn(r, instance.key[i].of)'
      <4>1. PICK m, a : m = filter(g.base) /\ a = instance.key[i].of
        OBVIOUS
      <4>2. /\ g.base = templates[t].params[i] /\ KindOf(t, i) = "type"
            /\ defs[g.base].kind = "type"
        BY <1>11, <2>3, <3>1, <3>2
      <4>3. Stands(m, a)
        BY <4>1, <4>2 DEF FilterMaps
      <4>4. Untyped(a)
        BY <4>1, <4>2 DEF InstanceWritten, KeyFits, KeyTyped
      <4>5. Unrolled(m) = Unrolled(a) /\ Unrolled(a) = a /\ m # g.base
        BY <1>3, <4>2, <4>3, <4>4, UnrolledOf DEF Stands, Untyped
      <4>6. defs[a].kind = "class" => r.base = a
        BY <2>1, <2>2, <4>1, <4>5 DEF RemappedBase
      <4>7. defs'[a].kind = defs[a].kind
        BY <4>4 DEF Untyped, KindsKept
      <4>8. QED
        BY <4>1, <4>6, <4>7 DEF BasedOn
    <3>3. QED
      BY <2>3, <3>2
  <2>4. CASE g.spelt = NoName
    <3>1. PICK x : x = g.base
      OBVIOUS
    <3>2. x \in DOMAIN defs /\ defs[x].kind = "class"
      <4>1. Len(defs) \in Nat /\ DOMAIN defs = 1..Len(defs)
        BY <1>3, SequenceIs DEF DefsSound
      <4>2. g.base \in 0..Len(defs)
        BY <1>1, <1>3 DEF DefsTyped, Refers
      <4>3. QED
        BY <1>1, <1>2, <2>1, <2>4, <3>1, <4>1, <4>2 DEF MemberWritten
    <3>3. r.base = CopyOf(copies, x)
      <4>1. CASE x \in Whole(t)
        <5>1. PICK m : m = copies[x]
          OBVIOUS
        <5>2. m \in DOMAIN defs /\ m \notin Bodies /\ defs[m].kind = "class"
          BY <1>1, <3>2, <4>1, <5>1 DEF InstanceWritten, CopyWritten
        <5>3. x \in Bodies
          BY <4>1 DEF Bodies
        <5>4. Unrolled(m) = m
          BY <1>3, <5>2, UnrolledOf
        <5>5. filter(x) = m
          BY <1>1, <4>1, <5>1 DEF FilterMaps
        <5>6. RemappedBase(x) = m
          BY <2>1, <3>1, <5>2, <5>3, <5>4, <5>5 DEF RemappedBase
        <5>7. QED
          BY <1>1, <2>2, <3>1, <4>1, <5>1, <5>6 DEF CopyOf, InstanceWritten
      <4>2. CASE x \notin Whole(t)
        <5>1. filter(x) = x
          BY <3>2, <4>2 DEF FilterMaps
        <5>2. QED
          BY <1>1, <2>2, <3>1, <4>2, <5>1 DEF RemappedBase, CopyOf, InstanceWritten
      <4>3. QED
        BY <4>1, <4>2
    <3>4. QED
      BY <2>4, <3>1, <3>3 DEF BasedOn, CopyOf
  <2>5. QED
    BY <2>3, <2>4
<1>14. PICK h : h = defs'[d]
  OBVIOUS
<1>15. /\ h.kind = g.kind /\ h.spelt = g.spelt /\ h.parent = g.parent /\ h.type = g.type
       /\ h.base = g.base /\ h.general = g.general
  BY <1>8, <1>14 DEF Alike
<1>16. /\ Arity(t)' = Arity(t) /\ templates' = templates /\ defs'[d] = h /\ defs'[c] = r
  BY <1>1, <1>14 DEF Arity
<1>17. (h.kind # "enum" /\ d # templates[t].def => r.parent = copies[h.parent])'
  BY <1>9, <1>15, <1>16
<1>18. (h.kind = "typed" =>
          IF h.spelt # NoName
          THEN \A i \in 1..Arity(t) :
                 templates[t].names[i] = h.spelt => Stands(r.type, instance.key[i].of)
          ELSE r.type = CopyOf(copies, h.type))'
  BY <1>12, <1>15, <1>16 DEF CopyOf
<1>19. (h.base # 0 =>
          IF h.spelt # NoName
          THEN \A i \in 1..Arity(t) :
                 templates[t].names[i] = h.spelt => BasedOn(r, instance.key[i].of)
          ELSE BasedOn(r, CopyOf(copies, h.base)))'
  BY <1>13, <1>15, <1>16 DEF CopyOf
<1>20. r.general = [x \in DOMAIN h.general |-> copies[h.general[x]]]
  BY <1>10, <1>15
<1>21. QED
  BY <1>1, <1>16, <1>17, <1>18, <1>19, <1>20 DEF CopyDone

(* The call that runs goes on to the next copy.                            *)
Advances ==
  /\ \A j \in DOMAIN frames :
       /\ j \in DOMAIN frames'
       /\ frames'[j].def = frames[j].def /\ frames'[j].copies = frames[j].copies
       /\ frames'[j].todo = IF j = Len(frames) THEN Tail(frame.todo) ELSE frames[j].todo
  /\ \A j \in DOMAIN frames' : j \in DOMAIN frames \/ frames'[j].todo = << >>

LEMMA AdvancesIs ==
  ASSUME Sound, Typed, Remapping, Advances
  PROVE  /\ next \in Awaited /\ next \notin Awaited' /\ Awaited \ {next} \subseteq Awaited'
         /\ \A c : CallsKeptFor(c)
<1>1. /\ frames # << >> /\ frame.todo # << >> /\ Len(frames) \in DOMAIN frames
      /\ frame = frames[Len(frames)]
      /\ next \in Range(frame.todo) /\ next \notin Range(Tail(frame.todo))
      /\ \A j \in DOMAIN frames : j # Len(frames) => next \notin Range(frames[j].todo)
  BY NextIs
<1>2. PICK s, t : s = frame.todo /\ t = Tail(s)
  OBVIOUS
<1>3. Sequence(s) /\ s # << >>
  BY <1>1, <1>2, TopIs DEF Sound
<1>4. Range(t) \subseteq Range(s) /\ \A c \in Range(s) : c = next \/ c \in Range(t)
  <2>1. s \in Seq(Range(s)) /\ Len(s) \in Nat /\ DOMAIN s = 1..Len(s)
    BY <1>3, SequenceIs DEF Sequence
  <2>2. Range(t) \subseteq Range(s)
    BY <1>2, <1>3, TailIs
  <2>3. ASSUME NEW k \in 1..Len(s)
        PROVE  s[k] = next \/ s[k] \in Range(t)
    <3>1. CASE k = 1
      BY <1>2, <1>3, <3>1, RestIs DEF next
    <3>2. CASE k # 1
      <4>1. PICK S : S = Range(s)
        OBVIOUS
      <4>2. s \in Seq(S)
        BY <2>1, <4>1
      <4>3. k - 1 \in DOMAIN t /\ t[k - 1] = s[k]
        BY <1>2, <1>3, <2>1, <2>3, <3>2, <4>2
      <4>4. QED
        BY <4>3 DEF Range
    <3>3. QED
      BY <3>1, <3>2
  <2>4. QED
    BY <2>1, <2>2, <2>3 DEF Range
<1>5. \A j \in DOMAIN frames :
        /\ j \in DOMAIN frames'
        /\ Range(frames'[j].todo) \subseteq Range(frames[j].todo)
        /\ next \notin Range(frames'[j].todo)
        /\ \A c \in Range(frames[j].todo) : c = next \/ c \in Range(frames'[j].todo)
  BY <1>1, <1>2, <1>4 DEF Advances
<1>6. \A j \in DOMAIN frames' : j \in DOMAIN frames \/ Range(frames'[j].todo) = {}
  BY DEF Advances, Range
<1>7. next \in Awaited
  BY <1>1 DEF Awaited
<1>8. next \notin Awaited'
  BY <1>5, <1>6 DEF Awaited
<1>9. Awaited \ {next} \subseteq Awaited'
  BY <1>5 DEF Awaited
<1>10. \A c : CallsKeptFor(c)
  BY <1>5, <1>6 DEF CallsKeptFor, Advances
<1>11. QED
  BY <1>7, <1>8, <1>9, <1>10

MemberKinds == {"typed", "class", "enum", "constant"}

LEMMA RemapsWritten ==
  ASSUME Sound, Sound', Typed, Written, Remapping, UNCHANGED <<templates, open>>,
         NEW r, defs' = [defs EXCEPT ![next] = r],
         r.kind = defs[next].kind, r.order = defs[next].order, ExprKept(r.expr),
         defs[next].kind \in MemberKinds => RemapOf(defs[next], r), Advances, \A j \in DOMAIN frames' : FrameWritten(j)'
  PROVE  Written'
<1>1. PICK x : x = next
  OBVIOUS
<1>2. /\ frames # << >> /\ Len(frames) \in DOMAIN frames /\ frame = frames[Len(frames)]
      /\ x \in DOMAIN defs /\ x \in Range(frame.todo)
  BY <1>1, NextIs
<1>3. /\ x \in Awaited /\ x \notin Awaited' /\ Awaited \ {x} \subseteq Awaited'
      /\ \A c : CallsKeptFor(c)
  BY <1>1, AdvancesIs
<1>4. DOMAIN defs' = DOMAIN defs /\ \A d \in DOMAIN defs : defs'[d] = IF d = x THEN r ELSE defs[d]
  BY <1>1
<1>5. x \notin Bodies
  BY <1>2 DEF Written, FrameWritten
<1>6. KindsKept
  BY <1>1, <1>4 DEF KindsKept
<1>7. \A d \in DOMAIN defs : d # x => Alike(defs[d], defs'[d])
  BY <1>4 DEF Alike
<1>8. \A d \in DOMAIN defs : defs'[d].order = defs[d].order /\ ExprKept(defs'[d].expr)
  BY <1>1, <1>4 DEF ExprKept
<1>9. SettledKept
  <2>1. \A m \in DOMAIN defs : m \notin Awaited => m # x /\ m \notin Awaited'
    BY <1>3 DEF CallsKeptFor, Awaited
  <2>2. QED
    BY <1>4, <2>1 DEF SettledKept
<1>10. ASSUME NEW t \in DOMAIN templates, NEW i \in DOMAIN Instances(t), NEW d \in Whole(t),
              Instances(t)[i].copies[d] = x
       PROVE  CopyDone(t, Instances(t)[i], d)'
  <2>1. PICK instance : instance = Instances(t)[i]
    OBVIOUS
  <2>2. InstanceWritten(t, instance) /\ ParamsWritten(t)
    BY <2>1 DEF Written, TemplateWritten
  <2>3. SameAs(defs[x], defs[d]) /\ Maps(t, instance, frame.copies)
    BY <1>2, <1>10, <2>1, <2>2 DEF InstanceWritten, CopyWritten
  <2>4. FilterMaps(t, instance)
    BY <2>2, <2>3, FilterMapsFor DEF Typed, TemplatesTyped
  <2>5. WholeKept(t)
    <3>1. Whole(t) \subseteq DOMAIN defs
      BY WholesAre DEF Sound
    <3>2. Whole(t)' = Whole(t)
      BY <1>4, <1>8, <3>1, WholeSame DEF Sound
    <3>3. \A y \in Whole(t) : y # x
      BY <1>5 DEF Bodies
    <3>4. QED
      BY <1>7, <3>1, <3>2, <3>3 DEF WholeKept, NamesKept
  <2>6. RemapOf(defs[x], defs'[x])
    <3>1. defs[d].kind \in MemberKinds
      BY DEF Written, TemplateWritten, MemberWritten, MemberKinds
    <3>2. defs[x].kind = defs[d].kind
      BY <1>10, <2>1, <2>2 DEF InstanceWritten, CopyWritten
    <3>3. QED
      BY <1>1, <1>2, <1>4, <3>1, <3>2
  <2>7. CopyDone(t, instance, d)'
    BY <1>6, <1>9, <1>10, <2>1, <2>2, <2>3, <2>4, <2>5, <2>6, RemappedDone
  <2>8. Instances(t)[i]' = instance
    BY <2>1 DEF Instances
  <2>9. QED
    BY <2>7, <2>8
<1>11. QED
  BY <1>2, <1>3, <1>4, <1>5, <1>6, <1>7, <1>8, <1>10, CallWritten

LEMMA DoneIs ==
  ASSUME Sound, Typed, Remapping
  PROVE  \E f : /\ Done = Append(Caller, f) /\ f.todo = Tail(frame.todo)
                /\ f.temp = frame.temp /\ f.key = frame.key /\ f.to = frame.to
                /\ f.at = "remap" /\ f.def = frame.def /\ f.copies = frame.copies
                /\ Range(f.todo) \subseteq Range(frame.todo)
<1>1. PICK f : f = [frame EXCEPT !.todo = Tail(frame.todo)]
  OBVIOUS
<1>2. frame.todo # << >> /\ DOMAIN frame = FrameFields /\ frame.at = "remap"
  BY NextIs DEF Remapping
<1>3. /\ f.todo = Tail(frame.todo) /\ f.temp = frame.temp /\ f.key = frame.key
      /\ f.to = frame.to /\ f.at = "remap" /\ f.def = frame.def /\ f.copies = frame.copies
  BY <1>1, <1>2 DEF FrameFields
<1>4. Range(Tail(frame.todo)) \subseteq Range(frame.todo)
  BY <1>2, TailIs, TopIs DEF Sound, Remapping
<1>5. QED
  BY <1>1, <1>3, <1>4 DEF Done

LEMMA DoneWritten ==
  ASSUME Sound, Sound', Typed, Written, Remapping, UNCHANGED templates, KindsKept,
         Bodies' = Bodies, frames' = Done
  PROVE  Advances /\ \A j \in DOMAIN frames' : FrameWritten(j)'
<1>1. PICK f : /\ Done = Append(Caller, f) /\ f.todo = Tail(frame.todo)
               /\ f.temp = frame.temp /\ f.key = frame.key /\ f.to = frame.to
               /\ f.at = "remap" /\ f.def = frame.def /\ f.copies = frame.copies
               /\ Range(f.todo) \subseteq Range(frame.todo)
  BY DoneIs
<1>2. /\ DOMAIN frames' = DOMAIN frames /\ Len(frames) \in DOMAIN frames
      /\ \A j \in DOMAIN frames : frames'[j] = IF j = Len(frames) THEN f ELSE frames[j]
      /\ frame = frames[Len(frames)] /\ DOMAIN frames = 1..Len(frames) /\ Len(frames) \in Nat
  BY Zenon, <1>1, TopReplaced, TopIs, SequenceIs DEF Sound, FramesSound, Remapping
<1>3. Advances
  BY <1>1, <1>2 DEF Advances
<1>4. Len(frames') = Len(frames)
  <2>1. Len(frames') \in Nat /\ DOMAIN frames' = 1..Len(frames')
    BY SequenceIs DEF Sound, FramesSound
  <2>2. QED
    BY <1>2, <2>1, SameCount
<1>5. ASSUME NEW j \in DOMAIN frames'
      PROVE  FrameWritten(j)'
  <2>1. FrameWritten(j) /\ j \in DOMAIN frames
    BY <1>2, <1>5 DEF Written
  <2>2. Passing(j)' => Passing(j)
    <3>1. \A k \in DOMAIN frames : frames'[k].to = frames[k].to
      BY <1>1, <1>2
    <3>2. j < Len(frames) => j + 1 \in DOMAIN frames
      BY SMTT(30), <1>2, <2>1
    <3>3. QED
      BY Zenon, <1>4, <3>1, <3>2 DEF Passing
  <2>3. CASE j = Len(frames)
    <3>1. ~Passing(j)
      BY <1>2, <2>3 DEF Passing
    <3>2. QED
      BY <1>1, <1>2, <2>1, <2>2, <2>3, <3>1, FrameWrittenKept
  <2>4. CASE j # Len(frames)
    <3>1. frames[j].todo # << >> => frames[j].at = "remap" /\ ~Passing(j)
      BY <2>1 DEF FrameWritten
    <3>2. QED
      BY <1>2, <2>1, <2>2, <2>4, <3>1, FrameWrittenKept
  <2>5. QED
    BY <2>3, <2>4
<1>6. QED
  BY <1>3, <1>5

LEMMA RemappedOf ==
  ASSUME NEW g, DOMAIN g = DefinitionFields, g.kind # "constant", NEW r, r = Remapped(g)
  PROVE  /\ r.kind = g.kind /\ r.order = g.order /\ r.expr = g.expr
         /\ g.kind \in MemberKinds => RemapOf(g, r)
<1>1. CASE g.kind = "typed"
  <2>1. PICK y, p : y = filter(g.type) /\ p = filter(g.parent)
    OBVIOUS
  <2>2. r = [g EXCEPT !.type = y, !.parent = p]
    BY <1>1, <2>1 DEF Remapped
  <2>3. QED
    BY <1>1, <2>1, <2>2 DEF RemapOf, DefinitionFields
<1>2. CASE g.kind = "class"
  <2>1. PICK p, b, m : /\ p = filter(g.parent) /\ b = RemappedBase(g.base)
                       /\ m = [x \in DOMAIN g.general |-> filter(g.general[x])]
    OBVIOUS
  <2>2. r = [g EXCEPT !.parent = p, !.base = b, !.general = m]
    BY <1>2, <2>1 DEF Remapped
  <2>3. QED
    BY <1>2, <2>1, <2>2 DEF RemapOf, DefinitionFields
<1>3. CASE g.kind \notin {"typed", "class"}
  <2>1. r = g
    BY <1>3 DEF Remapped
  <2>2. QED
    BY <1>3, <2>1 DEF RemapOf, MemberKinds
<1>4. QED
  BY <1>1, <1>2, <1>3

LEMMA RemapWritten ==
  ASSUME Sound, Sound', Typed, Written, Remap
  PROVE  Written'
<1>1. /\ Remapping /\ defs[next].kind # "constant"
      /\ defs' = [defs EXCEPT ![next] = Remapped(defs[next])]
      /\ frames' = Done /\ UNCHANGED <<templates, open>>
  BY DEF Remap
<1>2. PICK x, r : x = next /\ r = Remapped(defs[next])
  OBVIOUS
<1>3. defs' = [defs EXCEPT ![x] = r] /\ x \in DOMAIN defs
  BY <1>1, <1>2, NextIs
<1>4. /\ r.kind = defs[x].kind /\ r.order = defs[x].order /\ r.expr = defs[x].expr
      /\ defs[x].kind \in MemberKinds => RemapOf(defs[x], r)
  BY <1>1, <1>2, <1>3, RemappedOf DEF Sound, DefsSound
<1>5. ExprKept(r.expr)
  BY <1>3, <1>4 DEF ExprKept
<1>6. Advances /\ \A j \in DOMAIN frames' : FrameWritten(j)'
  <2>1. KindsKept /\ DOMAIN defs' = DOMAIN defs
        /\ \A d \in DOMAIN defs : defs'[d].order = defs[d].order
    BY <1>3, <1>4 DEF KindsKept
  <2>2. Bodies' = Bodies
    BY <1>1, <2>1, BodiesSame
  <2>3. QED
    BY <1>1, <2>1, <2>2, DoneWritten
<1>7. QED
  BY <1>1, <1>2, <1>3, <1>4, <1>5, <1>6, RemapsWritten

Here(g, p, e, here) ==
  /\ DOMAIN here = DefinitionFields /\ here.kind = g.kind /\ here.type = g.type
  /\ here.parent = p /\ here.base = g.base
  /\ here.expr = e /\ here.general = g.general /\ here.order = g.order

LEMMA HereOf ==
  ASSUME NEW g, g.kind = "constant", NEW e, NEW r, NEW v, NEW here,
         Here(g, filter(g.parent), e, here),
         r = here \/ r = Settled(here, v)
  PROVE  /\ r.kind = g.kind /\ r.order = g.order /\ RemapOf(g, r)
         /\ r.expr = e \/ r.expr = NoExpression
<1>1. PICK p : p = filter(g.parent)
  OBVIOUS
<1>2. /\ r.kind = g.kind /\ r.type = g.type /\ r.parent = p /\ r.base = g.base
      /\ r.general = g.general /\ r.order = g.order
      /\ r.expr = e \/ r.expr = NoExpression
  <2>1. CASE r = here
    BY <1>1, <2>1 DEF Here
  <2>2. CASE r = Settled(here, v)
    BY <1>1, <2>2 DEF Settled, DefinitionFields, Here
  <2>3. QED
    BY <2>1, <2>2
<1>3. QED
  BY <1>1, <1>2 DEF RemapOf

LEMMA RemapEnumeratorWritten ==
  ASSUME Sound, Sound', Typed, Written, RemapEnumerator
  PROVE  Written'
<1>1. /\ Remapping /\ defs[next].kind = "constant" /\ frames # << >>
      /\ UNCHANGED <<templates, open>>
  BY DEF RemapEnumerator, Remapping
<1>2. PICK y, g : y = next /\ g = defs[next]
  OBVIOUS
<1>3. y \in DOMAIN defs /\ DOMAIN g = DefinitionFields /\ ExpressionSound(g.expr)
  BY <1>1, <1>2, NextIs DEF Sound, DefsSound
<1>4. PICK e : e = [g.expr EXCEPT !.def = filter(g.expr.def)]
  OBVIOUS
<1>5. PICK x, here, arg, v :
        /\ x = IF e.def = 0 THEN None ELSE defs[e.def].value
        /\ here = [g EXCEPT !.parent = filter(g.parent), !.expr = e]
        /\ arg = IF e.op = "access" THEN x.n ELSE x.n - 1
        /\ v = Evaluated(e, x)
  OBVIOUS
<1>6. IF Calls(e, x)
      THEN /\ defs' = [defs EXCEPT ![y] = here]
           /\ frames' = Append(Done, Frame(e.temp, <<Argument("value", arg)>>, "enumerator", y))
      ELSE /\ defs' = [defs EXCEPT ![y] = IF e.op = "none" THEN here ELSE Settled(here, v)]
           /\ frames' = Done
  BY <1>2, <1>4, <1>5 DEF RemapEnumerator
<1>7. e.op = g.expr.op /\ e.temp = g.expr.temp
  BY <1>3, <1>4 DEF ExpressionSound
<1>8. PICK r : /\ r = here \/ r = Settled(here, v)
               /\ defs' = [defs EXCEPT ![y] = r]
  BY <1>6
<1>9. /\ r.kind = g.kind /\ r.order = g.order /\ RemapOf(g, r)
      /\ r.expr = e \/ r.expr = NoExpression
  <2>1. PICK p : p = filter(g.parent)
    OBVIOUS
  <2>2. here = [g EXCEPT !.parent = p, !.expr = e]
    BY <1>5, <2>1
  <2>3. Here(g, p, e, here)
    BY <1>3, <2>2 DEF Here, DefinitionFields
  <2>4. Here(g, filter(g.parent), e, here) /\ g.kind = "constant"
    BY <1>1, <1>2, <2>1, <2>3
  <2>5. QED
    BY <1>8, <2>4, HereOf
<1>10. ExprKept(r.expr)
  BY <1>2, <1>3, <1>7, <1>9 DEF ExprKept, NoExpression, Expression
<1>11. /\ KindsKept /\ Bodies' = Bodies
  <2>1. KindsKept /\ DOMAIN defs' = DOMAIN defs
        /\ \A d \in DOMAIN defs : defs'[d].order = defs[d].order
    BY <1>2, <1>8, <1>9 DEF KindsKept
  <2>2. QED
    BY <1>1, <2>1, BodiesSame
<1>12. Advances /\ \A j \in DOMAIN frames' : FrameWritten(j)'
  <2>1. CASE ~Calls(e, x)
    BY <1>1, <1>6, <1>11, <2>1, DoneWritten
  <2>2. CASE Calls(e, x)
    <3>1. PICK key, h : key = <<Argument("value", arg)>> /\ h = Frame(e.temp, key, "enumerator", y)
      OBVIOUS
    <3>2. PICK f : /\ Done = Append(Caller, f) /\ f.todo = Tail(frame.todo)
                   /\ f.temp = frame.temp /\ f.key = frame.key /\ f.to = frame.to
                   /\ f.at = "remap" /\ f.def = frame.def /\ f.copies = frame.copies
                   /\ Range(f.todo) \subseteq Range(frame.todo)
      BY <1>1, DoneIs
    <3>3. frames' = Append(Append(Caller, f), h)
      BY <1>6, <2>2, <3>1, <3>2
    <3>4. /\ DOMAIN frames' = 1..Len(frames) + 1
          /\ \A i \in 1..Len(frames) - 1 : frames'[i] = frames[i]
          /\ frames'[Len(frames)] = f /\ frames'[Len(frames) + 1] = h
      BY <1>1, <3>3, CalledIs DEF Sound
    <3>5. /\ h.temp = e.temp /\ h.key = key /\ h.todo = << >> /\ h.to = "enumerator"
      BY <3>1 DEF Frame
    <3>6. /\ e.temp \in DOMAIN templates /\ Arity(e.temp) = 1 /\ KindOf(e.temp, 1) = "value"
          /\ templates[e.temp].unread => e.temp = open.temp
      BY <1>2, <1>3, <1>7, <2>2 DEF Calls, ExpressionSound, Written, ExprWritten
    <3>7. ~templates[e.temp].unread
      <4>1. open.temp = 0 /\ 0 \notin DOMAIN templates
        BY <1>1, SequenceIs DEF Written, OpenWritten, Sound, TemplatesSound
      <4>2. QED
        BY <3>6, <4>1
    <3>8. KeyFits(e.temp, key)
      BY <3>1, <3>6 DEF KeyFits, Argument
    <3>9. /\ frame = frames[Len(frames)] /\ DOMAIN frames = 1..Len(frames)
          /\ Len(frames) \in Nat \ {0}
      BY <1>1, TopIs, SequenceIs DEF Sound, FramesSound
    <3>10. Advances
      BY <3>2, <3>4, <3>5, <3>9 DEF Advances
    <3>11. QED
      BY <1>1, <1>11, <3>2, <3>4, <3>5, <3>6, <3>7, <3>8, <3>10, CallsWritten
  <2>3. QED
    BY <2>1, <2>2
<1>13. QED
  BY <1>1, <1>2, <1>8, <1>9, <1>10, <1>12, RemapsWritten

-----------------------------------------------------------------------------
(* The steps of the program that is read: no call waits to remap anything. *)
Idle == frames = << >> /\ \A j \in DOMAIN frames' : frames'[j].todo = << >>

LEMMA IdleIs ==
  ASSUME Idle, KindsKept, \A d \in DOMAIN defs : defs'[d].type = defs[d].type
  PROVE  /\ Awaited = {} /\ Awaited' = {} /\ SettledKept
         /\ \A c : CallsKeptFor(c)
<1>1. DOMAIN frames = {} /\ \A j \in DOMAIN frames' : Range(frames'[j].todo) = {}
  BY DEF Idle, Range
<1>2. Awaited = {}
  BY <1>1 DEF Awaited
<1>3. Awaited' = {}
  BY <1>1 DEF Awaited
<1>4. SettledKept
  BY <1>3 DEF SettledKept, KindsKept
<1>5. \A c : CallsKeptFor(c)
  BY <1>1 DEF CallsKeptFor
<1>6. QED
  BY <1>2, <1>3, <1>4, <1>5

TemplateSame(t) ==
  /\ NamesKept(t)
  /\ templates'[t].general = templates[t].general
  /\ templates'[t].defaults = templates[t].defaults
  /\ templates'[t].of = templates[t].of
  /\ templates'[t].instantiations = templates[t].instantiations
  /\ \A s \in DOMAIN templates'[t].specializations : SpecKept(t, s)
  /\ templates'[t].unread =>
       templates[t].unread /\ (t # open'.temp => t # open.temp)

LEMMA OtherWritten ==
  ASSUME Sound, Sound', Typed, Written, KindsKept, Idle,
         \A u \in DOMAIN templates : templates'[u].params = templates[u].params,
         NEW X, X \subseteq Bodies, Bodies' \intersect DOMAIN defs \subseteq Bodies,
         \A d \in DOMAIN defs :
           defs'[d].type = defs[d].type /\ (d \notin X => Alike(defs[d], defs'[d])),
         NEW t \in DOMAIN templates, TemplateSame(t), Whole(t) \intersect X = {}
  PROVE  TemplateWritten(t)'
<1>1. /\ Awaited = {} /\ Awaited' = {} /\ SettledKept
      /\ \A c : CallsKeptFor(c)
  BY IdleIs
<1>2. /\ Whole(t) \subseteq DOMAIN defs /\ TemplateWritten(t)
      /\ DOMAIN defs \subseteq DOMAIN defs'
  BY WholesAre DEF Sound, Written, KindsKept
<1>3. \A d \in Whole(t) : Alike(defs[d], defs'[d])
  BY <1>2
<1>4. WholeKept(t)
  <2>1. Whole(t)' = Whole(t)
    BY <1>2, <1>3, WholeSame DEF Sound, TemplateSame, NamesKept, Alike
  <2>2. QED
    BY <1>3, <2>1 DEF WholeKept, TemplateSame
<1>5. ASSUME NEW i \in DOMAIN Instances(t), NEW d \in Whole(t)
      PROVE  CopyKept(t, Instances(t)[i], d)
  <2>1. PICK instance, c : instance = Instances(t)[i] /\ c = instance.copies[d]
    OBVIOUS
  <2>2. c \in DOMAIN defs /\ c \notin Bodies
    BY <1>2, <1>5, <2>1 DEF TemplateWritten, InstanceWritten, CopyWritten
  <2>3. Alike(defs[c], defs'[c]) /\ c \notin Bodies'
    BY <2>2
  <2>4. QED
    BY <1>1, <2>1, <2>3 DEF CopyKept, Alike
<1>6. TemplateAsWas(t)
  BY <1>4, <1>5 DEF TemplateAsWas, TemplateSame, Instances
<1>7. QED
  BY <1>1, <1>6, TemplateWrittenKept

(* The definitions of what is read are kept in their places.               *)
LEMMA OthersWritten ==
  ASSUME Sound, Sound', Typed, Written, KindsKept, Idle, UNCHANGED defs,
         DOMAIN templates' = DOMAIN templates,
         \A t \in DOMAIN templates : TemplateSame(t)
  PROVE  /\ \A t \in DOMAIN templates' : TemplateWritten(t)'
         /\ \A t \in DOMAIN templates : Whole(t)' = Whole(t)
         /\ WholesApart' /\ \A d \in DOMAIN defs' : ExprWritten(defs[d].expr)'
         /\ defs'[IntType].kind = "atomic" /\ defs'[ClassType].kind = "class"
<1>1. \A t \in DOMAIN templates :
        NamesKept(t) /\ templates'[t].params = templates[t].params
        /\ templates'[t].def = templates[t].def
  BY DEF TemplateSame, NamesKept
<1>2. \A t \in DOMAIN templates : Whole(t)' = Whole(t)
  BY <1>1, WholeSame DEF Sound
<1>3. Bodies' = Bodies
  BY <1>2 DEF Bodies
<1>4. \A d \in DOMAIN defs : Alike(defs[d], defs'[d])
  BY DEF Alike
<1>5. \A t \in DOMAIN templates' : TemplateWritten(t)'
  <2>1. TAKE t \in DOMAIN templates'
  <2>2. Whole(t) \intersect {} = {} /\ {} \subseteq Bodies
        /\ Bodies' \intersect DOMAIN defs \subseteq Bodies
    BY <1>3
  <2>3. QED
    BY <1>1, <1>4, <2>2, OtherWritten
<1>6. WholesApart'
  BY <1>2 DEF WholesApart, Written
<1>7. \A d \in DOMAIN defs' : ExprWritten(defs[d].expr)'
  <2>1. TAKE d \in DOMAIN defs'
  <2>2. PICK e : e = defs'[d].expr
    OBVIOUS
  <2>3. ExprKept(e)
    BY <2>1, <2>2 DEF ExprKept
  <2>4. \A t \in DOMAIN templates :
          templates'[t].unread => templates[t].unread /\ (t = open.temp => t = open'.temp)
    BY DEF TemplateSame
  <2>5. ExprWritten(e)'
    BY <1>1, <2>3, <2>4, ExprWrittenKept
  <2>6. QED
    BY <2>2, <2>5
<1>8. QED
  BY <1>2, <1>5, <1>6, <1>7 DEF Written

LEMMA OpenKept ==
  ASSUME Written, UNCHANGED <<open, frames>>, KindsKept, DefsSound, TemplatesSound,
         DOMAIN templates \subseteq DOMAIN templates',
         open.temp # 0 =>
           templates'[open.temp].unread /\ Whole(open.temp) \subseteq Whole(open.temp)'
  PROVE  OpenWritten'
<1>1. SUFFICES ASSUME open.temp # 0
               PROVE  /\ open.temp \in DOMAIN templates' /\ templates'[open.temp].unread
                      /\ frames = << >>
                      /\ \A x \in Range(open.scopes) :
                           x \in Whole(open.temp)' /\ defs'[x].kind = "class"
  BY DEF OpenWritten
<1>2. /\ open.temp \in DOMAIN templates /\ frames = << >>
      /\ \A x \in Range(open.scopes) : x \in Whole(open.temp) /\ defs[x].kind = "class"
  BY <1>1 DEF OpenWritten, Written
<1>3. Whole(open.temp) \subseteq DOMAIN defs
  BY <1>2, WholesAre
<1>4. QED
  BY <1>1, <1>2, <1>3 DEF KindsKept

LEMMA StutterWritten ==
  ASSUME Sound, Sound', Typed, Written, UNCHANGED vars
  PROVE  Written'
<1>1. UNCHANGED <<defs, templates, open, frames>>
  BY DEF vars
<1>2. KindsKept /\ DOMAIN defs' = DOMAIN defs /\ Sequence(frames) /\ DefsSound /\ TemplatesSound
  BY <1>1, DefsSame DEF Sound, FramesSound
<1>3. CASE frames = << >>
  <2>1. Idle /\ DOMAIN frames' = {} /\ DOMAIN frames = {}
    BY <1>1, <1>3 DEF Idle
  <2>2. \A t \in DOMAIN templates : TemplateSame(t)
    BY <1>1 DEF TemplateSame, NamesKept, SpecKept
  <2>3. /\ \A t \in DOMAIN templates' : TemplateWritten(t)'
        /\ \A t \in DOMAIN templates : Whole(t)' = Whole(t)
        /\ WholesApart' /\ \A d \in DOMAIN defs' : ExprWritten(defs[d].expr)'
        /\ defs'[IntType].kind = "atomic" /\ defs'[ClassType].kind = "class"
    BY <1>1, <1>2, <2>1, <2>2, OthersWritten
  <2>4. OpenWritten'
    BY <1>1, <1>2, <2>3, OpenKept DEF Written, OpenWritten
  <2>5. QED
    BY <2>1, <2>3, <2>4 DEF Written
<1>4. CASE frames # << >>
  <2>1. Bodies' = Bodies
    BY <1>1, <1>2, BodiesSame, DefsSame
  <2>2. \A j \in DOMAIN frames' : FrameWritten(j)'
    <3>1. TAKE j \in DOMAIN frames'
    <3>2. j \in DOMAIN frames /\ FrameWritten(j) /\ Passing(j)' = Passing(j)
          /\ frames'[j] = frames[j]
      BY <1>1 DEF Written, Passing
    <3>3. QED
      BY <1>1, <1>2, <2>1, <3>2, FrameWrittenKept DEF FrameWritten
  <2>3. QED
    BY <1>1, <1>2, <1>4, <2>2, SameWritten, DefsSame DEF TodoSame
<1>5. QED
  BY <1>3, <1>4

LEMMA CloseScopeWritten ==
  ASSUME Sound, Sound', Typed, Written, CloseScope
  PROVE  Written'
<1>1. /\ UNCHANGED <<defs, frames>> /\ frames = << >> /\ open.temp # 0
  BY DEF CloseScope, Reading
<1>2. /\ KindsKept /\ DefsSound /\ TemplatesSound /\ OpenSound /\ OpenTyped
      /\ open.temp \in DOMAIN templates
  <2>1. open.temp \in DOMAIN templates
    BY <1>1 DEF Written, OpenWritten
  <2>2. QED
    BY <1>1, <2>1, DefsSame DEF Sound, Typed
<1>3. Idle /\ DOMAIN frames' = {}
  BY <1>1 DEF Idle
<1>4. /\ DOMAIN templates' = DOMAIN templates
      /\ \A t \in DOMAIN templates : TemplateSame(t)
      /\ OpenWritten'
  <2>1. CASE open' = [open EXCEPT !.scopes = Front(@)] /\ UNCHANGED templates /\ Len(open.scopes) > 1
    <3>1. open'.temp = open.temp /\ open'.scopes = Front(open.scopes)
      BY <1>2, <2>1 DEF OpenSound
    <3>2. Range(open'.scopes) \subseteq Range(open.scopes)
      <4>1. Sequence(open.scopes) /\ open.scopes # << >>
        BY <1>1, <1>2 DEF OpenTyped
      <4>2. PICK s : s = open.scopes
        OBVIOUS
      <4>3. QED
        BY <3>1, <4>1, <4>2, FrontOf, SequenceIs DEF Range
    <3>3. \A t \in DOMAIN templates : TemplateSame(t)
      BY <2>1, <3>1 DEF TemplateSame, NamesKept, SpecKept
    <3>4. \A t \in DOMAIN templates : Whole(t)' = Whole(t)
      BY <1>1, <1>2, <1>3, <2>1, <3>3, OthersWritten
    <3>5. OpenWritten'
      <4>1. /\ templates[open.temp].unread /\ frames = << >>
            /\ \A x \in Range(open.scopes) : x \in Whole(open.temp) /\ defs[x].kind = "class"
        BY <1>1 DEF Written, OpenWritten
      <4>2. Whole(open.temp)' = Whole(open.temp)
        BY <1>2, <3>1, <3>4
      <4>3. QED
        BY <1>1, <1>2, <2>1, <3>1, <3>2, <4>1, <4>2 DEF OpenWritten
    <3>6. QED
      BY <2>1, <3>3, <3>5
  <2>2. CASE /\ open' = [temp |-> 0, scopes |-> <<>>]
             /\ templates' = [templates EXCEPT ![open.temp].unread = FALSE]
    <3>1. OpenWritten'
      BY <2>2 DEF OpenWritten
    <3>2. TemplatesSound /\ open.temp \in DOMAIN templates
      BY <1>2
    <3>3. PICK g : g = templates[open.temp]
      OBVIOUS
    <3>4. PICK r : r = [g EXCEPT !.unread = FALSE]
      OBVIOUS
    <3>5. DOMAIN g = TemplateFields
      BY <3>2, <3>3 DEF TemplatesSound, TemplateSound
    <3>6. /\ r.params = g.params /\ r.defaults = g.defaults
          /\ r.def = g.def /\ r.specializations = g.specializations /\ r.of = g.of
          /\ r.instantiations = g.instantiations /\ r.names = g.names /\ r.general = g.general
          /\ r.unread = FALSE
      BY <3>4, <3>5 DEF TemplateFields
    <3>7. templates' = [templates EXCEPT ![open.temp] = r]
      BY <2>2, <3>3, <3>4
    <3>8. DOMAIN templates' = DOMAIN templates
          /\ \A t \in DOMAIN templates : templates'[t] = IF t = open.temp THEN r ELSE templates[t]
      BY <3>2, <3>7
    <3>9. ASSUME NEW t \in DOMAIN templates
          PROVE  TemplateSame(t)
      <4>1. CASE t = open.temp
        BY <3>3, <3>6, <3>8, <4>1 DEF TemplateSame, NamesKept, SpecKept
      <4>2. CASE t # open.temp
        BY <3>8, <4>2 DEF TemplateSame, NamesKept, SpecKept
      <4>3. QED
        BY <4>1, <4>2
    <3>10. QED
      BY <3>1, <3>8, <3>9
  <2>3. QED
    BY <2>1, <2>2 DEF CloseScope
<1>5. QED
  BY <1>1, <1>2, <1>3, <1>4, OthersWritten DEF Written

(* The key of a use is of the kinds of the parameters.                     *)
LEMMA UseFits ==
  ASSUME Sound, Written, NEW t \in DOMAIN templates, NEW args,
         Len(args) \in 0..Arity(t),
         \A i \in 1..Arity(t) :
           IF i <= Len(args) THEN args[i] \in Arguments(KindOf(t, i))
           ELSE templates[t].defaults[i].kind # "none"
  PROVE  KeyFits(t, Key(t, args))
<1>1. /\ ParamsWritten(t) /\ DefaultsSound(Arity(t), templates[t].defaults)
      /\ Arity(t) \in Nat
  BY DEF Sound, Written, TemplateWritten, TemplatesSound, TemplateSound, DefaultsSound
<1>2. PICK key : key = Key(t, args)
  OBVIOUS
<1>3. DOMAIN key = 1..Arity(t)
  BY <1>2 DEF Key
<1>4. \A i \in 1..Arity(t) : i <= Len(args) => args[i].kind = KindOf(t, i)
  <2>1. TAKE i \in 1..Arity(t)
  <2>2. HAVE i <= Len(args)
  <2>3. args[i] \in Arguments(KindOf(t, i)) /\ KindOf(t, i) \in {"type", "value"}
    BY <1>1, <2>2 DEF ParamsWritten
  <2>4. QED
    BY <2>3 DEF Arguments, Argument
<1>5. ASSUME NEW i \in 1..Arity(t)
      PROVE  key[i].kind = KindOf(t, i)
  <2>1. CASE i <= Len(args)
    BY <1>2, <1>4, <2>1 DEF Key
  <2>2. CASE ~(i <= Len(args))
    <3>1. PICK default : default = templates[t].defaults[i]
      OBVIOUS
    <3>2. key[i] = Default(t, i, args) /\ default.kind # "none"
      BY <1>2, <2>2, <3>1 DEF Key
    <3>3. IF default.kind = "parameter" THEN KindOf(t, default.of) = KindOf(t, i)
          ELSE default.kind = KindOf(t, i)
      BY <1>1, <3>1, <3>2 DEF ParamsWritten
    <3>4. default.kind = "parameter" => default.of \in 1..Arity(t)
      BY <1>1, <3>1 DEF DefaultsSound
    <3>5. CASE default.kind # "parameter"
      BY <3>1, <3>2, <3>3, <3>5 DEF Default
    <3>6. CASE default.kind = "parameter" /\ default.of <= Len(args)
      BY <1>4, <3>1, <3>2, <3>3, <3>4, <3>6 DEF Default
    <3>7. CASE default.kind = "parameter" /\ ~(default.of <= Len(args))
      BY <3>1, <3>2, <3>7 DEF Default, Abstract, Argument
    <3>8. QED
      BY <3>5, <3>6, <3>7
  <2>3. QED
    BY <2>1, <2>2
<1>6. QED
  BY <1>2, <1>3, <1>5 DEF KeyFits

LEMMA UseTemplateWritten ==
  ASSUME Sound, Sound', Typed, Written,
         NEW u \in DOMAIN templates, NEW args, NEW n \in 0..Arity(u),
         args \in [1..n -> Arguments("type") \union Arguments("value")], Use(u, args)
  PROVE  Written'
<1>1. /\ UNCHANGED <<defs, templates, open>> /\ frames = << >> /\ open.temp = 0
      /\ ~templates[u].unread
  BY DEF Use, AtOuter, Reading
<1>2. KindsKept /\ DefsSound /\ TemplatesSound /\ Arity(u) \in Nat
  BY <1>1, DefsSame DEF Sound, TemplatesSound, TemplateSound, DefaultsSound
<1>3. Len(args) = n
  BY <1>2, SequenceOf
<1>4. PICK key : key = Key(u, args)
  OBVIOUS
<1>5. KeyFits(u, key)
  BY <1>2, <1>3, <1>4, UseFits DEF Use
<1>6. PICK f : f = Frame(u, key, "use", 0)
  OBVIOUS
<1>7. f.temp = u /\ f.key = key /\ f.todo = << >>
  BY <1>6, FrameIs, FrameStarts
<1>8. frames' = frames \/ frames' = <<f>>
  BY <1>4, <1>6 DEF Use
<1>9. \A j \in DOMAIN frames' : frames'[j] = f
  BY <1>1, <1>8
<1>10. Idle
  BY <1>1, <1>7, <1>9 DEF Idle
<1>11. \A t \in DOMAIN templates : TemplateSame(t)
  BY <1>1 DEF TemplateSame, NamesKept, SpecKept
<1>12. \A j \in DOMAIN frames' : FrameWritten(j)'
  <2>1. TAKE j \in DOMAIN frames'
  <2>2. frames'[j].temp = u /\ frames'[j].key = key /\ frames'[j].todo = << >>
    BY <1>7, <1>9
  <2>3. KeyFits(u, key)'
    BY <1>1, <1>2, <1>5, <1>11, KeyFitsKept DEF TemplateSame, Typed, TemplatesTyped
  <2>4. Range(frames'[j].todo) = {}
    BY <2>2 DEF Range
  <2>5. QED
    BY <1>1, <2>2, <2>3, <2>4 DEF FrameWritten
<1>13. OpenWritten'
  BY <1>1 DEF OpenWritten
<1>14. QED
  BY <1>1, <1>2, <1>10, <1>11, <1>12, <1>13, OthersWritten DEF Written

LEMMA TreeNext ==
  ASSUME DefsSound', NEW x, NEW S, Spans(S, x)'
  PROVE  Tree(x)' = S
<1>1. Owned' /\ Treelike'
  BY DEF DefsSound
<1>2. x \in DOMAIN defs'
  BY DEF Spans
<1>3. Spans(Tree(x), x)'
  BY <1>1, <1>2, TreesSpanNext DEF TreesSpan
<1>4. QED
  BY <1>1, <1>3, TreesSpanNext DEF SpanOnce

(* A new template: the parameters of its list, then its class.             *)
Allocates(list, D, n, body) ==
  /\ D \in Nat /\ n \in Nat /\ D = Len(defs) /\ n = Len(list) /\ body = D + n + 1
  /\ DOMAIN defs = 1..D /\ DOMAIN list = 1..n
  /\ DOMAIN defs' = 1..D + n + 1
  /\ \A d \in DOMAIN defs : defs'[d] = defs[d]
  /\ \A i \in 1..n : defs'[D + i] = Parameters(list)[i]
  /\ defs'[body] = Definition("class", 0, 0)

LEMMA AllocatedAre ==
  ASSUME DefsSound, NEW list, WellFormed(list), Allocate(list),
         NEW D, D = Len(defs), NEW n, n = Len(list)
  PROVE  Allocates(list, D, n, D + n + 1)
<1>1. D \in Nat /\ DOMAIN defs = 1..D /\ Sequence(defs)
  BY SequenceIs DEF DefsSound
<1>2. n \in Nat /\ DOMAIN list = 1..n
  BY ListIs
<1>3. PICK p : p = Parameters(list)
  OBVIOUS
<1>4. Sequence(p) /\ Len(p) = n
  <2>1. DOMAIN p = 1..n /\ p = [i \in 1..n |-> p[i]]
    BY <1>2, <1>3 DEF Parameters
  <2>2. QED
    BY <1>2, <2>1, SequenceOf
<1>5. PICK c : c = Definition("class", 0, 0)
  OBVIOUS
<1>6. Sequence(<<c>>) /\ Len(<<c>>) = 1 /\ <<c>>[1] = c
  <2>1. <<c>> \in Seq({c}) /\ Range(<<c>>) = {c}
    BY DEF Range
  <2>2. QED
    BY <2>1 DEF Sequence
<1>7. PICK a : a = defs \o p
  OBVIOUS
<1>8. /\ Sequence(a) /\ Len(a) = D + n
      /\ \A i \in 1..D : a[i] = defs[i]
      /\ \A i \in D + 1..D + n : a[i] = p[i - D]
  <2>1. /\ Sequence(defs \o p) /\ Len(defs \o p) = Len(defs) + Len(p)
        /\ \A i \in 1..Len(defs) : (defs \o p)[i] = defs[i]
        /\ \A i \in Len(defs) + 1..Len(defs) + Len(p) : (defs \o p)[i] = p[i - Len(defs)]
    BY <1>1, <1>4, Concatenated
  <2>2. QED
    BY <1>4, <1>7, <2>1
<1>9. defs' = a \o <<c>>
  BY <1>3, <1>5, <1>7 DEF Allocate
<1>10. PICK b : b = <<c>>
  OBVIOUS
<1>11. defs' = a \o b /\ Sequence(b) /\ Len(b) = 1 /\ b[1] = c
  BY <1>6, <1>9, <1>10
<1>12. /\ DOMAIN defs' = 1..D + n + 1
       /\ \A i \in 1..D + n : defs'[i] = a[i]
       /\ \A i \in D + n + 1..D + n + 1 : defs'[i] = b[i - (D + n)]
  <2>1. /\ DOMAIN (a \o b) = 1..Len(a) + Len(b)
        /\ \A i \in 1..Len(a) : (a \o b)[i] = a[i]
        /\ \A i \in Len(a) + 1..Len(a) + Len(b) : (a \o b)[i] = b[i - Len(a)]
    BY ZenonT(30), <1>8, <1>11, Concatenated
  <2>2. QED
    BY <1>8, <1>11, <2>1
<1>13. \A i \in 1..n : defs'[D + i] = p[i]
  <2>1. TAKE i \in 1..n
  <2>2. D + i \in D + 1..D + n /\ D + i \in 1..D + n /\ D + i - D = i
    BY <1>1, <1>2
  <2>3. QED
    BY <1>8, <1>12, <2>2
<1>14. defs'[D + n + 1] = c
  <2>1. D + n + 1 \in D + n + 1..D + n + 1 /\ D + n + 1 - (D + n) = 1
    BY <1>1, <1>2
  <2>2. QED
    BY <1>11, <1>12, <2>1
<1>15. \A d \in DOMAIN defs : defs'[d] = defs[d]
  BY <1>1, <1>2, <1>8, <1>12
<1>16. QED
  BY <1>1, <1>2, <1>3, <1>5, <1>12, <1>13, <1>14, <1>15 DEF Allocates

LEMMA ListHas ==
  ASSUME NEW list, WellFormed(list), NEW n, DOMAIN list = 1..n
  PROVE  /\ \A i, j \in 1..n : list[i].name = list[j].name => i = j
         /\ \A i \in 1..n :
              /\ list[i].kind \in {"type", "value"} /\ list[i].name # NoName
              /\ IF list[i].default.kind = "parameter"
                 THEN /\ list[i].default.of \in 1..i - 1
                      /\ list[list[i].default.of].kind = list[i].kind
                 ELSE list[i].default.kind \in {"none", list[i].kind}
BY Zenon DEF WellFormed

LEMMA NewTemplateWritten ==
  ASSUME DefsSound', NEW list, WellFormed(list), NEW D, NEW n, NEW body,
         Allocates(list, D, n, body),
         NEW t, NEW of, templates'[t] = NewTemplate(list, of), t = open'.temp \/ of = 0
  PROVE  /\ TemplateWritten(t)' /\ Whole(t)' = {body}
         /\ \A i \in 1..n : KindOf(t, i)' = list[i].kind
<1>0. /\ D \in Nat /\ n \in Nat /\ D = Len(defs) /\ n = Len(list) /\ body = D + n + 1
      /\ DOMAIN list = 1..n /\ DOMAIN defs' = 1..D + n + 1
      /\ \A i \in 1..n : defs'[D + i] = Parameters(list)[i]
      /\ defs'[body] = Definition("class", 0, 0)
  BY DEF Allocates
<1>1. PICK g : g = NewTemplate(list, of)
  OBVIOUS
<1>2. /\ g.params = [i \in 1..n |-> D + i] /\ g.names = [i \in 1..n |-> list[i].name]
      /\ g.defaults = [i \in 1..n |-> list[i].default] /\ g.def = body /\ g.of = of
      /\ g.specializations = << >> /\ g.instantiations = << >>
  BY <1>0, <1>1 DEF NewTemplate, Template, NewBody
<1>3. g.general = [m \in Range(g.names) |-> g.params[CHOOSE i \in DOMAIN g.names : g.names[i] = m]]
  BY <1>0, <1>1 DEF NewTemplate, Template
<1>4. Len(g.params) = n
  BY <1>0, <1>2, SequenceOf
<1>5. Arity(t)' = n
  BY <1>0, <1>1, <1>4 DEF Arity
<1>6. \A i \in 1..n : KindOf(t, i)' = list[i].kind
  <2>1. TAKE i \in 1..n
  <2>2. KindOf(t, i)' = Parameters(list)[i].kind
    <3>1. templates'[t].params[i] = D + i
      BY <1>1, <1>2
    <3>2. defs'[D + i] = Parameters(list)[i]
      BY <1>0
    <3>3. QED
      BY <3>1, <3>2 DEF KindOf
  <2>3. QED
    BY <1>0, <2>2 DEF Parameters, Definition
<1>7. Whole(t)' = {body}
  <2>1. defs'[body].order = << >>
    BY <1>0 DEF Definition
  <2>2. Spans({body}, body)'
    <3>1. PICK S : S = {body}
      OBVIOUS
    <3>2. Range(defs'[body].order) = {}
      BY <1>0, <2>1 DEF Range
    <3>3. body \in DOMAIN defs'
      BY <1>0
    <3>4. Spans(S, body)'
      BY <1>0, <3>1, <3>2, <3>3 DEF Spans
    <3>5. QED
      BY <3>1, <3>4
  <2>3. Tree(body)' = {body}
    BY <1>0, <2>2, TreeNext
  <2>4. QED
    BY <1>1, <1>2, <2>3 DEF Whole
<1>8. ParamsWritten(t)'
  <2>1. DOMAIN g.names = 1..n
    BY <1>0, <1>2
  <2>2. \A i \in 1..n : list[i].kind \in {"type", "value"} /\ g.names[i] # NoName
    BY <1>0, <1>2, ListHas
  <2>3. /\ \A i, j \in 1..n : g.params[i] = g.params[j] => i = j
        /\ \A i, j \in 1..n : g.names[i] = g.names[j] => i = j
    <3>1. \A i \in 1..n : g.params[i] = D + i /\ g.names[i] = list[i].name
      BY <1>0, <1>2
    <3>2. \A i, j \in 1..n : list[i].name = list[j].name => i = j
      BY <1>0, ListHas
    <3>3. \A i, j \in 1..n : D + i = D + j => i = j
      BY <1>0 DEF Allocates
    <3>4. \A i, j \in 1..n : g.params[i] = g.params[j] => i = j
      BY <3>1, <3>3
    <3>5. \A i, j \in 1..n : g.names[i] = g.names[j] => i = j
      BY <3>1, <3>2
    <3>6. QED
      BY <3>4, <3>5
  <2>4. \A x \in DOMAIN g.general : \E i \in 1..n : g.names[i] = x /\ g.general[x] = g.params[i]
    <3>1. TAKE x \in DOMAIN g.general
    <3>2. x \in Range(g.names) /\ g.general[x] = g.params[CHOOSE i \in 1..n : g.names[i] = x]
      BY <1>0, <1>3, <2>1
    <3>3. \E i \in 1..n : g.names[i] = x
      BY <1>0, <2>1, <3>2 DEF Range
    <3>4. QED
      BY <3>2, <3>3
  <2>5. ASSUME NEW i \in 1..n
        PROVE  IF g.defaults[i].kind = "parameter"
               THEN g.defaults[i].of \in 1..n /\ list[g.defaults[i].of].kind = list[i].kind
               ELSE g.defaults[i].kind \in {"none", list[i].kind}
    <3>1. g.defaults[i] = list[i].default
      BY <1>0, <1>2
    <3>2. IF list[i].default.kind = "parameter"
          THEN /\ list[i].default.of \in 1..i - 1
               /\ list[list[i].default.of].kind = list[i].kind
          ELSE list[i].default.kind \in {"none", list[i].kind}
      BY <1>0, ListHas
    <3>3. QED
      BY <1>0, <3>1, <3>2
  <2>6. \A i \in 1..n :
          IF g.defaults[i].kind = "parameter" THEN KindOf(t, g.defaults[i].of)' = KindOf(t, i)'
          ELSE g.defaults[i].kind \in {"none", KindOf(t, i)'}
    BY <1>0, <1>6, <2>5
  <2>7. QED
    BY <1>1, <1>5, <1>6, <2>1, <2>2, <2>3, <2>4, <2>6 DEF ParamsWritten
<1>9. ReadWritten(t)'
  <2>1. /\ defs'[body].order = << >> /\ defs'[body].base = 0 /\ defs'[body].spelt = NoName
    BY <1>0 DEF Definition
  <2>2. DOMAIN g.specializations = {} /\ DOMAIN g.instantiations = {}
    BY <1>0, <1>2
  <2>3. QED
    BY <1>1, <1>2, <2>1, <2>2 DEF ReadWritten, Instances
<1>10. MemberWritten(t, body)'
  <2>1. /\ defs'[body].kind = "class" /\ defs'[body].base = 0 /\ defs'[body].spelt = NoName
        /\ defs'[body].general = << >>
    BY <1>0 DEF Definition
  <2>2. << >> = [x \in DOMAIN << >> |-> << >>[x]] /\ DOMAIN << >> = {}
    BY <1>0
  <2>3. QED
    BY <1>1, <1>2, <2>1, <2>2 DEF MemberWritten
<1>11. TemplateWritten(t)'
  <2>1. DOMAIN Instances(t)' = {}
    BY <1>0, <1>1, <1>2 DEF Instances
  <2>2. \A d \in Whole(t)' : MemberWritten(t, d)'
    BY <1>0, <1>7, <1>10
  <2>3. QED
    BY <1>8, <1>9, <2>1, <2>2 DEF TemplateWritten
<1>12. QED
  BY <1>6, <1>7, <1>11

LEMMA BuiltInsKept ==
  ASSUME Typed, Written, KindsKept
  PROVE  defs'[IntType].kind = "atomic" /\ defs'[ClassType].kind = "class"
<1>1. defs[IntType].kind = "atomic" /\ defs[ClassType].kind = "class"
  BY DEF Written
<1>2. IntType \in DOMAIN defs /\ ClassType \in DOMAIN defs
  BY DEF Typed, Untyped
<1>3. QED
  BY <1>1, <1>2 DEF KindsKept

LEMMA NewDeclared ==
  ASSUME Sound, Sound', Typed, Written, frames = << >>, UNCHANGED frames, open.temp = 0,
         NEW list, WellFormed(list), Allocate(list), NEW t, t \notin DOMAIN templates, t # 0,
         DOMAIN templates' = DOMAIN templates \union {t},
         NEW of, templates'[t] = NewTemplate(list, of),
         \A u \in DOMAIN templates : TemplateSame(u),
         \/ OpenBody(t, NewBody(list))
         \/ of = 0 /\ UNCHANGED open
  PROVE  Written'
<1>1. PICK D, n, body : D = Len(defs) /\ n = Len(list) /\ body = D + n + 1
  OBVIOUS
<1>2. DefsSound /\ DefsSound' /\ TemplatesSound /\ DefsTyped
  BY DEF Sound, Typed
<1>3. /\ D \in Nat /\ n \in Nat /\ DOMAIN defs = 1..D /\ DOMAIN list = 1..n
      /\ DOMAIN defs' = 1..D + n + 1
      /\ \A d \in DOMAIN defs : defs'[d] = defs[d]
      /\ \A i \in 1..n : defs'[D + i] = Parameters(list)[i]
      /\ defs'[body] = Definition("class", 0, 0)
      /\ Allocates(list, D, n, body)
  <2>1. Allocates(list, D, n, body)
    BY <1>1, <1>2, AllocatedAre
  <2>2. QED
    BY <2>1 DEF Allocates
<1>4. KindsKept /\ \A d \in DOMAIN defs : d \in DOMAIN defs' /\ Alike(defs[d], defs'[d])
  BY <1>3 DEF KindsKept, Alike
<1>5. t = open'.temp \/ of = 0
  BY DEF OpenBody
<1>6. TemplateWritten(t)' /\ Whole(t)' = {body}
  BY <1>2, <1>3, <1>5, NewTemplateWritten
<1>7. body \notin DOMAIN defs /\ body \in DOMAIN defs'
  BY <1>1, <1>3
<1>8. ASSUME NEW u \in DOMAIN templates
      PROVE  Whole(u)' = Whole(u) /\ Whole(u) \subseteq DOMAIN defs
  <2>1. templates'[u].def = templates[u].def
    BY <1>8 DEF TemplateSame, NamesKept
  <2>2. Whole(u) \subseteq DOMAIN defs
    BY <1>2, WholesAre
  <2>3. \A d \in Whole(u) : defs'[d].order = defs[d].order
    BY <1>4, <2>2 DEF Alike
  <2>4. QED
    BY <1>2, <1>4, <2>1, <2>2, <2>3, WholeSame DEF KindsKept
<1>9. Bodies' \intersect DOMAIN defs \subseteq Bodies
  BY <1>6, <1>7, <1>8 DEF Bodies
<1>10. Idle /\ DOMAIN frames' = {}
  <2>1. DOMAIN frames' = {}
    OBVIOUS
  <2>2. QED
    BY <2>1 DEF Idle
<1>11. \A u \in DOMAIN templates : templates'[u].params = templates[u].params
  BY DEF TemplateSame, NamesKept
<1>12. ASSUME NEW u \in DOMAIN templates
       PROVE  TemplateWritten(u)'
  <2>1. PICK X : X = {}
    OBVIOUS
  <2>2. X \subseteq Bodies /\ Whole(u) \intersect X = {}
        /\ \A d \in DOMAIN defs :
             defs'[d].type = defs[d].type /\ (d \notin X => Alike(defs[d], defs'[d]))
    BY <1>4, <2>1 DEF Alike
  <2>3. QED
    BY <1>4, <1>9, <1>10, <1>11, <1>12, <2>2, OtherWritten
<1>13. \A u \in DOMAIN templates' : TemplateWritten(u)'
  BY <1>6, <1>12
<1>14. WholesApart'
  <2>1. \A u \in DOMAIN templates : body \notin Whole(u)' /\ Whole(u)' = Whole(u)
    BY <1>7, <1>8
  <2>2. \A u, v \in DOMAIN templates : u # v => Whole(u) \intersect Whole(v) = {}
    BY DEF Written, WholesApart
  <2>3. QED
    BY <1>6, <2>1, <2>2 DEF WholesApart
<1>15. OpenWritten'
  <2>1. CASE UNCHANGED open
    BY <2>1 DEF OpenWritten
  <2>2. CASE OpenBody(t, NewBody(list))
    <3>1. open'.temp = t /\ open'.scopes = <<body>>
      BY <1>1, <2>2 DEF OpenBody, NewBody
    <3>2. Range(open'.scopes) = {body}
      BY <3>1 DEF Range
    <3>3. templates'[t].unread
      BY DEF NewTemplate, Template
    <3>4. defs'[body].kind = "class"
      BY <1>3 DEF Definition
    <3>5. QED
      BY <1>6, <3>1, <3>2, <3>3, <3>4 DEF OpenWritten
  <2>3. QED
    BY <2>1, <2>2
<1>16. ASSUME NEW d \in DOMAIN defs'
       PROVE  ExprWritten(defs[d].expr)'
  <2>1. PICK e : e = defs'[d].expr
    OBVIOUS
  <2>2. CASE d \in DOMAIN defs
    <3>1. ExprKept(e)
      BY <1>3, <2>1, <2>2 DEF ExprKept
    <3>2. \A u \in DOMAIN templates :
            templates'[u].unread => templates[u].unread /\ (u = open.temp => u = open'.temp)
      <4>1. TAKE u \in DOMAIN templates
      <4>2. u # 0
        BY <1>2, SequenceIs DEF TemplatesSound
      <4>3. QED
        BY <4>2 DEF TemplateSame
    <3>3. ExprWritten(e)'
      BY <1>4, <1>11, <3>1, <3>2, ExprWrittenKept
    <3>4. QED
      BY <2>1, <3>3
  <2>3. CASE d \notin DOMAIN defs
    <3>1. e.op = "none"
      <4>1. CASE d = body
        BY <1>3, <2>1, <4>1 DEF Definition, NoExpression, Expression
      <4>2. ASSUME NEW i \in 1..n, d = D + i
            PROVE  e.op = "none"
        <5>1. e = Parameters(list)[i].expr
          BY <1>3, <2>1, <4>2
        <5>2. QED
          BY <1>3, <4>2, <5>1 DEF Parameters, Definition, NoExpression, Expression
      <4>3. d = body \/ \E i \in 1..n : d = D + i
        <5>1. d \in 1..D + n + 1 /\ d \notin 1..D
          BY <1>3, <1>16, <2>3
        <5>2. d = body \/ (d - D \in 1..n /\ d = D + (d - D))
          BY <1>1, <1>3, <5>1
        <5>3. QED
          BY <5>2
      <4>4. QED
        BY <4>1, <4>2, <4>3
    <3>2. ExprWritten(e)'
      BY <3>1 DEF ExprWritten
    <3>3. QED
      BY <2>1, <3>2
  <2>4. QED
    BY <2>2, <2>3
<1>17. defs'[IntType].kind = "atomic" /\ defs'[ClassType].kind = "class"
  BY <1>4, BuiltInsKept
<1>18. QED
  BY <1>10, <1>13, <1>14, <1>15, <1>16, <1>17 DEF Written

LEMMA DeclareWritten ==
  ASSUME Sound, Sound', Typed, Written, NEW list \in program.lists, NEW forward,
         Declare(list, forward)
  PROVE  Written'
<1>1. PICK t : t = Len(templates) + 1
  OBVIOUS
<1>2. PICK g : g = NewTemplate(list, 0)
  OBVIOUS
<1>3. templates' = Append(templates, g)
  BY <1>2 DEF Declare
<1>4. Sequence(templates)
  BY DEF Sound, TemplatesSound
<1>5. /\ DOMAIN templates = 1..Len(templates) /\ Len(templates) \in Nat
      /\ DOMAIN templates' = 1..Len(templates) + 1
      /\ \A u \in DOMAIN templates : templates'[u] = templates[u]
      /\ templates'[t] = g
  BY <1>1, <1>3, <1>4, SequenceIs, Appended
<1>6. /\ t \notin DOMAIN templates /\ t # 0 /\ DOMAIN templates' = DOMAIN templates \union {t}
      /\ 0 \notin DOMAIN templates
  BY <1>1, <1>5
<1>7. /\ frames = << >> /\ UNCHANGED frames /\ open.temp = 0 /\ Allocate(list)
      /\ OpenBody(t, NewBody(list)) \/ UNCHANGED open
  BY <1>1 DEF Declare, AtOuter, Reading
<1>8. WellFormed(list)
  BY ProgramsAssumption DEF Sound
<1>9. ASSUME NEW u \in DOMAIN templates
      PROVE  TemplateSame(u)
  <2>1. u # open.temp
    BY <1>6, <1>7
  <2>2. QED
    BY <1>5, <1>6, <2>1 DEF TemplateSame, NamesKept, SpecKept
<1>10. QED
  BY <1>2, <1>5, <1>6, <1>7, <1>8, <1>9, NewDeclared

LEMMA SpecializeWritten ==
  ASSUME Sound, Sound', Typed, Written, NEW u \in DOMAIN templates, NEW r \in program.patterns,
         Specialize(u, r.list, r.args)
  PROVE  Written'
<1>1. PICK t, list, args : t = Len(templates) + 1 /\ list = r.list /\ args = r.args
  OBVIOUS
<1>2. PICK g : g = NewTemplate(list, u)
  OBVIOUS
<1>3. PICK spec : spec = [filter |-> FilterOf(args), pattern |-> args,
                          inds |-> Positions(list, args), temp |-> t]
  OBVIOUS
<1>4. PICK was : was = templates[u]
  OBVIOUS
<1>5. PICK is : is = [was EXCEPT !.specializations = Append(was.specializations, spec)]
  OBVIOUS
<1>6. PICK others : others = [templates EXCEPT ![u] = is]
  OBVIOUS
<1>7. templates' = Append(others, g)
  BY <1>1, <1>2, <1>3, <1>4, <1>5, <1>6 DEF Specialize
<1>8. Sequence(templates) /\ TemplatesSound /\ DefsSound /\ DefsSound' /\ TemplatesTyped
      /\ TemplateSound(u)
  BY DEF Sound, TemplatesSound, Typed
<1>9. /\ Sequence(others) /\ Len(others) = Len(templates) /\ DOMAIN others = DOMAIN templates
      /\ \A i \in DOMAIN templates : others[i] = IF i = u THEN is ELSE templates[i]
  BY <1>6, <1>8, Updated
<1>10. /\ DOMAIN templates = 1..Len(templates) /\ Len(templates) \in Nat
       /\ DOMAIN templates' = 1..Len(templates) + 1
       /\ \A i \in DOMAIN templates : templates'[i] = IF i = u THEN is ELSE templates[i]
       /\ templates'[t] = g
  <2>1. DOMAIN templates = 1..Len(templates) /\ Len(templates) \in Nat
    BY <1>8, SequenceIs
  <2>2. /\ DOMAIN templates' = 1..Len(others) + 1
        /\ \A i \in 1..Len(others) : templates'[i] = others[i]
        /\ templates'[Len(others) + 1] = g
    BY <1>7, <1>9, Appended
  <2>3. QED
    BY <1>1, <1>9, <2>1, <2>2
<1>11. /\ t \notin DOMAIN templates /\ t # 0 /\ DOMAIN templates' = DOMAIN templates \union {t}
       /\ 0 \notin DOMAIN templates
  BY <1>1, <1>10
<1>12. /\ frames = << >> /\ UNCHANGED frames /\ open.temp = 0 /\ Allocate(list)
       /\ OpenBody(t, NewBody(list))
       /\ Len(args) = Arity(u)
       /\ \A i \in DOMAIN args :
            IF args[i].kind = "name"
            THEN \E p \in DOMAIN list : list[p].name = args[i].of /\ list[p].kind = KindOf(u, i)
            ELSE args[i].kind = KindOf(u, i)
  BY <1>1 DEF Specialize, AtOuter, Reading
<1>13. WellFormed(list) /\ Deducible(list, args)
  BY <1>1, ProgramsAssumption DEF Sound, Deducible
<1>14. PICK n : n = Len(list)
  OBVIOUS
<1>15. DOMAIN list = 1..n /\ n \in Nat /\ DOMAIN args = 1..Arity(u)
  BY <1>12, <1>13, <1>14, DeducibleIs
<1>16. KindsKept /\ \A i \in 1..n : KindOf(t, i)' = list[i].kind
  <2>1. PICK D, body : D = Len(defs) /\ body = D + n + 1
    OBVIOUS
  <2>2. Allocates(list, D, n, body)
    BY <1>8, <1>12, <1>13, <1>14, <2>1, AllocatedAre
  <2>3. KindsKept
    BY <1>15, <2>2 DEF KindsKept, Allocates
  <2>4. t = open'.temp /\ templates'[t] = NewTemplate(list, u)
    BY <1>2, <1>10, <1>12 DEF OpenBody
  <2>5. QED
    BY <1>8, <1>13, <2>2, <2>3, <2>4, NewTemplateWritten
<1>17. /\ is.params = was.params /\ is.defaults = was.defaults /\ is.def = was.def
       /\ is.names = was.names /\ is.general = was.general /\ is.unread = was.unread
       /\ is.of = was.of /\ is.instantiations = was.instantiations
       /\ is.specializations = Append(was.specializations, spec)
  <2>1. DOMAIN was = TemplateFields
    BY <1>4, <1>8 DEF TemplateSound
  <2>2. QED
    BY <1>5, <2>1 DEF TemplateFields
<1>18. SpecWritten(u, spec)'
  <2>1. TemplateTyped(u) /\ templates'[u].params = templates[u].params
    BY <1>4, <1>8, <1>10, <1>17 DEF TemplatesTyped
  <2>2. Arity(u)' = Arity(u) /\ \A i \in 1..Arity(u) : KindOf(u, i)' = KindOf(u, i)
    BY <1>16, <2>1, KindOfSame
  <2>3. spec.inds = Positions(list, args) /\ spec.temp = t
    BY <1>3
  <2>4. ASSUME NEW p \in DOMAIN spec.inds, NEW i \in spec.inds[p]
        PROVE  KindOf(t, p)' = KindOf(u, i)'
    <3>1. p \in 1..n /\ i \in 1..Arity(u) /\ args[i] = Argument("name", list[p].name)
      BY <1>15, <2>3, <2>4 DEF Positions
    <3>2. args[i].kind = "name" /\ args[i].of = list[p].name
      BY <3>1 DEF Argument
    <3>3. PICK q \in 1..n : list[q].name = args[i].of /\ list[q].kind = KindOf(u, i)
      BY <1>12, <1>15, <3>1, <3>2
    <3>4. p = q
      BY <1>13, <1>15, <3>1, <3>2, <3>3, ListHas
    <3>5. QED
      BY <1>16, <2>2, <3>1, <3>3, <3>4
  <2>5. QED
    BY <2>3, <2>4 DEF SpecWritten
<1>19. ASSUME NEW s \in DOMAIN is.specializations
       PROVE  \/ s \in DOMAIN was.specializations /\ is.specializations[s] = was.specializations[s]
              \/ is.specializations[s] = spec
  <2>1. Sequence(was.specializations)
    BY <1>4, <1>8 DEF TemplateSound
  <2>2. QED
    BY <1>17, <1>19, <2>1, SequenceIs, Appended
<1>20. ASSUME NEW i \in DOMAIN templates
       PROVE  TemplateSame(i)
  <2>1. i # open.temp
    BY <1>11, <1>12
  <2>2. CASE i # u
    BY <1>10, <1>11, <2>1, <2>2 DEF TemplateSame, NamesKept, SpecKept
  <2>3. CASE i = u
    <3>1. templates'[i] = is /\ templates[i] = was
      BY <1>4, <1>10, <2>3
    <3>2. ASSUME NEW s \in DOMAIN templates'[i].specializations
          PROVE  SpecKept(i, s)
      <4>1. CASE /\ s \in DOMAIN was.specializations
                 /\ is.specializations[s] = was.specializations[s]
        BY <3>1, <4>1 DEF SpecKept
      <4>2. CASE is.specializations[s] = spec
        <5>1. templates'[i].specializations[s] = spec
          BY <3>1, <4>2
        <5>2. SpecWritten(i, templates[i].specializations[s])'
          BY <1>18, <2>3, <5>1
        <5>3. QED
          BY <5>2 DEF SpecKept
      <4>3. QED
        BY <1>19, <3>1, <3>2, <4>1, <4>2
    <3>3. QED
      BY <1>11, <1>17, <2>1, <3>1, <3>2 DEF TemplateSame, NamesKept
  <2>4. QED
    BY <2>2, <2>3
<1>21. templates'[t] = NewTemplate(list, u)
  BY <1>2, <1>10
<1>22. QED
  BY <1>10, <1>11, <1>12, <1>13, <1>20, <1>21, NewDeclared

(* The names of a redeclaration take the places of those that were, from   *)
(* the first on.                                                           *)
NamesPart(was, list, n, i, map) ==
  \A x \in DOMAIN map :
    \/ \E j \in 1..i : list[j].name = x /\ map[x] = was.params[j]
    \/ \E j \in i + 1..n : was.names[j] = x /\ map[x] = was.params[j]

LEMMA RenamedOne ==
  ASSUME NEW was, NEW list, NEW n \in Nat, NEW i \in 1..n, NEW map,
         NamesPart(was, list, n, i - 1, map)
  PROVE  NamesPart(was, list, n, i, Renamed(map, was.names[i], list[i].name, was.params[i]))
<1>1. PICK old, name, d : old = was.names[i] /\ name = list[i].name /\ d = was.params[i]
  OBVIOUS
<1>2. ASSUME NEW x \in DOMAIN map
      PROVE  \/ \E j \in 1..i : list[j].name = x /\ map[x] = was.params[j]
             \/ \E j \in i + 1..n : was.names[j] = x /\ map[x] = was.params[j]
             \/ x = old /\ map[x] = d
  <2>1. CASE \E j \in 1..i - 1 : list[j].name = x /\ map[x] = was.params[j]
    BY <2>1
  <2>2. ASSUME NEW j \in i..n, was.names[j] = x, map[x] = was.params[j]
        PROVE  \/ \E k \in i + 1..n : was.names[k] = x /\ map[x] = was.params[k]
               \/ x = old /\ map[x] = d
    <3>1. j = i \/ j \in i + 1..n
      OBVIOUS
    <3>2. QED
      BY <1>1, <2>2, <3>1
  <2>3. i - 1 + 1 = i
    OBVIOUS
  <2>4. QED
    BY <1>2, <2>1, <2>2, <2>3 DEF NamesPart
<1>3. ASSUME NEW m, DOMAIN m \subseteq DOMAIN map, \A x \in DOMAIN m : m[x] = map[x],
             \A x \in DOMAIN m : ~(x = old /\ map[x] = d)
      PROVE  NamesPart(was, list, n, i, Inserted(m, name, d))
  <2>1. PICK r : r = Inserted(m, name, d)
    OBVIOUS
  <2>2. /\ DOMAIN r = DOMAIN m \union {name}
        /\ \A x \in DOMAIN r : r[x] = IF x \in DOMAIN m THEN m[x] ELSE d
    BY <2>1 DEF Inserted, Both
  <2>3. ASSUME NEW x \in DOMAIN r
        PROVE  \/ \E j \in 1..i : list[j].name = x /\ r[x] = was.params[j]
               \/ \E j \in i + 1..n : was.names[j] = x /\ r[x] = was.params[j]
    <3>1. CASE x \in DOMAIN m
      BY <1>2, <1>3, <2>2, <3>1
    <3>2. CASE x \notin DOMAIN m
      BY <1>1, <2>2, <2>3, <3>2
    <3>3. QED
      BY <3>1, <3>2
  <2>4. QED
    BY <2>1, <2>3 DEF NamesPart
<1>4. CASE old = name
  <2>1. \A x \in DOMAIN map :
          \/ \E j \in 1..i : list[j].name = x /\ map[x] = was.params[j]
          \/ \E j \in i + 1..n : was.names[j] = x /\ map[x] = was.params[j]
    BY <1>1, <1>2, <1>4
  <2>2. Renamed(map, old, name, d) = map
    BY <1>4 DEF Renamed
  <2>3. QED
    BY <1>1, <2>1, <2>2 DEF NamesPart
<1>5. CASE old # name /\ old \in DOMAIN map /\ map[old] = d
  <2>1. PICK m : m = Erased(map, old)
    OBVIOUS
  <2>2. DOMAIN m = DOMAIN map \ {old} /\ \A x \in DOMAIN m : m[x] = map[x]
    BY <2>1 DEF Erased, Restrict
  <2>3. Renamed(map, old, name, d) = Inserted(m, name, d)
    BY <1>5, <2>1 DEF Renamed
  <2>4. QED
    BY <1>1, <1>3, <2>2, <2>3
<1>6. CASE old # name /\ ~(old \in DOMAIN map /\ map[old] = d)
  <2>1. Renamed(map, old, name, d) = Inserted(map, name, d)
    BY <1>6 DEF Renamed
  <2>2. QED
    BY <1>1, <1>3, <1>6, <2>1
<1>7. QED
  BY <1>4, <1>5, <1>6

LEMMA NamedAnewHas ==
  ASSUME NEW t, NEW list, NEW n \in Nat, n = Len(list), n = Arity(t), TemplateTyped(t),
         ParamsWritten(t)
  PROVE  \A x \in DOMAIN NamedAnew(t, list) :
           \E i \in 1..n : list[i].name = x /\ NamedAnew(t, list)[x] = templates[t].params[i]
<1>1. PICK was : was = templates[t]
  OBVIOUS
<1>2. PICK f : Renaming(was, list, f) /\ NamedAnew(t, list) = f[n]
  <2>1. PICK N, S : S = DOMAIN defs /\ N = DOMAIN was.general \union {list[i].name : i \in 1..n}
    OBVIOUS
  <2>2. \A i \in 1..n : was.params[i] \in S
    <3>1. Sequence(was.params) /\ Range(was.params) \subseteq S /\ n = Len(was.params)
      BY <1>1, <2>1 DEF TemplateTyped, Arity
    <3>2. DOMAIN was.params = 1..n
      BY <3>1, SequenceIs
    <3>3. QED
      BY <3>1, <3>2 DEF Range
  <2>3. was.general \in Naming(N, S)
    <3>1. PICK general : general = was.general
      OBVIOUS
    <3>2. general \in [DOMAIN general -> S] /\ DOMAIN general \subseteq N
      BY <1>1, <2>1, <3>1 DEF TemplateTyped
    <3>3. general \in Naming(N, S)
      BY <3>2, NamingIs
    <3>4. QED
      BY <3>1, <3>3
  <2>4. \A i \in 1..n : list[i].name \in N
    BY <2>1
  <2>5. QED
    BY <1>1, <2>2, <2>3, <2>4, NamedAnewFolds
<1>3. \A i \in 0..n : f[i] = IF i = 0 THEN was.general
                            ELSE Renamed(f[i - 1], was.names[i], list[i].name, was.params[i])
  BY <1>2 DEF Renaming
<1> DEFINE T == {m \in Nat : m \in 0..n => NamesPart(was, list, n, m, f[m])}
<1>4. 0 \in T
  <2>1. \A x \in DOMAIN was.general :
          \E i \in 1..n : was.names[i] = x /\ was.general[x] = was.params[i]
    BY <1>1 DEF ParamsWritten
  <2>2. f[0] = was.general
    BY <1>3
  <2>3. 0 + 1 = 1
    OBVIOUS
  <2>4. NamesPart(was, list, n, 0, was.general)
    BY <2>1, <2>3 DEF NamesPart
  <2>5. QED
    BY <2>2, <2>4
<1>5. ASSUME NEW m \in Nat, m \in T
      PROVE  m + 1 \in T
  <2>1. SUFFICES ASSUME m + 1 \in 0..n PROVE NamesPart(was, list, n, m + 1, f[m + 1])
    OBVIOUS
  <2>2. PICK i : i = m + 1
    OBVIOUS
  <2>3. i \in 1..n /\ i - 1 = m /\ m \in 0..n /\ i # 0 /\ i \in 0..n
    BY <2>1, <2>2
  <2>4. NamesPart(was, list, n, i - 1, f[i - 1])
    BY <1>5, <2>3
  <2>5. f[i] = Renamed(f[i - 1], was.names[i], list[i].name, was.params[i])
    BY <1>3, <2>3
  <2>6. NamesPart(was, list, n, i, f[i])
    BY <2>3, <2>4, <2>5, RenamedOne
  <2>7. QED
    BY <2>2, <2>6
<1>6. \A m \in Nat : m \in T
  <2> HIDE DEF T
  <2>1. QED
    BY <1>4, <1>5, Induction
<1>7. NamesPart(was, list, n, n, f[n])
  <2>1. n \in 0..n
    OBVIOUS
  <2>2. QED
    BY <1>6, <2>1
<1>8. n + 1..n = {}
  OBVIOUS
<1>9. QED
  BY <1>1, <1>2, <1>7, <1>8 DEF NamesPart

LEMMA RedeclareWritten ==
  ASSUME Sound, Sound', Typed, Typed', Written, NEW u \in DOMAIN templates, NEW list,
         list \in program.lists, Redeclare(u, list)
  PROVE  Written'
<1>1. /\ OpenBody(u, templates[u].def) /\ Len(list) = Arity(u)
      /\ UNCHANGED <<defs, frames, program>> /\ frames = << >> /\ open.temp = 0
      /\ templates[u].unread /\ templates[u].of = 0 /\ defs[templates[u].def].order = << >>
      /\ \A i \in DOMAIN list : list[i].kind = KindOf(u, i)
  BY DEF Redeclare, AtOuter, Reading
<1>2. PICK map, names : /\ map = NamedAnew(u, list)
                        /\ names = [i \in DOMAIN list |-> list[i].name]
  OBVIOUS
<1>3. PICK g, r : g = templates[u] /\ r = [g EXCEPT !.general = map, !.names = names]
  OBVIOUS
<1>4. /\ DefsSound /\ DefsSound' /\ DefsTyped /\ TemplatesSound /\ TemplatesTyped
      /\ DOMAIN g = TemplateFields /\ TemplateTyped(u) /\ TemplateWritten(u)
      /\ DefaultsSound(Arity(u), g.defaults)
  BY <1>3 DEF Sound, TemplatesSound, TemplateSound, Typed, TemplatesTyped, Written
<1>5. templates' = [templates EXCEPT ![u] = r]
  <2>1. templates' = [templates EXCEPT ![u].general = map, ![u].names = names]
    BY <1>2 DEF Redeclare
  <2>2. PICK s : s = templates
    OBVIOUS
  <2>3. [s EXCEPT ![u].general = map, ![u].names = names]
          = [s EXCEPT ![u] = [s[u] EXCEPT !.general = map, !.names = names]]
    BY <1>3, <1>4, <2>2 DEF TemplateFields
  <2>4. QED
    BY <1>3, <2>1, <2>2, <2>3
<1>6. /\ r.params = g.params /\ r.defaults = g.defaults /\ r.def = g.def /\ r.of = g.of
      /\ r.instantiations = g.instantiations /\ r.general = map /\ r.names = names
      /\ r.specializations = g.specializations /\ r.unread = g.unread
  BY <1>3, <1>4 DEF TemplateFields
<1>7. DOMAIN templates' = DOMAIN templates
      /\ \A t \in DOMAIN templates : templates'[t] = IF t = u THEN r ELSE templates[t]
  BY <1>5
<1>8. KindsKept /\ DOMAIN defs' = DOMAIN defs
      /\ \A d \in DOMAIN defs : Alike(defs[d], defs'[d])
  BY <1>1 DEF KindsKept, Alike
<1>9. WellFormed(list)
  BY ProgramsAssumption DEF Sound
<1>10. PICK n : n = Len(list)
  OBVIOUS
<1>11. n \in Nat /\ n = Arity(u) /\ DOMAIN list = 1..n
  BY <1>1, <1>9, <1>10, ListIs
<1>12. u # open.temp /\ 0 \notin DOMAIN templates
  BY <1>1, <1>4, SequenceIs DEF TemplatesSound
<1>13. PICK body : body = g.def
  OBVIOUS
<1>14. /\ defs[body].base = 0 /\ defs[body].spelt = NoName /\ DOMAIN Instances(u) = {}
  BY <1>1, <1>3, <1>4, <1>12, <1>13 DEF TemplateWritten, ReadWritten
<1>15. \A t \in DOMAIN templates : Whole(t)' = Whole(t)
  <2>1. TAKE t \in DOMAIN templates
  <2>2. templates'[t].def = templates[t].def
    BY <1>3, <1>6, <1>7
  <2>3. Whole(t) \subseteq DOMAIN defs
    BY <1>4, WholesAre
  <2>4. \A d \in Whole(t) : defs'[d].order = defs[d].order
    BY <1>1
  <2>5. QED
    BY <1>4, <1>8, <2>2, <2>4, WholeSame
<1>16. Whole(u) = {body}
  <2>1. defs[body].order = << >> /\ body \in DOMAIN defs
    BY <1>1, <1>3, <1>4, <1>13 DEF TemplateTyped, Untyped
  <2>2. PICK S : S = {body}
    OBVIOUS
  <2>3. Range(defs[body].order) = {}
    BY <2>1 DEF Range
  <2>4. Spans(S, body)
    BY <2>1, <2>2, <2>3 DEF Spans
  <2>5. Spans(Whole(u), body)
    BY <1>3, <1>4, <1>13, WholesAre
  <2>6. QED
    BY <1>4, <2>2, <2>4, <2>5, SpansOnce DEF DefsSound
<1>17. Idle /\ DOMAIN frames' = {}
  <2>1. DOMAIN frames' = {}
    BY <1>1
  <2>2. QED
    BY <1>1, <2>1 DEF Idle
<1>18. \A t \in DOMAIN templates : templates'[t].params = templates[t].params
  BY <1>3, <1>6, <1>7
<1>19. ASSUME NEW t \in DOMAIN templates, t # u
       PROVE  TemplateWritten(t)'
  <2>1. TemplateSame(t)
    BY <1>1, <1>7, <1>12, <1>19 DEF TemplateSame, NamesKept, SpecKept
  <2>2. PICK X : X = {}
    OBVIOUS
  <2>3. X \subseteq Bodies /\ Whole(t) \intersect X = {}
        /\ \A d \in DOMAIN defs :
             defs'[d].type = defs[d].type /\ (d \notin X => Alike(defs[d], defs'[d]))
    BY <1>8, <2>2 DEF Alike
  <2>4. Bodies' \intersect DOMAIN defs \subseteq Bodies
    BY <1>7, <1>15 DEF Bodies
  <2>5. QED
    BY <1>8, <1>17, <1>18, <1>19, <2>1, <2>3, <2>4, OtherWritten
<1>20. TemplateWritten(u)'
  <2>1. /\ templates'[u] = r /\ Arity(u)' = n
        /\ \A i \in 1..n : KindOf(u, i)' = KindOf(u, i)
    BY <1>4, <1>7, <1>8, <1>11, <1>18, KindOfSame
  <2>2. ParamsWritten(u)'
    <3>1. ParamsWritten(u)
      BY <1>4 DEF TemplateWritten
    <3>2. DOMAIN names = 1..n /\ \A i \in 1..n : names[i] = list[i].name
      BY <1>2, <1>11
    <3>3. \A i \in 1..n : KindOf(u, i)' \in {"type", "value"} /\ names[i] # NoName
      BY <1>9, <1>11, <2>1, <3>1, <3>2, ListHas DEF ParamsWritten
    <3>4. \A i, j \in 1..n : g.params[i] = g.params[j] => i = j
      BY <1>3, <1>11, <3>1 DEF ParamsWritten
    <3>5. \A i, j \in 1..n : names[i] = names[j] => i = j
      BY <1>9, <1>11, <3>2, ListHas
    <3>6. \A x \in DOMAIN map : \E i \in 1..n : names[i] = x /\ map[x] = g.params[i]
      <4>1. \A x \in DOMAIN map :
              \E i \in 1..n : list[i].name = x /\ map[x] = templates[u].params[i]
        BY <1>2, <1>4, <1>10, <1>11, <3>1, NamedAnewHas
      <4>2. QED
        BY <1>3, <3>2, <4>1
    <3>7. ASSUME NEW i \in 1..n
          PROVE  IF g.defaults[i].kind = "parameter"
                 THEN KindOf(u, g.defaults[i].of)' = KindOf(u, i)'
                 ELSE g.defaults[i].kind \in {"none", KindOf(u, i)'}
      <4>1. IF g.defaults[i].kind = "parameter" THEN KindOf(u, g.defaults[i].of) = KindOf(u, i)
            ELSE g.defaults[i].kind \in {"none", KindOf(u, i)}
        BY <1>3, <1>11, <3>1 DEF ParamsWritten
      <4>2. g.defaults[i].kind = "parameter" => g.defaults[i].of \in 1..n
        BY <1>4, <1>11 DEF DefaultsSound
      <4>3. QED
        BY <2>1, <4>1, <4>2
    <3>8. /\ templates'[u].names = names /\ templates'[u].params = g.params
          /\ templates'[u].general = map /\ templates'[u].defaults = g.defaults
      BY <1>6, <2>1
    <3>9. QED
      BY <2>1, <3>2, <3>3, <3>4, <3>5, <3>6, <3>7, <3>8 DEF ParamsWritten
  <2>3. ReadWritten(u)'
    <3>1. u = open'.temp
      BY <1>1 DEF OpenBody
    <3>2. DOMAIN Instances(u)' = {}
      BY <1>3, <1>6, <1>14, <2>1 DEF Instances
    <3>3. \A s \in DOMAIN templates'[u].specializations : SpecKept(u, s)
      BY <1>3, <1>6, <2>1 DEF SpecKept
    <3>4. \A s \in DOMAIN templates[u].specializations :
            LET spec == templates[u].specializations[s] IN
            /\ TemplateTyped(spec.temp)
            /\ templates'[spec.temp].params = templates[spec.temp].params
            /\ DOMAIN spec.inds = 1..Arity(spec.temp)
            /\ \A p \in DOMAIN spec.inds : spec.inds[p] \subseteq 1..Arity(u)
      BY <1>4, <1>18, SpecsAre DEF TemplatesTyped, Sound
    <3>5. ReadWritten(u) /\ (templates'[u].unread => templates[u].unread)
      BY <1>1, <1>4 DEF TemplateWritten
    <3>6. QED
      BY <1>4, <1>8, <1>18, <3>1, <3>2, <3>3, <3>4, <3>5, ReadKept
  <2>4. MemberWritten(u, body)'
    <3>1. MemberWritten(u, body) /\ body \in DOMAIN defs /\ defs[body].kind # "typed"
      BY <1>3, <1>4, <1>13, <1>16 DEF TemplateWritten, TemplateTyped, Untyped
    <3>2. defs'[body] = defs[body] /\ templates'[u].def = body
      BY <1>1, <1>6, <1>13, <2>1
    <3>3. body = templates[u].def
      BY <1>3, <1>13
    <3>4. /\ defs[body].kind = "class"
          /\ defs[body].general = [x \in DOMAIN defs[body].general |-> defs[body].general[x]]
          /\ \A x \in DOMAIN defs[body].general : defs[body].general[x] \in Whole(u)
      BY <3>1, <3>3 DEF MemberWritten
    <3>5. Whole(u)' = Whole(u)
      BY <1>15
    <3>6. QED
      BY <1>14, <3>2, <3>4, <3>5 DEF MemberWritten
  <2>5. \A d \in Whole(u)' : MemberWritten(u, d)'
    BY <1>15, <1>16, <2>4
  <2>6. DOMAIN Instances(u)' = {}
    BY <1>3, <1>6, <1>14, <2>1 DEF Instances
  <2>7. QED
    BY <2>2, <2>3, <2>5, <2>6 DEF TemplateWritten
<1>21. \A t \in DOMAIN templates' : TemplateWritten(t)'
  BY <1>7, <1>19, <1>20
<1>22. WholesApart'
  BY <1>7, <1>15 DEF WholesApart, Written
<1>23. OpenWritten'
  <2>1. open'.temp = u /\ open'.scopes = <<body>>
    BY <1>1, <1>3, <1>13 DEF OpenBody
  <2>2. Range(open'.scopes) = {body}
    BY <2>1 DEF Range
  <2>3. defs'[body].kind = "class"
    <3>1. MemberWritten(u, body) /\ defs[body].kind # "typed" /\ body = templates[u].def
      BY <1>3, <1>4, <1>13, <1>16 DEF TemplateWritten, TemplateTyped, Untyped
    <3>2. defs[body].kind = "class"
      BY <3>1 DEF MemberWritten
    <3>3. QED
      BY <1>1, <3>2
  <2>4. QED
    BY <1>1, <1>3, <1>6, <1>7, <1>15, <1>16, <2>1, <2>2, <2>3 DEF OpenWritten
<1>24. ASSUME NEW d \in DOMAIN defs'
       PROVE  ExprWritten(defs[d].expr)'
  <2>1. PICK e : e = defs'[d].expr
    OBVIOUS
  <2>2. ExprKept(e)
    BY <1>1, <1>8, <1>24, <2>1 DEF ExprKept
  <2>3. \A t \in DOMAIN templates :
          templates'[t].unread => templates[t].unread /\ (t = open.temp => t = open'.temp)
    BY <1>1, <1>3, <1>6, <1>7, <1>12
  <2>4. ExprWritten(e)'
    BY <1>8, <1>18, <2>2, <2>3, ExprWrittenKept
  <2>5. QED
    BY <2>1, <2>4
<1>25. QED
  BY <1>8, <1>17, <1>21, <1>22, <1>23, <1>24, BuiltInsKept DEF Written

-----------------------------------------------------------------------------
(* What is read into the open body.                                        *)
LEMMA OpenIs ==
  ASSUME Sound, Typed, Written, open.temp # 0
  PROVE  /\ open.temp \in DOMAIN templates /\ templates[open.temp].unread /\ frames = << >>
         /\ scope \in Whole(open.temp) /\ scope \in DOMAIN defs /\ defs[scope].kind = "class"
         /\ Whole(open.temp) \subseteq DOMAIN defs
         /\ \A y \in Range(open.scopes) : y \in Whole(open.temp) /\ defs[y].kind = "class"
         /\ DOMAIN Instances(open.temp) = {}
<1>1. /\ open.temp \in DOMAIN templates /\ templates[open.temp].unread /\ frames = << >>
      /\ \A y \in Range(open.scopes) : y \in Whole(open.temp) /\ defs[y].kind = "class"
  BY DEF Written, OpenWritten
<1>2. scope \in Range(open.scopes)
  <2>1. PICK s : s = open.scopes
    OBVIOUS
  <2>2. Sequence(s) /\ s # << >>
    BY <2>1 DEF Typed, OpenTyped
  <2>3. Last(s) = s[Len(s)] /\ Len(s) \in DOMAIN s
    BY <2>2, FrontOf, SequenceIs
  <2>4. QED
    BY <2>1, <2>3 DEF scope, Range
<1>3. Whole(open.temp) \subseteq DOMAIN defs
  BY <1>1, WholesAre DEF Sound
<1>4. DOMAIN Instances(open.temp) = {}
  <2>1. ReadWritten(open.temp)
    BY <1>1 DEF Written, TemplateWritten
  <2>2. QED
    BY <1>1, <2>1 DEF ReadWritten
<1>5. QED
  BY <1>1, <1>2, <1>3, <1>4

LEMMA BodyWritten ==
  ASSUME Sound, Sound', Typed, Written, UNCHANGED <<templates, frames>>, open.temp # 0,
         open'.temp = open.temp, KindsKept,
         \A d \in DOMAIN defs : d # scope => defs'[d] = defs[d],
         defs'[scope].type = defs[scope].type, defs'[scope].expr = defs[scope].expr,
         NEW N, N \intersect DOMAIN defs = {}, Whole(open.temp)' = Whole(open.temp) \union N,
         NEW b, b = open.temp,
         \A d \in N \union {scope} : MemberWritten(b, d)',
         \A d \in DOMAIN defs' \ DOMAIN defs : ExprWritten(defs[d].expr)',
         \A y \in Range(open'.scopes) : y \in Whole(open.temp)' /\ defs'[y].kind = "class"
  PROVE  Written'
<1>1. /\ DefsSound /\ DefsSound' /\ DefsTyped /\ TemplatesSound /\ TemplatesTyped /\ program \in Programs
  BY DEF Sound, Typed
<1>2. /\ b \in DOMAIN templates /\ templates[b].unread /\ frames = << >>
      /\ scope \in Whole(b) /\ scope \in DOMAIN defs
      /\ Whole(b) \subseteq DOMAIN defs /\ DOMAIN Instances(b) = {}
  BY OpenIs
<1>3. PICK x : x = scope
  OBVIOUS
<1>4. \A d \in DOMAIN defs : d \in DOMAIN defs' /\ (d # x => Alike(defs[d], defs'[d]))
  BY <1>3 DEF KindsKept, Alike
<1>5. \A d \in DOMAIN defs : defs'[d].type = defs[d].type /\ defs'[d].expr = defs[d].expr
  BY <1>3
<1>6. Whole(b)' = Whole(b) \union N
  OBVIOUS
<1>7. ASSUME NEW t \in DOMAIN templates, t # b
      PROVE  Whole(t) \intersect {x} = {} /\ Whole(t)' = Whole(t) /\ Whole(t) \subseteq DOMAIN defs
  <2>1. Whole(t) \intersect Whole(b) = {}
    BY <1>2, <1>7 DEF Written, WholesApart
  <2>2. Whole(t) \subseteq DOMAIN defs
    BY <1>1, <1>7, WholesAre
  <2>3. \A d \in Whole(t) : defs'[d].order = defs[d].order
    BY <1>2, <1>3, <1>4, <2>1, <2>2 DEF Alike
  <2>4. Whole(t)' = Whole(t)
    BY <1>1, <1>7, <2>3, WholeSame DEF KindsKept
  <2>5. QED
    BY <1>2, <1>3, <2>1, <2>2, <2>4
<1>8. Bodies' \intersect DOMAIN defs \subseteq Bodies /\ {x} \subseteq Bodies
  BY <1>2, <1>3, <1>6, <1>7 DEF Bodies
<1>9. Idle /\ DOMAIN frames' = {}
  <2>1. DOMAIN frames' = {}
    BY <1>2
  <2>2. QED
    BY <1>2, <2>1 DEF Idle
<1>10. ASSUME NEW t \in DOMAIN templates, t # b
       PROVE  TemplateWritten(t)'
  <2>1. TemplateSame(t)
    BY <1>10 DEF TemplateSame, NamesKept, SpecKept
  <2>2. PICK X : X = {x}
    OBVIOUS
  <2>3. X \subseteq Bodies /\ Whole(t) \intersect X = {}
        /\ \A d \in DOMAIN defs :
             defs'[d].type = defs[d].type /\ (d \notin X => Alike(defs[d], defs'[d]))
    BY <1>4, <1>5, <1>7, <1>8, <1>10, <2>2
  <2>4. QED
    BY <1>8, <1>9, <1>10, <2>1, <2>3, OtherWritten
<1>11. TemplateWritten(b)'
  <2>1. TemplateTyped(b) /\ TemplateWritten(b) /\ NamesKept(b)
        /\ DefaultsSound(Arity(b), templates[b].defaults)
    BY <1>1, <1>2 DEF TemplatesTyped, Written, NamesKept, TemplatesSound, TemplateSound
  <2>2. ParamsWritten(b)'
    BY <2>1, ParamsKept DEF TemplateWritten
  <2>3. ReadWritten(b)'
    <3>1. \A s \in DOMAIN templates'[b].specializations : SpecKept(b, s)
      BY DEF SpecKept
    <3>2. \A s \in DOMAIN templates[b].specializations :
            LET spec == templates[b].specializations[s] IN
            /\ TemplateTyped(spec.temp)
            /\ templates'[spec.temp].params = templates[spec.temp].params
            /\ DOMAIN spec.inds = 1..Arity(spec.temp)
            /\ \A p \in DOMAIN spec.inds : spec.inds[p] \subseteq 1..Arity(b)
      BY <1>1, <1>2, SpecsAre DEF TemplatesTyped
    <3>3. ReadWritten(b) /\ b = open'.temp /\ \A i \in DOMAIN Instances(b)' : i \in DOMAIN Instances(b)
      BY <2>1 DEF TemplateWritten, Instances
    <3>4. QED
      BY <2>1, <3>1, <3>2, <3>3, ReadKept
  <2>4. ASSUME NEW d \in Whole(b)'
        PROVE  MemberWritten(b, d)'
    <3>1. CASE d \in N \union {x}
      BY <1>3, <3>1
    <3>2. CASE d \notin N \union {x}
      <4>1. d \in Whole(b) /\ d \in DOMAIN defs /\ Alike(defs[d], defs'[d])
        BY <1>2, <1>4, <1>6, <2>4, <3>2
      <4>2. MemberWritten(b, d) /\ Whole(b) \subseteq Whole(b)'
        BY <1>6, <2>1, <4>1 DEF TemplateWritten
      <4>3. QED
        BY <1>1, <2>1, <4>1, <4>2, MemberKept DEF Alike
    <3>3. QED
      BY <3>1, <3>2
  <2>5. DOMAIN Instances(b)' = {}
    BY <1>2 DEF Instances
  <2>6. QED
    BY <2>2, <2>3, <2>4, <2>5 DEF TemplateWritten
<1>12. \A t \in DOMAIN templates' : TemplateWritten(t)'
  BY <1>10, <1>11
<1>13. WholesApart'
  <2>1. \A t \in DOMAIN templates : t # b => Whole(t)' \intersect Whole(b)' = {}
    <3>1. TAKE t \in DOMAIN templates
    <3>2. HAVE t # b
    <3>3. Whole(t) \intersect Whole(b) = {}
      BY <1>2, <3>2 DEF Written, WholesApart
    <3>4. QED
      BY <1>6, <1>7, <3>2, <3>3
  <2>2. \A t, u \in DOMAIN templates : t # u => Whole(t) \intersect Whole(u) = {}
    BY DEF Written, WholesApart
  <2>3. \A t, u \in DOMAIN templates : t # u => Whole(t)' \intersect Whole(u)' = {}
    BY <1>7, <2>1, <2>2
  <2>4. QED
    BY <2>3 DEF WholesApart
<1>14. OpenWritten'
  BY <1>2, <1>9 DEF OpenWritten
<1>15. ASSUME NEW d \in DOMAIN defs'
       PROVE  ExprWritten(defs[d].expr)'
  <2>1. CASE d \notin DOMAIN defs
    BY <1>15, <2>1
  <2>2. CASE d \in DOMAIN defs
    <3>1. PICK e : e = defs'[d].expr
      OBVIOUS
    <3>2. ExprKept(e)
      BY <1>5, <2>2, <3>1 DEF ExprKept
    <3>3. ExprWritten(e)'
      BY <3>2, ExprWrittenKept
    <3>4. QED
      BY <3>1, <3>3
  <2>3. QED
    BY <2>1, <2>2
<1>16. QED
  BY <1>9, <1>12, <1>13, <1>14, <1>15, BuiltInsKept DEF Written

LEMMA WholeGrown ==
  ASSUME Sound, Sound', Typed, Written, UNCHANGED templates, open.temp # 0,
         open'.temp = open.temp, DOMAIN defs \subseteq DOMAIN defs', NEW new, NEW N, new \in N,
         N \intersect DOMAIN defs = {}, N \subseteq DOMAIN defs',
         \A d \in DOMAIN defs : d # scope => defs'[d] = defs[d],
         defs'[scope].order = Append(defs[scope].order, new),
         \A d \in N : /\ Range(defs'[d].order) \subseteq N
                      /\ d = new \/ \E e \in N : d \in Range(defs'[e].order)
  PROVE  Whole(open.temp)' = Whole(open.temp) \union N
<1>1. PICK b, x, S, W : b = open.temp /\ x = scope /\ W = Whole(b) /\ S = W \union N
  OBVIOUS
<1>2. /\ b \in DOMAIN templates /\ x \in W /\ x \in DOMAIN defs /\ W \subseteq DOMAIN defs
  BY <1>1, OpenIs
<1>3. /\ DefsSound /\ DefsSound' /\ TemplatesSound
  BY DEF Sound
<1>4. PICK root : root = templates[b].def
  OBVIOUS
<1>5. Spans(W, root)
  BY <1>1, <1>2, <1>3, <1>4, WholesAre
<1>6. Range(defs'[x].order) = Range(defs[x].order) \union {new}
  <2>1. PICK s : s = defs[x].order
    OBVIOUS
  <2>2. s \in Seq(DOMAIN defs)
    BY <1>2, <1>3, <2>1 DEF DefsSound, Owned
  <2>3. DOMAIN s = 1..Len(s) /\ Len(s) \in Nat
    BY <2>2
  <2>4. /\ DOMAIN Append(s, new) = 1..Len(s) + 1
        /\ \A i \in 1..Len(s) : Append(s, new)[i] = s[i]
        /\ Append(s, new)[Len(s) + 1] = new
    BY <2>2
  <2>5. 1..Len(s) + 1 = 1..Len(s) \union {Len(s) + 1}
    BY <2>3
  <2>6. Range(Append(s, new)) = Range(s) \union {new}
    BY <2>3, <2>4, <2>5 DEF Range
  <2>7. QED
    BY <1>1, <2>1, <2>6
<1>7. \A d \in W : /\ Range(defs[d].order) \subseteq W
                   /\ d = root \/ \E e \in W : d \in Range(defs[e].order)
  BY <1>5 DEF Spans
<1>8. \A d \in W : Range(defs[d].order) \subseteq Range(defs'[d].order)
  BY <1>1, <1>2, <1>6
<1>9. ASSUME NEW d \in S
      PROVE  Range(defs'[d].order) \subseteq S
  <2>1. CASE d \in N
    BY <1>1, <2>1
  <2>2. CASE d \in W /\ d = x
    BY <1>1, <1>6, <1>7, <2>2
  <2>3. CASE d \in W /\ d # x
    BY <1>1, <1>2, <1>7, <2>3
  <2>4. QED
    BY <1>1, <1>9, <2>1, <2>2, <2>3
<1>10. ASSUME NEW d \in S
       PROVE  d = root \/ \E e \in S : d \in Range(defs'[e].order)
  <2>1. CASE d \in W
    BY <1>1, <1>7, <1>8, <2>1
  <2>2. CASE d = new
    BY <1>1, <1>2, <1>6, <2>2
  <2>3. CASE d \in N /\ d # new
    BY <1>1, <2>3
  <2>4. QED
    BY <1>1, <1>10, <2>1, <2>2, <2>3
<1>11. root \in S /\ S \subseteq DOMAIN defs'
  BY <1>1, <1>2, <1>5 DEF Spans
<1>12. Spans(S, root)'
  <2>1. root \in S /\ S \subseteq DOMAIN defs'
        /\ (\A d \in S : Range(defs'[d].order) \subseteq S)
        /\ \A d \in S : d = root \/ \E e \in S : d \in Range(defs'[e].order)
    BY <1>9, <1>10, <1>11
  <2>2. QED
    BY <2>1 DEF Spans
<1>13. Tree(root)' = S
  BY <1>3, <1>12, TreeNext
<1>14. templates'[b].def = root
  BY <1>4
<1>15. Whole(b)' = S
  BY <1>13, <1>14 DEF Whole
<1>16. QED
  BY <1>1, <1>15

(* One definition is changed, and others are new.                          *)
Changed(x, g, new, D, n) ==
  /\ D \in Nat /\ n \in Nat /\ D = Len(defs) /\ DOMAIN defs = 1..D /\ x \in 1..D
  /\ DOMAIN defs' = 1..D + n
  /\ \A d \in 1..D : d # x => defs'[d] = defs[d]
  /\ defs'[x] = g
  /\ \A i \in 1..n : defs'[D + i] = new[i]

LEMMA ChangedIs ==
  ASSUME DefsSound, NEW x \in DOMAIN defs, NEW g, NEW new, Sequence(new),
         defs' = [defs EXCEPT ![x] = g] \o new
  PROVE  Changed(x, g, new, Len(defs), Len(new))
<1>1. Sequence(defs)
  BY DEF DefsSound
<1>2. PICK D, n, old : D = Len(defs) /\ n = Len(new) /\ old = [defs EXCEPT ![x] = g]
  OBVIOUS
<1>3. D \in Nat /\ DOMAIN defs = 1..D /\ n \in Nat
  BY <1>1, <1>2, SequenceIs
<1>4. /\ Sequence(old) /\ Len(old) = D
      /\ \A i \in DOMAIN defs : old[i] = IF i = x THEN g ELSE defs[i]
  BY <1>1, <1>2, Updated
<1>5. /\ DOMAIN (old \o new) = 1..D + n
      /\ \A i \in 1..D : (old \o new)[i] = old[i]
      /\ \A i \in D + 1..D + n : (old \o new)[i] = new[i - D]
  BY <1>2, <1>4, Concatenated
<1>6. defs' = old \o new
  BY <1>2
<1>7. \A i \in 1..n : defs'[D + i] = new[i]
  <2>1. TAKE i \in 1..n
  <2>2. PICK k : k = D + i
    OBVIOUS
  <2>3. k \in D + 1..D + n /\ k - D = i
    BY <1>3, <2>2
  <2>4. defs'[k] = new[k - D]
    BY <1>5, <1>6, <2>3
  <2>5. QED
    BY <2>2, <2>3, <2>4
<1>8. QED
  BY <1>2, <1>3, <1>4, <1>5, <1>6, <1>7 DEF Changed

LEMMA DeclaredIs ==
  ASSUME DefsSound, scope \in DOMAIN defs, NEW new, Sequence(new), Declared(new)
  PROVE  \E g : /\ Changed(scope, g, new, Len(defs), Len(new))
                /\ g.order = Append(defs[scope].order, Len(defs) + 1)
                /\ g.kind = defs[scope].kind /\ g.parent = defs[scope].parent
                /\ g.type = defs[scope].type /\ g.base = defs[scope].base
                /\ g.general = defs[scope].general /\ g.spelt = defs[scope].spelt
                /\ g.expr = defs[scope].expr
<1>1. PICK x, was, order, g :
        /\ x = scope /\ was = defs[x] /\ order = Append(was.order, Len(defs) + 1)
        /\ g = [was EXCEPT !.order = order]
  OBVIOUS
<1>2. defs' = [defs EXCEPT ![x] = g] \o new
  BY <1>1 DEF Declared
<1>3. Changed(x, g, new, Len(defs), Len(new))
  BY <1>1, <1>2, ChangedIs
<1>4. DOMAIN was = DefinitionFields
  BY <1>1 DEF DefsSound
<1>5. /\ g.order = order /\ g.kind = was.kind /\ g.parent = was.parent /\ g.type = was.type
      /\ g.base = was.base /\ g.general = was.general /\ g.spelt = was.spelt
      /\ g.expr = was.expr
  BY <1>1, <1>4 DEF DefinitionFields
<1>6. QED
  BY <1>1, <1>3, <1>5

(* A type that is written: a parameter by its name, or no parameter.       *)
TypeWritten(t, type, spelt) ==
  /\ spelt \in {NoName} \union Range(templates[t].names)
  /\ IF spelt # NoName THEN Spells(t, spelt, type)
     ELSE /\ defs[type].kind \notin {"type", "value"}
          /\ defs[type].kind = "typed" => type \in Whole(t)

LEMMA NamesAre ==
  ASSUME NEW t, ParamsWritten(t), NEW x \in DOMAIN templates[t].general
  PROVE  /\ x # NoName /\ x \in Range(templates[t].names)
         /\ \E i \in 1..Arity(t) :
              /\ templates[t].names[i] = x /\ templates[t].params[i] = templates[t].general[x]
              /\ defs[templates[t].general[x]].kind = KindOf(t, i)
BY DEF ParamsWritten, Range, KindOf

LEMMA TypesWritten ==
  ASSUME Sound, Typed, Written, open.temp # 0, NEW t \in Types
  PROVE  t.type \in DOMAIN defs /\ TypeWritten(open.temp, t.type, t.spelt)
<1>1. PICK b : b = open.temp
  OBVIOUS
<1>2. b \in DOMAIN templates /\ ParamsWritten(b) /\ t.type \in DOMAIN defs
  BY <1>1, OpenIs, TypesAre DEF Written, TemplateWritten
<1>3. ASSUME NEW x \in TypeNames, t = [type |-> named[x], spelt |-> x]
      PROVE  TypeWritten(b, t.type, t.spelt)
  <2>1. x \in DOMAIN templates[b].general /\ t.type = templates[b].general[x] /\ t.spelt = x
        /\ defs[templates[b].general[x]].kind = "type"
    BY <1>1, <1>3 DEF TypeNames, named
  <2>2. /\ x # NoName /\ x \in Range(templates[b].names)
        /\ \E i \in 1..Arity(b) :
             /\ templates[b].names[i] = x /\ templates[b].params[i] = templates[b].general[x]
             /\ defs[templates[b].general[x]].kind = KindOf(b, i)
    BY <1>2, <2>1, NamesAre
  <2>3. QED
    BY <2>1, <2>2 DEF TypeWritten, Spells
<1>4. ASSUME NEW d, t = [type |-> d, spelt |-> NoName],
             \/ d \in {IntType, ClassType}
             \/ d \in Tree(templates[b].def) /\ defs[d].kind \in {"typed", "class"}
      PROVE  TypeWritten(b, t.type, t.spelt)
  <2>1. t.type = d /\ t.spelt = NoName
    BY <1>4
  <2>2. CASE d \in {IntType, ClassType}
    <3>1. defs[d].kind \in {"atomic", "class"}
      BY <2>2 DEF Written
    <3>2. QED
      BY <2>1, <3>1 DEF TypeWritten
  <2>3. CASE d \in Tree(templates[b].def) /\ defs[d].kind \in {"typed", "class"}
    BY <2>1, <2>3 DEF TypeWritten, Whole
  <2>4. QED
    BY <1>4, <2>2, <2>3
<1>5. \/ \E x \in TypeNames : t = [type |-> named[x], spelt |-> x]
      \/ \E d : /\ t = [type |-> d, spelt |-> NoName]
                /\ \/ d \in {IntType, ClassType}
                   \/ d \in Tree(templates[b].def) /\ defs[d].kind \in {"typed", "class"}
  BY <1>1 DEF Types
<1>6. QED
  BY <1>1, <1>2, <1>3, <1>4, <1>5

(* One member was declared in the scope.                                    *)
OneGrown(new, D, n, b, s) ==
  /\ D \in Nat /\ n \in Nat /\ DOMAIN defs = 1..D /\ DOMAIN defs' = 1..D + n
  /\ KindsKept
  /\ \A d \in DOMAIN defs : d # s => defs'[d] = defs[d]
  /\ defs'[s].type = defs[s].type /\ defs'[s].expr = defs[s].expr
  /\ \A i \in 1..n : defs'[D + i] = new[i]
  /\ Whole(b)' = Whole(b) \union {D + 1} /\ {D + 1} \intersect DOMAIN defs = {}
  /\ Whole(b) \subseteq Whole(b)'
  /\ MemberWritten(b, s)'

LEMMA OneDeclared ==
  ASSUME Sound, Sound', Typed, Written, UNCHANGED templates, open.temp # 0,
         open'.temp = open.temp, NEW new, Sequence(new), Len(new) # 0, Declared(new),
         new[1].order = << >>,
         NEW D, D = Len(defs), NEW n, n = Len(new), NEW b, b = open.temp
         , NEW s, s = scope
  PROVE  OneGrown(new, D, n, b, s)
<1>1. DefsSound /\ DefsSound' /\ DefsTyped /\ TemplatesSound
  BY DEF Sound, Typed
<1>2. /\ b \in DOMAIN templates /\ s \in DOMAIN defs /\ s \in Whole(b)
      /\ Whole(b) \subseteq DOMAIN defs
  BY OpenIs
<1>3. PICK g : /\ Changed(s, g, new, D, n)
               /\ g.order = Append(defs[s].order, D + 1)
               /\ g.kind = defs[s].kind /\ g.parent = defs[s].parent
               /\ g.type = defs[s].type /\ g.base = defs[s].base
               /\ g.general = defs[s].general /\ g.spelt = defs[s].spelt
               /\ g.expr = defs[s].expr
  BY <1>1, <1>2, DeclaredIs
<1>4. /\ D \in Nat /\ n \in Nat /\ DOMAIN defs = 1..D /\ DOMAIN defs' = 1..D + n
      /\ \A d \in DOMAIN defs : d # s => defs'[d] = defs[d]
      /\ defs'[s] = g
      /\ \A i \in 1..n : defs'[D + i] = new[i]
  BY <1>3 DEF Changed
<1>5. KindsKept
  <2>1. DOMAIN defs \subseteq DOMAIN defs'
    BY <1>4
  <2>2. \A d \in DOMAIN defs : defs'[d].kind = defs[d].kind
    BY <1>3, <1>4
  <2>3. QED
    BY <2>1, <2>2 DEF KindsKept
<1>6. n # 0 /\ defs'[D + 1].order = << >>
  BY <1>4
<1>7. Whole(b)' = Whole(b) \union {D + 1}
  <2>1. PICK N, y : N = {y} /\ y = D + 1
    OBVIOUS
  <2>2. N \intersect DOMAIN defs = {} /\ N \subseteq DOMAIN defs' /\ y \in N
    BY <1>4, <1>6, <2>1
  <2>3. \A d \in N : /\ Range(defs'[d].order) \subseteq N
                     /\ d = y \/ \E e \in N : d \in Range(defs'[e].order)
    <3>1. Range(defs'[y].order) = {}
      BY <1>6, <2>1 DEF Range
    <3>2. QED
      BY <2>1, <3>1
  <2>4. DOMAIN defs \subseteq DOMAIN defs' /\ defs'[s].order = Append(defs[s].order, y)
    BY <1>3, <1>4, <1>5, <2>1 DEF KindsKept
  <2>5. Whole(open.temp)' = Whole(open.temp) \union N
    BY <1>4, <2>2, <2>3, <2>4, WholeGrown
  <2>6. QED
    BY <2>1, <2>5
<1>8. MemberWritten(b, s)'
  <2>1. MemberWritten(b, s) /\ TemplateTyped(b) /\ NamesKept(b)
    BY <1>2 DEF Written, TemplateWritten, Typed, TemplatesTyped, NamesKept
  <2>2. Whole(b) \subseteq Whole(b)' /\ s \in Whole(b) /\ s \in DOMAIN defs
    BY <1>2, <1>7
  <2>3. /\ defs'[s].parent = defs[s].parent /\ defs'[s].type = defs[s].type
        /\ defs'[s].base = defs[s].base /\ defs'[s].general = defs[s].general
        /\ defs'[s].spelt = defs[s].spelt
    BY <1>3, <1>4
  <2>4. QED
    BY <1>1, <1>5, <2>1, <2>2, <2>3, MemberKept
<1>9. {D + 1} \intersect DOMAIN defs = {}
  BY <1>4
<1>10. Whole(b) \subseteq Whole(b)'
  BY <1>7
<1>11. QED
  BY <1>3, <1>4, <1>5, <1>7, <1>8, <1>9, <1>10 DEF OneGrown

LEMMA OneIs ==
  ASSUME NEW g
  PROVE  Sequence(<<g>>) /\ Len(<<g>>) = 1 /\ <<g>>[1] = g
<1>1. <<g>> \in Seq({g}) /\ Range(<<g>>) = {g}
  BY DEF Range
<1>2. QED
  BY <1>1 DEF Sequence

LEMMA TypeWrittenKept ==
  ASSUME KindsKept, NEW t, TemplateTyped(t), NamesKept(t), Whole(t) \subseteq Whole(t)',
         NEW type \in DOMAIN defs, NEW spelt, TypeWritten(t, type, spelt)
  PROVE  TypeWritten(t, type, spelt)'
<1>1. \A name, x : Spells(t, name, x) => Spells(t, name, x)'
  BY SpellsKept
<1>2. QED
  BY <1>1 DEF TypeWritten, KindsKept, NamesKept

(* A new member that has a type, or is a class.                            *)
LEMMA NewMember ==
  ASSUME NEW t, NEW d, defs[d].kind \in {"typed", "class"}, d # templates[t].def,
         defs[d].parent \in Whole(t), defs[d].base = 0, defs[d].general = << >>,
         IF defs[d].kind = "typed" THEN TypeWritten(t, defs[d].type, defs[d].spelt)
         ELSE defs[d].spelt = NoName
  PROVE  MemberWritten(t, d)
<1>1. << >> = [x \in DOMAIN << >> |-> << >>[x]] /\ DOMAIN << >> = {}
  OBVIOUS
<1>2. QED
  BY <1>1 DEF MemberWritten, TypeWritten

NewMembers ==
  \A t, d :
    /\ defs[d].kind \in {"typed", "class"} /\ d # templates[t].def
    /\ defs[d].parent \in Whole(t) /\ defs[d].base = 0 /\ defs[d].general = << >>
    /\ IF defs[d].kind = "typed" THEN TypeWritten(t, defs[d].type, defs[d].spelt)
       ELSE defs[d].spelt = NoName
    => MemberWritten(t, d)

LEMMA NewMembersNext == NewMembers'
<1>1. NewMembers
  BY NewMember DEF NewMembers
<1>2. QED
  BY <1>1, PTL

(* What a body that one member was declared in has to be.                  *)
BodyGrown(b, D, s) ==
  /\ KindsKept
  /\ \A d \in DOMAIN defs : d # s => defs'[d] = defs[d]
  /\ defs'[s].type = defs[s].type /\ defs'[s].expr = defs[s].expr
  /\ Whole(b)' = Whole(b) \union {D + 1} /\ {D + 1} \intersect DOMAIN defs = {}
  /\ MemberWritten(b, s)' /\ MemberWritten(b, D + 1)'
  /\ \A d \in DOMAIN defs' \ DOMAIN defs : ExprWritten(defs[d].expr)'
  /\ \A y \in Range(open'.scopes) : y \in Whole(b)' /\ defs'[y].kind = "class"

LEMMA BodyGrownWritten ==
  ASSUME Sound, Sound', Typed, Written, UNCHANGED <<templates, frames>>, open.temp # 0,
         open'.temp = open.temp, NEW b, b = open.temp, NEW D, NEW s, s = scope,
         BodyGrown(b, D, s)
  PROVE  Written'
<1>1. PICK N : N = {D + 1}
  OBVIOUS
<1>2. \A d \in N \union {s} : MemberWritten(b, d)'
  BY <1>1 DEF BodyGrown
<1>3. /\ N \intersect DOMAIN defs = {} /\ Whole(open.temp)' = Whole(open.temp) \union N
      /\ \A y \in Range(open'.scopes) : y \in Whole(open.temp)' /\ defs'[y].kind = "class"
  BY <1>1 DEF BodyGrown
<1>4. QED
  BY <1>2, <1>3, BodyWritten DEF BodyGrown

LEMMA MemberWrittenKept ==
  ASSUME Sound, Sound', Typed, Written, NEW t \in Types, Member(t)
  PROVE  Written'
<1>1. PICK g : g = [Definition("typed", scope, t.type) EXCEPT !.spelt = t.spelt]
  OBVIOUS
<1>2. PICK new, b, D, s : new = <<g>> /\ b = open.temp /\ D = Len(defs) /\ s = scope
  OBVIOUS
<1>3. /\ open.temp # 0 /\ Declared(new) /\ UNCHANGED <<templates, frames, open>>
  BY <1>1, <1>2 DEF Member, ReadingBody, Stay
<1>4. Sequence(new) /\ Len(new) = 1 /\ new[1] = g
  BY <1>2, OneIs
<1>5. /\ g.kind = "typed" /\ g.parent = scope /\ g.type = t.type /\ g.spelt = t.spelt
      /\ g.base = 0 /\ g.general = << >> /\ g.order = << >> /\ g.expr.op = "none"
  BY <1>1 DEF Definition, NoExpression, Expression
<1>6. OneGrown(new, D, 1, b, s)
  <2>1. new[1].order = << >> /\ Len(new) # 0 /\ 1 = Len(new) /\ open'.temp = open.temp
    BY <1>3, <1>4, <1>5
  <2>2. QED
    BY <1>2, <1>3, <1>4, <2>1, OneDeclared
<1>7. defs'[D + 1] = g
  BY <1>4, <1>6 DEF OneGrown
<1>8. /\ b \in DOMAIN templates /\ scope \in Whole(b)
      /\ \A y \in Range(open.scopes) : y \in Whole(b) /\ defs[y].kind = "class"
      /\ Whole(b) \subseteq DOMAIN defs
  BY <1>2, <1>3, OpenIs
<1>9. MemberWritten(b, D + 1)'
  <2>1. t.type \in DOMAIN defs /\ TypeWritten(b, t.type, t.spelt)
    BY <1>2, <1>3, TypesWritten
  <2>2. PICK type, spelt : type = t.type /\ spelt = t.spelt
    OBVIOUS
  <2>3. TemplateTyped(b) /\ NamesKept(b)
    BY <1>3, <1>8 DEF Typed, TemplatesTyped, NamesKept
  <2>4. TypeWritten(b, type, spelt)'
    BY <1>6, <2>1, <2>2, <2>3, TypeWrittenKept DEF OneGrown
  <2>5. TypeWritten(b, defs[D + 1].type, defs[D + 1].spelt)'
    BY <1>2, <1>5, <1>7, <2>2, <2>4
  <2>6. D + 1 # templates'[b].def
    <3>1. templates[b].def \in DOMAIN defs
      BY <1>8 DEF Sound, TemplatesSound, TemplateSound
    <3>2. QED
      BY <1>3, <1>6, <3>1 DEF OneGrown
  <2>7. scope \in Whole(b)'
    BY <1>6, <1>8 DEF OneGrown
  <2>8. QED
    BY <1>2, <1>5, <1>7, <2>5, <2>6, <2>7, NewMembersNext DEF NewMembers
<1>10. \A d \in DOMAIN defs' \ DOMAIN defs : ExprWritten(defs[d].expr)'
  <2>1. \A d \in DOMAIN defs' \ DOMAIN defs : d = D + 1
    BY <1>6 DEF OneGrown
  <2>2. QED
    BY <1>5, <1>7, <2>1 DEF ExprWritten
<1>11. \A y \in Range(open'.scopes) : y \in Whole(b)' /\ defs'[y].kind = "class"
  BY <1>3, <1>6, <1>8 DEF OneGrown, KindsKept
<1>12. BodyGrown(b, D, s)
  BY <1>6, <1>9, <1>10, <1>11 DEF BodyGrown, OneGrown
<1>13. QED
  BY <1>2, <1>3, <1>6, <1>12, BodyGrownWritten DEF OneGrown

LEMMA MoreIs ==
  ASSUME NEW s, Sequence(s), NEW x
  PROVE  Range(Append(s, x)) = Range(s) \union {x}
<1>1. /\ DOMAIN Append(s, x) = 1..Len(s) + 1 /\ \A i \in 1..Len(s) : Append(s, x)[i] = s[i]
      /\ Append(s, x)[Len(s) + 1] = x /\ Len(s) \in Nat /\ DOMAIN s = 1..Len(s)
  BY Appended, SequenceIs
<1>2. 1..Len(s) + 1 = 1..Len(s) \union {Len(s) + 1}
  BY <1>1
<1>3. QED
  BY <1>1, <1>2 DEF Range

LEMMA OpenClassWritten ==
  ASSUME Sound, Sound', Typed, Written, OpenClass
  PROVE  Written'
<1>1. PICK g, new, b, D, s, w :
        /\ g = Definition("class", scope, 0) /\ new = <<g>> /\ b = open.temp
        /\ D = Len(defs) /\ s = scope /\ w = open.scopes
  OBVIOUS
<1>2. /\ b # 0 /\ Declared(new) /\ UNCHANGED <<templates, frames>>
      /\ open' = [open EXCEPT !.scopes = Append(@, D + 1)]
  BY <1>1 DEF OpenClass, ReadingBody, Stay
<1>3. Sequence(new) /\ Len(new) = 1 /\ new[1] = g
  BY <1>1, OneIs
<1>4. /\ g.kind = "class" /\ g.parent = s /\ g.spelt = NoName
      /\ g.base = 0 /\ g.general = << >> /\ g.order = << >> /\ g.expr.op = "none"
  BY <1>1 DEF Definition, NoExpression, Expression
<1>5. open'.temp = b /\ open'.scopes = Append(w, D + 1) /\ Sequence(w)
  <2>1. PICK o : o = open
    OBVIOUS
  <2>2. DOMAIN o = {"temp", "scopes"} /\ Sequence(o.scopes)
    BY <1>1, <1>2, <2>1 DEF Sound, OpenSound, Typed, OpenTyped
  <2>3. open' = [o EXCEPT !.scopes = Append(o.scopes, D + 1)] /\ w = o.scopes /\ b = o.temp
    BY <1>1, <1>2, <2>1
  <2>4. QED
    BY <2>2, <2>3
<1>6. OneGrown(new, D, 1, b, s)
  <2>1. new[1].order = << >> /\ Len(new) # 0 /\ 1 = Len(new) /\ open'.temp = open.temp
    BY <1>1, <1>3, <1>4, <1>5
  <2>2. QED
    BY <1>1, <1>2, <1>3, <2>1, OneDeclared
<1>7. defs'[D + 1] = g
  BY <1>3, <1>6 DEF OneGrown
<1>8. /\ b \in DOMAIN templates /\ s \in Whole(b)
      /\ \A y \in Range(w) : y \in Whole(b) /\ defs[y].kind = "class"
      /\ Whole(b) \subseteq DOMAIN defs
  BY <1>1, <1>2, OpenIs
<1>9. MemberWritten(b, D + 1)'
  <2>1. D + 1 # templates'[b].def
    <3>1. templates[b].def \in DOMAIN defs
      BY <1>8 DEF Sound, TemplatesSound, TemplateSound
    <3>2. QED
      BY <1>2, <1>6, <3>1 DEF OneGrown
  <2>2. s \in Whole(b)'
    BY <1>6, <1>8 DEF OneGrown
  <2>3. QED
    BY <1>4, <1>7, <2>1, <2>2, NewMembersNext DEF NewMembers
<1>10. \A d \in DOMAIN defs' \ DOMAIN defs : ExprWritten(defs[d].expr)'
  <2>1. \A d \in DOMAIN defs' \ DOMAIN defs : d = D + 1
    BY <1>6 DEF OneGrown
  <2>2. QED
    BY <1>4, <1>7, <2>1 DEF ExprWritten
<1>11. \A y \in Range(open'.scopes) : y \in Whole(b)' /\ defs'[y].kind = "class"
  <2>1. Range(open'.scopes) = Range(w) \union {D + 1}
    BY <1>5, MoreIs
  <2>2. QED
    BY <1>4, <1>6, <1>7, <1>8, <2>1 DEF OneGrown, KindsKept
<1>12. BodyGrown(b, D, s)
  BY <1>6, <1>9, <1>10, <1>11 DEF BodyGrown, OneGrown
<1>13. QED
  BY <1>1, <1>2, <1>5, <1>12, BodyGrownWritten

LEMMA DependentMemberWritten ==
  ASSUME Sound, Sound', Typed, Written, NEW y, NEW u, DependentMember(y, u)
  PROVE  Written'
<1>1. PICK g, h, new, b, D, s :
        /\ g = Definition("typed", scope, Len(defs) + 2) /\ h = Hypothetical(y, u)
        /\ new = <<g, h>> /\ b = open.temp /\ D = Len(defs) /\ s = scope
  OBVIOUS
<1>2. /\ b # 0 /\ Declared(new) /\ UNCHANGED <<templates, frames, open>>
  BY <1>1 DEF DependentMember, ReadingBody, Stay
<1>3. Sequence(new) /\ Len(new) = 2 /\ new[1] = g /\ new[2] = h
  <2>1. <<g, h>> \in Seq({g, h}) /\ Range(<<g, h>>) = {g, h}
    BY DEF Range
  <2>2. Sequence(new)
    BY <1>1, <2>1 DEF Sequence
  <2>3. QED
    BY <1>1, <2>2
<1>4. /\ g.kind = "typed" /\ g.parent = s /\ g.type = D + 2 /\ g.spelt = NoName
      /\ g.base = 0 /\ g.general = << >> /\ g.order = << >> /\ g.expr.op = "none"
      /\ h.kind = "hypothetical" /\ h.expr.op = "instance"
  BY <1>1 DEF Definition, NoExpression, Expression, Hypothetical
<1>5. OneGrown(new, D, 2, b, s)
  <2>1. new[1].order = << >> /\ Len(new) # 0 /\ 2 = Len(new) /\ open'.temp = open.temp
    BY <1>2, <1>3, <1>4
  <2>2. QED
    BY <1>1, <1>2, <1>3, <2>1, OneDeclared
<1>6. defs'[D + 1] = g /\ defs'[D + 2] = h
  BY <1>3, <1>5 DEF OneGrown
<1>7. /\ b \in DOMAIN templates /\ s \in Whole(b)
      /\ \A x \in Range(open.scopes) : x \in Whole(b) /\ defs[x].kind = "class"
      /\ Whole(b) \subseteq DOMAIN defs
  BY <1>1, <1>2, OpenIs
<1>8. MemberWritten(b, D + 1)'
  <2>1. D + 1 # templates'[b].def
    <3>1. templates[b].def \in DOMAIN defs
      BY <1>7 DEF Sound, TemplatesSound, TemplateSound
    <3>2. QED
      BY <1>2, <1>5, <3>1 DEF OneGrown
  <2>2. s \in Whole(b)'
    BY <1>5, <1>7 DEF OneGrown
  <2>3. TypeWritten(b, defs[D + 1].type, defs[D + 1].spelt)'
    BY <1>4, <1>6 DEF TypeWritten
  <2>4. QED
    BY <1>4, <1>6, <2>1, <2>2, <2>3, NewMembersNext DEF NewMembers
<1>9. \A d \in DOMAIN defs' \ DOMAIN defs : ExprWritten(defs[d].expr)'
  <2>1. \A d \in DOMAIN defs' \ DOMAIN defs : d = D + 1 \/ d = D + 2
    BY <1>5 DEF OneGrown
  <2>2. QED
    BY <1>4, <1>6, <2>1 DEF ExprWritten
<1>10. \A x \in Range(open'.scopes) : x \in Whole(b)' /\ defs'[x].kind = "class"
  BY <1>2, <1>5, <1>7 DEF OneGrown, KindsKept
<1>11. BodyGrown(b, D, s)
  BY <1>5, <1>8, <1>9, <1>10 DEF BodyGrown, OneGrown
<1>12. QED
  BY <1>1, <1>2, <1>11, BodyGrownWritten

LEMMA ExpressionsWritten ==
  ASSUME Sound, Typed, Written, open.temp # 0, NEW e \in Expressions
  PROVE  /\ ExprWritten(e.expr)
         /\ e.spelt \in {NoName} \union Range(templates[open.temp].names)
<1>1. PICK b : b = open.temp
  OBVIOUS
<1>2. b \in DOMAIN templates /\ ParamsWritten(b)
  BY <1>1, OpenIs DEF Written, TemplateWritten
<1>3. ASSUME NEW x \in ValueNames
      PROVE  /\ x \in Range(templates[b].names)
             /\ Arity(b) = 1 => KindOf(b, 1) = "value"
  <2>1. x \in DOMAIN templates[b].general /\ defs[templates[b].general[x]].kind = "value"
    BY <1>1, <1>3 DEF ValueNames, named
  <2>2. /\ x \in Range(templates[b].names)
        /\ \E i \in 1..Arity(b) :
             /\ templates[b].names[i] = x /\ templates[b].params[i] = templates[b].general[x]
             /\ defs[templates[b].general[x]].kind = KindOf(b, i)
    BY <1>2, <2>1, NamesAre
  <2>3. ASSUME Arity(b) = 1
        PROVE  KindOf(b, 1) = "value"
    BY <2>1, <2>2, <2>3
  <2>4. QED
    BY <2>2, <2>3
<1>4. CASE e = [expr |-> Expression("number", 0, 0), spelt |-> NoName]
  BY <1>4 DEF Expression, ExprWritten
<1>5. CASE \E x \in ValueNames : e = [expr |-> Expression("name", named[x], 0), spelt |-> x]
  BY <1>1, <1>3, <1>5 DEF Expression, ExprWritten
<1>6. CASE Arity(b) = 1 /\ e \in SelfAccesses
  <2>1. PICK op \in {"recursion", "unbounded"}, x \in ValueNames :
          e = [expr |-> Expression(op, named[x], open.temp), spelt |-> x]
    BY <1>6 DEF SelfAccesses
  <2>2. e.expr.temp = open.temp /\ e.spelt = x
    BY <2>1 DEF Expression
  <2>3. QED
    BY <1>1, <1>3, <1>6, <2>2 DEF ExprWritten
<1>7. CASE e \in Accesses
  <2>1. PICK x \in ValueNames, u \in 1..open.temp - 1 :
          /\ e = [expr |-> Expression("access", named[x], u), spelt |-> x]
          /\ ~templates[u].unread /\ KindOf(u, 1) = "value"
    BY <1>7 DEF Accesses
  <2>2. e.expr.temp = u /\ e.spelt = x
    BY <2>1 DEF Expression
  <2>3. QED
    BY <1>1, <1>3, <2>1, <2>2 DEF ExprWritten
<1>8. QED
  BY <1>1, <1>4, <1>5, <1>6, <1>7 DEF Expressions

(* A new enumeration, or an enumerator.                                    *)
NewParts ==
  \A t, d :
    /\ defs[d].kind \in {"enum", "constant"} /\ d # templates[t].def
    /\ defs[d].parent \in Whole(t) /\ defs[d].base = 0 /\ defs[d].general = << >>
    /\ defs[d].spelt \in {NoName} \union Range(templates[t].names)
    => MemberWritten(t, d)

LEMMA NewPartsNext == NewParts'
<1>1. << >> = [x \in DOMAIN << >> |-> << >>[x]] /\ DOMAIN << >> = {}
  OBVIOUS
<1>2. NewParts
  BY <1>1 DEF NewParts, MemberWritten
<1>3. QED
  BY <1>2, PTL

LEMMA EnumeratorsAre ==
  ASSUME NEW parent, NEW e, NEW spelt
  PROVE  LET g == Enumerator(parent, e, spelt) IN
         /\ g.kind = "constant" /\ g.parent = parent /\ g.base = 0 /\ g.general = << >>
         /\ g.order = << >> /\ g.spelt = spelt /\ g.expr = e
         /\ DOMAIN g = DefinitionFields
BY DEF Enumerator, Definition, DefinitionFields

EnumerationGrown(e, D, s, b, order, general, g, first, second, new) ==
  /\ D = Len(defs) /\ s = scope /\ b = open.temp
  /\ order = Append(defs[s].order, D + 1)
  /\ general = [x \in {"A", "B"} |-> IF x = "A" THEN D + 2 ELSE D + 3]
  /\ g.kind = "enum" /\ g.parent = s /\ g.base = 0 /\ g.general = << >> /\ g.spelt = NoName
  /\ g.order = <<D + 2, D + 3>> /\ g.expr.op = "none"
  /\ first.kind = "constant" /\ first.parent = D + 1 /\ first.base = 0 /\ first.general = << >>
  /\ first.order = << >> /\ first.spelt = e.spelt /\ first.expr = e.expr
  /\ second.kind = "constant" /\ second.parent = D + 1 /\ second.base = 0 /\ second.general = << >>
  /\ second.order = << >> /\ second.spelt = NoName /\ second.expr.op = "next"
  /\ new = <<g, first, second>>
  /\ b # 0 /\ UNCHANGED <<templates, frames, open>> /\ DOMAIN defs[s].general = {}
  /\ defs' = [defs EXCEPT ![s].order = order, ![s].general = general] \o new

LEMMA EnumerationIs ==
  ASSUME NEW e, Enumeration(e)
  PROVE  \E D, s, b, order, general, g, first, second, new :
           EnumerationGrown(e, D, s, b, order, general, g, first, second, new)
<1>1. PICK D, s, b, order, general, g, first, v, second, new :
        /\ D = Len(defs) /\ s = scope /\ b = open.temp
        /\ order = Append(defs[s].order, D + 1)
        /\ general = [x \in {"A", "B"} |-> IF x = "A" THEN D + 2 ELSE D + 3]
        /\ g = [Definition("enum", s, IntType) EXCEPT !.order = <<D + 2, D + 3>>]
        /\ first = Enumerator(D + 1, e.expr, e.spelt)
        /\ v = Evaluated(Expression("next", 0, 0), first.value)
        /\ second = [Enumerator(D + 1, Expression("next", D + 2, 0), NoName) EXCEPT !.value = v]
        /\ new = <<g, first, second>>
  OBVIOUS
<1>2. /\ g.kind = "enum" /\ g.parent = s /\ g.base = 0 /\ g.general = << >> /\ g.spelt = NoName
      /\ g.order = <<D + 2, D + 3>> /\ g.expr.op = "none"
  BY <1>1 DEF Definition, NoExpression, Expression
<1>3. /\ first.kind = "constant" /\ first.parent = D + 1 /\ first.base = 0 /\ first.general = << >>
      /\ first.order = << >> /\ first.spelt = e.spelt /\ first.expr = e.expr
  BY <1>1, EnumeratorsAre
<1>4. /\ second.kind = "constant" /\ second.parent = D + 1 /\ second.base = 0 /\ second.general = << >>
      /\ second.order = << >> /\ second.spelt = NoName /\ second.expr.op = "next"
  <2>1. PICK was, x : /\ x = Expression("next", D + 2, 0)
                      /\ was = Enumerator(D + 1, x, NoName)
    OBVIOUS
  <2>2. /\ was.kind = "constant" /\ was.parent = D + 1 /\ was.base = 0 /\ was.general = << >>
        /\ was.order = << >> /\ was.spelt = NoName /\ was.expr = x
        /\ DOMAIN was = DefinitionFields
    BY <2>1, EnumeratorsAre
  <2>3. second = [was EXCEPT !.value = v] /\ x.op = "next"
    BY <1>1, <2>1 DEF Expression
  <2>4. QED
    BY <2>2, <2>3 DEF DefinitionFields
<1>5. b # 0 /\ UNCHANGED <<templates, frames, open>> /\ DOMAIN defs[s].general = {}
  BY <1>1 DEF Enumeration, ReadingBody, Stay
<1>6. defs' = [defs EXCEPT ![s].order = order, ![s].general = general] \o new
  BY <1>1, Zenon DEF Enumeration
<1>7. EnumerationGrown(e, D, s, b, order, general, g, first, second, new)
  BY <1>1, <1>2, <1>3, <1>4, <1>5, <1>6, Zenon DEF EnumerationGrown
<1>8. QED
  BY <1>7

LEMMA NewExprWritten ==
  ASSUME Sound, Typed, KindsKept, UNCHANGED <<templates, open>>,
         NEW e, ExprWritten(e), ExpressionSound(e)
  PROVE  ExprWritten(e)'
<1>1. SUFFICES ASSUME e.op \in {"access", "recursion", "unbounded"}
               PROVE  /\ KindOf(e.temp, 1)' = "value"
                      /\ templates'[e.temp].unread => e.temp = open'.temp
  BY DEF ExprWritten
<1>2. /\ KindOf(e.temp, 1) = "value" /\ (templates[e.temp].unread => e.temp = open.temp)
      /\ e.temp \in DOMAIN templates /\ Arity(e.temp) = 1
  BY <1>1 DEF ExprWritten, ExpressionSound
<1>3. KindOf(e.temp, 1)' = KindOf(e.temp, 1)
  BY <1>2, KindOfSame DEF Typed, TemplatesTyped
<1>4. QED
  BY <1>2, <1>3

LEMMA EnumerationWritten ==
  ASSUME Sound, Sound', Typed, Written, NEW e \in Expressions, Enumeration(e)
  PROVE  Written'
<1>1. PICK D, s, b, order, general, g, first, second, new :
        EnumerationGrown(e, D, s, b, order, general, g, first, second, new)
  BY EnumerationIs
<1>2. /\ D = Len(defs) /\ s = scope /\ b = open.temp /\ b # 0
      /\ order = Append(defs[s].order, D + 1)
      /\ UNCHANGED <<templates, frames, open>> /\ DOMAIN defs[s].general = {}
      /\ new = <<g, first, second>>
  BY <1>1 DEF EnumerationGrown
<1>3. /\ b \in DOMAIN templates /\ s \in Whole(b) /\ s \in DOMAIN defs /\ defs[s].kind = "class"
      /\ \A y \in Range(open.scopes) : y \in Whole(b) /\ defs[y].kind = "class"
      /\ Whole(b) \subseteq DOMAIN defs
  BY <1>2, OpenIs
<1>4. Sequence(new) /\ Len(new) = 3 /\ new[1] = g /\ new[2] = first /\ new[3] = second
  <2>1. <<g, first, second>> \in Seq({g, first, second})
        /\ Range(<<g, first, second>>) = {g, first, second}
    BY DEF Range
  <2>2. Sequence(new)
    BY <1>2, <2>1 DEF Sequence
  <2>3. QED
    BY <1>2, <2>2
<1>5. PICK was : was = defs[s]
  OBVIOUS
<1>6. PICK now : now = [was EXCEPT !.order = order, !.general = general]
  OBVIOUS
<1>7. /\ now.order = order /\ now.general = general
      /\ now.kind = was.kind /\ now.parent = was.parent /\ now.type = was.type
      /\ now.base = was.base /\ now.spelt = was.spelt /\ now.expr = was.expr
  <2>1. DOMAIN was = DefinitionFields
    BY <1>3, <1>5 DEF Sound, DefsSound
  <2>2. QED
    BY <1>6, <2>1 DEF DefinitionFields
<1>8. Changed(s, now, new, D, 3)
  <2>1. defs' = [defs EXCEPT ![s].order = order, ![s].general = general] \o new
    BY <1>1 DEF EnumerationGrown
  <2>2. defs' = [defs EXCEPT ![s] = now] \o new
    BY <1>3, <1>5, <1>6, <2>1
  <2>3. DefsSound
    BY DEF Sound
  <2>4. QED
    BY <1>2, <1>3, <1>4, <2>2, <2>3, ChangedIs
<1>9. /\ D \in Nat /\ DOMAIN defs = 1..D /\ DOMAIN defs' = 1..D + 3
      /\ \A d \in DOMAIN defs : d # s => defs'[d] = defs[d]
      /\ defs'[s] = now
      /\ defs'[D + 1] = g /\ defs'[D + 2] = first /\ defs'[D + 3] = second
  BY <1>4, <1>8 DEF Changed
<1>10. KindsKept
  BY <1>3, <1>5, <1>7, <1>9 DEF KindsKept
<1>11. PICK N, p, q, r : N = {p, q, r} /\ p = D + 1 /\ q = D + 2 /\ r = D + 3
  OBVIOUS
<1>12. /\ defs'[p] = g /\ defs'[q] = first /\ defs'[r] = second
       /\ N \intersect DOMAIN defs = {} /\ N \subseteq DOMAIN defs'
       /\ DOMAIN defs' \ DOMAIN defs = N
  BY <1>9, <1>11
<1>13. Whole(b)' = Whole(b) \union N
  <2>1. Range(g.order) = {q, r} /\ Range(first.order) = {} /\ Range(second.order) = {}
    BY <1>1, <1>11 DEF EnumerationGrown, Range
  <2>2. \A d \in N : /\ Range(defs'[d].order) \subseteq N
                     /\ d = p \/ \E x \in N : d \in Range(defs'[x].order)
    BY <1>11, <1>12, <2>1
  <2>3. defs'[scope].order = Append(defs[scope].order, p) /\ open.temp # 0
        /\ open'.temp = open.temp /\ p \in N /\ DOMAIN defs \subseteq DOMAIN defs'
        /\ \A d \in DOMAIN defs : d # scope => defs'[d] = defs[d]
    BY <1>2, <1>5, <1>7, <1>9, <1>11
  <2>4. Whole(open.temp)' = Whole(open.temp) \union N
    BY <1>2, <1>12, <2>2, <2>3, WholeGrown
  <2>5. QED
    BY <1>2, <2>4
<1>14. /\ TemplateTyped(b) /\ TemplateWritten(b) /\ NamesKept(b)
       /\ templates[b].def \in DOMAIN defs
  BY <1>2, <1>3 DEF Typed, TemplatesTyped, Written, NamesKept, Sound, TemplatesSound, TemplateSound
<1>15. ExprWritten(e.expr) /\ e.spelt \in {NoName} \union Range(templates[b].names)
  BY <1>2, ExpressionsWritten
<1>16. \A d \in N \union {s} : MemberWritten(b, d)'
  <2>1. \A d \in N : d # templates'[b].def
    BY <1>2, <1>12, <1>14
  <2>2. \A d \in N : defs'[d].parent \in Whole(b)'
    <3>1. defs'[p].parent = s /\ defs'[q].parent = p /\ defs'[r].parent = p
      BY <1>1, <1>11, <1>12 DEF EnumerationGrown
    <3>2. QED
      BY <1>3, <1>11, <1>13, <3>1
  <2>3. \A d \in N : /\ defs'[d].kind \in {"enum", "constant"} /\ defs'[d].base = 0
                     /\ defs'[d].general = << >>
                     /\ defs'[d].spelt \in {NoName, e.spelt}
    BY <1>1, <1>11, <1>12 DEF EnumerationGrown
  <2>4. \A d \in N : defs'[d].spelt \in {NoName} \union Range(templates'[b].names)
    BY <1>2, <1>15, <2>3
  <2>5. \A d \in N : MemberWritten(b, d)'
    BY <2>1, <2>2, <2>3, <2>4, NewPartsNext DEF NewParts
  <2>6. MemberWritten(b, s)'
    <3>1. MemberWritten(b, s)
      BY <1>3, <1>14 DEF TemplateWritten
    <3>2. \A name, x : Spells(b, name, x) => Spells(b, name, x)'
      BY <1>10, <1>14, SpellsKept
    <3>3. was.base # 0 => was.base \in DOMAIN defs
      <4>1. Refers(was, D) /\ DOMAIN defs = 1..D
        BY <1>3, <1>2, <1>5, <1>9 DEF Typed, DefsTyped
      <4>2. QED
        BY <4>1 DEF Refers
    <3>4. general = [x \in DOMAIN general |-> general[x]]
          /\ \A x \in DOMAIN general : general[x] \in Whole(b)'
      <4>1. general = [x \in {"A", "B"} |-> IF x = "A" THEN q ELSE r]
        BY <1>1, <1>11 DEF EnumerationGrown
      <4>2. DOMAIN general = {"A", "B"} /\ \A x \in DOMAIN general : general[x] \in {q, r}
        BY <4>1
      <4>3. QED
        BY <1>11, <1>13, <4>1, <4>2
    <3>5. defs'[s] = now /\ now.kind = "class" /\ was = defs[s]
      BY <1>3, <1>5, <1>7, <1>9
    <3>6. \A x \in DOMAIN defs : defs'[x].kind = defs[x].kind
      BY <1>10 DEF KindsKept
    <3>7. Whole(b) \subseteq Whole(b)' /\ templates' = templates
      BY <1>2, <1>13
    <3>8. QED
      BY <1>7, <3>1, <3>2, <3>3, <3>4, <3>5, <3>6, <3>7 DEF MemberWritten
  <2>7. QED
    BY <2>5, <2>6
<1>17. \A d \in DOMAIN defs' \ DOMAIN defs : ExprWritten(defs[d].expr)'
  <2>1. PICK x : x = e.expr
    OBVIOUS
  <2>2. ExprWritten(x)'
    <3>1. ExprWritten(x) /\ ExpressionSound(x)
      BY <1>2, <1>15, <2>1, ExpressionsAre
    <3>2. QED
      BY <1>2, <1>10, <3>1, NewExprWritten
  <2>3. defs'[p].expr.op = "none" /\ defs'[q].expr = x /\ defs'[r].expr.op = "next"
    BY <1>1, <1>12, <2>1 DEF EnumerationGrown
  <2>4. QED
    BY <1>11, <1>12, <2>2, <2>3 DEF ExprWritten
<1>18. \A y \in Range(open'.scopes) : y \in Whole(b)' /\ defs'[y].kind = "class"
  BY <1>2, <1>3, <1>10, <1>13 DEF KindsKept
<1>19. defs'[scope].type = defs[scope].type /\ defs'[scope].expr = defs[scope].expr
  BY <1>2, <1>5, <1>7, <1>9
<1>20. Whole(open.temp)' = Whole(open.temp) \union N
       /\ \A y \in Range(open'.scopes) : y \in Whole(open.temp)' /\ defs'[y].kind = "class"
  BY <1>2, <1>13, <1>18
<1>21. QED
  BY <1>2, <1>9, <1>10, <1>12, <1>16, <1>17, <1>19, <1>20, BodyWritten

(* What a type is spelt as is what it is written as, or what the types     *)
(* that it stands for are.                                                 *)
Spelling(f) ==
  f = [d \in DOMAIN defs |->
         IF defs[d].kind # "typed" THEN NoName
         ELSE IF defs[d].spelt # NoName THEN defs[d].spelt ELSE f[defs[d].type]]

LEMMA SpeltsAre ==
  ASSUME DefsSound, DefsTyped, ChainsEnd, DOMAIN defs # {}
  PROVE  \E f : Spelling(f) /\ \A t : Spelt(t) = IF t.spelt # NoName THEN t.spelt ELSE f[t.type]
<1> DEFINE D == DOMAIN defs
           V == {NoName} \union {defs[d].spelt : d \in D}
           step == [d \in D |-> [g \in [D -> V] |->
                      IF defs[d].kind # "typed" THEN NoName
                      ELSE IF defs[d].spelt # NoName THEN defs[d].spelt ELSE g[defs[d].type]]]
           spelt == CHOOSE f : Spelling(f)
<1>1. PICK n \in Nat : \E rank \in [D -> 0..n] : Chained(rank)
  BY DEF ChainsEnd
<1>2. PICK rank \in [D -> 0..n] : Chained(rank)
  BY <1>1
<1>3. \A d \in D : defs[d].kind = "typed" =>
                     defs[d].type \in D /\ rank[defs[d].type] < rank[d]
  <2>1. Len(defs) \in Nat /\ D = 1..Len(defs)
    BY SequenceIs DEF DefsSound
  <2>2. \A d \in D : defs[d].kind = "typed" => defs[d].type \in 0..Len(defs) /\ defs[d].type # 0
    BY DEF DefsTyped, Refers
  <2>3. \A k \in 0..Len(defs) : k # 0 => k \in 1..Len(defs)
    BY <2>1
  <2>4. QED
    BY <1>2, <2>1, <2>2, <2>3 DEF Chained
<1>4. Ranked(D, V, rank, step)
  <2>1. \A d \in D : defs[d].spelt \in V
    OBVIOUS
  <2>2. NoName \in V
    OBVIOUS
  <2>3. step \in [D -> [[D -> V] -> V]]
    <3> HIDE DEF V
    <3>1. QED
      BY <1>3, <2>1, <2>2
  <2>4. ASSUME NEW d \in D, NEW g \in [D -> V], NEW h \in [D -> V],
               \A c \in D : rank[c] < rank[d] => g[c] = h[c]
        PROVE  step[d][g] = step[d][h]
    <3> HIDE DEF V
    <3>1. QED
      BY <1>3, <2>4
  <2>5. QED
    BY <2>3, <2>4 DEF Ranked
<1>5. PICK g \in [D -> V] : \A d \in D : g[d] = step[d][g]
  <2>1. V # {}
    OBVIOUS
  <2>2. PICK DD, W, ss : DD = D /\ W = V /\ ss = step
    OBVIOUS
  <2>3. rank \in [DD -> 0..n] /\ W # {} /\ Ranked(DD, W, rank, ss)
    BY <1>2, <1>4, <2>1, <2>2
  <2>4. \E g \in [DD -> W] : \A d \in DD : g[d] = ss[d][g]
    BY <2>3, RankedDescent
  <2> HIDE DEF D, V, step
  <2>5. QED
    BY <2>2, <2>4
<1>6. Spelling(g)
  <2> HIDE DEF V
  <2>1. QED
    BY <1>5 DEF Spelling
<1>7. Spelling(spelt)
  BY <1>6
<1>8. \A t : Spelt(t) = IF t.spelt # NoName THEN t.spelt ELSE spelt[t.type]
  BY DEF Spelt, Spelling
<1>9. QED
  <2> HIDE DEF spelt
  <2>1. QED
    BY <1>7, <1>8

(* What a type stands for is what it is spelt as, or no parameter.         *)
StoodFor(t, spelt, x) ==
  /\ spelt \in {NoName} \union Range(templates[t].names)
  /\ IF spelt # NoName THEN Spells(t, spelt, x) ELSE defs[x].kind \notin {"type", "value"}

LEMMA ChainsWritten ==
  ASSUME Sound, Typed, Written, NEW b \in DOMAIN templates,
         NEW t, t.type \in DOMAIN defs, TypeWritten(b, t.type, t.spelt)
  PROVE  StoodFor(b, Spelt(t), Unrolled(t.type))
<1>1. PICK f : Unrolls(f) /\ \A x : Unrolled(x) = f[x]
  BY UnrollsAre DEF Sound, Typed
<1>2. PICK h : Spelling(h) /\ \A x : Spelt(x) = IF x.spelt # NoName THEN x.spelt ELSE h[x.type]
  BY SpeltsAre DEF Sound, Typed
<1>3. PICK n \in Nat : \E rank \in [DOMAIN defs -> 0..n] : Chained(rank)
  BY DEF Typed, ChainsEnd
<1>4. PICK rank \in [DOMAIN defs -> 0..n] : Chained(rank)
  BY <1>3
<1>5. \A d \in DOMAIN defs :
        defs[d].kind = "typed" => defs[d].type \in DOMAIN defs /\ rank[defs[d].type] < rank[d]
  <2>1. Len(defs) \in Nat /\ DOMAIN defs = 1..Len(defs)
    BY SequenceIs DEF Sound, DefsSound
  <2>2. \A d \in DOMAIN defs :
          defs[d].kind = "typed" => defs[d].type \in 0..Len(defs) /\ defs[d].type # 0
    BY DEF Typed, DefsTyped, Refers
  <2>3. \A k \in 0..Len(defs) : k # 0 => k \in 1..Len(defs)
    BY <2>1
  <2>4. QED
    BY <1>4, <2>1, <2>2, <2>3 DEF Chained
<1>6. \A d \in DOMAIN defs :
        /\ f[d] = IF defs[d].kind = "typed" THEN f[defs[d].type] ELSE d
        /\ h[d] = IF defs[d].kind # "typed" THEN NoName
                  ELSE IF defs[d].spelt # NoName THEN defs[d].spelt ELSE h[defs[d].type]
  BY <1>1, <1>2 DEF Unrolls, Spelling
<1>7. /\ \A name, x : Spells(b, name, x) => x \in DOMAIN defs /\ defs[x].kind = "type"
      /\ \A name, x : Spells(b, name, x) => name \in Range(templates[b].names)
  <2>1. TemplateTyped(b) /\ ParamsWritten(b)
    BY DEF Typed, TemplatesTyped, Written, TemplateWritten
  <2>2. \A i \in 1..Arity(b) : templates[b].params[i] \in DOMAIN defs
    BY <2>1 DEF TemplateTyped, Arity, Range
  <2>3. \A i \in 1..Arity(b) : i \in DOMAIN templates[b].names
    BY <2>1 DEF ParamsWritten
  <2>4. QED
    BY <2>2, <2>3 DEF Spells, KindOf, Range
<1>8. \A d \in Whole(b) : MemberWritten(b, d)
  BY DEF Written, TemplateWritten
<1> DEFINE S == {d \in DOMAIN defs : /\ defs[d].kind \notin {"type", "value"}
                                     /\ defs[d].kind = "typed" => d \in Whole(b)}
           bad == {d \in S : ~StoodFor(b, h[d], f[d])}
           ranks == {rank[d] : d \in bad}
<1>9. bad = {}
  <2>1. SUFFICES ASSUME bad # {}
                 PROVE  FALSE
    OBVIOUS
  <2>2. ranks \subseteq Nat /\ ranks # {}
    BY <1>4, <2>1
  <2>3. \E m \in ranks : \A r \in ranks : m <= r
    <3> HIDE DEF ranks
    <3>1. QED
      BY <2>2, Least
  <2>4. PICK d \in bad : \A e \in bad : rank[d] <= rank[e]
    BY <2>3
  <2>5. ASSUME NEW e \in S, rank[e] < rank[d]
        PROVE  StoodFor(b, h[e], f[e])
    <3>1. rank[e] \in Nat /\ rank[d] \in Nat
      BY <1>4, <2>4, <2>5
    <3>2. e \notin bad
      BY <2>4, <2>5, <3>1
    <3>3. QED
      BY <2>5, <3>2
  <2>6. CASE defs[d].kind # "typed"
    <3>1. h[d] = NoName /\ f[d] = d /\ defs[d].kind \notin {"type", "value"}
      BY <1>6, <2>4, <2>6
    <3>2. QED
      BY <2>4, <3>1 DEF StoodFor
  <2>7. CASE defs[d].kind = "typed" /\ defs[d].spelt # NoName
    <3>1. Spells(b, defs[d].spelt, defs[d].type)
      BY <1>8, <2>4, <2>7 DEF MemberWritten
    <3>2. PICK x, name : x = defs[d].type /\ name = defs[d].spelt
      OBVIOUS
    <3>3. x \in DOMAIN defs /\ defs[x].kind = "type" /\ name \in Range(templates[b].names)
          /\ Spells(b, name, x)
      BY <1>7, <3>1, <3>2
    <3>4. h[d] = name /\ f[d] = x
      BY <1>6, <2>4, <2>7, <3>2, <3>3
    <3>5. QED
      BY <2>4, <2>7, <3>2, <3>3, <3>4 DEF StoodFor
  <2>8. CASE defs[d].kind = "typed" /\ defs[d].spelt = NoName
    <3>1. PICK x : x = defs[d].type
      OBVIOUS
    <3>2. x \in DOMAIN defs /\ rank[x] < rank[d]
      BY <1>5, <2>4, <2>8, <3>1
    <3>3. defs[x].kind \notin {"type", "value"} /\ (defs[x].kind = "typed" => x \in Whole(b))
      BY <1>8, <2>4, <2>8, <3>1 DEF MemberWritten
    <3>4. StoodFor(b, h[x], f[x])
      BY <2>5, <3>2, <3>3
    <3>5. h[d] = h[x] /\ f[d] = f[x]
      BY <1>6, <2>4, <2>8, <3>1
    <3>6. QED
      BY <2>4, <3>4, <3>5
  <2>9. QED
    BY <2>6, <2>7, <2>8
<1>10. CASE t.spelt # NoName
  <2>1. Spells(b, t.spelt, t.type)
    BY <1>10 DEF TypeWritten
  <2>2. PICK x, name : x = t.type /\ name = t.spelt
    OBVIOUS
  <2>3. /\ x \in DOMAIN defs /\ defs[x].kind = "type" /\ name \in Range(templates[b].names)
        /\ Spells(b, name, x) /\ name # NoName
    BY <1>7, <1>10, <2>1, <2>2
  <2>4. Spelt(t) = name /\ Unrolled(t.type) = x
    BY <1>1, <1>2, <1>6, <1>10, <2>2, <2>3
  <2>5. QED
    BY <2>3, <2>4 DEF StoodFor
<1>11. CASE t.spelt = NoName
  <2>1. PICK x : x = t.type
    OBVIOUS
  <2>2. x \in S
    BY <1>11, <2>1 DEF TypeWritten
  <2>3. StoodFor(b, h[x], f[x])
    BY <1>9, <2>2
  <2>4. Spelt(t) = h[x] /\ Unrolled(t.type) = f[x]
    BY <1>1, <1>2, <1>11, <2>1
  <2>5. QED
    BY <2>3, <2>4
<1>12. QED
  BY <1>10, <1>11

LEMMA InheritWritten ==
  ASSUME Sound, Sound', Typed, Written, NEW t \in Types, Inherit(t)
  PROVE  Written'
<1>1. PICK b, s, base, spelt, was, now :
        /\ b = open.temp /\ s = scope /\ base = Unrolled(t.type) /\ spelt = Spelt(t)
        /\ was = defs[s] /\ now = [was EXCEPT !.base = base, !.spelt = spelt]
  OBVIOUS
<1>2. /\ b # 0 /\ UNCHANGED <<templates, frames, open>>
      /\ was.base = 0 /\ was.order = << >> /\ defs[base].kind \in {"class", "type"}
      /\ defs' = [defs EXCEPT ![s].base = base, ![s].spelt = spelt]
  BY <1>1 DEF Inherit, ReadingBody, Stay
<1>3. /\ b \in DOMAIN templates /\ s \in Whole(b) /\ s \in DOMAIN defs /\ defs[s].kind = "class"
      /\ \A y \in Range(open.scopes) : y \in Whole(b) /\ defs[y].kind = "class"
      /\ Whole(b) \subseteq DOMAIN defs
  BY <1>1, <1>2, OpenIs
<1>4. /\ now.order = was.order /\ now.general = was.general
      /\ now.kind = was.kind /\ now.parent = was.parent /\ now.type = was.type
      /\ now.base = base /\ now.spelt = spelt /\ now.expr = was.expr
  <2>1. DOMAIN was = DefinitionFields
    BY <1>1, <1>3 DEF Sound, DefsSound
  <2>2. QED
    BY <1>1, <2>1 DEF DefinitionFields
<1>5. /\ DOMAIN defs' = DOMAIN defs /\ defs'[s] = now
      /\ \A d \in DOMAIN defs : d # s => defs'[d] = defs[d]
  BY <1>1, <1>2, <1>3
<1>6. KindsKept /\ \A d \in DOMAIN defs : defs'[d].order = defs[d].order
  BY <1>1, <1>4, <1>5 DEF KindsKept
<1>7. Whole(b)' = Whole(b)
  BY <1>2, <1>3, <1>6, WholeSame DEF Sound, KindsKept
<1>8. /\ TemplateTyped(b) /\ TemplateWritten(b) /\ NamesKept(b)
  BY <1>2, <1>3 DEF Typed, TemplatesTyped, Written, NamesKept
<1>9. StoodFor(b, spelt, base) /\ base \in DOMAIN defs
  <2>1. t.type \in DOMAIN defs /\ TypeWritten(b, t.type, t.spelt)
    BY <1>1, <1>2, TypesWritten
  <2>2. Untyped(base)
    BY <1>1, <2>1, UnrolledIs DEF Sound, Typed
  <2>3. StoodFor(b, spelt, base)
    BY <1>1, <1>3, <2>1, ChainsWritten
  <2>4. QED
    BY <2>2, <2>3 DEF Untyped
<1>10. MemberWritten(b, s)'
  <2>1. MemberWritten(b, s)
    BY <1>3, <1>8 DEF TemplateWritten
  <2>2. Spells(b, spelt, base) => Spells(b, spelt, base)'
    BY <1>6, <1>8, SpellsKept
  <2>3. spelt \in {NoName} \union Range(templates[b].names)
        /\ IF spelt # NoName THEN Spells(b, spelt, base)' ELSE defs'[base].kind = "class"
    BY <1>2, <1>6, <1>9, <2>2 DEF StoodFor, KindsKept
  <2>4. defs'[s] = now /\ now.kind = "class" /\ was = defs[s] /\ templates' = templates
    BY <1>1, <1>2, <1>3, <1>4, <1>5
  <2>5. QED
    BY <1>4, <1>7, <2>1, <2>3, <2>4 DEF MemberWritten
<1>11. PICK N : N = {}
  OBVIOUS
<1>12. \A d \in N \union {s} : MemberWritten(b, d)'
  BY <1>10, <1>11
<1>13. Whole(open.temp)' = Whole(open.temp) \union N /\ N \intersect DOMAIN defs = {}
  BY <1>1, <1>2, <1>7, <1>11
<1>14. \A y \in Range(open'.scopes) : y \in Whole(open.temp)' /\ defs'[y].kind = "class"
  BY <1>1, <1>2, <1>3, <1>6, <1>7 DEF KindsKept
<1>15. /\ defs'[scope].type = defs[scope].type /\ defs'[scope].expr = defs[scope].expr
       /\ \A d \in DOMAIN defs : d # scope => defs'[d] = defs[d]
       /\ open.temp # 0 /\ open'.temp = open.temp
       /\ \A d \in DOMAIN defs' \ DOMAIN defs : ExprWritten(defs[d].expr)'
       /\ \A d \in N \union {scope} : MemberWritten(b, d)'
  BY ZenonT(30), <1>1, <1>2, <1>4, <1>5, <1>12
<1>16. QED
  BY <1>1, <1>2, <1>6, <1>13, <1>14, <1>15, BodyWritten

LEMMA MemberDeclarationWritten ==
  ASSUME Sound, Sound', Typed, Written, MemberDeclaration
  PROVE  Written'
<1>1. \/ \E t \in Types : Member(t)
      \/ \E t \in Types : Inherit(t)
      \/ \E e \in Expressions : Enumeration(e)
      \/ \E x \in TypeNames, u \in DOMAIN templates : DependentMember(x, u)
      \/ OpenClass
      \/ CloseScope
  BY DEF MemberDeclaration
<1>2. QED
  BY <1>1, MemberWrittenKept, InheritWritten, EnumerationWritten, DependentMemberWritten,
     OpenClassWritten, CloseScopeWritten

-----------------------------------------------------------------------------
(* The step that copies a body.                                            *)
Duplicated(copies, key, D, m, n) ==
  /\ D \in Nat /\ m \in Nat /\ n \in Nat
  /\ DOMAIN defs = 1..D /\ DOMAIN defs' = 1..D + (m + n)
  /\ \A d \in DOMAIN defs : defs'[d] = defs[d]
  /\ \A d \in DOMAIN copies :
       /\ copies[d] \in D + 1..D + m /\ copies[d] \in DOMAIN defs' \ DOMAIN defs
       /\ d \in DOMAIN defs
       /\ LET g == defs'[copies[d]] IN
          /\ g.kind = defs[d].kind /\ SameAs(g, defs[d])
          /\ g.order = [k \in DOMAIN defs[d].order |-> copies[defs[d].order[k]]]
  /\ \A i \in 1..n : D + (m + i) \in DOMAIN defs' /\ defs'[D + (m + i)] = MadeOf(key[i])
  /\ \A d \in DOMAIN defs' \ DOMAIN defs :
       \/ \E o \in DOMAIN defs : defs'[d].expr = defs[o].expr
       \/ defs'[d].expr.op = "none"

LEMMA DuplicatedAre ==
  ASSUME Sound, Typed, NEW u, NEW body, NEW originals, NEW copies, NEW made, NEW dups, NEW mades,
         NEW new, NEW D, NEW m, NEW n,
         Duplicating(u, body, originals, copies, made, dups, mades, new, D, m, n)
  PROVE  Duplicated(copies, frame.key, D, m, n)
<1>1. /\ D \in Nat /\ m \in Nat /\ n \in Nat /\ D = Len(defs) /\ DOMAIN defs = 1..D
      /\ DOMAIN originals = 1..m /\ \A i \in 1..m : originals[i] \in DOMAIN defs
  BY Zenon DEF Duplicating
<1>2. DOMAIN copies = Range(originals)
  BY Zenon DEF Duplicating
<1>3. \A d \in Range(originals) :
        /\ copies[d] \in D + 1..D + m /\ copies[d] - D \in 1..m
        /\ originals[copies[d] - D] = d
  BY Zenon DEF Duplicating
<1>4. \A i \in 1..m :
       /\ dups[i] = [defs[originals[i]] EXCEPT !.order =
                       [k \in DOMAIN defs[originals[i]].order |->
                          copies[defs[originals[i]].order[k]]]]
       /\ dups[i].order = [k \in DOMAIN defs[originals[i]].order |->
                             copies[defs[originals[i]].order[k]]]
  BY Zenon DEF Duplicating
<1>5. \A i \in 1..n : mades[i] = MadeOf(frame.key[i])
  BY Zenon DEF Duplicating
<1>6. /\ Sequence(new) /\ Len(new) = m + n /\ DOMAIN new = 1..m + n
      /\ \A i \in 1..m : new[i] = dups[i]
      /\ \A i \in m + 1..m + n : new[i] = mades[i - m]
      /\ defs' = defs \o new /\ DOMAIN defs' = 1..D + (m + n)
  BY Zenon DEF Duplicating
<1>7. /\ \A d \in DOMAIN defs : defs'[d] = defs[d]
      /\ \A i \in 1..m + n : D + i \in DOMAIN defs' /\ defs'[D + i] = new[i]
  <2>1. Sequence(defs)
    BY DEF Sound, DefsSound
  <2>2. PICK N : N = m + n
    OBVIOUS
  <2>3. N = Len(new) /\ D = Len(defs) /\ Sequence(new) /\ defs' = defs \o new /\ DefsSound
    BY <1>1, <1>6, <2>2 DEF Sound
  <2>4. GrownBy(defs, new, D, N)
    BY <2>1, <2>3, DefsAre
  <2>5. QED
    BY <1>1, <2>2, <2>4 DEF GrownBy
<1>8. ASSUME NEW i \in 1..m
      PROVE  LET g == defs'[D + i]
                 was == defs[originals[i]] IN
             /\ g.kind = was.kind /\ SameAs(g, was) /\ g.expr = was.expr
             /\ g.order = [k \in DOMAIN was.order |-> copies[was.order[k]]]
  <2>1. PICK o, was, order : /\ o = originals[i] /\ was = defs[o]
                             /\ order = [k \in DOMAIN was.order |-> copies[was.order[k]]]
    OBVIOUS
  <2>2. o \in DOMAIN defs /\ i \in 1..m + n
    BY <1>1, <1>8, <2>1
  <2>3. DOMAIN was = DefinitionFields
    BY <2>1, <2>2 DEF Sound, DefsSound
  <2>4. new[i] = [was EXCEPT !.order = order]
    BY <1>4, <1>6, <1>8, <2>1
  <2>5. defs'[D + i] = new[i]
    BY <1>7, <2>2
  <2>6. QED
    BY <2>1, <2>3, <2>4, <2>5 DEF SameAs, DefinitionFields
<1>9. ASSUME NEW d \in DOMAIN copies
      PROVE  /\ copies[d] \in D + 1..D + m /\ copies[d] \in DOMAIN defs' \ DOMAIN defs
             /\ d \in DOMAIN defs
             /\ LET g == defs'[copies[d]] IN
                /\ g.kind = defs[d].kind /\ SameAs(g, defs[d])
                /\ g.order = [k \in DOMAIN defs[d].order |-> copies[defs[d].order[k]]]
  <2>1. PICK i : i = copies[d] - D
    OBVIOUS
  <2>2. i \in 1..m /\ originals[i] = d /\ copies[d] \in D + 1..D + m
    BY <1>2, <1>3, <1>9, <2>1
  <2>3. copies[d] = D + i
    BY <1>1, <2>1, <2>2
  <2>4. D + i \in 1..D + (m + n) /\ D + i \notin 1..D
    BY <1>1, <2>2
  <2>5. D + i \in DOMAIN defs' \ DOMAIN defs /\ d \in DOMAIN defs
    BY <1>1, <1>6, <2>2, <2>4
  <2>6. QED
    BY <1>8, <2>2, <2>3, <2>5
<1>10. ASSUME NEW i \in 1..n
       PROVE  D + (m + i) \in DOMAIN defs' /\ defs'[D + (m + i)] = MadeOf(frame.key[i])
  <2>1. PICK k : k = m + i
    OBVIOUS
  <2>2. k \in 1..m + n /\ k \in m + 1..m + n /\ k - m = i
    BY <1>1, <1>10, <2>1
  <2>3. D + k \in DOMAIN defs' /\ defs'[D + k] = mades[i]
    BY <1>6, <1>7, <2>2
  <2>4. QED
    BY <1>5, <2>1, <2>3
<1>11. ASSUME NEW d \in DOMAIN defs' \ DOMAIN defs
       PROVE  \/ \E o \in DOMAIN defs : defs'[d].expr = defs[o].expr
              \/ defs'[d].expr.op = "none"
  <2>1. \E i \in 1..m + n : d = D + i
    <3>1. d \in D + 1..D + (m + n)
      BY <1>1, <1>6, <1>11
    <3>2. d - D \in 1..m + n /\ d = D + (d - D)
      BY <1>1, <3>1
    <3>3. QED
      BY <3>2
  <2>2. PICK i \in 1..m + n : d = D + i
    BY <2>1
  <2>3. CASE i <= m
    <3>1. i \in 1..m /\ originals[i] \in DOMAIN defs
      BY <1>1, <2>2, <2>3
    <3>2. defs'[d].expr = defs[originals[i]].expr
      BY <1>8, <2>2, <3>1
    <3>3. QED
      BY <3>1, <3>2
  <2>4. CASE i > m
    <3>1. PICK k : k = i - m
      OBVIOUS
    <3>2. k \in 1..n /\ d = D + (m + k)
      BY <1>1, <2>2, <2>4, <3>1
    <3>3. defs'[d] = MadeOf(frame.key[k])
      BY <1>10, <3>2
    <3>4. QED
      BY <3>3 DEF MadeOf, Definition, NoExpression, Expression
  <2>5. QED
    BY <1>1, <2>2, <2>3, <2>4
<1>12. PICK key : key = frame.key
  OBVIOUS
<1>13. Duplicated(copies, key, D, m, n)
  BY <1>1, <1>6, <1>7, <1>9, <1>10, <1>11, <1>12, Zenon DEF Duplicated
<1>14. QED
  BY <1>12, <1>13

(* The calls after the step: the last one has the copies to remap.         *)
CopyingCalls(L, f, u, copies, map, body, D, m) ==
  /\ L \in Nat \ {0} /\ L = Len(frames) /\ DOMAIN frames = 1..L /\ frame = frames[L]
  /\ L = Len(frames') /\ DOMAIN frames' = 1..L
  /\ \A j \in 1..L : frames'[j] = IF j = L THEN f ELSE frames[j]
  /\ f.temp = u /\ frame.temp = u /\ f.key = frame.key /\ f.to = frame.to /\ f.at = "remap"
  /\ f.def = copies[body] /\ f.copies = map /\ Range(f.todo) = D + 1..D + m

LEMMA CopyingCallsAre ==
  ASSUME Sound, Typed, NEW u, NEW body, NEW originals, NEW copies, NEW made, NEW dups, NEW mades,
         NEW new, NEW D, NEW m, NEW n,
         Duplicating(u, body, originals, copies, made, dups, mades, new, D, m, n)
  PROVE  \E f : CopyingCalls(Len(frames), f, u, copies, Both(copies, made), body, D, m)
<1>0. PICK L, todo, map, def :
        /\ L = Len(frames) /\ todo = [i \in DOMAIN originals |-> D + i]
        /\ map = Both(copies, made) /\ def = copies[body]
  OBVIOUS
<1>1. PICK f :
        /\ L = Len(frames) /\ todo = [i \in DOMAIN originals |-> D + i]
        /\ map = Both(copies, made) /\ def = copies[body]
        /\ f = [frame EXCEPT !.at = "remap", !.def = def, !.copies = map, !.todo = todo]
  BY <1>0
<1>2. /\ frames # << >> /\ u = frame.temp /\ DOMAIN frame = FrameFields
      /\ DOMAIN originals = 1..m /\ m \in Nat /\ D \in Nat
  BY Zenon DEF Duplicating
<1>3. frames' = Append(Caller, f)
  <2>1. frames' = Append(Caller, [frame EXCEPT !.at = "remap", !.def = copies[body],
                                   !.copies = Both(copies, made),
                                   !.todo = [i \in DOMAIN originals |-> D + i]])
    BY Zenon DEF Duplicating
  <2>2. QED
    BY Zenon, <1>1, <2>1
<1>4. /\ DOMAIN frames' = DOMAIN frames
      /\ \A j \in DOMAIN frames : frames'[j] = IF j = L THEN f ELSE frames[j]
  BY <1>1, <1>2, <1>3, TopReplaced DEF Sound
<1>5. L \in Nat \ {0} /\ DOMAIN frames = 1..L /\ frame = frames[L]
  BY <1>1, <1>2, TopIs, SequenceIs DEF Sound, FramesSound
<1>6. Len(frames') = L
  <2>1. Sequence(Caller) /\ Len(Caller) = L - 1
    BY <1>1, <1>2, TopIs DEF Sound
  <2>2. PICK s : s = Caller
    OBVIOUS
  <2>3. Len(Append(s, f)) = Len(s) + 1
    BY <2>1, <2>2, Appended
  <2>4. QED
    BY <1>3, <1>5, <2>1, <2>2, <2>3
<1>7. /\ f.temp = u /\ f.key = frame.key /\ f.to = frame.to /\ f.at = "remap"
      /\ f.def = def /\ f.copies = map /\ f.todo = todo
  BY <1>1, <1>2 DEF FrameFields
<1>8. Range(todo) = D + 1..D + m
  <2>1. \A c \in D + 1..D + m : c - D \in 1..m /\ D + (c - D) = c
    BY <1>2
  <2>2. \A i \in 1..m : D + i \in D + 1..D + m
    BY <1>2
  <2>3. todo = [i \in 1..m |-> D + i]
    BY <1>1, <1>2
  <2>4. QED
    BY <2>1, <2>2, <2>3 DEF Range
<1>9. CopyingCalls(L, f, u, copies, map, body, D, m)
  BY <1>1, <1>2, <1>4, <1>5, <1>6, <1>7, <1>8 DEF CopyingCalls
<1>10. QED
  BY <1>1, <1>9

(* The templates after the step: one has an instance more.                 *)
CopiedTemplates(u, instance) ==
  /\ DOMAIN templates' = DOMAIN templates
  /\ \A t \in DOMAIN templates :
       /\ NamesKept(t) /\ templates'[t].unread = templates[t].unread
       /\ templates'[t].general = templates[t].general
       /\ templates'[t].defaults = templates[t].defaults
       /\ templates'[t].specializations = templates[t].specializations
       /\ templates'[t].of = templates[t].of
       /\ \A i \in DOMAIN Instances(t)' :
            \/ i \in DOMAIN Instances(t) /\ templates'[t].instantiations[i] = Instances(t)[i]
            \/ t = u /\ templates'[t].instantiations[i] = instance

LEMMA CopiedTemplatesAre ==
  ASSUME TemplatesSound, NEW u \in DOMAIN templates, NEW instance,
         templates' = [templates EXCEPT ![u].instantiations = Append(@, instance)]
  PROVE  CopiedTemplates(u, instance)
<1>1. PICK g, was, r : /\ g = templates[u] /\ was = g.instantiations
                       /\ r = [g EXCEPT !.instantiations = Append(was, instance)]
  OBVIOUS
<1>2. DOMAIN g = TemplateFields /\ Sequence(was)
  BY <1>1 DEF TemplatesSound, TemplateSound, InstancesSound, Instances
<1>3. templates' = [templates EXCEPT ![u] = r]
  BY <1>1
<1>4. /\ DOMAIN templates' = DOMAIN templates
      /\ \A t \in DOMAIN templates : templates'[t] = IF t = u THEN r ELSE templates[t]
  BY <1>3
<1>5. /\ r.params = g.params /\ r.names = g.names /\ r.def = g.def /\ r.unread = g.unread
      /\ r.general = g.general /\ r.defaults = g.defaults /\ r.of = g.of
      /\ r.specializations = g.specializations
      /\ r.instantiations = Append(was, instance)
  BY <1>1, <1>2 DEF TemplateFields
<1>6. \A i \in DOMAIN r.instantiations :
        \/ i \in DOMAIN was /\ r.instantiations[i] = was[i]
        \/ r.instantiations[i] = instance
  <2>1. /\ DOMAIN r.instantiations = 1..Len(was) + 1 /\ DOMAIN was = 1..Len(was)
        /\ Len(was) \in Nat
        /\ \A i \in 1..Len(was) : r.instantiations[i] = was[i]
        /\ r.instantiations[Len(was) + 1] = instance
    BY <1>2, <1>5, Appended, SequenceIs
  <2>2. QED
    BY <2>1
<1>7. ASSUME NEW t \in DOMAIN templates
      PROVE  /\ NamesKept(t) /\ templates'[t].unread = templates[t].unread
             /\ templates'[t].general = templates[t].general
             /\ templates'[t].defaults = templates[t].defaults
             /\ templates'[t].specializations = templates[t].specializations
             /\ templates'[t].of = templates[t].of
             /\ \A i \in DOMAIN Instances(t)' :
                  \/ i \in DOMAIN Instances(t) /\ templates'[t].instantiations[i] = Instances(t)[i]
                  \/ t = u /\ templates'[t].instantiations[i] = instance
  BY <1>1, <1>4, <1>5, <1>6 DEF NamesKept, Instances
<1>8. QED
  BY <1>4, <1>7 DEF CopiedTemplates

(* What the call maps for the instance that it makes.                      *)
LEMMA MapsNew ==
  ASSUME NEW u, TemplateTyped(u), TemplateWritten(u), NamesKept(u),
         NEW key, KeyFits(u, key), NEW copies, DOMAIN copies = Whole(u),
         NEW D, NEW m, NEW n, n = Arity(u), Duplicated(copies, key, D, m, n),
         NEW made, made = [p \in Range(templates[u].params) |->
           D + m + CHOOSE i \in DOMAIN templates[u].params : templates[u].params[i] = p],
         \A i \in 1..n : D + (m + i) \notin Awaited',
         NEW instance, instance.key = key, instance.copies = copies,
         NEW map, map = Both(copies, made)
  PROVE  Maps(u, instance, map)'
<1>1. PICK params : params = templates[u].params
  OBVIOUS
<1>2. DOMAIN params = 1..n /\ Arity(u)' = n /\ templates'[u].params = params
  BY <1>1, SequenceIs, ArityKept DEF TemplateTyped, Arity, NamesKept
<1>3. D \in Nat /\ m \in Nat /\ n \in Nat
  BY DEF Duplicated
<1>4. /\ \A i \in 1..n : KindOf(u, i) \in {"type", "value"}
      /\ \A i, j \in 1..n : params[i] = params[j] => i = j
  BY <1>1 DEF TemplateWritten, ParamsWritten
<1>5. ASSUME NEW i \in 1..n
      PROVE  params[i] \notin DOMAIN copies /\ made[params[i]] = D + (m + i)
  <2>1. PICK p : p = params[i]
    OBVIOUS
  <2>2. p \notin DOMAIN copies
    <3>1. \A d \in Whole(u) : defs[d].kind \notin {"type", "value"}
      BY DEF TemplateWritten, MemberWritten
    <3>2. defs[p].kind \in {"type", "value"}
      BY <1>1, <1>4, <2>1 DEF KindOf
    <3>3. QED
      BY <3>1, <3>2
  <2>3. p \in Range(params)
    BY <1>2, <2>1 DEF Range
  <2>4. (CHOOSE k \in DOMAIN params : params[k] = p) = i
    BY <1>2, <1>4, <2>1
  <2>5. made[p] = D + m + CHOOSE k \in DOMAIN params : params[k] = p
    BY <1>1, <2>3
  <2>6. made[p] = D + m + i
    BY <2>4, <2>5
  <2>7. QED
    BY <1>3, <2>1, <2>2, <2>6
<1>6. /\ DOMAIN map = DOMAIN copies \union Range(params)
      /\ \A x \in DOMAIN map : map[x] = IF x \in DOMAIN copies THEN copies[x] ELSE made[x]
  BY <1>1 DEF Both
<1>7. ASSUME NEW i \in 1..n, key[i].kind = "type"
      PROVE  Stands(map[params[i]], key[i].of)'
  <2>1. PICK c : c = D + (m + i)
    OBVIOUS
  <2>2. params[i] \in DOMAIN map /\ map[params[i]] = c
    <3>1. PICK p : p = params[i]
      OBVIOUS
    <3>2. p \in Range(params)
      BY <1>2, <3>1 DEF Range
    <3>3. p \notin DOMAIN copies /\ made[p] = c
      BY <1>5, <2>1, <3>1
    <3>4. QED
      BY <1>6, <3>1, <3>2, <3>3
  <2>3. c \in DOMAIN defs' /\ defs'[c] = MadeOf(key[i]) /\ c \notin Awaited'
    BY <2>1 DEF Duplicated
  <2>4. defs'[c].kind = "typed" /\ defs'[c].type = key[i].of
    BY <1>7, <2>3 DEF MadeOf, Definition
  <2>5. Stands(c, key[i].of)'
    BY <2>3, <2>4 DEF Stands
  <2>6. QED
    BY <2>2, <2>5
<1>8. \A x \in DOMAIN copies : map[x] = copies[x]
  BY <1>6
<1>9. QED
  BY <1>2, <1>6, <1>7, <1>8 DEF Maps

LEMMA NewInstanceWritten ==
  ASSUME KindsKept, NEW u, TemplateTyped(u), TemplateWritten(u), NamesKept(u),
         Whole(u)' = Whole(u), Bodies' \subseteq DOMAIN defs, Whole(u) \subseteq DOMAIN defs,
         NEW key, KeyFits(u, key), KeyTyped(key), NEW copies, DOMAIN copies = Whole(u),
         NEW D, NEW m, NEW n, Duplicated(copies, key, D, m, n),
         NEW instance, instance.key = key, instance.copies = copies,
         NEW map, Maps(u, instance, map)',
         D + 1..D + m \subseteq Awaited',
         \A j \in DOMAIN frames' : \A c \in Range(frames'[j].todo) :
           c \notin DOMAIN defs => frames'[j].def = instance.def /\ frames'[j].copies = map
  PROVE  InstanceWritten(u, instance)'
<1>1. KeyFits(u, key)' /\ KeyTyped(key)'
  BY KeyFitsKept, UntypedKept
<1>2. ASSUME NEW d \in Whole(u)
      PROVE  CopyWritten(u, instance, d)'
  <2>1. PICK c : c = copies[d]
    OBVIOUS
  <2>2. /\ c \in D + 1..D + m /\ c \in DOMAIN defs' \ DOMAIN defs
        /\ defs'[d] = defs[d]
        /\ defs'[c].kind = defs[d].kind /\ SameAs(defs'[c], defs[d])
        /\ defs'[c].order = [k \in DOMAIN defs[d].order |-> copies[defs[d].order[k]]]
    BY <1>2, <2>1 DEF Duplicated
  <2>3. c \in Awaited' /\ c \notin Bodies'
    BY <2>2
  <2>4. ASSUME NEW j \in DOMAIN frames', c \in Range(frames'[j].todo)
        PROVE  /\ frames'[j].def = instance.def /\ Maps(u, instance, frames[j].copies)'
    BY <2>2, <2>4
  <2>5. QED
    BY <2>1, <2>2, <2>3, <2>4 DEF CopyWritten
<1>3. QED
  BY <1>1, <1>2 DEF InstanceWritten

LEMMA DuplicateWritten ==
  ASSUME Sound, Sound', Typed, Written, Duplicate
  PROVE  Written'
<1>1. PICK u, body, originals, copies, made, dups, mades, new, D, m, n :
        Duplicating(u, body, originals, copies, made, dups, mades, new, D, m, n)
  BY DuplicateIs
<1>2. PICK key, map, instance, L :
        /\ key = frame.key /\ map = Both(copies, made) /\ L = Len(frames)
        /\ instance = [key |-> key, def |-> copies[body], copies |-> copies]
  OBVIOUS
<1>3. Duplicated(copies, key, D, m, n)
  BY <1>1, <1>2, DuplicatedAre
<1>4. PICK f : CopyingCalls(L, f, u, copies, map, body, D, m)
  BY <1>1, <1>2, CopyingCallsAre
<1>5. /\ frames # << >> /\ u \in DOMAIN templates /\ n = Arity(u)
      /\ body = templates[u].def /\ body \in DOMAIN defs
      /\ originals = PostOrder(body) /\ DOMAIN copies = Range(originals)
      /\ UNCHANGED open
  BY <1>1, Zenon DEF Duplicating
<1>6. CopiedTemplates(u, instance)
  <2>1. templates' = [templates EXCEPT ![u].instantiations =
           Append(@, [key |-> frame.key, def |-> copies[body], copies |-> copies])]
    BY <1>1, Zenon DEF Duplicating
  <2>2. templates' = [templates EXCEPT ![u].instantiations = Append(@, instance)]
    BY <1>2, <2>1, Zenon
  <2>3. QED
    BY <1>5, <2>2, CopiedTemplatesAre DEF Sound
<1>7. /\ DefsSound /\ DefsSound' /\ TemplatesSound /\ DefsTyped /\ frame.todo = << >>
      /\ FrameTyped(frame) /\ FrameWritten(L) /\ frame = frames[L] /\ frame.temp = u
  <2>1. L \in DOMAIN frames /\ frame = frames[L] /\ frame.at = "enter" /\ frame.temp = u
    <3>1. L \in DOMAIN frames /\ frame = frames[L] /\ frame.temp = u
      BY <1>4 DEF CopyingCalls
    <3>2. frame.at = "enter"
      BY Zenon DEF Duplicate, Entering
    <3>3. QED
      BY <3>1, <3>2
  <2>2. FrameWritten(L)
    BY <2>1 DEF Written
  <2>3. QED
    BY <1>5, <2>1, <2>2, TopTyped DEF FrameWritten, Sound, Typed
<1>8. /\ D \in Nat /\ m \in Nat /\ n \in Nat
      /\ DOMAIN defs = 1..D /\ DOMAIN defs' = 1..D + (m + n)
      /\ \A d \in DOMAIN defs : d \in DOMAIN defs' /\ defs'[d] = defs[d]
  BY <1>3 DEF Duplicated
<1>9. KindsKept /\ \A d \in DOMAIN defs : Alike(defs[d], defs'[d])
  BY <1>8 DEF KindsKept, Alike
<1>10. DOMAIN copies = Whole(u) /\ copies = instance.copies /\ key = instance.key
       /\ instance.def = copies[body]
  <2>1. Range(PostOrder(body)) = Tree(body)
    BY <1>5, PostOrderSpans DEF Sound, DefsSound
  <2>2. QED
    BY <1>2, <1>5, <2>1 DEF Whole
<1>11. ASSUME NEW t \in DOMAIN templates
       PROVE  /\ Whole(t)' = Whole(t) /\ Whole(t) \subseteq DOMAIN defs /\ WholeKept(t)
              /\ TemplateTyped(t) /\ TemplateWritten(t)
  <2>1. Whole(t) \subseteq DOMAIN defs
    BY <1>7, WholesAre
  <2>2. NamesKept(t)
    BY <1>6 DEF CopiedTemplates
  <2>3. Whole(t)' = Whole(t)
    BY <1>7, <1>8, <2>1, <2>2, WholeSame DEF NamesKept
  <2>4. QED
    BY <1>9, <2>1, <2>2, <2>3 DEF WholeKept, Typed, TemplatesTyped, Written
<1>12. DOMAIN templates' = DOMAIN templates
       /\ \A t \in DOMAIN templates : /\ templates'[t].unread = templates[t].unread
                                      /\ templates'[t].params = templates[t].params
  BY <1>6 DEF CopiedTemplates, NamesKept
<1>13. Bodies' = Bodies /\ Bodies \subseteq DOMAIN defs
  BY <1>11, <1>12 DEF Bodies
<1>14. /\ L \in Nat \ {0} /\ L = Len(frames) /\ DOMAIN frames = 1..L
       /\ L = Len(frames') /\ DOMAIN frames' = 1..L
       /\ \A j \in 1..L : frames'[j] = IF j = L THEN f ELSE frames[j]
       /\ f.temp = u /\ frame.temp = u /\ f.key = key /\ f.to = frame.to /\ f.at = "remap"
       /\ f.def = copies[body] /\ f.copies = map /\ Range(f.todo) = D + 1..D + m
  BY <1>2, <1>4 DEF CopyingCalls
<1>15. \A j \in DOMAIN frames : Range(frames[j].todo) \subseteq DOMAIN defs
  BY DEF Sound, FramesSound, FrameSound
<1>16. Awaited' = Awaited \union (D + 1..D + m) /\ Awaited \subseteq DOMAIN defs
  <2>1. Range(frames[L].todo) = {}
    BY <1>7 DEF Range
  <2>2. \A j \in 1..L : Range(frames'[j].todo) =
                          IF j = L THEN D + 1..D + m ELSE Range(frames[j].todo)
    BY <1>14
  <2>3. L \in 1..L
    BY <1>14
  <2>4. Awaited = UNION {Range(frames[j].todo) : j \in 1..L}
        /\ Awaited' = UNION {Range(frames'[j].todo) : j \in 1..L}
    BY <1>14 DEF Awaited
  <2>5. Awaited \subseteq DOMAIN defs
    BY <1>15 DEF Awaited
  <2>6. PICK R, S : /\ R = [j \in 1..L |-> Range(frames[j].todo)]
                    /\ S = [j \in 1..L |-> Range(frames'[j].todo)]
    OBVIOUS
  <2>7. \A j \in 1..L : S[j] = IF j = L THEN D + 1..D + m ELSE R[j]
    BY <2>2, <2>6
  <2>8. R[L] = {} /\ \A c : /\ c \in Awaited <=> \E j \in 1..L : c \in R[j]
                            /\ c \in Awaited' <=> \E j \in 1..L : c \in S[j]
    BY <2>1, <2>3, <2>4, <2>6
  <2>9. \A c : c \in Awaited' <=> c \in Awaited \/ c \in D + 1..D + m
    <3>1. PICK N : N = D + 1..D + m
      OBVIOUS
    <3>2. \A j \in 1..L : S[j] = IF j = L THEN N ELSE R[j]
      BY <2>7, <3>1
    <3>3. \A c : c \in Awaited' <=> c \in Awaited \/ c \in N
      BY <2>3, <2>8, <3>2, Zenon
    <3>4. QED
      BY <3>1, <3>3
  <2>10. QED
    BY <2>5, <2>9
<1>17. SettledKept
  <2>1. \A x \in DOMAIN defs : x \notin D + 1..D + m
    BY <1>8
  <2>2. QED
    BY <1>8, <1>16, <2>1 DEF SettledKept
<1>18. \A c \in DOMAIN defs : CallsKeptFor(c)
  <2>1. TAKE c \in DOMAIN defs
  <2>2. ASSUME NEW j \in DOMAIN frames', c \in Range(frames'[j].todo)
        PROVE  j \in DOMAIN frames /\ j # L /\ frames'[j] = frames[j]
    <3>1. c \notin D + 1..D + m
      BY <1>8
    <3>2. j # L
      BY <1>14, <2>2, <3>1
    <3>3. QED
      BY <1>14, <2>2, <3>2
  <2>3. QED
    BY <2>2 DEF CallsKeptFor
<1>19. InstanceWritten(u, instance)'
  <2>1. KeyFits(u, key) /\ KeyTyped(key) /\ NamesKept(u)
    BY <1>2, <1>5, <1>6, <1>7 DEF FrameWritten, FrameTyped, CopiedTemplates
  <2>2. \A i \in 1..n : D + (m + i) \notin Awaited'
    BY <1>8, <1>16
  <2>3. made = [p \in Range(templates[u].params) |->
           D + m + CHOOSE i \in DOMAIN templates[u].params : templates[u].params[i] = p]
    BY <1>1, Zenon DEF Duplicating
  <2>4. Maps(u, instance, map)'
    BY <1>2, <1>3, <1>5, <1>10, <1>11, <2>1, <2>2, <2>3, MapsNew
  <2>5. \A j \in DOMAIN frames' : \A c \in Range(frames'[j].todo) :
           c \notin DOMAIN defs => frames'[j].def = instance.def /\ frames'[j].copies = map
    <3>1. TAKE j \in DOMAIN frames'
    <3>2. TAKE c \in Range(frames'[j].todo)
    <3>3. CASE j = L
      BY <1>10, <1>14, <3>3
    <3>4. CASE j # L
      BY <1>14, <1>15, <3>2, <3>4
    <3>5. QED
      BY <3>3, <3>4
  <2>6. D + 1..D + m \subseteq Awaited' /\ Bodies' \subseteq DOMAIN defs
    BY <1>13, <1>16
  <2>7. QED
    BY <1>3, <1>5, <1>9, <1>10, <1>11, <2>1, <2>4, <2>5, <2>6, NewInstanceWritten
<1>20. \A t \in DOMAIN templates' : TemplateWritten(t)'
  <2>1. TAKE t \in DOMAIN templates'
  <2>2. t \in DOMAIN templates
    BY <1>12
  <2>3. ASSUME NEW i \in DOMAIN Instances(t), NEW d \in Whole(t)
        PROVE  CopyKept(t, Instances(t)[i], d)
    <3>1. PICK c, other : other = Instances(t)[i] /\ c = other.copies[d]
      OBVIOUS
    <3>2. c \in DOMAIN defs /\ c \notin Bodies
      BY <1>11, <2>2, <2>3, <3>1 DEF TemplateWritten, InstanceWritten, CopyWritten
    <3>3. Alike(defs[c], defs'[c]) /\ c \notin Bodies' /\ CallsKeptFor(c)
          /\ (c \in Awaited => c \in Awaited')
      BY <1>9, <1>13, <1>16, <1>18, <3>2
    <3>4. QED
      BY <3>1, <3>3 DEF CopyKept, Alike
  <2>4. t = u => ~templates'[t].unread
    BY <1>7, <1>12, <2>2 DEF FrameWritten
  <2>5. ASSUME NEW i \in DOMAIN Instances(t)'
        PROVE  \/ /\ i \in DOMAIN Instances(t) /\ templates'[t].instantiations[i] = Instances(t)[i]
                  /\ \A d \in Whole(t) : CopyKept(t, Instances(t)[i], d)
               \/ ~templates'[t].unread /\ InstanceWritten(t, Instances(t)[i])'
    <3>1. CASE i \in DOMAIN Instances(t) /\ templates'[t].instantiations[i] = Instances(t)[i]
      BY <2>3, <3>1
    <3>2. CASE t = u /\ templates'[t].instantiations[i] = instance
      <4>1. Instances(t)[i]' = instance
        BY <3>2 DEF Instances
      <4>2. InstanceWritten(t, Instances(t)[i])'
        BY <1>19, <3>2, <4>1
      <4>3. QED
        BY <2>4, <3>2, <4>2
    <3>3. QED
      BY <1>6, <2>2, <2>5, <3>1, <3>2 DEF CopiedTemplates
  <2>6. /\ templates'[t].general = templates[t].general
        /\ templates'[t].defaults = templates[t].defaults
        /\ templates'[t].of = templates[t].of
        /\ \A s \in DOMAIN templates'[t].specializations : SpecKept(t, s)
        /\ templates'[t].unread = templates[t].unread
    BY <1>6, <2>2 DEF CopiedTemplates, SpecKept
  <2>7. TemplateAsWas(t)
    BY <1>5, <1>11, <2>2, <2>5, <2>6 DEF TemplateAsWas
  <2>8. QED
    BY <1>9, <1>12, <1>17, <2>2, <2>7, TemplateWrittenKept
<1>21. ASSUME NEW j \in DOMAIN frames'
       PROVE  FrameWritten(j)'
  <2>1. j \in DOMAIN frames /\ FrameWritten(j)
    BY <1>14, <1>21 DEF Written
  <2>2. PICK t, k : t = frames[j].temp /\ k = frames[j].key
    OBVIOUS
  <2>3. /\ t \in DOMAIN templates /\ KeyFits(t, k) /\ ~templates'[t].unread
    BY <1>12, <2>1, <2>2 DEF FrameWritten, Sound, FramesSound, FrameSound
  <2>4. KeyFits(t, k)'
    BY <1>9, <1>11, <2>3, KeyFitsKept DEF WholeKept
  <2>5. frames'[j].temp = t /\ frames'[j].key = k
    BY <1>2, <1>7, <1>14, <1>21, <2>2
  <2>6. KeyFits(frames[j].temp, frames[j].key)' /\ ~templates'[frames'[j].temp].unread
    BY <2>3, <2>4, <2>5
  <2>7. CASE j = L
    <3>1. \A c \in Range(frames'[j].todo) : c \notin Bodies'
      BY <1>8, <1>13, <1>14, <2>7
    <3>2. frames'[j].at = "remap" /\ ~Passing(j)'
      BY <1>14, <2>7 DEF Passing
    <3>3. QED
      BY <2>6, <3>1, <3>2 DEF FrameWritten
  <2>8. CASE j # L
    <3>1. frames'[j] = frames[j]
      BY <1>14, <2>1, <2>8
    <3>2. Passing(j)' => Passing(j)
      <4>1. \A i \in DOMAIN frames : frames'[i].to = frames[i].to
        BY <1>7, <1>14
      <4>2. j < L => j + 1 \in DOMAIN frames
        BY <1>14, <1>21
      <4>3. QED
        BY <1>14, <4>1, <4>2 DEF Passing
    <3>3. QED
      BY <1>13, <2>1, <2>6, <3>1, <3>2 DEF FrameWritten
  <2>9. QED
    BY <2>7, <2>8
<1>22. WholesApart'
  BY <1>11, <1>12 DEF WholesApart, Written
<1>23. OpenWritten'
  BY <1>5 DEF OpenWritten, Written
<1>24. ASSUME NEW d \in DOMAIN defs'
       PROVE  ExprWritten(defs[d].expr)'
  <2>1. PICK e : e = defs'[d].expr
    OBVIOUS
  <2>2. CASE e.op = "none"
    BY <2>1, <2>2 DEF ExprWritten
  <2>3. CASE \E o \in DOMAIN defs : e = defs[o].expr
    <3>1. ExprKept(e)
      BY <2>3 DEF ExprKept
    <3>2. ExprWritten(e)'
      BY <1>5, <1>9, <1>12, <3>1, ExprWrittenKept
    <3>3. QED
      BY <2>1, <3>2
  <2>4. e.op = "none" \/ \E o \in DOMAIN defs : e = defs[o].expr
    BY <1>3, <1>8, <1>24, <2>1 DEF Duplicated
  <2>5. QED
    BY <2>2, <2>3, <2>4
<1>25. defs'[IntType].kind = "atomic" /\ defs'[ClassType].kind = "class"
  BY <1>9, BuiltInsKept
<1>26. QED
  BY <1>20, <1>21, <1>22, <1>23, <1>24, <1>25 DEF Written

LEMMA TemplateDeclarationWritten ==
  ASSUME Sound, Sound', Typed, Typed', Written, TemplateDeclaration
  PROVE  Written'
<1>1. \/ \E list \in program.lists, forward \in BOOLEAN : Declare(list, forward)
      \/ \E u \in DOMAIN templates : \E list \in program.lists : Redeclare(u, list)
      \/ \E u \in DOMAIN templates : \E r \in program.patterns : Specialize(u, r.list, r.args)
  BY DEF TemplateDeclaration
<1>2. CASE \E list \in program.lists, forward \in BOOLEAN : Declare(list, forward)
  BY <1>2, DeclareWritten
<1>3. CASE \E u \in DOMAIN templates : \E list \in program.lists : Redeclare(u, list)
  BY <1>3, RedeclareWritten
<1>4. CASE \E u \in DOMAIN templates : \E r \in program.patterns : Specialize(u, r.list, r.args)
  BY <1>4, SpecializeWritten
<1>5. QED
  BY <1>1, <1>2, <1>3, <1>4

LEMMA UsesWritten ==
  ASSUME Sound, Sound', Typed, Written, UseTemplate
  PROVE  Written'
<1>1. PICK u \in DOMAIN templates : \E n \in 0..Arity(u) :
        \E args \in [1..n -> Arguments("type") \union Arguments("value")] : Use(u, args)
  BY DEF UseTemplate
<1>2. QED
  BY <1>1, UseTemplateWritten

LEMMA InstantiateWritten ==
  ASSUME Sound, Sound', Typed, Written, Instantiate
  PROVE  Written'
BY BailWritten, SpecializedWritten, ReuseWritten, DuplicateWritten, RemapWritten,
   RemapEnumeratorWritten, FinishWritten, ReturnWritten DEF Instantiate

LEMMA WrittenStep ==
  ASSUME Sound, Sound', Typed, Typed', Written, [Next]_vars
  PROVE  Written'
<1>1. \/ TemplateDeclaration \/ MemberDeclaration \/ UseTemplate \/ Instantiate
      \/ UNCHANGED vars
  BY DEF Next, EndOfInput
<1>2. QED
  BY <1>1, TemplateDeclarationWritten, MemberDeclarationWritten, UsesWritten,
     InstantiateWritten, StutterWritten

LEMMA InitWritten ==
  ASSUME Init
  PROVE  Written
<1>1. /\ DOMAIN templates = {} /\ DOMAIN frames = {} /\ open.temp = 0
      /\ DOMAIN defs = 1..2
      /\ defs[1] = Definition("atomic", 0, 0) /\ defs[2] = Definition("class", 0, 0)
  BY DEF Init
<1>2. defs[1].kind = "atomic" /\ defs[2].kind = "class"
  BY <1>1 DEF Definition
<1>3. \A d \in DOMAIN defs : defs[d].expr.op = "none"
  BY <1>1 DEF Definition, NoExpression, Expression
<1>4. \A d \in DOMAIN defs : ExprWritten(defs[d].expr)
  BY <1>3 DEF ExprWritten
<1>5. WholesApart /\ OpenWritten
  BY <1>1 DEF WholesApart, OpenWritten
<1>6. QED
  BY <1>1, <1>2, <1>4, <1>5 DEF Written, IntType, ClassType

-----------------------------------------------------------------------------
(* What is meant by the types of a body.                                   *)
LEMMA PositionIs ==
  ASSUME NEW t, ParamsWritten(t), NEW name, NEW x, Spells(t, name, x)
  PROVE  /\ Position(t, name) \in 1..Arity(t)
         /\ templates[t].params[Position(t, name)] = x
         /\ KindOf(t, Position(t, name)) = "type"
<1>1. PICK i \in 1..Arity(t) :
        templates[t].names[i] = name /\ templates[t].params[i] = x /\ KindOf(t, i) = "type"
  BY DEF Spells
<1>2. PICK p : p = Position(t, name)
  OBVIOUS
<1>3. p \in 1..Arity(t) /\ templates[t].names[p] = name
  BY <1>1, <1>2 DEF Position
<1>4. p = i
  BY <1>1, <1>3 DEF ParamsWritten
<1>5. QED
  BY <1>1, <1>2, <1>4

LEMMA ArgumentFor ==
  ASSUME NEW t, ParamsWritten(t), NEW name, NEW x, Spells(t, name, x),
         NEW key, KeyFits(t, key), KeyTyped(key)
  PROVE  /\ key[Position(t, name)].kind = "type"
         /\ Untyped(key[Position(t, name)].of)
<1>1. /\ Position(t, name) \in 1..Arity(t)
      /\ KindOf(t, Position(t, name)) = "type"
  BY PositionIs
<1>2. QED
  BY <1>1 DEF KeyFits, KeyTyped

(* The copies of an instance that no call is about to return are remapped. *)
LEMMA CompletedDone ==
  ASSUME Written, NEW t \in DOMAIN templates, NEW i \in DOMAIN Instances(t),
         Instances(t)[i].def \notin InProgress, NEW d \in Whole(t)
  PROVE  CopyDone(t, Instances(t)[i], d)
<1>1. PICK instance : instance = Instances(t)[i]
  OBVIOUS
<1>2. CopyWritten(t, instance, d)
  BY <1>1 DEF Written, TemplateWritten, InstanceWritten
<1>3. instance.copies[d] \notin Awaited
  <2>1. SUFFICES ASSUME NEW j \in DOMAIN frames, instance.copies[d] \in Range(frames[j].todo)
                 PROVE  FALSE
    BY DEF Awaited
  <2>2. frames[j].def = instance.def
    BY <1>2, <2>1 DEF CopyWritten
  <2>3. QED
    BY <1>1, <2>2 DEF InProgress
<1>4. QED
  BY <1>1, <1>2, <1>3 DEF CopyWritten

(* What a complete instance has for a definition d of the body, in the     *)
(* words of MembersAsWritten.                                              *)
AsWritten(t, instance, d) ==
  LET was == defs[d]
      copies == instance.copies
      is == defs[copies[d]]
  IN  /\ is.kind = was.kind
      /\ was.spelt \in {NoName} \union Range(templates[t].names)
      /\ is.order = [k \in DOMAIN was.order |-> copies[was.order[k]]]
      /\ was.kind # "enum" /\ d # templates[t].def => is.parent = copies[was.parent]
      /\ was.kind = "typed" =>
           Unrolled(is.type) = Unrolled(Meant(t, instance, was.spelt, was.type))
      /\ was.base # 0 =>
           LET base == Meant(t, instance, was.spelt, was.base) IN
           defs[base].kind = "class" => is.base = base
      /\ is.general = [x \in DOMAIN was.general |-> copies[was.general[x]]]

LEMMA AsWrittenIs ==
  ASSUME Sound, Typed, NEW t, TemplateWritten(t), NEW instance, InstanceWritten(t, instance),
         NEW d \in Whole(t), d \in DOMAIN defs, CopyDone(t, instance, d)
  PROVE  AsWritten(t, instance, d)
<1>1. MemberWritten(t, d) /\ ParamsWritten(t)
  BY DEF TemplateWritten
<1>2. /\ CopyWritten(t, instance, d)
      /\ KeyFits(t, instance.key) /\ KeyTyped(instance.key)
  BY DEF InstanceWritten
<1>3. PICK was, copies, is :
        was = defs[d] /\ copies = instance.copies /\ is = defs[copies[d]]
  OBVIOUS
<1>4. DefsSound /\ DefsTyped /\ ChainsEnd
  BY DEF Sound, Typed
<1>5. ASSUME was.spelt # NoName, NEW x, Spells(t, was.spelt, x)
      PROVE  \E i \in 1..Arity(t) : /\ i = Position(t, was.spelt)
                                    /\ templates[t].names[i] = was.spelt
                                    /\ Untyped(instance.key[i].of)
  <2>1. Position(t, was.spelt) \in 1..Arity(t)
    BY <1>1, <1>5, PositionIs
  <2>2. Untyped(instance.key[Position(t, was.spelt)].of)
    BY <1>1, <1>2, <1>5, ArgumentFor
  <2>3. templates[t].names[Position(t, was.spelt)] = was.spelt
    BY <1>5 DEF Spells, Position
  <2>4. QED
    BY <2>1, <2>2, <2>3
<1>6. was.kind = "typed" =>
        Unrolled(is.type) = Unrolled(Meant(t, instance, was.spelt, was.type))
  <2>1. SUFFICES ASSUME was.kind = "typed"
                 PROVE  Unrolled(is.type) = Unrolled(Meant(t, instance, was.spelt, was.type))
    OBVIOUS
  <2>2. CASE was.spelt # NoName
    <3>1. Spells(t, was.spelt, was.type)
      BY <1>1, <1>3, <2>1, <2>2 DEF MemberWritten
    <3>2. PICK i \in 1..Arity(t) : /\ i = Position(t, was.spelt)
                                   /\ templates[t].names[i] = was.spelt
                                   /\ Untyped(instance.key[i].of)
      BY <1>5, <2>2, <3>1
    <3>3. Stands(is.type, instance.key[i].of)
      BY <1>3, <2>1, <2>2, <3>2 DEF CopyDone
    <3>4. Unrolled(is.type) = Unrolled(instance.key[i].of)
      BY <1>4, <3>3, UnrolledOf DEF Stands
    <3>5. Meant(t, instance, was.spelt, was.type) = instance.key[i].of
      BY <2>2, <3>2 DEF Meant
    <3>6. QED
      BY <3>4, <3>5
  <2>3. CASE was.spelt = NoName
    <3>1. is.type = CopyOf(copies, was.type)
      BY <1>3, <2>1, <2>3 DEF CopyDone
    <3>2. Meant(t, instance, was.spelt, was.type) = CopyOf(copies, was.type)
      BY <1>3, <2>3, Zenon DEF Meant, CopyOf
    <3>3. QED
      BY <3>1, <3>2
  <2>4. QED
    BY <2>2, <2>3
<1>7. was.base # 0 => BasedOn(is, Meant(t, instance, was.spelt, was.base))
  <2>1. SUFFICES ASSUME was.base # 0
                 PROVE  BasedOn(is, Meant(t, instance, was.spelt, was.base))
    OBVIOUS
  <2>2. CASE was.spelt # NoName
    <3>1. Spells(t, was.spelt, was.base)
      BY <1>1, <1>3, <2>1, <2>2 DEF MemberWritten
    <3>2. PICK i \in 1..Arity(t) : /\ i = Position(t, was.spelt)
                                   /\ templates[t].names[i] = was.spelt
                                   /\ Untyped(instance.key[i].of)
      BY <1>5, <2>2, <3>1
    <3>3. BasedOn(is, instance.key[i].of)
      BY <1>3, <2>1, <2>2, <3>2 DEF CopyDone
    <3>4. Meant(t, instance, was.spelt, was.base) = instance.key[i].of
      BY <2>2, <3>2 DEF Meant
    <3>5. QED
      BY <3>3, <3>4
  <2>3. CASE was.spelt = NoName
    <3>1. BasedOn(is, CopyOf(copies, was.base))
      BY <1>3, <2>1, <2>3 DEF CopyDone
    <3>2. Meant(t, instance, was.spelt, was.base) = CopyOf(copies, was.base)
      BY <1>3, <2>3, Zenon DEF Meant, CopyOf
    <3>3. QED
      BY <3>1, <3>2
  <2>4. QED
    BY <2>2, <2>3
<1>8. /\ is.kind = was.kind
      /\ is.order = [k \in DOMAIN was.order |-> copies[was.order[k]]]
  BY <1>2, <1>3 DEF CopyWritten
<1>9. /\ was.kind # "enum" /\ d # templates[t].def => is.parent = copies[was.parent]
      /\ is.general = [x \in DOMAIN was.general |-> copies[was.general[x]]]
  BY <1>3 DEF CopyDone
<1>10. was.spelt \in {NoName} \union Range(templates[t].names)
  BY <1>1, <1>3 DEF MemberWritten
<1>11. was.base # 0 => LET base == Meant(t, instance, was.spelt, was.base)
                      IN  defs[base].kind = "class" => is.base = base
  BY <1>7 DEF BasedOn
<1>12. QED
  BY <1>3, <1>6, <1>8, <1>9, <1>10, <1>11 DEF AsWritten

LEMMA WrittenIs ==
  ASSUME Sound, Typed, Written
  PROVE  MembersAsWritten
<1>1. SUFFICES ASSUME NEW ti \in Completed
      PROVE  /\ DOMAIN Instances(ti[1])[ti[2]].copies = Tree(templates[ti[1]].def)
             /\ \A d \in DOMAIN Instances(ti[1])[ti[2]].copies :
                  AsWritten(ti[1], Instances(ti[1])[ti[2]], d)
  BY DEF MembersAsWritten, AsWritten
<1>2. PICK t, i : t = ti[1] /\ i = ti[2]
  OBVIOUS
<1>3. /\ t \in DOMAIN templates /\ i \in DOMAIN Instances(t)
      /\ Instances(t)[i].def \notin InProgress
  BY <1>2 DEF Completed
<1>4. PICK instance : instance = Instances(t)[i]
  OBVIOUS
<1>5. TemplateWritten(t) /\ InstanceWritten(t, instance)
  BY <1>3, <1>4 DEF Written, TemplateWritten
<1>6. DOMAIN instance.copies = Tree(templates[t].def)
  BY <1>5 DEF InstanceWritten, Whole
<1>7. Whole(t) \subseteq DOMAIN defs
  BY <1>3, WholesAre DEF Sound, Typed
<1>8. ASSUME NEW d \in Whole(t)
      PROVE  AsWritten(t, instance, d)
  BY <1>3, <1>4, <1>5, <1>7, <1>8, CompletedDone, AsWrittenIs
<1>9. QED
  BY <1>2, <1>4, <1>6, <1>8 DEF Whole

-----------------------------------------------------------------------------
(* A complete instance has all that was written in the body, in its order, *)
(* with copies as parents, and refers to the argument where the body       *)
(* refers to a parameter (definition_template::instantiate, duplicate and  *)
(* remap), for any programs: whichever other instances are made while it   *)
(* is remapped, however often the parameters are named anew before the     *)
(* body is read, and through any typedefs and bases of the body.           *)
THEOREM MembersKept == Spec => []MembersAsWritten
<1>1. Init => Sound /\ Typed /\ Written
  BY InitSound, InitTyped, InitWritten
<1>2. ASSUME Sound /\ Typed /\ Written, [Next]_vars
      PROVE  (Sound /\ Typed /\ Written)'
  <2>1. Sound' /\ Typed'
    BY <1>2, SoundStep, TypedStep
  <2>2. QED
    BY <1>2, <2>1, WrittenStep
<1>3. Sound /\ Typed /\ Written => MembersAsWritten
  BY WrittenIs
<1>4. QED
  BY <1>1, <1>2, <1>3, PTL DEF Spec
=============================================================================
