------------------------------- MODULE RefStack -------------------------------
(***************************************************************************)
(* ref_stack (src/Storage/references.h, references.cpp): a linked list of  *)
(* referencers that its owner extends at both ends.  The lists share one   *)
(* heap; append_c, append_nest_c, prepend_c and swap hand nodes from one   *)
(* object to another, copy allocates new ones, pop and clear free them.    *)
(* Declarators build their stacks with these (Parser/readers/read_type.cpp *)
(* 285-600), definition_typed takes one as its referencers, and            *)
(* full_type::reduce unrolls those of a typedef.                           *)
(*                                                                         *)
(* Pointer and reference nodes behave alike, and so do name and ndef.      *)
(* What a node holds beside its type, a bound, parameters or a class, is   *)
(* only known to be there or not.  The history variable list holds the     *)
(* addresses of each list, top first; that the pointers lead over them is  *)
(* the invariant ListsLinked.                                              *)
(***************************************************************************)
EXTENDS Sequences, Integers, FiniteSets

CONSTANTS
  Nodes,     \* bound: the addresses that new may return
  Locals,    \* the ref_stacks of declarators and types being read
  Typedefs,  \* definition_typed::referencers of each typedef
  Names,     \* the names in declarators
  Null,      \* the null pointer
  MaxSize    \* bound: sz of any stack

Stacks == Locals \union Typedefs

ASSUME ConstantsAssumption ==
  /\ IsFiniteSet(Nodes) /\ Null \notin Nodes
  /\ Locals \intersect Typedefs = {}
  /\ "" \notin Names
  /\ MaxSize \in Nat

VARIABLES
  heap,      \* the nodes that are allocated, as records, and Null elsewhere
  ntop,      \* ref_stack::ntop
  nbottom,   \* ref_stack::nbottom
  sz,        \* ref_stack::sz
  name,      \* ref_stack::name
  declared,  \* the typedefs whose definition was made
  list       \* history: the nodes of each stack

vars == <<heap, ntop, nbottom, sz, name, declared, list>>

Types == {"RT_POINTERTO", "RT_ARRAYBOUND", "RT_FUNCTION", "RT_MEMBER_POINTER"}

(* node, node_array, node_func and node_memptr.                            *)
node(type, p, filled) == [type |-> type, previous |-> p, filled |-> filled]

NodeType ==
  {x \in [type : Types, previous : Nodes \union {Null}, filled : BOOLEAN] :
     /\ x.type = "RT_POINTERTO" => ~x.filled
     /\ x.type = "RT_ARRAYBOUND" => x.filled}

ASSUME NullAssumption == Null \notin NodeType

Init ==
  /\ heap = [n \in Nodes |-> Null]
  /\ ntop = [s \in Stacks |-> Null]
  /\ nbottom = [s \in Stacks |-> Null]
  /\ sz = [s \in Stacks |-> 0]
  /\ name = [s \in Stacks |-> ""]
  /\ declared = {}
  /\ list = [s \in Stacks |-> << >>]

Free == {n \in Nodes : heap[n] = Null}

Members(c) == {c[i] : i \in 1..Len(c)}

Linked(h, n, p) == [h EXCEPT ![n].previous = p]

-----------------------------------------------------------------------------
(* Pushing and popping.                                                    *)

push(s) ==
  /\ sz[s] < MaxSize
  /\ \E n \in Free :
       /\ heap' = [heap EXCEPT ![n] = node("RT_POINTERTO", ntop[s], FALSE)]
       /\ ntop' = [ntop EXCEPT ![s] = n]
       /\ nbottom' = [nbottom EXCEPT ![s] = IF @ = Null THEN n ELSE @]
       /\ list' = [list EXCEPT ![s] = <<n>> \o @]
  /\ sz' = [sz EXCEPT ![s] = @ + 1]
  /\ UNCHANGED <<name, declared>>

(* push_array, push_func and push_memptr.                                  *)
push_below(s, type) ==
  /\ sz[s] < MaxSize
  /\ \E n \in Free, filled \in IF type = "RT_FUNCTION" THEN BOOLEAN ELSE {TRUE} :
       LET h == [heap EXCEPT ![n] = node(type, Null, filled)]
       IN  /\ heap' = IF nbottom[s] = Null THEN h ELSE Linked(h, nbottom[s], n)
           /\ ntop' = [ntop EXCEPT ![s] = IF nbottom[s] = Null THEN n ELSE @]
           /\ nbottom' = [nbottom EXCEPT ![s] = n]
           /\ list' = [list EXCEPT ![s] = Append(@, n)]
  /\ sz' = [sz EXCEPT ![s] = @ + 1]
  /\ UNCHANGED <<name, declared>>

(* Mutant of pop: nbottom is left when the last node is freed.             *)
pop_dangling(s) ==
  /\ ntop[s] # Null
  /\ ntop' = [ntop EXCEPT ![s] = heap[@].previous]
  /\ heap' = [heap EXCEPT ![ntop[s]] = Null]
  /\ list' = [list EXCEPT ![s] = Tail(@)]
  /\ UNCHANGED <<nbottom, sz, name, declared>>

pop(s) ==
  /\ ntop[s] # Null
  /\ ntop' = [ntop EXCEPT ![s] = heap[@].previous]
  /\ nbottom' = [nbottom EXCEPT ![s] = IF ntop'[s] = Null THEN Null ELSE @]
  /\ heap' = [heap EXCEPT ![ntop[s]] = Null]
  /\ list' = [list EXCEPT ![s] = Tail(@)]
  /\ UNCHANGED <<sz, name, declared>>

-----------------------------------------------------------------------------
(* Handing nodes over.                                                     *)

(* Mutant of PutOnTop: ntop is set only when it was null.                  *)
PutOnTopHidden(s, t) ==
  /\ heap' = Linked(heap, nbottom[t], ntop[s])
  /\ nbottom' = [nbottom EXCEPT ![s] = IF @ = Null THEN nbottom[t] ELSE @, ![t] = Null]
  /\ ntop' = [ntop EXCEPT ![s] = IF @ = Null THEN ntop[t] ELSE @, ![t] = Null]
  /\ sz' = [sz EXCEPT ![s] = @ + sz[t], ![t] = 0]
  /\ list' = [list EXCEPT ![s] = IF @ = << >> THEN list[t] ELSE @, ![t] = << >>]

(* What append_c and append_nest_c do when rf is not empty.                *)
PutOnTop(s, t) ==
  /\ heap' = Linked(heap, nbottom[t], ntop[s])
  /\ nbottom' = [nbottom EXCEPT ![s] = IF @ = Null THEN nbottom[t] ELSE @, ![t] = Null]
  /\ ntop' = [ntop EXCEPT ![s] = ntop[t], ![t] = Null]
  /\ sz' = [sz EXCEPT ![s] = @ + sz[t], ![t] = 0]
  /\ list' = [list EXCEPT ![s] = list[t] \o @, ![t] = << >>]

append_c(s, t) ==
  /\ sz[s] + sz[t] <= MaxSize
  /\ nbottom[t] # Null
  /\ PutOnTop(s, t)
  /\ UNCHANGED <<name, declared>>

append_nest_c(s, t) ==
  /\ sz[s] + sz[t] <= MaxSize
  /\ IF nbottom[t] = Null
     THEN /\ name' = [name EXCEPT ![s] = IF name[t] = "" THEN @ ELSE name[t]]
          /\ UNCHANGED <<heap, ntop, nbottom, sz, list>>
     ELSE /\ PutOnTop(s, t)
          /\ name' = [name EXCEPT ![s] = name[t]]
  /\ UNCHANGED declared

(* Mutant of prepend_c: rf keeps what was taken from it.                   *)
prepend_c_shared(s, t) ==
  /\ sz[s] + sz[t] <= MaxSize
  /\ nbottom[t] # Null
  /\ heap' = IF ntop[s] = Null THEN heap ELSE Linked(heap, nbottom[s], ntop[t])
  /\ ntop' = [ntop EXCEPT ![s] = IF @ = Null THEN ntop[t] ELSE @]
  /\ nbottom' = [nbottom EXCEPT ![s] = nbottom[t]]
  /\ sz' = [sz EXCEPT ![s] = @ + sz[t], ![t] = 0]
  /\ list' = [list EXCEPT ![s] = @ \o list[t]]
  /\ UNCHANGED <<name, declared>>

prepend_c(s, t) ==
  /\ sz[s] + sz[t] <= MaxSize
  /\ nbottom[t] # Null
  /\ heap' = IF ntop[s] = Null THEN heap ELSE Linked(heap, nbottom[s], ntop[t])
  /\ ntop' = [ntop EXCEPT ![s] = IF @ = Null THEN ntop[t] ELSE @, ![t] = Null]
  /\ nbottom' = [nbottom EXCEPT ![s] = nbottom[t], ![t] = Null]
  /\ sz' = [sz EXCEPT ![s] = @ + sz[t], ![t] = 0]
  /\ list' = [list EXCEPT ![s] = @ \o list[t], ![t] = << >>]
  /\ UNCHANGED <<name, declared>>

swap(s, t) ==
  /\ ntop' = [ntop EXCEPT ![s] = ntop[t], ![t] = ntop[s]]
  /\ nbottom' = [nbottom EXCEPT ![s] = nbottom[t], ![t] = nbottom[s]]
  /\ sz' = [sz EXCEPT ![s] = sz[t], ![t] = sz[s]]
  /\ name' = [name EXCEPT ![s] = name[t], ![t] = name[s]]
  /\ list' = [list EXCEPT ![s] = list[t], ![t] = list[s]]
  /\ UNCHANGED <<heap, declared>>

-----------------------------------------------------------------------------
(* Copying.                                                                *)

(* Mutant of duplicate: a node_array is copied as a plain node.            *)
duplicate_plain(x) == [x EXCEPT !.filled = @ /\ x.type = "RT_FUNCTION"]

(* node::duplicate: a new node_func takes the parameters of the node that  *)
(* is copied, and the copy of a node_memptr is a plain node.               *)
duplicate(x) == [x EXCEPT !.filled = @ /\ x.type # "RT_MEMBER_POINTER"]

duplicated(x) == [x EXCEPT !.filled = @ /\ x.type # "RT_FUNCTION"]

(* Where new may put copies of the nodes c.                                *)
Copies(c) ==
  {f \in [1..Len(c) -> Free] : \A i, j \in 1..Len(c) : f[i] = f[j] => i = j}

Copied(c, f) ==
  [n \in Nodes |->
     IF n \in Members(f)
     THEN LET i == CHOOSE i \in 1..Len(f) : f[i] = n
          IN  [duplicate(heap[c[i]]) EXCEPT !.previous =
                 IF i = Len(f) THEN Null ELSE f[i + 1]]
     ELSE IF n \in Members(c) THEN duplicated(heap[n]) ELSE heap[n]]

(* The copy constructor, and copy into an object that holds no nodes.      *)
copy(s, t) ==
  /\ ntop[s] = Null
  /\ \E f \in Copies(list[t]) :
       /\ heap' = Copied(list[t], f)
       /\ ntop' = [ntop EXCEPT ![s] = IF f = << >> THEN Null ELSE f[1]]
       /\ nbottom' = [nbottom EXCEPT ![s] = IF f = << >> THEN Null ELSE f[Len(f)]]
       /\ list' = [list EXCEPT ![s] = f]
  /\ sz' = [sz EXCEPT ![s] = sz[t]]
  /\ name' = [name EXCEPT ![s] = name[t]]
  /\ UNCHANGED declared

(* prepend: prepend_c of a copy.                                           *)
prepend(s, t) ==
  /\ sz[s] + sz[t] <= MaxSize
  /\ nbottom[t] # Null
  /\ \E f \in Copies(list[t]) :
       /\ heap' = IF ntop[s] = Null THEN Copied(list[t], f)
                  ELSE Linked(Copied(list[t], f), nbottom[s], f[1])
       /\ ntop' = [ntop EXCEPT ![s] = IF @ = Null THEN f[1] ELSE @]
       /\ nbottom' = [nbottom EXCEPT ![s] = f[Len(f)]]
       /\ list' = [list EXCEPT ![s] = @ \o f]
  /\ sz' = [sz EXCEPT ![s] = @ + sz[t]]
  /\ UNCHANGED <<name, declared>>

(* clear frees the nodes and leaves ntop and nbottom where they were.      *)
clear(s) ==
  /\ heap' = [n \in Nodes |-> IF n \in Members(list[s]) THEN Null ELSE heap[n]]
  /\ sz' = [sz EXCEPT ![s] = 0]

(* The destructor clears, and the default constructor makes another object *)
(* in its place.  Nothing else calls clear but the assignment of a const   *)
(* stack, which is copied over what it frees: destroy and copy.            *)
destroy(s) ==
  /\ clear(s)
  /\ ntop' = [ntop EXCEPT ![s] = Null]
  /\ nbottom' = [nbottom EXCEPT ![s] = Null]
  /\ name' = [name EXCEPT ![s] = ""]
  /\ list' = [list EXCEPT ![s] = << >>]
  /\ UNCHANGED declared

-----------------------------------------------------------------------------
(* The users.                                                              *)

(* A declarator names what it declares.                                    *)
read_name(s) ==
  /\ \E n \in Names : name' = [name EXCEPT ![s] = n]
  /\ UNCHANGED <<heap, ntop, nbottom, sz, declared, list>>

(* The definition of a typedef takes over the referencers; one of a        *)
(* function becomes a definition_function instead.                         *)
declare(t, s) ==
  /\ t \notin declared
  /\ ntop[s] # Null => heap[ntop[s]].type # "RT_FUNCTION"
  /\ ntop' = [ntop EXCEPT ![t] = ntop[s], ![s] = Null]
  /\ nbottom' = [nbottom EXCEPT ![t] = nbottom[s], ![s] = Null]
  /\ sz' = [sz EXCEPT ![t] = sz[s], ![s] = 0]
  /\ name' = [name EXCEPT ![t] = name[s], ![s] = ""]
  /\ declared' = declared \union {t}
  /\ list' = [list EXCEPT ![t] = list[s], ![s] = << >>]
  /\ UNCHANGED heap

(* full_type::reduce, one round of its loop: app is made with the          *)
(* constructor that swaps, and is appended.                                *)
reduce(s, t) ==
  /\ t \in declared
  /\ sz[s] + sz[t] <= MaxSize
  /\ IF nbottom[t] = Null
     THEN /\ sz' = [sz EXCEPT ![t] = 0]
          /\ UNCHANGED <<heap, ntop, nbottom, list>>
     ELSE PutOnTop(s, t)
  /\ name' = [name EXCEPT ![t] = ""]
  /\ UNCHANGED declared

Next ==
  \/ \E s \in Locals :
       \/ push(s) \/ pop(s) \/ destroy(s) \/ read_name(s)
       \/ \E type \in Types \ {"RT_POINTERTO"} : push_below(s, type)
  \/ \E s, t \in Locals :
       /\ s # t
       /\ append_c(s, t) \/ append_nest_c(s, t) \/ prepend_c(s, t) \/ swap(s, t)
  \/ \E s \in Locals, t \in Stacks : s # t /\ (copy(s, t) \/ prepend(s, t))
  \/ \E s \in Locals, t \in Typedefs : declare(t, s) \/ reduce(s, t)

Spec == Init /\ [][Next]_vars

-----------------------------------------------------------------------------
(* Properties.                                                             *)

(* Pointers are null or addresses, sizes are numbers, and copies of arrays *)
(* have their bounds.                                                      *)
TypeOK ==
  /\ heap \in [Nodes -> NodeType \union {Null}]
  /\ ntop \in [Stacks -> Nodes \union {Null}]
  /\ nbottom \in [Stacks -> Nodes \union {Null}]
  /\ sz \in [Stacks -> Nat]
  /\ name \in [Stacks -> Names \union {""}]
  /\ declared \subseteq Typedefs
  /\ list \in [Stacks -> Seq(Nodes)]

(* From ntop, previous leads over allocated nodes to nbottom, and ends:    *)
(* popping and iterating meet every node once.  sz is no smaller than      *)
(* their number: pop leaves it as it was (references.cpp 120).             *)
ListsLinked ==
  \A s \in Stacks :
    LET c == list[s]
        n == Len(c)
    IN  /\ ntop[s] = IF n = 0 THEN Null ELSE c[1]
        /\ nbottom[s] = IF n = 0 THEN Null ELSE c[n]
        /\ \A i \in 1..n :
             /\ heap[c[i]] # Null
             /\ heap[c[i]].previous = IF i = n THEN Null ELSE c[i + 1]
        /\ sz[s] >= n

(* Whoever frees a node is its only owner, and no node is left behind.     *)
NodesOwned ==
  /\ \A s, t \in Stacks : \A i \in 1..Len(list[s]), j \in 1..Len(list[t]) :
       list[s][i] = list[t][j] => s = t /\ i = j
  /\ \A n \in Nodes \ Free : \E s \in Stacks : n \in Members(list[s])

Read(s, field) == [i \in 1..Len(list[s]) |-> heap[list[s][i]][field]]

(* The referencers of a typedef stay what they were when it was declared:  *)
(* reduce "Reduces this type by unrolling typedefs" (full_type.h 64), and  *)
(* to copy a stack is to "Make a copy" of it (references.h 138).           *)
TypedefsKept ==
  [][\A t \in declared :
       /\ Read(t, "type")' = Read(t, "type")
       /\ Read(t, "filled")' = Read(t, "filled")]_vars

Promised == INSTANCE ReferencerStacks
  WITH Referencers <- Types, names <- name,
       stacks <- [s \in Stacks |-> Read(s, "type")]

(* Whatever is pushed, appended, copied and popped, each object is the     *)
(* stack of referencers that ref_stack promises.                           *)
ImplementsStacks == Promised!Spec
=============================================================================
