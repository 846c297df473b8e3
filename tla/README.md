# JustDefineIt in TLA+

JustDefineIt (JDI) is a C++ declaration parser: it preprocesses and lexes source
files, reads the declarations in them, and keeps the definitions that result so
that a user can look names up, evaluate constant expressions and coerce types.
This directory holds TLA+ models of its parts that keep state under a protocol,
configurations that check them with TLC, and theorems about them whose proofs
TLAPS checks. Paths below are relative to `src/src/` of the repository unless
they begin with another directory; a lexer line without a file is one of
`System/lex_cpp.cpp`.

## 1. The system

The program is sequential: one thread, no messages, nothing written to disk. What
makes it hard is that its layers share mutable state and call each other
recursively. The parser pulls tokens, `get_token` pulls macro expansions, macro
expansion pulls tokens from the same buffers, directives change the macros and
the stack of files while all of this is going on, and the parser rewinds what it
has read. Its input can be anything, and on errors it goes on.

| Part | State it keeps | Operations | What makes it correct | Model |
|---|---|---|---|---|
| Character reader (`General/llreader`) | position in a text | open, advance, take over, close | stays within the text | no |
| Tokens (`read_token`, `System/token`) | position, line | characters to tokens | consumes what it delivers | no |
| Conditional inclusion (`handle_preprocessor`, `pop_file`) | `conditionals`, `files`, `macros` | 14 directives, skip loop, end of file | delivers exactly the text of live groups; a skipped group changes nothing; includes are bounded | `Conditionals` |
| Macro expansion (`handle_macro`, `parse_macro_function`, `read_raw`) | `open_buffers`, `macros`, C++ stack of calls | enter, call, read arguments, expand them on frozen buffers | no macro within itself; arguments expanded in isolation; every token ends somewhere; `get_token` returns | `MacroExpansion` |
| Substitution (`System/macros`) | none (a pure algorithm over a replacement list) | `componentize`, `substitute_and_unroll` | `#`, `##`, `__VA_ARGS__`, `__VA_OPT__` as in the standard | `MacroSubstitution`, without `__VA_OPT__` |
| Look-ahead (`get_token`, `lexer::look_ahead`, `push_buffer`) | `open_buffers`, `buffer_pos`, `lookahead` | read, begin, rewind, end, nested | tokens are replayed in order, once, from the mark | `LookAhead` |
| Referencers (`Storage/references`, `full_type`) | linked lists handed between objects | push at both ends, pop, append, nest, prepend, copy, swap, reduce | one owner per node; the order of `* & [] ()`; copies leave originals alone | `RefStack` |
| Templates (`Storage/arg_key`, `handle_templates`, `read_template_parameters`, `definition_duplicate`) | keys, maps of instances and specializations, the copies of a body, the depth of nesting | declare, redeclare, specialise, instantiate, duplicate, remap | one instance per key, of the specialization that fits; each copy refers to its arguments and has their values; instantiation returns | `Templates`, in part |
| Definitions and scopes (`Storage/definition*`) | maps of members and structs, used scopes, ancestors, order of insertion | declare, look up, use a namespace or a definition, inherit, duplicate, remap | one owner per definition; lookup finds the nearest; a declaration means nothing to scopes that do not reach it; every pointer remapped | `Scopes`, `Templates`, in part |
| Values (`Storage/value*`) | none | constant arithmetic, with dependent values | result of C++ | `Evaluation`, in part |
| Expressions (`API/AST*`, `System/symbols`) | the tree under construction, the flag for `>` | read with precedence, coerce, evaluate, remap, copy | tree of the grammar; every instance evaluates its own arguments; reading ends | `Expressions`, `Evaluation` |
| Context (`API/context`, `Parser/context_parser`) | `parse_open`, macros, global scope | load, begin and end a parse, parsers that share a context | one parser at a time; the flag goes back | no |
| Readers and handlers (`Parser/readers`, `Parser/handlers`) | C++ stack, the current token, scopes | recursive descent | progress on every error; scopes entered are left; a class body goes to the class of its scope; names get the referencers written around them | `Scopes`, `Declarators`, in part |
| Tables, formatting, drawing, containers | filled once, or none | | | no |

How they interact: the parser calls `get_token` (look-ahead record, rewound
buffers first); it calls `preprocess_and_read_token` (macro buffers, then the
file), which calls `handle_preprocessor` for a `#` of the file and `handle_macro`
for a name. `handle_preprocessor` pushes and pops files and evaluates `#if` by
running an expression parser on a second lexer over the line.
`parse_macro_function` calls `read_raw` and, recursively,
`preprocess_and_read_token`. The readers build `ref_stack`s that definitions take
over; typedefs are unrolled from definitions back into types.

Hard behaviours, with their lines, are the `hazards` of `PROJECT.json`. In short:
flags that stand for a whole stack; buffers popped by a nested reader that an outer
one still counts on; positions cached in the lexer and saved in a buffer only when
another is pushed; a token read too early and pushed back; records of tokens handed
between nested scopes; nodes handed between objects with a destructor; constructors
that look like copies and are not; loops that must end on any input. There is no
concurrency, no timeout and no crash recovery in this program, and none is modelled.

## 2. The modules

| Module | What it is |
|---|---|
| `Conditionals` | the stack of conditions, the skip loop and the include stack |
| `ConditionalSections` | what conditional inclusion promises: the abstract specification of `Conditionals` |
| `ConditionalsProofs` | theorems about `Conditionals` |
| `LookAhead` | recording, rewinding and the stack of rewound buffers |
| `TokenCursor` | one stream with a cursor and marks: the abstract specification of `LookAhead` |
| `LookAheadProofs` | theorems about `LookAhead` |
| `MacroExpansion` | buffers of macros, calls of function-like macros, their arguments on frozen buffers |
| `MacroSubstitution` | what becomes of a replacement list, by the code and by C++ |
| `MacroExpansionProofs` | theorems about `MacroExpansion` |
| `RefStack` | linked lists of referencers, their owners, typedefs |
| `ReferencerStacks` | stacks as values: the abstract specification of `RefStack` |
| `RefStackProofs` | theorems about `RefStack` |
| `Scopes` | definitions, the scopes that hold them, lookup, and the handlers of declarations that fill them |
| `ScopesProofs` | theorems about `Scopes` |
| `Declarators` | the readers of types, referencers and parameters, and the list of declarators they are read for |
| `DeclaratorGrammar` | declarators by the grammar of C++, with what each declares: the reference for `Declarators` |
| `Expressions` | the parser of expressions, as a stack of calls that reads tokens one by one |
| `ExpressionsProofs` | theorems about `Expressions` |
| `Evaluation` | what is done with a tree: evaluation, remapping for an instance, and the grammar of C++ as the reference |
| `Templates` | templates, specializations, and the stack of instantiations that copy and remap their bodies |
| `TemplatesProofs` | theorems about `Templates`: types, and which instance a use gets |
| `TemplateMembersProofs` | the theorem about what an instance has, which stands on them |
| `MC...` | values of the constants for TLC |

### Conditionals

`conditionals` is the vector of `lexer::condition`s with its three flags, `files`
and `entered` are the include stack (what is kept of a file is how many sections
were open when it was entered, the test of `pop_file`), and `skipping` is the
program counter: in the main loop of `preprocess_and_read_token` or in the
`while (!conditionals.back().is_true)` loop of lines 1163-1173. Each directive is
an action, with the nameless `#ifdef` and `#elifdef` on their own error paths. The
step after every directive is the tail of the handler, `Resume`: if the innermost
condition is false, go on skipping. The lexer has no notion of a line: a `#` begins a
directive wherever it stands, and the white space that is passed over before the name
(830) includes newlines. So an action reads a directive, or the text up to the next one;
which of them comes next is chosen by the environment, and a behaviour stands for a
family of source files. The value of an `#if` expression is chosen as well, since the
expression may be anything.

`line` and `fate` are history variables for the refinement. `Malformed` says which kinds
of ill-formed input the environment may supply, and whether it supplies the one legal
input that the lexer misreads, a `#` alone on its line: it takes the first token of the
next line for its name, so that this line is dropped (`NullDirective`), becomes a
directive, or is no directive at all (`NoDirective`). A program without any of them is
`Malformed = {}`. What `ConditionalSections` promises of lines is promised of files in
which no `#` stands within a line.

### LookAhead

A token is its position in the stream that files and macros make up, so that
"the same token again" and "a token lost" are visible as arithmetic. `open_buffers`
holds rewound buffers only: a rewind buffer never lies below a macro buffer, for a
macro is entered only when no rewound token is left, and `get_token` records the
output of macros, not their names. `buffer_pos` is the cached position of the topmost buffer, as in the
code. `phase` separates the steps of a rewind (push the record as a buffer, then
read a token) and of the scan in `API/AST.cpp` 680-702 that decides whether a
parenthesis is a functional cast; `CastsParsed` turns that scan on. `marks` is
history: where the cursor was when each look-ahead began.

### MacroExpansion

`open_buffers` is the stack of `OpenBuffer`s with their own position (the caching
of positions is the subject of `LookAhead`), `calls` is the C++ stack of
`parse_macro_function` frames, and `reading` tells whether `get_token` is running.
One action is one step of a loop: a token read raw, a token preprocessed, an
argument closed, a frozen buffer popped. `Settled` is the run of `pop_buffer`
calls that precedes a read. `text` is what is left of the text of all files; the token
there is chosen from a set when it is read. A directive is one token: here it
redefines or includes, which is what can hurt an expansion.

`MacroSubstitution` has what is done with the replacement list: `componentize` and
`substitute_and_unroll` for calls, `evaluate_concats` for object-like macros. Its
second part is the reference: the list is cut into chains of operands joined by `##`,
and each chain is joined from its last operand to its first, so that it shares neither
the components nor the flag of the code. `ReplacedAsWritten` says that every macro is
entered with the list of the reference; but for a chain that begins with an empty
operand (below). Tokens are texts there, since pasting makes new ones and `#` joins
several; the mark of the end of the code, `TT_ENDOFCODE`, is no text, as nothing pasted is
that mark. White space, lists that are reported and `__VA_OPT__` are left out.

### RefStack

`heap` holds the allocated nodes, and `ntop`, `nbottom`, `sz`, `name` are the
members of each object. `Locals` are the stacks of readers, `Typedefs` those
of definitions, which change only when the definition is made and when `reduce`
reads them. Pointer and reference nodes behave alike, and so do `name` and `ndef`;
a bound, parameters or class are there or not (`filled`). Addresses are those that
`new` may return, so reuse of freed memory is included. `list` is a history
variable; that the pointers lead over it is the invariant `ListsLinked`.
`clear` leaves `ntop` and `nbottom` as they were, and is called only where an object is
made or filled anew: `destroy` is the destructor and the constructor of the next object.

### Scopes

A definition is its number in the order of allocation, and `members`, `c_structs`,
`using_general`, `using_scopes` and `ancestors` are the maps and lists of the scopes.
`look_up` and `find_local` follow the code, with their differences: a class does not
look in its `c_structs`, and no `find_local` does. The handlers are mutually
recursive; `open` is their stack, with the scope and the kind of caller of each
`handle_scope`, and `type` is what `read_type` returned while declarators are read.
An action is one declaration or the opening or closing of one, so that a behaviour
stands for a program. `get_location` is the function of `Parser/cclass_base.h` that
classes, unions and enumerations share, and `Implemented` what the truth table in
`handle_class.cpp` makes of its result. An error that unwinds (`Unwind`) returns
from every namespace up to a caller that goes on; errors that change nothing are
not steps.

The input excludes scopes that use or inherit from each other in a cycle, on which
lookup does not end, and `Namesakes` says whether a namespace may have the name of
an outer one (finding 2). A using-declaration names a qualified name.

### Declarators

`frames` is the C++ stack of the five functions that read a declaration:
`handle_declarators`, `read_fulltype`, `read_referencers`, `read_referencers_post`
and `read_function_params`. A frame keeps the `ref_stack` its function was given or
makes; `returned` is what the innermost call handed back. One action is what a
function does between two calls, or one round of its loop. `looked_up` tells whether
the current token was read in its scope, which the readers forget after a look-ahead.
The tokens are those of a declaration from `DeclaratorGrammar`, which writes
declarators operator by operator and says what C++ declares by them, or any short
text. `readable` marks the declarations whose meaning the code gets right: what is
left out is listed in that module and under the related behaviours below. An object
takes the referencers it is declared with; a function copies them, and its key in the
map of overloads is made of what is left of its parameters.

### Expressions and Evaluation

`calls` is the stack of `parse_expression` calls with the least precedence each was
given and what its caller does with the node (`then`); `phase` is where the innermost
is: at an operand, after one, or back from a call. The environment chooses each token
when the parser asks for it, so that a state stands for every input that begins so.
`greater` is `AST::tt_greater_is_op`. A tree is a record of its class, operator and
children. `symbols` is the table of `System/symbols.cpp` for one operator of each
precedence. The types in `sizeof`, named casts and `new` are read as `read_type` reads
them: a parameter that is a value is taken for a type too (`read_type.cpp` 84), a second
type is an error and replaces the first, and `sizeof` takes pointers. `LeaveOut` stops at
what else may belong to a type (qualified names, `typename`, groups, bounds, names), at
functional casts, and at `new T *`. A pointer to a value, `sizeof(p*)`, is left out of
the comparison with C++. `Evaluation` has `Eval`, `Remap` (what an
instantiation does to the copy of a tree) and, as the reference, `Tree`: the tree that
the grammar of C++ gives a sequence of tokens, by splitting at the operator that binds
least, which owes nothing to the way in which the parser climbs. Three definitions,
`CommaBindsLeast`, `NumbersAreNotDependent` and `ParametersReplaced`, state what
comments promise and the code does not keep; no run checks them, and the checked
properties say what they leave out. `Evaluation` uses RECURSIVE operators, `Expressions`
does not.

### Templates

`defs` is the heap of definitions, `templates` the templates and specializations with
their instances, `open` the body that is being read. `frames` is the stack of
`definition_template::instantiate` calls: one step looks for the specialization and
copies all that the body owns, one remaps the next copy, which for an enumerator may
begin another instantiation, and one returns. A body is built declaration by
declaration with names that its parameters or members give a meaning to; what was
spelt is kept beside what the code resolved, and the properties compare the two.
Programs are those in which templates are used after their bodies and implemented
once, the names of a list of parameters are distinct, a default is an argument of its
parameter's kind, and a pattern uses a parameter where the template has one of the same
kind; the kinds of program in `MCTemplates` each have one group of constructs.

## 3. The runs

| Run | Module, configuration | What it shows |
|---|---|---|
| `conditionals` | `MCConditionals`, `Conditionals.cfg` | on well-formed input the lexer is in its skip loop exactly while some section is dead (`MainLoopLive`), and implements `ConditionalSections` |
| `conditionals_any_input` | `ConditionalsAnyInput.cfg` | on any input a live section lies in live groups (`EnclosingLive`), skipped directives change nothing (`SkippedInert`), includes are bounded (`IncludeDepth`) |
| `look_ahead` | `LookAhead.cfg` | rewound buffers abut, records are what was read since their mark, and all of it is one cursor (`ImplementsCursor`) |
| `look_ahead_casts` | `LookAheadCasts.cfg` | with the cast scan on, no token is jumped over (`NothingSkipped`) |
| `macro_expansion` | `MCMacroExpansion`, `MacroExpansion.cfg` | no macro is within itself (`NoMacroTwice`), each expanding call has its frozen buffer (`CallsFrozen`), an argument is expanded from its own tokens (`ArgumentsIsolated`) and to its end (`NothingLost`), a replacement list is what C++ makes of it (`ReplacedAsWritten`), and `get_token` returns (`Terminates`) |
| `ref_stack` | `MCRefStack`, `RefStack.cfg` | lists end at `nbottom` (`ListsLinked`) and are counted at least, have one owner each (`NodesOwned`), and implement `ReferencerStacks` |
| `ref_stack_typedef` | `RefStackTypedef.cfg` | violation: finding 1 |
| `scopes` | `MCScopes`, `Scopes.cfg` | every definition is owned by one map, that of its parent (`Owned`), the body of a class belongs to a class of the scope it is in, and to one further out only past a tag of another kind (`ReopenedPastTag`), a struct stays nameable whatever else has its name (`StructsNameable`), lookup finds what the nearest scope offers, its members before what it uses by name, that before its structs, and those before used scopes (`LooksUpNearest`), and a declaration changes no name in scopes that do not reach it (`DeclarationsLocal`) |
| `scopes_namesakes` | `ScopesNamesakes.cfg` | violation: finding 2 |
| `declarators` | `MCDeclarators`, `Declarators.cfg` | every name is declared with the referencers that C++ gives it, and what has its parentheses closed is read to an end (`DeclaredAsWritten`) |
| `expressions` | `MCExpressions`, `Expressions.cfg` | the flag for `>` is that of the innermost bracket (`GreaterIsOperator`), a tree is that of the grammar (`GroupsAsCpp`), a number found early is that of every instance (`EarlyValueStands`), a remapped copy is worth what its source is worth with the arguments written out (`InstantiatedValue`), and parsing ends (`Ends`) |
| `templates` | `MCTemplates`, `Templates.cfg` | an instance has a copy of each member that refers to the arguments and to other copies (`MembersAsWritten`), its enumerators have the values of its arguments (`ValuesAsWritten`), a use gets the instance of the body that fits (`InstanceDesignated`), and instantiation returns (`InstantiationReturns`) |

### Bounds

- `Conditionals`: three nested sections, two names and an include limit of 1, so
  that two files may be suspended. The flags of a section depend on the section
  directly outside only; three levels hold every pattern of a section in a dead
  group of a dead section, and the theorems hold for all depths.
- `LookAhead`: four reads, three marks, four buffers, records of five: enough for a
  rewind within a rewind to end in the outer buffer, and for two look-aheads that
  share a start. The theorems hold for all bounds.
- `MacroExpansion`: four names with mutually recursive replacement lists, of zero,
  one and two parameters, one of which ends in an open call so that a call runs
  out of its buffer; five tokens of the files, the first a name, one include, nine
  buffers. The bound on buffers is not reached in these runs. Beside them, one
  function-like macro with every replacement list of up to four tokens, and of up to
  five without `#`, of two parameters or of one and `...`, called with up to three
  arguments that are empty, a token or several, one of which is a macro that pastes:
  chains of two `##`, and a `#` beside a `##`, occur.
- `RefStack`: three nodes, two stacks of readers and one typedef, sizes up to 3.
  An operation touches two stacks and at most the two ends of each, so lists of
  two nodes on one side and one on the other exercise every branch. The addresses
  are symmetric in the passing run; the violation run uses no symmetry.
- `Scopes`: two names, three definitions besides the global scope and `int`, four
  open frames (three in `scopes_namesakes`), one used scope and one ancestor per scope. A conflict of names takes
  two definitions of one name and a scope between them; with three definitions a
  class, an object and a namespace of one name meet in two scopes, and a name is
  reached through a used scope of an enclosing scope. Names are symmetric.

- `Declarators`: every declarator of up to four of the operators `*`, `[]`, `(P)` and
  parentheses around a name, with parameter lists that have declarators of up to two
  operators of their own; pairs of declarators of up to two; three declarators of one
  name that redeclare or overload it; and all texts of three tokens of ten kinds, or of
  five tokens of six, after a type. Every function of the reader calls every other at
  least once within itself.
- `Expressions`: eight alphabets of six to eleven tokens, one for each group of
  constructs, and all sequences of them of up to five to eight tokens: two binary
  operators of different precedence with a unary one on each side, a list within a
  list of template arguments, a conditional within another.
- `Templates`: up to three templates or specializations, three members (six for
  enumerations), two uses, arguments of two types or of the numbers 0 to 2, and
  three instantiations within each other in place of 128, so that the limit is met.

In all modules but one the system always has a next step, and `CHECK_DEADLOCK` is left
on. `Declarators` stops when its declaration has been read.

### Fairness

Four modules state weak fairness, each of the steps of a call that runs until it
returns; no other thread can keep it from running. In `MacroExpansion` that is `Lex`,
the step of `get_token`; in `Expressions` the step of `parse_expression`, for which the
lexer always has a token, at last that of the end of the code; in `Templates` that of
`instantiate`; in `Declarators` that of `handle_declarators`. The token that a
step reads is chosen inside that step; the caller, who may or may not ask for another
token, make another declaration or use another template, is under no fairness. Files
are finite (`text`). What `Terminates` shows is that recursion among macros does
not make an expansion endless, and that the bound on buffers never blocks a step, for a
lexer that is blocked would not return either. `InstantiationReturns` rests on the limit
of nesting for templates that need ever new instances, and `Ends` on each loop of the
parser reading a token.

### Findings

Each was met in the model and then replayed with a program linked to the compiled
library; the input is given where it is short.

1. `full_type::reduce` initializes `ref_stack app` from an lvalue, which picks the
   constructor that swaps (`Storage/full_type.cpp` 104): a typedef of `int*` is
   `int*` the first time it is reduced and `int` after that.
2. `handle_namespace` takes the definition its token was looked up as, from whichever
   enclosing scope (`Parser/handlers/handle_namespace.cpp` 31): of
   `namespace N {int a;} namespace M { namespace N { int b; } }`, `b` is put in `::N`
   and `M` stays empty.

### Related behaviours

These were met while modelling and replayed as well, but have no run of their own; the
models either follow them or leave the input out, as their comments say.

Lexer. A `#` with no identifier after it returns from `handle_preprocessor` even inside
its skip loop (835): of the lines `#if 0`, `dead1`, `# !`, `dead2`, `#endif` the parser
receives `dead2`. A `#` alone on its line is legal, and takes the next line for its
directive (830): of the lines `#`, `int x;`, `x` is not declared. The scan of functional
casts pushes to the look-ahead tokens that `get_token` has recorded already
(`API/AST.cpp` 686): a rewind delivers each twice, so that `enum { A = int(3) + 4 };` is
a syntax error. The token after the name of a function-like macro is read raw (602): the
end of an included file there is returned as the end of all code, and what follows the
`#include` is never read; a `#` there reaches the parser instead of being executed. An
empty operand clears the flag of its `##`, and a `##` after it takes what stands before
(`System/macros.cpp` 190): of `#define F(x) int x##b;`, `F()` is `intb;`. `#__VA_ARGS__`
is reported as not being a parameter (135), and `__VA_OPT__` makes a span that ends
before it begins (102).

Referencers and scopes. Copying a function node moves the parameters out of the original
(`Storage/references.cpp` 62), copies of member pointer nodes lose their class (63), and
`pop` leaves `sz` as it was (120), so that `ListsLinked` has only an inequality for it. `find_local`,
and the `look_up` of classes, do not search `c_structs` (`Storage/definition.cpp` 195 and
211), where classes are declared: `struct T { struct I {int z;} i; };  T::I k;` fails
with "Scope `T' contains no member `I'", and so do `using N::S` of a struct and the name
of a struct of a used namespace. `enum E {A}; namespace N { enum E {B}; }` adds `B` to
`::E`, for only the body of an `enum` with a type is made anew
(`Parser/handlers/handle_enum.cpp` 57). A complete class that is named becomes incomplete
again (`Parser/handlers/handle_class.cpp` 162), so that a second body raises no error.
A tag of another kind between a scope and a class further out stops the search of
`get_location` (`Parser/cclass_base.h` 85) but not that of `look_up`, and the class of
this scope is "Incomplete class in this scope" (`handle_class.cpp` 106): of
`class a {}; class b { union a {}; class c { class a { int x; }; }; };`, `x` goes to
`::a`.
`unuse_namespace` erases an empty range (`Storage/definition.cpp` 272).

Declarators. `int*[2]` without a name is read as a pointer to an array
(`Parser/readers/read_type.cpp` 297). After the look-ahead that tells parameters from a
group, the next token is not looked up in its scope (306), so that `int (T)` does not
have a parameter of type `T`; and a comma in it is an operator (216), so that
`int (int, int)` is a group. What follows a comma in a list of declarators begins with
the referencers that the one before has left, though "Referencers will be toasted if a
comma is encountered" (`Parser/context_parser.h` 376): `int g(), *h;` declares `h` as
`int (*)()`, and after `int *a;`, `extern int *a, b;` declares `b` as `int *`. The
initializer of a declarator takes the comma and the declarator after it
(`Parser/handlers/handle_declarators.cpp` 272): `int c = 1, d;` does not declare `d`. The
parameters of a parameter that is a function are lost when its function is declared:
`int g(int (*)(int))` becomes `int g(int (*)())`. `int f(int (int` at the end of the code
is scanned for ever (`read_type.cpp` 182).

Expressions. The operand after a colon takes a comma (`API/AST.cpp` 640): in
`enum E {A = 1 ? 2 : 3, B};` there is no `B`, though the comma "has the lowest precedence of
any operator" (`System/symbols.h` 32). A condition that depends on a parameter counts as
false, so that its value is there too early; the operand of a cast is not remapped
(`Storage/definition_duplicate.cpp` 545), and a cast to a parameter has no value in any
instance. `A::B::v` groups from the right (`API/AST.cpp` 501), and `M<(3>2)>` is an error,
for parentheses do not set the flag. `new T *` is read for ever (303), `new` and `delete`
swallow a token, `delete[]` always fails, and a list in braces may end at `;`. Division by
zero (`Storage/value_funcs.cpp` 89) and `sizeof -` end the program.

Templates. A member or base whose type depends on a parameter stays as it is in the
copy: `definition_hypothetical::remap` looks nothing up
(`Storage/definition_duplicate.cpp` 404; `Storage/definition.h` 583). An enumerator without
a value after one that depends stays dependent. Patterns match by definition only
(`Storage/arg_key.cpp` 151): `template<> struct S<2>` is taken for `S<3>` and that of
`S<T*>` for `S<int>`. The merit of a specialization counts repeated parameters only, so
that `S<T,T>` is preferred to `S<int,int>`. Defaults of a second declaration are dropped,
a default that is another's default fails (`read_template_parameters.cpp` 95), and a second
declaration that swaps the names of two parameters loses one
(`Parser/handlers/handle_templates.cpp` 266). A template that was declared before its body
stays incomplete, and so does an instance made while the body is open. Beyond 128
instantiations the value is none, and is kept. `S<I>` for a typedef `I` of `int` is not
`S<int>`. A conditional as a template argument needs parentheses.

## 4. The proofs

All theorems are for every value of the constants that the named assumptions allow.

**Conditionals.** The inductive invariant is `StackInv`: types, and
`EnclosingLive`. `TypeOK` alone would not do: that a pushed condition keeps the
implication "live or may become live, so all outer ones are live" needs it of the
stack it is pushed on, because the code looks at the innermost condition only; and
the type `Conditions` holds the fact that `parents_true` is cleared once a group
is taken. `LiveIsAllLive` (the innermost flag decides for the whole stack) is the
lemma that `SkippedGroupsInert` rests on. `Stack`, `TypeCorrect`,
`EnclosingSectionsLive`, `SkippedGroupsInert` and `IncludesBounded` hold on *any*
input. `SkipLoopInStep` needs the stronger `InStep`, which also says that each
suspended file left all its sections live; it assumes no `#` that nothing usable follows
(line 835) and no file that leaves sections of its own open, as an include of such a
file from a skip loop is what puts the two loops out of step.
`LexerImplementsSections` is the refinement: each directive maps to one action of
`ConditionalSections` or to a stray one; it assumes well-formed input.

**LookAhead.** The inductive invariant is `ReplayInv`. `BuffersAbut` is not
inductive: a buffer that is exhausted stays on the stack until the next read,
and the buffers above a non-exhausted one are passed over all at once. The
strengthening says, between any two levels of the stack, that if all levels above
are exhausted then they continue each other (`Skipped` in the proofs), and adds
that every record is what was read since its mark. These theorems assume
`CastsParsed = FALSE`, for with the cast scan `RecordsAbut` is false (`API/AST.cpp` 686).
`LexerImplementsCursor` is the refinement. `NothingSkipped` and the types hold with the
scan as well. A record may then repeat tokens and go back, so that `SmoothInv` speaks of
jumps only: within each buffer and record no token is more than one after the one
before it (`Smooth`), what is served after the last token of a buffer, and what is
read after the last token of a record, is at most one after that token, and a record that a
nested look-ahead will be joined to goes on in that one.

**RefStack.** `ListsLinked` and `NodesOwned` are inductive together with the types
and `Unused`: a typedef that was not declared yet is empty, or its definition, which
copies over what is there, would lose nodes. TLC could not tell, for it reaches no
other state; the proof asked for it. Most of the proof is about what one operation
does to the nodes of all other lists, which is nothing since no node has two owners
(`Apart`). `StacksAsPromised` is the refinement: `Shown` reads the types of the nodes
of each list, and each operation is one of `ReferencerStacks`, or hands a node over
in two. Besides what the module assumes of its constants, `Null` must not be the
content of a node (`NullAssumption`).

**MacroExpansion.** `CallsFrozen` says which frozen buffer belongs to which call, but
is not inductive: what makes `NoMacroTwice` true when a call is entered at last, long
after `inside_macro` was asked for it, is that the macro is not among the buffers
*below its own frozen buffer*, the only ones that are left by then. `Fit` says that
there is an assignment `pos` of frozen buffers to the calls that expand, in order, with
that property, and `Pending` that the innermost call has not begun to expand and its
macro is not entered. `ExpansionInv == Fit \/ Pending` is inductive. It needs nothing
of the replacement lists; `ArgumentsIsolated` follows from what each handler does to
the buffers below a frozen one (`Keeps`). `TypeOK` does need something: that what
`Substituted` returns is a sequence of tokens for every list, and that an argument it
asks for was expanded. Both `substitute_and_unroll` and `evaluate_concats` are recursive
functions over the positions of the list, so that the proof first shows that such a
function exists (`SubstitutesExist`, `ConcatsExist`), and then what its values are.

`ReplacedAsWritten` and `NothingLost` are theorems about texts, so that they have a
hypothesis: `TextsConcatenate`, that two strings concatenate to one and that it does not
matter in which order. TLA+ says so (a string is a sequence of characters), but the
prover knows nothing of strings. A token or the mark `TT_ENDOFCODE`, which is no text, is
all that a buffer can hold (`Words`, `Ended`). For `ReplacedAsWritten`, `Progress` says of
the lists of `substitute_and_unroll` and of `evaluate_concats` alike what each place
adds. They join from left to right and hold a flag; the reference joins a chain from its
last operand. So the induction over the places compares what there is with what there
will be: while a chain is unfinished (`Waiting`), the list is a part that stays followed by
what was joined so far, and the reference is that part followed by what was joined so far
and the rest of the chain (`Grows`). `JoinAssociates` carries it over a `##`. What was joined so far may be empty only
if nothing stays before it, or the next `##` takes the last token of what stays: that is
the exception `TakesTokenBefore` (macros.cpp 190, in 3 below), and the proof shows
that there is no other.
For `NothingLost`, the
invariant is `ReadBelow`: when the end of the code was read by a call that looked for its
parenthesis and was put back, every buffer under it, up to the frozen one, was read to
its end. `EndRead` is where that begins, `LastGone` where `pop_buffer` uses it.

**Scopes.** `ScopesInv` adds to the types and to `Owned` and `ReopenedPastTag` what the
handlers take for granted: the two definitions of the start (`Rooted`), which kinds the
maps hold (`Tags`), and that only the outermost frame is the file (`Framed`).
`look_up` is a recursive function over scopes; it exists since every scope refers to
earlier definitions only, which is part of `TypeOK` (`Descent`). `LookupFindsNearest` and `DeclarationsStayLocal` rest on a description of
what it returns at each scope, which a declaration changes only where the search
reaches the scope it is made in. Two properties were wrong and were found so by trying
to prove them, on states that the bounds of that time did not reach: a class body can
go to a class further out (`ReopenedPastTag` says when), and may then give that class a
base, which changes what names mean in a scope that is not around the declaration
(`Affected`).

**Expressions.** `GreaterIsOperator` speaks of the current flag only. `Flags` says for
each call on the stack that the flag it keeps is that of the brackets around it, at
every depth; then each `tt_greater_is_op = ...` that restores one is right. That is
`ParserInv` with the types of calls and nodes.

**Templates.** `UsesGetTheirInstance` is about a call that may pass on to that of a
specialization, copy a body, and run other calls for its enumerators before it returns,
all of which add instances. `TemplatesInv` says of every call on the stack what it is
for, whether it passes on (`Passing`, `PassedOn`) or stands for itself, and that what it
is about to return is `Designated`; and of every specialization that its pattern is one
of the program's. Only what a call returns is conditional on the limit of nesting (`bail`
of definition.cpp 327 returns nothing, and leaves unfinished instances behind): the rest
holds after it was met as before. That steps keep what is `Designated` needs that
instances are only added
(`Kept`). `ProgramsAssumption` says what lists of parameters and patterns the program has:
a default refers to a parameter before it, and every parameter of a specialization is in
its pattern. The key of a use is made in the order of the parameters in the code and
recursively by the reference `Expected`; `KeyIs` is their equality. A body is copied in
the order of a recursive function over what it owns, which exists since owning is a tree
(`Treelike`, `RankedDescent`).

`TypesKept` adds `Typed`. That every definition has one owner (`OwnedOnce`) is kept by
the step that copies a body since the order it copies in names each definition once
(`PostOrderOnce`: what two members own is apart, `BranchesApart`, since what each
member owns leads to it through its owners, `Rooted`). That keys differ is the test of
`Existing`. The base of a class is looked up through typedefs (`Unrolled`), a
recursive function that exists only if they end. A copy refers to what the body
refers to until it is remapped, and to what that was copied to afterwards, so the two
ends have to be ranked together: `ChainsEnd` has a rank in which a typedef is above its
type, and, while it waits in the list of a call, above the copy of its type as well.
`CopiesChain` gives a copied typedef the rank of its original plus one; type arguments are
no typedefs (`Untyped`), so that what is made of one ends there.

`MembersKept`, that is `MembersAsWritten`, adds `Written`, on top of `Sound` and `Typed`.
`Written` says of every definition of a body that what it refers to is what its spelling
says or no parameter (`MemberWritten`), of every copy that it is either done (`CopyDone`:
it refers to the argument or to the other copies) or still waits in the list of a call,
equal to its original (`SameAs`), and of that call that its map is that of the instance
(`Maps`): the copies of the body, and for each type parameter a definition that `Stands`
for the argument and is never remapped itself. A call does not know that nothing else
remaps its copies, so `Awaited` collects what waits in all calls; copies are no part of a
body (`Bodies`), and bodies have nothing in common (`WholesApart`). That the originals
stay as they are while the calls of enumerators run needs that a body that is read is
open, and then nothing is instantiated, and that an instance is only made of a body that
was read to its end (`ReadWritten`); what steps leave alone is gathered in `Alike`,
`WholeKept`, `SettledKept` and `CallsKeptFor`, and `TemplateWrittenKept` is their sum. What a
body owns is a recursive function; `Spans` describes its value by closure alone, and
`SpansOnce` that there is one such set, so that `Tree` can be followed through a step that adds
members (`WholeGrown`) or copies (`PostOrderSpans`). A redeclaration names parameters one by one,
and may pass through maps in which two of them have lost their names to each other:
`ParamsWritten` asks only that what is in the map is right (`RenamedOne`).

**Recursion.** The induction theorems of the library have operators for parameters,
which the provers cannot choose. `Least`, `Induction`, `Greatest` and `Descent` have
sets and functions in their place and are proved from the library's theorem about
well-founded relations; `RankedDescent` and `RankedInduction` are the same for a rank in
place of numbers. Each module of proofs begins with those that it needs, and so stands on
the library alone; only `TemplateMembersProofs` goes on from another one.

**Only model-checked.** `Declarators`. Of `Templates`, `ValuesAsWritten`: it needs what each
enumerator evaluates to while the instances that it asks for are made, and the numbers
that `Meaning` gives them for arguments below zero.
`Tree`, `Eval` and `Remap` in `Evaluation` are RECURSIVE operators over trees, about
which the prover can state nothing, so `GroupsAsCpp`, `EarlyValueStands` and
`InstantiatedValue` stay with TLC, as do the liveness properties `Terminates`, `Ends`,
`InstantiationReturns` and the second half of `DeclaredAsWritten`.

## 5. What is not modelled, and the plan

Done in this order, because all parsing stands on the lexer and types stand on
referencers: `Conditionals`, `LookAhead`, their proofs, `MacroExpansion`,
`RefStack`, `Scopes`, `Expressions`, `Templates`, `Declarators`, and then the proofs about
`RefStack`, `MacroExpansion`, `Scopes`, `Expressions` and `Templates`. Next:

1. `ValuesAsWritten` of `Templates`: the numbers of enumerators. The strengthening says of
   each call that returns what its argument makes of the body, by the nesting of calls.
2. `Declarators`: the types of frames, and that what a call is given comes back longer.

Of the modelled parts these operations are missing: `__VA_OPT__` of macros; references, pointers to members and qualified names in
declarators, constructors, operators and bit fields; strings, floating point and
coercion in expressions; function and member templates and referencers of arguments;
friends, extern blocks and the tokens that recovery from an error skips. They add cases
to steps that are there, or need the tokens of an input that `Scopes` and `Templates`
do not have, since a step of theirs is a whole declaration.

Not modelled: the sharing of a context between parsers (`API/context`: one flag,
tested and set in one place each).

Left out for good: the character reader and `read_token` (a position in a text;
unit tests reach their cases), the tables of built-in types, error reporting, the
drawing of expression trees, and the containers of `General/`. They have no
protocol between operations that a model would show more of than a test.
