# A verification development of the Rust compiler

TLA+ models of the parts of this compiler that keep state of their own, the TLC
configurations that check them, and theorems that TLAPS proves about them. The
compiler is sequential: no threads, messages or persistence. What is hard
to test in it is recursion over shared mutable state: visitors that push and pop
scopes, two passes that must agree, type objects shared between nodes and changed
in place, parse functions that return without having eaten, texts parsed twice,
graph algorithms with explicit stacks, and handlers that meet in an order
nobody wrote a test for. Assertions are taken as enabled, as in the Debug build
of the repository's README: a failed assertion ends the process.

Paths are relative to the repository's `code/` unless they start otherwise.

## Inventory

A compilation reads the crate (`lexer/`), parses it into an AST (`parser/`),
resolves names (`sema/Resolver/`), checks types (`sema/TypeChecking/` on
`TyCtx/`), checks attributes, and builds MLIR (`crate_builder/`), which analyses
(`analysis/`) and passes (`Optimizer/`) work on before code generation. Each
stage calls the next with the AST; resolver and type checker share
`TyCtx`, where one writes maps from node ids that the other reads.

| Component | State | Operations | What makes it hard, and what makes it correct | Here |
| --- | --- | --- | --- | --- |
| Lexer, `lexer/` | remaining text, line, column, tokens | one round per token or blank | some forty tests of prefixes in one chain; every unit in one token, the longest one, at its location; every round eats | `Lexer` |
| Parser, `parser/` | token stream, offset, check points, the C++ call stack | some 220 parse functions and look-aheads | what a function asserts must have been looked at; loops and recursion must eat; what is parsed must be kept | `Grammar`, `Parse*`, `Parser` |
| Expression parser, `parser/` | the same | operator-precedence loop, one handler per operator and bracket | binding powers decide the tree; contents are parsed twice; recursion must advance | `Expressions` |
| Name resolution of items, `sema/Resolver/NoRecurse.cpp`, `Items.cpp`, `Types.cpp`, `Path.cpp` | scopes, module stack, canonical paths, children of modules | gather pass, recursive pass, type paths, visibility | both passes must name an item alike; a path must reach what it names; scopes must be left as found | `TypePaths`, `Items` |
| Name resolution of bodies, `sema/Resolver/` | three scopes (vectors of ribs), the stack of closures, captures, references to declarations | one handler per construct, look-up, pattern bindings | every handler must leave the scopes as it found them; captures depend on nesting; a reference denotes a visible declaration | `Ribs`, `Resolver`, `VisibleScope` |
| Unification, `TyCtx/Unification.cpp`, `TyCtx/TyTy.cpp`, `TyCtx/Compare.h` | type objects with a reference and the references combined with them | expect, commit, clone, compare | compatible types must meet; what is learned must reach every node that shares the variable and no other | `Terms`, `Comparison`, `Unification`; `Inference` (commit) |
| Type checking, `sema/TypeChecking/` | map from nodes to types, queries in progress, stack of return types | one handler per expression, statement, pattern, item; probing; coercions | a block checks each statement twice; types change in place; probing must not miss an implementation | `Inference` (bodies), `Types` (probing, coercion); rest not |
| Typing context, `TyCtx/TyCtx.cpp` | maps from node ids, built-in types, paths, loop context | insert, look-up | built-in types are shared objects that checking changes | in `TypePaths`, `Items`, `Inference` |
| Loop analysis, `analysis/Loops.cpp` | Tarjan's index and low-link maps, its stack, candidates | strongConnect, createLoop | stack discipline, components, dominance, ending | `Loops` |
| Attributor, alias analyses, `analysis/` | abstract elements, work list, dependences | update to a fixpoint | unfinished: nothing is ever put on the work list | no |
| Crate builder, `crate_builder/` | symbol table, MLIR insertion point | emit handlers | most are `assert(false)` | no |
| Frontend, Session, CrateLoader, Serialization | inputs, session | execute | a straight line | no |
| AST, ADT, attribute checking, constant evaluation, mangler, target tables, toml | containers | walks and tables | | no |
| MIR/HIR/LIR dialects, Optimizer, code generation | MLIR's and LLVM's | declarative definitions, calls into libraries | behaviour is outside this repository | no |

The hazards of this code, line by line, with the properties that cover them, are
in `PROJECT.json`.

## Modules

| Module | Models | Extends or instantiates |
| --- | --- | --- |
| `Lexer`, `MCLexer`, `Lexer_proofs` | `lex` and its helpers; texts; theorems | |
| `Grammar` | tokens, tests on the tokens ahead, the statements parse functions are made of | |
| `ParseItems`, `ParseFunctions`, `ParseParams`, `ParseTypes`, `ParsePatterns`, `ParseStatements`, `ParseExpressions`, `ParseMacros` | the parse functions, each a sequence of such statements | `Grammar` |
| `Parser` | the machine that executes them on every token stream | the eight |
| `Expressions`, `MCExpressions`, `Expressions_proofs` | the trees `parseExpression` builds; texts; theorems | |
| `Ribs` | the member functions of `Rib` and `Scope` (`Resolver.cpp`, `Resolver.h`) | |
| `TypePaths` | canonical paths, modules and their children, `resolveRelativeTypePath`, `resolveSimplePath`, visibility | `Ribs` |
| `Items`, `MCItems`, `Items_proofs` | both passes over the items of a crate; crates; theorems | `TypePaths` |
| `Resolver`, `MCResolver` | the resolver of bodies; two symmetric names | `Ribs`; implements `VisibleScope` |
| `VisibleScope` | what that resolver promises: nested scopes, a reference denotes a declaration visible at that moment, for ever | |
| `Resolver_proofs` | theorems about it: scopes, the refinement; closures and captures | `Ribs`, `Resolver` |
| `Terms`, `Comparison`, `Unification` | types as terms, `canEqual` of every class of types, `expect` of every kind | |
| `Types`, `MCTypes`, `Types_proofs` | two types that meet: probing, then unification; coercion; the types; theorems | `Comparison`, `Unification` |
| `Recursion` | what a function of a number defined by recursion is: a theorem, and no model | instantiated by `Types_proofs` and `Items_proofs` |
| `Inference`, `MCInference`, `Inference_proofs` | type inference of function bodies; functions; theorems | |
| `Loops`, `Loops_proofs` | `detectLoopCandidates`, `strongConnect`, `createLoop`; theorems | |

Recursion of the code over the program being compiled is an explicit stack in a
variable (`calls`, `work`) or a watched activation (`Parser`). Recursion over
types (`Terms`, `Comparison`, `Unification`, `Types`) is a recursive function of a
number: of the height of the types, or, where the code also follows the fields of
structures, of the calls the process stack has room for.

### Lexer

State: `text`, the units still to be read from `at` on (a unit is a character, or a
name or literal that is one piece for the lexer), `line`, `column`, `tokens`,
`outcome`. One action is one branch of the loop of `lex`. The some forty tests of
prefixes are the sequence `Punctuation`, in their order: the first that matches
makes the token, and each says itself how many units it removes. The new line at
the end of a comment is removed and not counted; `<=` is made of two units and one
is removed; `!=` and `>=` stand behind `!` and `>` and are never reached; a number of
five digits or more ends the process unless it ends the text; `'static` is located
behind itself. `tryLexInlineComment` and `tryLexChar` are never called, `Lexer2`
never created.

### Parser

A parse function is a sequence of statements of `Grammar`: eat a token, check or
test tokens ahead, call another function and keep or drop its value, loop, set or
use a check point, return, fail, abort. State: `rule`, `todo`, `look`, `ate`, `mark`,
`filled`, `dropped`, `verdict`, `status`. The stream is chosen as it is looked at:
`look[i]` is the set of tokens that the i-th one ahead can still be, and a test
splits it, so all streams of any length are covered.

One activation is watched at a time. At a call the watch moves into the
callee, or stays and takes the callee by its contract: a value and tokens eaten,
or nothing eaten on a token of `EmptyAt`, with a token of `Leaves` next. Both
contracts are checked of every function (`ReturnsMeanProgress`), so the
composition is sound. `Memory` bounds the tokens remembered behind a check point;
what is beyond is unknown, that is, any token. Errors that exit and errors
handed to the caller are one outcome.

The properties are about all 224 functions at once. The functions that break one are
named in the model (`Asserting`, `Overrunning`, `Stalling`, `Misreading`,
`Dropping`, `LeftRecursive`); every other function keeps the promise, and one
that stops keeping it is a violation.

### Expressions

State: `ts`, `offset`, `calls`, and `result` for what the last activation
returned. A tree is the set of its nodes with their spans. Tokens that all
handlers treat alike are one token. An `assert(eat(...))` needs assertions to eat at
all. `!` behaves like `-` and is left out, since it starts a macro after a path.
Blocks, control flow, closures, casts, macros and struct expressions are left
out, and with them `Restrictions`, which only struct expressions depend on;
`Parser` executes them without building trees.

### Items and TypePaths

State: `crate`, the tree, chosen at the start: node -> item with its kind, name,
parent, the types in it, its visibility and whether it stands in an expression
the first pass does not look into (`deep`); the three scopes, `modules`
(currentModuleStack), the tables of `TyCtx` that the resolver reads (`children`,
`parentModule`, `canonicals`), `resolutions` and `found`, `associated`, and
`work`, the calls still to be made. One action is one handler up to its first
call of another handler of items; the calls go to the front of `work`, and what
the handler does after them is a task of its own. `TypePaths` translates the
loops over the segments of a path as recursive functions on the position.

`PathsOfOneNameReachIt` says what a type path of one name denotes: an item of that
name in the module it is looked for in, or what the scopes of everything around
know by that name (`InScope`: items where they are known, generic parameters,
`Self`, the built-in type), and never anything else. `PathsReachTheirLastName`
says what a test program expects of `a::b`, and fails.

`VisitsEndWell` has two parts. The passes agree (`PassesAgree`): the second pass
trips over the path of the first only in a crate with an item directly in the body
of something gathered, and such a crate gets to the end only if all of these are in
an implementation that was given up. A module gathers its items again when it is
visited, so those of a module in a body are gathered too. And every item has got
its path (`AllNamed`), unless it stands in an implementation that was given up.

Expressions, patterns and where clauses are those of `Resolver` or left out;
the generic parameters of traits and inherent implementations are left out, and
so are tables nobody reads. Generic arguments are resolved before the path they
stand in and not between its segments, which changes nothing else.

### Resolver

State: `nameScope`, `typeScope`, `labelScope`, `closureContext`, `captures`
(closureCaptureMappings), `resolvedNames`, `resolvedTypes`, `calls`, `nextNode`
and `outcome` are the members of `Resolver` and its call stack; `reported` is
what has been diagnosed; `within` and `declRib` are history
variables that only properties read. One action stands for one handler's part up
to the next node it descends into, with every rib it pushes, every declaration
and every capture (`insertCapturedItem` with it). The syntax tree is chosen step
by step, so the behaviours cover every crate within the bounds.

Left out because nothing reads them: `nameRibs`, `typeRibs`, `labelRibs`,
`Rib::references`. Names of built-in types in the ribs of the crate and
`__$$crate__` are not among `Name`. Labels are inserted and never looked up;
parameters of functions are declared with a kind that is never captured; the
else branch of `if let` is never resolved; the guard of an arm is
resolved before its patterns and the iterated expression of `for` inside the
loop's ribs: all as in the code. Paths of several segments are those of
`TypePaths`, in types only. Names of items, which `Items` gathers, are not known
to bodies here, so `resolvePathInExpression` never asks a module for one.

### Types

A type is a term: kind, tag, arguments, of at most `Height` levels; structures and
enumerations refer to `Adts`. Their fields may lead back to them: `canEqual` and
`unifyWithSite` have `MaxCalls` calls, and answer `overflow` when they need more.
State: `receiver`, `other`, `found`, `result`. `Probe` compares the type of
an implementation with the receiver, one way and, when that is no, the other
(`canEqual` of some twenty classes, with their answers that depend on the order);
`UnifyFound` unifies what probing found; `Coerce` coerces an expression, which
unifies twice. Predicates and projections are left out, closures and functions
are compared as the code does, by their parameters.

### Inference

State: `heap`, the type objects in the order of their allocation, each with its
kind, reference and combined references; `resolved`, the map of `TyCtx`; `phase`,
`at` and `values`, how far `checkBlockExpression` and the expression it is in are.
An action is one literal, one use of a variable, one operation, one unification
of a coercion, or the rest of a statement. `Unify` is `expect` and `commit`:
hints change the operands in place, the result is a new object, and every node
the combined references name whose type is still a variable gets a clone.
Dropped: references to nodes that never have a type (those of let statements),
default hints (nothing reads them), and the unit objects of statements. Not
modelled: floats, fields of tuples, references, arrays and other types with
`TypeVariable`s, calls, nested blocks with statements (which are checked
2^depth times). The branches of an `if` are blocks of one operand each: the
type of the operand is that of the block as well, and refers to the block.

### Loops

State: the members of the detector and of one `StronglyConnectedComponent`, with
`calls` for the recursion of `strongConnect` and `phase` for the loop that
`detectLoopCandidates` is in. The control flow graph is chosen in the initial
state. An uninitialised pointer (`out` of `findLoopPredecessor`) holds any
value. `analyzeLoopNests` and `analyzeInductionVariable` have no caller, and the
flags about operations in blocks decide nothing.

## Runs

| Run | Shows | Instance |
| --- | --- | --- |
| `Lexer` | units are in one token or skipped on purpose; tokens are the longest; locations are right where no comment comes between; each round eats | every text of two units of all, of three and four of some thirteen mixed ones and of ten punctuation ones, of five to seven digits, letters, blanks and quotes; 299,000 states |
| `Parser` | which of the parse functions fail an assertion, look behind the end, stall, misread, drop, or recurse without eating; all others do not, and keep their contracts | every function on every stream, `Memory` 2, 841,000 states |
| `Expressions` | the tree is the one the binding powers determine; parsing twice loses and misplaces nothing but tuple parentheses and first elements; the parser ends | chains of four operands with every operator, texts of up to six tokens over three vocabularies, four of any kind, an array of ten tokens whose first element is parsed again within another, 895,000 states |
| `ExpressionPrecedence` | `x * x + x` is `x * (x + x)` | same |
| `Items` | what a type path of one name resolves to; canonical paths name one item; the passes agree and name every item; the scopes are never empty and left as found | 2,887 crates of modules, types, functions, traits, implementations and nested items, every path of up to three words between two modules, 68,000 states |
| `ItemsPaths` | `a::b` does not denote the `b` of the module `a` | same |
| `Resolver` | scopes move together; the closure context is exact; captures are sound, nested and, outside arms, complete; the resolver implements `VisibleScope` | 7 nodes, 5 activations, 2 names (symmetric), 970,000 states |
| `ResolverCaptures` | a binding of an arm that a closure in the arm's body uses is not captured when that body opens a rib of the arm's node | 6 nodes |
| `Types` | probing misses no implementation and sees only what its comparison sees; compatible types unify; what two types become can stand for both | every two of 252 types of every kind, 194,000 states |
| `Inference` | types given agree with every typing of the function; the checker aborts only for functions without a typing or in four named cases; once the function has been checked, the declared type of a pattern is that of its uses, unless a statement was given up; a coercion can be repeated | every function of at most two statements, and of three that share variables; 463,000 states |
| `Loops` | Tarjan's stack discipline, a partition into components, each of them connected, no loops in functions without unreachable blocks, termination | every graph of 3 blocks with up to 2 successors, 32,000 states |
| `LoopsCycles` | the blocks of a cycle do not end in one component | same |

A run that ends in a violation states what a comment, a test or a document of
the repository says; `PROJECT.json` quotes it under "findings".

Why these bounds are enough. *Lexer*: a token is decided by at most three
units ahead and by the token before it; long texts only repeat that, but for
numbers and identifiers, which have lengths of their own up to seven. *Parser*: no
bound on the stream; a check point is set at most two tokens before what decides.
*Expressions*: an operator in each position of
another, each bracket in each, and each way a handler can fail within
them; `MaxCalls` exceeds the depth of any text that is eaten on the way
(`2 * MaxTokens + 2`), so only a recursion that does not advance overflows.
*Items*: three modules deep, a path has every combination of `crate`, `self`, `super`
and two names in its first two places; each kind of item stands in each kind it may
stand in, and in a module, a body and a given-up implementation around it; canonical paths of at most four segments. *Resolver*: a function, an arm
or closure in it,
a closure in that, two declarations of one name and a reference fit in seven
nodes; every pair of constructs nests, and every triple. *Types*: every kind
alone and each constructor over arguments of the kinds that unification and
comparison treat differently, with structures that are generic, nested, recursive
and of one name in two modules. *Inference*: two uses of one variable after its declaration are three
statements; a third use repeats the second, and the second loop checks them all
again. *Loops*: three
blocks have every shape a component can take (self loop, cycle of two and
three, nested, unreachable).

One parameter is also the program's: `MaxCalls` of `Expressions` and of `Terms` is
the size of the process stack. The others (`Height`, `MaxNode` and `MaxCalls` of `Resolver`, `MaxNode`,
`Name` and `Crates` of `Items`, `Blocks`, `MaxSucc`, `MaxTokens`, `Texts`,
`Functions`, `Receivers`, `Others`, `Memory`) only limit the input.
Visits, parses and analyses stop when they are done: the
configurations of `Resolver`, `Expressions`, `Loops`, `Types` and `Inference` say
`CHECK_DEADLOCK FALSE`. `Lexer`, `Items` and `Parser` are checked for deadlock: they
stutter only when they are done.

Fairness. `Loops`, `Expressions` and `Parser` assume `WF_vars(Next)`: a sequential
program goes on as long as it can, nothing else is needed for `Terminates`, `Ends`
and `CallsAdvance`. The others claim safety only and assume none; that each
round of the lexer eats is an action property.

## Proofs

| Theorem | For every | Argument |
| --- | --- | --- |
| `Lexer_proofs!TypeCorrect`, `NothingLost`, `AlwaysEats` | text of any length | `IInv`: types, `TokensTile`, and `Tiled` (what is between the last token and `at` was skipped on purpose and `at` is not before the token's end but after `<=`); each branch removes at least one unit, because every entry of `Punctuation` does |
| `Lexer_proofs!AlwaysLongest` | the same | an order of `Punctuation`: for each first unit, the last entry of several units that can match stands before every entry of one, but for the entries `LongestToken` names; so the first entry that matches is the longest |
| `Lexer_proofs!AlwaysLocated` | the same | `Located`: `line` and `column` are those of the unit at `at` while no comment has been passed on the line, and each token was given them when it was made |
| `Resolver_proofs!TypeCorrect`, `Balanced` | names, number of nodes, depth | `IInv`: type invariant, balanced scopes, and `LetsBind` (a let is not the first activation and no construct is entered from it), without which a pop could take the rib of a construct around the let |
| `Resolver_proofs!Refinement` | the same | the environment of `VisibleScope` is the vector of path mappings; `Fresh`: nodes not met yet are neither declared nor resolved, so a declaration is made once and a reference is resolved once; each step opens, closes, declares, refers or stutters |
| `Resolver_proofs!ClosureContext`, `CapturesAreSound`, `CapturesAreNested`, `CapturesAreComplete` | the same | `CInv`: the nodes of the activations increase from the outermost to the innermost, but for an arm and the construct that is its body (`Ordered`, `Met`, `Stages`), so the position of a rib tells what its declarations are within (`Context`, `Declarations`); `closureContext` holds the closures of the stack (`Closures`), and what a reference inside has captured was declared outside (`Used`, `Captures`) |
| `Inference_proofs!TypeCorrect`, `AlwaysAgrees` | function, of any length | `Meant`, for every typing of the function: each reference an object has collected, and each node that has the object, belongs to a node with the same type in the typing (`Consistent`), and an object that is not a variable has that type (`ValuesMean`); a `Unify` of two objects preserves it when the typing gives both sides one type, which every statement in turn makes sure of |
| `Inference_proofs!DeclaredAlwaysReach`, `AbortsExplained`, `AlwaysRepeatable`, `KnownTypesStay` | the same | how far checking is decides which nodes have a type (`Current`, `Reached`, `Ended`); a pattern with a declared type has it from its statement on (`PatternsKnown`); no step changes a type that is known, an action property; an abort names the two kinds that met, and either no typing gives them one type or the case is one of the four (`Excuse`) |
| `Loops_proofs!TypeCorrect`, `StackDisciplined`, `Partition`, `Connected`, `NothingFound` | graphs of any size | `IInv`: indices of the stack, of `calls` and of the components in order, low links equal to indices (the map is never overwritten), so that every component is one block and connected, the graph of a run is what its header dominates; dominance is antisymmetric on reachable blocks |
| `Expressions_proofs!TypeCorrect`, `TreesSpanWhatWasEaten`, `RecursionBounded` | texts of any length | `IInv`: each activation's check point and left operand fit those of the activation around it, the result ends at the offset, and depth is bounded by the tokens eaten while the parser is not stuck at an operator it has not eaten |
| `Expressions_proofs!TreesFollowBindingPowers` | the same | `BInv`: each tree is `Whole`, the operators at its left edge bind tighter than the power it was parsed with, those at its right edge were given at least the power of what follows; trees that handlers have collected lie behind their token; an operator that was not eaten is the one the parser is stuck at. Each handler that weaves trees into one then makes a tree its nodes decide |
| `Expressions_proofs!TuplesLeaveTheirs` | the same | `EInv`: in each tree (`EvenTree`), and in what each handler has eaten so far (`Kept`), the brackets balance but for those of tuples and the one a method call has opened (`Extra`), provided that every token that makes a node has one (`Covered`); so that losing an element, which takes its tuples along, breaks the premise and not the balance. A handler is at the bracket it began with (`Begun`), and a tuple's makes a node |
| `Types_proofs!ProbeMissesNothingHolds`, `ProbeBlindSpotsHolds` | structures, types of any height, size of the stack | what the comparison of two types says (`ComparisonSays`), by induction on the calls it may make: "no" to types with a common instance only if one has a variable facing a string or a function, "yes" only to types alike; one lemma for each class of `Compare.h`, for the parts by the hypothesis, for the fields of structures because types that are compared have one definition or none |
| `Types_proofs!CompatibleTypesMeetHolds`, `MeetingIsUsableHolds` | the same | what unification returns is a type of no greater height that both may be used as (`UnificationServes`); types with a common instance abort only where an excused type is walked through (`CompatibleMeet`); a type unified with itself is itself (`UnifiedWithItself`), and what two have become, unified again as coercion does, stays what it is (`UnificationAgain`). All by induction on the calls, from what each rule of `expect` answers |
| `Items_proofs!ScopesNesting`, `PathsReaching` | crates of any size, any names, paths of any length | `Inv`. *Ways*: for each scope and for the stack of modules the nodes that are open form a stack, and the calls still to be made lead from it (`Leads`) to the crate alone, each where it may be made (`Fit`): a visit with everything open around its item and the item's module innermost. A handler replaces its call by its calls, and a lemma for each says that these lead from the stack the handler leaves to the one its own call had led to. Whatever a rib tells of a name may be known there (`Clear`, `Denotes`). *Ordered* and *Kids*: what is to be gathered comes before all that is visited, the list of a module has only what belongs to it, and what it lacks is still to be gathered (`Found`). So when a path is resolved a child that is not listed does not exist (`ChildMeans`) and a name found in the scopes is in scope (`LookupMeans`); the loop over the segments is then an induction on its steps (`Walked`), which shows of every path that it denotes what its first name does (`PathsReachTheirFirstName`); in a path of one name that is the last (`OneNameFirst`) |

Assumptions are those the modules name: texts of units (`Lexer`), `MaxNode` and
`MaxCalls` positive
(`Ribs`, `Resolver`), `Blocks` positive and `MaxSucc` a natural number (`Loops`),
texts of known tokens no longer than `MaxTokens` and `MaxCalls > 2 * MaxTokens + 2`
(`Expressions`), functions that the parser can build and that use variables after
their declaration (`WellFormed` of `Inference`), `Memory` a natural number (`Parser`),
structures whose fields are types (`Terms`), types that meet are types (`Types`),
crates in which each item comes after the one it stands in, words and paths of
known names, types of the forms `resolveTypeNoBounds` knows, implementations without
a name, at most ten types in an item and half of `MaxNode` items (`WellFormed` of
`Items`).

Each invariant that a proof adds was checked by TLC on the run of its module
before it was proved. Four properties became what they are because a proof failed:
`TuplesStayOpen` was false for `[((() ,) , x]`, a text no instance had, where the
first element of an array is lost with a tuple in it; `DeclaredTypesReach` did
not say what a statement that is given up leaves behind; `VisitsEndWell` took
an item of a module in a body for one that is never gathered, in trees no instance
had; and `PathsReachTheirFirstName` knew neither the `Self` of a trait nor that a
module lists the items in the bodies of its functions as its own, and let a name
denote any item of that name in the crate.

Induction over data. `RecursionHolds` in `Recursion` is a lemma of mathematics that
the others rest on: an equation by recursion over the numbers has a solution. The prover says nothing of a function that is defined by
recursion but that it is some function with its equation, if there is one, and no
prover here can instantiate the induction theorems of the library, whose
parameter is an operator. `Recursion` has the parameters as constants, so a module
that instantiates it gets the equation of a function (`TermUpToEquation`,
`UnifyEquation` and six others), and a set of numbers, or of types
(`TermInduction`), that has the first and with each the next is all of them: the
theorems about `Types` are inductions of that form.

Only model-checked: everything of `Parser`, what canonical paths the items of `Items`
get (`CanonicalPathsDistinct`, `VisitsEndWell`), and the runs that end in a
violation. The contracts of `Parser` are found by executing each function.
`CanonicalPathsDistinct` cannot be a theorem for every crate: siblings of one name
share a path, and so may a variant of an enumeration and a function of its
implementation; it is checked on crates whose names keep them apart.
`VisitsEndWell` depends on every call above an item, and would need the order of
the two passes and not only what is open. Out of the prover's reach are liveness
under fairness (`Terminates`, `Ends`, `CallsAdvance`) and `ENABLED`.

## What checking has shown

Besides the findings, which quote the repository against itself. Most of these
are named in the model, so that a change there is noticed.

*Resolver*. `Scope::lookup` begins with the outermost rib (`Resolver.cpp:623`), so an
inner declaration never hides an outer one of its name; `ImplementsVisibleScope`
does not say which of two visible declarations is meant. `addNewBinding` looks for
a node id that is always fresh (`PatternDeclaration.cpp:137`), so a name bound twice
in one pattern is never reported. No comment or test says otherwise, so no property
repeats either.

*Lexer*. See above: comments and line numbers, `<=`, `!=`, `>=`, long numbers.

*Parser*. `macro_rules!` never ends; `parseUseTree` calls itself at `{` without
eating it (`UseTree.cpp:102`), `parseUnaryExpression` at `-`, `!` and `&&`; the field
of a struct shorthand and the `$` of `$crate` are not eaten; `parseArrayElements`
stalls or loses the first element, so `[55, 66, 77]` has two
(`testsuite/withsema/Arrays.rs:6`); a block keeps the last of several trailing
expressions only; the label of a `break` is read after it was eaten, the `mut` of
`&mut` one token too far, the `=` of `while let` never eaten, the `if` of a match
guard left; aliases, constants, statics and unions end in an assertion, and so do
closures, raw string ABIs and functions without a type in parentheses; attributes
of struct patterns and variadic parameters, the visibility of items and the label
of loops are parsed and dropped; `parseExpression` asserts on any keyword
but `as` behind an operand.

*Items*. `resolveRelativeTypePath` never resets the node it has found, so `a::b` is
`a` (the finding of `ItemsPaths`); modules are pushed
twice, so `super` names the module itself; `self::x` starts at the crate;
`crate::missing` is silently unresolved, and a segment in the middle that is not
found is passed over; `crate::b` may be a `b` in the body of some function, which
the module lists among its own; `a::super` in the crate fails an assertion. An item directly
in a function body is gathered under an empty prefix, and the second pass ends in
the assertion of `insertCanonicalPath` (`TyCtx.h:73`;
`testsuite/withsema/attributes.rs` has such a structure). Functions in
implementations of traits get a prefix that is not theirs, those of traits none, and
collide with others; an implementation of a trait for a tuple is dropped in
silence; variants with fields become children of themselves.

*Types*. Probing misses an implementation for `fn(_, &str)` and a receiver
`fn(&str, _)`: each says no to the other, because a variable on the left refuses
strings and functions; the fields of a structure that refers to itself are
compared and unified until the stack is full; two instances of a generic structure
without fields abort, and the arguments of any other are never compared. An
integral or floating variable that meets a general one on its right
becomes general; arrays of different lengths, structures of one name in different
modules and tuples that differ behind their first field are equal for probing;
raw pointers never unify; `!` coerces to integers only.

*Inference*. A block that returns and has no trailing expression has
type `!`, whose coercion to the function's type is an assertion failure
(`testsuite/compile/Function.rs` is such a function); `expect` knows no `bool` on
its left, so `return true` and a comparison of booleans abort; a let
statement whose initialiser has no type ends the second loop of a block and the
function counts as checked; both operands of `+` are not unified with each other;
a variable declared by `let x = 5` never gets the type its uses agree on; the
literal of a trailing expression does not get the function's type, nor that of
a branch of an `if` the type of the `if`: its object refers to the block alone.

*Loops*. Low links are never lowered, because `insert` does not overwrite: every
component is a single block (the finding of `LoopsCycles`). `findLoopPredecessor` counts an uninitialised pointer
as a predecessor (`Loops.cpp:107`).

## Plan

Done: all modules above. Left, in this order:

1. A theorem of `VisitsEndWell`: the path of an item is that of what it stands in
   and its name, but below a body, a trait or an implementation; the calls still to
   be made would have to carry those paths. `ScopesNesting` is the part of it
   that needs no paths.
2. Queries of the type checker: the order of items, cycles. Today the check of a
   pointer, of a module and of the end of an implementation of a trait are
   `assert(false)`, so there is little to state.

## Not modelled

- Type checking of items, traits, calls, closures, patterns and nested
  blocks: the handlers end in `assert(false)` in most of their branches.
- Attributor and alias analyses: `setup` creates no element, so the work list is
  empty from the start, `pickDependency` and `recordDependence` are
  `assert(false)`; `MemorySSA` creates accesses that nothing connects, every pair
  of addresses must alias, and `AggressiveAliasAnalysis::initialize` would never
  end (its update always answers "changed"), but only a test pass creates one.
- Crate builder: most of its cases are `assert(false)`; the others make one
  operation each. `moduleBuilder/` and `Lexer2` are not used.
- Attribute checking, constant evaluation, mangling, target tables: walks and
  tables without state worth exploring. Frontend, session, loading, serialization:
  a straight line of input and output.
- Dialect definitions, optimizer passes and calls into MLIR and LLVM: behaviour
  outside this repository, or passes whose body is a comment.
