-------------------------------- MODULE Items --------------------------------
(***************************************************************************)
(* Resolution of the items of a crate (sema/Resolver/: resolveCrate,       *)
(* NoRecurse.cpp, Items.cpp, Struct.cpp, Trait.cpp): a pass that gathers   *)
(* the items of the crate without looking into them, then one that visits  *)
(* each item, its types, its visibility and the items in it.  Each module  *)
(* is gathered a second time when it is visited.                           *)
(*                                                                         *)
(* The visitor's call stack is `work`: the calls still to be made, in      *)
(* order.  One action is one handler up to its first call of another       *)
(* handler of items; the calls it makes go to the front of `work`, and     *)
(* what it does after them is a task of its own (leave...).                *)
(*                                                                         *)
(* Expressions, patterns and where clauses are left out here: module       *)
(* Resolver models the bodies.  TyCtx's tables that no resolver reads      *)
(* (moduleChildMap, modules, locations and the items by kind) and          *)
(* Rib::references are left out too, and so are the generic parameters of  *)
(* traits and inherent implementations, which have a Self (OwnNode).       *)
(***************************************************************************)
EXTENDS TypePaths, FiniteSets

CONSTANTS Crates      \* the syntax trees

\* What a path may be written with.  The words that stand for modules are no
\* names.
Keywords == {"crate", "super", "self"}
Known    == Words \cup Keywords \cup {"Self", "i32"}

Forms      == {"path", "wrapped", "tuple", "unhandled"}
TypeOfItem == [form : Forms, path : Seq(Known), args : Seq(Known)]
ItemOfTree == [kind : STRING, name : Words \cup {"", "k"}, parent : Nat, deep : BOOLEAN,
               types : Seq(TypeOfItem), vis : Seq(STRING), param : Words \cup {""}, init : STRING]

\* The crate comes first and each item after the one it stands in.  An
\* implementation has no name, and the types it is made of.  Bounds: ten types in
\* one item (ArgumentOf), half of the nodes for items (OwnNode).
TypesOfImpl == [k \in {"InherentImpl", "TraitImpl"} |-> IF k = "TraitImpl" THEN 2 ELSE 1]
WellFormed(tree) ==
  /\ tree \in Seq(ItemOfTree) /\ tree # <<>> /\ 2 * Len(tree) < MaxNode
  /\ tree[CrateNode].kind = "Crate" /\ tree[CrateNode].parent = NoNode
  /\ \A x \in 2..Len(tree) :
       /\ tree[x].kind # "Crate" /\ tree[x].parent \in 1..(x - 1)
       /\ tree[x].name \in Words \cup {""} /\ Len(tree[x].types) <= 10
       /\ tree[x].kind \in DOMAIN TypesOfImpl =>
            tree[x].name = "" /\ Len(tree[x].types) = TypesOfImpl[tree[x].kind]
       /\ tree[x].kind \in {"InherentImpl", "Trait"} => tree[x].param = ""

ASSUME ItemsAssumption ==
  /\ Words \cap (Keywords \cup {"", "__$$crate__"}) = {}
  /\ \A word \in Known : Single(word) \in Name
  /\ \A tree \in Crates : WellFormed(tree)

VARIABLES
  crate,        \* the tree: node -> item, chosen at the start
  nameScope, typeScope, labelScope,
  modules,      \* currentModuleStack
  children,     \* TyCtx::moduleChildItems
  parentModule, \* TyCtx::childToParentModuleMap
  canonicals,   \* TyCtx::paths, << >> where there is none
  resolutions,  \* <<item, type, segment, space, definition>>, type 0 the visibility
  found,        \* whether the last type resolved has been given a definition
  associated,   \* TyCtx::associatedItemMappings: <<item, implementation>>
  work, outcome

table == <<parentModule, children, canonicals>>
links == <<resolutions, found>>
scopes == <<nameScope, typeScope, labelScope>>
vars == <<crate, scopes, modules, table, links, associated, work, outcome>>

\* An item: what it is, its name, the item it stands in, whether it stands in
\* an inner block of that item's body, the types its handler resolves, its
\* visibility, its generic parameter and, of a constant, its initialiser.
Item(kind, name, parent) ==
  [kind |-> kind, name |-> name, parent |-> parent, deep |-> FALSE,
   types |-> <<>>, vis |-> Public, param |-> "", init |-> "none"]

\* The node of a generic parameter, of the Self of a trait or of the type an
\* implementation is for; and that of the one built-in type.
OwnNode(id) == id + MaxNode \div 2
Builtin     == MaxNode

Node(kind) == {id \in DOMAIN crate : crate[id].kind = kind}
Variants   == {"EnumStruct", "EnumTuple", "EnumDiscriminant", "EnumPlain"}
Structs    == {"StructStruct", "TupleStruct"}
Impls      == DOMAIN TypesOfImpl

\* Some items in the order of the text.
InOrder(S) ==
  LET upTo[x \in 0..Len(crate)] ==
        IF x = 0 THEN <<>> ELSE IF x \in S THEN Append(upTo[x - 1], x) ELSE upTo[x - 1]
  IN  upTo[Len(crate)]

\* The items that stand in an item.
Inside(id) == InOrder({x \in DOMAIN crate : crate[x].parent = id})

-----------------------------------------------------------------------------
(* Tasks *)

\* nth: the number of a type of the item.
Task(do, id, prefix, canonical) ==
  [do |-> do, node |-> id, prefix |-> prefix, canonical |-> canonical, nth |-> 0]

Tasks(do, ids, prefix, canonical) ==
  [i \in DOMAIN ids |-> Task(do, ids[i], prefix, canonical)]

Empty   == <<>>
task    == Head(work)
id0     == task.node
item    == crate[id0]
Running == outcome = "running"
At(do, kinds) == /\ Running /\ work # <<>>
                 /\ task.do = do /\ item.kind \in kinds

Below(prefix, id) == Append(prefix, Segment(crate[id].name))
OwnPrefix    == Below(task.prefix, id0)
OwnCanonical == Below(task.canonical, id0)

\* The calls come first, then what is left of the caller.
Call(calls) == work' = calls \o Tail(work)

-----------------------------------------------------------------------------
(* Tables of the typing context *)

\* insertCanonicalPath keeps the first path; a longer one is an assertion
\* failure.
Surprise(paths, id, path) ==
  paths[id] # <<>> /\ paths[id] # path /\ Len(paths[id]) < Len(path)

Recorded(paths, id, path) ==
  [paths EXCEPT ![id] = IF @ = <<>> THEN path ELSE @]

RecordAll(S, prefix) ==
  [x \in DOMAIN canonicals |->
     IF x \in S /\ canonicals[x] = <<>> THEN Below(prefix, x) ELSE canonicals[x]]

InsertCanonicalPath(id, path) ==
  /\ canonicals' = Recorded(canonicals, id, path)
  /\ outcome' = IF Surprise(canonicals, id, path) THEN "surprised" ELSE "running"

ListChild(kids, module, id) == [kids EXCEPT ![module] = Append(@, id)]
InsertModuleChildItem == children' = ListChild(children, Last(modules), id0)

\* resolveVisItemNoRecurse: std::map::insert keeps the first module.
InsertChildItemToParentModule ==
  parentModule' = [parentModule EXCEPT ![id0] = IF @ = NoNode THEN Last(modules) ELSE @]

-----------------------------------------------------------------------------
(* The gathering pass *)

\* Items entered in the innermost rib below a prefix, one after the other.
InsertAll(scope, ids, prefix, k) ==
  LET upTo[i \in 0..Len(ids)] ==
        IF i = 0 THEN scope ELSE Insert(upTo[i - 1], Below(prefix, ids[i]), ids[i], k)
  IN  upTo[Len(ids)]

\* The items of a trait or an implementation that are of a kind.
InsideOf(id, kind) == InOrder({x \in Node(kind) : crate[x].parent = id})

AtGather(kinds) == At("gather", kinds) /\ InsertChildItemToParentModule

GatherModule ==
  /\ AtGather({"Module"})
  /\ nameScope' = Insert(nameScope, OwnPrefix, id0, "Module")
  /\ InsertModuleChildItem
  /\ modules' = Append(modules, id0)
  /\ Call(Tasks("gather", Inside(id0), OwnPrefix, OwnCanonical)
            \o <<Task("leaveGathered", id0, task.prefix, task.canonical)>>)
  /\ UNCHANGED <<crate, typeScope, labelScope, canonicals, links, associated, outcome>>

LeaveGatheredModule ==
  /\ At("leaveGathered", {"Module"})
  /\ modules' = Front(modules)
  /\ InsertCanonicalPath(id0, OwnCanonical)
  /\ Call(<<>>)
  /\ UNCHANGED <<crate, scopes, parentModule, children, links, associated>>

\* Mutant of Shallow: the items of inner blocks are gathered as well.
Deeper(id) == Inside(id)

\* Only the items that stand directly in the body are gathered, and under no
\* prefix.
Shallow(id) == InOrder({x \in DOMAIN crate : crate[x].parent = id /\ ~crate[x].deep})

\* A function is entered under its canonical path, unlike all other items.
GatherFunction ==
  /\ AtGather({"Function"})
  /\ nameScope' = Insert(nameScope, OwnCanonical, id0, "Function")
  /\ InsertModuleChildItem
  /\ InsertCanonicalPath(id0, OwnCanonical)
  /\ Call(Tasks("gather", Shallow(id0), Empty, Empty))
  /\ UNCHANGED <<crate, typeScope, labelScope, modules, links, associated>>

\* An initialiser that is not a block is an assertion failure.
GatherConstant ==
  /\ AtGather({"ConstantItem"})
  /\ nameScope' = Insert(nameScope, OwnPrefix, id0, "Constant")
  /\ InsertModuleChildItem
  /\ canonicals' = Recorded(canonicals, id0, OwnCanonical)
  /\ outcome' = IF item.init = "expression" THEN "aborted"
                ELSE IF Surprise(canonicals, id0, OwnCanonical) THEN "surprised" ELSE "running"
  /\ Call(Tasks("gather", Shallow(id0), Empty, Empty))
  /\ UNCHANGED <<crate, typeScope, labelScope, modules, links, associated>>

\* Structures of both kinds and type aliases.
GatherType ==
  /\ AtGather(Structs \cup {"TypeAlias"})
  /\ typeScope' = Insert(typeScope, OwnPrefix, id0, "Type")
  /\ InsertModuleChildItem
  /\ InsertCanonicalPath(id0, OwnCanonical)
  /\ Call(<<>>)
  /\ UNCHANGED <<crate, nameScope, labelScope, modules, links, associated>>

\* Variants with fields become children of themselves.
GatherEnumeration ==
  /\ AtGather({"Enumeration"})
  /\ LET vs     == {v \in DOMAIN crate : crate[v].parent = id0}
         fields == {v \in vs : crate[v].kind \in {"EnumStruct", "EnumTuple"}}
         placed == {v \in vs : crate[v].kind # "EnumDiscriminant"}
         listed == [m \in DOMAIN children |->
                      IF m \in fields THEN Append(children[m], m) ELSE children[m]]
     IN  /\ typeScope' = InsertAll(Insert(typeScope, OwnPrefix, id0, "Type"),
                                   InOrder(fields), OwnPrefix, "Type")
         /\ children' = ListChild(listed, Last(modules), id0)
         /\ canonicals' = Recorded(RecordAll(placed, OwnCanonical), id0, OwnCanonical)
  /\ outcome' = IF Surprise(canonicals, id0, OwnCanonical) THEN "surprised" ELSE "running"
  /\ Call(<<>>)
  /\ UNCHANGED <<crate, nameScope, labelScope, modules, links, associated>>

\* The trait goes under its canonical path, its type aliases under the prefix
\* of the trait, as if they stood beside it.
GatherTrait ==
  /\ AtGather({"Trait"})
  /\ LET known == \A a \in ToSet(Inside(id0)) : crate[a].kind \in {"TypeAlias", "Function"}
     IN  /\ typeScope' = InsertAll(Insert(typeScope, OwnCanonical, id0, "Trait"),
                                   InsideOf(id0, "TypeAlias"), task.prefix, "Type")
         /\ nameScope' = InsertAll(nameScope, InsideOf(id0, "Function"), OwnCanonical, "Function")
         /\ outcome' = IF ~known THEN "aborted"
                       ELSE IF Surprise(canonicals, id0, OwnCanonical) THEN "surprised" ELSE "running"
  /\ canonicals' = Recorded(canonicals, id0, OwnCanonical)
  /\ InsertModuleChildItem
  /\ Call(<<>>)
  /\ UNCHANGED <<crate, labelScope, modules, links, associated>>

\* The functions of an implementation are entered as if they stood beside it.
GatherImplementation ==
  /\ AtGather(Impls)
  /\ nameScope' = InsertAll(nameScope, Inside(id0), task.prefix, "Function")
  /\ outcome' = IF \A a \in ToSet(Inside(id0)) : crate[a].kind = "Function" THEN "running" ELSE "aborted"
  /\ Call(<<>>)
  /\ UNCHANGED <<crate, typeScope, labelScope, modules, children, canonicals, links, associated>>

Unknown == {"ExternCrate", "UseDeclaration", "ExternBlock", "MacroItem"}

\* What resolveVisItemNoRecurse and resolveMacroItemNoRecurse assert away.
GatherUnhandled ==
  /\ AtGather(Unknown \cup {"Union", "StaticItem"})
  /\ outcome' = "aborted"
  /\ UNCHANGED <<crate, scopes, modules, children, canonicals, links, associated, work>>

-----------------------------------------------------------------------------
(* What the handlers of the visiting pass call *)

Env == [names |-> nameScope, types |-> typeScope, modules |-> modules, children |-> children,
        called |-> [id \in DOMAIN crate |-> crate[id].name]]

\* The number under which the generic argument of the nth type is recorded.
ArgumentOf(nth) == 10 + nth

Recall(nth, result) ==
  /\ resolutions' = resolutions \cup {<<id0, nth, e[1], e[2], e[3]>> : e \in result.log}
  /\ found' = result.some
  /\ outcome' = result.end

\* lookupResolvedName and lookupResolvedType of the nth type of an item.
ResolvedTo(id, nth) ==
  LET defs == {r[5] : r \in {q \in resolutions : q[1] = id /\ q[2] = nth /\ q[3] = 0}}
  IN  IF defs = {} THEN NoNode ELSE CHOOSE d \in defs : TRUE

Kinds == {crate[id].kind : id \in DOMAIN crate}

ResolveItemVisibility ==
  /\ At("visibility", Kinds)
  /\ Recall(0, ResolveVisibility(Env, item.vis))
  /\ Call(<<>>)
  /\ UNCHANGED <<crate, scopes, modules, table, associated>>

\* resolveGenericArgs, where the argument is a path.
ResolveArgument ==
  /\ At("argument", Kinds)
  /\ Recall(ArgumentOf(task.nth), ResolveRelativeTypePath(Env, item.types[task.nth].args))
  /\ Call(<<>>)
  /\ UNCHANGED <<crate, scopes, modules, table, associated>>

ResolveType ==
  /\ At("type", Kinds)
  /\ Recall(task.nth, ResolveTypeNoBounds(Env, item.types[task.nth]))
  /\ Call(<<>>)
  /\ UNCHANGED <<crate, scopes, modules, table, associated>>

\* Plain tasks: they need no prefixes.
Todo(do, id) == Task(do, id, Empty, Empty)

TypeTasks(id, nth) ==
  LET Part(do) == [Todo(do, id) EXCEPT !.nth = nth]
  IN  IF crate[id].types[nth].args = NoArg THEN <<Part("type")>>
      ELSE <<Part("argument"), Part("type")>>
AllTypes(id) == FlattenSeq([j \in DOMAIN crate[id].types |-> TypeTasks(id, j)])

\* resolveTypeParam enters the parameter in the innermost rib of the types.
DeclareParam(scope, id, param) ==
  IF param = "" THEN scope ELSE Insert(scope, Single(param), OwnNode(id), "Type")
RecordParam(id, param) ==
  canonicals' = IF param = "" THEN canonicals ELSE Recorded(canonicals, OwnNode(id), Single(param))

OpenRibs ==
  /\ At("openRibs", {"Module", "Function", "TraitImpl"})
  /\ nameScope'  = Push(nameScope, id0)
  /\ typeScope'  = DeclareParam(Push(typeScope, id0), id0, item.param)
  /\ labelScope' = Push(labelScope, id0)
  /\ RecordParam(id0, item.param)
  /\ Call(<<>>)
  /\ UNCHANGED <<crate, modules, parentModule, children, links, associated, outcome>>

\* A block opens its ribs under a node of its own, which nobody asks for here.
OpenBlock ==
  /\ At("openBlock", {"Function", "ConstantItem", "StaticItem"})
  /\ nameScope'  = Push(nameScope, id0)
  /\ typeScope'  = Push(typeScope, id0)
  /\ labelScope' = Push(labelScope, id0)
  /\ Call(<<>>)
  /\ UNCHANGED <<crate, modules, table, links, associated, outcome>>

\* The end of a block, a function, a module or an implementation of a trait.
CloseRibs ==
  /\ At("closeRibs", {"Module", "Function", "ConstantItem", "StaticItem", "TraitImpl"})
  /\ nameScope'  = Pop(nameScope)
  /\ typeScope'  = Pop(typeScope)
  /\ labelScope' = Pop(labelScope)
  /\ Call(<<>>)
  /\ UNCHANGED <<crate, modules, table, links, associated, outcome>>

\* The rib of a structure, an enumeration, a union or an alias.
Generic == Structs \cup {"Enumeration", "Union", "TypeAlias"}
OpenTypeRib ==
  /\ At("openTypeRib", Generic)
  /\ typeScope' = DeclareParam(Push(typeScope, id0), id0, item.param)
  /\ RecordParam(id0, item.param)
  /\ Call(<<>>)
  /\ UNCHANGED <<crate, nameScope, labelScope, modules, parentModule, children, links, associated, outcome>>

CloseTypeRib ==
  /\ At("closeTypeRib", Generic)
  /\ typeScope' = Pop(typeScope)
  /\ Call(<<>>)
  /\ UNCHANGED <<crate, nameScope, labelScope, modules, table, links, associated, outcome>>

\* The items of a block, in its ribs; one of an inner block, in three more.
BlockTasks(id, prefix, canonical) ==
  LET Visit(x) == Task("resolve", x, prefix, canonical)
      Of(x) == IF crate[x].deep THEN <<Todo("openBlock", id), Visit(x), Todo("closeRibs", id)>>
               ELSE <<Visit(x)>>
      items == Inside(id)
  IN  IF items = <<>> THEN <<>>
      ELSE <<Todo("openBlock", id)>> \o FlattenSeq([i \in DOMAIN items |-> Of(items[i])])
             \o <<Todo("closeRibs", id)>>

-----------------------------------------------------------------------------
(* The visiting pass: modules and functions *)

\* resolveVisItem enters the module, and resolveModule does so again after it
\* has gathered the items; the visibility of the module is resolved inside it.
ResolveModule ==
  /\ At("resolve", {"Module"})
  /\ modules' = Append(modules, id0)
  /\ InsertCanonicalPath(id0, OwnCanonical)
  /\ Call(<<Todo("visibility", id0), Todo("openRibs", id0)>>
            \o Tasks("gather", Inside(id0), Empty, OwnCanonical)
            \o <<Todo("enterModule", id0)>>
            \o Tasks("resolve", Inside(id0), OwnPrefix, OwnCanonical)
            \o <<Todo("leaveModule", id0), Todo("closeRibs", id0), Todo("leaveModule", id0)>>)
  /\ UNCHANGED <<crate, scopes, children, parentModule, links, associated>>

EnterModuleAgain ==
  /\ At("enterModule", {"Module"})
  /\ modules' = Append(modules, id0)
  /\ Call(<<>>)
  /\ UNCHANGED <<crate, scopes, table, links, associated, outcome>>

LeaveModule ==
  /\ At("leaveModule", {"Module"})
  /\ modules' = Front(modules)
  /\ Call(<<>>)
  /\ UNCHANGED <<crate, scopes, table, links, associated, outcome>>

FunctionTasks ==
  <<Todo("openRibs", id0)>> \o AllTypes(id0)
    \o BlockTasks(id0, OwnPrefix, OwnCanonical) \o <<Todo("closeRibs", id0)>>

ResolveFunction ==
  /\ At("resolve", {"Function"})
  /\ InsertCanonicalPath(id0, OwnCanonical)
  /\ Call(<<Todo("visibility", id0)>> \o FunctionTasks)
  /\ UNCHANGED <<crate, scopes, modules, children, parentModule, links, associated>>

\* The visibility of an associated item is resolved before and again within
\* resolveFunction, which gives the same.  Only functions are handled.
ResolveAssociatedItem ==
  /\ At("associated", {"Function", "TypeAlias", "ConstantItem", "MacroItem"})
  /\ associated' = associated \cup {<<id0, item.parent>>}
  /\ outcome' = IF item.kind = "Function" THEN "running" ELSE "aborted"
  /\ Call(<<Task("resolve", id0, task.prefix, task.canonical)>>)
  /\ UNCHANGED <<crate, scopes, modules, table, links>>

AssociatedTasks(prefix, canonical) ==
  FlattenSeq([i \in DOMAIN Inside(id0) |->
                <<Todo("visibility", Inside(id0)[i]), Task("associated", Inside(id0)[i], prefix, canonical)>>])

-----------------------------------------------------------------------------
(* The visiting pass: types and values *)

\* Structures of both kinds are entered once more by name, before the rib opens.
ResolveStruct ==
  /\ At("resolve", Structs)
  /\ InsertCanonicalPath(id0, OwnCanonical)
  /\ typeScope' = Insert(typeScope, Single(item.name), id0, "Type")
  /\ Call(<<Todo("visibility", id0), Todo("openTypeRib", id0)>> \o AllTypes(id0)
            \o <<Todo("closeTypeRib", id0)>>)
  /\ UNCHANGED <<crate, nameScope, labelScope, modules, children, parentModule, links, associated>>

\* A type alias has a visibility nobody resolves.
ResolveTypeAlias ==
  /\ At("resolve", {"TypeAlias"})
  /\ InsertCanonicalPath(id0, OwnCanonical)
  /\ typeScope' = Insert(typeScope, Single(item.name), id0, "Type")
  /\ Call(<<Todo("openTypeRib", id0)>> \o AllTypes(id0) \o <<Todo("closeTypeRib", id0)>>)
  /\ UNCHANGED <<crate, nameScope, labelScope, modules, children, parentModule, links, associated>>

\* A union is entered nowhere; it comes here only from a place that the first
\* pass does not look into.
ResolveUnion ==
  /\ At("resolve", {"Union"})
  /\ InsertCanonicalPath(id0, OwnCanonical)
  /\ Call(<<Todo("visibility", id0), Todo("openTypeRib", id0)>> \o AllTypes(id0)
            \o <<Todo("closeTypeRib", id0)>>)
  /\ UNCHANGED <<crate, scopes, modules, children, parentModule, links, associated>>

ResolveEnumeration ==
  /\ At("resolve", {"Enumeration"})
  /\ InsertCanonicalPath(id0, OwnCanonical)
  /\ typeScope' = Insert(typeScope, Single(item.name), id0, "Type")
  /\ Call(<<Todo("visibility", id0), Todo("openTypeRib", id0)>>
            \o Tasks("variant", Inside(id0), OwnPrefix, OwnCanonical)
            \o <<Todo("closeTypeRib", id0)>>)
  /\ UNCHANGED <<crate, nameScope, labelScope, modules, children, parentModule, links, associated>>

\* Every variant is given its path, whatever its kind.
ResolveEnumItem ==
  /\ At("variant", Variants)
  /\ InsertCanonicalPath(id0, OwnCanonical)
  /\ Call(AllTypes(id0))
  /\ UNCHANGED <<crate, scopes, modules, children, parentModule, links, associated>>

\* A constant is entered once more as a variable.
ResolveConstant ==
  /\ At("resolve", {"ConstantItem"})
  /\ nameScope' = Insert(nameScope, Single(item.name), id0, "Variable")
  /\ InsertCanonicalPath(id0, OwnCanonical)
  /\ Call(<<Todo("visibility", id0)>> \o AllTypes(id0) \o BlockTasks(id0, OwnPrefix, OwnCanonical))
  /\ UNCHANGED <<crate, typeScope, labelScope, modules, children, parentModule, links, associated>>

\* A static item is entered nowhere, and its visibility is not looked at.
ResolveStatic ==
  /\ At("resolve", {"StaticItem"})
  /\ InsertCanonicalPath(id0, OwnCanonical)
  /\ Call(AllTypes(id0) \o BlockTasks(id0, OwnPrefix, OwnCanonical))
  /\ UNCHANGED <<crate, scopes, modules, children, parentModule, links, associated>>

ResolveUnhandled ==
  /\ At("resolve", Unknown)
  /\ outcome' = "aborted"
  /\ UNCHANGED <<crate, scopes, modules, table, links, associated, work>>

-----------------------------------------------------------------------------
(* The visiting pass: traits *)

\* The functions of a trait are visited under no prefix at all.
ResolveTrait ==
  /\ At("resolve", {"Trait"})
  /\ InsertCanonicalPath(id0, OwnCanonical)
  /\ typeScope' = Insert(typeScope, Single(item.name), id0, "Trait")
  /\ Call(<<Todo("visibility", id0), Todo("openTrait", id0)>> \o AllTypes(id0)
            \o Tasks("inTrait", Inside(id0), Empty, Empty) \o <<Todo("closeTrait", id0)>>)
  /\ UNCHANGED <<crate, nameScope, labelScope, modules, children, parentModule, links, associated>>

\* Self is a parameter of the trait.
OpenTrait ==
  /\ At("openTrait", {"Trait"})
  /\ nameScope' = Push(nameScope, id0)
  /\ typeScope' = DeclareParam(Push(typeScope, id0), id0, "Self")
  /\ RecordParam(id0, "Self")
  /\ Call(<<>>)
  /\ UNCHANGED <<crate, labelScope, modules, parentModule, children, links, associated, outcome>>

CloseTrait ==
  /\ At("closeTrait", {"Trait"})
  /\ typeScope' = Pop(typeScope) /\ nameScope' = Pop(nameScope)
  /\ Call(<<>>)
  /\ UNCHANGED <<crate, labelScope, modules, table, links, associated, outcome>>

\* The visibility is not resolved here.
ResolveFunctionInTrait ==
  /\ At("inTrait", {"Function"})
  /\ InsertCanonicalPath(id0, OwnCanonical)
  /\ Call(FunctionTasks)
  /\ UNCHANGED <<crate, scopes, modules, children, parentModule, links, associated>>

ResolveTypeAliasInTrait ==
  /\ At("inTrait", {"TypeAlias"})
  /\ typeScope' = Insert(typeScope, OwnPrefix, id0, "Type")
  /\ InsertCanonicalPath(id0, OwnCanonical)
  /\ Call(<<>>)
  /\ UNCHANGED <<crate, nameScope, labelScope, modules, children, parentModule, links, associated>>

\* A trait the first pass has not met may hold a constant or a macro.
ResolveInTraitUnhandled ==
  /\ At("inTrait", {"ConstantItem", "MacroItem"})
  /\ outcome' = "aborted"
  /\ UNCHANGED <<crate, scopes, modules, table, links, associated, work>>

-----------------------------------------------------------------------------
(* The visiting pass: implementations *)

\* resolveTypeToCanonicalPath of the nth type, which has been resolved to def;
\* << >> where there is none.
CanonicalOf(nth, def) ==
  LET arg == ResolvedTo(id0, ArgumentOf(nth))
  IN  IF canonicals[def] = <<>> THEN <<>>
      ELSE WithArguments(canonicals[def], IF arg = NoNode THEN <<>> ELSE canonicals[arg])

Unprintable(nth) == ~HasCanonicalPath(item.types[nth], ResolvedTo(id0, nth))

\* At the level of the crate the functions of an implementation go below its
\* type, elsewhere below a segment made for the implementation.
ImplPath(prefix, self) ==
  IF Len(prefix) <= 1 THEN self ELSE Append(prefix, <<"<impl">> \o AsString(self))

\* Mutant of InherentPath: the implementation adds nothing to the path.
InherentPathOfModule(prefix, self) == prefix

InherentPath(prefix, self) == ImplPath(prefix, self)

ResolveInherentImpl ==
  /\ At("resolve", {"InherentImpl"})
  /\ nameScope' = Push(nameScope, id0)
  /\ typeScope' = Push(typeScope, id0)
  /\ Call(<<Todo("visibility", id0)>> \o AllTypes(id0)
            \o <<Task("inherent", id0, task.prefix, task.canonical)>>)
  /\ UNCHANGED <<crate, labelScope, modules, table, links, associated, outcome>>

\* A type without a canonical path is an assertion failure, here or in append.
NameInherentImpl ==
  /\ At("inherent", {"InherentImpl"})
  /\ LET named == ~Unprintable(1)
         self  == IF named THEN CanonicalOf(1, ResolvedTo(id0, 1)) ELSE <<>>
     IN  /\ outcome' = IF self = <<>> THEN "aborted" ELSE "running"
         /\ Call(AssociatedTasks(task.prefix \o self, InherentPath(task.canonical, self))
                   \o <<Todo("leaveImpl", id0), Todo("closeImpl", id0)>>)
  /\ typeScope' = Insert(typeScope, Single("Self"), OwnNode(id0), "Unkown")
  /\ UNCHANGED <<crate, nameScope, labelScope, modules, table, links, associated>>

LeaveImpl ==
  /\ At("leaveImpl", Impls)
  /\ typeScope' = [typeScope EXCEPT ![Len(typeScope)] = ClearName(@, Single("Self"), OwnNode(id0))]
  /\ Call(<<>>)
  /\ UNCHANGED <<crate, nameScope, labelScope, modules, table, links, associated, outcome>>

\* An inherent implementation has opened no rib of the labels.
CloseImpl ==
  /\ At("closeImpl", {"InherentImpl"})
  /\ nameScope' = Pop(nameScope)
  /\ typeScope' = Pop(typeScope)
  /\ Call(<<>>)
  /\ UNCHANGED <<crate, labelScope, modules, table, links, associated, outcome>>

ResolveTraitImpl ==
  /\ At("resolve", {"TraitImpl"})
  /\ Call(<<Todo("visibility", id0), Todo("openRibs", id0)>> \o TypeTasks(id0, 1)
            \o <<Task("ofTrait", id0, task.prefix, task.canonical)>>)
  /\ UNCHANGED <<crate, scopes, modules, table, links, associated, outcome>>

\* Mutant of GiveUp: an early return like any other, which leaves the ribs open.
GiveUpOpen ==
  /\ At("ofTrait", {"TraitImpl"}) \/ At("forType", {"TraitImpl"})
  /\ ~found
  /\ Call(<<>>)
  /\ UNCHANGED <<crate, scopes, modules, table, links, associated, outcome>>

\* resolveTraitImpl gives up without a word when the trait or the type of the
\* implementation resolves to nothing: a tuple, or super in the crate.
GiveUp ==
  /\ At("ofTrait", {"TraitImpl"}) \/ At("forType", {"TraitImpl"})
  /\ ~found
  /\ Call(<<Todo("closeRibs", id0)>>)
  /\ UNCHANGED <<crate, scopes, modules, table, links, associated, outcome>>

TraitFound ==
  /\ At("ofTrait", {"TraitImpl"}) /\ found
  /\ Call(TypeTasks(id0, 2) \o <<Task("forType", id0, task.prefix, task.canonical)>>)
  /\ UNCHANGED <<crate, scopes, modules, table, links, associated, outcome>>

\* The paths of the projection <type as trait> are computed and thrown away:
\* the functions are visited under the prefix of the implementation.
ImplementTrait ==
  /\ At("forType", {"TraitImpl"}) /\ found
  /\ outcome' = IF Unprintable(1) \/ Unprintable(2) THEN "aborted" ELSE "running"
  /\ typeScope' = Insert(typeScope, Single("Self"), OwnNode(id0), "Unkown")
  /\ Call(AssociatedTasks(task.prefix, task.canonical)
            \o <<Todo("leaveImpl", id0), Todo("closeRibs", id0)>>)
  /\ UNCHANGED <<crate, nameScope, labelScope, modules, table, links, associated>>

-----------------------------------------------------------------------------
(* The crate *)

CrateName == "k"

\* resolveCrate up to its two loops over the items.
Init ==
  /\ crate \in Crates
  /\ nameScope  = Insert(Push(<<>>, CrateNode), Single("__$$crate__"), CrateNode, "Dummy")
  /\ typeScope  = Insert(Push(<<>>, CrateNode), Single("i32"), Builtin, "Type")
  /\ labelScope = Push(<<>>, CrateNode)
  /\ modules = <<CrateNode>>
  /\ children = [id \in 1..MaxNode |-> <<>>]
  /\ parentModule = [id \in 1..MaxNode |-> NoNode]
  /\ canonicals = [id \in 1..MaxNode |-> IF id = Builtin THEN Single("i32") ELSE <<>>]
  /\ resolutions = {} /\ found = TRUE /\ associated = {}
  /\ LET top == Inside(CrateNode)
     IN  work = Tasks("gather", top, Empty, Single(CrateName))
                  \o Tasks("resolve", top, Empty, Single(CrateName))
  /\ outcome = "running"

\* The module of the crate is left; its ribs stay.
LeaveCrate ==
  /\ Running /\ work = <<>> /\ modules # <<>>
  /\ modules' = Front(modules)
  /\ UNCHANGED <<crate, scopes, table, links, associated, work, outcome>>

Over == ~Running \/ modules = <<>>
Stopped == Over /\ UNCHANGED vars

Next ==
  \/ GatherModule \/ LeaveGatheredModule \/ GatherFunction \/ GatherConstant
  \/ GatherType \/ GatherEnumeration \/ GatherTrait \/ GatherImplementation
  \/ GatherUnhandled
  \/ ResolveItemVisibility \/ ResolveArgument \/ ResolveType
  \/ OpenRibs \/ OpenBlock \/ CloseRibs \/ OpenTypeRib \/ CloseTypeRib
  \/ ResolveModule \/ EnterModuleAgain \/ LeaveModule
  \/ ResolveFunction \/ ResolveAssociatedItem
  \/ ResolveStruct \/ ResolveTypeAlias \/ ResolveUnion \/ ResolveEnumeration
  \/ ResolveEnumItem \/ ResolveConstant \/ ResolveStatic \/ ResolveUnhandled
  \/ ResolveTrait \/ OpenTrait \/ CloseTrait \/ ResolveFunctionInTrait
  \/ ResolveTypeAliasInTrait \/ ResolveInTraitUnhandled
  \/ ResolveInherentImpl \/ NameInherentImpl \/ LeaveImpl \/ CloseImpl
  \/ ResolveTraitImpl \/ GiveUp \/ TraitFound \/ ImplementTrait
  \/ LeaveCrate \/ Stopped

Spec == Init /\ [][Next]_vars

-----------------------------------------------------------------------------
(* Properties *)

Items == DOMAIN crate \ {CrateNode}

ModuleOf(id) ==
  LET of[x \in Items] == LET up == crate[x].parent
                         IN  IF crate[up].kind \in {"Crate", "Module"} THEN up ELSE of[up]
  IN  of[id]

\* The items an item stands in, the crate included.
OpenAround(id) ==
  LET around[x \in DOMAIN crate] ==
        IF x = CrateNode THEN {} ELSE {crate[x].parent} \cup around[crate[x].parent]
  IN  around[id]

\* An item is gathered when it stands in the crate or in a module, which gathers
\* its items again wherever it stands itself, or directly in the body of
\* something gathered.
Bodies == {"Function", "ConstantItem"}
Gathered(id) ==
  LET gathered[x \in Items] ==
        LET up == crate[x].parent
        IN  \/ crate[up].kind \in {"Crate", "Module"}
            \/ crate[up].kind \in Bodies /\ ~crate[x].deep /\ gathered[up]
  IN  gathered[id]

\* What a module lists as its children: everything gathered that has no module
\* between, from the bodies of its functions as well.
Named(module, word) == {x \in Items : /\ Gathered(x) /\ ModuleOf(x) = module
                                       /\ crate[x].name = word /\ crate[x].kind \notin Impls}

\* Where an item is known by its bare name: in what it stands in; a type of a
\* trait or a function of an implementation also around that; and an item of a
\* body, or of an implementation in one, in all that is around.
InBody(x) == crate[crate[x].parent].kind \in Bodies
KnownIn(x) ==
  LET up == crate[x].parent
  IN  {up} \cup (IF crate[up].kind \in Impls \cup {"Trait"} THEN {crate[up].parent} ELSE {})
           \cup (IF \E o \in {x, up} \ {CrateNode} : InBody(o) THEN OpenAround(x) ELSE {})

\* What a name may denote that is looked up in the scopes of something: an item
\* known in something around, a generic parameter or the Self of something
\* around, or the built-in type.
InScope(from, word) ==
  {x \in Items : /\ crate[x].name = word /\ crate[x].kind \notin Impls
                  /\ KnownIn(x) \cap (OpenAround(from) \cup {from}) # {}}
    \cup {OwnNode(o) : o \in {p \in OpenAround(from) \cup {from} :
             \/ crate[p].param = word
             \/ crate[p].kind \in Impls \cup {"Trait"} /\ word = "Self"}}
    \cup (IF word = "i32" THEN {Builtin} ELSE {})

\* The path that a resolution is of.
PathOf(x, nth) == IF nth > ArgumentOf(0) THEN crate[x].types[nth - ArgumentOf(0)].args
                  ELSE crate[x].types[nth].path

\* A path that names one item: alone, behind crate, or behind self in the crate.
OfOneName(x, path) ==
  \A i \in 1..(Len(path) - 1) :
    path[i] = "crate" \/ (path[i] = "self" /\ ModuleOf(x) = CrateNode)

\* A type path of one name that is resolved denotes something of that name: an
\* item of the crate behind crate or self, else one of the module it stands in
\* or what the scopes of everything around know by the name, and nothing else
\* (resolveRelativeTypePath).  Behind crate it may be an item of a body, since
\* the first pass lists those as children of the module as well.
PathsOfOneNameReachIt ==
  \A r \in resolutions : LET path == PathOf(r[1], r[2])
                        IN  r[2] > 0 /\ r[3] = 0 /\ OfOneName(r[1], path) =>
    \/ Len(path) > 1 /\ r[5] \in Named(CrateNode, path[Len(path)])
    \/ Len(path) = 1 /\ r[5] \in Named(ModuleOf(r[1]), path[1]) \cup InScope(r[1], path[1])

\* What a name denotes where it stands, and what it has below if that is a module.
Denoted(x, word) == Named(ModuleOf(x), word) \cup InScope(x, word)
NamedBelow(x, path)  == UNION {Named(m, path[2]) : m \in Denoted(x, path[1])}

\* "let complex: math::Complex;" (testsuite/compile/Modules.rs:46) means the Complex
\* of the module math (line 4): a path of two names, the first of modules only,
\* denotes what the second names in them.  It fails: resolvedNodeId is what the
\* first name has been resolved to, and the second is not looked up (Types.cpp:207).
PathsReachTheirLastName ==
  \A r \in resolutions : LET path == PathOf(r[1], r[2])
                        IN  /\ r[2] > 0 /\ r[3] = 0 /\ path \in [1..2 -> Words]
                            /\ Denoted(r[1], path[1]) \subseteq Node("Module")
                            /\ NamedBelow(r[1], path) # {}
                            => r[5] \in NamedBelow(r[1], path)

\* Functions whose path the code makes wrongly: those of traits, which have no
\* prefix, and those of implementations of traits, which have that of the
\* implementation.
Misplaced(x) == crate[crate[x].parent].kind \in {"Trait", "TraitImpl"}

\* When the resolution has ended well no two items have the same canonical
\* path, which is what names them in the generated code, unless one of them is
\* such a function.
CanonicalPathsDistinct ==
  Running /\ Over => \A x, y \in Items :
    x # y /\ canonicals[x] # <<>> /\ canonicals[x] = canonicals[y]
      => Misplaced(x) \/ Misplaced(y)

\* It has then been given a path without a prefix, if it stands in a body.
InGatheredBody(x) == Gathered(x) /\ InBody(x) /\ crate[x].kind \notin Impls

\* The implementations of a trait that are given up: for a tuple, or with a
\* super too many or a self that is not the first word.
GivenUp(o) == \E t \in ToSet(crate[o].types) :
  \/ t.form = "tuple"
  \/ \E i \in DOMAIN t.path : t.path[i] = "super" \/ (i > 1 /\ t.path[i] = "self")
Abandoned(x) == \E o \in Node("TraitImpl") \cap OpenAround(x) : GivenUp(o)

\* The two passes disagree about the path of an item only when it stands
\* directly in a body; the process then ends, so that no such item has been
\* visited if it ends well.
PassesAgree ==
  /\ outcome = "surprised" => \E x \in Items : InGatheredBody(x)
  /\ Running /\ Over => \A x \in Items : InGatheredBody(x) => Abandoned(x)

\* A name can be entered at all times: no scope is ever empty, nor is the stack
\* of modules before the crate is left.  All are then back where they began.
ScopesNest ==
  /\ Len(nameScope) > 0 /\ Len(typeScope) > 0 /\ Len(labelScope) > 0
  /\ work # <<>> => Len(modules) > 0
  /\ Running /\ Over => Len(nameScope) = 1 /\ Len(typeScope) = 1 /\ Len(labelScope) = 1

\* When the resolution has ended well every item has its path, unless it stands
\* in an implementation of a trait that was given up.
AllNamed ==
  Running /\ Over => \A x \in Items : crate[x].kind \in Impls \/ canonicals[x] # <<>> \/ Abandoned(x)

\* When the two passes over the items end well, whatever they have to agree on
\* they agree on, and nothing is left out.
VisitsEndWell == PassesAgree /\ AllNamed
=============================================================================
