------------------------------- MODULE MCItems -------------------------------
(***************************************************************************)
(* Small crates: every path of up to three words between two modules, the  *)
(* places functions can stand in, and the items of bodies.                 *)
(***************************************************************************)
EXTENDS Items

MCWords == {"a", "b", "t"}
MCMaxNode == 23

Upto(n, S) == UNION {[1..m -> S] : m \in 1..n}

\* Bound: canonical paths of at most four segments, the longest over two names.
MCName ==
  {Path(w) : w \in {<<"Self">>, <<"i32">>, <<"__$$crate__">>, <<"crate">>, <<"super">>, <<"self">>}
                 \cup Upto(2, MCWords) \cup Upto(3, {"a", "b"})}
    \cup {Path(<<"k">> \o w) : w \in Upto(3, MCWords)}

Plain(path) == Type("path", path, NoArg)

Of(it, types) == [it EXCEPT !.types = types]
Seen(it, vis) == [it EXCEPT !.vis = vis]
Deep(it)      == [it EXCEPT !.deep = TRUE]

\* A tree from the list of its items; siblings have distinct names, and a
\* structure holds no items.
Tree(items) == <<Item("Crate", "k", 0)>> \o items
Legal(tree) ==
  /\ \A x, y \in DOMAIN tree :
       x # y /\ tree[x].parent = tree[y].parent /\ tree[x].name = tree[y].name => tree[x].name = ""
  /\ \A x \in DOMAIN tree \ {CrateNode} : tree[tree[x].parent].kind \notin Structs

-----------------------------------------------------------------------------
(* A module a, an item beside or in it, and an item that names one of them *)

Paths == {<<w>> : w \in {"crate", "super", "self", "a", "b", "Self", "i32"}}
           \cup [1..2 -> {"crate", "super", "self", "a", "b"}]
           \cup {<<"crate", "a", "b">>, <<"super", "super", "a">>, <<"super", "a", "b">>,
                 <<"self", "a", "b">>, <<"a", "b", "a">>, <<"a", "self", "b">>}
FewPaths == {<<"crate", "a">>, <<"super", "b">>, <<"a">>, <<"b">>}

PathTypes == {Plain(p) : p \in Paths}
FewTypes == {Type(f, p, NoArg) : f \in {"wrapped", "tuple", "unhandled"}, p \in FewPaths}
              \cup {Type("path", <<"a">>, <<"b">>)}

User(types, parents) ==
  {Of(Item("StructStruct", n, p), <<t>>) : n \in {"a", "b"}, p \in parents, t \in types}

PathTrees ==
  {Tree(<<Item("Module", "a", 1), Item(k, n, p), u>>) :
      k \in {"Module", "StructStruct", "Function"}, n \in {"a", "b"}, p \in {1, 2},
      u \in User(PathTypes, {1, 2, 3})}

\* Functions, constants, aliases and generic structures use types as well.
OtherUsers ==
  {Of(Item(k, n, p), <<t>>) : k \in {"Function", "TypeAlias", "ConstantItem", "TupleStruct"},
                              n \in {"a", "b"}, p \in {1, 2}, t \in FewTypes}
    \cup {[it EXCEPT !.param = "b"] : it \in User({Plain(q) : q \in FewPaths}, {1, 2})}
    \cup {Seen(it, v) : v \in {<<"crate">>, <<"crate", "a">>, <<"super">>, <<"self">>, <<"b">>, <<"a", "b">>,
                                <<"super", "a">>, <<"i32">>, <<"t">>},
                       it \in {Item(k, n, p) : k \in {"StructStruct", "Module"}, n \in {"a", "b"}, p \in {1, 2}}}

OtherTrees ==
  {Tree(<<Item("Module", "a", 1), Item("StructStruct", "b", p), u>>) : p \in {1, 2}, u \in OtherUsers}

-----------------------------------------------------------------------------
(* A structure b, a trait t and an implementation, with functions a *)

SelfTypes == {Plain(p) : p \in {<<"b">>, <<"crate", "b">>, <<"a", "b">>, <<"i32">>, <<"t">>, <<"super">>}}
               \cup {Type("tuple", <<"b">>, NoArg), Type("wrapped", <<"b">>, NoArg),
                     Type("path", <<"b">>, <<"i32">>)}
TraitTypes == {Plain(<<"t">>), Plain(<<"crate", "t">>), Plain(<<"crate", "super">>)}

Implementations ==
  {Of(Item("InherentImpl", "", p), <<s>>) : p \in {1, 2}, s \in SelfTypes}
    \cup {Of(Item("TraitImpl", "", p), <<t, s>>) : p \in {1, 2}, t \in TraitTypes, s \in SelfTypes}

ImplTrees ==
  {Tree(<<Item("Module", "a", 1), Item("StructStruct", "b", p), Item("Trait", "t", q), i,
          Of(Item("Function", "a", 5), <<Plain(<<"Self">>)>>), Item("Function", "a", r), Item("TypeAlias", "b", 4)>>) :
      p \in {1, 2}, q \in {1, 2}, r \in {2, 4}, i \in Implementations}

-----------------------------------------------------------------------------
(* An item in a body *)

Outer ==
  {<<Item("Function", "a", 1)>>, <<[Item("ConstantItem", "a", 1) EXCEPT !.init = "block"]>>,
   <<Item("Module", "b", 1), Item("Function", "a", 2)>>,
   <<Item("StructStruct", "b", 1), Of(Item("InherentImpl", "", 1), <<Plain(<<"b">>)>>), Item("Function", "a", 3)>>,
   <<Item("Trait", "b", 1), Item("Function", "a", 2)>>,
   <<Item("Function", "a", 1), Item("Module", "b", 2), Item("Function", "a", 3)>>,
   <<Item("Function", "a", 1), Deep(Item("Module", "b", 2)), Item("Function", "a", 3)>>,
   <<Item("Trait", "b", 1), Item("Function", "a", 2), Item("Module", "b", 3), Item("Function", "a", 4)>>,
   <<Item("Trait", "t", 1), Of(Item("TraitImpl", "", 1), <<Plain(<<"t">>), Type("tuple", <<"i32">>, NoArg)>>),
     Item("Function", "a", 3), Item("Module", "b", 4), Item("Function", "a", 5)>>,
   <<Item("Trait", "t", 1), Item("TypeAlias", "b", 2), Item("Function", "a", 1)>>,
   <<Item("Function", "b", 1), Of(Item("InherentImpl", "", 2), <<Plain(<<"i32">>)>>), Item("Function", "a", 3)>>,
   <<Item("Module", "a", 1), Item("Function", "t", 2), Item("StructStruct", "b", 3), Item("Function", "a", 1)>>}

\* A structure in a body that looks for what stands around it.
Lookers(p) ==
  {<<Of(Item("StructStruct", "t", p), <<Plain(q)>>)>> :
     q \in {<<w>> : w \in {"a", "b", "Self"}} \cup ({"crate", "super", "self", "Self", "i32"} \X {"a", "b"})}

InTrait == {"Function", "TypeAlias", "ConstantItem", "MacroItem"}

\* Items of which the first has parent p and the node n.
Inner(p, n) ==
  Lookers(p) \cup
  {<<Item(k, "b", p)>> : k \in Structs \cup Unknown \cup {"TypeAlias", "Union", "Function"}}
    \cup {<<[Item(k, "b", p) EXCEPT !.init = i], Item("StructStruct", "b", n)>> :
            k \in {"ConstantItem", "StaticItem"}, i \in {"block"}}
    \cup {<<[Item("ConstantItem", "b", p) EXCEPT !.init = "expression"]>>}
    \cup {<<Item("Enumeration", "b", p), Of(Item("EnumStruct", "a", n), <<t>>), Item("EnumPlain", "b", n),
            Item("EnumDiscriminant", "t", n)>> : t \in {Plain(<<"b">>), Type("unhandled", <<"b">>, NoArg)}}
    \cup {<<Item("Trait", "b", p), Item(k, "a", n)>> : k \in InTrait}
    \cup {<<Of(Item("InherentImpl", "", p), <<Plain(<<"i32">>)>>), Item(k, "a", n)>> : k \in InTrait}

TopTrees == {Tree(i) : i \in Inner(1, 2)}

MCCrates == {t \in PathTrees \cup OtherTrees \cup ImplTrees \cup TopTrees : Legal(t)}
              \cup UNION {{Tree(o \o <<IF d THEN Deep(Head(i)) ELSE Head(i)>> \o Tail(i)) :
                            d \in BOOLEAN, i \in Inner(Len(o) + 1, Len(o) + 2)} : o \in Outer}
=============================================================================
