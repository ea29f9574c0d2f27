------------------------------ MODULE TypePaths ------------------------------
(***************************************************************************)
(* Resolution of the paths items are written with (sema/Resolver/Types.cpp *)
(* and Path.cpp): types, and the paths of visibilities.                    *)
(*                                                                         *)
(* A path is a sequence of words: crate, super, self, Self or a name.  A   *)
(* type [form, path, args] is a path, with at most one generic argument;   *)
(* something built on one type (parentheses, reference, raw pointer,       *)
(* slice, array, dyn or impl of one bound), a tuple of one type, or a form *)
(* no handler knows.                                                       *)
(*                                                                         *)
(* The operators look at the resolver through env: the scopes, the stack   *)
(* of modules, TyCtx::moduleChildItems and the names of the items.  What   *)
(* they insert is a log of <<i, space, definition>>: segment i, or 0 for   *)
(* the whole path.  Generic arguments are resolved before the path they    *)
(* stand in, not between its segments.                                     *)
(***************************************************************************)
EXTENDS Ribs, SequencesExt

CONSTANT Words   \* the names of items

CrateNode == 1

Type(form, path, args) == [form |-> form, path |-> path, args |-> args]

\* A segment of a canonical path is a sequence of words: one for an item,
\* several for the segments the resolver makes from the text of other paths.
Segment(word) == <<word>>
Single(word)  == <<Segment(word)>>
Path(words)   == [i \in DOMAIN words |-> Segment(words[i])]
AsString(path) == FlattenSeq(path)

-----------------------------------------------------------------------------
(* Modules *)

PeekCurrentModuleScope(env) == Last(env.modules)

PeekParentModuleScope(env) == env.modules[Len(env.modules) - 1]

IsModule(env, id) == env.children[id] # <<>>
IsCrate(id) == id = CrateNode

\* The first child of that name, whatever else the module has by it.
LookupModuleChild(env, module, word) ==
  LET hits == {i \in DOMAIN env.children[module] :
                 env.called[env.children[module][i]] = word}
  IN  IF hits = {} THEN NoNode ELSE env.children[module][FirstIndex(hits)]

\* Where a node is declared: the name scope is asked first.
Space(env, id) ==
  IF WasDeclDeclaredInCurrentScope(env.names, id) THEN "name"
  ELSE IF WasDeclDeclaredInCurrentScope(env.types, id) THEN "type" ELSE "none"

-----------------------------------------------------------------------------
(* The loop over the segments *)

\* module: moduleScopeId; previous: previousResolveNodeId; end: how the loop
\* is left early, if it is.
Start(env) == [module |-> PeekCurrentModuleScope(env),
               previous |-> PeekCurrentModuleScope(env),
               resolved |-> NoNode, log |-> {}, end |-> "no"]

Ended(s, how) == [s EXCEPT !.end = how]

\* Mutant of EnterModule: moduleScopeId stays what it was.
EnterNothing(s, i, m) == [s EXCEPT !.log = @ \cup {<<i, "name", m>>}]

EnterModule(s, i, m) ==
  [s EXCEPT !.module = m, !.previous = m, !.log = @ \cup {<<i, "name", m>>}]

\* The module reached so far is compared with the crate, the stack is asked for
\* the parent: a::super in the crate is an assertion failure.
Super(env, s, i) ==
  IF s.module = CrateNode THEN Ended(s, "nullopt")
  ELSE IF Len(env.modules) < 2 THEN Ended(s, "abort")
  ELSE EnterModule(s, i, PeekParentModuleScope(env))

Resolved(s, i, space, id) ==
  [s EXCEPT !.resolved = id, !.log = @ \cup {<<i, space, id>>}]

\* The first segment is looked up in the scopes.
AtStart(env, s, word) ==
  LET t == Lookup(env.types, Single(word))
      n == Lookup(env.names, Single(word))
  IN  IF t # NoNode THEN Resolved(s, 1, "type", t)
      ELSE IF n # NoNode THEN Resolved(s, 1, "name", n) ELSE s

\* A segment that is a child of the module reached so far.
AsChild(env, s, i, word) ==
  LET child == LookupModuleChild(env, s.module, word)
  IN  IF child = NoNode THEN s
      ELSE IF Space(env, child) = "none" THEN Ended(s, "nullopt")
      ELSE Resolved(s, i, Space(env, child), child)

\* Nothing found for the first segment ends the process.
Settle(env, s, i) ==
  IF s.end # "no" THEN s
  ELSE IF s.resolved = NoNode THEN IF i = 1 THEN Ended(s, "exit") ELSE s
  ELSE [s EXCEPT !.previous = s.resolved,
                 !.module = IF IsModule(env, s.resolved) \/ IsCrate(s.resolved)
                            THEN s.resolved ELSE @]

TypeSegment(env, path, s, i) ==
  LET word == path[i]
      t    == IF i = 1 THEN AtStart(env, s, word) ELSE s
  IN  IF s.end # "no" THEN s
      ELSE IF word = "self" /\ i > 1 THEN Ended(s, "nullopt")
      ELSE IF word = "crate" THEN EnterModule(s, i, CrateNode)
      ELSE IF word = "super" THEN Super(env, s, i)
      ELSE IF word = "self" /\ t.resolved = NoNode THEN EnterModule(s, i, CrateNode)
      ELSE IF t.resolved = NoNode /\ t.previous = t.module /\ word \in Words
           THEN Settle(env, AsChild(env, t, i, word), i)
           ELSE Settle(env, t, i)

\* def NoNode with some: an optional that holds UNKNOWN_NODEID.
Result(def, some, log, end) == [def |-> def, some |-> some, log |-> log, end |-> end]

\* What the loop has left behind.
TypeResult(env, s, space) ==
  IF s.end = "exit" THEN Result(NoNode, FALSE, s.log, "exited")
  ELSE IF s.end = "abort" THEN Result(NoNode, FALSE, s.log, "aborted")
  ELSE IF s.end = "nullopt" THEN Result(NoNode, FALSE, s.log, "running")
  ELSE IF s.resolved = NoNode THEN Result(NoNode, TRUE, s.log, "running")
  ELSE IF space = "none" THEN Result(NoNode, FALSE, s.log, "aborted")  \* llvm_unreachable
  ELSE Result(s.resolved, TRUE, s.log \cup {<<0, space, s.resolved>>}, "running")

ResolveRelativeTypePath(env, path) ==
  LET walk[i \in 0..Len(path)] ==
        IF i = 0 THEN Start(env) ELSE TypeSegment(env, path, walk[i - 1], i)
      Left(s) == TypeResult(env, s, Space(env, s.resolved))
  IN  Left(walk[Len(path)])

-----------------------------------------------------------------------------
(* Types *)

NoArg == <<>>

ResolveTypeNoBounds(env, type) ==
  CASE type.form \in {"path", "wrapped"} -> ResolveRelativeTypePath(env, type.path)
    [] type.form = "tuple" ->
         [ResolveRelativeTypePath(env, type.path) EXCEPT !.def = NoNode, !.some = FALSE]
    [] type.form = "unhandled" -> Result(NoNode, FALSE, {}, "aborted")

\* The canonical path of what a type path has been resolved to; only a path
\* is handled.  A generic argument is appended as a segment of its own.
HasCanonicalPath(type, def) == type.form = "path" /\ def # NoNode

WithArguments(canon, arg) ==
  IF arg = <<>> THEN canon ELSE Append(canon, <<"<">> \o AsString(arg))

-----------------------------------------------------------------------------
(* Paths of visibilities *)

\* Unlike the segments of a type, each segment starts anew; nothing asks
\* whether the first one is Self or self: getName of a key word throws.
SimpleSegment(env, path, s0, i) ==
  LET word == path[i]
      s == [s0 EXCEPT !.resolved = NoNode]
      c == AsChild(env, s, i, word)
      n == Lookup(env.names, Single(word))
      t == Lookup(env.types, Single(word))
      f == IF c.resolved # NoNode \/ i > 1 THEN c
           ELSE IF n # NoNode THEN Resolved(c, i, "name", n)
           ELSE IF t # NoNode THEN Resolved(c, i, "type", t) ELSE c
  IN  IF s0.end # "no" THEN s0
      ELSE IF word = "crate" THEN EnterModule(s, i, CrateNode)
      ELSE IF word = "super" THEN Super(env, s, i)
      ELSE IF word = "self" THEN Ended(s, "abort")
      ELSE IF c.end # "no" THEN c
      ELSE IF f.resolved = NoNode THEN Ended(f, "nullopt")
      ELSE [f EXCEPT !.module = IF IsModule(env, f.resolved) THEN f.resolved ELSE @]

SimpleResult(s, space) ==
  LET whole == IF s.resolved = NoNode \/ space = "none" THEN {} ELSE {<<0, space, s.resolved>>}
  IN  IF s.end = "abort" THEN Result(NoNode, FALSE, s.log, "aborted")
      ELSE IF s.end = "nullopt" THEN Result(NoNode, FALSE, s.log, "running")
      ELSE Result(s.resolved, TRUE, s.log \cup whole, "running")

ResolveSimplePath(env, path) ==
  LET walk[i \in 0..Len(path)] ==
        IF i = 0 THEN Start(env) ELSE SimpleSegment(env, path, walk[i - 1], i)
      Left(s) == SimpleResult(s, Space(env, s.resolved))
  IN  Left(walk[Len(path)])

\* Only pub(in path) has something to resolve.
Public == <<>>
ResolveVisibility(env, vis) ==
  IF vis = Public THEN Result(NoNode, TRUE, {}, "running") ELSE ResolveSimplePath(env, vis)
=============================================================================
