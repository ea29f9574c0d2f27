-------------------------------- MODULE Ribs --------------------------------
(***************************************************************************)
(* Ribs and scopes of the name resolver (sema/Resolver/Resolver.cpp).      *)
(*                                                                         *)
(* A Rib records the declarations of one syntactic construct; a Scope is a *)
(* vector of ribs, the outermost first and the innermost last (push_back). *)
(* Every operator here is a member function of Rib or Scope; none of them  *)
(* has a state of its own, so they are shared by every module that models  *)
(* a part of the resolver.                                                 *)
(*                                                                         *)
(* Names are atoms: the comparison the code keys its maps with is not      *)
(* modelled.  std::nullopt and UNKNOWN_NODEID are both NoNode.             *)
(***************************************************************************)
EXTENDS Naturals, Sequences

CONSTANTS Name,     \* single-segment canonical paths
          MaxNode   \* bound on the number of AST nodes

ASSUME RibsAssumption == MaxNode \in Nat \ {0}

NodeId == 1..MaxNode
NoNode == 0

RibKind == {"Dummy", "Function", "Label", "Parameter", "Type", "Variable",
            "Constant"}
NoKind  == "none"

Rib == [node  : NodeId,
        path  : [Name -> NodeId \cup {NoNode}],      \* pathMappings
        kind  : [NodeId -> RibKind \cup {NoKind}],   \* declTypeMappings
        decls : SUBSET NodeId,                       \* declsWithinRib
        refs  : [NodeId -> SUBSET NodeId]]           \* references

NewRib(id) == [node  |-> id,
               path  |-> [n \in Name |-> NoNode],
               kind  |-> [d \in NodeId |-> NoKind],
               decls |-> {},
               refs  |-> [d \in NodeId |-> {}]]

-----------------------------------------------------------------------------
(* Rib *)

\* std::map::insert on declTypeMappings keeps the kind a declaration already
\* has, operator[] on pathMappings and references overwrites.
InsertName(rib, n, id, shadow, k) ==
  IF rib.path[n] # NoNode /\ ~shadow
  THEN rib
  ELSE [rib EXCEPT !.path[n]   = id,
                   !.decls     = @ \cup {id},
                   !.refs[id]  = {},
                   !.kind[id]  = IF @ = NoKind THEN k ELSE @]

\* clearName leaves declTypeMappings and references as they are.
ClearName(rib, n, id) ==
  [rib EXCEPT !.path[n] = NoNode, !.decls = @ \ {id}]

WasDeclDeclaredHere(rib, d) == d \in rib.decls

-----------------------------------------------------------------------------
(* Scope *)

\* Mutant of Push: the new rib goes to the front of the vector.
PushFront(scope, id) == <<NewRib(id)>> \o scope

Push(scope, id) == Append(scope, NewRib(id))
Pop(scope)      == SubSeq(scope, 1, Len(scope) - 1)
Peek(scope)     == scope[Len(scope)]

\* Mutant of Insert: the kind is left at its default, RibKind::Unkown.
InsertUnkown(scope, n, id, k) ==
  [scope EXCEPT ![Len(scope)] = InsertName(@, n, id, TRUE, "Unkown")]

Insert(scope, n, id, k) ==
  [scope EXCEPT ![Len(scope)] = InsertName(@, n, id, TRUE, k)]

\* The loops of the Scope functions run over the vector from its beginning
\* and stop at the first rib that answers: the outermost one.
FirstIndex(I) == CHOOSE i \in I : \A j \in I : i <= j

Lookup(scope, n) ==
  LET hits == {i \in 1..Len(scope) : scope[i].path[n] # NoNode}
  IN  IF hits = {} THEN NoNode ELSE scope[FirstIndex(hits)].path[n]

WasDeclDeclaredInCurrentScope(scope, d) ==
  \E i \in 1..Len(scope) : WasDeclDeclaredHere(scope[i], d)

LookupDeclType(scope, d) ==
  LET hits == {i \in 1..Len(scope) :
                 WasDeclDeclaredHere(scope[i], d) /\ scope[i].kind[d] # NoKind}
  IN  IF hits = {} THEN NoKind ELSE scope[FirstIndex(hits)].kind[d]

\* Mutant of RibNodeForDecl: it returns after the first rib, as
\* appendReferenceForDef does.
RibNodeForDeclFirst(scope, d) ==
  IF WasDeclDeclaredHere(scope[1], d) THEN scope[1].node ELSE NoNode

\* The node of the rib lookupRibForDecl returns.
RibNodeForDecl(scope, d) ==
  LET hits == {i \in 1..Len(scope) : WasDeclDeclaredHere(scope[i], d)}
  IN  IF hits = {} THEN NoNode ELSE scope[FirstIndex(hits)].node

\* The return statement is inside the loop: only the first rib is asked.
AppendReferenceForDef(scope, ref, d) ==
  IF WasDeclDeclaredHere(scope[1], d)
  THEN [scope EXCEPT ![1].refs[d] = @ \cup {ref}]
  ELSE scope

\* Mutant of DeclNeedsCapture: the rib of the declaration is asked for first.
DeclNeedsCaptureSwapped(declRib, closure, scope) ==
  LET closureAt == {i \in 1..Len(scope) : scope[i].node = closure}
      declAt    == {i \in 1..Len(scope) : scope[i].node = declRib}
  IN  /\ declAt # {}
      /\ \A i \in closureAt : FirstIndex(declAt) <= i

\* Whether the rib of the declaration is met before the rib of the closure.
DeclNeedsCapture(declRib, closure, scope) ==
  LET closureAt == {i \in 1..Len(scope) : scope[i].node = closure}
      declAt    == {i \in 1..Len(scope) : scope[i].node = declRib}
  IN  /\ declAt # {}
      /\ \A i \in closureAt : FirstIndex(declAt) < i
=============================================================================
