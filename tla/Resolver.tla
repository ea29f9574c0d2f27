------------------------------ MODULE Resolver ------------------------------
(***************************************************************************)
(* Resolution of the bodies of a crate (sema/Resolver/): functions,        *)
(* blocks, let statements, closures, match arms, if let, loops and the     *)
(* single-segment paths in them.                                           *)
(*                                                                         *)
(* The resolver is a recursive visitor.  Its C++ call stack is `calls`,    *)
(* one activation per construct that opens a rib or a pattern context; the *)
(* syntax tree is not a parameter but chosen step by step, so a behaviour  *)
(* is the visit of one crate and the behaviours cover every crate of up to *)
(* MaxNode nodes.  The stage of an activation says how far the handler is: *)
(*   items     the crate, between two functions                            *)
(*   patterns  between two calls of PatternDeclaration                     *)
(*   params    between two closure parameters                              *)
(*   guard     before or in the guard of a match arm                       *)
(*   body      before the root expression of a match arm                   *)
(*   expr      in an expression (or, in a block, a statement) position     *)
(*   done      the root expression of the arm has been resolved            *)
(* Items other than functions and multi-segment paths are not modelled,    *)
(* nor that a name may denote an item: module Items gathers the items, and *)
(* resolvePathInExpression asks a module for them when no scope helps.     *)
(***************************************************************************)
EXTENDS Ribs

CONSTANT MaxCalls    \* bound on the depth of the syntax tree

ASSUME ResolverAssumption == MaxCalls \in Nat \ {0}

VARIABLES
  nameScope, typeScope, labelScope,  \* Resolver::nameScope and so on
  closureContext,   \* the closures whose bodies are being resolved
  captures,         \* closureCaptureMappings
  resolvedNames,    \* reference -> definition
  resolvedTypes,
  reported,         \* names reported as bound more than once in a pattern
  calls,            \* the activations of the visitor, outermost first
  nextNode,         \* the node the visitor meets next
  outcome,          \* "running", or how the process has ended
  within,           \* history: node -> closures that enclose it
  declRib           \* history: declaration -> node of its rib

scopes  == <<nameScope, typeScope, labelScope>>
history == <<within, declRib>>
vars == <<nameScope, typeScope, labelScope, closureContext, captures,
          resolvedNames, resolvedTypes, reported, calls, nextNode, outcome,
          within, declRib>>

CallKind == {"crate", "function", "block", "let", "closure", "arm", "iflet",
             "for"}
Stage    == {"items", "patterns", "params", "guard", "body", "expr", "done"}
Call     == [kind : CallKind, node : NodeId, stage : Stage,
             bindings : SUBSET NodeId]   \* PatternBinding::idents

CrateNode == 1

Activation(kind, id, stage) ==
  [kind |-> kind, node |-> id, stage |-> stage, bindings |-> {}]

Top == calls[Len(calls)]

\* The closures whose rib is on the stack.
OpenClosures == {calls[i].node : i \in {j \in 1..Len(calls) :
                                          calls[j].kind = "closure"}}

TypeOK ==
  /\ nameScope \in Seq(Rib) /\ typeScope \in Seq(Rib) /\ labelScope \in Seq(Rib)
  /\ closureContext \in Seq(NodeId)
  /\ captures \in [NodeId -> SUBSET NodeId]
  /\ resolvedNames \in [NodeId -> NodeId \cup {NoNode}]
  /\ resolvedTypes \in [NodeId -> NodeId \cup {NoNode}]
  /\ reported \in SUBSET Name
  /\ calls \in Seq(Call) /\ calls # <<>>
  /\ nextNode \in 2..(MaxNode + 1)
  /\ outcome \in {"running", "exited", "aborted"}
  /\ within \in [NodeId -> SUBSET NodeId]
  /\ declRib \in [NodeId -> NodeId \cup {NoNode}]

\* resolveCrate has pushed one rib on every scope.  A closure that is absent
\* from closureCaptureMappings and one that captures nothing are both {}, as
\* TyCtx::getCaptures makes them.
Init ==
  /\ nameScope  = <<NewRib(CrateNode)>>
  /\ typeScope  = <<NewRib(CrateNode)>>
  /\ labelScope = <<NewRib(CrateNode)>>
  /\ closureContext = <<>>
  /\ captures = [c \in NodeId |-> {}]
  /\ resolvedNames = [r \in NodeId |-> NoNode]
  /\ resolvedTypes = [r \in NodeId |-> NoNode]
  /\ reported = {}
  /\ calls = <<Activation("crate", CrateNode, "items")>>
  /\ nextNode = 2
  /\ outcome = "running"
  /\ within = [d \in NodeId |-> {}]
  /\ declRib = [d \in NodeId |-> NoNode]

-----------------------------------------------------------------------------
(* The call stack *)

Running == outcome = "running"
HasNode == nextNode <= MaxNode       \* bound: the syntax tree is finite
HasRoom == Len(calls) < MaxCalls     \* bound: and so is its depth

AtExpression == Running /\ Top.stage \in {"guard", "body", "expr"}
AtPath       == Running /\ Top.stage \notin {"items", "done"}

\* The next expression belongs to the root expression of an arm, so the root
\* is a compound one; in every other position the stage stays.
WithinRoot(cs) ==
  [cs EXCEPT ![Len(cs)].stage = IF @ = "body" THEN "expr" ELSE @]

\* The node of a construct that opens ribs: a fresh one, or, when it is itself
\* the body of a match arm, the node resolveMatchExpression has already used
\* for the rib of that arm.
ConstructNode(id) ==
  \/ id = nextNode /\ HasNode
  \/ Top.stage = "body" /\ id = Top.node

CallsAfterEntering(id, call) ==
  Append(IF id = nextNode THEN WithinRoot(calls)
         ELSE [calls EXCEPT ![Len(calls)].stage = "done"], call)

Enter(id, call) ==
  /\ HasRoom
  /\ calls' = CallsAfterEntering(id, call)
  /\ nextNode' = IF id = nextNode THEN nextNode + 1 ELSE nextNode

PushRibs(id) ==
  /\ nameScope'  = Push(nameScope, id)
  /\ typeScope'  = Push(typeScope, id)
  /\ labelScope' = Push(labelScope, id)

\* Mutant of PopRibs: one handler, that of closures, forgets the type scope.
PopRibsButTypeOfClosure ==
  /\ nameScope'  = Pop(nameScope)
  /\ labelScope' = Pop(labelScope)
  /\ typeScope'  = IF Top.kind = "closure" THEN typeScope ELSE Pop(typeScope)

\* Each handler has three pops of its own, the same for all kinds of construct.
PopRibs ==
  /\ nameScope'  = Pop(nameScope)
  /\ typeScope'  = Pop(typeScope)
  /\ labelScope' = Pop(labelScope)

Return == calls' = SubSeq(calls, 1, Len(calls) - 1)

Proceed(from, to) ==
  /\ Top.stage = from
  /\ calls' = [calls EXCEPT ![Len(calls)].stage = to]

-----------------------------------------------------------------------------
(* insertResolvedName, insertResolvedType, insertCapturedItem *)

\* Mutant of NeedCapture: only the innermost closure captures.
NeedCaptureInnermost(scope, d) ==
  {c \in NodeId : /\ closureContext # <<>>
                  /\ c = closureContext[Len(closureContext)]
                  /\ LookupDeclType(scope, d) = "Variable"
                  /\ DeclNeedsCapture(RibNodeForDecl(scope, d), c, scope)}

\* The closures that have to capture declaration d: those being resolved whose
\* rib comes after the rib of d.  Only a let or pattern variable is captured.
NeedCapture(scope, d) ==
  {c \in NodeId : /\ \E i \in 1..Len(closureContext) : closureContext[i] = c
                  /\ LookupDeclType(scope, d) = "Variable"
                  /\ DeclNeedsCapture(RibNodeForDecl(scope, d), c, scope)}

InsertCapturedItem(scope, d) ==
  captures' = [c \in NodeId |-> IF c \in NeedCapture(scope, d)
                                THEN captures[c] \cup {d} ELSE captures[c]]

InsertResolvedName(ref, d) ==
  /\ resolvedNames' = [resolvedNames EXCEPT ![ref] = d]
  /\ nameScope' = AppendReferenceForDef(nameScope, ref, d)
  /\ InsertCapturedItem(nameScope, d)
  /\ UNCHANGED <<typeScope, resolvedTypes>>

InsertResolvedType(ref, d) ==
  /\ resolvedTypes' = [resolvedTypes EXCEPT ![ref] = d]
  /\ typeScope' = AppendReferenceForDef(typeScope, ref, d)
  /\ UNCHANGED <<nameScope, resolvedNames, captures>>

NothingResolved ==
  UNCHANGED <<nameScope, typeScope, resolvedNames, resolvedTypes, captures>>

\* The next node is a reference: history remembers in which closure bodies.
NewReference ==
  /\ HasNode
  /\ nextNode' = nextNode + 1
  /\ within' = [within EXCEPT ![nextNode] =
                   {closureContext[i] : i \in 1..Len(closureContext)}]

-----------------------------------------------------------------------------
(* Paths of one segment *)

\* resolvePathInExpression: a value first, then a type.  When neither scope
\* knows the name the error is only printed.
ResolvePathInExpression(n) ==
  LET name == Lookup(nameScope, n)
      type == Lookup(typeScope, n)
  IN  /\ AtPath
      /\ NewReference
      /\ \/ name # NoNode /\ InsertResolvedName(nextNode, name)
         \/ name = NoNode /\ type # NoNode /\ InsertResolvedType(nextNode, type)
         \/ name = NoNode /\ type = NoNode /\ NothingResolved
      /\ calls' = WithinRoot(calls)
      /\ UNCHANGED <<labelScope, closureContext, reported, outcome, declRib>>

\* resolveRelativeTypePath: a type first, then a value; an unknown name ends
\* the process.
ResolveRelativeTypePath(n) ==
  LET name == Lookup(nameScope, n)
      type == Lookup(typeScope, n)
  IN  /\ AtPath
      /\ NewReference
      /\ \/ type # NoNode /\ InsertResolvedType(nextNode, type)
         \/ type = NoNode /\ name # NoNode /\ InsertResolvedName(nextNode, name)
         \/ type = NoNode /\ name = NoNode /\ NothingResolved
      /\ outcome' = IF type = NoNode /\ name = NoNode THEN "exited" ELSE outcome
      /\ calls' = WithinRoot(calls)
      /\ UNCHANGED <<labelScope, closureContext, reported, declRib>>

\* resolveOperatorExpression, assignments: both sides are resolved, then
\* verifyAssignee asserts that the assigned name is in the name scope.
ResolveAssignment(n) ==
  LET name == Lookup(nameScope, n)
      type == Lookup(typeScope, n)
  IN  /\ AtExpression
      /\ NewReference
      /\ \/ name # NoNode /\ InsertResolvedName(nextNode, name)
         \/ name = NoNode /\ type # NoNode /\ InsertResolvedType(nextNode, type)
         \/ name = NoNode /\ type = NoNode /\ NothingResolved
      /\ outcome' = IF name = NoNode THEN "aborted" ELSE outcome
      /\ calls' = WithinRoot(calls)
      /\ UNCHANGED <<labelScope, closureContext, reported, declRib>>

\* Whatever is assigned to but a path is an assertion failure there.
VerifyOtherAssignee ==
  /\ AtExpression
  /\ outcome' = "aborted"
  /\ UNCHANGED <<scopes, closureContext, captures, resolvedNames, resolvedTypes,
                 reported, calls, nextNode, history>>

-----------------------------------------------------------------------------
(* Declarations *)

\* The next node is declared in the innermost rib of the name scope.
DeclareName(n, k) ==
  /\ HasNode
  /\ nextNode' = nextNode + 1
  /\ nameScope' = Insert(nameScope, n, nextNode, k)
  /\ within'  = [within EXCEPT ![nextNode] = OpenClosures]
  /\ declRib' = [declRib EXCEPT ![nextNode] = Peek(nameScope).node]

\* PatternDeclaration::addNewBinding.  The set of the context holds the nodes of
\* the identifiers bound so far, and is asked for the node of this one; every
\* context is created as a Product.
AddNewBinding(n) ==
  /\ Running /\ Top.stage = "patterns"
  /\ DeclareName(n, IF Top.kind = "function" THEN "Parameter" ELSE "Variable")
  /\ reported' = IF nextNode \in Top.bindings THEN reported \cup {n} ELSE reported
  /\ calls' = [calls EXCEPT ![Len(calls)].bindings = @ \cup {nextNode}]
  /\ UNCHANGED <<typeScope, labelScope, closureContext, captures, resolvedNames,
                 resolvedTypes, outcome>>

\* resolveClosureParameter: the PatternDeclaration is built but not resolved, an
\* identifier pattern is declared directly, as a variable.
ResolveClosureParameter(n) ==
  /\ Running /\ Top.stage = "params"
  /\ DeclareName(n, "Variable")
  /\ UNCHANGED <<typeScope, labelScope, closureContext, captures, resolvedNames,
                 resolvedTypes, reported, calls, outcome>>

\* A path, _ or whatever else needs no range for a pattern ends the process.
RejectClosureParameter ==
  /\ Running /\ Top.stage = "params"
  /\ outcome' = "exited"
  /\ UNCHANGED <<scopes, closureContext, captures, resolvedNames, resolvedTypes,
                 reported, calls, nextNode, history>>

\* resolveStructExprFields: the name of a field is declared, too, in the rib the
\* struct expression is in.
ResolveStructExprField(n) ==
  /\ AtExpression
  /\ DeclareName(n, "Type")
  /\ calls' = WithinRoot(calls)
  /\ UNCHANGED <<typeScope, labelScope, closureContext, captures, resolvedNames,
                 resolvedTypes, reported, outcome>>

\* resolveTypeParam: generic parameters come before the parameters.
ResolveTypeParam(n) ==
  /\ Running /\ Top.kind = "function" /\ Top.stage = "patterns"
  /\ Top.bindings = {}
  /\ HasNode
  /\ nextNode' = nextNode + 1
  /\ typeScope' = Insert(typeScope, n, nextNode, "Type")
  /\ UNCHANGED <<nameScope, labelScope, closureContext, captures, resolvedNames,
                 resolvedTypes, reported, calls, outcome, history>>

-----------------------------------------------------------------------------
(* Constructs: entering, proceeding, leaving *)

EnterConstruct(kind, stage) ==
  \E id \in NodeId :
    /\ ConstructNode(id)
    /\ Enter(id, Activation(kind, id, stage))
    /\ PushRibs(id)

\* resolveFunction, for an item of the crate or of a block.
ResolveFunction ==
  /\ Running
  /\ \/ Top.stage = "items"
     \/ Top.kind = "block"
  /\ EnterConstruct("function", "patterns")
  /\ UNCHANGED <<closureContext, captures, resolvedNames, resolvedTypes,
                 reported, outcome, history>>

ResolveBlockExpression ==
  /\ AtExpression
  /\ EnterConstruct("block", "expr")
  /\ UNCHANGED <<closureContext, captures, resolvedNames, resolvedTypes,
                 reported, outcome, history>>

\* resolveInfiniteLoopExpression: the label goes into the rib that encloses the
\* loop, the ribs of the body are those of its block.
ResolveInfiniteLoopExpression(l) ==
  /\ AtExpression /\ HasRoom
  /\ nextNode < MaxNode
  /\ labelScope' = Push(Insert(labelScope, l, nextNode, "Label"), nextNode + 1)
  /\ nameScope'  = Push(nameScope, nextNode + 1)
  /\ typeScope'  = Push(typeScope, nextNode + 1)
  /\ calls' = Append(WithinRoot(calls), Activation("block", nextNode + 1, "expr"))
  /\ nextNode' = nextNode + 2
  /\ UNCHANGED <<closureContext, captures, resolvedNames, resolvedTypes,
                 reported, outcome, history>>

\* resolveLetStatement after its initialiser: a pattern context, but no rib.
\* What follows it in the block sees the bindings, its else block included.
ResolveLetStatement ==
  /\ Running /\ Top.kind = "block" /\ HasRoom /\ HasNode
  /\ calls' = Append(calls, Activation("let", nextNode, "patterns"))
  /\ nextNode' = nextNode + 1
  /\ UNCHANGED <<scopes, closureContext, captures, resolvedNames, resolvedTypes,
                 reported, outcome, history>>

\* resolveClosureExpression opens its ribs for the parameters ...
ResolveClosureExpression ==
  /\ AtExpression
  /\ EnterConstruct("closure", "params")
  /\ within' = [within EXCEPT ![calls'[Len(calls')].node] = OpenClosures]
  /\ UNCHANGED <<closureContext, captures, resolvedNames, resolvedTypes,
                 reported, outcome, declRib>>

\* ... and captures only while it resolves the body.
ResolveClosureBody ==
  /\ Running /\ Proceed("params", "expr")
  /\ closureContext' = Append(closureContext, Top.node)
  /\ UNCHANGED <<scopes, captures, resolvedNames, resolvedTypes, reported,
                 nextNode, outcome, history>>

\* One arm of resolveMatchExpression: its ribs take the node of the body.  The
\* guard is resolved before the patterns.
ResolveMatchArm ==
  /\ AtExpression /\ HasNode
  /\ Enter(nextNode, Activation("arm", nextNode, "guard"))
  /\ PushRibs(nextNode)
  /\ UNCHANGED <<closureContext, captures, resolvedNames, resolvedTypes,
                 reported, outcome, history>>

\* resolveIfLetExpression after its scrutinee.
ResolveIfLetExpression ==
  /\ AtExpression
  /\ EnterConstruct("iflet", "patterns")
  /\ UNCHANGED <<closureContext, captures, resolvedNames, resolvedTypes,
                 reported, outcome, history>>

\* resolveIteratorLoopExpression: the iterated expression is resolved inside the
\* ribs of the loop, after the patterns.
ResolveIteratorLoopExpression ==
  /\ AtExpression
  /\ EnterConstruct("for", "patterns")
  /\ UNCHANGED <<closureContext, captures, resolvedNames, resolvedTypes,
                 reported, outcome, history>>

\* From the guard of an arm to its patterns, from patterns to what follows them.
ResolvePatterns ==
  /\ Running
  /\ \/ Proceed("guard", "patterns")
     \/ Top.kind = "arm" /\ Proceed("patterns", "body")
     \/ Top.kind \in {"function", "iflet", "for"} /\ Proceed("patterns", "expr")
  /\ UNCHANGED <<scopes, closureContext, captures, resolvedNames, resolvedTypes,
                 reported, nextNode, outcome, history>>

\* Mutant of PopClosureContext: an early return keeps the closure open.
KeepClosureContext == UNCHANGED closureContext

PopClosureContext ==
  closureContext' = IF Top.kind = "closure"
                    THEN SubSeq(closureContext, 1, Len(closureContext) - 1)
                    ELSE closureContext

\* The end of a handler: the ribs it has pushed are popped from the three
\* scopes, and a closure leaves the closure context.
LeaveConstruct ==
  /\ Running /\ Len(calls) > 1
  /\ Top.stage \in {"body", "expr", "done"} \/ Top.kind = "let"
  /\ Return
  /\ IF Top.kind = "let" THEN UNCHANGED scopes ELSE PopRibs
  /\ PopClosureContext
  /\ UNCHANGED <<captures, resolvedNames, resolvedTypes, reported, nextNode,
                 outcome, history>>

-----------------------------------------------------------------------------
Next ==
  \/ \E n \in Name : \/ ResolvePathInExpression(n)
                     \/ ResolveRelativeTypePath(n)
                     \/ ResolveAssignment(n)
                     \/ AddNewBinding(n)
                     \/ ResolveClosureParameter(n)
                     \/ ResolveStructExprField(n)
                     \/ ResolveTypeParam(n)
                     \/ ResolveInfiniteLoopExpression(n)
  \/ VerifyOtherAssignee \/ RejectClosureParameter
  \/ ResolveFunction \/ ResolveBlockExpression \/ ResolveLetStatement
  \/ ResolveClosureExpression \/ ResolveClosureBody \/ ResolveMatchArm
  \/ ResolveIfLetExpression \/ ResolveIteratorLoopExpression
  \/ ResolvePatterns \/ LeaveConstruct

Spec == Init /\ [][Next]_vars

-----------------------------------------------------------------------------
(* Properties *)

\* The three scopes move together: each has one rib per activation that opens
\* ribs, with the node of that activation, whatever the order in which
\* handlers were entered and left; only a let statement, which is always the
\* innermost activation, has none.  The closure context holds exactly the
\* closures whose bodies are being resolved.
Depth == IF Top.kind = "let" THEN Len(calls) - 1 ELSE Len(calls)

RibsOf(scope) == /\ Len(scope) = Depth
                 /\ \A i \in 1..Depth : scope[i].node = calls[i].node

ScopesBalanced ==
  /\ RibsOf(nameScope) /\ RibsOf(typeScope) /\ RibsOf(labelScope)
  /\ \A i \in 1..(Len(calls) - 1) : calls[i].kind # "let"

ClosureContextExact ==
  {closureContext[i] : i \in 1..Len(closureContext)} =
    {calls[i].node : i \in {j \in 1..Len(calls) :
                     calls[j].kind = "closure" /\ calls[j].stage # "params"}}

\* What a closure captures is a declaration made outside it, never one of its
\* own parameters or of its body's bindings.
CapturesSound ==
  \A c \in NodeId : \A d \in captures[c] :
     declRib[d] # NoNode /\ c \notin within[d]

\* A closure can only lend a nested closure what it holds itself: when the
\* nested closure captures a declaration from outside both, the outer one
\* captures it too.  The exception is the body of a match arm: its rib has the
\* node of the arm's rib, and insertCapturedItem takes the bindings of the arm
\* for its own.
CapturesNested ==
  \A c \in NodeId : \A d \in captures[c] :
    \A outer \in within[c] \ within[d] :
       declRib[d] # outer => d \in captures[outer]

\* "captured variables by current closure" (Resolver.h:715): a let or pattern
\* variable named in a closure and declared outside it is captured, with the
\* exception for arms of CapturesNested.
RefersFromInside(r, c) == c \in within[r] \ within[resolvedNames[r]]
IsVariable(d) == LookupDeclType(nameScope, d) = "Variable"

CapturesCompleteOutsideArms ==
  \A r, c \in NodeId :
    /\ resolvedNames[r] # NoNode
    /\ RefersFromInside(r, c)
    /\ IsVariable(resolvedNames[r])
    /\ declRib[resolvedNames[r]] # c
    => resolvedNames[r] \in captures[c]

\* The same without the exception.
CapturesComplete ==
  \A r, c \in NodeId :
    /\ resolvedNames[r] # NoNode
    /\ RefersFromInside(r, c)
    /\ IsVariable(resolvedNames[r])
    => resolvedNames[r] \in captures[c]

\* The resolver implements lexical visibility: a reference denotes a
\* declaration of a construct that is still open.
Visible == INSTANCE VisibleScope WITH
  Decl <- NodeId, Ref <- NodeId, None <- NoNode,
  env <- [i \in 1..Len(nameScope) |-> nameScope[i].path],
  denotes <- resolvedNames

ImplementsVisibleScope == Visible!Spec
=============================================================================
