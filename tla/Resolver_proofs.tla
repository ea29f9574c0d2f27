-------------------------- MODULE Resolver_proofs --------------------------
(***************************************************************************)
(* What module Resolver keeps true for every set of names and every bound, *)
(* in four parts: what the operators of Ribs return and preserve; that the *)
(* scopes stay balanced; that the resolver implements VisibleScope; and    *)
(* the closures a body is resolved in and what they capture.               *)
(*                                                                         *)
(* The inductive invariant IInv adds to TypeOK and ScopesBalanced where a  *)
(* let statement can be on the call stack.  Every step maps to a step of   *)
(* VisibleScope or to a stutter; what has to be known for that besides     *)
(* IInv is that the visitor never hands out a node twice.                  *)
(*                                                                         *)
(* Whether a closure has to capture a declaration is decided by the order  *)
(* in which ribs are met (DeclNeedsCapture).  That order is the order of   *)
(* the node ids of the activations, but for an arm and the construct that  *)
(* is its body, which have one id; so what a declaration is within can be  *)
(* read from the position of its rib, for as long as it is open.           *)
(***************************************************************************)
EXTENDS Resolver, FiniteSetTheorems, WellFoundedInduction, SequenceTheorems, TLAPS

-----------------------------------------------------------------------------
(* The operators of Ribs *)

\* The loops of the Scope functions find a rib whenever one answers: a
\* non-empty set of positions has a first one, because the interval that ends
\* there is a smallest one.
LEMMA FirstIndexExists ==
  ASSUME NEW I \in SUBSET Nat, I # {}
  PROVE  /\ FirstIndex(I) \in I
         /\ \A j \in I : FirstIndex(I) <= j
<1> DEFINE Below == {1..i : i \in I}
<1>1. Below \subseteq FiniteSubsetsOf(Nat) /\ Below # {}
  <2>1. \A i \in I : IsFiniteSet(1..i) /\ 1..i \subseteq Nat
    BY FS_Interval
  <2> QED
    BY <2>1 DEF FiniteSubsetsOf
<1>2. PICK B \in Below : \A C \in Below : <<C, B>> \notin StrictSubsetOrdering(Nat)
  BY <1>1, WFMin, FS_StrictSubsetOrderingWellFounded
<1>3. PICK m \in I : B = 1..m
  BY <1>2
<1>4. \A j \in I : m <= j
  <2> SUFFICES ASSUME NEW j \in I, j < m PROVE FALSE
    OBVIOUS
  <2>1. 1..j \subseteq 1..m /\ m \in 1..m /\ m \notin 1..j
    OBVIOUS
  <2>2. <<1..j, 1..m>> \in StrictSubsetOrdering(Nat)
    BY <2>1 DEF StrictSubsetOrdering
  <2> QED
    BY <1>2, <1>3, <2>2
<1> QED
  BY <1>4 DEF FirstIndex

-----------------------------------------------------------------------------
(* Rib *)

LEMMA NewRibType ==
  ASSUME NEW id \in NodeId
  PROVE  NewRib(id) \in Rib
BY DEF NewRib, Rib

\* new is rib with name n declared as id.
Declares(rib, new, n, id) ==
  /\ new \in Rib /\ new.node = rib.node
  /\ new.path[n] = id
  /\ \A m \in Name \ {n} : new.path[m] = rib.path[m]

\* insertName touches neither the node of the rib nor the other names.
LEMMA InsertNameType ==
  ASSUME NEW rib \in Rib, NEW n \in Name, NEW id \in NodeId,
         NEW k \in RibKind
  PROVE  Declares(rib, InsertName(rib, n, id, TRUE, k), n, id)
<1> DEFINE kinds == [rib.kind EXCEPT ![id] = IF @ = NoKind THEN k ELSE @]
           refs == [rib.refs EXCEPT ![id] = {}]
           path == [rib.path EXCEPT ![n] = id]
           decls == rib.decls \cup {id}
<1>1. InsertName(rib, n, id, TRUE, k)
        = [rib EXCEPT !.path = path, !.decls = decls, !.refs = refs, !.kind = kinds]
  BY DEF InsertName, Rib
<1>2. /\ path \in [Name -> NodeId \cup {NoNode}]
      /\ kinds \in [NodeId -> RibKind \cup {NoKind}]
      /\ decls \in SUBSET NodeId
      /\ refs \in [NodeId -> SUBSET NodeId]
  BY DEF Rib
<1>3. path[n] = id /\ \A m \in Name \ {n} : path[m] = rib.path[m]
  BY DEF Rib
<1> HIDE DEF kinds, refs, path, decls
<1> DEFINE new == [rib EXCEPT !.path = path, !.decls = decls, !.refs = refs,
                              !.kind = kinds]
<1>4. new \in Rib /\ new.node = rib.node /\ new.path = path
  BY <1>2 DEF Rib
<1> HIDE DEF new
<1> QED
  BY <1>1, <1>3, <1>4 DEF new, Declares

-----------------------------------------------------------------------------
(* Scope *)

\* A sequence after it has grown by an element.
LEMMA AppendType ==
  ASSUME NEW S, NEW s \in Seq(S), NEW e \in S
  PROVE  /\ Append(s, e) \in Seq(S) /\ Append(s, e) # <<>>
         /\ Len(Append(s, e)) = Len(s) + 1
         /\ \A i \in 1..Len(s) : Append(s, e)[i] = s[i]
         /\ Append(s, e)[Len(s) + 1] = e
OBVIOUS

LEMMA NotEmpty ==
  ASSUME NEW S, NEW s \in Seq(S), Len(s) >= 1
  PROVE  s # <<>>
OBVIOUS

\* What is left of a non-empty sequence when its last element goes.
LEMMA FrontType ==
  ASSUME NEW S, NEW s \in Seq(S), s # <<>>
  PROVE  /\ SubSeq(s, 1, Len(s) - 1) \in Seq(S)
         /\ Len(SubSeq(s, 1, Len(s) - 1)) = Len(s) - 1
         /\ \A i \in 1..(Len(s) - 1) : SubSeq(s, 1, Len(s) - 1)[i] = s[i]
<1> DEFINE n == Len(s) - 1
<1>1. Len(s) \in Nat /\ Len(s) >= 1 /\ \A i \in 1..Len(s) : s[i] \in S
  BY EmptySeq, LenProperties, ElementOfSeq
<1>2. n \in Int /\ n >= 0 /\ \A i \in 1..n : s[i] \in S
  BY <1>1
<1> HIDE DEF n
<1>3. /\ SubSeq(s, 1, n) \in Seq(S)
      /\ Len(SubSeq(s, 1, n)) = IF 1 <= n THEN n - 1 + 1 ELSE 0
      /\ \A i \in 1..(n - 1 + 1) : SubSeq(s, 1, n)[i] = s[1 + i - 1]
  BY <1>2, SubSeqProperties
<1>4. /\ SubSeq(s, 1, n) \in Seq(S) /\ Len(SubSeq(s, 1, n)) = n
      /\ \A i \in 1..n : SubSeq(s, 1, n)[i] = s[i]
  BY <1>1, <1>2, <1>3
<1> QED
  BY <1>4 DEF n

\* push adds one rib at the end and leaves the others.
LEMMA PushType ==
  ASSUME NEW scope \in Seq(Rib), NEW id \in NodeId
  PROVE  /\ Push(scope, id) \in Seq(Rib)
         /\ Len(Push(scope, id)) = Len(scope) + 1
         /\ \A i \in 1..Len(scope) : Push(scope, id)[i] = scope[i]
         /\ Push(scope, id)[Len(scope) + 1] = NewRib(id)
BY NewRibType DEF Push

\* pop takes the last one away.
LEMMA PopType ==
  ASSUME NEW scope \in Seq(Rib), scope # <<>>
  PROVE  /\ Pop(scope) \in Seq(Rib)
         /\ Len(Pop(scope)) = Len(scope) - 1
         /\ \A i \in 1..(Len(scope) - 1) : Pop(scope)[i] = scope[i]
BY FrontType DEF Pop

\* insert declares a name in the innermost rib.
LEMMA InsertType ==
  ASSUME NEW scope \in Seq(Rib), scope # <<>>,
         NEW n \in Name, NEW id \in NodeId, NEW k \in RibKind
  PROVE  /\ Insert(scope, n, id, k) \in Seq(Rib)
         /\ Len(Insert(scope, n, id, k)) = Len(scope)
         /\ \A i \in 1..Len(scope) :
              /\ Insert(scope, n, id, k)[i].node = scope[i].node
              /\ \A m \in Name : Insert(scope, n, id, k)[i].path[m] =
                    IF i = Len(scope) /\ m = n THEN id ELSE scope[i].path[m]
<1>1. Len(scope) \in Nat /\ Len(scope) >= 1 /\ scope[Len(scope)] \in Rib
  BY EmptySeq, LenProperties
<1> DEFINE last == scope[Len(scope)]
           rib == InsertName(last, n, id, TRUE, k)
<1>2. Declares(last, rib, n, id)
  BY <1>1, InsertNameType
<1>3. Insert(scope, n, id, k) = [scope EXCEPT ![Len(scope)] = rib]
  BY <1>1 DEF Insert
<1> HIDE DEF rib
<1> QED
  BY <1>1, <1>2, <1>3 DEF Declares

\* appendReferenceForDef changes nothing but the references of a rib.
LEMMA AppendReferenceForDefType ==
  ASSUME NEW scope \in Seq(Rib), scope # <<>>,
         NEW ref \in NodeId, NEW d \in NodeId
  PROVE  /\ AppendReferenceForDef(scope, ref, d) \in Seq(Rib)
         /\ Len(AppendReferenceForDef(scope, ref, d)) = Len(scope)
         /\ \A i \in 1..Len(scope) :
              /\ AppendReferenceForDef(scope, ref, d)[i].node = scope[i].node
              /\ AppendReferenceForDef(scope, ref, d)[i].path = scope[i].path
<1>1. Len(scope) \in Nat /\ Len(scope) >= 1 /\ scope[1] \in Rib
  BY EmptySeq, LenProperties
<1> DEFINE refs == [scope[1].refs EXCEPT ![d] = @ \cup {ref}]
           rib == [scope[1] EXCEPT !.refs = refs]
<1>2. refs \in [NodeId -> SUBSET NodeId]
  BY <1>1 DEF Rib
<1>3. rib \in Rib /\ rib.node = scope[1].node /\ rib.path = scope[1].path
  <2> HIDE DEF refs
  <2> QED BY <1>1, <1>2 DEF Rib
<1>4. [scope EXCEPT ![1].refs[d] = @ \cup {ref}] = [scope EXCEPT ![1] = rib]
  BY <1>1
<1> HIDE DEF rib, refs
<1>5. /\ [scope EXCEPT ![1] = rib] \in Seq(Rib)
      /\ Len([scope EXCEPT ![1] = rib]) = Len(scope)
      /\ \A i \in 1..Len(scope) :
           [scope EXCEPT ![1] = rib][i] = IF i = 1 THEN rib ELSE scope[i]
  BY <1>1, <1>3, ExceptSeq
<1>6. CASE WasDeclDeclaredHere(scope[1], d)
  BY <1>3, <1>4, <1>5, <1>6 DEF AppendReferenceForDef
<1>7. CASE ~WasDeclDeclaredHere(scope[1], d)
  BY <1>7 DEF AppendReferenceForDef
<1> QED
  BY <1>6, <1>7

-----------------------------------------------------------------------------
(* What the look-ups find *)

\* lookup returns a declaration that some rib holds under the name, and fails
\* only when no rib holds one.
LEMMA LookupFinds ==
  ASSUME NEW scope \in Seq(Rib), NEW n \in Name
  PROVE  /\ Lookup(scope, n) \in NodeId \cup {NoNode}
         /\ Lookup(scope, n) # NoNode =>
              \E i \in 1..Len(scope) : /\ scope[i].path[n] # NoNode
                                       /\ Lookup(scope, n) = scope[i].path[n]
         /\ Lookup(scope, n) = NoNode =>
              \A i \in 1..Len(scope) : scope[i].path[n] = NoNode
<1> DEFINE hits == {i \in 1..Len(scope) : scope[i].path[n] # NoNode}
<1>1. Lookup(scope, n) = IF hits = {} THEN NoNode ELSE scope[FirstIndex(hits)].path[n]
  BY DEF Lookup
<1>2. \A i \in 1..Len(scope) : scope[i].path[n] \in NodeId \cup {NoNode}
  <2>1. \A i \in 1..Len(scope) : scope[i] \in Rib
    BY ElementOfSeq
  <2> QED
    BY <2>1 DEF Rib
<1>3. CASE hits = {}
  BY <1>1, <1>3
<1>4. CASE hits # {}
  <2>1. FirstIndex(hits) \in hits
    <3>1. hits \subseteq Nat
      BY LenProperties
    <3> HIDE DEF hits
    <3> QED
      BY <1>4, <3>1, FirstIndexExists
  <2> QED
    BY <1>1, <1>2, <1>4, <2>1
<1> QED
  BY <1>3, <1>4

-----------------------------------------------------------------------------
(* Types and scopes *)

\* A let statement is not the first activation, and stays with its patterns:
\* no construct is entered from it.
LetsBind == \A i \in 1..Len(calls) :
              calls[i].kind = "let" => i > 1 /\ calls[i].stage = "patterns"

IInv == TypeOK /\ ScopesBalanced /\ LetsBind

-----------------------------------------------------------------------------
(* The call stack and the scopes *)

LEMMA TopOfCalls ==
  ASSUME TypeOK
  PROVE  /\ Len(calls) \in Nat /\ Len(calls) >= 1
         /\ \A i \in 1..Len(calls) : calls[i] \in Call
         /\ Top = calls[Len(calls)] /\ Top \in Call
<1>1. Len(calls) \in Nat /\ Len(calls) >= 1
  BY EmptySeq, LenProperties DEF TypeOK
<1>2. \A i \in 1..Len(calls) : calls[i] \in Call
  BY ElementOfSeq DEF TypeOK
<1> QED
  BY <1>1, <1>2 DEF Top

\* While IInv holds every scope has a rib, because the first activation is not
\* that of a let statement.
LEMMA ScopesNotEmpty ==
  ASSUME IInv
  PROVE  /\ Depth \in Nat /\ Depth >= 1
         /\ nameScope # <<>> /\ typeScope # <<>> /\ labelScope # <<>>
<1>1. Depth \in Nat /\ Depth >= 1
  BY TopOfCalls DEF IInv, LetsBind, Depth
<1>2. Len(nameScope) >= 1 /\ Len(typeScope) >= 1 /\ Len(labelScope) >= 1
  BY <1>1 DEF IInv, ScopesBalanced, RibsOf
<1> QED
  BY <1>1, <1>2, EmptySeq

SameFrames(cs) ==
  /\ cs \in Seq(Call) /\ Len(cs) = Len(calls)
  /\ \A i \in 1..Len(calls) :
       /\ cs[i].kind = calls[i].kind /\ cs[i].node = calls[i].node
       /\ calls[i].kind = "let" => cs[i].stage = calls[i].stage

\* Only the stage of the last activation changes, and not if it is a let.
LEMMA StageChanged ==
  ASSUME TypeOK, NEW s \in Stage, Top.kind = "let" => s = Top.stage
  PROVE  SameFrames([calls EXCEPT ![Len(calls)].stage = s])
<1> DEFINE call == [calls[Len(calls)] EXCEPT !.stage = s]
<1>1. /\ call \in Call /\ call.kind = Top.kind /\ call.node = Top.node
      /\ call.stage = s
  BY TopOfCalls DEF Call
<1>2. [calls EXCEPT ![Len(calls)].stage = s] = [calls EXCEPT ![Len(calls)] = call]
  BY TopOfCalls DEF TypeOK
<1> HIDE DEF call
<1>3. /\ [calls EXCEPT ![Len(calls)] = call] \in Seq(Call)
      /\ Len([calls EXCEPT ![Len(calls)] = call]) = Len(calls)
      /\ \A i \in 1..Len(calls) : [calls EXCEPT ![Len(calls)] = call][i] =
                                    IF i = Len(calls) THEN call ELSE calls[i]
  BY <1>1, TopOfCalls, ExceptSeq DEF TypeOK
<1> QED
  BY <1>1, <1>2, <1>3, TopOfCalls DEF SameFrames

-----------------------------------------------------------------------------
(* Every step keeps the ribs and the activations in step: it leaves both,  *)
(* pushes both, pops both, or pushes or pops a let statement.              *)

SameNodes(s, t) == /\ Len(t) = Len(s)
                   /\ \A i \in 1..Len(s) : t[i].node = s[i].node

PushesNode(s, t, id) == /\ Len(t) = Len(s) + 1
                        /\ \A i \in 1..Len(s) : t[i].node = s[i].node
                        /\ t[Len(s) + 1].node = id

PopsNode(s, t) == /\ Len(t) = Len(s) - 1
                  /\ \A i \in 1..Len(t) : t[i].node = s[i].node

LEMMA PushNode ==
  ASSUME NEW s \in Seq(Rib), NEW t \in Seq(Rib), SameNodes(s, t), NEW id \in NodeId
  PROVE  Push(t, id) \in Seq(Rib) /\ PushesNode(s, Push(t, id), id)
<1>1. NewRib(id).node = id
  BY DEF NewRib
<1>2. /\ Push(t, id) \in Seq(Rib) /\ Len(Push(t, id)) = Len(s) + 1
      /\ Push(t, id)[Len(s) + 1] = NewRib(id)
      /\ \A i \in 1..Len(s) : Push(t, id)[i] = t[i]
  BY PushType DEF SameNodes
<1>3. \A i \in 1..Len(s) : t[i].node = s[i].node
  BY DEF SameNodes
<1> QED
  BY <1>1, <1>2, <1>3 DEF PushesNode

LEMMA PopNode ==
  ASSUME NEW s \in Seq(Rib), s # <<>>
  PROVE  Pop(s) \in Seq(Rib) /\ PopsNode(s, Pop(s))
BY PopType DEF PopsNode

LEMMA BalancedSame ==
  ASSUME IInv, SameFrames(calls'), SameNodes(nameScope, nameScope'),
         SameNodes(typeScope, typeScope'), SameNodes(labelScope, labelScope')
  PROVE  ScopesBalanced' /\ LetsBind'
<1>1. /\ Len(calls') = Len(calls) /\ Len(calls) \in Nat /\ Len(calls) >= 1
      /\ \A i \in 1..Len(calls) :
           /\ calls'[i].kind = calls[i].kind /\ calls'[i].node = calls[i].node
           /\ calls[i].kind = "let" => calls'[i].stage = calls[i].stage
  BY TopOfCalls DEF IInv, SameFrames
<1>2. Depth' = Depth /\ Depth \in 1..Len(calls)
  BY <1>1, ScopesNotEmpty DEF Depth, Top
<1>3. \A i \in 1..Depth : i \in 1..Len(calls)
  BY <1>1, <1>2
<1>4. RibsOf(nameScope)' /\ RibsOf(typeScope)' /\ RibsOf(labelScope)'
  BY <1>1, <1>2, <1>3 DEF IInv, ScopesBalanced, RibsOf, SameNodes
<1>5. \A i \in 1..(Len(calls') - 1) : calls'[i].kind # "let"
  BY <1>1 DEF IInv, ScopesBalanced
<1>6. LetsBind'
  BY <1>1 DEF IInv, LetsBind
<1> QED
  BY <1>4, <1>5, <1>6 DEF ScopesBalanced

LEMMA BalancedPush ==
  ASSUME IInv, Top.kind # "let", NEW cs, SameFrames(cs),
         NEW call \in Call, call.kind # "let", calls' = Append(cs, call),
         PushesNode(nameScope, nameScope', call.node),
         PushesNode(typeScope, typeScope', call.node),
         PushesNode(labelScope, labelScope', call.node)
  PROVE  ScopesBalanced' /\ LetsBind'
<1>1. /\ Len(calls) \in Nat /\ Len(calls) >= 1 /\ Len(cs) = Len(calls)
      /\ Len(calls') = Len(calls) + 1 /\ calls'[Len(calls) + 1] = call
      /\ \A i \in 1..Len(calls) :
           /\ calls'[i].kind = calls[i].kind /\ calls'[i].node = calls[i].node
           /\ calls[i].kind = "let" => calls'[i].stage = calls[i].stage
  BY TopOfCalls DEF IInv, SameFrames
<1>2. Depth' = Depth + 1 /\ Depth = Len(calls)
  BY <1>1 DEF Depth, Top
<1>3. RibsOf(nameScope)' /\ RibsOf(typeScope)' /\ RibsOf(labelScope)'
  BY <1>1, <1>2 DEF IInv, ScopesBalanced, RibsOf, PushesNode
<1>4. \A i \in 1..(Len(calls') - 1) : calls'[i].kind # "let"
  BY <1>1, TopOfCalls DEF IInv, ScopesBalanced
<1>5. LetsBind'
  BY <1>1 DEF IInv, LetsBind
<1> QED
  BY <1>3, <1>4, <1>5 DEF ScopesBalanced

LEMMA BalancedLet ==
  ASSUME IInv, Top.kind # "let", UNCHANGED scopes,
         NEW call \in Call, call.kind = "let", call.stage = "patterns",
         calls' = Append(calls, call)
  PROVE  ScopesBalanced' /\ LetsBind'
<1>1. /\ Len(calls) \in Nat /\ Len(calls) >= 1
      /\ Len(calls') = Len(calls) + 1 /\ calls'[Len(calls) + 1] = call
      /\ \A i \in 1..Len(calls) : calls'[i] = calls[i]
  BY TopOfCalls DEF IInv, TypeOK
<1>2. Depth' = Depth /\ Depth = Len(calls)
  BY <1>1 DEF Depth, Top
<1>3. RibsOf(nameScope)' /\ RibsOf(typeScope)' /\ RibsOf(labelScope)'
  BY <1>1, <1>2 DEF IInv, ScopesBalanced, RibsOf, scopes
<1>4. \A i \in 1..(Len(calls') - 1) : calls'[i].kind # "let"
  BY <1>1, TopOfCalls DEF IInv, ScopesBalanced
<1>5. LetsBind'
  BY <1>1 DEF IInv, LetsBind
<1> QED
  BY <1>3, <1>4, <1>5 DEF ScopesBalanced

LEMMA BalancedPop ==
  ASSUME IInv, Len(calls) > 1, calls' = SubSeq(calls, 1, Len(calls) - 1),
         IF Top.kind = "let" THEN UNCHANGED scopes
         ELSE /\ PopsNode(nameScope, nameScope')
              /\ PopsNode(typeScope, typeScope')
              /\ PopsNode(labelScope, labelScope')
  PROVE  ScopesBalanced' /\ LetsBind'
<1>1. /\ Len(calls) \in Nat /\ Len(calls) >= 2 /\ calls \in Seq(Call)
      /\ calls # <<>>
  BY TopOfCalls DEF IInv, TypeOK
<1>2. /\ Len(calls') = Len(calls) - 1
      /\ \A i \in 1..(Len(calls) - 1) : calls'[i] = calls[i]
  BY <1>1, FrontType
<1>3. Depth' = Len(calls) - 1
  <2>1. calls'[Len(calls')].kind # "let"
    BY <1>1, <1>2 DEF IInv, ScopesBalanced
  <2> QED
    BY <1>2, <2>1 DEF Depth, Top
<1>4. RibsOf(nameScope)' /\ RibsOf(typeScope)' /\ RibsOf(labelScope)'
  <2>1. CASE Top.kind = "let"
    BY <1>1, <1>2, <1>3, <2>1 DEF IInv, ScopesBalanced, RibsOf, scopes, Depth
  <2>2. CASE Top.kind # "let"
    BY <1>1, <1>2, <1>3, <2>2 DEF IInv, ScopesBalanced, RibsOf, PopsNode, Depth
  <2> QED
    BY <2>1, <2>2
<1>5. \A i \in 1..(Len(calls') - 1) : calls'[i].kind # "let"
  BY <1>1, <1>2 DEF IInv, ScopesBalanced
<1>6. LetsBind'
  BY <1>1, <1>2 DEF IInv, LetsBind
<1> QED
  BY <1>4, <1>5, <1>6 DEF ScopesBalanced

-----------------------------------------------------------------------------
(* What the parts of an action do *)

LEMMA NextNodeType == TypeOK /\ HasNode => nextNode \in NodeId /\ nextNode + 1 \in 2..(MaxNode + 1)
BY RibsAssumption DEF TypeOK, HasNode, NodeId

\* A let statement is on top only while its patterns are resolved.
LEMMA NotLet == IInv /\ Top.stage # "patterns" => Top.kind # "let"
BY TopOfCalls DEF IInv, LetsBind

LEMMA WithinRootFrames ==
  ASSUME IInv
  PROVE  SameFrames(WithinRoot(calls))
<1> DEFINE s == IF Top.stage = "body" THEN "expr" ELSE Top.stage
<1>1. s \in Stage /\ (Top.kind = "let" => s = Top.stage)
  BY TopOfCalls DEF IInv, LetsBind, Call, Stage
<1>2. WithinRoot(calls) = [calls EXCEPT ![Len(calls)].stage = s]
  BY TopOfCalls DEF WithinRoot, IInv
<1> HIDE DEF s
<1> QED
  BY <1>1, <1>2, StageChanged DEF IInv

LEMMA ActivationType ==
  ASSUME NEW kind \in CallKind, NEW id \in NodeId, NEW stage \in Stage
  PROVE  /\ Activation(kind, id, stage) \in Call
         /\ Activation(kind, id, stage).kind = kind
         /\ Activation(kind, id, stage).node = id
         /\ Activation(kind, id, stage).stage = stage
BY DEF Activation, Call

\* The calls, the next node and the scopes after a construct is entered.
Entered ==
  /\ calls' \in Seq(Call) /\ calls' # <<>>
  /\ nextNode' \in 2..(MaxNode + 1)
  /\ nameScope' \in Seq(Rib) /\ typeScope' \in Seq(Rib)
  /\ labelScope' \in Seq(Rib)
  /\ ScopesBalanced' /\ LetsBind'

LEMMA Entering ==
  ASSUME IInv, Top.kind # "let", NEW id \in NodeId, NEW call \in Call,
         call.node = id, call.kind # "let",
         id = nextNode \/ Top.stage = "body",
         Enter(id, call), PushRibs(id)
  PROVE  Entered
<1>1. PICK cs : SameFrames(cs) /\ calls' = Append(cs, call)
  <2>1. CASE id = nextNode
    BY <2>1, WithinRootFrames DEF Enter, CallsAfterEntering
  <2>2. CASE id # nextNode
    <3>1. SameFrames([calls EXCEPT ![Len(calls)].stage = "done"])
      BY StageChanged DEF IInv, Stage
    <3> QED
      BY <2>2, <3>1 DEF Enter, CallsAfterEntering
  <2> QED
    BY <2>1, <2>2
<1>2. calls' \in Seq(Call) /\ calls' # <<>>
  BY <1>1 DEF SameFrames
<1>3. nextNode' \in 2..(MaxNode + 1)
  BY RibsAssumption DEF Enter, IInv, TypeOK, NodeId
<1>4. /\ nameScope' \in Seq(Rib) /\ typeScope' \in Seq(Rib)
      /\ labelScope' \in Seq(Rib)
  BY PushType DEF PushRibs, IInv, TypeOK
<1>5. \A s \in Seq(Rib) : SameNodes(s, s)
  BY DEF SameNodes
<1>6. /\ PushesNode(nameScope, nameScope', id)
      /\ PushesNode(typeScope, typeScope', id)
      /\ PushesNode(labelScope, labelScope', id)
  BY <1>5, PushNode DEF PushRibs, IInv, TypeOK
<1>7. ScopesBalanced' /\ LetsBind'
  BY <1>1, <1>6, BalancedPush
<1> QED
  BY <1>2, <1>3, <1>4, <1>7 DEF Entered

\* The node of a construct is fresh or that of the arm it is the body of.
LEMMA EnteringConstruct ==
  ASSUME IInv, Top.kind # "let", NEW kind \in CallKind \ {"let"},
         NEW stage \in Stage, EnterConstruct(kind, stage)
  PROVE  Entered
<1>1. PICK id \in NodeId : /\ ConstructNode(id)
                           /\ Enter(id, Activation(kind, id, stage))
                           /\ PushRibs(id)
  BY DEF EnterConstruct
<1>2. id = nextNode \/ Top.stage = "body"
  BY <1>1 DEF ConstructNode
<1>3. /\ Activation(kind, id, stage) \in Call
      /\ Activation(kind, id, stage).kind # "let"
      /\ Activation(kind, id, stage).node = id
  BY ActivationType
<1> QED
  BY <1>1, <1>2, <1>3, Entering

\* A reference is resolved to a declaration of either scope, or not at all.
Resolution ==
  \/ \E d \in NodeId : InsertResolvedName(nextNode, d)
  \/ \E d \in NodeId : InsertResolvedType(nextNode, d)
  \/ NothingResolved

LEMMA ResolutionType ==
  ASSUME IInv, HasNode, Resolution
  PROVE  /\ nameScope' \in Seq(Rib) /\ typeScope' \in Seq(Rib)
         /\ captures' \in [NodeId -> SUBSET NodeId]
         /\ resolvedNames' \in [NodeId -> NodeId \cup {NoNode}]
         /\ resolvedTypes' \in [NodeId -> NodeId \cup {NoNode}]
         /\ SameNodes(nameScope, nameScope') /\ SameNodes(typeScope, typeScope')
<1>1. nextNode \in NodeId
  BY NextNodeType DEF IInv
<1>2. /\ nameScope \in Seq(Rib) /\ nameScope # <<>>
      /\ typeScope \in Seq(Rib) /\ typeScope # <<>>
  BY ScopesNotEmpty DEF IInv, TypeOK
<1>3. ASSUME NEW d \in NodeId, InsertResolvedName(nextNode, d)
      PROVE  /\ nameScope' \in Seq(Rib) /\ typeScope' \in Seq(Rib)
             /\ captures' \in [NodeId -> SUBSET NodeId]
             /\ resolvedNames' \in [NodeId -> NodeId \cup {NoNode}]
             /\ resolvedTypes' \in [NodeId -> NodeId \cup {NoNode}]
             /\ SameNodes(nameScope, nameScope')
             /\ SameNodes(typeScope, typeScope')
  <2>1. nameScope' \in Seq(Rib) /\ SameNodes(nameScope, nameScope')
    BY <1>1, <1>2, <1>3, AppendReferenceForDefType DEF InsertResolvedName, SameNodes
  <2>2. captures' \in [NodeId -> SUBSET NodeId]
    BY <1>3 DEF InsertResolvedName, InsertCapturedItem, IInv, TypeOK
  <2> QED
    BY <1>1, <1>3, <2>1, <2>2 DEF InsertResolvedName, IInv, TypeOK, SameNodes
<1>4. ASSUME NEW d \in NodeId, InsertResolvedType(nextNode, d)
      PROVE  /\ nameScope' \in Seq(Rib) /\ typeScope' \in Seq(Rib)
             /\ captures' \in [NodeId -> SUBSET NodeId]
             /\ resolvedNames' \in [NodeId -> NodeId \cup {NoNode}]
             /\ resolvedTypes' \in [NodeId -> NodeId \cup {NoNode}]
             /\ SameNodes(nameScope, nameScope')
             /\ SameNodes(typeScope, typeScope')
  <2>1. typeScope' \in Seq(Rib) /\ SameNodes(typeScope, typeScope')
    BY <1>1, <1>2, <1>4, AppendReferenceForDefType DEF InsertResolvedType, SameNodes
  <2> QED
    BY <1>1, <1>4, <2>1 DEF InsertResolvedType, IInv, TypeOK, SameNodes
<1>5. CASE NothingResolved
  BY <1>5 DEF NothingResolved, IInv, TypeOK, SameNodes
<1> QED
  BY <1>3, <1>4, <1>5 DEF Resolution

-----------------------------------------------------------------------------
(* Every action keeps the invariant *)

LEMMA InvInit == Init => IInv
<1> SUFFICES ASSUME Init PROVE IInv
  OBVIOUS
<1>1. CrateNode \in NodeId /\ 1 \in NodeId
  BY RibsAssumption DEF CrateNode, NodeId
<1>2. NewRib(CrateNode) \in Rib /\ NewRib(CrateNode).node = CrateNode
  BY <1>1, NewRibType DEF NewRib
<1>3. /\ Activation("crate", CrateNode, "items") \in Call
      /\ Activation("crate", CrateNode, "items").kind = "crate"
      /\ Activation("crate", CrateNode, "items").node = CrateNode
  BY <1>1, ActivationType DEF CallKind, Stage
<1>4. TypeOK
  BY <1>1, <1>2, <1>3, RibsAssumption DEF Init, TypeOK
<1>5. Len(calls) = 1 /\ calls[1] = Activation("crate", CrateNode, "items")
  BY DEF Init
<1>6. Depth = 1
  BY <1>3, <1>5 DEF Depth, Top
<1>7. ScopesBalanced
  BY <1>2, <1>3, <1>5, <1>6 DEF Init, ScopesBalanced, RibsOf
<1>8. LetsBind
  BY <1>3, <1>5 DEF LetsBind
<1> QED
  BY <1>4, <1>7, <1>8 DEF IInv

\* Paths: ribs and activations stay, one node is used up.
LEMMA PathStep ==
  ASSUME IInv, HasNode, Resolution, NewReference, calls' = WithinRoot(calls),
         outcome' \in {"running", "exited", "aborted"},
         UNCHANGED <<labelScope, closureContext, reported, declRib>>
  PROVE  IInv'
<1>1. SameFrames(calls')
  BY WithinRootFrames
<1>2. calls' \in Seq(Call) /\ calls' # <<>>
  BY <1>1, TopOfCalls DEF SameFrames, IInv
<1>3. nextNode' \in 2..(MaxNode + 1) /\ nextNode \in NodeId
  BY NextNodeType DEF NewReference, IInv
<1>4. within' \in [NodeId -> SUBSET NodeId]
  <2>1. {closureContext[i] : i \in 1..Len(closureContext)} \subseteq NodeId
    BY ElementOfSeq DEF IInv, TypeOK
  <2> QED
    BY <1>3, <2>1 DEF NewReference, IInv, TypeOK
<1>5. TypeOK'
  BY <1>2, <1>3, <1>4, ResolutionType DEF IInv, TypeOK
<1>6. ScopesBalanced' /\ LetsBind'
  BY <1>1, ResolutionType, BalancedSame DEF SameNodes
<1> QED
  BY <1>5, <1>6 DEF IInv

LEMMA LookupResolves ==
  ASSUME IInv, NEW n \in Name
  PROVE  /\ Lookup(nameScope, n) # NoNode => Lookup(nameScope, n) \in NodeId
         /\ Lookup(typeScope, n) # NoNode => Lookup(typeScope, n) \in NodeId
BY LookupFinds DEF IInv, TypeOK

\* Declarations: the innermost rib of the name scope gets a name.
LEMMA DeclarationStep ==
  ASSUME IInv, NEW n \in Name, NEW k \in RibKind, DeclareName(n, k)
  PROVE  /\ nameScope' \in Seq(Rib) /\ SameNodes(nameScope, nameScope')
         /\ nextNode' \in 2..(MaxNode + 1)
         /\ within' \in [NodeId -> SUBSET NodeId]
         /\ declRib' \in [NodeId -> NodeId \cup {NoNode}]
<1>1. nextNode \in NodeId /\ nextNode' \in 2..(MaxNode + 1)
  BY NextNodeType DEF DeclareName, IInv
<1>2. nameScope \in Seq(Rib) /\ nameScope # <<>>
  BY ScopesNotEmpty DEF IInv, TypeOK
<1>3. nameScope' \in Seq(Rib) /\ SameNodes(nameScope, nameScope')
  BY <1>1, <1>2, InsertType DEF DeclareName, SameNodes
<1>4. OpenClosures \subseteq NodeId
  BY TopOfCalls DEF OpenClosures, IInv, Call
<1>5. Peek(nameScope).node \in NodeId
  <2>1. Len(nameScope) \in Nat /\ Len(nameScope) >= 1
    BY <1>2, LenProperties, EmptySeq
  <2>2. Peek(nameScope) \in Rib
    BY <1>2, <2>1 DEF Peek
  <2> QED
    BY <2>2 DEF Rib
<1> QED
  BY <1>1, <1>3, <1>4, <1>5 DEF DeclareName, IInv, TypeOK

LEMMA PathActions ==
  ASSUME IInv, NEW n \in Name,
         \/ ResolvePathInExpression(n)
         \/ ResolveRelativeTypePath(n)
         \/ ResolveAssignment(n)
  PROVE  IInv'
<1>1. /\ HasNode /\ NewReference /\ calls' = WithinRoot(calls)
      /\ UNCHANGED <<labelScope, closureContext, reported, declRib>>
  BY DEF ResolvePathInExpression, ResolveRelativeTypePath, ResolveAssignment,
         NewReference
<1>2. outcome' \in {"running", "exited", "aborted"}
  BY DEF ResolvePathInExpression, ResolveRelativeTypePath, ResolveAssignment,
         IInv, TypeOK
<1>3. Resolution
  BY LookupResolves DEF ResolvePathInExpression, ResolveRelativeTypePath,
     ResolveAssignment, Resolution
<1> QED
  BY <1>1, <1>2, <1>3, PathStep

LEMMA DeclarationActions ==
  ASSUME IInv, NEW n \in Name,
         \/ AddNewBinding(n)
         \/ ResolveClosureParameter(n)
         \/ ResolveStructExprField(n)
         \/ ResolveTypeParam(n)
  PROVE  IInv'
<1>1. CASE AddNewBinding(n)
  <2>1. \E k \in RibKind : DeclareName(n, k)
    BY <1>1 DEF AddNewBinding, RibKind
  <2>2. nextNode \in NodeId
    BY <1>1, NextNodeType DEF AddNewBinding, DeclareName, IInv
  <2> DEFINE call == [Top EXCEPT !.bindings = @ \cup {nextNode}]
  <2>3. /\ call \in Call /\ call.kind = Top.kind /\ call.node = Top.node
        /\ call.stage = Top.stage
    BY <2>2, TopOfCalls DEF Call, IInv
  <2>4. calls' = [calls EXCEPT ![Len(calls)] = call]
    BY <1>1, TopOfCalls DEF AddNewBinding, IInv
  <2> HIDE DEF call
  <2>5. /\ calls' \in Seq(Call) /\ Len(calls') = Len(calls)
        /\ \A i \in 1..Len(calls) :
             calls'[i] = IF i = Len(calls) THEN call ELSE calls[i]
    BY <2>3, <2>4, TopOfCalls, ExceptSeq DEF IInv, TypeOK
  <2>6. SameFrames(calls')
    BY <2>3, <2>5, TopOfCalls DEF SameFrames, IInv
  <2>7. calls' # <<>>
    BY <2>5, TopOfCalls DEF IInv
  <2>8. TypeOK'
    BY <1>1, <2>1, <2>5, <2>7, DeclarationStep DEF AddNewBinding, IInv, TypeOK
  <2>9. ScopesBalanced' /\ LetsBind'
    BY <1>1, <2>1, <2>6, DeclarationStep, BalancedSame DEF AddNewBinding, SameNodes
  <2> QED
    BY <2>8, <2>9 DEF IInv
<1>2. CASE ResolveClosureParameter(n)
  <2>1. DeclareName(n, "Variable") /\ "Variable" \in RibKind
    BY <1>2 DEF ResolveClosureParameter, RibKind
  <2>2. SameFrames(calls')
    BY <1>2 DEF ResolveClosureParameter, SameFrames, IInv, TypeOK
  <2>3. TypeOK'
    BY <1>2, <2>1, DeclarationStep DEF ResolveClosureParameter, IInv, TypeOK
  <2>4. ScopesBalanced' /\ LetsBind'
    BY <1>2, <2>1, <2>2, DeclarationStep, BalancedSame
       DEF ResolveClosureParameter, SameNodes
  <2> QED
    BY <2>3, <2>4 DEF IInv
<1>3. CASE ResolveStructExprField(n)
  <2>1. DeclareName(n, "Type") /\ "Type" \in RibKind
    BY <1>3 DEF ResolveStructExprField, RibKind
  <2>2. SameFrames(calls')
    BY <1>3, WithinRootFrames DEF ResolveStructExprField
  <2>3. calls' \in Seq(Call) /\ calls' # <<>>
    BY <2>2, TopOfCalls DEF SameFrames, IInv
  <2>4. TypeOK'
    BY <1>3, <2>1, <2>3, DeclarationStep DEF ResolveStructExprField, IInv, TypeOK
  <2>5. ScopesBalanced' /\ LetsBind'
    BY <1>3, <2>1, <2>2, DeclarationStep, BalancedSame
       DEF ResolveStructExprField, SameNodes
  <2> QED
    BY <2>4, <2>5 DEF IInv
<1>4. CASE ResolveTypeParam(n)
  <2>1. nextNode \in NodeId /\ nextNode' \in 2..(MaxNode + 1)
    BY <1>4, NextNodeType DEF ResolveTypeParam, IInv
  <2>2. typeScope \in Seq(Rib) /\ typeScope # <<>> /\ "Type" \in RibKind
    BY ScopesNotEmpty DEF IInv, TypeOK, RibKind
  <2>3. typeScope' \in Seq(Rib) /\ SameNodes(typeScope, typeScope')
    BY <1>4, <2>1, <2>2, InsertType DEF ResolveTypeParam, SameNodes
  <2>4. SameFrames(calls')
    BY <1>4 DEF ResolveTypeParam, SameFrames, IInv, TypeOK
  <2>5. TypeOK'
    BY <1>4, <2>1, <2>3 DEF ResolveTypeParam, history, IInv, TypeOK
  <2>6. ScopesBalanced' /\ LetsBind'
    BY <1>4, <2>3, <2>4, BalancedSame DEF ResolveTypeParam, SameNodes
  <2> QED
    BY <2>5, <2>6 DEF IInv
<1> QED
  BY <1>1, <1>2, <1>3, <1>4

\* Constructs: the ribs and the activation are pushed together.
LEMMA EnteringActions ==
  ASSUME IInv,
         \/ ResolveFunction \/ ResolveBlockExpression \/ ResolveClosureExpression
         \/ ResolveMatchArm \/ ResolveIfLetExpression
         \/ ResolveIteratorLoopExpression
  PROVE  IInv'
<1>1. Top.kind # "let"
  BY NotLet DEF ResolveFunction, ResolveBlockExpression, ResolveClosureExpression,
     ResolveMatchArm, ResolveIfLetExpression, ResolveIteratorLoopExpression,
     AtExpression
<1>2. \/ \E kind \in CallKind \ {"let"}, stage \in Stage :
           EnterConstruct(kind, stage)
      \/ /\ HasNode /\ Enter(nextNode, Activation("arm", nextNode, "guard"))
         /\ PushRibs(nextNode)
  BY DEF ResolveFunction, ResolveBlockExpression, ResolveClosureExpression,
     ResolveMatchArm, ResolveIfLetExpression, ResolveIteratorLoopExpression,
     CallKind, Stage
<1>3. Entered
  <2>1. ASSUME HasNode, Enter(nextNode, Activation("arm", nextNode, "guard")),
               PushRibs(nextNode)
        PROVE  Entered
    <3>1. nextNode \in NodeId /\ "arm" \in CallKind /\ "guard" \in Stage
      BY <2>1, NextNodeType DEF IInv, CallKind, Stage
    <3> QED
      BY <1>1, <2>1, <3>1, ActivationType, Entering
  <2> QED
    BY <1>1, <1>2, <2>1, EnteringConstruct
<1>4. within' \in [NodeId -> SUBSET NodeId]
  <2>1. OpenClosures \subseteq NodeId
    BY TopOfCalls DEF OpenClosures, IInv, Call
  <2> QED
    BY <2>1 DEF ResolveFunction, ResolveBlockExpression, ResolveClosureExpression,
     ResolveMatchArm, ResolveIfLetExpression, ResolveIteratorLoopExpression,
     history, IInv, TypeOK
<1>5. TypeOK'
  BY <1>3, <1>4 DEF ResolveFunction, ResolveBlockExpression,
     ResolveClosureExpression, ResolveMatchArm, ResolveIfLetExpression,
     ResolveIteratorLoopExpression, history, IInv, TypeOK, Entered
<1> QED
  BY <1>3, <1>5 DEF IInv, Entered

LEMMA LoopAction ==
  ASSUME IInv, NEW l \in Name, ResolveInfiniteLoopExpression(l)
  PROVE  IInv'
<1>1. /\ nextNode \in NodeId /\ nextNode + 1 \in NodeId
      /\ nextNode' \in 2..(MaxNode + 1) /\ "Label" \in RibKind
  BY RibsAssumption DEF ResolveInfiniteLoopExpression, IInv, TypeOK, NodeId, RibKind
<1>2. Top.kind # "let"
  BY NotLet DEF ResolveInfiniteLoopExpression, AtExpression
<1> DEFINE call == Activation("block", nextNode + 1, "expr")
           labels == Insert(labelScope, l, nextNode, "Label")
<1>3. call \in Call /\ call.kind # "let" /\ call.node = nextNode + 1
  BY <1>1, ActivationType DEF CallKind, Stage
<1>4. labelScope \in Seq(Rib) /\ labelScope # <<>>
  BY ScopesNotEmpty DEF IInv, TypeOK
<1>5. labels \in Seq(Rib) /\ SameNodes(labelScope, labels)
  BY <1>1, <1>4, InsertType DEF SameNodes
<1> HIDE DEF labels, call
<1>6. \A s \in Seq(Rib) : SameNodes(s, s)
  BY DEF SameNodes
<1>7. /\ labelScope' = Push(labels, nextNode + 1)
      /\ nameScope' = Push(nameScope, nextNode + 1)
      /\ typeScope' = Push(typeScope, nextNode + 1)
      /\ calls' = Append(WithinRoot(calls), call)
  BY DEF ResolveInfiniteLoopExpression, labels, call
<1>8. labelScope' \in Seq(Rib) /\ PushesNode(labelScope, labelScope', nextNode + 1)
  <2>1. labelScope \in Seq(Rib)
    BY DEF IInv, TypeOK
  <2> QED
    BY <1>1, <1>5, <1>7, <2>1, PushNode
<1>9. /\ nameScope' \in Seq(Rib) /\ PushesNode(nameScope, nameScope', nextNode + 1)
      /\ typeScope' \in Seq(Rib) /\ PushesNode(typeScope, typeScope', nextNode + 1)
  <2>1. nameScope \in Seq(Rib) /\ typeScope \in Seq(Rib)
    BY DEF IInv, TypeOK
  <2> QED
    BY <1>1, <1>6, <1>7, <2>1, PushNode
<1>10. calls' \in Seq(Call) /\ calls' # <<>>
  BY <1>3, <1>7, WithinRootFrames DEF SameFrames
<1>11. TypeOK'
  BY <1>1, <1>8, <1>9, <1>10 DEF ResolveInfiniteLoopExpression, history, IInv, TypeOK
<1>12. ScopesBalanced' /\ LetsBind'
  BY <1>2, <1>3, <1>7, <1>8, <1>9, WithinRootFrames, BalancedPush
<1> QED
  BY <1>11, <1>12 DEF IInv

LEMMA LetAction ==
  ASSUME IInv, ResolveLetStatement
  PROVE  IInv'
<1> DEFINE call == Activation("let", nextNode, "patterns")
<1>1. nextNode \in NodeId /\ nextNode' \in 2..(MaxNode + 1)
  BY NextNodeType DEF ResolveLetStatement, IInv
<1>2. call \in Call /\ call.kind = "let" /\ call.stage = "patterns"
  BY <1>1, ActivationType DEF CallKind, Stage
<1>3. calls' = Append(calls, call) /\ Top.kind # "let" /\ UNCHANGED scopes
  BY DEF ResolveLetStatement
<1> HIDE DEF call
<1>4. TypeOK'
  <2>1. calls' \in Seq(Call) /\ calls' # <<>>
    <3>1. calls \in Seq(Call)
      BY DEF IInv, TypeOK
    <3> QED
      BY <1>2, <1>3, <3>1, AppendType
  <2>2. UNCHANGED <<closureContext, captures, resolvedNames, resolvedTypes,
                    reported, outcome, history>>
    BY DEF ResolveLetStatement
  <2> QED
    BY <1>1, <1>3, <2>1, <2>2 DEF scopes, history, IInv, TypeOK
<1>5. ScopesBalanced' /\ LetsBind'
  BY <1>2, <1>3, BalancedLet
<1> QED
  BY <1>4, <1>5 DEF IInv

LEMMA StageActions ==
  ASSUME IInv, ResolveClosureBody \/ ResolvePatterns
  PROVE  IInv'
<1>1. PICK s \in Stage : /\ calls' = [calls EXCEPT ![Len(calls)].stage = s]
                         /\ Top.kind = "let" => s = Top.stage
  BY NotLet DEF ResolveClosureBody, ResolvePatterns, Proceed, Stage
<1>2. SameFrames(calls')
  BY <1>1, StageChanged DEF IInv
<1>3. calls' \in Seq(Call) /\ calls' # <<>>
  BY <1>2, TopOfCalls DEF SameFrames, IInv
<1>4. closureContext' \in Seq(NodeId)
  <2>1. Top.node \in NodeId
    BY TopOfCalls DEF Call, IInv
  <2>2. closureContext' = Append(closureContext, Top.node) \/ UNCHANGED closureContext
    BY DEF ResolveClosureBody, ResolvePatterns
  <2>3. closureContext \in Seq(NodeId)
    BY DEF IInv, TypeOK
  <2> QED
    BY <2>1, <2>2, <2>3, AppendType
<1>5. UNCHANGED scopes
  BY DEF ResolveClosureBody, ResolvePatterns
<1>6. TypeOK'
  BY <1>3, <1>4, <1>5 DEF ResolveClosureBody, ResolvePatterns, scopes, history,
     IInv, TypeOK
<1>7. ScopesBalanced' /\ LetsBind'
  BY <1>2, <1>5, BalancedSame DEF SameNodes, scopes
<1> QED
  BY <1>6, <1>7 DEF IInv

LEMMA LeaveAction ==
  ASSUME IInv, LeaveConstruct
  PROVE  IInv'
<1>1. /\ Len(calls) > 1 /\ calls' = SubSeq(calls, 1, Len(calls) - 1)
      /\ calls # <<>> /\ calls \in Seq(Call) /\ Len(calls) \in Nat
  BY TopOfCalls DEF LeaveConstruct, Return, IInv, TypeOK
<1>2. calls' \in Seq(Call) /\ calls' # <<>>
  <2>1. calls' \in Seq(Call) /\ Len(calls') = Len(calls) - 1
    BY <1>1, FrontType
  <2>2. Len(calls') >= 1
    BY <1>1, <2>1
  <2> QED
    BY <2>1, <2>2, NotEmpty
<1>3. /\ nameScope \in Seq(Rib) /\ nameScope # <<>>
      /\ typeScope \in Seq(Rib) /\ typeScope # <<>>
      /\ labelScope \in Seq(Rib) /\ labelScope # <<>>
  BY ScopesNotEmpty DEF IInv, TypeOK
<1>4. CASE Top.kind = "let"
  <2>1. UNCHANGED scopes /\ UNCHANGED closureContext
    BY <1>4 DEF LeaveConstruct, PopClosureContext
  <2>2. TypeOK'
    BY <1>2, <2>1 DEF LeaveConstruct, scopes, history, IInv, TypeOK
  <2>3. ScopesBalanced' /\ LetsBind'
    BY <1>1, <1>4, <2>1, BalancedPop
  <2> QED
    BY <2>2, <2>3 DEF IInv
<1>5. CASE Top.kind # "let"
  <2>1. PopRibs
    BY <1>5 DEF LeaveConstruct
  <2>2. /\ nameScope' \in Seq(Rib) /\ PopsNode(nameScope, nameScope')
        /\ typeScope' \in Seq(Rib) /\ PopsNode(typeScope, typeScope')
        /\ labelScope' \in Seq(Rib) /\ PopsNode(labelScope, labelScope')
    BY <1>3, <2>1, PopNode DEF PopRibs
  <2>3. closureContext' \in Seq(NodeId)
    <3>1. closureContext \in Seq(NodeId)
      BY DEF IInv, TypeOK
    <3>2. SubSeq(closureContext, 1, Len(closureContext) - 1) \in Seq(NodeId)
      <4>1. CASE closureContext = <<>>
        BY <4>1, SubSeqEmpty
      <4>2. CASE closureContext # <<>>
        BY <3>1, <4>2, FrontType
      <4> QED
        BY <4>1, <4>2
    <3> QED
      BY <3>1, <3>2 DEF LeaveConstruct, PopClosureContext
  <2>4. TypeOK'
    BY <1>2, <2>2, <2>3 DEF LeaveConstruct, history, IInv, TypeOK
  <2>5. ScopesBalanced' /\ LetsBind'
    BY <1>1, <1>5, <2>2, BalancedPop
  <2> QED
    BY <2>4, <2>5 DEF IInv
<1> QED
  BY <1>4, <1>5

LEMMA InvStep == IInv /\ [Next]_vars => IInv'
<1> SUFFICES ASSUME IInv, [Next]_vars PROVE IInv'
  OBVIOUS
<1>1. CASE UNCHANGED vars
  BY <1>1 DEF vars, IInv, TypeOK, ScopesBalanced, RibsOf, Depth, Top, LetsBind
<1>2. CASE VerifyOtherAssignee \/ RejectClosureParameter
  <2>1. /\ outcome' \in {"aborted", "exited"}
        /\ UNCHANGED <<nameScope, typeScope, labelScope, closureContext, captures, resolvedNames,
                       resolvedTypes, reported, calls, nextNode, within, declRib>>
    BY <1>2 DEF VerifyOtherAssignee, RejectClosureParameter, scopes, history
  <2>2. TypeOK'
    BY <2>1 DEF IInv, TypeOK
  <2>3. ScopesBalanced' /\ LetsBind'
    BY <2>1 DEF IInv, ScopesBalanced, RibsOf, Depth, Top, LetsBind
  <2> QED
    BY <2>2, <2>3 DEF IInv
<1>3. CASE Next
  BY <1>2, <1>3, PathActions, DeclarationActions, LoopAction, EnteringActions,
     LetAction, StageActions, LeaveAction DEF Next
<1> QED
  BY <1>1, <1>3

\* The state of the resolver keeps its type: in particular no look-up ever
\* hands a dangling node to a resolution map or to the captures.
THEOREM TypeCorrect == Spec => []TypeOK
<1>1. IInv => TypeOK
  BY DEF IInv
<1> QED
  BY <1>1, InvInit, InvStep, PTL DEF Spec

\* For any nesting of constructs, entered and left in any order the visitor
\* can take, each of the three scopes has exactly one rib per open construct,
\* and that rib carries the node of the construct.
THEOREM Balanced == Spec => []ScopesBalanced
<1>1. IInv => ScopesBalanced
  BY DEF IInv
<1> QED
  BY <1>1, InvInit, InvStep, PTL DEF Spec

-----------------------------------------------------------------------------
(* The resolver implements VisibleScope *)

\* The declarations of the open ribs, and the references resolved, are nodes
\* the visitor has met.
Fresh ==
  /\ \A i \in 1..Len(nameScope) : \A n \in Name : nameScope[i].path[n] < nextNode
  /\ \A r \in NodeId : r >= nextNode => resolvedNames[r] = NoNode

Env(scope) == [i \in 1..Len(scope) |-> scope[i].path]

-----------------------------------------------------------------------------
(* What a step does to values *)

SamePaths(s, t) == /\ Len(t) = Len(s)
                   /\ \A i \in 1..Len(s) : t[i].path = s[i].path

Silent == /\ SamePaths(nameScope, nameScope')
          /\ nextNode' >= nextNode
          /\ UNCHANGED resolvedNames

Opens == /\ \E id \in NodeId : nameScope' = Push(nameScope, id)
         /\ nextNode' >= nextNode
         /\ UNCHANGED resolvedNames

Closes == /\ Len(nameScope) > 1
          /\ nameScope' = Pop(nameScope)
          /\ UNCHANGED <<nextNode, resolvedNames>>

Declaring == /\ \E n \in Name, k \in RibKind : DeclareName(n, k)
             /\ UNCHANGED resolvedNames

Referring ==
  \E n \in Name : /\ HasNode /\ nextNode' = nextNode + 1
                  /\ Lookup(nameScope, n) # NoNode
                  /\ InsertResolvedName(nextNode, Lookup(nameScope, n))

LEMMA EnterAdvances ==
  ASSUME IInv, NEW id, NEW call, Enter(id, call)
  PROVE  nextNode' >= nextNode
BY DEF Enter, IInv, TypeOK

LEMMA SamePathsRefl == SamePaths(nameScope, nameScope)
BY DEF SamePaths

LEMMA StepKinds ==
  ASSUME IInv, Next
  PROVE  Silent \/ Opens \/ Closes \/ Declaring \/ Referring
<1> USE SamePathsRefl
<1>0. nextNode \in Nat
  BY DEF IInv, TypeOK
<1>1. ASSUME NEW n \in Name,
             \/ ResolvePathInExpression(n)
             \/ ResolveRelativeTypePath(n)
             \/ ResolveAssignment(n)
      PROVE  Silent \/ Referring
  <2>1. HasNode /\ nextNode' = nextNode + 1
    BY <1>1 DEF ResolvePathInExpression, ResolveRelativeTypePath,
       ResolveAssignment, NewReference
  <2>2. \/ Lookup(nameScope, n) # NoNode /\ InsertResolvedName(nextNode, Lookup(nameScope, n))
        \/ UNCHANGED nameScope /\ UNCHANGED resolvedNames
    BY <1>1 DEF ResolvePathInExpression, ResolveRelativeTypePath,
       ResolveAssignment, InsertResolvedType, NothingResolved
  <2> QED
    BY <1>0, <2>1, <2>2 DEF Silent, Referring, SamePaths
<1>2. ASSUME NEW n \in Name,
             \/ AddNewBinding(n)
             \/ ResolveClosureParameter(n)
             \/ ResolveStructExprField(n)
      PROVE  Declaring
  BY <1>2 DEF AddNewBinding, ResolveClosureParameter, ResolveStructExprField,
     Declaring, RibKind
<1>3. ASSUME NEW n \in Name, ResolveTypeParam(n)
      PROVE  Silent
  BY <1>0, <1>3 DEF ResolveTypeParam, Silent, SamePaths
<1>4. ASSUME NEW n \in Name, ResolveInfiniteLoopExpression(n)
      PROVE  Opens
  <2>1. nextNode + 1 \in NodeId
    BY <1>4, RibsAssumption DEF ResolveInfiniteLoopExpression, IInv, TypeOK, NodeId
  <2> QED
    BY <1>0, <1>4, <2>1 DEF ResolveInfiniteLoopExpression, Opens
<1>5. CASE \/ ResolveFunction \/ ResolveBlockExpression
           \/ ResolveClosureExpression \/ ResolveMatchArm
           \/ ResolveIfLetExpression \/ ResolveIteratorLoopExpression
  <2>1. \E id \in NodeId : PushRibs(id) /\ nextNode' >= nextNode
    <3>1. CASE ResolveMatchArm
      <4>1. nextNode \in NodeId
        BY <3>1, NextNodeType DEF ResolveMatchArm, IInv
      <4> QED
        BY <3>1, <4>1, EnterAdvances DEF ResolveMatchArm
    <3>2. CASE \E kind \in CallKind, stage \in Stage : EnterConstruct(kind, stage)
      BY <3>2, EnterAdvances DEF EnterConstruct
    <3> QED
      BY <1>5, <3>1, <3>2 DEF ResolveFunction, ResolveBlockExpression,
         ResolveClosureExpression, ResolveIfLetExpression,
         ResolveIteratorLoopExpression, CallKind, Stage
  <2>2. UNCHANGED resolvedNames
    BY <1>5 DEF ResolveFunction, ResolveBlockExpression, ResolveClosureExpression,
       ResolveMatchArm, ResolveIfLetExpression, ResolveIteratorLoopExpression
  <2> QED
    BY <2>1, <2>2 DEF PushRibs, Opens
<1>6. CASE \/ ResolveLetStatement \/ ResolveClosureBody \/ ResolvePatterns
           \/ VerifyOtherAssignee \/ RejectClosureParameter
  BY <1>0, <1>6 DEF ResolveLetStatement, ResolveClosureBody, ResolvePatterns,
     VerifyOtherAssignee, RejectClosureParameter, scopes, Silent, SamePaths
<1>7. CASE LeaveConstruct
  <2>1. CASE Top.kind = "let"
    BY <1>0, <1>7, <2>1 DEF LeaveConstruct, scopes, Silent, SamePaths
  <2>2. CASE Top.kind # "let"
    <3>1. Len(nameScope) > 1
      BY <1>7, <2>2 DEF LeaveConstruct, IInv, ScopesBalanced, RibsOf, Depth
    <3> QED
      BY <1>7, <2>2, <3>1 DEF LeaveConstruct, PopRibs, Closes
  <2> QED
    BY <2>1, <2>2
<1> QED
  BY <1>1, <1>2, <1>3, <1>4, <1>5, <1>6, <1>7 DEF Next

-----------------------------------------------------------------------------
(* The environment a scope stands for *)

\* Facts in the form in which the steps below need them.
LEMMA PathType ==
  ASSUME NEW s \in Seq(Rib)
  PROVE  /\ Len(s) \in Nat
         /\ \A i \in 1..Len(s) : s[i].path \in [Name -> NodeId \cup {NoNode}]
<1>1. \A i \in 1..Len(s) : s[i] \in Rib
  BY ElementOfSeq
<1> QED
  BY <1>1, LenProperties DEF Rib

\* A function that differs from another in at most one place.
LEMMA Overwritten ==
  ASSUME NEW D, NEW f, NEW g, f = [m \in D |-> f[m]], g = [m \in D |-> g[m]],
         NEW n \in D, NEW x, \A m \in D : f[m] = IF m = n THEN x ELSE g[m]
  PROVE  f = [g EXCEPT ![n] = x]
OBVIOUS

LEMMA EnvPush ==
  ASSUME NEW s \in Seq(Rib), NEW id \in NodeId
  PROVE  Env(Push(s, id)) = Append(Env(s), Visible!Empty)
<1> DEFINE t == Push(s, id)
<1>1. /\ Len(s) \in Nat /\ Len(t) = Len(s) + 1
      /\ \A i \in 1..Len(s) : t[i] = s[i]
      /\ t[Len(s) + 1].path = Visible!Empty
  <2>1. NewRib(id).path = Visible!Empty
    BY DEF NewRib, Visible!Empty
  <2> QED
    BY <2>1, PathType, PushType
<1> HIDE DEF t
<1>2. Env(t) = Append(Env(s), Visible!Empty)
  BY <1>1 DEF Env
<1> QED
  BY <1>2 DEF t

\* insert declares a name in the innermost scope and nowhere else.
LEMMA EnvInsert ==
  ASSUME NEW s \in Seq(Rib), s # <<>>,
         NEW n \in Name, NEW id \in NodeId, NEW k \in RibKind
  PROVE  /\ Env(Insert(s, n, id, k)) =
              [Env(s) EXCEPT ![Len(Env(s))] = [@ EXCEPT ![n] = id]]
         /\ \A i \in 1..Len(s) : \A m \in Name :
              Insert(s, n, id, k)[i].path[m] \in {s[i].path[m], id}
<1> DEFINE t == Insert(s, n, id, k)
<1>1. /\ t \in Seq(Rib) /\ Len(t) = Len(s)
      /\ \A i \in 1..Len(s) : \A m \in Name :
           t[i].path[m] = IF i = Len(s) /\ m = n THEN id ELSE s[i].path[m]
  BY InsertType
<1> HIDE DEF t
<1>2. \A i \in 1..Len(s) : /\ t[i].path \in [Name -> NodeId \cup {NoNode}]
                           /\ s[i].path \in [Name -> NodeId \cup {NoNode}]
  BY <1>1, PathType
<1>3. \A i \in 1..Len(s) :
        t[i].path = IF i = Len(s) THEN [s[i].path EXCEPT ![n] = id] ELSE s[i].path
  <2> TAKE i \in 1..Len(s)
  <2> DEFINE f == t[i].path
             g == s[i].path
  <2>1. /\ f \in [Name -> NodeId \cup {NoNode}] /\ g \in [Name -> NodeId \cup {NoNode}]
        /\ \A m \in Name : f[m] = IF i = Len(s) /\ m = n THEN id ELSE g[m]
    BY <1>1, <1>2
  <2> HIDE DEF f, g
  <2>2. f = [m \in Name |-> f[m]] /\ g = [m \in Name |-> g[m]]
    BY <2>1
  <2>3. CASE i = Len(s)
    <3>1. f = [g EXCEPT ![n] = id]
      BY <2>1, <2>2, <2>3, Overwritten
    <3> QED
      BY <2>3, <3>1 DEF f, g
  <2>4. CASE i # Len(s)
    <3>1. f = g
      BY <2>1, <2>2, <2>4
    <3> QED
      BY <2>4, <3>1 DEF f, g
  <2> QED
    BY <2>3, <2>4
<1>4. Len(s) \in 1..Len(s) /\ Len(Env(s)) = Len(s)
  BY LenProperties, EmptySeq DEF Env
<1>5. Env(t) = [Env(s) EXCEPT ![Len(Env(s))] = [@ EXCEPT ![n] = id]]
  <2> DEFINE new == [s[Len(s)].path EXCEPT ![n] = id]
  <2>1. \A i \in 1..Len(s) : t[i].path = IF i = Len(s) THEN new ELSE s[i].path
    BY <1>3
  <2> HIDE DEF new
  <2>2. Env(t) = [Env(s) EXCEPT ![Len(s)] = new]
    BY <1>1, <1>4, <2>1 DEF Env
  <2>3. Env(s)[Len(s)] = s[Len(s)].path
    BY <1>4 DEF Env
  <2> QED
    BY <1>4, <2>2, <2>3 DEF new
<1> QED
  BY <1>1, <1>5 DEF t

-----------------------------------------------------------------------------
(* Every kind of step is one of VisibleScope *)

LEMMA Paths ==
  ASSUME IInv
  PROVE  /\ nextNode \in Nat /\ nameScope \in Seq(Rib) /\ nameScope # <<>>
         /\ Len(nameScope) \in Nat /\ Len(nameScope) >= 1
         /\ \A i \in 1..Len(nameScope) :
              /\ nameScope[i].path \in [Name -> NodeId \cup {NoNode}]
              /\ \A n \in Name : nameScope[i].path[n] \in Nat
<1>1. /\ nameScope \in Seq(Rib) /\ nameScope # <<>>
      /\ Len(nameScope) \in Nat /\ Len(nameScope) >= 1
  BY ScopesNotEmpty, EmptySeq, LenProperties DEF IInv, TypeOK
<1>2. \A i \in 1..Len(nameScope) : nameScope[i] \in Rib
  BY ElementOfSeq DEF IInv, TypeOK
<1>3. NodeId \cup {NoNode} \subseteq Nat
  BY RibsAssumption DEF NodeId, NoNode
<1> QED
  BY <1>1, <1>2, <1>3 DEF Rib, IInv, TypeOK

LEMMA NodesAreNumbers ==
  ASSUME IInv, IInv'
  PROVE  nextNode' \in Nat /\ NodeId \subseteq Nat /\ NoNode = 0
<1>1. nextNode' \in 2..(MaxNode + 1)
  BY DEF IInv, TypeOK
<1> QED
  BY <1>1, RibsAssumption DEF NodeId, NoNode

LEMMA SilentStep ==
  ASSUME IInv, IInv', Fresh, Silent
  PROVE  Fresh' /\ UNCHANGED Visible!vars
<1>1. Env(nameScope)' = Env(nameScope)
  BY DEF Silent, SamePaths, Env
<1>2. Fresh'
  <2>1. nextNode' >= nextNode /\ nextNode' \in Nat
    BY NodesAreNumbers DEF Silent
  <2>2. \A i \in 1..Len(nameScope') : \A n \in Name : nameScope'[i].path[n] < nextNode'
    BY <2>1, Paths DEF Fresh, Silent, SamePaths
  <2>3. \A r \in NodeId : r >= nextNode' => resolvedNames'[r] = NoNode
    BY <2>1, Paths, NodesAreNumbers DEF Fresh, Silent
  <2> QED
    BY <2>2, <2>3 DEF Fresh
<1> QED
  BY <1>1, <1>2 DEF Visible!vars, Env, Silent

LEMMA OpenStep ==
  ASSUME IInv, IInv', Fresh, Opens
  PROVE  Fresh' /\ Visible!Next
<1>1. PICK id \in NodeId : nameScope' = Push(nameScope, id)
  BY DEF Opens
<1>2. /\ Len(nameScope') = Len(nameScope) + 1
      /\ \A i \in 1..Len(nameScope) : nameScope'[i] = nameScope[i]
      /\ nameScope'[Len(nameScope) + 1] = NewRib(id)
  <2>1. nameScope \in Seq(Rib)
    BY Paths
  <2> QED
    BY <1>1, <2>1, PushType
<1>3. Env(nameScope') = Append(Env(nameScope), Visible!Empty)
  BY <1>1, Paths, EnvPush
<1>4. Visible!Open
  BY <1>3 DEF Visible!Open, Env, Opens
<1>5. Fresh'
  <2>1. nextNode' >= nextNode /\ nextNode' \in Nat /\ nextNode \in Nat
        /\ nextNode > 0
    BY NodesAreNumbers, Paths DEF Opens, IInv, TypeOK
  <2>2. \A i \in 1..Len(nameScope') : \A n \in Name : nameScope'[i].path[n] < nextNode'
    <3>1. \A n \in Name : nameScope'[Len(nameScope) + 1].path[n] = 0
      BY <1>2 DEF NewRib, NoNode
    <3> QED
      BY <1>2, <2>1, <3>1, Paths DEF Fresh
  <2>3. \A r \in NodeId : r >= nextNode' => resolvedNames'[r] = NoNode
    BY <2>1, NodesAreNumbers DEF Fresh, Opens
  <2> QED
    BY <2>2, <2>3 DEF Fresh
<1> QED
  BY <1>4, <1>5 DEF Visible!Next

LEMMA CloseStep ==
  ASSUME IInv, IInv', Fresh, Closes
  PROVE  Fresh' /\ Visible!Next
<1>1. /\ Len(nameScope) \in Nat /\ Len(nameScope') = Len(nameScope) - 1
      /\ \A i \in 1..Len(nameScope') : nameScope'[i] = nameScope[i]
  BY PopType, Paths, ScopesNotEmpty DEF Closes, IInv, TypeOK
<1>2. Env(nameScope)' = SubSeq(Env(nameScope), 1, Len(Env(nameScope)) - 1)
  BY <1>1 DEF Env, Closes
<1>3. Len(Env(nameScope)) = Len(nameScope)
  BY <1>1 DEF Env
<1>4. Visible!Close
  BY <1>2, <1>3 DEF Visible!Close, Env, Closes
<1>5. Fresh'
  BY <1>1 DEF Fresh, Closes
<1> QED
  BY <1>4, <1>5 DEF Visible!Next

LEMMA DeclareStep ==
  ASSUME IInv, IInv', Fresh, Declaring
  PROVE  Fresh' /\ Visible!Next
<1>1. PICK n \in Name, k \in RibKind : DeclareName(n, k)
  BY DEF Declaring
<1>2. /\ nextNode \in NodeId /\ nextNode' = nextNode + 1 /\ nextNode \in Nat
      /\ nameScope' = Insert(nameScope, n, nextNode, k)
  BY <1>1, NextNodeType, Paths DEF DeclareName, IInv
<1>3. /\ nameScope \in Seq(Rib) /\ nameScope # <<>>
      /\ Len(nameScope) \in Nat /\ Len(nameScope) >= 1
  BY Paths
<1>4. /\ Len(nameScope') = Len(nameScope)
      /\ \A i \in 1..Len(nameScope) : \A m \in Name :
           nameScope'[i].path[m] \in {nameScope[i].path[m], nextNode}
  BY <1>2, <1>3, InsertType, EnvInsert
<1>5. Env(nameScope') =
        [Env(nameScope) EXCEPT ![Len(Env(nameScope))] = [@ EXCEPT ![n] = nextNode]]
  BY <1>2, <1>3, EnvInsert
<1>6. \A i \in 1..Len(Env(nameScope)) : \A m \in Name :
        Env(nameScope)[i][m] # nextNode
  BY <1>2, <1>3, Paths DEF Env, Fresh
<1>7. PICK d \in NodeId : d = nextNode
  BY <1>2
<1>8. Fresh'
  <2>0. nextNode \in Nat /\ nextNode' = nextNode + 1 /\ NodeId \subseteq Nat
    BY <1>2, NodesAreNumbers
  <2>1. \A i \in 1..Len(nameScope') : \A m \in Name : nameScope'[i].path[m] < nextNode'
    <3>1. \A i \in 1..Len(nameScope) : \A m \in Name :
            nameScope[i].path[m] \in Nat /\ nameScope[i].path[m] < nextNode
      BY Paths DEF Fresh
    <3> QED
      BY <1>4, <2>0, <3>1
  <2>2. \A r \in NodeId : r >= nextNode' => resolvedNames'[r] = NoNode
    BY <2>0 DEF Fresh, Declaring
  <2> QED
    BY <2>1, <2>2 DEF Fresh
<1>9. Visible!Declare(n, d)
  BY <1>5, <1>6, <1>7 DEF Visible!Declare, Env, Declaring
<1> QED
  BY <1>8, <1>9 DEF Visible!Next

LEMMA ReferStep ==
  ASSUME IInv, IInv', Fresh, Referring
  PROVE  Fresh' /\ Visible!Next
<1>1. PICK n \in Name : /\ HasNode /\ nextNode' = nextNode + 1
                        /\ Lookup(nameScope, n) # NoNode
                        /\ InsertResolvedName(nextNode, Lookup(nameScope, n))
  BY DEF Referring
<1>2. nextNode \in NodeId /\ nextNode \in Nat /\ Lookup(nameScope, n) \in NodeId
  BY <1>1, NextNodeType, Paths, LookupResolves DEF IInv
<1>3. PICK i \in 1..Len(nameScope) : /\ nameScope[i].path[n] # NoNode
                                     /\ Lookup(nameScope, n) = nameScope[i].path[n]
  BY <1>1, LookupFinds DEF IInv, TypeOK
<1>4. SamePaths(nameScope, nameScope')
  <2>1. nameScope \in Seq(Rib) /\ nameScope # <<>>
    BY Paths
  <2> QED
    BY <1>1, <1>2, <2>1, AppendReferenceForDefType DEF InsertResolvedName, SamePaths
<1>5. Env(nameScope)' = Env(nameScope)
  BY <1>4 DEF SamePaths, Env
<1>6. resolvedNames' = [resolvedNames EXCEPT ![nextNode] = nameScope[i].path[n]]
  BY <1>1, <1>3 DEF InsertResolvedName
<1>7. resolvedNames[nextNode] = NoNode
  BY <1>2 DEF Fresh
<1>8. i \in 1..Len(Env(nameScope)) /\ Env(nameScope)[i][n] = nameScope[i].path[n]
  BY Paths DEF Env
<1>9. Visible!Refer(n, nextNode)
  BY <1>3, <1>5, <1>6, <1>7, <1>8 DEF Visible!Refer, Env
<1>10. Fresh'
  <2>1. \A j \in 1..Len(nameScope') : \A m \in Name : nameScope'[j].path[m] < nextNode'
    BY <1>1, <1>2, <1>4, Paths DEF Fresh, SamePaths
  <2>2. \A r \in NodeId : r >= nextNode' => resolvedNames'[r] = NoNode
    BY <1>1, <1>2, <1>6, RibsAssumption DEF Fresh, NodeId, IInv, TypeOK
  <2> QED
    BY <2>1, <2>2 DEF Fresh
<1>11. \E r \in NodeId : Visible!Refer(n, r)
  BY <1>2, <1>9
<1> QED
  BY <1>10, <1>11 DEF Visible!Next

LEMMA VisibleInit == Init => Fresh /\ Visible!Init
<1> SUFFICES ASSUME Init PROVE Fresh /\ Visible!Init
  OBVIOUS
<1>1. Len(nameScope) = 1 /\ nameScope[1].path = [n \in Name |-> NoNode]
  BY DEF Init, NewRib
<1>2. Env(nameScope) = <<Visible!Empty>>
  BY <1>1 DEF Env, Visible!Empty
<1>3. Fresh
  BY <1>1 DEF Fresh, Init, NoNode
<1> QED
  BY <1>2, <1>3 DEF Visible!Init, Env, Init

LEMMA VisibleStep ==
  IInv /\ IInv' /\ Fresh /\ [Next]_vars => Fresh' /\ [Visible!Next]_(Visible!vars)
<1> SUFFICES ASSUME IInv, IInv', Fresh, [Next]_vars
             PROVE  Fresh' /\ [Visible!Next]_(Visible!vars)
  OBVIOUS
<1>1. CASE Next
  BY <1>1, StepKinds, SilentStep, OpenStep, CloseStep, DeclareStep, ReferStep
<1>2. CASE UNCHANGED vars
  BY <1>2 DEF vars, Fresh, Visible!vars
<1> QED
  BY <1>1, <1>2

\* Whatever is nested in whatever, a reference to a value denotes a
\* declaration of a construct that is open when the reference is resolved, and
\* keeps denoting it: the resolver implements VisibleScope.
THEOREM Refinement == Spec => ImplementsVisibleScope
<1>1. Init => IInv /\ Fresh /\ Visible!Init
  BY InvInit, VisibleInit
<1>2. IInv /\ Fresh /\ [Next]_vars
        => IInv' /\ Fresh' /\ [Visible!Next]_(Visible!vars)
  BY InvStep, VisibleStep
<1> QED
  BY <1>1, <1>2, PTL DEF Spec, ImplementsVisibleScope, Visible!Spec


-----------------------------------------------------------------------------
(* Closures and captures: the invariant *)

\* An arm and the construct that is its body have one node; every other
\* activation has one that was met later than those around it.
Nested(a, b) ==
  a.node = b.node /\ a.kind = "arm" /\ a.stage = "done" /\ b.kind # "arm"

Ordered ==
  \A i, j \in 1..Len(calls) : i < j =>
    calls[i].node < calls[j].node \/ Nested(calls[i], calls[j])

Met == \A i \in 1..Len(calls) : calls[i].node < nextNode

\* Only an arm can be before its root expression; only the innermost
\* activation can be a closure whose parameters are being resolved.
Stages ==
  \A i \in 1..Len(calls) :
    /\ calls[i].stage = "body" => calls[i].kind = "arm"
    /\ calls[i].stage = "params" => calls[i].kind = "closure" /\ i = Len(calls)

Chain == Ordered /\ Met /\ Stages

\* The closures among the first i activations, and those in their bodies.
Around(cs, c, i) == \E j \in 1..i : cs[j].kind = "closure" /\ cs[j].node = c
InBody(cs, c) ==
  \E i \in 1..Len(cs) :
    cs[i].kind = "closure" /\ cs[i].stage # "params" /\ cs[i].node = c
InContext(context, c) == \E k \in 1..Len(context) : context[k] = c

Context ==
  /\ \A k, l \in 1..Len(closureContext) : k < l => closureContext[k] < closureContext[l]
  /\ \A c \in NodeId : InContext(closureContext, c) <=> InBody(calls, c)

\* History of a declaration in an open rib, and of an open closure.
Declarations ==
  \A i \in 1..Len(nameScope) : \A d \in nameScope[i].decls :
    /\ declRib[d] = nameScope[i].node
    /\ \A c \in NodeId : c \in within[d] <=> Around(calls, c, i)
Closures ==
  \A i \in 1..Len(calls) : calls[i].kind = "closure" =>
    \A c \in NodeId : c \in within[calls[i].node] <=> Around(calls, c, i - 1)

\* Nodes that are used up are met no more, and those of declarations and
\* references are not those of activations.
UsedUp(x) == x < nextNode /\ \A i \in 1..Len(calls) : calls[i].node # x
DeclaredUsed == \A d \in NodeId : declRib[d] # NoNode => UsedUp(d)
ResolvedUsed ==
  \A r \in NodeId : resolvedNames[r] # NoNode => UsedUp(r) /\ resolvedNames[r] < nextNode

\* An arm whose node captures has reached its body: the closure is its body.
CapturingUsed ==
  \A c \in NodeId : captures[c] # {} =>
    /\ c < nextNode
    /\ \A i \in 1..Len(calls) :
         calls[i].node = c /\ calls[i].kind = "arm" => calls[i].stage = "done"

Used == DeclaredUsed /\ ResolvedUsed /\ CapturingUsed

Captures == CapturesSound /\ CapturesNested /\ CapturesCompleteOutsideArms

CInv == /\ IInv /\ Fresh /\ Chain /\ Context /\ Declarations /\ Closures
        /\ Used /\ Captures

-----------------------------------------------------------------------------
(* What a step does to ribs: declarations and kinds *)

SameDecls(s, t) ==
  /\ Len(t) = Len(s)
  /\ \A i \in 1..Len(s) : t[i].node = s[i].node /\ t[i].decls = s[i].decls /\ t[i].kind = s[i].kind

LEMMA AppendReferenceKeepsDecls ==
  ASSUME NEW scope \in Seq(Rib), scope # <<>>, NEW ref \in NodeId, NEW d \in NodeId
  PROVE  SameDecls(scope, AppendReferenceForDef(scope, ref, d))
<1>1. Len(scope) \in Nat /\ Len(scope) >= 1 /\ scope[1] \in Rib
  BY EmptySeq, LenProperties
<1> DEFINE refs == [scope[1].refs EXCEPT ![d] = @ \cup {ref}]
           rib == [scope[1] EXCEPT !.refs = refs]
<1>2. refs \in [NodeId -> SUBSET NodeId]
  BY <1>1 DEF Rib
<1>3. /\ rib \in Rib /\ rib.node = scope[1].node
      /\ rib.decls = scope[1].decls /\ rib.kind = scope[1].kind
  <2> HIDE DEF refs
  <2> QED BY <1>1, <1>2 DEF Rib
<1>4. [scope EXCEPT ![1].refs[d] = @ \cup {ref}] = [scope EXCEPT ![1] = rib]
  BY <1>1
<1> HIDE DEF rib, refs
<1>5. /\ Len([scope EXCEPT ![1] = rib]) = Len(scope)
      /\ \A i \in 1..Len(scope) :
           [scope EXCEPT ![1] = rib][i] = IF i = 1 THEN rib ELSE scope[i]
  BY <1>1, <1>3, ExceptSeq
<1>6. CASE WasDeclDeclaredHere(scope[1], d)
  BY <1>3, <1>4, <1>5, <1>6 DEF AppendReferenceForDef, SameDecls
<1>7. CASE ~WasDeclDeclaredHere(scope[1], d)
  BY <1>7 DEF AppendReferenceForDef, SameDecls
<1> QED
  BY <1>6, <1>7

\* One more declaration in the last rib.
DeclaresLast(s, t, id) ==
  /\ Len(t) = Len(s)
  /\ \A i \in 1..Len(s) :
       /\ t[i].node = s[i].node
       /\ t[i].decls = IF i = Len(s) THEN s[i].decls \cup {id} ELSE s[i].decls
       /\ \A d \in NodeId \ {id} : t[i].kind[d] = s[i].kind[d]

LEMMA InsertDeclares ==
  ASSUME NEW scope \in Seq(Rib), scope # <<>>,
         NEW n \in Name, NEW id \in NodeId, NEW k \in RibKind
  PROVE  DeclaresLast(scope, Insert(scope, n, id, k), id)
<1>1. Len(scope) \in Nat /\ Len(scope) >= 1 /\ scope[Len(scope)] \in Rib
  BY EmptySeq, LenProperties
<1> DEFINE last == scope[Len(scope)]
           kinds == [last.kind EXCEPT ![id] = IF @ = NoKind THEN k ELSE @]
           refs == [last.refs EXCEPT ![id] = {}]
           path == [last.path EXCEPT ![n] = id]
           decls == last.decls \cup {id}
           rib == InsertName(last, n, id, TRUE, k)
           new == [last EXCEPT !.path = path, !.decls = decls, !.refs = refs, !.kind = kinds]
<1>2. rib = new
  BY <1>1 DEF InsertName, Rib
<1>3. /\ path \in [Name -> NodeId \cup {NoNode}]
      /\ kinds \in [NodeId -> RibKind \cup {NoKind}]
      /\ decls \in SUBSET NodeId
      /\ refs \in [NodeId -> SUBSET NodeId]
      /\ \A d \in NodeId \ {id} : kinds[d] = last.kind[d]
  BY <1>1 DEF Rib
<1>4. new \in Rib /\ new.node = last.node /\ new.decls = decls /\ new.kind = kinds
  <2> HIDE DEF kinds, refs, path, decls
  <2> QED BY <1>1, <1>3 DEF Rib
<1>5. /\ rib \in Rib /\ rib.node = last.node /\ rib.decls = decls
      /\ \A d \in NodeId \ {id} : rib.kind[d] = last.kind[d]
  <2> HIDE DEF rib, new, kinds
  <2> QED BY <1>2, <1>3, <1>4
<1>6. Insert(scope, n, id, k) = [scope EXCEPT ![Len(scope)] = rib]
  BY <1>1 DEF Insert
<1> HIDE DEF rib, new, kinds, refs, path
<1>7. /\ Len([scope EXCEPT ![Len(scope)] = rib]) = Len(scope)
      /\ \A i \in 1..Len(scope) : [scope EXCEPT ![Len(scope)] = rib][i] =
                                    IF i = Len(scope) THEN rib ELSE scope[i]
  BY <1>1, <1>5, ExceptSeq
<1> QED
  BY <1>1, <1>5, <1>6, <1>7 DEF DeclaresLast

-----------------------------------------------------------------------------
(* The kind of a declaration is that of the first rib that knows it *)

KindAt(s, d, i) ==
  /\ i \in 1..Len(s) /\ d \in s[i].decls /\ s[i].kind[d] = "Variable"
  /\ \A j \in 1..(i - 1) : d \in s[j].decls => s[j].kind[d] = NoKind

LEMMA LookupDeclTypeFinds ==
  ASSUME NEW s \in Seq(Rib), NEW d \in NodeId
  PROVE  LookupDeclType(s, d) = "Variable" <=> \E i \in 1..Len(s) : KindAt(s, d, i)
<1> DEFINE hits == {i \in 1..Len(s) : WasDeclDeclaredHere(s[i], d) /\ s[i].kind[d] # NoKind}
<1>1. Len(s) \in Nat /\ hits \subseteq Nat
  BY LenProperties
<1>2. LookupDeclType(s, d) = IF hits = {} THEN NoKind ELSE s[FirstIndex(hits)].kind[d]
  BY DEF LookupDeclType
<1>3. "Variable" # NoKind
  BY DEF NoKind
<1>4. \A i \in hits : i \in 1..Len(s) /\ d \in s[i].decls /\ s[i].kind[d] # NoKind
  BY DEF WasDeclDeclaredHere
<1>5. \A i \in 1..Len(s) : d \in s[i].decls /\ s[i].kind[d] # NoKind => i \in hits
  BY DEF WasDeclDeclaredHere
<1> HIDE DEF hits
<1>6. hits # {} => FirstIndex(hits) \in hits /\ \A j \in hits : FirstIndex(hits) <= j
  BY <1>1, FirstIndexExists
<1>7. ASSUME LookupDeclType(s, d) = "Variable" PROVE KindAt(s, d, FirstIndex(hits))
  <2>1. hits # {} /\ s[FirstIndex(hits)].kind[d] = "Variable"
    BY <1>2, <1>3, <1>7
  <2> DEFINE p == FirstIndex(hits)
  <2>2. p \in hits /\ p \in 1..Len(s) /\ \A j \in hits : p <= j
    BY <1>4, <1>6, <2>1
  <2> HIDE DEF p
  <2>3. \A j \in 1..(p - 1) : j \notin hits /\ j \in 1..Len(s)
    BY <1>1, <2>2
  <2>4. \A j \in 1..(p - 1) : d \in s[j].decls => s[j].kind[d] = NoKind
    BY <1>5, <2>3
  <2>5. d \in s[p].decls /\ s[p].kind[d] = "Variable"
    BY <1>4, <2>1, <2>2 DEF p
  <2> QED BY <2>2, <2>4, <2>5 DEF KindAt, p
<1>8. ASSUME NEW i \in 1..Len(s), KindAt(s, d, i) PROVE LookupDeclType(s, d) = "Variable"
  <2>1. i \in hits
    BY <1>3, <1>5, <1>8 DEF KindAt
  <2>2. FirstIndex(hits) \in 1..Len(s) /\ FirstIndex(hits) <= i /\ FirstIndex(hits) \in hits
    BY <1>4, <1>6, <2>1
  <2>3. ~(FirstIndex(hits) < i)
    <3> SUFFICES ASSUME FirstIndex(hits) < i PROVE FALSE
      OBVIOUS
    <3>1. FirstIndex(hits) \in 1..(i - 1)
      BY <1>1, <2>2
    <3> QED BY <1>4, <1>8, <2>2, <3>1 DEF KindAt
  <2>4. FirstIndex(hits) = i
    BY <1>1, <2>2, <2>3
  <2> QED BY <1>2, <1>8, <2>1, <2>4 DEF KindAt
<1>9. LookupDeclType(s, d) = "Variable" => \E i \in 1..Len(s) : KindAt(s, d, i)
  BY <1>7 DEF KindAt
<1> QED
  BY <1>8, <1>9

\* t has the declaration d where s has it, of the same kind.
Agree(s, t, d) ==
  \A i \in 1..Len(t) :
    /\ d \in t[i].decls => i \in 1..Len(s)
    /\ i \in 1..Len(s) =>
         /\ d \in t[i].decls <=> d \in s[i].decls
         /\ t[i].kind[d] = s[i].kind[d]

LEMMA AgreeingKinds ==
  ASSUME NEW s \in Seq(Rib), NEW t \in Seq(Rib), NEW d \in NodeId, Agree(s, t, d),
         LookupDeclType(t, d) = "Variable"
  PROVE  LookupDeclType(s, d) = "Variable"
<1>1. PICK i \in 1..Len(t) : KindAt(t, d, i)
  BY LookupDeclTypeFinds
<1>2. Len(s) \in Nat /\ Len(t) \in Nat
  BY LenProperties
<1>3. i \in 1..Len(s) /\ d \in s[i].decls /\ s[i].kind[d] = "Variable"
  BY <1>1 DEF Agree, KindAt
<1>4. ASSUME NEW j \in 1..(i - 1), d \in s[j].decls PROVE s[j].kind[d] = NoKind
  <2>1. j \in 1..Len(s) /\ j \in 1..Len(t)
    BY <1>2, <1>3
  <2> QED
    BY <1>1, <1>4, <2>1 DEF Agree, KindAt
<1>5. KindAt(s, d, i)
  BY <1>3, <1>4 DEF KindAt
<1> QED
  BY <1>3, <1>5, LookupDeclTypeFinds

-----------------------------------------------------------------------------
(* Positions of ribs and activations *)

LEMMA Frames ==
  ASSUME IInv
  PROVE  /\ Len(calls) \in Nat /\ Len(calls) >= 1 /\ Top = calls[Len(calls)]
         /\ Len(nameScope) \in Nat /\ Len(nameScope) >= 1
         /\ Len(nameScope) = IF Top.kind = "let" THEN Len(calls) - 1 ELSE Len(calls)
         /\ \A i \in 1..Len(calls) : calls[i].node \in NodeId /\ calls[i].node \in Nat
         /\ \A i \in 1..Len(nameScope) :
              i \in 1..Len(calls) /\ nameScope[i].node = calls[i].node
         /\ nameScope \in Seq(Rib) /\ nameScope # <<>>
         /\ NodeId \subseteq Nat /\ NoNode = 0 /\ NoNode \notin NodeId
         /\ nextNode \in Nat
<1>1. /\ Len(calls) \in Nat /\ Len(calls) >= 1 /\ Top = calls[Len(calls)]
      /\ \A i \in 1..Len(calls) : calls[i].node \in NodeId
  BY TopOfCalls DEF IInv, Call
<1>2. Len(nameScope) = Depth /\ \A i \in 1..Depth : nameScope[i].node = calls[i].node
  BY DEF IInv, ScopesBalanced, RibsOf
<1>3. Len(nameScope) \in Nat /\ Len(nameScope) >= 1 /\ nameScope \in Seq(Rib) /\ nameScope # <<>>
  BY Paths
<1>4. NodeId \subseteq Nat /\ NoNode = 0 /\ NoNode \notin NodeId /\ nextNode \in Nat
  BY RibsAssumption DEF NodeId, NoNode, IInv, TypeOK
<1>5. Len(nameScope) = IF Top.kind = "let" THEN Len(calls) - 1 ELSE Len(calls)
  BY <1>2 DEF Depth
<1>6. \A i \in 1..Len(nameScope) :
        i \in 1..Len(calls) /\ nameScope[i].node = calls[i].node
  BY <1>1, <1>2, <1>5
<1>7. \A i \in 1..Len(calls) : calls[i].node \in NodeId /\ calls[i].node \in Nat
  BY <1>1, <1>4
<1> QED
  BY <1>1, <1>3, <1>4, <1>5, <1>6, <1>7

LEMMA Monotone ==
  ASSUME IInv, Ordered, NEW i \in 1..Len(calls), NEW j \in 1..Len(calls), i <= j
  PROVE  calls[i].node <= calls[j].node
<1>1. calls[i].node \in Nat /\ calls[j].node \in Nat
  BY Frames
<1>2. CASE i = j
  BY <1>1, <1>2
<1>3. CASE i < j
  BY <1>1, <1>3 DEF Ordered, Nested
<1> QED
  BY <1>2, <1>3

\* Only the arm it is the body of has the node of a closure.
LEMMA ClosureOwns ==
  ASSUME IInv, Ordered, NEW i \in 1..Len(calls), NEW j \in 1..Len(calls),
         calls[j].kind = "closure", calls[i].node = calls[j].node, i # j
  PROVE  i < j /\ calls[i].kind = "arm" /\ calls[i].stage = "done"
<1>1. calls[i].node \in Nat /\ calls[j].node \in Nat
  BY Frames
<1>2. ~(j < i)
  BY <1>1 DEF Ordered, Nested
<1>3. i < j
  BY <1>2
<1> QED
  BY <1>1, <1>3 DEF Ordered, Nested

\* declNeedsCapture says that some rib of the declaration is outside every rib of
\* the closure.
LEMMA NeedsCaptureIff ==
  ASSUME NEW s \in Seq(Rib), NEW p, NEW c
  PROVE  DeclNeedsCapture(p, c, s) <=>
           \E k \in 1..Len(s) : /\ s[k].node = p
                                /\ \A i \in 1..Len(s) : s[i].node = c => k < i
<1> DEFINE closureAt == {i \in 1..Len(s) : s[i].node = c}
           declAt == {i \in 1..Len(s) : s[i].node = p}
<1>1. Len(s) \in Nat /\ declAt \subseteq Nat /\ declAt \subseteq 1..Len(s)
  BY LenProperties
<1>2. DeclNeedsCapture(p, c, s) <=>
        declAt # {} /\ \A i \in closureAt : FirstIndex(declAt) < i
  BY DEF DeclNeedsCapture
<1>3. \A i : i \in closureAt <=> i \in 1..Len(s) /\ s[i].node = c
  OBVIOUS
<1>4. \A i : i \in declAt <=> i \in 1..Len(s) /\ s[i].node = p
  OBVIOUS
<1> HIDE DEF closureAt, declAt
<1>5. declAt # {} => FirstIndex(declAt) \in declAt /\ \A j \in declAt : FirstIndex(declAt) <= j
  BY <1>1, FirstIndexExists
<1>6. ASSUME DeclNeedsCapture(p, c, s)
      PROVE  \E k \in 1..Len(s) : /\ s[k].node = p
                                  /\ \A i \in 1..Len(s) : s[i].node = c => k < i
  BY <1>2, <1>3, <1>4, <1>5, <1>6
<1>7. ASSUME NEW k \in 1..Len(s), s[k].node = p,
             \A i \in 1..Len(s) : s[i].node = c => k < i
      PROVE  DeclNeedsCapture(p, c, s)
  <2> DEFINE f == FirstIndex(declAt)
  <2>1. k \in declAt
    BY <1>4, <1>7
  <2>2. f \in Nat /\ f <= k
    BY <1>1, <1>5, <2>1
  <2> HIDE DEF f
  <2>3. \A i \in closureAt : f < i
    BY <1>1, <1>3, <1>7, <2>2
  <2> QED
    BY <1>2, <2>1, <2>3 DEF f
<1> QED
  BY <1>6, <1>7

\* The rib lookupRibForDecl finds is that of the history.
LEMMA RibFound ==
  ASSUME IInv, Declarations, NEW i \in 1..Len(nameScope), NEW d \in nameScope[i].decls
  PROVE  RibNodeForDecl(nameScope, d) = calls[i].node /\ declRib[d] = calls[i].node
<1> DEFINE hits == {j \in 1..Len(nameScope) : WasDeclDeclaredHere(nameScope[j], d)}
<1>1. RibNodeForDecl(nameScope, d) =
        IF hits = {} THEN NoNode ELSE nameScope[FirstIndex(hits)].node
  BY DEF RibNodeForDecl
<1>2. hits \subseteq Nat /\ i \in hits
  BY Frames DEF WasDeclDeclaredHere
<1>3. \A j \in hits : j \in 1..Len(nameScope) /\ d \in nameScope[j].decls
  BY DEF WasDeclDeclaredHere
<1> HIDE DEF hits
<1>4. FirstIndex(hits) \in hits
  BY <1>2, FirstIndexExists
<1>5. PICK f \in hits : f = FirstIndex(hits)
  BY <1>4
<1>6. f \in 1..Len(nameScope) /\ nameScope[f].node = declRib[d]
  BY <1>3, <1>5 DEF Declarations
<1>7. declRib[d] = nameScope[i].node /\ nameScope[i].node = calls[i].node
  BY Frames DEF Declarations
<1> QED
  BY <1>1, <1>2, <1>5, <1>6, <1>7

\* Whether closure c has to capture declaration d.
Needs(c, d) == DeclNeedsCapture(RibNodeForDecl(nameScope, d), c, nameScope)

\* What an open closure needs to capture was declared outside it.
LEMMA NeedsOutside ==
  ASSUME IInv, Ordered, Declarations,
         NEW i \in 1..Len(nameScope), NEW d \in nameScope[i].decls,
         NEW c \in NodeId, Needs(c, d)
  PROVE  ~Around(calls, c, i)
<1> SUFFICES ASSUME NEW j \in 1..i, calls[j].kind = "closure", calls[j].node = c
             PROVE  FALSE
  BY DEF Around
<1>1. /\ i \in 1..Len(calls) /\ j \in 1..Len(calls) /\ j \in 1..Len(nameScope)
      /\ nameScope[j].node = c /\ nameScope \in Seq(Rib)
  BY Frames, SMTT(40)
<1>2. DeclNeedsCapture(calls[i].node, c, nameScope)
  BY RibFound DEF Needs
<1>3. PICK k \in 1..Len(nameScope) :
        /\ nameScope[k].node = calls[i].node
        /\ \A m \in 1..Len(nameScope) : nameScope[m].node = c => k < m
  BY <1>1, <1>2, NeedsCaptureIff
<1>4. k < j /\ k \in 1..Len(calls) /\ calls[k].node = calls[i].node /\ k \in Nat
  BY <1>1, <1>3, Frames
<1>5. calls[k].node <= calls[j].node /\ calls[j].node <= calls[i].node
  BY <1>1, <1>4, Monotone
<1>6. calls[k].node = c
  BY <1>1, <1>4, <1>5, Frames
<1> QED
  BY <1>3, <1>4, <1>6, Frames

\* An open closure needs to capture what was declared outside it, but for the
\* bindings of the arm it is the body of.
LEMMA OutsideNeeds ==
  ASSUME IInv, Ordered, Declarations,
         NEW i \in 1..Len(nameScope), NEW d \in nameScope[i].decls,
         NEW j \in 1..Len(calls), calls[j].kind = "closure",
         ~Around(calls, calls[j].node, i), declRib[d] # calls[j].node
  PROVE  Needs(calls[j].node, d)
<1>1. i \in 1..Len(calls) /\ nameScope[i].node = calls[i].node /\ nameScope \in Seq(Rib)
  BY Frames
<1>2. i < j
  BY <1>1 DEF Around
<1>3. calls[i].node # calls[j].node
  BY RibFound
<1>4. calls[i].node < calls[j].node
  BY <1>1, <1>2, <1>3 DEF Ordered, Nested
<1>5. ASSUME NEW m \in 1..Len(nameScope), nameScope[m].node = calls[j].node
      PROVE  i < m
  <2>1. m \in 1..Len(calls) /\ calls[m].node = calls[j].node
    BY <1>5, Frames
  <2>2. m <= i => calls[m].node <= calls[i].node
    BY <1>1, <2>1, Monotone
  <2> QED
    BY <1>1, <1>4, <2>1, <2>2, Frames
<1>6. DeclNeedsCapture(calls[i].node, calls[j].node, nameScope)
  BY <1>1, <1>5, NeedsCaptureIff
<1> QED
  BY <1>6, RibFound DEF Needs

-----------------------------------------------------------------------------
(* What a step does to the activations: they stay, one is entered, the     *)
(* innermost one is left.                                                  *)

SameCall(a, b) == b.kind = a.kind /\ b.node = a.node

\* The activations around the innermost one have their stages.
KeepsStages ==
  \A i \in 1..Len(calls) : /\ SameCall(calls[i], calls'[i])
                           /\ i < Len(calls) => calls'[i].stage = calls[i].stage

\* How far the innermost activation of before can get.
Proceeds ==
  /\ calls'[Len(calls)].stage = "body" => Top.kind = "arm"
  /\ calls'[Len(calls)].stage = "params" => Top.stage = "params"
  /\ Top.stage = "done" => calls'[Len(calls)].stage = "done"

Stays == Len(calls') = Len(calls) /\ KeepsStages /\ Proceeds /\ nextNode' >= nextNode

\* A construct has a node the visitor has not met, or that of the arm it is in.
FreshNode(id) == nextNode <= id /\ id < nextNode'
ArmNode(id, kind) ==
  /\ id = Top.node /\ Top.kind = "arm" /\ Top.stage = "body"
  /\ calls'[Len(calls)].stage = "done" /\ kind # "arm" /\ nextNode' = nextNode

Enters(id, kind) ==
  /\ Len(calls') = Len(calls) + 1 /\ KeepsStages /\ Proceeds
  /\ Top.stage # "params"
  /\ calls'[Len(calls) + 1].kind = kind /\ calls'[Len(calls) + 1].node = id
  /\ calls'[Len(calls) + 1].stage # "body"
  /\ kind = "closure" <=> calls'[Len(calls) + 1].stage = "params"
  /\ FreshNode(id) \/ ArmNode(id, kind)

Leaves ==
  /\ Len(calls) > 1 /\ Len(calls') = Len(calls) - 1 /\ nextNode' = nextNode
  /\ \A i \in 1..(Len(calls) - 1) : calls'[i] = calls[i]

LEMMA ChainStays ==
  ASSUME IInv, nextNode' \in Nat, Chain, Stays
  PROVE  Chain'
<1>1. /\ Len(calls) \in Nat /\ Len(calls') = Len(calls) /\ nextNode' >= nextNode
      /\ nextNode \in Nat
      /\ \A i \in 1..Len(calls) :
           /\ calls'[i].kind = calls[i].kind /\ calls'[i].node = calls[i].node
           /\ calls[i].node \in Nat
           /\ i < Len(calls) => calls'[i].stage = calls[i].stage
  BY Frames DEF Stays, KeepsStages, SameCall
<1>2. Ordered'
  <2> SUFFICES ASSUME NEW i \in 1..Len(calls), NEW j \in 1..Len(calls), i < j
               PROVE  calls'[i].node < calls'[j].node \/ Nested(calls'[i], calls'[j])
    BY <1>1 DEF Ordered
  <2>1. i < Len(calls)
    BY <1>1
  <2> QED
    BY <1>1, <2>1 DEF Chain, Ordered, Nested
<1>3. Met'
  BY <1>1 DEF Chain, Met
<1>4. Stages'
  BY <1>1, Frames DEF Chain, Stages, Stays, Proceeds
<1> QED
  BY <1>2, <1>3, <1>4 DEF Chain

LEMMA ChainEnters ==
  ASSUME IInv, nextNode' \in Nat, Chain, NEW id \in Nat, NEW kind, Enters(id, kind)
  PROVE  Chain'
<1> DEFINE n == Len(calls)
<1>1. /\ n \in Nat /\ n >= 1 /\ Len(calls') = n + 1 /\ nextNode \in Nat
      /\ Top = calls[n]
      /\ \A i \in 1..n :
           /\ calls'[i].kind = calls[i].kind /\ calls'[i].node = calls[i].node
           /\ calls[i].node \in Nat
           /\ i < n => calls'[i].stage = calls[i].stage
  BY Frames DEF Enters, KeepsStages, SameCall
<1>2. /\ calls'[n + 1].kind = kind /\ calls'[n + 1].node = id
      /\ calls'[n + 1].stage # "body"
      /\ kind = "closure" <=> calls'[n + 1].stage = "params"
      /\ FreshNode(id) \/ ArmNode(id, kind)
      /\ Proceeds /\ Top.stage # "params"
  BY DEF Enters
<1>3. FreshNode(id) => nextNode <= id /\ id < nextNode'
  BY DEF FreshNode
<1>4. ArmNode(id, kind) => /\ id = calls[n].node /\ calls[n].kind = "arm"
                           /\ calls'[n].stage = "done" /\ kind # "arm"
                           /\ nextNode' = nextNode
  BY <1>1 DEF ArmNode
<1>5. \A i \in 1..n : calls[i].node < nextNode
  BY DEF Chain, Met
<1> HIDE DEF n
<1>6. ASSUME NEW i \in 1..(n + 1), NEW j \in 1..(n + 1), i < j
      PROVE  calls'[i].node < calls'[j].node \/ Nested(calls'[i], calls'[j])
  <2>1. CASE j # n + 1
    <3>1. i \in 1..n /\ j \in 1..n /\ i < n
      BY <1>1, <1>6, <2>1
    <3>2. calls[i].node < calls[j].node \/ Nested(calls[i], calls[j])
      BY <1>6, <3>1 DEF Chain, Ordered, n
    <3> QED
      BY <1>1, <3>1, <3>2 DEF Nested
  <2>2. CASE j = n + 1 /\ FreshNode(id)
    BY <1>1, <1>2, <1>3, <1>5, <1>6, <2>2
  <2>3. CASE j = n + 1 /\ ArmNode(id, kind)
    <3>1. CASE i = n
      BY <1>1, <1>2, <1>4, <2>3, <3>1 DEF Nested
    <3>2. CASE i # n
      <4>1. i \in 1..n /\ n \in 1..n /\ i < n
        BY <1>1, <1>6, <2>3, <3>2
      <4>2. calls[i].node < calls[n].node \/ Nested(calls[i], calls[n])
        BY <4>1 DEF Chain, Ordered, n
      <4>3. calls[i].node < calls[n].node
        BY <1>4, <2>3, <4>2 DEF Nested
      <4> QED
        BY <1>1, <1>2, <1>4, <2>3, <4>1, <4>3
    <3> QED
      BY <3>1, <3>2
  <2> QED
    BY <1>2, <1>6, <2>1, <2>2, <2>3
<1>7. Ordered'
  BY <1>1, <1>6 DEF Ordered
<1>8. Met'
  <2>1. nextNode' >= nextNode
    BY <1>1, <1>2, <1>3, <1>4
  <2>2. calls'[n + 1].node < nextNode'
    BY <1>1, <1>2, <1>3, <1>4, <1>5
  <2> QED
    BY <1>1, <1>5, <2>1, <2>2 DEF Met
<1>9. Stages'
  <2>1. \A i \in 1..n : i < n \/ i = n
    BY <1>1
  <2>2. ASSUME NEW i \in 1..n
        PROVE  /\ calls'[i].stage = "body" => calls'[i].kind = "arm"
               /\ calls'[i].stage # "params"
    <3>1. calls[i].stage = "params" => i = n
      BY DEF Chain, Stages, n
    <3>2. CASE i < n
      BY <1>1, <3>1, <3>2 DEF Chain, Stages, n
    <3>3. CASE i = n
      BY <1>1, <1>2, <3>3 DEF Proceeds, n
    <3> QED
      BY <2>1, <3>2, <3>3
  <2> QED
    BY <1>1, <1>2, <2>2 DEF Stages
<1> QED
  BY <1>7, <1>8, <1>9 DEF Chain

LEMMA ChainLeaves ==
  ASSUME IInv, Chain, Leaves
  PROVE  Chain'
<1>1. /\ Len(calls) \in Nat /\ Len(calls') = Len(calls) - 1 /\ nextNode' = nextNode
      /\ \A i \in 1..(Len(calls) - 1) : calls'[i] = calls[i]
      /\ \A i \in 1..(Len(calls) - 1) : i \in 1..Len(calls) /\ i # Len(calls)
  BY Frames DEF Leaves
<1>2. Ordered'
  <2> SUFFICES ASSUME NEW i \in 1..(Len(calls) - 1), NEW j \in 1..(Len(calls) - 1), i < j
               PROVE  calls'[i].node < calls'[j].node \/ Nested(calls'[i], calls'[j])
    BY <1>1 DEF Ordered
  <2>1. calls[i].node < calls[j].node \/ Nested(calls[i], calls[j])
    BY <1>1 DEF Chain, Ordered
  <2> QED
    BY <1>1, <2>1
<1>3. Met'
  BY <1>1 DEF Chain, Met
<1>4. Stages'
  BY <1>1 DEF Chain, Stages
<1> QED
  BY <1>2, <1>3, <1>4 DEF Chain

-----------------------------------------------------------------------------
(* The closure context *)

\* Whether the innermost activation is a closure in its body stays.
SameBody ==
  Top.kind = "closure" => (calls'[Len(calls)].stage = "params" <=> Top.stage = "params")

LEMMA SameBodies ==
  ASSUME IInv, Len(calls') = Len(calls), KeepsStages, SameBody, NEW c
  PROVE  InBody(calls', c) <=> InBody(calls, c)
<1>1. /\ Len(calls) \in Nat /\ Top = calls[Len(calls)]
      /\ \A i \in 1..Len(calls) :
           /\ calls'[i].kind = calls[i].kind /\ calls'[i].node = calls[i].node
           /\ i < Len(calls) => calls'[i].stage = calls[i].stage
           /\ i < Len(calls) \/ i = Len(calls)
  BY Frames DEF KeepsStages, SameCall
<1>2. \A i \in 1..Len(calls) : calls[i].kind = "closure" =>
        (calls'[i].stage = "params" <=> calls[i].stage = "params")
  BY <1>1 DEF SameBody
<1> QED
  BY <1>1, <1>2 DEF InBody

LEMMA ContextStays ==
  ASSUME IInv, Context, Len(calls') = Len(calls), KeepsStages, SameBody,
         UNCHANGED closureContext
  PROVE  Context'
<1>1. \A c \in NodeId : InBody(calls', c) <=> InBody(calls, c)
  BY SameBodies
<1> QED
  BY <1>1 DEF Context

LEMMA ContextEnters ==
  ASSUME IInv, Chain, Context, NEW id, NEW kind, Enters(id, kind), UNCHANGED closureContext
  PROVE  Context'
<1>1. /\ Len(calls) \in Nat /\ Len(calls) >= 1 /\ Len(calls') = Len(calls) + 1
      /\ Top = calls[Len(calls)]
      /\ \A i \in 1..Len(calls) :
           /\ calls'[i].kind = calls[i].kind /\ calls'[i].node = calls[i].node
           /\ i < Len(calls) => calls'[i].stage = calls[i].stage
           /\ i < Len(calls) \/ i = Len(calls)
           /\ calls[i].stage = "params" => i = Len(calls)
  BY Frames DEF Enters, KeepsStages, SameCall, Chain, Stages
<1>2. /\ calls'[Len(calls) + 1].kind = kind
      /\ kind = "closure" <=> calls'[Len(calls) + 1].stage = "params"
      /\ Top.stage # "params" /\ calls'[Len(calls)].stage # "params"
  BY DEF Enters, Proceeds
<1>3. \A i \in 1..Len(calls) : calls[i].stage # "params" /\ calls'[i].stage # "params"
  BY <1>1, <1>2
<1>4. ASSUME NEW c \in NodeId PROVE InBody(calls', c) <=> InBody(calls, c)
  <2>1. \A i \in 1..Len(calls') : i \in 1..Len(calls) \/ i = Len(calls) + 1
    BY <1>1
  <2>2. \A i \in 1..Len(calls) : i \in 1..Len(calls')
    BY <1>1
  <2> QED
    BY <1>1, <1>2, <1>3, <2>1, <2>2 DEF InBody
<1> QED
  BY <1>4 DEF Context

\* A closure whose body begins was met after all those being resolved.
LEMMA ContextBegins ==
  ASSUME IInv, Chain, Context, Len(calls') = Len(calls), KeepsStages,
         Top.kind = "closure", Top.stage = "params", calls'[Len(calls)].stage # "params",
         closureContext' = Append(closureContext, Top.node)
  PROVE  Context'
<1> DEFINE n == Len(calls)
           m == Len(closureContext)
<1>1. /\ n \in Nat /\ n >= 1 /\ Len(calls') = n /\ Top = calls[n]
      /\ Top.node \in NodeId /\ NodeId \subseteq Nat
      /\ \A i \in 1..n :
           /\ calls'[i].kind = calls[i].kind /\ calls'[i].node = calls[i].node
           /\ i < n => calls'[i].stage = calls[i].stage
           /\ i < n \/ i = n
           /\ calls[i].node \in Nat
  BY Frames DEF KeepsStages, SameCall
<1>2. /\ closureContext \in Seq(NodeId) /\ m \in Nat
      /\ \A k \in 1..m : closureContext[k] \in NodeId
  BY LenProperties, ElementOfSeq DEF IInv, TypeOK
<1>3. /\ Len(closureContext') = m + 1 /\ closureContext'[m + 1] = Top.node
      /\ \A k \in 1..m : closureContext'[k] = closureContext[k]
  BY <1>1, <1>2, AppendType
<1>4. ASSUME NEW k \in 1..m PROVE closureContext[k] < Top.node
  <2>1. InBody(calls, closureContext[k])
    BY <1>2 DEF Context, InContext
  <2>2. PICK i \in 1..n : /\ calls[i].kind = "closure" /\ calls[i].stage # "params"
                          /\ calls[i].node = closureContext[k]
    BY <2>1 DEF InBody
  <2>3. i < n /\ n \in 1..n
    BY <1>1, <2>2
  <2> QED
    BY <1>1, <2>2, <2>3 DEF Chain, Ordered, Nested
<1>5. \A k, l \in 1..(m + 1) : k < l => closureContext'[k] < closureContext'[l]
  <2> SUFFICES ASSUME NEW k \in 1..(m + 1), NEW l \in 1..(m + 1), k < l
               PROVE  closureContext'[k] < closureContext'[l]
    OBVIOUS
  <2>1. k \in 1..m
    BY <1>2
  <2>2. CASE l = m + 1
    BY <1>3, <1>4, <2>1, <2>2
  <2>3. CASE l # m + 1
    <3>1. l \in 1..m
      BY <1>2, <2>3
    <3> QED
      BY <1>3, <2>1, <3>1 DEF Context
  <2> QED
    BY <2>2, <2>3
<1>6. ASSUME NEW c \in NodeId
      PROVE  InContext(closureContext', c) <=> InContext(closureContext, c) \/ c = Top.node
  <2>1. \A k \in 1..(m + 1) : k \in 1..m \/ k = m + 1
    BY <1>2
  <2>2. m + 1 \in 1..(m + 1) /\ \A k \in 1..m : k \in 1..(m + 1)
    BY <1>2
  <2> QED
    BY <1>3, <2>1, <2>2 DEF InContext
<1>7. ASSUME NEW c \in NodeId
      PROVE  InBody(calls', c) <=> InBody(calls, c) \/ c = Top.node
  <2>1. n \in 1..n /\ calls'[n].stage # "params" /\ calls[n].stage = "params"
        /\ calls[n].kind = "closure"
    BY <1>1
  <2> QED
    BY <1>1, <2>1 DEF InBody
<1> QED
  BY <1>3, <1>5, <1>6, <1>7 DEF Context

\* The closure that is left is the last one that was entered.
LEMMA ContextLeaves ==
  ASSUME IInv, Chain, Context, Leaves, Top.stage # "params",
         closureContext' = IF Top.kind = "closure"
                           THEN SubSeq(closureContext, 1, Len(closureContext) - 1)
                           ELSE closureContext
  PROVE  Context'
<1> DEFINE n == Len(calls)
           m == Len(closureContext)
<1>1. /\ n \in Nat /\ n >= 1 /\ Len(calls') = n - 1 /\ Top = calls[n]
      /\ \A i \in 1..(n - 1) : calls'[i] = calls[i] /\ i \in 1..n /\ i # n
      /\ \A i \in 1..n : i = n \/ i \in 1..(n - 1)
      /\ Top.node \in NodeId /\ NodeId \subseteq Nat
  BY Frames DEF Leaves
<1>2. /\ closureContext \in Seq(NodeId) /\ m \in Nat
      /\ \A k \in 1..m : closureContext[k] \in NodeId
  BY LenProperties, ElementOfSeq DEF IInv, TypeOK
<1>3. CASE Top.kind # "closure"
  <2>1. \A c \in NodeId : InBody(calls', c) <=> InBody(calls, c)
    BY <1>1, <1>3 DEF InBody
  <2> QED
    BY <1>3, <2>1 DEF Context
<1>4. CASE Top.kind = "closure"
  <2>1. InBody(calls, Top.node)
    BY <1>1, <1>4 DEF InBody
  <2>2. PICK k \in 1..m : closureContext[k] = Top.node
    BY <1>1, <2>1 DEF Context, InContext
  <2>3. ASSUME NEW l \in 1..m PROVE closureContext[l] <= Top.node
    <3>1. InBody(calls, closureContext[l])
      BY <1>2 DEF Context, InContext
    <3>2. PICK i \in 1..n : calls[i].node = closureContext[l]
      BY <3>1 DEF InBody
    <3>3. n \in 1..n /\ i <= n
      BY <1>1
    <3> QED
      BY <1>1, <3>2, <3>3, Monotone DEF Chain
  <2>4. k = m
    <3>1. m \in 1..m /\ (k < m \/ k = m)
      BY <1>2
    <3>2. k < m => closureContext[k] < closureContext[m]
      BY <3>1 DEF Context
    <3>3. closureContext[k] \in Nat /\ closureContext[m] \in Nat
      BY <1>1, <1>2, <3>1
    <3> QED
      BY <2>2, <2>3, <3>1, <3>2, <3>3
  <2>5. closureContext # <<>> /\ closureContext[m] = Top.node
    BY <1>2, <2>2, <2>4
  <2>6. /\ Len(closureContext') = m - 1
        /\ \A l \in 1..(m - 1) : closureContext'[l] = closureContext[l]
    BY <1>2, <1>4, <2>5, FrontType
  <2>7. \A l \in 1..(m - 1) : l \in 1..m /\ m \in 1..m /\ l < m
    BY <1>2
  <2>8. \A l, j \in 1..(m - 1) : l < j => closureContext'[l] < closureContext'[j]
    BY <2>6, <2>7 DEF Context
  <2>9. ASSUME NEW c \in NodeId
        PROVE  InContext(closureContext', c) <=> InContext(closureContext, c) /\ c # Top.node
    <3>1. \A l \in 1..m : l = m \/ l \in 1..(m - 1)
      BY <1>2
    <3>2. \A l \in 1..(m - 1) : closureContext[l] < closureContext[m]
      BY <2>7 DEF Context
    <3>3. ASSUME NEW l \in 1..(m - 1) PROVE closureContext[l] # Top.node
      <4>1. closureContext[l] \in Nat /\ closureContext[l] < closureContext[m]
        BY <1>1, <1>2, <2>7, <3>2
      <4> QED
        BY <2>5, <4>1
    <3> QED
      BY <2>5, <2>6, <2>7, <3>1, <3>3 DEF InContext
  <2>10. ASSUME NEW c \in NodeId
         PROVE  InBody(calls', c) <=> InBody(calls, c) /\ c # Top.node
    <3>1. ASSUME NEW i \in 1..(n - 1), calls[i].kind = "closure" PROVE calls[i].node # Top.node
      <4>1. i \in 1..n /\ n \in 1..n /\ i # n
        BY <1>1
      <4> QED
        BY <1>1, <1>4, <3>1, <4>1, ClosureOwns DEF Chain
    <3> QED
      BY <1>1, <3>1 DEF InBody
  <2> QED
    BY <2>6, <2>8, <2>9, <2>10 DEF Context
<1> QED
  BY <1>3, <1>4

-----------------------------------------------------------------------------
(* The history of declarations and closures *)

\* History changes for nodes that are met in this step, and for node id.
HistoryKept(id) ==
  \A x \in NodeId : x < nextNode /\ x # id =>
    within'[x] = within[x] /\ declRib'[x] = declRib[x]

SameKinds == \A i \in 1..Len(calls) : SameCall(calls[i], calls'[i])

LEMMA SameAround ==
  ASSUME IInv, SameKinds, NEW c, NEW i \in Nat, i <= Len(calls)
  PROVE  Around(calls', c, i) <=> Around(calls, c, i)
<1>1. \A j \in 1..i : j \in 1..Len(calls)
  BY Frames
<1> QED
  BY <1>1 DEF Around, SameKinds, SameCall

\* What is declared in an open rib is a node that was met and used up.
LEMMA DeclaredIn ==
  ASSUME IInv, Declarations, DeclaredUsed,
         NEW i \in 1..Len(nameScope), NEW d \in nameScope[i].decls
  PROVE  /\ d \in NodeId /\ d < nextNode /\ UsedUp(d)
         /\ declRib[d] = calls[i].node /\ declRib[d] # NoNode
         /\ i \in 1..Len(calls) /\ i \in Nat /\ i <= Len(calls)
<1>1. nameScope[i] \in Rib
  BY ElementOfSeq DEF IInv, TypeOK
<1>2. d \in NodeId
  BY <1>1 DEF Rib
<1>3. declRib[d] = calls[i].node /\ declRib[d] # NoNode
  BY RibFound, Frames
<1> QED
  BY <1>2, <1>3, Frames DEF DeclaredUsed, UsedUp

\* A declaration that was made earlier keeps its place.
LEMMA DeclarationKept ==
  ASSUME IInv, Declarations, DeclaredUsed, NEW id, HistoryKept(id),
         id < nextNode => \E j \in 1..Len(calls) : calls[j].node = id,
         SameKinds \/ Leaves,
         NEW i \in 1..Len(nameScope), NEW d \in nameScope[i].decls,
         i <= Len(calls'), nameScope'[i].node = nameScope[i].node
  PROVE  /\ declRib'[d] = nameScope'[i].node
         /\ \A c \in NodeId : c \in within'[d] <=> Around(calls', c, i)
<1>1. d \in NodeId /\ d < nextNode /\ UsedUp(d) /\ i \in Nat /\ i <= Len(calls)
  BY DeclaredIn
<1>2. d # id
  BY <1>1 DEF UsedUp
<1>3. within'[d] = within[d] /\ declRib'[d] = declRib[d]
  BY <1>1, <1>2 DEF HistoryKept
<1>4. \A c \in NodeId : Around(calls', c, i) <=> Around(calls, c, i)
  <2>1. CASE SameKinds
    BY <1>1, <2>1, SameAround
  <2>2. CASE Leaves
    <3>1. \A j \in 1..i : calls'[j] = calls[j]
      BY <1>1, <2>2, Frames DEF Leaves
    <3> QED
      BY <3>1 DEF Around
  <2> QED
    BY <2>1, <2>2
<1> QED
  BY <1>3, <1>4 DEF Declarations

LEMMA DeclarationsStay ==
  ASSUME IInv, Declarations, DeclaredUsed, SameKinds, Len(calls') >= Len(calls),
         Len(calls') \in Nat,
         SameDecls(nameScope, nameScope'), HistoryKept(nextNode)
  PROVE  Declarations'
<1> SUFFICES ASSUME NEW i \in 1..Len(nameScope'), NEW d \in nameScope'[i].decls
             PROVE  /\ declRib'[d] = nameScope'[i].node
                    /\ \A c \in NodeId : c \in within'[d] <=> Around(calls', c, i)
  BY DEF Declarations
<1>1. /\ i \in 1..Len(nameScope) /\ d \in nameScope[i].decls
      /\ nameScope'[i].node = nameScope[i].node
  BY DEF SameDecls
<1>2. i <= Len(calls') /\ ~(nextNode < nextNode)
  BY <1>1, Frames
<1> QED
  BY <1>1, <1>2, DeclarationKept

LEMMA DeclarationsDeclare ==
  ASSUME IInv, Declarations, DeclaredUsed, SameKinds, Len(calls') = Len(calls),
         DeclaresLast(nameScope, nameScope', nextNode), nextNode \in NodeId,
         HistoryKept(nextNode), within'[nextNode] = OpenClosures,
         declRib'[nextNode] = Peek(nameScope).node
  PROVE  Declarations'
<1> SUFFICES ASSUME NEW i \in 1..Len(nameScope'), NEW d \in nameScope'[i].decls
             PROVE  /\ declRib'[d] = nameScope'[i].node
                    /\ \A c \in NodeId : c \in within'[d] <=> Around(calls', c, i)
  BY DEF Declarations
<1>0. i \in 1..Len(nameScope) /\ nameScope'[i].node = nameScope[i].node
  BY DEF DeclaresLast
<1>1. /\ i \in 1..Len(nameScope) /\ nameScope'[i].node = nameScope[i].node
      /\ d \in nameScope[i].decls \/ (d = nextNode /\ i = Len(nameScope))
      /\ i \in Nat /\ i <= Len(calls') /\ i <= Len(calls)
      /\ ~(nextNode < nextNode)
  <2>1. d \in nameScope[i].decls \/ (d = nextNode /\ i = Len(nameScope))
    BY <1>0 DEF DeclaresLast
  <2>2. i \in 1..Len(calls) /\ Len(calls) \in Nat /\ nextNode \in Nat
    BY <1>0, Frames
  <2> QED
    BY <1>0, <2>1, <2>2
<1>2. CASE d \in nameScope[i].decls
  BY <1>1, <1>2, DeclarationKept
<1>3. CASE d = nextNode /\ i = Len(nameScope)
  <2>1. declRib'[d] = nameScope'[i].node
    BY <1>1, <1>3 DEF Peek
  <2>2. ASSUME NEW j \in 1..Len(calls), calls[j].kind = "closure" PROVE j \in 1..i
    BY <1>3, <2>2, Frames
  <2>3. \A j \in 1..i : j \in 1..Len(calls)
    BY <1>1, Frames
  <2>4. \A c \in NodeId : c \in OpenClosures <=> Around(calls, c, i)
    BY <2>2, <2>3 DEF OpenClosures, Around
  <2> QED
    BY <1>1, <1>3, <2>1, <2>4, SameAround
<1> QED
  BY <1>1, <1>2, <1>3

LEMMA DeclarationsOpen ==
  ASSUME IInv, Declarations, DeclaredUsed, SameKinds, Len(calls') = Len(calls) + 1,
         NEW id \in NodeId, nameScope' = Push(nameScope, id), HistoryKept(id),
         id < nextNode => \E j \in 1..Len(calls) : calls[j].node = id
  PROVE  Declarations'
<1> SUFFICES ASSUME NEW i \in 1..Len(nameScope'), NEW d \in nameScope'[i].decls
             PROVE  /\ declRib'[d] = nameScope'[i].node
                    /\ \A c \in NodeId : c \in within'[d] <=> Around(calls', c, i)
  BY DEF Declarations
<1>1. /\ Len(nameScope') = Len(nameScope) + 1
      /\ \A j \in 1..Len(nameScope) : nameScope'[j] = nameScope[j]
      /\ nameScope'[Len(nameScope) + 1] = NewRib(id)
  BY PushType, Frames
<1>2. NewRib(id).decls = {}
  BY DEF NewRib
<1>3. i \in 1..Len(nameScope) /\ i <= Len(calls')
  BY <1>1, <1>2, Frames
<1> QED
  BY <1>1, <1>3, DeclarationKept

LEMMA DeclarationsLeave ==
  ASSUME IInv, Declarations, DeclaredUsed, Leaves, UNCHANGED <<within, declRib>>,
         \/ Top.kind = "let" /\ nameScope' = nameScope
         \/ Top.kind # "let" /\ nameScope' = Pop(nameScope)
  PROVE  Declarations'
<1> SUFFICES ASSUME NEW i \in 1..Len(nameScope'), NEW d \in nameScope'[i].decls
             PROVE  /\ declRib'[d] = nameScope'[i].node
                    /\ \A c \in NodeId : c \in within'[d] <=> Around(calls', c, i)
  BY DEF Declarations
<1>1. \/ Top.kind = "let" /\ nameScope' = nameScope
      \/ /\ Len(nameScope') = Len(nameScope) - 1
         /\ \A j \in 1..(Len(nameScope) - 1) : nameScope'[j] = nameScope[j]
  BY PopType, Frames
<1>2. /\ i \in 1..Len(nameScope) /\ nameScope'[i] = nameScope[i] /\ i <= Len(calls')
      /\ ~(nextNode < nextNode)
  BY <1>1, Frames DEF Leaves
<1>3. HistoryKept(nextNode)
  BY DEF HistoryKept
<1> QED
  BY <1>2, <1>3, DeclarationKept

LEMMA ClosuresStay ==
  ASSUME IInv, Chain, Closures, SameKinds, Len(calls') = Len(calls), HistoryKept(nextNode)
  PROVE  Closures'
<1> SUFFICES ASSUME NEW i \in 1..Len(calls), calls[i].kind = "closure", NEW c \in NodeId
             PROVE  c \in within'[calls'[i].node] <=> Around(calls', c, i - 1)
  BY DEF Closures, SameKinds, SameCall
<1>1. /\ calls'[i].node = calls[i].node /\ calls[i].node \in NodeId
      /\ calls[i].node < nextNode /\ i - 1 \in Nat /\ i - 1 <= Len(calls)
      /\ calls[i].node \in Nat
  BY Frames DEF SameKinds, SameCall, Chain, Met
<1>2. within'[calls[i].node] = within[calls[i].node]
  BY <1>1, Frames DEF HistoryKept
<1>3. Around(calls', c, i - 1) <=> Around(calls, c, i - 1)
  BY <1>1, SameAround
<1> QED
  BY <1>1, <1>2, <1>3 DEF Closures

LEMMA ClosuresEnter ==
  ASSUME IInv, Chain, Closures, NEW id \in NodeId, NEW kind, Enters(id, kind), HistoryKept(id),
         kind = "closure" => within'[id] = OpenClosures
  PROVE  Closures'
<1> DEFINE n == Len(calls)
<1>1. /\ n \in Nat /\ n >= 1 /\ Len(calls') = n + 1 /\ SameKinds
      /\ calls'[n + 1].kind = kind /\ calls'[n + 1].node = id
      /\ \A i \in 1..n : calls'[i].kind = calls[i].kind /\ calls'[i].node = calls[i].node
  BY Frames DEF Enters, KeepsStages, SameKinds, SameCall
<1>2. ASSUME NEW i \in 1..n, calls[i].kind = "closure", NEW c \in NodeId
      PROVE  c \in within'[calls[i].node] <=> Around(calls', c, i - 1)
  <2>1. /\ calls[i].node \in NodeId /\ calls[i].node < nextNode
        /\ i - 1 \in Nat /\ i - 1 <= n /\ calls[i].node \in Nat
    BY <1>1, Frames DEF Chain, Met
  <2>2. calls[i].node # id
    <3>1. CASE FreshNode(id)
      BY <2>1, <3>1, Frames DEF FreshNode
    <3>2. CASE ArmNode(id, kind)
      <4>1. id = calls[n].node /\ calls[n].kind = "arm" /\ n \in 1..n /\ i # n
        BY <1>1, <1>2, <3>2, Frames DEF ArmNode
      <4>2. n \in Nat /\ i < n
        BY <1>1, <4>1
      <4> QED
        BY <1>2, <4>1, <4>2, ClosureOwns DEF Chain
    <3> QED
      BY <3>1, <3>2 DEF Enters
  <2>3. within'[calls[i].node] = within[calls[i].node]
    BY <2>1, <2>2 DEF HistoryKept
  <2>4. Around(calls', c, i - 1) <=> Around(calls, c, i - 1)
    BY <1>1, <2>1, SameAround
  <2> QED
    BY <1>2, <2>3, <2>4 DEF Closures
<1>3. ASSUME kind = "closure", NEW c \in NodeId
      PROVE  c \in within'[id] <=> Around(calls', c, n)
  <2>1. c \in OpenClosures <=> Around(calls, c, n)
    BY DEF OpenClosures, Around
  <2>2. Around(calls', c, n) <=> Around(calls, c, n)
    BY <1>1, SameAround
  <2> QED
    BY <1>3, <2>1, <2>2
<1>4. \A i \in 1..(n + 1) : i \in 1..n \/ (i = n + 1 /\ i - 1 = n)
  BY <1>1
<1> HIDE DEF n
<1>5. ASSUME NEW i \in 1..(n + 1), calls'[i].kind = "closure", NEW c \in NodeId
      PROVE  c \in within'[calls'[i].node] <=> Around(calls', c, i - 1)
  BY <1>1, <1>2, <1>3, <1>4, <1>5
<1> QED
  BY <1>1, <1>5 DEF Closures

LEMMA ClosuresLeave ==
  ASSUME IInv, Closures, Leaves, UNCHANGED within
  PROVE  Closures'
<1> SUFFICES ASSUME NEW i \in 1..Len(calls'), calls'[i].kind = "closure", NEW c \in NodeId
             PROVE  c \in within'[calls'[i].node] <=> Around(calls', c, i - 1)
  BY DEF Closures
<1>1. /\ i \in 1..Len(calls) /\ calls'[i] = calls[i]
      /\ \A j \in 1..(i - 1) : calls'[j] = calls[j]
  BY Frames DEF Leaves
<1>2. Around(calls', c, i - 1) <=> Around(calls, c, i - 1)
  BY <1>1 DEF Around
<1> QED
  BY <1>1, <1>2 DEF Closures

-----------------------------------------------------------------------------
(* Nodes that are used up *)

\* A node that is used up stays so.
LEMMA UsedUpStays ==
  ASSUME IInv, nextNode' \in Nat,
         Stays \/ Leaves \/ \E id \in NodeId, kind \in CallKind : Enters(id, kind),
         NEW x \in NodeId, UsedUp(x)
  PROVE  UsedUp(x)'
<1>1. CASE Stays
  BY <1>1, Frames DEF Stays, KeepsStages, SameCall, UsedUp
<1>2. CASE Leaves
  BY <1>2, Frames DEF Leaves, UsedUp
<1>3. ASSUME NEW id \in NodeId, NEW kind \in CallKind, Enters(id, kind)
      PROVE  UsedUp(x)'
  <2>1. /\ Len(calls) \in Nat /\ Len(calls) >= 1 /\ Len(calls') = Len(calls) + 1
        /\ \A i \in 1..Len(calls) : calls'[i].node = calls[i].node
        /\ calls'[Len(calls) + 1].node = id
    BY <1>3, Frames DEF Enters, KeepsStages, SameCall
  <2>2. x < nextNode /\ \A i \in 1..Len(calls) : calls[i].node # x
    BY DEF UsedUp
  <2>3. x < nextNode' /\ x # id
    <3>1. CASE FreshNode(id)
      BY <2>2, <3>1, Frames DEF FreshNode
    <3>2. CASE ArmNode(id, kind)
      BY <2>1, <2>2, <3>2, Frames DEF ArmNode
    <3> QED
      BY <1>3, <3>1, <3>2 DEF Enters
  <2>4. \A i \in 1..Len(calls') : calls'[i].node # x
    BY <2>1, <2>2, <2>3
  <2> QED
    BY <2>3, <2>4 DEF UsedUp
<1> QED
  BY <1>1, <1>2, <1>3

-----------------------------------------------------------------------------
(* What is used after a step *)

Move == Stays \/ Leaves \/ \E id \in NodeId, kind \in CallKind : Enters(id, kind)

\* The next node is used up by a declaration or a reference.
UsesNode == Stays /\ nextNode' = nextNode + 1

LEMMA NodeUsedUp ==
  ASSUME IInv, Chain, UsesNode, NEW x \in NodeId, x = nextNode
  PROVE  UsedUp(x)'
<1>1. /\ nextNode' = x + 1 /\ x \in Nat /\ Len(calls') = Len(calls)
      /\ \A i \in 1..Len(calls) : calls'[i].node = calls[i].node /\ calls[i].node < x
      /\ \A i \in 1..Len(calls) : calls[i].node \in Nat
  BY Frames DEF UsesNode, Stays, KeepsStages, SameCall, Chain, Met
<1> QED
  BY <1>1 DEF UsedUp

LEMMA DeclaredUsedKept ==
  ASSUME IInv, nextNode' \in Nat, Chain, DeclaredUsed, Move,
         \A d \in NodeId : declRib'[d] # NoNode =>
           declRib[d] # NoNode \/ (d = nextNode /\ UsesNode)
  PROVE  DeclaredUsed'
<1> SUFFICES ASSUME NEW d \in NodeId, declRib'[d] # NoNode PROVE UsedUp(d)'
  BY DEF DeclaredUsed
<1>1. CASE declRib[d] # NoNode
  BY <1>1, UsedUpStays DEF DeclaredUsed, Move
<1>2. CASE d = nextNode /\ UsesNode
  BY <1>2, NodeUsedUp
<1> QED
  BY <1>1, <1>2

LEMMA ResolvedUsedKept ==
  ASSUME IInv, nextNode' \in Nat, nextNode' >= nextNode, Chain, ResolvedUsed, Move,
         \A r \in NodeId : resolvedNames'[r] # NoNode =>
           \/ resolvedNames[r] # NoNode /\ resolvedNames'[r] = resolvedNames[r]
           \/ r = nextNode /\ UsesNode /\ resolvedNames'[r] < nextNode,
         \A r \in NodeId : resolvedNames'[r] \in Nat
  PROVE  ResolvedUsed'
<1> SUFFICES ASSUME NEW r \in NodeId, resolvedNames'[r] # NoNode
             PROVE  UsedUp(r)' /\ resolvedNames'[r] < nextNode'
  BY DEF ResolvedUsed
<1>1. nextNode \in Nat /\ resolvedNames'[r] \in Nat
  BY Frames
<1>2. CASE resolvedNames[r] # NoNode /\ resolvedNames'[r] = resolvedNames[r]
  <2>1. UsedUp(r) /\ resolvedNames[r] < nextNode
    BY <1>2 DEF ResolvedUsed
  <2>2. UsedUp(r)'
    BY <2>1, UsedUpStays DEF Move
  <2> QED
    BY <1>1, <1>2, <2>1, <2>2
<1>3. CASE r = nextNode /\ UsesNode /\ resolvedNames'[r] < nextNode
  <2>1. UsedUp(r)'
    BY <1>3, NodeUsedUp
  <2> QED
    BY <1>1, <1>3, <2>1
<1> QED
  BY <1>2, <1>3

\* An arm around a closure that is being resolved has reached its body.
LEMMA ResolvedClosureOwns ==
  ASSUME IInv, Chain, NEW j \in 1..Len(calls), calls[j].kind = "closure"
  PROVE  /\ calls[j].node < nextNode
         /\ \A i \in 1..Len(calls) :
              calls[i].node = calls[j].node /\ calls[i].kind = "arm" =>
                calls[i].stage = "done" /\ i < j
<1>1. calls[j].node < nextNode
  BY DEF Chain, Met
<1>2. ASSUME NEW i \in 1..Len(calls), calls[i].node = calls[j].node, calls[i].kind = "arm"
      PROVE  calls[i].stage = "done" /\ i < j
  <2>1. i # j
    BY <1>2
  <2> QED
    BY <1>2, <2>1, ClosureOwns DEF Chain
<1> QED
  BY <1>1, <1>2

LEMMA CapturingUsedKept ==
  ASSUME IInv, nextNode' \in Nat, nextNode' >= nextNode, Chain, Context, CapturingUsed, Move,
         \A c \in NodeId : captures'[c] # {} =>
           captures[c] # {} \/ InContext(closureContext, c)
  PROVE  CapturingUsed'
<1> SUFFICES ASSUME NEW c \in NodeId, captures'[c] # {}
             PROVE  /\ c < nextNode'
                    /\ \A i \in 1..Len(calls') :
                         calls'[i].node = c /\ calls'[i].kind = "arm" => calls'[i].stage = "done"
  BY DEF CapturingUsed
<1>1. /\ c < nextNode
      /\ \A i \in 1..Len(calls) :
           calls[i].node = c /\ calls[i].kind = "arm" => calls[i].stage = "done"
  <2>1. CASE captures[c] # {}
    BY <2>1 DEF CapturingUsed
  <2>2. CASE InContext(closureContext, c)
    <3>1. PICK j \in 1..Len(calls) : calls[j].kind = "closure" /\ calls[j].node = c
      BY <2>2 DEF Context, InBody
    <3> QED
      BY <3>1, ResolvedClosureOwns
  <2> QED
    BY <2>1, <2>2
<1>2. nextNode \in Nat /\ c \in Nat /\ c < nextNode'
  BY <1>1, Frames
<1>3. ASSUME KeepsStages, Proceeds, NEW i \in 1..Len(calls),
             calls'[i].node = c, calls'[i].kind = "arm"
      PROVE  calls'[i].stage = "done"
  <2>1. /\ calls[i].node = c /\ calls[i].kind = "arm"
        /\ i < Len(calls) => calls'[i].stage = calls[i].stage
        /\ i < Len(calls) \/ i = Len(calls)
    BY <1>3, Frames DEF KeepsStages, SameCall
  <2>2. calls[i].stage = "done"
    BY <1>1, <2>1
  <2>3. i = Len(calls) => Top.stage = "done"
    BY <2>2, Frames
  <2> QED
    BY <1>3, <2>1, <2>2, <2>3 DEF Proceeds
<1>4. CASE Stays
  BY <1>2, <1>3, <1>4 DEF Stays
<1>5. CASE Leaves
  <2>1. \A i \in 1..Len(calls') : i \in 1..Len(calls) /\ calls'[i] = calls[i]
    BY <1>5, Frames DEF Leaves
  <2> QED
    BY <1>1, <1>2, <2>1
<1>6. ASSUME NEW id \in NodeId, NEW kind \in CallKind, Enters(id, kind)
      PROVE  \A i \in 1..Len(calls') :
               calls'[i].node = c /\ calls'[i].kind = "arm" => calls'[i].stage = "done"
  <2>1. /\ KeepsStages /\ Proceeds
        /\ \A i \in 1..Len(calls') : i \in 1..Len(calls) \/ i = Len(calls) + 1
        /\ calls'[Len(calls) + 1].kind = kind /\ calls'[Len(calls) + 1].node = id
    BY <1>6, Frames DEF Enters
  <2>2. CASE FreshNode(id)
    <3>1. id # c
      BY <1>1, <1>2, <2>2, Frames DEF FreshNode
    <3> QED
      BY <1>3, <2>1, <3>1
  <2>3. CASE ArmNode(id, kind)
    BY <1>3, <2>1, <2>3 DEF ArmNode
  <2> QED
    BY <1>6, <2>2, <2>3 DEF Enters
<1> QED
  BY <1>2, <1>4, <1>5, <1>6 DEF Move

-----------------------------------------------------------------------------
(* What was captured stays captured, and in order *)

\* The only earlier node whose history a step may change is that of an arm
\* that gets to its body: nothing is captured by it.
Past(id) ==
  /\ HistoryKept(id)
  /\ id < nextNode => /\ \E j \in 1..Len(calls) : calls[j].node = id
                      /\ \A c \in NodeId : c = id => captures[c] = {}

KindsKept == \A d \in NodeId : d < nextNode => Agree(nameScope, nameScope', d)

LEMMA UsedUpKept ==
  ASSUME NEW id, Past(id), NEW x \in NodeId, UsedUp(x)
  PROVE  within'[x] = within[x] /\ declRib'[x] = declRib[x]
<1>1. x < nextNode /\ x # id
  BY DEF Past, UsedUp
<1> QED
  BY <1>1 DEF Past, HistoryKept

LEMMA CapturingKept ==
  ASSUME NEW id, Past(id), CapturingUsed, NEW c \in NodeId, captures[c] # {}
  PROVE  within'[c] = within[c]
<1>1. c < nextNode
  BY DEF CapturingUsed
<1>2. c # id
  BY <1>1 DEF Past
<1> QED
  BY <1>1, <1>2 DEF Past, HistoryKept

LEMMA CapturedUsedUp ==
  ASSUME IInv, DeclaredUsed, CapturesSound, NEW c \in NodeId, NEW d \in captures[c]
  PROVE  d \in NodeId /\ UsedUp(d) /\ declRib[d] # NoNode /\ c \notin within[d]
<1>1. d \in NodeId
  BY DEF IInv, TypeOK
<1> QED
  BY <1>1 DEF CapturesSound, DeclaredUsed

LEMMA SoundKept ==
  ASSUME IInv, DeclaredUsed, CapturesSound, NEW id, Past(id),
         NEW c \in NodeId, NEW d \in captures[c]
  PROVE  declRib'[d] # NoNode /\ c \notin within'[d]
BY CapturedUsedUp, UsedUpKept

LEMMA NestedKept ==
  ASSUME IInv, DeclaredUsed, CapturingUsed, CapturesSound, CapturesNested, NEW id, Past(id),
         NEW c \in NodeId, NEW d \in captures[c],
         NEW outer \in within'[c] \ within'[d], declRib'[d] # outer
  PROVE  d \in captures[outer]
<1>1. within'[d] = within[d] /\ declRib'[d] = declRib[d] /\ within'[c] = within[c]
  BY CapturedUsedUp, UsedUpKept, CapturingKept
<1> QED
  BY <1>1 DEF CapturesNested

\* A declaration whose kind is found is in an open rib.
LEMMA VariableOpen ==
  ASSUME IInv, Declarations, DeclaredUsed, NEW d \in NodeId,
         LookupDeclType(nameScope, d) = "Variable"
  PROVE  /\ UsedUp(d) /\ declRib[d] # NoNode
         /\ \E i \in 1..Len(nameScope) : d \in nameScope[i].decls
<1>1. PICK i \in 1..Len(nameScope) : KindAt(nameScope, d, i)
  BY Frames, LookupDeclTypeFinds
<1>2. d \in nameScope[i].decls
  BY <1>1 DEF KindAt
<1> QED
  BY <1>2, DeclaredIn

LEMMA VariableKept ==
  ASSUME IInv, IInv', KindsKept, NEW d \in NodeId, d < nextNode,
         LookupDeclType(nameScope', d) = "Variable"
  PROVE  LookupDeclType(nameScope, d) = "Variable"
<1>1. nameScope \in Seq(Rib) /\ nameScope' \in Seq(Rib)
  BY DEF IInv, TypeOK
<1> QED
  BY <1>1, AgreeingKinds DEF KindsKept

LEMMA CompleteKept ==
  ASSUME IInv, IInv', Declarations, DeclaredUsed, ResolvedUsed, CapturesCompleteOutsideArms,
         NEW id, Past(id), KindsKept, NEW r \in NodeId, NEW c \in NodeId,
         NEW d \in NodeId, d = resolvedNames[r],
         c \in within'[r] \ within'[d], LookupDeclType(nameScope', d) = "Variable",
         declRib'[d] # c
  PROVE  d \in captures[c]
<1>1. d # NoNode
  BY Frames
<1>2. UsedUp(r) /\ d < nextNode
  BY <1>1 DEF ResolvedUsed
<1>3. LookupDeclType(nameScope, d) = "Variable"
  BY <1>2, VariableKept
<1>4. UsedUp(d)
  BY <1>3, VariableOpen
<1>5. within'[r] = within[r] /\ within'[d] = within[d] /\ declRib'[d] = declRib[d]
  BY <1>2, <1>4, UsedUpKept
<1> QED
  BY <1>1, <1>3, <1>5 DEF CapturesCompleteOutsideArms, RefersFromInside, IsVariable

\* A step that resolves no value.
LEMMA CapturesKept ==
  ASSUME IInv, IInv', Declarations, Used, Captures, NEW id, Past(id), KindsKept,
         UNCHANGED <<captures, resolvedNames>>
  PROVE  Captures'
<1> USE DEF Used, Captures
<1>1. CapturesSound'
  BY SoundKept DEF CapturesSound
<1>2. CapturesNested'
  BY NestedKept DEF CapturesNested
<1>3. CapturesCompleteOutsideArms'
  <2> SUFFICES ASSUME NEW r \in NodeId, NEW c \in NodeId, resolvedNames[r] # NoNode,
                      RefersFromInside(r, c)', IsVariable(resolvedNames[r])',
                      declRib'[resolvedNames[r]] # c
               PROVE  resolvedNames[r] \in captures[c]
    BY DEF CapturesCompleteOutsideArms
  <2>1. resolvedNames[r] \in NodeId
    BY DEF IInv, TypeOK
  <2>2. PICK d \in NodeId : d = resolvedNames[r]
    BY <2>1
  <2>3. c \in within'[r] \ within'[d]
    BY <2>2 DEF RefersFromInside
  <2>4. LookupDeclType(nameScope', d) = "Variable"
    BY <2>2 DEF IsVariable
  <2> QED
    BY <2>2, <2>3, <2>4, CompleteKept
<1> QED
  BY <1>1, <1>2, <1>3

-----------------------------------------------------------------------------
(* A reference to a value, and what it makes closures capture *)

\* insertCapturedItem: the closures being resolved that have to capture d.
LEMMA NeedCaptureIff ==
  ASSUME NEW d \in NodeId, NEW c \in NodeId
  PROVE  c \in NeedCapture(nameScope, d) <=>
           /\ InContext(closureContext, c)
           /\ LookupDeclType(nameScope, d) = "Variable" /\ Needs(c, d)
BY DEF NeedCapture, InContext, Needs

\* The rib of a variable that is found, and what it is within.
LEMMA VariableRib ==
  ASSUME IInv, Declarations, DeclaredUsed, NEW d \in NodeId,
         LookupDeclType(nameScope, d) = "Variable"
  PROVE  \E i \in 1..Len(nameScope) :
           /\ d \in nameScope[i].decls
           /\ \A c \in NodeId : c \in within[d] <=> Around(calls, c, i)
BY VariableOpen DEF Declarations

\* What a closure needs to capture it is not within, ...
LEMMA NeededIsOutside ==
  ASSUME IInv, Chain, Declarations, DeclaredUsed, NEW d \in NodeId, NEW c \in NodeId,
         LookupDeclType(nameScope, d) = "Variable", Needs(c, d)
  PROVE  c \notin within[d]
<1>1. PICK i \in 1..Len(nameScope) :
        d \in nameScope[i].decls /\ \A x \in NodeId : x \in within[d] <=> Around(calls, x, i)
  BY VariableRib
<1> QED
  BY <1>1, NeedsOutside DEF Chain

\* ... and a closure being resolved captures what it is not within.
LEMMA OutsideIsCaptured ==
  ASSUME IInv, Chain, Context, Declarations, DeclaredUsed, NEW d \in NodeId, NEW c \in NodeId,
         LookupDeclType(nameScope, d) = "Variable", InContext(closureContext, c),
         c \notin within[d], declRib[d] # c
  PROVE  c \in NeedCapture(nameScope, d)
<1>1. PICK i \in 1..Len(nameScope) :
        d \in nameScope[i].decls /\ \A x \in NodeId : x \in within[d] <=> Around(calls, x, i)
  BY VariableRib
<1>2. PICK j \in 1..Len(calls) : calls[j].kind = "closure" /\ calls[j].node = c
  BY DEF Context, InBody
<1>3. ~Around(calls, calls[j].node, i) /\ declRib[d] # calls[j].node
  BY <1>1, <1>2
<1>4. Needs(calls[j].node, d)
  BY <1>1, <1>2, <1>3, OutsideNeeds DEF Chain
<1> QED
  BY <1>2, <1>4, NeedCaptureIff

\* Around a closure whose body is being resolved, all are.
LEMMA AroundInContext ==
  ASSUME IInv, Chain, Context, Closures, NEW c \in NodeId, NEW outer \in NodeId,
         InContext(closureContext, c), outer \in within[c]
  PROVE  InContext(closureContext, outer)
<1>1. PICK j \in 1..Len(calls) : calls[j].kind = "closure" /\ calls[j].node = c
  BY DEF Context, InBody
<1>2. Around(calls, outer, j - 1)
  BY <1>1 DEF Closures
<1>3. PICK k \in 1..(j - 1) : calls[k].kind = "closure" /\ calls[k].node = outer
  BY <1>2 DEF Around
<1>4. k \in 1..Len(calls) /\ k # Len(calls)
  BY Frames
<1>5. InBody(calls, outer)
  BY <1>3, <1>4 DEF InBody, Chain, Stages
<1> QED
  BY <1>5 DEF Context

LEMMA InContextMet ==
  ASSUME IInv, Chain, Context, NEW c \in NodeId, InContext(closureContext, c)
  PROVE  c < nextNode
BY DEF Context, InBody, Chain, Met

\* The state around a reference to d.
Refers(d) ==
  /\ d < nextNode
  /\ nextNode' = nextNode + 1 /\ nextNode \in NodeId
  /\ HistoryKept(nextNode) /\ UNCHANGED declRib
  /\ \A c \in NodeId : c \in within'[nextNode] <=> InContext(closureContext, c)
  /\ SameDecls(nameScope, nameScope')
  /\ resolvedNames' = [resolvedNames EXCEPT ![nextNode] = d]
  /\ InsertCapturedItem(nameScope, d)

LEMMA SameDeclsKinds ==
  ASSUME SameDecls(nameScope, nameScope')
  PROVE  KindsKept
BY DEF SameDecls, KindsKept, Agree

LEMMA CapturesRefer ==
  ASSUME IInv, IInv', Chain, Context, Declarations, Closures, Used, Captures,
         NEW d \in NodeId, Refers(d)
  PROVE  Captures'
<1> USE DEF Used, Captures
<1>1. /\ nextNode \in NodeId /\ nextNode \in Nat /\ d < nextNode /\ d # nextNode
      /\ Past(nextNode) /\ UNCHANGED declRib /\ KindsKept
      /\ within'[d] = within[d]
      /\ \A c \in NodeId : c < nextNode => within'[c] = within[c]
  <2>1. nextNode \in NodeId /\ nextNode \in Nat /\ d < nextNode /\ HistoryKept(nextNode)
        /\ UNCHANGED declRib /\ ~(nextNode < nextNode)
    BY Frames DEF Refers
  <2>2. d # nextNode /\ \A c \in NodeId : c < nextNode => c # nextNode
    BY <2>1, Frames
  <2>3. Past(nextNode) /\ KindsKept
    BY <2>1, SameDeclsKinds DEF Past, Refers
  <2> QED
    BY <2>1, <2>2, <2>3 DEF HistoryKept
<1>2. \A c \in NodeId : captures'[c] =
        IF c \in NeedCapture(nameScope, d) THEN captures[c] \cup {d} ELSE captures[c]
  BY DEF Refers, InsertCapturedItem
<1>3. \A c \in NodeId : c \in NeedCapture(nameScope, d) <=>
        /\ InContext(closureContext, c)
        /\ LookupDeclType(nameScope, d) = "Variable" /\ Needs(c, d)
  BY NeedCaptureIff
<1>4. CapturesSound'
  <2> SUFFICES ASSUME NEW c \in NodeId, NEW x \in captures'[c]
               PROVE  declRib'[x] # NoNode /\ c \notin within'[x]
    BY DEF CapturesSound
  <2>1. CASE x \in captures[c]
    BY <1>1, <2>1, SoundKept
  <2>2. CASE x = d /\ c \in NeedCapture(nameScope, d)
    <3>1. declRib[d] # NoNode
      BY <1>3, <2>2, VariableOpen
    <3>2. c \notin within[d]
      BY <1>3, <2>2, NeededIsOutside
    <3> QED
      BY <1>1, <2>2, <3>1, <3>2
  <2> QED
    BY <1>2, <2>1, <2>2
<1>5. CapturesNested'
  <2> SUFFICES ASSUME NEW c \in NodeId, NEW x \in captures'[c],
                      NEW outer \in within'[c] \ within'[x], declRib'[x] # outer
               PROVE  x \in captures'[outer]
    BY DEF CapturesNested
  <2>1. outer \in NodeId
    BY DEF IInv, TypeOK
  <2>2. CASE x \in captures[c]
    BY <1>1, <1>2, <2>1, <2>2, NestedKept
  <2>3. CASE x = d /\ c \in NeedCapture(nameScope, d)
    <3>1. InContext(closureContext, c) /\ LookupDeclType(nameScope, d) = "Variable"
      BY <1>3, <2>3
    <3>2. outer \in within[c]
      BY <1>1, <3>1, InContextMet
    <3>3. InContext(closureContext, outer)
      BY <2>1, <3>1, <3>2, AroundInContext
    <3>4. outer \in NeedCapture(nameScope, d)
      BY <1>1, <2>1, <2>3, <3>1, <3>3, OutsideIsCaptured
    <3> QED
      BY <1>2, <2>1, <2>3, <3>4
  <2> QED
    BY <1>2, <2>2, <2>3
<1>6. CapturesCompleteOutsideArms'
  <2> SUFFICES ASSUME NEW r \in NodeId, NEW c \in NodeId, resolvedNames'[r] # NoNode,
                      RefersFromInside(r, c)', IsVariable(resolvedNames[r])',
                      declRib'[resolvedNames'[r]] # c
               PROVE  resolvedNames'[r] \in captures'[c]
    BY DEF CapturesCompleteOutsideArms
  <2>1. resolvedNames'[r] \in NodeId
    BY DEF IInv, TypeOK
  <2>2. PICK x \in NodeId : x = resolvedNames'[r]
    BY <2>1
  <2>3. c \in within'[r] \ within'[x]
    BY <2>2 DEF RefersFromInside
  <2>4. LookupDeclType(nameScope', x) = "Variable"
    BY <2>2 DEF IsVariable
  <2>5. CASE r # nextNode
    <3>1. x = resolvedNames[r]
      BY <2>2, <2>5 DEF Refers, IInv, TypeOK
    <3>2. x \in captures[c]
      BY <1>1, <2>2, <2>3, <2>4, <3>1, CompleteKept
    <3> QED
      BY <1>2, <2>2, <3>2
  <2>6. CASE r = nextNode
    <3>1. x = d
      BY <1>1, <2>2, <2>6 DEF Refers, IInv, TypeOK
    <3>2. InContext(closureContext, c)
      BY <2>3, <2>6 DEF Refers
    <3>3. LookupDeclType(nameScope, d) = "Variable"
      BY <1>1, <2>4, <3>1, VariableKept
    <3>4. c \notin within[d] /\ declRib[d] # c
      BY <1>1, <2>2, <2>3, <3>1
    <3>5. c \in NeedCapture(nameScope, d)
      BY <3>2, <3>3, <3>4, OutsideIsCaptured
    <3> QED
      BY <1>2, <2>2, <3>1, <3>5
  <2> QED
    BY <2>5, <2>6
<1> QED
  BY <1>4, <1>5, <1>6

-----------------------------------------------------------------------------
(* The shape of the steps of the visitor *)

\* cs is calls with the innermost activation at stage s.
AtStage(cs, s) ==
  /\ cs \in Seq(Call) /\ Len(cs) = Len(calls)
  /\ \A i \in 1..Len(calls) :
       /\ SameCall(calls[i], cs[i])
       /\ cs[i].stage = IF i = Len(calls) THEN s ELSE calls[i].stage

LEMMA StageIs ==
  ASSUME IInv, NEW s \in Stage
  PROVE  AtStage([calls EXCEPT ![Len(calls)].stage = s], s)
<1> DEFINE call == [calls[Len(calls)] EXCEPT !.stage = s]
<1>1. /\ call \in Call /\ SameCall(Top, call) /\ call.stage = s
  BY TopOfCalls DEF Call, SameCall, IInv
<1>2. [calls EXCEPT ![Len(calls)].stage = s] = [calls EXCEPT ![Len(calls)] = call]
  BY TopOfCalls DEF IInv, TypeOK
<1> HIDE DEF call
<1>3. /\ [calls EXCEPT ![Len(calls)] = call] \in Seq(Call)
      /\ Len([calls EXCEPT ![Len(calls)] = call]) = Len(calls)
      /\ \A i \in 1..Len(calls) : [calls EXCEPT ![Len(calls)] = call][i] =
                                    IF i = Len(calls) THEN call ELSE calls[i]
  BY <1>1, TopOfCalls, ExceptSeq DEF TypeOK, IInv
<1> QED
  BY <1>1, <1>2, <1>3, TopOfCalls DEF AtStage, SameCall, IInv

LEMMA StageOfTop ==
  ASSUME IInv
  PROVE  AtStage(calls, Top.stage) /\ Top.stage \in Stage
BY TopOfCalls DEF AtStage, SameCall, IInv, TypeOK, Call

RootStage == IF Top.stage = "body" THEN "expr" ELSE Top.stage

LEMMA RootStageIs ==
  ASSUME IInv
  PROVE  AtStage(WithinRoot(calls), RootStage)
<1>1. RootStage \in Stage
  BY StageOfTop DEF RootStage, Stage
<1>2. WithinRoot(calls) = [calls EXCEPT ![Len(calls)].stage = RootStage]
  BY TopOfCalls DEF WithinRoot, RootStage, IInv
<1> QED
  BY <1>1, <1>2, StageIs

\* How far the innermost activation can get.
Reaches(s) ==
  /\ s = "body" => Top.kind = "arm"
  /\ s = "params" => Top.stage = "params"
  /\ Top.stage = "done" => s = "done"

LEMMA Reached ==
  ASSUME IInv, Chain
  PROVE  Reaches(Top.stage) /\ Reaches(RootStage)
BY Frames DEF Reaches, RootStage, Chain, Stages

LEMMA StaysAt ==
  ASSUME IInv, nextNode' >= nextNode, NEW s, AtStage(calls', s), Reaches(s)
  PROVE  Stays /\ SameKinds
BY Frames DEF AtStage, Stays, KeepsStages, Proceeds, Reaches, SameKinds

LEMMA SameBodyAt ==
  ASSUME IInv, NEW s, AtStage(calls', s), s = Top.stage \/ s = RootStage \/ Top.kind # "closure"
  PROVE  SameBody
BY Frames DEF AtStage, SameBody, RootStage

LEMMA EntersAt ==
  ASSUME IInv, NEW cs, NEW s, AtStage(cs, s), Reaches(s), NEW call \in Call,
         calls' = Append(cs, call), Top.stage # "params",
         call.stage # "body", call.kind = "closure" <=> call.stage = "params",
         \/ FreshNode(call.node)
         \/ ArmNode(call.node, call.kind)
  PROVE  Enters(call.node, call.kind) /\ SameKinds
<1>1. /\ Len(calls) \in Nat /\ Len(calls) >= 1 /\ Len(cs) = Len(calls)
      /\ Len(calls') = Len(calls) + 1 /\ calls'[Len(calls) + 1] = call
      /\ \A i \in 1..Len(calls) : calls'[i] = cs[i]
  BY Frames, AppendType DEF AtStage
<1>2. KeepsStages /\ SameKinds
  BY <1>1 DEF AtStage, KeepsStages, SameKinds
<1>3. calls'[Len(calls)].stage = s
  BY <1>1 DEF AtStage
<1>4. Proceeds
  BY <1>3 DEF Proceeds, Reaches
<1> QED
  BY <1>1, <1>2, <1>4 DEF Enters

\* The node of a construct, and how the activation around it gets on.
LEMMA EnterNode ==
  ASSUME IInv, Chain, NEW id \in NodeId, NEW call \in Call, call.node = id,
         Enter(id, call), id = nextNode \/ (Top.stage = "body" /\ id = Top.node /\ call.kind # "arm"),
         Top.stage # "params", call.stage # "body",
         call.kind = "closure" <=> call.stage = "params"
  PROVE  Enters(id, call.kind) /\ SameKinds
<1>1. nextNode \in Nat /\ id \in Nat
  BY Frames
<1>2. CASE id = nextNode
  <2>1. calls' = Append(WithinRoot(calls), call) /\ nextNode' = nextNode + 1
    BY <1>2 DEF Enter, CallsAfterEntering
  <2>2. FreshNode(id)
    BY <1>1, <1>2, <2>1 DEF FreshNode
  <2> QED
    BY <2>1, <2>2, RootStageIs, Reached, EntersAt
<1>3. CASE id # nextNode
  <2>1. /\ calls' = Append([calls EXCEPT ![Len(calls)].stage = "done"], call)
        /\ nextNode' = nextNode /\ Top.stage = "body" /\ id = Top.node /\ call.kind # "arm"
    BY <1>3 DEF Enter, CallsAfterEntering
  <2>2. AtStage([calls EXCEPT ![Len(calls)].stage = "done"], "done")
    BY StageIs DEF Stage
  <2>3. Top.kind = "arm"
    BY <2>1, Frames DEF Chain, Stages
  <2>4. calls'[Len(calls)].stage = "done"
    <3>1. PICK cs : cs = [calls EXCEPT ![Len(calls)].stage = "done"] /\ AtStage(cs, "done")
      BY <2>2
    <3>a. calls' = Append(cs, call)
      BY <2>1, <3>1
    <3>b. cs \in Seq(Call) /\ Len(cs) = Len(calls)
      BY <3>1 DEF AtStage
    <3>2. calls' = Append(cs, call) /\ cs \in Seq(Call) /\ Len(calls) \in 1..Len(cs)
      BY <3>a, <3>b, Frames
    <3>3. calls'[Len(calls)] = cs[Len(calls)]
      BY <3>2, AppendType
    <3> QED
      BY <3>1, <3>2, <3>3 DEF AtStage
  <2>5. ArmNode(id, call.kind)
    BY <2>1, <2>3, <2>4 DEF ArmNode
  <2>6. Reaches("done")
    BY DEF Reaches
  <2> QED
    BY <2>1, <2>2, <2>5, <2>6, EntersAt
<1> QED
  BY <1>2, <1>3

-----------------------------------------------------------------------------
(* Every kind of step keeps the invariant *)

Rest == Chain /\ Context /\ Declarations /\ Closures /\ Used /\ Captures

LEMMA ResolvedNumbers ==
  ASSUME IInv, IInv'
  PROVE  \A r \in NodeId : resolvedNames'[r] \in Nat
<1>1. resolvedNames' \in [NodeId -> NodeId \cup {NoNode}]
  BY DEF IInv, TypeOK
<1>2. \A r \in NodeId : resolvedNames'[r] \in NodeId \cup {NoNode}
  BY <1>1
<1>3. NodeId \cup {NoNode} \subseteq Nat
  BY NodesAreNumbers
<1> QED
  BY <1>2, <1>3

\* A step that resolves no value and declares at most the next node.
LEMMA QuietStep ==
  ASSUME IInv, IInv', Rest, Move, NEW id, Past(id), KindsKept,
         UNCHANGED <<captures, resolvedNames>>, nextNode' >= nextNode,
         \A d \in NodeId : declRib'[d] # NoNode =>
           declRib[d] # NoNode \/ (d = nextNode /\ UsesNode)
  PROVE  Used' /\ Captures'
<1>1. nextNode' \in Nat /\ NodeId \subseteq Nat /\ NoNode = 0
  BY NodesAreNumbers
<1>2. DeclaredUsed'
  BY <1>1, DeclaredUsedKept DEF Rest, Used
<1>3. \A r \in NodeId : resolvedNames'[r] \in Nat
  BY ResolvedNumbers
<1>4. ResolvedUsed'
  BY <1>1, <1>3, ResolvedUsedKept DEF Rest, Used
<1>5. CapturingUsed'
  BY <1>1, CapturingUsedKept DEF Rest, Used
<1>6. Captures'
  BY CapturesKept DEF Rest
<1> QED
  BY <1>2, <1>4, <1>5, <1>6 DEF Used

\* The next node keeps its past, and so does one that is not met yet.
LEMMA NothingPast ==
  ASSUME IInv, NEW id, ~(id < nextNode), HistoryKept(id)
  PROVE  Past(id)
BY DEF Past

LEMMA NextNodeNotMet ==
  ASSUME IInv
  PROVE  ~(nextNode < nextNode)
BY Frames

\* A reference to the value d.
LEMMA ReferenceStep ==
  ASSUME IInv, IInv', Rest, Stays, SameKinds, SameBody, UNCHANGED closureContext,
         NEW d \in NodeId, Refers(d)
  PROVE  Rest'
<1>1. /\ nextNode' \in Nat /\ NodeId \subseteq Nat /\ NoNode = 0
      /\ nextNode \in Nat /\ nextNode \in NodeId /\ nextNode' = nextNode + 1 /\ d < nextNode
      /\ HistoryKept(nextNode) /\ UNCHANGED declRib /\ SameDecls(nameScope, nameScope')
      /\ Len(calls) \in Nat /\ Len(calls') = Len(calls)
      /\ KeepsStages /\ Move /\ UsesNode
  BY NodesAreNumbers, Frames DEF Refers, Stays, Move, UsesNode
<1>2. Chain' /\ Context'
  BY <1>1, ChainStays, ContextStays DEF Rest
<1>3. Declarations' /\ Closures'
  BY <1>1, DeclarationsStay, ClosuresStay DEF Rest, Used
<1>4. DeclaredUsed'
  BY <1>1, DeclaredUsedKept DEF Rest, Used
<1>5. ResolvedUsed'
  <2>1. \A r \in NodeId : resolvedNames'[r] = IF r = nextNode THEN d ELSE resolvedNames[r]
    BY DEF Refers, IInv, TypeOK
  <2>2. \A r \in NodeId : resolvedNames'[r] \in Nat
    BY ResolvedNumbers
  <2> QED
    BY <1>1, <2>1, <2>2, ResolvedUsedKept DEF Rest, Used
<1>6. CapturingUsed'
  <2>1. \A c \in NodeId : captures'[c] # {} =>
          captures[c] # {} \/ InContext(closureContext, c)
    BY NeedCaptureIff DEF Refers, InsertCapturedItem
  <2> QED
    BY <1>1, <2>1, CapturingUsedKept DEF Rest, Used
<1>7. Captures'
  BY CapturesRefer DEF Rest
<1> QED
  BY <1>2, <1>3, <1>4, <1>5, <1>6, <1>7 DEF Rest, Used

\* A step among the expressions of the innermost construct: no value is
\* resolved, nothing is declared in the name scope.
LEMMA SilentStays ==
  ASSUME IInv, IInv', Rest, Stays, SameKinds, Context',
         UNCHANGED <<captures, resolvedNames, declRib>>,
         SameDecls(nameScope, nameScope'), HistoryKept(nextNode)
  PROVE  Rest'
<1>1. /\ nextNode' \in Nat /\ nextNode' >= nextNode /\ Move
      /\ Len(calls) \in Nat /\ Len(calls') = Len(calls)
  BY NodesAreNumbers, Frames DEF Stays, Move
<1>2. Chain'
  BY <1>1, ChainStays DEF Rest
<1>3. Declarations' /\ Closures'
  BY <1>1, DeclarationsStay, ClosuresStay DEF Rest, Used
<1>4. KindsKept /\ Past(nextNode)
  BY SameDeclsKinds, NothingPast, NextNodeNotMet
<1>5. Used' /\ Captures'
  BY <1>1, <1>4, QuietStep
<1> QED
  BY <1>2, <1>3, <1>5 DEF Rest

\* A declaration in the innermost rib.
LEMMA DeclaringStep ==
  ASSUME IInv, IInv', Rest, NEW n \in Name, NEW k \in RibKind, DeclareName(n, k),
         Stays, SameKinds, SameBody, UNCHANGED <<captures, resolvedNames, closureContext>>
  PROVE  Rest'
<1>1. /\ nextNode' \in Nat /\ nextNode \in Nat /\ nextNode \in NodeId
      /\ nextNode' = nextNode + 1 /\ nameScope' = Insert(nameScope, n, nextNode, k)
      /\ Len(calls) \in Nat /\ Len(calls') = Len(calls) /\ KeepsStages
      /\ Move /\ UsesNode /\ nextNode' >= nextNode
  BY NodesAreNumbers, Frames, NextNodeType DEF DeclareName, Stays, Move, UsesNode, IInv
<1>2. Chain' /\ Context'
  BY <1>1, ChainStays, ContextStays DEF Rest
<1>3. /\ HistoryKept(nextNode) /\ within'[nextNode] = OpenClosures
      /\ declRib'[nextNode] = Peek(nameScope).node
      /\ \A d \in NodeId : d # nextNode => declRib'[d] = declRib[d]
  BY <1>1 DEF DeclareName, HistoryKept, IInv, TypeOK
<1>4. DeclaresLast(nameScope, nameScope', nextNode)
  BY <1>1, Frames, InsertDeclares
<1>5. Declarations' /\ Closures'
  BY <1>1, <1>3, <1>4, DeclarationsDeclare, ClosuresStay DEF Rest, Used
<1>6. KindsKept
  <2> SUFFICES ASSUME NEW d \in NodeId, d < nextNode PROVE Agree(nameScope, nameScope', d)
    BY DEF KindsKept
  <2>1. d # nextNode /\ d \in NodeId \ {nextNode}
    BY <1>1
  <2> QED
    BY <1>4, <2>1 DEF DeclaresLast, Agree
<1>7. Past(nextNode)
  BY <1>3, NothingPast, NextNodeNotMet
<1>8. Used' /\ Captures'
  BY <1>1, <1>3, <1>6, <1>7, QuietStep
<1> QED
  BY <1>2, <1>5, <1>8 DEF Rest

LEMMA PushKinds ==
  ASSUME IInv, NEW id \in NodeId, nameScope' = Push(nameScope, id)
  PROVE  KindsKept
<1>1. /\ Len(nameScope') = Len(nameScope) + 1 /\ Len(nameScope) \in Nat
      /\ \A j \in 1..Len(nameScope) : nameScope'[j] = nameScope[j]
      /\ nameScope'[Len(nameScope) + 1] = NewRib(id)
  BY PushType, Frames
<1>2. NewRib(id).decls = {}
  BY DEF NewRib
<1>3. \A i \in 1..Len(nameScope') : i \in 1..Len(nameScope) \/ i = Len(nameScope) + 1
  BY <1>1
<1> QED
  BY <1>1, <1>2, <1>3 DEF KindsKept, Agree

LEMMA PopKinds ==
  ASSUME IInv, nameScope' = Pop(nameScope)
  PROVE  KindsKept
<1>1. /\ Len(nameScope') = Len(nameScope) - 1 /\ Len(nameScope) \in Nat
      /\ \A j \in 1..(Len(nameScope) - 1) : nameScope'[j] = nameScope[j]
  BY PopType, Frames
<1> QED
  BY <1>1 DEF KindsKept, Agree

\* A node that is entered has no past but that of an arm before its body.
LEMMA EnteredPast ==
  ASSUME IInv, IInv', CapturingUsed, NEW id \in NodeId, NEW kind, Enters(id, kind),
         HistoryKept(id)
  PROVE  /\ Past(id) /\ nextNode' >= nextNode
         /\ id < nextNode => \E j \in 1..Len(calls) : calls[j].node = id
<1>1. CASE FreshNode(id)
  <2>1. nextNode \in Nat /\ id \in Nat /\ nextNode <= id
    BY <1>1, Frames DEF FreshNode
  <2>2. nextNode' \in Nat
    BY NodesAreNumbers
  <2>3. id < nextNode'
    BY <1>1 DEF FreshNode
  <2> QED
    BY <2>1, <2>2, <2>3, NothingPast
<1>2. CASE ArmNode(id, kind)
  <2>1. Len(calls) \in 1..Len(calls) /\ calls[Len(calls)].node = id
        /\ nextNode' = nextNode /\ nextNode \in Nat
    BY <1>2, Frames DEF ArmNode
  <2>2. captures[id] = {}
    BY <1>2, <2>1, Frames DEF ArmNode, CapturingUsed
  <2> QED
    BY <2>1, <2>2 DEF Past
<1> QED
  BY <1>1, <1>2 DEF Enters

\* A construct that opens ribs.
LEMMA OpeningStep ==
  ASSUME IInv, IInv', Rest, NEW id \in NodeId, NEW kind \in CallKind,
         Enters(id, kind), SameKinds, nameScope' = Push(nameScope, id),
         UNCHANGED <<captures, resolvedNames, closureContext, declRib>>,
         HistoryKept(id), kind = "closure" => within'[id] = OpenClosures
  PROVE  Rest'
<1>1. /\ nextNode' \in Nat /\ id \in Nat /\ Move /\ Len(calls') = Len(calls) + 1
  BY NodesAreNumbers DEF Enters, Move
<1>2. Chain' /\ Context'
  BY <1>1, ChainEnters, ContextEnters DEF Rest
<1>3. /\ Past(id) /\ nextNode' >= nextNode
      /\ id < nextNode => \E j \in 1..Len(calls) : calls[j].node = id
  BY EnteredPast DEF Rest, Used
<1>4. Declarations' /\ Closures'
  BY <1>1, <1>3, DeclarationsOpen, ClosuresEnter DEF Rest, Used
<1>5. Used' /\ Captures'
  BY <1>1, <1>3, PushKinds, QuietStep
<1> QED
  BY <1>2, <1>4, <1>5 DEF Rest

\* The patterns of a let statement open none.
LEMMA LetStep ==
  ASSUME IInv, IInv', Rest, NEW id \in NodeId, ~(id < nextNode), Enters(id, "let"), SameKinds,
         UNCHANGED <<nameScope, captures, resolvedNames, closureContext, within, declRib>>
  PROVE  Rest'
<1>1. /\ nextNode' \in Nat /\ id \in Nat /\ Len(calls) \in Nat
      /\ Len(calls') = Len(calls) + 1 /\ Move /\ "let" \in CallKind
      /\ SameDecls(nameScope, nameScope') /\ HistoryKept(id) /\ HistoryKept(nextNode)
  BY NodesAreNumbers, Frames DEF Enters, Move, SameDecls, HistoryKept, CallKind
<1>2. Chain' /\ Context'
  BY <1>1, ChainEnters, ContextEnters DEF Rest
<1>3. /\ Past(id) /\ nextNode' >= nextNode
  BY <1>1, EnteredPast DEF Rest, Used
<1>4. Declarations'
  <2>1. Len(calls') >= Len(calls) /\ Len(calls') \in Nat
    BY <1>1
  <2> QED
    BY <1>1, <2>1, DeclarationsStay DEF Rest, Used
<1>5. Closures'
  BY <1>1, ClosuresEnter DEF Rest
<1>6. Used' /\ Captures'
  BY <1>1, <1>3, SameDeclsKinds, QuietStep
<1> QED
  BY <1>2, <1>4, <1>5, <1>6 DEF Rest

\* The innermost construct is left.
LEMMA LeavingStep ==
  ASSUME IInv, IInv', Rest, Leaves, Top.stage # "params", PopClosureContext,
         UNCHANGED <<captures, resolvedNames, within, declRib>>,
         \/ Top.kind = "let" /\ nameScope' = nameScope
         \/ Top.kind # "let" /\ nameScope' = Pop(nameScope)
  PROVE  Rest'
<1>1. /\ nextNode' = nextNode /\ nextNode \in Nat /\ nextNode' >= nextNode /\ Move
      /\ HistoryKept(nextNode)
  BY Frames DEF Leaves, Move, HistoryKept
<1>2. Chain' /\ Context'
  BY ChainLeaves, ContextLeaves DEF Rest, PopClosureContext
<1>3. Declarations' /\ Closures'
  BY DeclarationsLeave, ClosuresLeave DEF Rest, Used
<1>4. KindsKept
  BY PopKinds, SameDeclsKinds DEF SameDecls
<1>5. Used' /\ Captures'
  BY <1>1, <1>4, NothingPast, NextNodeNotMet, QuietStep
<1> QED
  BY <1>2, <1>3, <1>5 DEF Rest

-----------------------------------------------------------------------------
(* Every action is one of these steps *)

LEMMA PathRest ==
  ASSUME IInv, IInv', Fresh, Rest, NEW n \in Name,
         \/ ResolvePathInExpression(n)
         \/ ResolveRelativeTypePath(n)
         \/ ResolveAssignment(n)
  PROVE  Rest'
<1>1. /\ nextNode' = nextNode + 1 /\ nextNode \in NodeId /\ nextNode \in Nat
      /\ nextNode' >= nextNode
      /\ calls' = WithinRoot(calls) /\ UNCHANGED <<closureContext, declRib>>
      /\ within' = [within EXCEPT ![nextNode] =
                      {closureContext[i] : i \in 1..Len(closureContext)}]
  <2>1. NewReference /\ calls' = WithinRoot(calls) /\ UNCHANGED <<closureContext, declRib>>
    BY DEF ResolvePathInExpression, ResolveRelativeTypePath, ResolveAssignment
  <2>2. HasNode /\ nextNode \in NodeId /\ nextNode \in Nat
    BY <2>1, NextNodeType, Frames DEF NewReference, IInv
  <2> QED
    BY <2>1, <2>2 DEF NewReference
<1>2. /\ HistoryKept(nextNode)
      /\ \A c \in NodeId : c \in within'[nextNode] <=> InContext(closureContext, c)
  <2>1. \A x \in NodeId : within'[x] =
          IF x = nextNode THEN {closureContext[i] : i \in 1..Len(closureContext)}
          ELSE within[x]
    BY <1>1 DEF IInv, TypeOK
  <2>2. HistoryKept(nextNode)
    BY <1>1, <2>1 DEF HistoryKept
  <2>3. within'[nextNode] = {closureContext[i] : i \in 1..Len(closureContext)}
    BY <1>1, <2>1
  <2>4. \A c \in NodeId : c \in {closureContext[i] : i \in 1..Len(closureContext)}
                           <=> InContext(closureContext, c)
    BY DEF InContext
  <2> QED
    BY <2>2, <2>3, <2>4
<1>3. AtStage(calls', RootStage) /\ Reaches(RootStage)
  BY <1>1, RootStageIs, Reached DEF Rest
<1>4. Stays /\ SameKinds /\ SameBody
  BY <1>1, <1>3, StaysAt, SameBodyAt
<1>5. CASE Lookup(nameScope, n) # NoNode /\ InsertResolvedName(nextNode, Lookup(nameScope, n))
  <2>1. PICK d \in NodeId : d = Lookup(nameScope, n)
    BY <1>5, LookupResolves
  <2>2. PICK i \in 1..Len(nameScope) : Lookup(nameScope, n) = nameScope[i].path[n]
    BY <1>5, LookupFinds DEF IInv, TypeOK
  <2>3. d < nextNode
    BY <2>1, <2>2 DEF Fresh
  <2>4. InsertResolvedName(nextNode, d)
    BY <1>5, <2>1
  <2>5. SameDecls(nameScope, nameScope')
    BY <1>1, <2>4, Frames, AppendReferenceKeepsDecls DEF InsertResolvedName
  <2>6. Refers(d)
    BY <1>1, <1>2, <2>3, <2>4, <2>5 DEF Refers, InsertResolvedName
  <2> QED
    BY <1>1, <1>4, <2>6, ReferenceStep
<1>6. CASE UNCHANGED <<nameScope, captures, resolvedNames>>
  <2>1. SameDecls(nameScope, nameScope')
    BY <1>6 DEF SameDecls
  <2>2. Context'
    BY <1>1, <1>4, ContextStays DEF Stays, Rest
  <2> QED
    BY <1>1, <1>2, <1>4, <1>6, <2>1, <2>2, SilentStays
<1>7. \/ Lookup(nameScope, n) # NoNode /\ InsertResolvedName(nextNode, Lookup(nameScope, n))
      \/ UNCHANGED <<nameScope, captures, resolvedNames>>
  BY DEF ResolvePathInExpression, ResolveRelativeTypePath, ResolveAssignment,
     InsertResolvedType, NothingResolved
<1> QED
  BY <1>5, <1>6, <1>7

LEMMA SameNodeNotLess ==
  ASSUME IInv, nextNode' = nextNode + 1 \/ nextNode' = nextNode
  PROVE  nextNode' >= nextNode
BY Frames

LEMMA DeclarationRest ==
  ASSUME IInv, IInv', Rest, NEW n \in Name,
         AddNewBinding(n) \/ ResolveClosureParameter(n) \/ ResolveStructExprField(n)
  PROVE  Rest'
<1>1. PICK k \in RibKind : DeclareName(n, k)
  BY DEF AddNewBinding, ResolveClosureParameter, ResolveStructExprField, RibKind
<1>2. nextNode' >= nextNode /\ nextNode \in NodeId
  BY <1>1, SameNodeNotLess, NextNodeType DEF DeclareName, IInv
<1>3. UNCHANGED <<captures, resolvedNames, closureContext>>
  BY DEF AddNewBinding, ResolveClosureParameter, ResolveStructExprField
<1>4. AtStage(calls', Top.stage) \/ AtStage(calls', RootStage)
  <2>1. CASE AddNewBinding(n)
    <3> DEFINE call == [Top EXCEPT !.bindings = @ \cup {nextNode}]
    <3>1. call \in Call /\ SameCall(Top, call) /\ call.stage = Top.stage
      BY <1>2, TopOfCalls DEF Call, IInv, SameCall
    <3>2. calls' = [calls EXCEPT ![Len(calls)] = call]
      BY <2>1, TopOfCalls DEF AddNewBinding, IInv
    <3> HIDE DEF call
    <3>3. /\ calls' \in Seq(Call) /\ Len(calls') = Len(calls)
          /\ \A i \in 1..Len(calls) :
               calls'[i] = IF i = Len(calls) THEN call ELSE calls[i]
      BY <3>1, <3>2, TopOfCalls, ExceptSeq DEF IInv, TypeOK
    <3> QED
      BY <3>1, <3>3, TopOfCalls DEF AtStage, SameCall, IInv
  <2>2. CASE ResolveClosureParameter(n)
    BY <2>2, StageOfTop DEF ResolveClosureParameter, AtStage
  <2>3. CASE ResolveStructExprField(n)
    BY <2>3, RootStageIs DEF ResolveStructExprField
  <2> QED
    BY <2>1, <2>2, <2>3
<1>5. Stays /\ SameKinds /\ SameBody
  BY <1>2, <1>4, Reached, StaysAt, SameBodyAt DEF Rest
<1> QED
  BY <1>1, <1>3, <1>5, DeclaringStep

LEMMA TypeParamRest ==
  ASSUME IInv, IInv', Rest, NEW n \in Name, ResolveTypeParam(n)
  PROVE  Rest'
<1>1. /\ nextNode' = nextNode + 1
      /\ UNCHANGED <<nameScope, closureContext, captures, resolvedNames, calls, within, declRib>>
  BY DEF ResolveTypeParam, history
<1>2. AtStage(calls', Top.stage)
  BY <1>1, StageOfTop DEF AtStage
<1>3. Stays /\ SameKinds /\ SameBody
  BY <1>1, <1>2, SameNodeNotLess, Reached, StaysAt, SameBodyAt DEF Rest
<1>4. Context' /\ SameDecls(nameScope, nameScope') /\ HistoryKept(nextNode)
  BY <1>1, <1>3, ContextStays DEF Rest, Stays, SameDecls, HistoryKept
<1> QED
  BY <1>1, <1>3, <1>4, SilentStays

LEMMA EnteringRest ==
  ASSUME IInv, IInv', Rest,
         \/ ResolveFunction \/ ResolveBlockExpression \/ ResolveClosureExpression
         \/ ResolveMatchArm \/ ResolveIfLetExpression
         \/ ResolveIteratorLoopExpression
  PROVE  Rest'
<1>1. /\ UNCHANGED <<captures, resolvedNames, closureContext, declRib>>
      /\ \/ UNCHANGED within
         \/ /\ ResolveClosureExpression
            /\ within' = [within EXCEPT ![calls'[Len(calls')].node] = OpenClosures]
  BY DEF ResolveFunction, ResolveBlockExpression, ResolveClosureExpression,
     ResolveMatchArm, ResolveIfLetExpression, ResolveIteratorLoopExpression, history
<1>2. Top.stage # "params"
  <2>1. CASE ResolveFunction
    <3>1. Top.stage = "items" \/ Top.kind = "block"
      BY <2>1 DEF ResolveFunction
    <3> QED
      BY <3>1, Frames DEF Rest, Chain, Stages
  <2>2. CASE AtExpression
    BY <2>2 DEF AtExpression
  <2> QED
    BY <2>1, <2>2 DEF ResolveBlockExpression, ResolveClosureExpression,
       ResolveMatchArm, ResolveIfLetExpression, ResolveIteratorLoopExpression
<1>3. PICK id \in NodeId, kind \in CallKind, stage \in Stage :
        /\ Enter(id, Activation(kind, id, stage)) /\ PushRibs(id)
        /\ id = nextNode \/ (Top.stage = "body" /\ id = Top.node /\ kind # "arm")
        /\ stage # "body" /\ (kind = "closure" <=> stage = "params")
        /\ ResolveClosureExpression => kind = "closure"
        /\ kind = "closure" => ResolveClosureExpression
  <2>1. ASSUME NEW kind \in CallKind, NEW stage \in Stage, EnterConstruct(kind, stage),
               kind # "arm"
        PROVE  \E id \in NodeId :
                 /\ Enter(id, Activation(kind, id, stage)) /\ PushRibs(id)
                 /\ id = nextNode \/ (Top.stage = "body" /\ id = Top.node /\ kind # "arm")
    BY <2>1 DEF EnterConstruct, ConstructNode
  <2> USE DEF CallKind, Stage
  <2>2. CASE ResolveClosureExpression
    <3>1. EnterConstruct("closure", "params")
      BY <2>2 DEF ResolveClosureExpression
    <3> QED
      BY <2>1, <2>2, <3>1
  <2>3. CASE ~ResolveClosureExpression /\ ResolveFunction
    <3>1. EnterConstruct("function", "patterns")
      BY <2>3 DEF ResolveFunction
    <3> QED
      BY <2>1, <2>3, <3>1
  <2>4. CASE ~ResolveClosureExpression /\ ResolveBlockExpression
    <3>1. EnterConstruct("block", "expr")
      BY <2>4 DEF ResolveBlockExpression
    <3> QED
      BY <2>1, <2>4, <3>1
  <2>5. CASE ~ResolveClosureExpression /\ ResolveIfLetExpression
    <3>1. EnterConstruct("iflet", "patterns")
      BY <2>5 DEF ResolveIfLetExpression
    <3> QED
      BY <2>1, <2>5, <3>1
  <2>6. CASE ~ResolveClosureExpression /\ ResolveIteratorLoopExpression
    <3>1. EnterConstruct("for", "patterns")
      BY <2>6 DEF ResolveIteratorLoopExpression
    <3> QED
      BY <2>1, <2>6, <3>1
  <2>7. CASE ~ResolveClosureExpression /\ ResolveMatchArm
    <3>1. /\ HasNode /\ Enter(nextNode, Activation("arm", nextNode, "guard"))
          /\ PushRibs(nextNode)
      BY <2>7 DEF ResolveMatchArm
    <3>2. nextNode \in NodeId
      BY <3>1, NextNodeType DEF IInv
    <3> QED
      BY <2>7, <3>1, <3>2
  <2> QED
    BY <2>2, <2>3, <2>4, <2>5, <2>6, <2>7
<1>4. /\ Activation(kind, id, stage) \in Call
      /\ Activation(kind, id, stage).kind = kind
      /\ Activation(kind, id, stage).node = id
      /\ Activation(kind, id, stage).stage = stage
  BY ActivationType
<1>5. Enters(id, kind) /\ SameKinds
  <2>1. PICK call \in Call : call = Activation(kind, id, stage)
    BY <1>4
  <2> QED
    BY <1>2, <1>3, <1>4, <2>1, EnterNode DEF Rest
<1>6. nameScope' = Push(nameScope, id)
  BY <1>3 DEF PushRibs
<1>7. calls'[Len(calls')].node = id
  BY <1>5 DEF Enters
<1>8. \A x \in NodeId : within'[x] =
        IF x = id /\ ResolveClosureExpression THEN OpenClosures ELSE within[x]
  <2>1. CASE ResolveClosureExpression
    <3>1. within' = [within EXCEPT ![id] = OpenClosures]
      BY <1>7, <2>1 DEF ResolveClosureExpression
    <3> QED
      BY <2>1, <3>1 DEF IInv, TypeOK
  <2> QED
    BY <1>1, <2>1
<1>9. HistoryKept(id) /\ (kind = "closure" => within'[id] = OpenClosures)
  BY <1>1, <1>3, <1>8 DEF HistoryKept
<1> QED
  BY <1>1, <1>5, <1>6, <1>9, OpeningStep

LEMMA LoopRest ==
  ASSUME IInv, IInv', Rest, NEW l \in Name, ResolveInfiniteLoopExpression(l)
  PROVE  Rest'
<1>1. nextNode + 1 \in NodeId /\ nextNode \in Nat
  BY RibsAssumption DEF ResolveInfiniteLoopExpression, IInv, TypeOK, NodeId
<1>2. PICK id \in NodeId : id = nextNode + 1
  BY <1>1
<1>3. /\ calls' = Append(WithinRoot(calls), Activation("block", id, "expr"))
      /\ nextNode' = id + 1 /\ nameScope' = Push(nameScope, id)
      /\ Top.stage # "params"
      /\ UNCHANGED <<captures, resolvedNames, closureContext, within, declRib>>
  BY <1>1, <1>2 DEF ResolveInfiniteLoopExpression, history, AtExpression
<1>4. PICK call \in Call : /\ call = Activation("block", id, "expr")
                           /\ call.kind = "block" /\ call.node = id /\ call.stage = "expr"
  BY ActivationType DEF CallKind, Stage
<1>5. FreshNode(id)
  BY <1>1, <1>2, <1>3 DEF FreshNode
<1>6. Enters(id, "block") /\ SameKinds
  <2>1. calls' = Append(WithinRoot(calls), call)
    BY <1>3, <1>4
  <2>2. call.stage # "body" /\ (call.kind = "closure" <=> call.stage = "params")
    BY <1>4
  <2> QED
    BY <1>3, <1>4, <1>5, <2>1, <2>2, RootStageIs, Reached, EntersAt DEF Rest
<1>7. HistoryKept(id) /\ "block" \in CallKind
  BY <1>3 DEF HistoryKept, CallKind
<1> QED
  BY <1>3, <1>6, <1>7, OpeningStep

LEMMA LetRest ==
  ASSUME IInv, IInv', Rest, ResolveLetStatement
  PROVE  Rest'
<1>1. nextNode \in NodeId /\ nextNode \in Nat
  BY NextNodeType, Frames DEF ResolveLetStatement, IInv
<1>2. PICK id \in NodeId : id = nextNode
  BY <1>1
<1>3. /\ calls' = Append(calls, Activation("let", id, "patterns"))
      /\ nextNode' = id + 1
      /\ UNCHANGED <<nameScope, captures, resolvedNames, closureContext, within, declRib>>
  BY <1>2 DEF ResolveLetStatement, scopes, history
<1>4. PICK call \in Call : /\ call = Activation("let", id, "patterns")
                           /\ call.kind = "let" /\ call.node = id /\ call.stage = "patterns"
  BY ActivationType DEF CallKind, Stage
<1>5. Top.stage # "params"
  BY Frames DEF ResolveLetStatement, Rest, Chain, Stages
<1>6. FreshNode(id)
  BY <1>1, <1>2, <1>3 DEF FreshNode
<1>7. Enters(id, "let") /\ SameKinds
  <2>1. calls' = Append(calls, call)
    BY <1>3, <1>4
  <2>2. call.stage # "body" /\ (call.kind = "closure" <=> call.stage = "params")
    BY <1>4
  <2> QED
    BY <1>4, <1>5, <1>6, <2>1, <2>2, StageOfTop, Reached, EntersAt DEF Rest
<1> QED
  BY <1>2, <1>3, <1>7, NextNodeNotMet, LetStep

LEMMA PatternsRest ==
  ASSUME IInv, IInv', Rest, ResolvePatterns
  PROVE  Rest'
<1>1. /\ nextNode' = nextNode
      /\ UNCHANGED <<nameScope, closureContext, captures, resolvedNames, within, declRib>>
  BY DEF ResolvePatterns, scopes, history
<1>2. PICK s \in Stage : /\ calls' = [calls EXCEPT ![Len(calls)].stage = s]
                         /\ Reaches(s)
                         /\ s # "params" /\ Top.stage # "params"
  BY DEF ResolvePatterns, Proceed, Stage, Reaches
<1>3. AtStage(calls', s)
  BY <1>2, StageIs
<1>4. Stays /\ SameKinds
  BY <1>1, <1>2, <1>3, SameNodeNotLess, StaysAt
<1>5. SameBody
  BY <1>2, <1>3, Frames DEF AtStage, SameBody
<1>6. Context' /\ SameDecls(nameScope, nameScope') /\ HistoryKept(nextNode)
  BY <1>1, <1>4, <1>5, ContextStays DEF Rest, Stays, SameDecls, HistoryKept
<1> QED
  BY <1>1, <1>4, <1>6, SilentStays

LEMMA ClosureBodyRest ==
  ASSUME IInv, IInv', Rest, ResolveClosureBody
  PROVE  Rest'
<1>1. /\ nextNode' = nextNode /\ Top.stage = "params"
      /\ calls' = [calls EXCEPT ![Len(calls)].stage = "expr"]
      /\ closureContext' = Append(closureContext, Top.node)
      /\ UNCHANGED <<nameScope, captures, resolvedNames, within, declRib>>
  BY DEF ResolveClosureBody, Proceed, scopes, history
<1>2. AtStage(calls', "expr") /\ Reaches("expr")
  BY <1>1, StageIs DEF Stage, Reaches
<1>3. Stays /\ SameKinds
  BY <1>1, <1>2, SameNodeNotLess, StaysAt
<1>4. Top.kind = "closure" /\ calls'[Len(calls)].stage # "params"
  <2>1. Len(calls) \in 1..Len(calls) /\ Top = calls[Len(calls)]
    BY Frames
  <2>2. Top.kind = "closure"
    BY <1>1, <2>1 DEF Rest, Chain, Stages
  <2>3. calls'[Len(calls)].stage = "expr"
    BY <1>2, <2>1 DEF AtStage
  <2> QED
    BY <2>2, <2>3
<1>5. Context'
  BY <1>1, <1>3, <1>4, ContextBegins DEF Rest, Stays
<1>6. SameDecls(nameScope, nameScope') /\ HistoryKept(nextNode)
  BY <1>1 DEF SameDecls, HistoryKept
<1> QED
  BY <1>1, <1>3, <1>5, <1>6, SilentStays

LEMMA LeaveRest ==
  ASSUME IInv, IInv', Rest, LeaveConstruct
  PROVE  Rest'
<1>1. /\ Len(calls) > 1 /\ calls' = SubSeq(calls, 1, Len(calls) - 1)
      /\ calls # <<>> /\ calls \in Seq(Call) /\ nextNode' = nextNode
      /\ UNCHANGED <<captures, resolvedNames, within, declRib>> /\ PopClosureContext
  BY DEF LeaveConstruct, Return, IInv, TypeOK, history
<1>2. Leaves
  BY <1>1, FrontType DEF Leaves
<1>3. Top.stage # "params"
  <2>1. Top.stage \in {"body", "expr", "done"} \/ Top.kind = "let"
    BY DEF LeaveConstruct
  <2> QED
    BY <2>1, Frames DEF Rest, Chain, Stages
<1>4. \/ Top.kind = "let" /\ nameScope' = nameScope
      \/ Top.kind # "let" /\ nameScope' = Pop(nameScope)
  BY DEF LeaveConstruct, PopRibs, scopes
<1> QED
  BY <1>1, <1>2, <1>3, <1>4, LeavingStep

LEMMA RestInit == Init => Rest
<1> SUFFICES ASSUME Init PROVE Rest
  OBVIOUS
<1>1. IInv
  BY InvInit
<1>2. /\ Len(calls) = 1 /\ calls[1].kind = "crate" /\ calls[1].node = 1
      /\ calls[1].stage = "items" /\ nextNode = 2
      /\ closureContext = <<>> /\ Len(closureContext) = 0
      /\ Len(nameScope) = 1 /\ nameScope[1].decls = {}
      /\ \A x \in NodeId : /\ captures[x] = {} /\ resolvedNames[x] = NoNode
                           /\ declRib[x] = NoNode
  BY DEF Init, NewRib, Activation, CrateNode
<1>3. Chain
  BY <1>2 DEF Chain, Ordered, Met, Stages
<1>4. Context
  BY <1>2 DEF Context, InContext, InBody
<1>5. Declarations /\ Closures
  BY <1>2 DEF Declarations, Closures
<1>6. Used
  BY <1>2 DEF Used, DeclaredUsed, ResolvedUsed, CapturingUsed
<1>7. Captures
  BY <1>2 DEF Captures, CapturesSound, CapturesNested, CapturesCompleteOutsideArms
<1> QED
  BY <1>3, <1>4, <1>5, <1>6, <1>7 DEF Rest

LEMMA RestStep == IInv /\ IInv' /\ Fresh /\ Rest /\ [Next]_vars => Rest'
<1> SUFFICES ASSUME IInv, IInv', Fresh, Rest, [Next]_vars PROVE Rest'
  OBVIOUS
<1>1. CASE UNCHANGED vars \/ VerifyOtherAssignee \/ RejectClosureParameter
  <2>1. /\ SameDecls(nameScope, nameScope') /\ HistoryKept(nextNode) /\ nextNode' = nextNode
        /\ UNCHANGED <<calls, closureContext, captures, resolvedNames, declRib>>
    BY <1>1 DEF vars, VerifyOtherAssignee, RejectClosureParameter, scopes, history,
       SameDecls, HistoryKept
  <2>2. AtStage(calls', Top.stage)
    BY <2>1, StageOfTop DEF AtStage
  <2>3. Stays /\ SameKinds /\ SameBody
    BY <2>1, <2>2, SameNodeNotLess, Reached, StaysAt, SameBodyAt DEF Rest
  <2>4. Context'
    BY <2>1, <2>3, ContextStays DEF Rest, Stays
  <2> QED
    BY <2>1, <2>3, <2>4, SilentStays
<1>2. CASE Next
  BY <1>1, <1>2, PathRest, DeclarationRest, TypeParamRest, LoopRest, EnteringRest, LetRest,
     PatternsRest, ClosureBodyRest, LeaveRest DEF Next
<1> QED
  BY <1>1, <1>2

LEMMA CInvInit == Init => CInv
BY InvInit, VisibleInit, RestInit DEF CInv, Rest

LEMMA CInvStep == CInv /\ [Next]_vars => CInv'
<1> SUFFICES ASSUME CInv, [Next]_vars PROVE CInv'
  OBVIOUS
<1>1. IInv /\ Fresh /\ Rest
  BY DEF CInv, Rest
<1>2. IInv'
  BY <1>1, InvStep
<1>3. Fresh' /\ Rest'
  BY <1>1, <1>2, VisibleStep, RestStep
<1> QED
  BY <1>2, <1>3 DEF CInv, Rest

LEMMA CInvImplies ==
  CInv => /\ ClosureContextExact
          /\ CapturesSound /\ CapturesNested /\ CapturesCompleteOutsideArms
<1> SUFFICES ASSUME CInv PROVE ClosureContextExact
  BY DEF CInv, Captures
<1> DEFINE open == {closureContext[i] : i \in 1..Len(closureContext)}
           bodies == {calls[i].node : i \in {j \in 1..Len(calls) :
                        calls[j].kind = "closure" /\ calls[j].stage # "params"}}
<1>1. open \subseteq NodeId /\ bodies \subseteq NodeId
  BY ElementOfSeq, TopOfCalls DEF CInv, IInv, TypeOK, Call
<1>2. \A c \in NodeId : c \in open <=> InContext(closureContext, c)
  BY DEF InContext
<1>3. \A c \in NodeId : c \in bodies <=> InBody(calls, c)
  BY DEF InBody
<1>4. \A c \in NodeId : InContext(closureContext, c) <=> InBody(calls, c)
  BY DEF CInv, Context
<1>5. open = bodies
  <2> HIDE DEF open, bodies
  <2> QED BY <1>1, <1>2, <1>3, <1>4
<1> QED
  BY <1>5 DEF ClosureContextExact

-----------------------------------------------------------------------------
(* What is promised of captures *)

\* pushClosureContext and popClosureContext stay balanced whatever is resolved
\* between them: the closure context holds exactly the closures whose bodies
\* are on the stack of the visitor, never one whose parameters are still being
\* declared and never one that has been left.
THEOREM ClosureContext == Spec => []ClosureContextExact
BY CInvInit, CInvStep, CInvImplies, PTL DEF Spec

\* insertCapturedItem never makes a closure capture a parameter of its own or a
\* binding of its body, however constructs share nodes and names shadow names.
THEOREM CapturesAreSound == Spec => []CapturesSound
BY CInvInit, CInvStep, CInvImplies, PTL DEF Spec

\* What a closure captures from outside the closures around it, they capture
\* too, but for the closure that is the body of the arm that declares it.
THEOREM CapturesAreNested == Spec => []CapturesNested
BY CInvInit, CInvStep, CInvImplies, PTL DEF Spec

\* A variable named in the body of a closure and declared outside it is captured,
\* but for the closure that is the body of the arm that declares it: the defect
\* that refutes CapturesComplete is the only one.
THEOREM CapturesAreComplete == Spec => []CapturesCompleteOutsideArms
BY CInvInit, CInvStep, CInvImplies, PTL DEF Spec
=============================================================================
