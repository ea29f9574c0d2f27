---------------------------- MODULE Loops_proofs ----------------------------
(***************************************************************************)
(* Proofs about the loop detector, for functions of any size.              *)
(*                                                                         *)
(* The inductive invariant says what Tarjan's algorithm has become in this *)
(* code: low links always equal indices, so that the stack of blocks is    *)
(* the stack of the calls and nothing else.                                *)
(***************************************************************************)
EXTENDS Loops, FiniteSetTheorems, SequenceTheorems, TLAPS

\* The stack holds the blocks of the calls, in their order.
StackIsPath ==
  /\ Len(stack) = Len(calls)
  /\ \A i \in 1..Len(stack) : stack[i] = calls[i].block

\* A low link is what it was when its block was entered.
LowIsIndex == lowLinkMap = indexMap

\* The blocks on the stack have increasing indices, below the next one.
Indexed ==
  /\ \A i \in 1..Len(stack) : indexMap[stack[i]] \in Nat /\ indexMap[stack[i]] < index
  /\ \A i, j \in 1..Len(stack) : i < j => indexMap[stack[i]] < indexMap[stack[j]]

OnStack == onStack = {stack[i] : i \in 1..Len(stack)}

\* The graph of a run is what the header dominates, until the next header.
GraphDominated == phase # "blocks" => header \in Block /\ graph = DominatedBlocks

\* Low links that are never lowered make every block a root.
SccsAreSingletons == \A i \in 1..Len(sccs) : \E b \in Block : sccs[i] = {b}

Idle == phase # "scc" => calls = <<>>

IInv == /\ TypeOK /\ StackIsPath /\ LowIsIndex /\ Indexed /\ OnStack
        /\ SccsPartition /\ SccsAreSingletons /\ GraphDominated /\ Idle
        /\ NothingFoundWhenAllReachable

-----------------------------------------------------------------------------
(* Dominance *)

LEMMA ReachableAvoidingType ==
  ASSUME NEW a
  PROVE  ReachableAvoiding(a) \subseteq Block
BY DEF ReachableAvoiding

\* A set of blocks that control cannot leave but through a contains every block
\* it can reach without a.
LEMMA ReachableIsLeast ==
  ASSUME NEW a, NEW S \in SUBSET Block, Entry # a => Entry \in S, Avoids(S, a)
  PROVE  ReachableAvoiding(a) \subseteq S
BY DEF ReachableAvoiding

LEMMA SuccessorsAreBlocks ==
  ASSUME TypeOK, NEW b \in Block
  PROVE  Successors(b) \subseteq Block
<1>1. succ[b] \in SuccLists
  BY DEF TypeOK
<1>2. PICK k \in 0..MaxSucc : succ[b] \in [1..k -> Block \ {Entry}]
  BY <1>1 DEF SuccLists
<1> QED
  BY <1>2 DEF Successors

LEMMA ReachableClosed ==
  ASSUME TypeOK, NEW a
  PROVE  Avoids(ReachableAvoiding(a), a)
<1> SUFFICES ASSUME NEW b \in ReachableAvoiding(a), NEW c \in Successors(b) \ {a}
             PROVE  c \in ReachableAvoiding(a)
  BY DEF Avoids
<1>1. c \in Block
  <2>1. b \in Block
    BY ReachableAvoidingType
  <2> QED
    BY <2>1, SuccessorsAreBlocks
<1>2. ASSUME NEW S \in SUBSET Block, Entry # a => Entry \in S, Avoids(S, a)
      PROVE  c \in S
  <2>1. b \in S
    BY <1>2, ReachableIsLeast
  <2> QED
    BY <1>2, <2>1 DEF Avoids
<1> QED
  BY <1>1, <1>2 DEF ReachableAvoiding

LEMMA EntryReachable ==
  ASSUME NEW a, Entry # a
  PROVE  Entry \in ReachableAvoiding(a)
<1>1. Entry \in Block
  BY LoopsAssumption DEF Entry, Block
<1> QED
  BY <1>1 DEF ReachableAvoiding

\* Two different blocks do not dominate each other when one of them is
\* reachable: what control reaches through neither of them is all it reaches.
LEMMA DominanceAntisymmetric ==
  ASSUME TypeOK, NEW a \in Block, NEW b \in Block, a # b,
         Dominates(a, b), Dominates(b, a)
  PROVE  a \notin Reachable
<1> DEFINE T == ReachableAvoiding(a) \cap ReachableAvoiding(b)
<1>1. b \notin ReachableAvoiding(a) /\ a \notin ReachableAvoiding(b)
  BY DEF Dominates
<1>2. Entry \in T
  BY <1>1, EntryReachable
<1>3. Avoids(T, NoBlock)
  <2> SUFFICES ASSUME NEW c \in T, NEW d \in Successors(c) \ {NoBlock}
               PROVE  d \in T
    BY DEF Avoids
  <2>1. Avoids(ReachableAvoiding(a), a) /\ Avoids(ReachableAvoiding(b), b)
    BY ReachableClosed
  <2>2. d # a => d \in ReachableAvoiding(a)
    BY <2>1 DEF Avoids
  <2>3. d # b => d \in ReachableAvoiding(b)
    BY <2>1 DEF Avoids
  <2> QED
    BY <1>1, <2>2, <2>3
<1>4. T \in SUBSET Block
  BY ReachableAvoidingType
<1>5. Reachable \subseteq T
  BY <1>2, <1>3, <1>4, ReachableIsLeast DEF Reachable
<1>6. a \notin T
  BY DEF ReachableAvoiding
<1> QED
  BY <1>5, <1>6

-----------------------------------------------------------------------------
(* The maps and the stack *)

\* Facts about the numbers and sequences of a state that satisfies IInv.
LEMMA Shapes ==
  ASSUME IInv
  PROVE  /\ Len(stack) \in Nat /\ Len(calls) = Len(stack)
         /\ \A i \in 1..Len(stack) : /\ stack[i] \in Block /\ stack[i] \in onStack
                                     /\ calls[i] \in Activation
                                     /\ calls[i].block = stack[i]
                                     /\ indexMap[stack[i]] \in Nat
                                     /\ lowLinkMap[stack[i]] = indexMap[stack[i]]
<1>1. /\ Len(stack) \in Nat /\ Len(calls) = Len(stack)
      /\ \A i \in 1..Len(stack) : stack[i] \in Block
      /\ \A i \in 1..Len(calls) : calls[i] \in Activation
  BY LenProperties, ElementOfSeq DEF IInv, TypeOK, StackIsPath
<1> QED
  BY <1>1 DEF IInv, StackIsPath, Indexed, LowIsIndex, OnStack

LEMMA MapInsertNew ==
  ASSUME NEW map, NEW b, NEW value, map[b] = NoIndex
  PROVE  MapInsert(map, b, value) = [map EXCEPT ![b] = value]
BY DEF MapInsert

\* A low link is never lowered.
LEMMA LowLinkStays ==
  ASSUME IInv, NEW i \in 1..Len(stack), NEW value
  PROVE  MapInsert(lowLinkMap, stack[i], value) = lowLinkMap
<1>1. lowLinkMap[stack[i]] \in Nat
  BY Shapes
<1> QED
  BY <1>1 DEF MapInsert, NoIndex

\* The call on top of the calls is for the block on top of the stack.
LEMMA TopIsTop ==
  ASSUME IInv, calls # <<>>
  PROVE  /\ Len(stack) \in 1..Len(stack) /\ Len(stack) >= 1
         /\ TopCall.block = stack[Len(stack)] /\ TopCall \in Activation
<1>1. Len(calls) \in Nat \ {0}
  BY EmptySeq, LenProperties DEF IInv, TypeOK
<1>2. Len(calls) = Len(stack) /\ Len(stack) \in 1..Len(stack) /\ Len(stack) >= 1
  BY <1>1, Shapes
<1> QED
  BY <1>2, Shapes DEF TopCall

\* Every block is a root, and alone above itself on the stack.
LEMMA RootAlone ==
  ASSUME IInv, calls # <<>>
  PROVE  /\ IsRoot(TopCall.block)
         /\ PopFrom(TopCall.block) = Len(stack)
         /\ Popped(TopCall.block) = {TopCall.block}
<1> DEFINE v == TopCall.block
           n == Len(stack)
<1>1. n \in 1..n /\ v = stack[n] /\ n \in Nat
  BY TopIsTop, Shapes
<1>2. lowLinkMap[v] = indexMap[v]
  BY <1>1, Shapes
<1>3. \A i \in 1..n : stack[i] = v => i = n
  <2> SUFFICES ASSUME NEW i \in 1..n, stack[i] = v, i # n PROVE FALSE
    OBVIOUS
  <2>1. i < n
    BY <1>1
  <2>2. indexMap[stack[i]] < indexMap[stack[n]]
    BY <1>1, <2>1 DEF IInv, Indexed
  <2>3. indexMap[stack[n]] \in Nat
    BY <1>1, Shapes
  <2> QED
    BY <1>1, <2>2, <2>3
<1>4. PopFrom(v) = n
  BY <1>1, <1>3 DEF PopFrom
<1>5. Popped(v) = {v}
  BY <1>1, <1>4 DEF Popped
<1> QED
  BY <1>2, <1>4, <1>5 DEF IsRoot, MapLookup

-----------------------------------------------------------------------------
(* Steps *)

LEMMA InvInit == Init => IInv
<1> SUFFICES ASSUME Init PROVE IInv
  OBVIOUS
<1>1. TypeOK
  BY LoopsAssumption DEF Init, TypeOK, EmptyMap, Entry, Block
<1>2. Len(stack) = 0 /\ Len(calls) = 0 /\ Len(sccs) = 0
  BY DEF Init
<1>3. SccsPartition
  BY <1>2 DEF SccsPartition, Init, Assigned
<1> QED
  BY <1>1, <1>2, <1>3
     DEF IInv, StackIsPath, LowIsIndex, Indexed, OnStack, SccsAreSingletons,
         GraphDominated, Idle, NothingFoundWhenAllReachable, Init

\* A step of the detector that touches neither the algorithm nor the graph.
LEMMA SameTarjan ==
  ASSUME IInv, UNCHANGED <<tarjan, succ>>
  PROVE  /\ StackIsPath' /\ LowIsIndex' /\ Indexed' /\ OnStack'
         /\ SccsPartition' /\ SccsAreSingletons'
BY DEF IInv, tarjan, StackIsPath, LowIsIndex, Indexed, OnStack, SccsPartition,
       Assigned, SccsAreSingletons

LEMMA SameLoops ==
  ASSUME IInv, UNCHANGED <<succ, loops>>
  PROVE  NothingFoundWhenAllReachable'
BY DEF IInv, NothingFoundWhenAllReachable, Reachable, ReachableAvoiding, Avoids,
       Successors

LEMMA SameGraph ==
  ASSUME IInv, UNCHANGED <<succ, header, graph>>, phase # "blocks"
  PROVE  GraphDominated'
BY DEF IInv, GraphDominated, DominatedBlocks, Dominates, ReachableAvoiding, Avoids,
       Successors

\* Entering a block that has no index, under callers that differ from the calls
\* at most in how far they are.
LEMMA Connecting ==
  ASSUME IInv, phase = "scc", NEW v \in graph, indexMap[v] = NoIndex,
         NEW callers \in Seq(Activation), Len(callers) = Len(calls),
         \A i \in 1..Len(calls) : callers[i].block = calls[i].block,
         Connect(v, callers),
         UNCHANGED <<succ, header, phase, graph, sccs, created, loops, outcome>>
  PROVE  IInv'
<1> DEFINE n == Len(stack)
<1>1. /\ n \in Nat /\ Len(calls) = n /\ index \in Nat /\ v \in Block
      /\ \A i \in 1..n : stack[i] \in Block /\ calls[i].block = stack[i]
  BY Shapes DEF IInv, TypeOK
<1>2. /\ indexMap' = [indexMap EXCEPT ![v] = index] /\ lowLinkMap' = indexMap'
      /\ index' = index + 1
  BY MapInsertNew DEF Connect, NextIndex, IInv, LowIsIndex
<1>3. \A i \in 1..n : indexMap'[stack[i]] = indexMap[stack[i]]
  <2>1. \A i \in 1..n : indexMap[stack[i]] # NoIndex /\ stack[i] \in Block
    BY Shapes DEF NoIndex
  <2> QED
    BY <1>2, <2>1 DEF IInv, TypeOK
<1>4. indexMap'[v] = index
  BY <1>1, <1>2 DEF IInv, TypeOK
<1>5. /\ stack' \in Seq(Block) /\ Len(stack') = n + 1 /\ stack'[n + 1] = v
      /\ \A i \in 1..n : stack'[i] = stack[i]
  BY <1>1 DEF Connect, IInv, TypeOK
<1>6. /\ calls' \in Seq(Activation) /\ Len(calls') = n + 1
      /\ calls'[n + 1].block = v /\ \A i \in 1..n : calls'[i] = callers[i]
  BY <1>1 DEF Connect, Activation
<1>7. TypeOK'
  BY <1>1, <1>2, <1>5, <1>6 DEF IInv, TypeOK, Connect
<1>8. StackIsPath'
  BY <1>1, <1>5, <1>6 DEF StackIsPath
<1>9. Indexed'
  <2>1. \A i \in 1..n : /\ indexMap[stack[i]] \in Nat /\ indexMap[stack[i]] < index
                        /\ \A j \in 1..n : i < j => indexMap[stack[i]] < indexMap[stack[j]]
    BY DEF IInv, Indexed
  <2>2. /\ Len(stack') = n + 1 /\ index' = index + 1 /\ indexMap'[stack'[n + 1]] = index
        /\ \A i \in 1..n : indexMap'[stack'[i]] = indexMap[stack[i]]
    BY <1>1, <1>2, <1>3, <1>4, <1>5
  <2>3. \A i \in 1..Len(stack') :
          indexMap'[stack'[i]] \in Nat /\ indexMap'[stack'[i]] < index'
    <3>1. indexMap'[stack'[n + 1]] \in Nat /\ indexMap'[stack'[n + 1]] < index'
      BY <1>1, <2>2
    <3>2. \A i \in 1..n : indexMap'[stack'[i]] \in Nat /\ indexMap'[stack'[i]] < index'
      BY <1>1, <2>1, <2>2
    <3>3. n \in Nat /\ Len(stack') = n + 1
      BY <1>1, <2>2
    <3> QED
      BY <3>1, <3>2, <3>3
  <2>4. \A i, j \in 1..Len(stack') : i < j => indexMap'[stack'[i]] < indexMap'[stack'[j]]
    <3> SUFFICES ASSUME NEW i \in 1..(n + 1), NEW j \in 1..(n + 1), i < j
                 PROVE  indexMap'[stack'[i]] < indexMap'[stack'[j]]
      BY <2>2
    <3>1. i \in 1..n
      BY <1>1
    <3>2. CASE j \in 1..n
      BY <2>1, <2>2, <3>1, <3>2
    <3>3. CASE j = n + 1
      BY <2>1, <2>2, <3>1, <3>3
    <3> QED
      BY <1>1, <3>2, <3>3
  <2> QED
    BY <2>3, <2>4 DEF Indexed
<1>10. OnStack'
  BY <1>1, <1>5 DEF IInv, OnStack, Connect
<1>11. SccsPartition' /\ SccsAreSingletons'
  <2>1. ~Assigned(v)
    BY DEF Assigned
  <2>2. \A i \in 1..Len(sccs) : v \notin sccs[i]
    BY <2>1 DEF IInv, SccsPartition
  <2>3. {b \in graph : Assigned(b)}' = {b \in graph : Assigned(b)} \cup {v}
    BY <1>1, <1>2, <1>4 DEF Assigned, NoIndex, IInv, TypeOK
  <2>4. onStack' = onStack \cup {v}
    BY DEF Connect
  <2>5. SccsPartition'
    <3> DEFINE all == UNION {sccs[i] : i \in 1..Len(sccs)}
    <3>1. onStack \cup all = {b \in graph : Assigned(b)}
      BY DEF IInv, SccsPartition
    <3>2. onStack' \cup all = {b \in graph : Assigned(b)}'
      BY <2>3, <2>4, <3>1
    <3>3. all' = all /\ sccs' = sccs
      OBVIOUS
    <3> HIDE DEF all
    <3>4. \A i \in 1..Len(sccs) : sccs[i] # {} /\ sccs[i] \cap onStack' = {}
      BY <2>2, <2>4 DEF IInv, SccsPartition
    <3>5. \A i, j \in 1..Len(sccs) : i # j => sccs[i] \cap sccs[j] = {}
      BY DEF IInv, SccsPartition
    <3> QED
      BY <3>2, <3>3, <3>4, <3>5 DEF SccsPartition, all
  <2> QED
    BY <2>5 DEF IInv, SccsAreSingletons
<1>12. GraphDominated' /\ Idle' /\ NothingFoundWhenAllReachable'
  BY SameGraph, SameLoops DEF Idle
<1> QED
  BY <1>2, <1>7, <1>8, <1>9, <1>10, <1>11, <1>12 DEF IInv, LowIsIndex

LEMMA RunStep == IInv /\ Run => IInv'
<1> SUFFICES ASSUME IInv, Run PROVE IInv'
  OBVIOUS
<1>1. PICK b \in graph : indexMap[b] = NoIndex /\ Connect(b, <<>>)
  BY DEF Run
<1>2. <<>> \in Seq(Activation) /\ calls = <<>> /\ Len(calls) = 0
  BY DEF Run
<1> QED
  BY <1>1, <1>2, Connecting DEF Run

LEMMA VisitSuccessorStep == IInv /\ VisitSuccessor => IInv'
<1> SUFFICES ASSUME IInv, VisitSuccessor PROVE IInv'
  OBVIOUS
<1> DEFINE v == TopCall.block
           n == Len(stack)
           advanced == [calls EXCEPT ![Len(calls)].next = @ + 1]
<1>1. /\ n \in 1..n /\ n \in Nat /\ Len(calls) = n /\ v = stack[n]
      /\ TopCall = calls[n] /\ TopCall \in Activation
  BY TopIsTop, Shapes DEF VisitSuccessor, TopCall
<1>2. /\ advanced \in Seq(Activation) /\ Len(advanced) = Len(calls)
      /\ \A i \in 1..Len(calls) : advanced[i].block = calls[i].block
  <2> DEFINE top == [calls[n] EXCEPT !.next = @ + 1]
  <2>1. top \in Activation /\ top.block = calls[n].block
    BY <1>1 DEF Activation
  <2>2. advanced = [calls EXCEPT ![n] = top]
    BY <1>1
  <2> HIDE DEF top, advanced
  <2>3. calls \in Seq(Activation)
    BY DEF IInv, TypeOK
  <2> QED
    BY <1>1, <2>1, <2>2, <2>3
<1> HIDE DEF advanced
<1>3. CASE \E s \in graph : indexMap[s] = NoIndex /\ Connect(s, advanced)
  BY <1>2, <1>3, Connecting DEF VisitSuccessor
<1>4. CASE /\ calls' = advanced /\ lowLinkMap' = lowLinkMap
           /\ UNCHANGED <<index, indexMap, stack, onStack>>
  <2>1. UNCHANGED <<succ, header, phase, graph, sccs, created, loops, outcome,
                    index, indexMap, stack, onStack, lowLinkMap>>
    BY <1>4 DEF VisitSuccessor
  <2>2. TypeOK'
    BY <1>2, <1>4, <2>1 DEF IInv, TypeOK
  <2>3. StackIsPath' /\ LowIsIndex' /\ Indexed' /\ OnStack'
    BY <1>2, <1>4, <2>1 DEF IInv, StackIsPath, LowIsIndex, Indexed, OnStack
  <2>4. SccsPartition' /\ SccsAreSingletons'
    BY <2>1 DEF IInv, SccsPartition, Assigned, SccsAreSingletons
  <2>5. GraphDominated' /\ Idle' /\ NothingFoundWhenAllReachable'
    BY <2>1, SameGraph, SameLoops DEF Idle, VisitSuccessor
  <2> QED
    BY <2>2, <2>3, <2>4, <2>5 DEF IInv
<1>5. \A value : MapInsert(lowLinkMap, v, value) = lowLinkMap
  BY <1>1, LowLinkStays
<1> QED
  BY <1>3, <1>4, <1>5 DEF VisitSuccessor, advanced

LEMMA LeaveConnectStep == IInv /\ LeaveConnect => IInv'
<1> SUFFICES ASSUME IInv, LeaveConnect PROVE IInv'
  OBVIOUS
<1> DEFINE v == TopCall.block
           n == Len(stack)
<1>1. /\ n \in 1..n /\ n \in Nat /\ n >= 1 /\ Len(calls) = n /\ v = stack[n]
      /\ calls # <<>>
  BY TopIsTop, Shapes DEF LeaveConnect
<1>2. /\ sccs' = Append(sccs, {v}) /\ onStack' = onStack \ {v}
      /\ stack' = SubSeq(stack, 1, n - 1)
  BY <1>1, RootAlone DEF LeaveConnect
<1>3. /\ stack' \in Seq(Block) /\ Len(stack') = n - 1
      /\ \A i \in 1..(n - 1) : stack'[i] = stack[i]
  <2>1. stack \in Seq(Block)
    BY DEF IInv, TypeOK
  <2> QED
    BY <1>1, <1>2, <2>1
<1>4. /\ calls' \in Seq(Activation) /\ Len(calls') = n - 1
      /\ \A i \in 1..(n - 1) : calls'[i] = calls[i]
  <2>1. calls \in Seq(Activation) /\ calls' = SubSeq(calls, 1, n - 1)
    BY <1>1 DEF IInv, TypeOK, LeaveConnect
  <2> QED
    BY <1>1, <2>1
<1>5. lowLinkMap' = lowLinkMap
  <2>1. CASE n = 1
    BY <1>1, <2>1 DEF LeaveConnect
  <2>2. CASE n # 1
    <3>1. n - 1 \in 1..n /\ calls[n - 1].block = stack[n - 1]
      BY <1>1, <2>2, Shapes
    <3> QED
      BY <1>1, <2>2, <3>1, LowLinkStays DEF LeaveConnect
  <2> QED
    BY <2>1, <2>2
<1>6. UNCHANGED <<succ, header, phase, graph, index, indexMap, created, loops, outcome>>
  BY DEF LeaveConnect
<1>7. v \in Block /\ v \in onStack
  BY <1>1, Shapes
<1>8. TypeOK'
  BY <1>2, <1>3, <1>4, <1>5, <1>6, <1>7 DEF IInv, TypeOK
<1>9. StackIsPath' /\ Indexed' /\ LowIsIndex'
  <2>1. StackIsPath'
    BY <1>1, <1>3, <1>4 DEF IInv, StackIsPath
  <2>2. LowIsIndex'
    BY <1>5, <1>6 DEF IInv, LowIsIndex
  <2>3. Indexed'
    <3>1. indexMap' = indexMap /\ index' = index /\ n \in Nat
      BY <1>1, <1>6
    <3> QED
      BY <1>3, <3>1 DEF IInv, Indexed
  <2> QED
    BY <2>1, <2>2, <2>3
<1>10. OnStack'
  <2>1. \A i \in 1..(n - 1) : stack[i] # v
    <3>1. \A i \in 1..(n - 1) : indexMap[stack[i]] < indexMap[stack[n]]
      BY <1>1 DEF IInv, Indexed
    <3>2. indexMap[stack[n]] \in Nat
      BY <1>1, Shapes
    <3> QED
      BY <1>1, <3>1, <3>2
  <2>2. onStack = {stack[i] : i \in 1..n}
    BY DEF IInv, OnStack
  <2>3. onStack' = {stack[i] : i \in 1..(n - 1)}
    BY <1>1, <1>2, <2>1, <2>2
  <2> QED
    BY <1>3, <2>3 DEF OnStack
<1>11. /\ sccs \in Seq(SUBSET Block) /\ Len(sccs) \in Nat
       /\ Len(sccs') = Len(sccs) + 1 /\ sccs'[Len(sccs) + 1] = {v}
       /\ \A i \in 1..Len(sccs) : sccs'[i] = sccs[i]
  BY <1>2, <1>7 DEF IInv, TypeOK
<1>12. SccsAreSingletons'
  BY <1>7, <1>11 DEF IInv, SccsAreSingletons
<1>13. SccsPartition'
  <2>1. \A i \in 1..Len(sccs) : sccs[i] # {} /\ sccs[i] \cap onStack = {}
    BY DEF IInv, SccsPartition
  <2>2. \A i, j \in 1..Len(sccs) : i # j => sccs[i] \cap sccs[j] = {}
    BY DEF IInv, SccsPartition
  <2> DEFINE m == Len(sccs)
             old == UNION {sccs[i] : i \in 1..m}
             new == UNION {sccs'[i] : i \in 1..Len(sccs')}
  <2>0. /\ m \in Nat /\ Len(sccs') = m + 1 /\ \A i \in 1..m : sccs'[i] = sccs[i] /\ v \notin sccs[i]
        /\ sccs'[m + 1] = {v}
    BY <1>7, <1>11, <2>1
  <2>3. \A i \in 1..Len(sccs') : sccs'[i] # {} /\ sccs'[i] \cap onStack' = {}
    <3>1. \A i \in 1..m : sccs'[i] # {} /\ sccs'[i] \cap onStack' = {}
      BY <1>2, <2>0, <2>1
    <3>2. sccs'[m + 1] # {} /\ sccs'[m + 1] \cap onStack' = {}
      BY <1>2, <2>0
    <3> QED
      BY <2>0, <3>1, <3>2
  <2>4. \A i, j \in 1..Len(sccs') : i # j => sccs'[i] \cap sccs'[j] = {}
    <3> SUFFICES ASSUME NEW i \in 1..(m + 1), NEW j \in 1..(m + 1), i # j
                 PROVE  sccs'[i] \cap sccs'[j] = {}
      BY <2>0
    <3>1. CASE i \in 1..m /\ j \in 1..m
      BY <2>0, <2>2, <3>1
    <3>2. CASE i = m + 1 /\ j \in 1..m
      BY <2>0, <3>2
    <3>3. CASE i \in 1..m /\ j = m + 1
      BY <2>0, <3>3
    <3> QED
      BY <2>0, <3>1, <3>2, <3>3
  <2>5. new = old \cup {v}
    <3>1. 1..(m + 1) = 1..m \cup {m + 1}
      BY <2>0
    <3>2. {sccs'[i] : i \in 1..(m + 1)} = {sccs[i] : i \in 1..m} \cup {{v}}
      BY <2>0, <3>1
    <3> QED
      BY <2>0, <3>2
  <2>6. {b \in graph : Assigned(b)}' = {b \in graph : Assigned(b)}
    BY <1>6 DEF Assigned
  <2>7. onStack \cup old = {b \in graph : Assigned(b)}
    BY DEF IInv, SccsPartition
  <2>8. onStack' \cup new = {b \in graph : Assigned(b)}'
    <3> HIDE DEF old, new
    <3> QED
      BY <1>2, <1>7, <2>5, <2>6, <2>7
  <2> QED
    BY <2>3, <2>4, <2>8 DEF SccsPartition
<1>14. GraphDominated' /\ Idle' /\ NothingFoundWhenAllReachable'
  BY <1>6, SameGraph, SameLoops DEF Idle, LeaveConnect
<1> QED
  BY <1>8, <1>9, <1>10, <1>12, <1>13, <1>14 DEF IInv

\* A candidate comes from a component of one block that is not the header and
\* dominates it; the header dominates that block as well.
LEMMA CandidateUnreachable ==
  ASSUME IInv, phase = "loops", NEW i \in 1..Len(sccs), BackEdges(sccs[i]) # {}
  PROVE  Reachable # Block
<1>1. PICK b \in sccs[i] : b # header /\ Dominates(b, header)
  BY DEF BackEdges
<1>2. b \in graph
  <2>1. b \in onStack \cup UNION {sccs[j] : j \in 1..Len(sccs)}
    OBVIOUS
  <2> QED
    BY <2>1 DEF IInv, SccsPartition
<1>3. b \in Block /\ header \in Block /\ Dominates(header, b)
  BY <1>2 DEF IInv, GraphDominated, DominatedBlocks
<1>4. b \notin Reachable
  BY <1>1, <1>3, DominanceAntisymmetric DEF IInv
<1> QED
  BY <1>3, <1>4

\* The record createLoop makes is a Loop.
LEMMA NewLoopType ==
  ASSUME IInv, header \in Block, NEW scc \in SUBSET Block, BackEdges(scc) # {},
         NEW predecessor \in Pointer, predecessor # Garbage
  PROVE  NewLoop(scc, predecessor) \in Loop
<1>1. BackEdges(scc) \subseteq Block /\ (CHOOSE b \in BackEdges(scc) : TRUE) \in Block
  BY DEF BackEdges
<1>2. \A b \in Block : Successors(b) \subseteq Block
  BY SuccessorsAreBlocks DEF IInv
<1>3. ExitBlocks(scc) \subseteq Block /\ ExitingBlocks(scc) \subseteq Block
  BY <1>2 DEF ExitBlocks, ExitingBlocks
<1>4. PreHeader(predecessor) \in Block \cup {NoBlock}
  BY DEF PreHeader, Pointer
<1> DEFINE latch == IF Cardinality(BackEdges(scc)) = 1
                    THEN CHOOSE b \in BackEdges(scc) : TRUE ELSE NoBlock
<1>5. latch \in Block \cup {NoBlock}
  BY <1>1
<1> HIDE DEF latch
<1>6. NewLoop(scc, predecessor) =
        [header |-> header, blocks |-> scc, backEdges |-> BackEdges(scc),
         latch |-> latch, exitBlocks |-> ExitBlocks(scc),
         exitingBlocks |-> ExitingBlocks(scc), predecessor |-> predecessor,
         preHeader |-> PreHeader(predecessor)]
  BY DEF NewLoop, latch
<1> QED
  BY <1>1, <1>3, <1>4, <1>5, <1>6 DEF Loop

LEMMA LoopPredecessorType ==
  ASSUME NEW scc, NEW initial \in Pointer
  PROVE  LoopPredecessor(scc, initial) \in Pointer
<1> DEFINE outside == Predecessors(header) \ scc
<1>1. outside \subseteq Block
  BY DEF Predecessors
<1>2. outside # {} => (CHOOSE b \in outside : TRUE) \in Block
  BY <1>1
<1> HIDE DEF outside
<1>3. LoopPredecessor(scc, initial) =
        IF outside = {} THEN initial
        ELSE IF initial \notin outside \cup {NoBlock} \/ Cardinality(outside) > 1
             THEN NoBlock ELSE CHOOSE b \in outside : TRUE
  BY DEF LoopPredecessor, outside
<1> QED
  BY <1>2, <1>3 DEF Pointer

LEMMA CreateLoopStep == IInv /\ CreateLoop => IInv'
<1> SUFFICES ASSUME IInv, CreateLoop PROVE IInv'
  OBVIOUS
<1> DEFINE scc == sccs[created + 1]
<1>1. UNCHANGED <<succ, header, phase, tarjan, graph>> /\ phase = "loops"
  BY DEF CreateLoop, tarjan
<1>2. created + 1 \in 1..Len(sccs) /\ scc \in SUBSET Block /\ created' = created + 1
      /\ created \in Nat /\ header \in Block
  <2>1. created \in Nat /\ Len(sccs) \in Nat /\ created + 1 \in 1..Len(sccs)
    BY DEF CreateLoop, IInv, TypeOK
  <2> QED
    BY <1>1, <2>1, ElementOfSeq DEF CreateLoop, IInv, TypeOK, GraphDominated
<1>3. loops' \in Seq(Loop) /\ outcome' \in {outcome, "crashed"} /\ NothingFoundWhenAllReachable'
  <2>1. CASE UNCHANGED loops
    BY <1>1, <2>1, SameLoops DEF CreateLoop, IInv, TypeOK
  <2>2. CASE ~UNCHANGED loops
    <3>1. PICK initial \in Pointer :
            /\ BackEdges(scc) # {} /\ LoopPredecessor(scc, initial) # Garbage
            /\ loops' = Append(loops, NewLoop(scc, LoopPredecessor(scc, initial)))
            /\ UNCHANGED outcome
      BY <2>2 DEF CreateLoop
    <3>2. NewLoop(scc, LoopPredecessor(scc, initial)) \in Loop
      BY <1>2, <3>1, NewLoopType, LoopPredecessorType
    <3>3. loops \in Seq(Loop)
      BY DEF IInv, TypeOK
    <3>4. loops' \in Seq(Loop)
      BY <3>1, <3>2, <3>3
    <3>5. Reachable # Block
      BY <1>1, <1>2, <3>1, CandidateUnreachable
    <3>6. Reachable' = Reachable
      BY <1>1 DEF Reachable, ReachableAvoiding, Avoids, Successors
    <3> QED
      BY <3>1, <3>4, <3>5, <3>6 DEF NothingFoundWhenAllReachable
  <2> QED
    BY <2>1, <2>2
<1>4. TypeOK'
  BY <1>1, <1>2, <1>3 DEF IInv, TypeOK, tarjan
<1>5. GraphDominated' /\ Idle'
  <2>1. GraphDominated'
    BY <1>1, SameGraph
  <2> QED
    BY <1>1, <2>1 DEF IInv, Idle, tarjan
<1>6. UNCHANGED <<tarjan, succ>>
  BY <1>1
<1> QED
  BY <1>3, <1>4, <1>5, <1>6, SameTarjan DEF IInv

LEMMA VisitHeaderStep == IInv /\ VisitHeader => IInv'
<1> SUFFICES ASSUME IInv, VisitHeader PROVE IInv'
  OBVIOUS
<1>1. phase = "blocks" /\ UNCHANGED <<succ, created, loops, outcome>>
      /\ header \in Block
  BY DEF VisitHeader, IInv, TypeOK, Block
<1>2. CASE Cardinality(DominatedBlocks) > 1
  <2>1. /\ graph' = DominatedBlocks /\ phase' = "scc"
        /\ index' = 0 /\ indexMap' = EmptyMap /\ lowLinkMap' = EmptyMap
        /\ stack' = <<>> /\ onStack' = {} /\ sccs' = <<>> /\ calls' = <<>>
        /\ UNCHANGED header
    BY <1>2 DEF VisitHeader
  <2>2. TypeOK'
    BY <1>1, <2>1 DEF IInv, TypeOK, EmptyMap, DominatedBlocks
  <2>3. Len(stack') = 0 /\ Len(calls') = 0 /\ Len(sccs') = 0
    BY <2>1
  <2>4. StackIsPath' /\ LowIsIndex' /\ Indexed' /\ OnStack' /\ SccsAreSingletons' /\ Idle'
    BY <2>1, <2>3 DEF StackIsPath, LowIsIndex, Indexed, OnStack, SccsAreSingletons, Idle
  <2>5. SccsPartition'
    <3>1. \A b \in graph' : indexMap'[b] = NoIndex
      BY <2>1 DEF EmptyMap, DominatedBlocks
    <3>2. {b \in graph : Assigned(b)}' = {}
      BY <3>1 DEF Assigned
    <3> QED
      BY <2>1, <2>3, <3>2 DEF SccsPartition
  <2>6. GraphDominated'
    BY <1>1, <2>1 DEF GraphDominated, DominatedBlocks, Dominates, ReachableAvoiding,
       Avoids, Successors
  <2> QED
    BY <1>1, <2>2, <2>4, <2>5, <2>6, SameLoops DEF IInv
<1>3. CASE ~(Cardinality(DominatedBlocks) > 1)
  <2>1. header' = header + 1 /\ UNCHANGED <<phase, tarjan>>
    BY <1>3 DEF VisitHeader, NextHeader
  <2>2. TypeOK'
    BY <1>1, <2>1, LoopsAssumption DEF IInv, TypeOK, tarjan, Block
  <2>3. GraphDominated' /\ Idle'
    BY <1>1, <2>1 DEF GraphDominated, Idle, IInv, tarjan
  <2> QED
    BY <1>1, <2>1, <2>2, <2>3, SameTarjan, SameLoops DEF IInv
<1> QED
  BY <1>2, <1>3

LEMMA OtherSteps == IInv /\ (FinishRun \/ LeaveHeader \/ Analyzed) => IInv'
<1> SUFFICES ASSUME IInv, FinishRun \/ LeaveHeader \/ Analyzed PROVE IInv'
  OBVIOUS
<1>1. UNCHANGED <<succ, tarjan, loops, graph, calls>>
  BY DEF FinishRun, LeaveHeader, Analyzed, tarjan
<1>2. CASE FinishRun \/ Analyzed
  <2>1. TypeOK'
    BY <1>1, <1>2 DEF IInv, TypeOK, FinishRun, Analyzed, tarjan
  <2>2. GraphDominated' /\ Idle'
    <3>1. CASE FinishRun
      BY <1>1, <3>1, SameGraph DEF FinishRun, Idle
    <3>2. CASE Analyzed
      BY <1>1, <3>2 DEF Analyzed, GraphDominated, Idle, IInv
    <3> QED
      BY <1>2, <3>1, <3>2
  <2> QED
    BY <1>1, <2>1, <2>2, SameTarjan, SameLoops DEF IInv
<1>3. CASE LeaveHeader
  <2>1. header' = header + 1 /\ phase' = "blocks" /\ UNCHANGED <<created, outcome>>
        /\ header \in Block
    BY <1>3 DEF LeaveHeader, NextHeader, IInv, GraphDominated
  <2>2. calls = <<>>
    BY <1>3 DEF LeaveHeader, IInv, Idle
  <2>3. TypeOK'
    BY <1>1, <2>1, LoopsAssumption DEF IInv, TypeOK, tarjan, Block
  <2>4. GraphDominated' /\ Idle'
    BY <1>1, <2>1, <2>2 DEF GraphDominated, Idle
  <2> QED
    BY <1>1, <2>3, <2>4, SameTarjan, SameLoops DEF IInv
<1> QED
  BY <1>2, <1>3

LEMMA InvStep == IInv /\ [Next]_vars => IInv'
<1> SUFFICES ASSUME IInv, [Next]_vars PROVE IInv'
  OBVIOUS
<1>1. CASE Next
  BY <1>1, VisitHeaderStep, RunStep, VisitSuccessorStep, LeaveConnectStep,
     CreateLoopStep, OtherSteps DEF Next
<1>2. CASE UNCHANGED vars
  <2>1. UNCHANGED <<tarjan, succ, loops>> /\ UNCHANGED <<header, phase, graph, calls>>
    BY <1>2 DEF vars, tarjan
  <2>2. TypeOK'
    BY <1>2 DEF vars, IInv, TypeOK
  <2>3. GraphDominated'
    BY <2>1, SameGraph DEF GraphDominated
  <2>4. Idle'
    BY <2>1 DEF IInv, Idle
  <2>5. UNCHANGED <<tarjan, succ>> /\ UNCHANGED <<succ, loops>>
    BY <2>1
  <2> QED
    BY <2>2, <2>3, <2>4, <2>5, SameTarjan, SameLoops DEF IInv
<1> QED
  BY <1>1, <1>2

-----------------------------------------------------------------------------
(* Theorems *)

LEMMA Invariance == Spec => []IInv
<1> QED
  BY InvInit, InvStep, PTL DEF Spec

\* Every reachable state of the detector has its type.
THEOREM TypeCorrect == Spec => []TypeOK
<1>1. IInv => TypeOK
  BY DEF IInv
<1> QED
  BY <1>1, Invariance, PTL

\* The stack of Tarjan's algorithm and its membership set agree, and blocks lie
\* on it in the order in which their calls were made.
THEOREM StackDisciplined == Spec => []StackDiscipline
<1>1. IInv => StackDiscipline
  <2> SUFFICES ASSUME IInv PROVE StackDiscipline
    OBVIOUS
  <2>1. /\ onStack = {stack[i] : i \in 1..Len(stack)}
        /\ \A i, j \in 1..Len(stack) : i < j => indexMap[stack[i]] < indexMap[stack[j]]
    BY DEF IInv, OnStack, Indexed
  <2>2. Len(calls) = Len(stack) /\ \A i \in 1..Len(stack) : calls[i].block = stack[i]
    BY DEF IInv, StackIsPath
  <2> QED
    BY <2>1, <2>2 DEF StackDiscipline
<1> QED
  BY <1>1, Invariance, PTL

\* The components of a run are disjoint and hold exactly the blocks it has left.
THEOREM Partition == Spec => []SccsPartition
<1>1. IInv => SccsPartition
  BY DEF IInv
<1> QED
  BY <1>1, Invariance, PTL

\* Control gets from every block of a component to every other one of it,
\* inside the blocks the header dominates.
THEOREM Connected == Spec => []SccsAreConnected
<1>1. IInv => SccsAreConnected
  <2> SUFFICES ASSUME IInv, NEW i \in 1..Len(sccs), NEW a \in sccs[i], NEW b \in sccs[i]
               PROVE  Reaches(a, b)
    BY DEF SccsAreConnected
  <2>1. a = b
    BY DEF IInv, SccsAreSingletons
  <2> QED
    BY <2>1 DEF Reaches
<1> QED
  BY <1>1, Invariance, PTL

\* In no function whose blocks are all reachable does the code find a loop.
THEOREM NothingFound == Spec => []NothingFoundWhenAllReachable
<1>1. IInv => NothingFoundWhenAllReachable
  BY DEF IInv
<1> QED
  BY <1>1, Invariance, PTL
=============================================================================
