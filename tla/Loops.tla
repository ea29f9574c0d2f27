-------------------------------- MODULE Loops --------------------------------
(***************************************************************************)
(* Detection of loop candidates in a function (analysis/Loops.cpp).        *)
(*                                                                         *)
(* detectLoopCandidates takes the blocks of the function one after the     *)
(* other as a header, splits the blocks the header dominates into strongly *)
(* connected components with Tarjan's algorithm, and makes a loop of every *)
(* component in which something branches back.  The recursion of           *)
(* strongConnect is the sequence `calls`.  The function is chosen in the   *)
(* initial state: every control flow graph of Blocks blocks.               *)
(*                                                                         *)
(* The operations in the blocks (the has...Ops flags) are left out, and so *)
(* are analyzeLoopNests and analyzeInductionVariable, which nobody calls.  *)
(***************************************************************************)
EXTENDS Integers, Sequences, FiniteSets

CONSTANTS Blocks,    \* number of blocks of the function
          MaxSucc    \* bound on the successors of a terminator

ASSUME LoopsAssumption == Blocks \in Nat \ {0} /\ MaxSucc \in Nat

Block   == 1..Blocks
Entry   == 1
NoBlock == 0
NoIndex == -1

\* What a pointer holds that nobody has initialised: null, a block or neither.
Garbage == Blocks + 1
Pointer == Block \cup {NoBlock, Garbage}

VARIABLES
  succ,       \* block -> its successors, in the order of the terminator
  header,     \* the block detectLoopCandidates is at
  phase,      \* "blocks", "scc" or "loops": the loop it is in
  graph,      \* the blocks of the current StronglyConnectedComponent
  index, indexMap, lowLinkMap, stack, onStack, sccs,   \* its members
  calls,      \* the activations of strongConnect, outermost first
  created,    \* how many of sccs createLoop has seen
  loops,      \* the candidates
  outcome     \* "running", "done" or "crashed"

tarjan == <<graph, index, indexMap, lowLinkMap, stack, onStack, sccs, calls>>
vars == <<succ, header, phase, graph, index, indexMap, lowLinkMap, stack,
          onStack, sccs, calls, created, loops, outcome>>

Loop == [header : Block, blocks : SUBSET Block, backEdges : SUBSET Block,
         latch : Block \cup {NoBlock}, exitBlocks : SUBSET Block,
         exitingBlocks : SUBSET Block, predecessor : Pointer,
         preHeader : Block \cup {NoBlock}]

Activation == [block : Block, next : Nat]

\* The entry block of a region has no predecessors.
SuccLists == UNION {[1..k -> Block \ {Entry}] : k \in 0..MaxSucc}

TypeOK ==
  /\ succ \in [Block -> SuccLists]
  /\ header \in 1..(Blocks + 1)
  /\ phase \in {"blocks", "scc", "loops"}
  /\ graph \in SUBSET Block
  /\ index \in Nat
  /\ indexMap \in [Block -> Nat \cup {NoIndex}]
  /\ lowLinkMap \in [Block -> Nat \cup {NoIndex}]
  /\ stack \in Seq(Block) /\ onStack \in SUBSET Block
  /\ sccs \in Seq(SUBSET Block)
  /\ calls \in Seq(Activation)
  /\ created \in Nat
  /\ loops \in Seq(Loop)
  /\ outcome \in {"running", "done", "crashed"}

-----------------------------------------------------------------------------
(* Control flow *)

Successors(b) == {succ[b][i] : i \in DOMAIN succ[b]}
Predecessors(b) == {p \in Block : b \in Successors(p)}

\* The blocks control can reach without passing through block a; with NoBlock,
\* those it can reach at all.
Avoids(S, a) == \A b \in S : Successors(b) \ {a} \subseteq S
ReachableAvoiding(a) ==
  {b \in Block \ {a} :
     \A S \in SUBSET Block : (Entry # a => Entry \in S) /\ Avoids(S, a) => b \in S}
Reachable == ReachableAvoiding(NoBlock)

\* The dominator tree knows reachable blocks only: everything dominates a block
\* that is not reachable, which dominates itself and the other unreachable ones.
Dominates(a, b) == a = b \/ b \notin ReachableAvoiding(a)

-----------------------------------------------------------------------------
(* StronglyConnectedComponent *)

Min2(a, b) == IF a <= b THEN a ELSE b

\* DenseMap::insert leaves a key that is there alone.
MapInsert(map, b, value) ==
  IF map[b] = NoIndex THEN [map EXCEPT ![b] = value] ELSE map

\* DenseMap::lookup of a key that is not there is 0.
MapLookup(map, b) == IF map[b] = NoIndex THEN 0 ELSE map[b]

TopCall == calls[Len(calls)]

\* Mutant of NextIndex: ++index is missing.
SameIndex == index

NextIndex == index + 1

\* strongConnect(v) up to the loop over the successors of v.
Connect(v, callers) ==
  /\ indexMap' = MapInsert(indexMap, v, index)
  /\ lowLinkMap' = MapInsert(lowLinkMap, v, index)
  /\ index' = NextIndex
  /\ stack' = Append(stack, v)
  /\ onStack' = onStack \cup {v}
  /\ calls' = Append(callers, [block |-> v, next |-> 1])

\* run: the blocks of a SmallPtrSet come in no order of the program's.
Run ==
  /\ outcome = "running" /\ phase = "scc" /\ calls = <<>>
  /\ \E b \in graph : indexMap[b] = NoIndex /\ Connect(b, <<>>)
  /\ UNCHANGED <<succ, header, phase, graph, sccs, created, loops, outcome>>

\* One iteration of the loop over the successors.
VisitSuccessor ==
  /\ outcome = "running" /\ phase = "scc" /\ calls # <<>>
  /\ LET v == TopCall.block
         advanced == [calls EXCEPT ![Len(calls)].next = @ + 1]
     IN  /\ TopCall.next \in DOMAIN succ[v]
         /\ LET s == succ[v][TopCall.next]
            IN  \/ /\ s \in graph /\ indexMap[s] = NoIndex
                   /\ Connect(s, advanced)
                \/ /\ s \in graph /\ indexMap[s] # NoIndex /\ s \in onStack
                   /\ lowLinkMap' = MapInsert(lowLinkMap, v,
                        Min2(MapLookup(lowLinkMap, v), MapLookup(indexMap, s)))
                   /\ calls' = advanced
                   /\ UNCHANGED <<index, indexMap, stack, onStack>>
                \/ /\ s \notin graph \/ (indexMap[s] # NoIndex /\ s \notin onStack)
                   /\ calls' = advanced
                   /\ UNCHANGED <<index, indexMap, lowLinkMap, stack, onStack>>
  /\ UNCHANGED <<succ, header, phase, graph, sccs, created, loops, outcome>>

IsRoot(v) == MapLookup(lowLinkMap, v) = MapLookup(indexMap, v)

\* Mutant of PopFrom: the loop stops before v.
PopFromNext(v) == (CHOOSE i \in 1..Len(stack) : stack[i] = v) + 1

\* Mutant of PopFrom: the loop goes on until the stack is empty.
PopAll(v) == 1

\* The position of v on the stack: the do-while loop pops everything from there.
PopFrom(v) == CHOOSE i \in 1..Len(stack) : stack[i] = v

Popped(v) == {stack[i] : i \in PopFrom(v)..Len(stack)}

\* The end of strongConnect, and what its caller does after the return.
LeaveConnect ==
  /\ outcome = "running" /\ phase = "scc" /\ calls # <<>>
  /\ LET v == TopCall.block
         n == Len(calls) - 1
     IN  /\ TopCall.next \notin DOMAIN succ[v]
         /\ IF IsRoot(v)
            THEN /\ sccs' = Append(sccs, Popped(v))
                 /\ onStack' = onStack \ Popped(v)
                 /\ stack' = SubSeq(stack, 1, PopFrom(v) - 1)
            ELSE UNCHANGED <<sccs, onStack, stack>>
         /\ calls' = SubSeq(calls, 1, n)
         /\ lowLinkMap' =
              IF n = 0 THEN lowLinkMap
              ELSE MapInsert(lowLinkMap, calls[n].block,
                     Min2(MapLookup(lowLinkMap, calls[n].block),
                          MapLookup(lowLinkMap, v)))
  /\ UNCHANGED <<succ, header, phase, graph, index, indexMap, created, loops,
                 outcome>>

\* run returns, and detectLoopCandidates turns to the components.
FinishRun ==
  /\ outcome = "running" /\ phase = "scc" /\ calls = <<>>
  /\ \A b \in graph : indexMap[b] # NoIndex
  /\ phase' = "loops" /\ created' = 0
  /\ UNCHANGED <<succ, header, tarjan, loops, outcome>>

-----------------------------------------------------------------------------
(* Loop *)

\* Mutant of BackEdges: the blocks the header dominates.
BackEdgesDominated(scc) == {b \in scc : b # header /\ Dominates(header, b)}

BackEdges(scc) == {b \in scc : b # header /\ Dominates(b, header)}

ExitBlocks(scc) == UNION {Successors(b) : b \in scc} \ scc
ExitingBlocks(scc) == {b \in scc : Successors(b) \ scc # {}}

\* findLoopPredecessor: `out` is never initialised, so it starts as any
\* pointer, and the loop gives up at the first predecessor that differs.
LoopPredecessor(scc, initial) ==
  LET outside == Predecessors(header) \ scc
  IN  IF outside = {} THEN initial
      ELSE IF initial \notin outside \cup {NoBlock} \/ Cardinality(outside) > 1
           THEN NoBlock
           ELSE CHOOSE b \in outside : TRUE

\* findPreheader follows any pointer that is not null.
PreHeader(predecessor) ==
  IF predecessor # NoBlock /\ Len(succ[predecessor]) = 1 THEN predecessor ELSE NoBlock

NewLoop(scc, predecessor) ==
  [header |-> header, blocks |-> scc, backEdges |-> BackEdges(scc),
   latch |-> IF Cardinality(BackEdges(scc)) = 1
             THEN CHOOSE b \in BackEdges(scc) : TRUE ELSE NoBlock,
   exitBlocks |-> ExitBlocks(scc), exitingBlocks |-> ExitingBlocks(scc),
   predecessor |-> predecessor, preHeader |-> PreHeader(predecessor)]

\* A component without a back edge is no loop.
CreateLoop ==
  /\ outcome = "running" /\ phase = "loops" /\ created < Len(sccs)
  /\ created' = created + 1
  /\ LET scc == sccs[created + 1]
     IN  \/ BackEdges(scc) = {} /\ UNCHANGED <<loops, outcome>>
         \/ /\ BackEdges(scc) # {}
            /\ \E initial \in Pointer :
                 LET predecessor == LoopPredecessor(scc, initial)
                 IN  \/ predecessor = Garbage /\ outcome' = "crashed"
                        /\ UNCHANGED loops
                     \/ predecessor # Garbage /\ UNCHANGED outcome
                        /\ loops' = Append(loops, NewLoop(scc, predecessor))
  /\ UNCHANGED <<succ, header, phase, tarjan>>

-----------------------------------------------------------------------------
(* LoopDetector *)

EmptyMap == [b \in Block |-> NoIndex]

Init ==
  /\ succ \in [Block -> SuccLists]
  /\ header = Entry /\ phase = "blocks" /\ graph = {}
  /\ index = 0 /\ indexMap = EmptyMap /\ lowLinkMap = EmptyMap
  /\ stack = <<>> /\ onStack = {} /\ sccs = <<>> /\ calls = <<>>
  /\ created = 0 /\ loops = <<>> /\ outcome = "running"

DominatedBlocks == {b \in Block : Dominates(header, b)}

\* Mutant of NextHeader: the loop over the blocks starts again.
SameHeader == UNCHANGED header

NextHeader == header' = header + 1

\* A header that dominates another block gets a new
\* StronglyConnectedComponent; any other is passed over.
VisitHeader ==
  /\ outcome = "running" /\ phase = "blocks" /\ header <= Blocks
  /\ IF Cardinality(DominatedBlocks) > 1
     THEN /\ graph' = DominatedBlocks /\ phase' = "scc"
          /\ index' = 0 /\ indexMap' = EmptyMap /\ lowLinkMap' = EmptyMap
          /\ stack' = <<>> /\ onStack' = {} /\ sccs' = <<>> /\ calls' = <<>>
          /\ UNCHANGED header
     ELSE NextHeader /\ UNCHANGED <<phase, tarjan>>
  /\ UNCHANGED <<succ, created, loops, outcome>>

LeaveHeader ==
  /\ outcome = "running" /\ phase = "loops" /\ created = Len(sccs)
  /\ NextHeader /\ phase' = "blocks"
  /\ UNCHANGED <<succ, tarjan, created, loops, outcome>>

\* analyze returns; what it has found stays in the detector.
Analyzed ==
  /\ outcome = "running" /\ phase = "blocks" /\ header > Blocks
  /\ outcome' = "done"
  /\ UNCHANGED <<succ, header, phase, tarjan, created, loops>>

Next == \/ VisitHeader \/ Run \/ VisitSuccessor \/ LeaveConnect \/ FinishRun
        \/ CreateLoop \/ LeaveHeader \/ Analyzed

\* A sequential program: it goes on as long as it can.
Spec == Init /\ [][Next]_vars /\ WF_vars(Next)

-----------------------------------------------------------------------------
(* Properties *)

Assigned(b) == b \in graph /\ indexMap[b] # NoIndex

\* Every block strongConnect has entered is either on the stack or in one
\* component; the blocks of its unfinished calls are on the stack, in the order
\* of the calls; and indices grow along the stack.  When run returns, the
\* components are a partition of the dominated blocks.
StackDiscipline ==
  /\ onStack = {stack[i] : i \in 1..Len(stack)}
  /\ \A i, j \in 1..Len(stack) : i < j => indexMap[stack[i]] < indexMap[stack[j]]
  /\ \A i \in 1..Len(calls) : calls[i].block \in onStack
  /\ \A i, j \in 1..Len(calls) :
       i < j => indexMap[calls[i].block] < indexMap[calls[j].block]

SccsPartition ==
  /\ \A i \in 1..Len(sccs) : sccs[i] # {} /\ sccs[i] \cap onStack = {}
  /\ \A i, j \in 1..Len(sccs) : i # j => sccs[i] \cap sccs[j] = {}
  /\ onStack \cup UNION {sccs[i] : i \in 1..Len(sccs)} = {b \in graph : Assigned(b)}

\* Control gets from a to b without leaving the dominated blocks.
Reaches(a, b) ==
  \A S \in SUBSET graph :
    a \in S /\ (\A c \in S : Successors(c) \cap graph \subseteq S) => b \in S

\* Half of what makes the components strongly connected ones (Loops.cpp:24 and
\* 80-94): control gets from every block of a component to every other.
SccsAreConnected ==
  \A i \in 1..Len(sccs) : \A a, b \in sccs[i] : Reaches(a, b)

\* The other half, which fails: a successor on the stack is "in the current SCC"
\* (Loops.cpp:67), so blocks of one cycle end in one component.  A low link that
\* is there is never lowered (65, 75): every block is the root of a component.
CyclesStayTogether ==
  phase = "loops" =>
    \A a, b \in graph : Reaches(a, b) /\ Reaches(b, a)
      => \E i \in 1..Len(sccs) : {a, b} \subseteq sccs[i]

\* createLoop asks for blocks that dominate the header among those the header
\* dominates: in a function without unreachable blocks there are none, and no
\* loop is found, whatever the function does.
NothingFoundWhenAllReachable == Reachable = Block => loops = <<>>

\* The analysis ends on every function, with or without a result.
Terminates == <>(outcome \in {"done", "crashed"})
=============================================================================
