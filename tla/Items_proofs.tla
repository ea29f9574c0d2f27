----------------------------- MODULE Items_proofs -----------------------------
(***************************************************************************)
(* Proofs about module Items, for all crates: the scopes and the stack of  *)
(* modules nest (ScopesNesting), and a path of one name is resolved to     *)
(* what that name denotes (PathsReaching).                                 *)
(*                                                                         *)
(* The invariant Inv has six parts.  Ways: what is still to be done leads  *)
(* each of the four stacks back to its end, and what the ribs know belongs *)
(* to something around.  Ordered: nothing is gathered behind what is       *)
(* visited.  Kids: the lists of children have what belongs to them, and    *)
(* what they lack is still to be gathered.  Canonicals and Owned: tables   *)
(* have what they are for.  The last part is what is to be proved.         *)
(***************************************************************************)
EXTENDS Items, SequenceTheorems, TLAPS

\* What module Recursion is used with.
InOrderStep(x, before) ==
  [S \in SUBSET Nat |-> IF x \in S THEN Append(before[S], x) ELSE before[S]]
OfInOrder == INSTANCE Recursion WITH Base <- [S \in SUBSET Nat |-> <<>>], Step <- InOrderStep

-----------------------------------------------------------------------------
(* What is shown of all paths *)

\* The module in which the first name of a path is looked for: super is where
\* the path stands, and self is the crate.
BaseOf(x, path, i) ==
  IF \E j \in 1..(i - 1) : path[j] \in {"crate", "self"} THEN CrateNode ELSE ModuleOf(x)

\* A name after a keyword that the module does not have is passed over.
Counts(x, path, i) ==
  \/ i = 1 /\ path[1] \notin Keywords
  \/ i > 1 /\ path[i] \in Words /\ Named(BaseOf(x, path, i), path[i]) # {}
FirstName(x, path) ==
  {i \in DOMAIN path : Counts(x, path, i) /\ \A j \in 1..(i - 1) : ~Counts(x, path, j)}

Reaches(x, p, d) ==
  \E i \in FirstName(x, p) : \/ d \in Named(BaseOf(x, p, i), p[i])
                             \/ i = 1 /\ d \in InScope(x, p[1])

\* The strengthening of PathsOfOneNameReachIt to all paths: whatever names follow,
\* a path denotes what its first name does.
Reached(r) == r[2] > 0 /\ r[3] = 0 =>
  PathOf(r[1], r[2]) \in Seq(Known) /\ Reaches(r[1], PathOf(r[1], r[2]), r[5])
PathsReachTheirFirstName == \A r \in resolutions : Reached(r)

-----------------------------------------------------------------------------
(* Sequences of anything *)

IsSeq(s) == Len(s) \in Nat /\ s = [i \in 1..Len(s) |-> s[i]]

Values(s) == {s[i] : i \in 1..Len(s)}

LEMMA SeqIsSeq == ASSUME NEW S, NEW s \in Seq(S) PROVE IsSeq(s)
  BY LenProperties DEF IsSeq

LEMMA IsSeqOfValues == ASSUME NEW s, IsSeq(s) PROVE s \in Seq(Values(s))
<1>1. s \in [1..Len(s) -> Values(s)]
  BY DEF IsSeq, Values
<1> QED BY <1>1, SeqDef DEF IsSeq

LEMMA EmptyIsSeq == IsSeq(<<>>) /\ Len(<<>>) = 0
  BY SeqIsSeq, EmptySeq

LEMMA BuiltIsSeq ==
  ASSUME NEW n \in Nat, NEW s, s = [i \in 1..n |-> s[i]]
  PROVE  IsSeq(s) /\ Len(s) = n
<1>1. s \in [1..n -> {s[i] : i \in 1..n}]
  OBVIOUS
<1>2. s \in Seq({s[i] : i \in 1..n})
  BY <1>1, SeqDef
<1>3. Len(s) \in Nat /\ DOMAIN s = 1..Len(s)
  BY <1>2, LenProperties
<1>4. DOMAIN s = 1..n
  OBVIOUS
<1>5. Len(s) = n
  BY <1>3, <1>4
<1> QED BY <1>2, <1>5, SeqIsSeq

LEMMA ConcatIsSeq ==
  ASSUME NEW s, NEW t, IsSeq(s), IsSeq(t)
  PROVE  /\ IsSeq(s \o t) /\ Len(s \o t) = Len(s) + Len(t)
         /\ \A i \in 1..Len(s) : (s \o t)[i] = s[i]
         /\ \A i \in 1..Len(t) : (s \o t)[Len(s) + i] = t[i]
<1> DEFINE V == Values(s) \cup Values(t)
<1>1. s \in Seq(V) /\ t \in Seq(V)
  <2>1. Values(s) \subseteq V /\ Values(t) \subseteq V
    OBVIOUS
  <2> HIDE DEF V
  <2> QED BY <2>1, IsSeqOfValues, SeqMonotonic
<1> HIDE DEF V
<1>2. /\ s \o t \in Seq(V) /\ Len(s \o t) = Len(s) + Len(t)
      /\ \A i \in 1..(Len(s) + Len(t)) : (s \o t)[i] = IF i <= Len(s) THEN s[i] ELSE t[i - Len(s)]
  BY <1>1, ConcatProperties
<1>3. Len(s) \in Nat /\ Len(t) \in Nat
  BY DEF IsSeq
<1>4. ASSUME NEW i \in 1..Len(s) PROVE (s \o t)[i] = s[i]
  BY <1>2, <1>3
<1>5. ASSUME NEW i \in 1..Len(t) PROVE (s \o t)[Len(s) + i] = t[i]
  <2>1. /\ Len(s) + i \in 1..(Len(s) + Len(t)) /\ ~(Len(s) + i <= Len(s))
        /\ (Len(s) + i) - Len(s) = i
    BY <1>3
  <2> QED BY <1>2, <2>1
<1> QED BY <1>2, <1>4, <1>5, SeqIsSeq

LEMMA AppendIsSeq ==
  ASSUME NEW s, NEW e, IsSeq(s)
  PROVE  /\ IsSeq(Append(s, e)) /\ Len(Append(s, e)) = Len(s) + 1
         /\ Values(Append(s, e)) = Values(s) \cup {e}
<1> DEFINE V == Values(s) \cup {e}
           t == Append(s, e)
<1>1. Values(s) \subseteq V /\ e \in V
  OBVIOUS
<1>2. s \in Seq(V)
  <2> HIDE DEF V
  <2> QED BY <1>1, IsSeqOfValues, SeqMonotonic
<1>3. /\ t \in Seq(V) /\ Len(t) = Len(s) + 1
      /\ \A i \in 1..Len(s) : t[i] = s[i]
      /\ t[Len(s) + 1] = e
  <2> HIDE DEF V
  <2> QED BY <1>1, <1>2, AppendProperties
<1>4. Len(s) \in Nat
  BY DEF IsSeq
<1> HIDE DEF t
<1>5. Values(t) = V
  <2>1. ASSUME NEW v \in Values(s) PROVE v \in Values(t)
    <3>1. PICK i \in 1..Len(s) : v = s[i]
      BY DEF Values
    <3>2. i \in 1..Len(t) /\ t[i] = v
      BY <1>3, <1>4, <3>1
    <3> QED BY <3>2 DEF Values
  <2>2. e \in Values(t)
    <3>1. Len(s) + 1 \in 1..Len(t)
      BY <1>3, <1>4
    <3> QED BY <1>3, <3>1 DEF Values
  <2>3. ASSUME NEW v \in Values(t) PROVE v \in V
    <3>1. PICK i \in 1..Len(t) : v = t[i]
      BY DEF Values
    <3>2. i \in 1..Len(s) \/ i = Len(s) + 1
      BY <1>3, <1>4
    <3> QED BY <1>3, <3>1, <3>2 DEF Values
  <2> QED BY <2>1, <2>2, <2>3
<1> HIDE DEF V
<1>6. IsSeq(t)
  BY <1>3, SeqIsSeq
<1> QED BY <1>3, <1>5, <1>6 DEF t, V

LEMMA FrontOfSeq ==
  ASSUME NEW S, NEW s \in Seq(S), Len(s) > 0
  PROVE  SubSeq(s, 1, Len(s) - 1) \in Seq(S) /\ Len(SubSeq(s, 1, Len(s) - 1)) = Len(s) - 1
<1> DEFINE n == Len(s) - 1
<1>1. Len(s) \in Nat /\ n \in Nat /\ n \in Int /\ 1 \in Int
  OBVIOUS
<1>2. \A i \in 1..n : s[i] \in S
  BY <1>1, ElementOfSeq
<1>3. \A m \in Nat : m - 1 + 1 = m /\ (~(1 <= m) => m = 0)
  OBVIOUS
<1> HIDE DEF n
<1>4. SubSeq(s, 1, n) \in Seq(S) /\ Len(SubSeq(s, 1, n)) = IF 1 <= n THEN n - 1 + 1 ELSE 0
  BY <1>1, <1>2, SubSeqProperties
<1>5. n \in Nat
  BY <1>1
<1> QED BY <1>3, <1>4, <1>5 DEF n

LEMMA FrontIsSeq ==
  ASSUME NEW s, IsSeq(s), Len(s) > 0
  PROVE  IsSeq(SubSeq(s, 1, Len(s) - 1)) /\ Len(SubSeq(s, 1, Len(s) - 1)) = Len(s) - 1
<1>1. s \in Seq(Values(s))
  BY IsSeqOfValues
<1>2. /\ SubSeq(s, 1, Len(s) - 1) \in Seq(Values(s))
      /\ Len(SubSeq(s, 1, Len(s) - 1)) = Len(s) - 1
  BY <1>1, FrontOfSeq
<1> QED BY <1>2, SeqIsSeq

LEMMA TailIsSeq ==
  ASSUME NEW s, IsSeq(s), s # <<>>
  PROVE  /\ Len(s) > 0 /\ Head(s) = s[1]
         /\ IsSeq(Tail(s)) /\ Len(Tail(s)) = Len(s) - 1
         /\ \A i \in 1..(Len(s) - 1) : Tail(s)[i] = s[i + 1]
<1>1. s \in Seq(Values(s))
  BY IsSeqOfValues
<1>2. Tail(s) \in Seq(Values(s)) /\ Len(Tail(s)) = Len(s) - 1 /\ Head(s) = s[1] /\ Len(s) > 0
      /\ \A i \in 1..Len(Tail(s)) : Tail(s)[i] = s[i + 1]
  BY <1>1, EmptySeq, HeadTailProperties
<1> QED BY <1>2, SeqIsSeq

LEMMA ExceptIsSeq ==
  ASSUME NEW s, NEW i, NEW e, IsSeq(s)
  PROVE  IsSeq([s EXCEPT ![i] = e]) /\ Len([s EXCEPT ![i] = e]) = Len(s)
<1> DEFINE t == [s EXCEPT ![i] = e]
<1>1. s = [j \in 1..Len(s) |-> s[j]] /\ Len(s) \in Nat
  BY DEF IsSeq
<1>2. DOMAIN s = 1..Len(s)
  BY <1>1
<1>3. t = [j \in DOMAIN s |-> t[j]]
  OBVIOUS
<1>4. t = [j \in 1..Len(s) |-> t[j]]
  BY <1>2, <1>3
<1> HIDE DEF t
<1>5. IsSeq(t) /\ Len(t) = Len(s)
  BY <1>1, <1>4, BuiltIsSeq
<1> QED BY <1>5 DEF t

-----------------------------------------------------------------------------
(* The recursive operators of the model *)

LEMMA Induction ==
  ASSUME NEW P, 0 \in P, \A n \in P \cap Nat : n + 1 \in P
  PROVE  \A n \in Nat : n \in P
<1>1. P \cap Nat \in SUBSET Nat /\ 0 \in P \cap Nat /\ \A n \in P \cap Nat : n + 1 \in P \cap Nat
  OBVIOUS
<1>2. P \cap Nat = Nat
  BY <1>1, OfInOrder!SetInduction
<1> QED BY <1>2

LEMMA InOrderValues ==
  ASSUME NEW S, Len(crate) \in Nat
  PROVE  IsSeq(InOrder(S)) /\ Values(InOrder(S)) = S \cap 1..Len(crate)
<1> DEFINE N == Len(crate)
           T == S \cap Nat
<1>1. PICK f : f = [n \in Nat |-> IF n = 0 THEN [U \in SUBSET Nat |-> <<>>] ELSE InOrderStep(n, f[n - 1])]
  BY OfInOrder!RecursionHolds
<1> DEFINE Step(g, x) == IF x = 0 THEN <<>> ELSE IF x \in S THEN Append(g[x - 1], x) ELSE g[x - 1]
           g == [x \in 0..N |-> f[x][T]]
<1>2. ASSUME NEW x \in 0..N PROVE g[x] = Step(g, x)
  <2>1. T \in SUBSET Nat /\ x \in Nat
    OBVIOUS
  <2>2. CASE x = 0
    BY <1>1, <2>1, <2>2
  <2>3. CASE x # 0
    <3>1. x - 1 \in 0..N /\ x - 1 \in Nat
      BY <2>3
    <3>2. f[x] = InOrderStep(x, f[x - 1])
      BY <1>1, <2>3, <2>1, <3>1
    <3>3. f[x][T] = IF x \in T THEN Append(f[x - 1][T], x) ELSE f[x - 1][T]
      BY <2>1, <3>2 DEF InOrderStep
    <3> QED BY <2>1, <2>3, <3>1, <3>3
  <2> QED BY <2>2, <2>3
<1> DEFINE upTo == CHOOSE h : h = [x \in 0..N |-> Step(h, x)]
<1>3. g = [x \in 0..N |-> Step(g, x)]
  <2> HIDE DEF Step
  <2>1. g = [x \in 0..N |-> g[x]]
    OBVIOUS
  <2> HIDE DEF g
  <2> QED BY <1>2, <2>1
<1>4. upTo = [x \in 0..N |-> Step(upTo, x)]
  <2> HIDE DEF g, Step
  <2> QED BY <1>3
<1>5. InOrder(S) = upTo[N]
  BY DEF InOrder
<1> HIDE DEF upTo, g
<1> DEFINE Good(x) == IsSeq(upTo[x]) /\ Values(upTo[x]) = S \cap 1..x
           P == {x \in Nat : x \in 0..N => Good(x)}
<1>6. 0 \in P
  <2>1. upTo[0] = <<>>
    BY <1>4
  <2>2. Values(<<>>) = {} /\ 1..0 = {}
    BY EmptyIsSeq DEF Values
  <2>3. S \cap 1..0 = {}
    BY <2>2
  <2>4. Good(0)
    BY <2>1, <2>2, <2>3, EmptyIsSeq
  <2> QED BY <2>4
<1>7. ASSUME NEW x \in P \cap Nat PROVE x + 1 \in P
  <2>1. SUFFICES ASSUME x + 1 \in 0..N PROVE Good(x + 1)
    OBVIOUS
  <2>2. x \in 0..N /\ (x + 1) - 1 = x /\ x + 1 # 0
    BY <2>1
  <2>3. upTo[x + 1] = IF x + 1 \in S THEN Append(upTo[x], x + 1) ELSE upTo[x]
    BY <1>4, <2>1, <2>2
  <2>4. Good(x)
    BY <2>2
  <2>5. 1..(x + 1) = 1..x \cup {x + 1}
    BY <2>1
  <2>6. CASE x + 1 \in S
    <3>1. S \cap 1..(x + 1) = (S \cap 1..x) \cup {x + 1}
      BY <2>5, <2>6
    <3> QED BY <2>3, <2>4, <2>6, <3>1, AppendIsSeq
  <2>7. CASE x + 1 \notin S
    <3>1. S \cap 1..(x + 1) = S \cap 1..x
      BY <2>5, <2>7
    <3> QED BY <2>3, <2>4, <2>7, <3>1
  <2> QED BY <2>6, <2>7
<1> HIDE DEF P
<1>8. N \in P
  BY <1>6, <1>7, Induction
<1>9. Good(N)
  BY <1>8 DEF P
<1> QED BY <1>5, <1>9

LEMMA SeqsEqual ==
  ASSUME NEW s, NEW t, IsSeq(s), IsSeq(t), Len(s) = Len(t), \A i \in 1..Len(s) : s[i] = t[i]
  PROVE  s = t
BY DEF IsSeq

LEMMA AppendParts ==
  ASSUME NEW s, NEW e, IsSeq(s)
  PROVE  /\ \A i \in 1..Len(s) : Append(s, e)[i] = s[i]
         /\ Append(s, e)[Len(s) + 1] = e
         /\ Last(Append(s, e)) = e /\ Front(Append(s, e)) = s
<1> DEFINE V == Values(s) \cup {e}
           t == Append(s, e)
           u == SubSeq(t, 1, Len(t) - 1)
<1>1. s \in Seq(V) /\ e \in V
  <2>1. Values(s) \subseteq V /\ e \in V
    OBVIOUS
  <2> HIDE DEF V
  <2> QED BY <2>1, IsSeqOfValues, SeqMonotonic
<1> HIDE DEF V
<1>2. t \in Seq(V) /\ Len(t) = Len(s) + 1 /\ t[Len(s) + 1] = e /\ \A i \in 1..Len(s) : t[i] = s[i]
  BY <1>1, AppendProperties
<1>3. Len(s) \in Nat
  BY DEF IsSeq
<1> HIDE DEF t
<1>4. u = s
  <2>1. Len(t) - 1 = Len(s) /\ Len(t) > 0
    BY <1>2, <1>3
  <2>2. u \in Seq(V) /\ Len(u) = Len(s)
    BY <1>2, <2>1, FrontOfSeq
  <2>3. ASSUME NEW i \in 1..Len(s) PROVE u[i] = s[i]
    <3>1. Len(s) >= 1 /\ 1 + i - 1 = i
      BY <1>3
    <3>2. u[i] = t[i]
      BY <1>2, <1>3, <2>1, <3>1, SubSeqProperties
    <3> QED BY <1>2, <3>2
  <2> HIDE DEF u
  <2> QED BY <1>1, <2>2, <2>3, SeqEqual
<1> QED BY <1>2, <1>3, <1>4 DEF t, Last, Front

LEMMA FrontParts ==
  ASSUME NEW s, IsSeq(s), Len(s) > 0
  PROVE  /\ IsSeq(Front(s)) /\ Len(Front(s)) = Len(s) - 1
         /\ \A i \in 1..(Len(s) - 1) : Front(s)[i] = s[i]
         /\ Values(Front(s)) \subseteq Values(s)
<1> DEFINE t == SubSeq(s, 1, Len(s) - 1)
<1>1. IsSeq(t) /\ Len(t) = Len(s) - 1 /\ Len(s) \in Nat
  BY FrontIsSeq DEF IsSeq
<1>2. ASSUME NEW i \in 1..(Len(s) - 1) PROVE t[i] = s[i]
  <2>1. s \in Seq(Values(s))
    BY IsSeqOfValues
  <2>2. t = [j \in 1..(1 + (Len(s) - 1) - 1) |-> s[1 + j - 1]]
    BY <1>1
  <2>3. i \in 1..(1 + (Len(s) - 1) - 1) /\ 1 + i - 1 = i
    BY <1>1
  <2> HIDE DEF t
  <2> QED BY <2>2, <2>3
<1> HIDE DEF t
<1>3. Values(t) \subseteq Values(s)
  <2>1. SUFFICES ASSUME NEW i \in 1..Len(t) PROVE t[i] \in Values(s)
    BY DEF Values
  <2>2. i \in 1..(Len(s) - 1) /\ i \in 1..Len(s)
    BY <1>1
  <2> QED BY <1>2, <2>2 DEF Values
<1> QED BY <1>1, <1>2, <1>3 DEF t, Front

LEMMA LastIsValue ==
  ASSUME NEW s, IsSeq(s), Len(s) > 0
  PROVE  Last(s) \in Values(s)
<1>1. Len(s) \in 1..Len(s)
  BY DEF IsSeq
<1> QED BY <1>1 DEF Last, Values

LEMMA LenOfEmpty ==
  ASSUME NEW s, IsSeq(s)
  PROVE  s = <<>> <=> Len(s) = 0
<1>1. s \in Seq(Values(s))
  BY IsSeqOfValues
<1> QED BY <1>1, EmptySeq, EmptyIsSeq

\* A set of numbers has a smallest one.
LEMMA FirstIndexIn ==
  ASSUME NEW I \in SUBSET Nat, I # {}
  PROVE  FirstIndex(I) \in I
<1> DEFINE First(i) == i \in I /\ \A j \in I : i <= j
           P == {n \in Nat : (\E i \in I : i <= n) => \E i \in I : First(i)}
<1>1. 0 \in P
  <2>1. SUFFICES ASSUME NEW i \in I, i <= 0 PROVE First(i)
    OBVIOUS
  <2> QED BY <2>1
<1>2. ASSUME NEW n \in P \cap Nat PROVE n + 1 \in P
  <2>1. SUFFICES ASSUME NEW i \in I, i <= n + 1 PROVE \E k \in I : First(k)
    OBVIOUS
  <2>2. CASE \E k \in I : k <= n
    BY <2>2
  <2>3. CASE \A k \in I : ~(k <= n)
    <3>1. \A k \in I : i <= k
      BY <2>1, <2>3
    <3> QED BY <3>1
  <2> QED BY <2>2, <2>3
<1> HIDE DEF P
<1>3. \A n \in Nat : n \in P
  BY <1>1, <1>2, Induction
<1>4. PICK i \in I : First(i)
  <2>1. PICK k \in I : TRUE
    OBVIOUS
  <2>2. k \in P /\ k <= k
    BY <1>3
  <2> QED BY <2>2 DEF P
<1> QED BY <1>4 DEF FirstIndex

-----------------------------------------------------------------------------
(* The tree *)

Nodes == DOMAIN crate
Parent(x) == crate[x].parent
Around(x) == OpenAround(x) \cup {x}
IsModuleNode(x) == crate[x].kind \in {"Crate", "Module"}

LEMMA CrateShape ==
  ASSUME crate \in Crates
  PROVE  /\ Len(crate) \in Nat /\ Nodes = 1..Len(crate) /\ CrateNode \in Nodes
         /\ 2 * Len(crate) < MaxNode
         /\ crate[CrateNode].kind = "Crate" /\ Parent(CrateNode) = NoNode
         /\ \A id \in Nodes : /\ crate[id].types \in Seq(TypeOfItem)
                              /\ crate[id].param \in Words \cup {""}
<1>1. WellFormed(crate)
  BY ItemsAssumption
<1>2. crate \in Seq(ItemOfTree) /\ crate # <<>>
  BY <1>1 DEF WellFormed
<1>3. Len(crate) \in Nat /\ DOMAIN crate = 1..Len(crate) /\ crate \in [1..Len(crate) -> ItemOfTree]
  BY <1>2, LenProperties
<1>4. Len(crate) # 0
  BY <1>2, EmptySeq
<1>5. CrateNode \in Nodes
  BY <1>3, <1>4 DEF Nodes, CrateNode
<1>6. ASSUME NEW id \in Nodes PROVE crate[id].types \in Seq(TypeOfItem) /\ crate[id].param \in Words \cup {""}
  <2>1. crate[id] \in ItemOfTree
    BY <1>3 DEF Nodes
  <2> QED BY <2>1 DEF ItemOfTree
<1> QED BY <1>1, <1>3, <1>5, <1>6 DEF WellFormed, Nodes, Parent

LEMMA ItemShape ==
  ASSUME crate \in Crates, NEW x \in Items
  PROVE  /\ x \in Nodes /\ x \in Nat /\ Parent(x) \in Nodes /\ Parent(x) \in Nat /\ Parent(x) < x
         /\ crate[x].kind # "Crate" /\ crate[x].name \in Words \cup {""}
         /\ crate[x].name \in Known => crate[x].kind \notin Impls
<1>1. WellFormed(crate)
  BY ItemsAssumption
<1>2. Len(crate) \in Nat /\ Nodes = 1..Len(crate)
  BY CrateShape
<1>3. x \in 2..Len(crate) /\ x \in Nodes
  BY <1>2 DEF Items, Nodes, CrateNode
<1>4. /\ crate[x].parent \in 1..(x - 1) /\ crate[x].kind # "Crate" /\ crate[x].name \in Words \cup {""}
      /\ crate[x].kind \in Impls => crate[x].name = ""
  BY <1>1, <1>3 DEF WellFormed, Impls
<1>7. "" \notin Known
  BY ItemsAssumption DEF Known, Keywords
<1>5. ASSUME NEW n \in Nat, NEW y \in 2..n, NEW p \in 1..(y - 1)
      PROVE  p \in 1..n /\ p \in Nat /\ p < y /\ y \in Nat
  OBVIOUS
<1>6. Parent(x) \in 1..Len(crate) /\ Parent(x) \in Nat /\ Parent(x) < x /\ x \in Nat
  BY <1>2, <1>3, <1>4, <1>5 DEF Parent
<1> QED BY <1>2, <1>3, <1>4, <1>6, <1>7

\* How many types an item has.
LEMMA TypesShape ==
  ASSUME crate \in Crates, NEW x \in Items
  PROVE  /\ Len(crate[x].types) <= 10
         /\ crate[x].kind = "InherentImpl" => Len(crate[x].types) = 1
         /\ crate[x].kind = "TraitImpl" => Len(crate[x].types) = 2
<1>1. WellFormed(crate)
  BY ItemsAssumption
<1>2. x \in 2..Len(crate)
  <2>1. Len(crate) \in Nat /\ DOMAIN crate = 1..Len(crate)
    BY CrateShape DEF Nodes
  <2> QED BY <2>1 DEF Items, CrateNode
<1>3. /\ Len(crate[x].types) <= 10
      /\ crate[x].kind \in DOMAIN TypesOfImpl => Len(crate[x].types) = TypesOfImpl[crate[x].kind]
  BY <1>1, <1>2 DEF WellFormed
<1>4. /\ "InherentImpl" \in DOMAIN TypesOfImpl /\ TypesOfImpl["InherentImpl"] = 1
      /\ "TraitImpl" \in DOMAIN TypesOfImpl /\ TypesOfImpl["TraitImpl"] = 2
  BY DEF TypesOfImpl
<1> QED BY <1>3, <1>4

\* What holds of the crate, and of each item whose parent it holds of, holds of
\* all nodes.
LEMMA TreeInduction ==
  ASSUME crate \in Crates, NEW P, CrateNode \in P, \A x \in Items : Parent(x) \in P => x \in P
  PROVE  \A x \in Nodes : x \in P
<1> DEFINE Q == {n \in Nat : \A x \in Nodes : x <= n => x \in P}
<1>0. Len(crate) \in Nat /\ Nodes = 1..Len(crate)
  BY CrateShape
<1>1. 0 \in Q
  BY <1>0
<1>2. ASSUME NEW n \in Q \cap Nat PROVE n + 1 \in Q
  <2>1. SUFFICES ASSUME NEW x \in Nodes, x <= n + 1 PROVE x \in P
    OBVIOUS
  <2>2. CASE x = CrateNode
    BY <2>2
  <2>3. CASE x # CrateNode
    <3>1. x \in Items
      BY <2>3 DEF Items, Nodes
    <3>2. Parent(x) \in Nodes /\ Parent(x) \in Nat /\ Parent(x) < x /\ x \in Nat
      BY <3>1, ItemShape
    <3>3. Parent(x) <= n
      BY <2>1, <3>2
    <3>4. Parent(x) \in P
      BY <3>2, <3>3
    <3> QED BY <3>1, <3>4
  <2> QED BY <2>2, <2>3
<1> HIDE DEF Q
<1>3. Len(crate) \in Q
  BY <1>0, <1>1, <1>2, Induction
<1> QED BY <1>0, <1>3 DEF Q

\* Each node may be given a value by what its parent has.
StepsOf(V) == [Nodes -> [V -> V]]
TreeSolution(g, V, v0, F) ==
  g \in [Nodes -> V] /\ g[CrateNode] = v0 /\ \A x \in Items : g[x] = F[x][g[Parent(x)]]

LEMMA TreeRecursion ==
  ASSUME crate \in Crates, NEW V, NEW v0 \in V, NEW F \in StepsOf(V)
  PROVE  \E g : TreeSolution(g, V, v0, F)
<1> DEFINE N == Len(crate)
           Solves(g, m) == g[CrateNode] = v0 /\ \A x \in Items : x <= m => g[x] = F[x][g[Parent(x)]]
           P == {m \in Nat : \E g \in [Nodes -> V] : Solves(g, m)}
<1>0. N \in Nat /\ Nodes = 1..N /\ CrateNode \in Nodes /\ F \in [Nodes -> [V -> V]]
  BY CrateShape DEF StepsOf
<1>1. 0 \in P
  <2> DEFINE g == [x \in Nodes |-> v0]
  <2>1. g \in [Nodes -> V] /\ g[CrateNode] = v0
    BY <1>0
  <2>2. \A x \in Items : x \in 1..N
    BY <1>0 DEF Items, Nodes
  <2>3. Solves(g, 0)
    BY <2>1, <2>2, <1>0
  <2> QED BY <2>1, <2>3
<1>2. ASSUME NEW m \in P \cap Nat PROVE m + 1 \in P
  <2>1. PICK g \in [Nodes -> V] : Solves(g, m)
    OBVIOUS
  <2>2. CASE m + 1 \notin Items
    <3>1. ASSUME NEW x \in Items, x <= m + 1 PROVE x <= m
      <4>1. x \in Nat /\ x # m + 1 /\ m \in Nat
        BY <2>2, ItemShape
      <4> QED BY <3>1, <4>1
    <3>2. Solves(g, m + 1)
      BY <2>1, <3>1
    <3> QED BY <2>1, <3>2
  <2>3. CASE m + 1 \in Items
    <3> DEFINE y == m + 1
               v == F[y][g[Parent(y)]]
               h == [x \in Nodes |-> IF x = y THEN v ELSE g[x]]
    <3>1. y \in Nodes /\ Parent(y) \in Nodes /\ y # CrateNode
      BY <2>3, ItemShape DEF Items
    <3>2. v \in V
      BY <1>0, <2>1, <3>1
    <3> HIDE DEF v
    <3>3. h \in [Nodes -> V] /\ h[CrateNode] = v0
      BY <1>0, <2>1, <3>1, <3>2
    <3>4. ASSUME NEW x \in Items, x <= y PROVE h[x] = F[x][h[Parent(x)]]
      <4>1. x \in Nodes /\ Parent(x) \in Nodes /\ Parent(x) < x /\ Parent(x) \in Nat /\ x \in Nat
        BY ItemShape
      <4>2. Parent(x) # y
        BY <3>4, <4>1
      <4>3. h[Parent(x)] = g[Parent(x)]
        BY <4>1, <4>2
      <4>4. CASE x = y
        BY <3>1, <4>3, <4>4 DEF v
      <4>5. CASE x # y
        <5>1. x <= m
          BY <3>4, <4>1, <4>5
        <5>2. g[x] = F[x][g[Parent(x)]] /\ h[x] = g[x]
          BY <2>1, <4>1, <4>5, <5>1
        <5> QED BY <4>3, <5>2
      <4> QED BY <4>4, <4>5
    <3> HIDE DEF h
    <3>5. Solves(h, y)
      BY <3>3, <3>4
    <3> QED BY <3>3, <3>5
  <2> QED BY <2>2, <2>3
<1> HIDE DEF P
<1>3. N \in P
  BY <1>0, <1>1, <1>2, Induction
<1>4. PICK g \in [Nodes -> V] : Solves(g, N)
  BY <1>3 DEF P
<1>5. \A x \in Items : x <= N
  BY <1>0 DEF Items, Nodes
<1> QED BY <1>4, <1>5 DEF TreeSolution

\* The module an item belongs to.
LEMMA ModuleOfEquation ==
  ASSUME crate \in Crates, NEW y \in Items
  PROVE  ModuleOf(y) = IF IsModuleNode(Parent(y)) THEN Parent(y) ELSE ModuleOf(Parent(y))
<1> DEFINE Step(g, x) == LET up == crate[x].parent
                         IN  IF crate[up].kind \in {"Crate", "Module"} THEN up ELSE g[up]
           G == [x \in Nodes |-> [v \in Nodes |->
                   IF x \in Items /\ IsModuleNode(Parent(x)) THEN Parent(x) ELSE v]]
           of == CHOOSE g : g = [x \in Items |-> Step(g, x)]
<1>0. crate[CrateNode].kind = "Crate" /\ CrateNode \in Nodes
  BY CrateShape
<1>1. G \in [Nodes -> [Nodes -> Nodes]]
  <2>1. \A x \in Items : x \in Nodes /\ Parent(x) \in Nodes
    BY ItemShape
  <2> QED BY <2>1
<1> HIDE DEF G
<1>2. PICK g \in [Nodes -> Nodes] : g[CrateNode] = CrateNode /\ \A x \in Items : g[x] = G[x][g[Parent(x)]]
  <2>1. G \in StepsOf(Nodes)
    BY <1>1 DEF StepsOf
  <2>2. \E g : TreeSolution(g, Nodes, CrateNode, G)
    BY <1>0, <2>1, TreeRecursion
  <2> QED BY <2>2 DEF TreeSolution
<1> DEFINE h == [x \in Items |-> g[x]]
<1>3. ASSUME NEW x \in Items PROVE h[x] = Step(h, x)
  <2>1. Parent(x) \in Nodes /\ x \in Nodes
    BY ItemShape
  <2>2. g[Parent(x)] \in Nodes
    BY <2>1
  <2>3. G[x][g[Parent(x)]] = IF IsModuleNode(Parent(x)) THEN Parent(x) ELSE g[Parent(x)]
    BY <2>1, <2>2 DEF G
  <2>4. ~IsModuleNode(Parent(x)) => Parent(x) \in Items
    BY <1>0, <2>1 DEF IsModuleNode, Items, Nodes
  <2>5. h[x] = g[x] /\ (Parent(x) \in Items => h[Parent(x)] = g[Parent(x)])
    OBVIOUS
  <2> HIDE DEF h
  <2> QED BY <1>2, <2>3, <2>4, <2>5 DEF IsModuleNode, Parent
<1>4. h = [x \in Items |-> Step(h, x)]
  <2>1. h = [x \in Items |-> h[x]]
    OBVIOUS
  <2> HIDE DEF h, Step
  <2> QED BY <1>3, <2>1
<1>5. of = [x \in Items |-> Step(of, x)]
  <2> HIDE DEF h, Step
  <2> QED BY <1>4
<1>6. \A x : ModuleOf(x) = of[x]
  BY DEF ModuleOf
<1> HIDE DEF of
<1>7. of[y] = Step(of, y)
  <2> HIDE DEF Step
  <2> QED BY <1>5
<1> QED BY <1>6, <1>7 DEF IsModuleNode, Parent

\* What is open around an item.
LEMMA AroundEquation ==
  ASSUME crate \in Crates
  PROVE  /\ OpenAround(CrateNode) = {}
         /\ \A y \in Items : OpenAround(y) = Around(Parent(y))
<1> DEFINE Step(g, x) == IF x = CrateNode THEN {} ELSE {crate[x].parent} \cup g[crate[x].parent]
           V == SUBSET Nodes
           G == [x \in Nodes |-> [v \in V |-> IF x \in Items THEN {Parent(x)} \cup v ELSE v]]
           around == CHOOSE g : g = [x \in DOMAIN crate |-> Step(g, x)]
<1>0. CrateNode \in Nodes
  BY CrateShape
<1>1. G \in [Nodes -> [V -> V]] /\ {} \in V
  <2>1. \A x \in Items : x \in Nodes /\ Parent(x) \in Nodes
    BY ItemShape
  <2> QED BY <2>1
<1> HIDE DEF G
<1>2. PICK g \in [Nodes -> V] : g[CrateNode] = {} /\ \A x \in Items : g[x] = G[x][g[Parent(x)]]
  <2>1. G \in StepsOf(V)
    BY <1>1 DEF StepsOf
  <2> HIDE DEF V
  <2>2. \E g : TreeSolution(g, V, {}, G)
    BY <1>1, <2>1, TreeRecursion
  <2> QED BY <2>2 DEF TreeSolution
<1>3. ASSUME NEW x \in Nodes PROVE g[x] = Step(g, x)
  <2>1. CASE x = CrateNode
    BY <1>2, <2>1
  <2>2. CASE x # CrateNode
    <3>1. x \in Items
      BY <2>2 DEF Items, Nodes
    <3>2. Parent(x) \in Nodes
      BY <3>1, ItemShape
    <3>3. g[Parent(x)] \in V
      BY <3>2
    <3>4. G[x][g[Parent(x)]] = {Parent(x)} \cup g[Parent(x)]
      BY <3>1, <3>3 DEF G
    <3> QED BY <1>2, <2>2, <3>1, <3>4 DEF Parent
  <2> QED BY <2>1, <2>2
<1>4. g = [x \in DOMAIN crate |-> Step(g, x)]
  <2>1. g = [x \in DOMAIN crate |-> g[x]]
    BY DEF Nodes
  <2> HIDE DEF Step
  <2> QED BY <1>3, <2>1 DEF Nodes
<1>5. around = [x \in DOMAIN crate |-> Step(around, x)]
  <2> HIDE DEF Step
  <2> QED BY <1>4
<1>6. \A x : OpenAround(x) = around[x]
  BY DEF OpenAround
<1> HIDE DEF around
<1>7. \A x \in Nodes : around[x] = Step(around, x)
  <2> HIDE DEF Step
  <2> QED BY <1>5 DEF Nodes
<1>8. around[CrateNode] = {}
  BY <1>0, <1>7
<1>9. ASSUME NEW y \in Items PROVE around[y] = {Parent(y)} \cup around[Parent(y)]
  <2>1. y \in Nodes /\ y # CrateNode
    BY ItemShape DEF Items
  <2> QED BY <1>7, <2>1 DEF Parent
<1> QED BY <1>6, <1>8, <1>9 DEF Around

\* What the first pass reaches.
LEMMA GatheredEquation ==
  ASSUME crate \in Crates, NEW y \in Items
  PROVE  Gathered(y) <=> \/ IsModuleNode(Parent(y))
                         \/ InBody(y) /\ ~crate[y].deep /\ Gathered(Parent(y))
<1> DEFINE Step(g, x) == LET up == crate[x].parent
                         IN  \/ crate[up].kind \in {"Crate", "Module"}
                             \/ crate[up].kind \in Bodies /\ ~crate[x].deep /\ g[up]
           V == BOOLEAN
           G == [x \in Nodes |-> [v \in V |->
                   \/ crate[crate[x].parent].kind \in {"Crate", "Module"}
                   \/ crate[crate[x].parent].kind \in Bodies /\ ~crate[x].deep /\ v]]
           gathered == CHOOSE g : g = [x \in Items |-> Step(g, x)]
<1>0. crate[CrateNode].kind = "Crate"
  BY CrateShape
<1>1. G \in [Nodes -> [V -> V]] /\ FALSE \in V
  OBVIOUS
<1> HIDE DEF G
<1>2. PICK g \in [Nodes -> V] : \A x \in Items : g[x] = G[x][g[Parent(x)]]
  <2> DEFINE none == FALSE
  <2>1. none \in V /\ G \in StepsOf(V)
    BY <1>1 DEF StepsOf
  <2> HIDE DEF V, none
  <2>2. \E g : TreeSolution(g, V, none, G)
    BY <2>1, TreeRecursion
  <2> QED BY <2>2 DEF TreeSolution
<1> DEFINE h == [x \in Items |-> g[x]]
<1>3. ASSUME NEW x \in Items PROVE h[x] = Step(h, x)
  <2>1. Parent(x) \in Nodes /\ x \in Nodes
    BY ItemShape
  <2>2. g[Parent(x)] \in V
    BY <2>1
  <2>3. G[x][g[Parent(x)]] = (\/ crate[crate[x].parent].kind \in {"Crate", "Module"}
                              \/ crate[crate[x].parent].kind \in Bodies /\ ~crate[x].deep /\ g[Parent(x)])
    BY <2>1, <2>2 DEF G
  <2>4. crate[Parent(x)].kind \notin {"Crate", "Module"} => Parent(x) \in Items
    BY <1>0, <2>1 DEF Items, Nodes
  <2>5. h[x] = g[x] /\ (Parent(x) \in Items => h[Parent(x)] = g[Parent(x)])
    OBVIOUS
  <2>6. g[x] = G[x][g[Parent(x)]]
    BY <1>2
  <2> HIDE DEF h
  <2>7. CASE crate[crate[x].parent].kind \in {"Crate", "Module"}
    BY <2>3, <2>5, <2>6, <2>7
  <2>8. CASE crate[crate[x].parent].kind \notin {"Crate", "Module"}
    <3>1. h[crate[x].parent] = g[Parent(x)]
      BY <2>4, <2>5, <2>8 DEF Parent
    <3> QED BY <2>3, <2>5, <2>6, <3>1
  <2> QED BY <2>7, <2>8
<1>4. h = [x \in Items |-> Step(h, x)]
  <2>1. h = [x \in Items |-> h[x]]
    OBVIOUS
  <2> HIDE DEF h, Step
  <2> QED BY <1>3, <2>1
<1>5. gathered = [x \in Items |-> Step(gathered, x)]
  <2> HIDE DEF h, Step
  <2> QED BY <1>4
<1>6. \A x : Gathered(x) = gathered[x]
  BY DEF Gathered
<1> HIDE DEF gathered
<1>7. gathered[y] = Step(gathered, y)
  <2> HIDE DEF Step
  <2> QED BY <1>5
<1> QED BY <1>6, <1>7 DEF IsModuleNode, Parent, InBody

LEMMA ModuleIsNode ==
  ASSUME crate \in Crates, NEW x \in Items
  PROVE  ModuleOf(x) \in Nodes /\ IsModuleNode(ModuleOf(x))
<1> DEFINE Good(y) == ModuleOf(y) \in Nodes /\ IsModuleNode(ModuleOf(y))
           P == {y \in Nodes : y \in Items => Good(y)}
<1>1. CrateNode \in P
  BY CrateShape DEF Items
<1>2. ASSUME NEW y \in Items, Parent(y) \in P PROVE y \in P
  <2>1. y \in Nodes /\ Parent(y) \in Nodes
    BY ItemShape
  <2>2. IsModuleNode(CrateNode)
    BY CrateShape DEF IsModuleNode
  <2>3. ~IsModuleNode(Parent(y)) => Parent(y) \in Items
    BY <2>1, <2>2 DEF Items, Nodes
  <2>4. ModuleOf(y) = IF IsModuleNode(Parent(y)) THEN Parent(y) ELSE ModuleOf(Parent(y))
    BY ModuleOfEquation
  <2> QED BY <1>2, <2>1, <2>3, <2>4
<1>3. x \in Nodes
  BY ItemShape
<1> HIDE DEF P
<1>4. x \in P
  BY <1>1, <1>2, <1>3, TreeInduction
<1> QED BY <1>4 DEF P

\* An item and its parent.
LEMMA ChildFacts ==
  ASSUME crate \in Crates, NEW c \in Items
  PROVE  /\ OpenAround(c) = Around(Parent(c)) /\ Around(Parent(c)) \subseteq Around(c)
         /\ Parent(c) \in OpenAround(c)
         /\ IsModuleNode(Parent(c)) => ModuleOf(c) = Parent(c) /\ Gathered(c)
         /\ ~IsModuleNode(Parent(c)) => ModuleOf(c) = ModuleOf(Parent(c))
<1>1. OpenAround(c) = Around(Parent(c))
  BY AroundEquation
<1> QED BY <1>1, ModuleOfEquation, GatheredEquation DEF Around

LEMMA InsideValues ==
  ASSUME crate \in Crates, NEW id \in Nodes
  PROVE  IsSeq(Inside(id)) /\ Values(Inside(id)) = {x \in Items : Parent(x) = id}
<1> DEFINE S == {x \in DOMAIN crate : crate[x].parent = id}
<1>1. Inside(id) = InOrder(S)
  BY DEF Inside
<1>2. S \cap 1..Len(crate) = S /\ Len(crate) \in Nat
  BY CrateShape DEF Nodes
<1>3. S = {x \in Items : Parent(x) = id}
  <2>1. Parent(CrateNode) # id
    <3>1. id \in 1..Len(crate) /\ Len(crate) \in Nat /\ Parent(CrateNode) = NoNode
      BY CrateShape
    <3>2. id # 0
      BY <3>1
    <3> QED BY <3>1, <3>2 DEF NoNode
  <2> QED BY <2>1 DEF Items, Parent
<1> HIDE DEF S
<1>4. IsSeq(InOrder(S)) /\ Values(InOrder(S)) = S
  BY <1>2, InOrderValues
<1> QED BY <1>1, <1>3, <1>4

LEMMA ShallowValues ==
  ASSUME crate \in Crates, NEW id \in Nodes
  PROVE  /\ IsSeq(Shallow(id))
         /\ Values(Shallow(id)) = {x \in Items : Parent(x) = id /\ ~crate[x].deep}
<1> DEFINE S == {x \in DOMAIN crate : crate[x].parent = id /\ ~crate[x].deep}
<1>1. Shallow(id) = InOrder(S)
  BY DEF Shallow
<1>2. S \cap 1..Len(crate) = S /\ Len(crate) \in Nat
  BY CrateShape DEF Nodes
<1>3. S = {x \in Items : Parent(x) = id /\ ~crate[x].deep}
  <2>1. Parent(CrateNode) # id
    <3>1. id \in 1..Len(crate) /\ Len(crate) \in Nat /\ Parent(CrateNode) = NoNode
      BY CrateShape
    <3>2. id # 0
      BY <3>1
    <3> QED BY <3>1, <3>2 DEF NoNode
  <2> QED BY <2>1 DEF Items, Parent
<1> HIDE DEF S
<1>4. IsSeq(InOrder(S)) /\ Values(InOrder(S)) = S
  BY <1>2, InOrderValues
<1> QED BY <1>1, <1>3, <1>4

-----------------------------------------------------------------------------
(* What is still to be done leads from stack to stack *)

Dos == {"gather", "leaveGathered", "visibility", "argument", "type",
        "openRibs", "openBlock", "closeRibs", "openTypeRib", "closeTypeRib",
        "resolve", "enterModule", "leaveModule", "variant", "inTrait", "associated",
        "openTrait", "closeTrait", "inherent", "leaveImpl", "closeImpl", "ofTrait", "forType"}

\* The four stacks, and those of them that names are looked up in.
Stacked == {"names", "types", "labels", "modules"}
Scoped  == {"names", "types"}

\* What opens and what closes something on each, with all that it calls.
Ending == {"closeRibs", "ofTrait", "forType"}
Opens  == [names   |-> {"openRibs", "openBlock", "openTrait"},
           types   |-> {"openRibs", "openBlock", "openTrait", "openTypeRib"},
           labels  |-> {"openRibs", "openBlock"},
           modules |-> {"enterModule"}]
Closes == [names   |-> Ending \cup {"closeTrait", "inherent", "closeImpl"},
           types   |-> Ending \cup {"closeTrait", "inherent", "closeImpl", "closeTypeRib"},
           labels  |-> Ending,
           modules |-> {"leaveModule", "leaveGathered"}]

\* What a task leaves of a stack of nodes.
After(K, do, x, a) ==
  IF do \in Opens[K] THEN Append(a, x) ELSE IF do \in Closes[K] THEN Front(a) ELSE a

\* A stack on which something about a node may be done: whatever is open stands
\* around the node.
Sits(K, x, a) ==
  /\ IsSeq(a) /\ Len(a) > 0
  /\ K \in Scoped => Values(a) \subseteq Around(x)
  /\ K = "modules" => a[1] = CrateNode

\* The innermost module is that of the item, and entered twice if it is not the
\* crate.
InItsModule(K, x, a) ==
  K = "modules" => (Last(a) = ModuleOf(x)) /\ (Len(a) > 1 => a[Len(a) - 1] = Last(a))

Under(K, x, a) == K \in Scoped => Last(a) = x

\* An item is gathered in its module; without a prefix only in what it stands in,
\* or from a body.
Gathers(K, t, a) ==
  /\ K \in Scoped => Last(a) \in OpenAround(t.node)
  /\ K \in Scoped /\ <<>> \in {t.prefix, t.canonical} => Last(a) = Parent(t.node) \/ InBody(t.node)
  /\ K = "modules" => Last(a) = ModuleOf(t.node)

Visiting == {"resolve", "variant", "inTrait", "associated", "type", "argument",
             "inherent", "ofTrait", "forType"}
Fit(K, t, a) ==
  /\ Sits(K, t.node, a)
  /\ t.do \in Visiting => InItsModule(K, t.node, a)
  /\ t.do \in {"resolve", "inTrait", "associated"} => Under(K, Parent(t.node), a)
  /\ t.do \in {"inherent", "ofTrait", "forType"} => Under(K, t.node, a)
  /\ t.do = "gather" => Gathers(K, t, a)
  /\ t.do \in {"enterModule", "leaveModule", "leaveGathered"} => (K = "modules" => Last(a) = t.node)

\* The two parts of a type have its number.
IsTask(t) ==
  /\ t.do \in Dos /\ t.node \in Nodes /\ IsSeq(t.prefix) /\ IsSeq(t.canonical)
  /\ t.do \in {"type", "argument"} => t.nth \in 1..Len(crate[t.node].types) /\ t.node \in Items
  /\ t.do \in {"gather", "resolve", "inTrait", "associated", "variant",
               "inherent", "ofTrait", "forType"} => t.node \in Items
  /\ t.do = "gather" => Gathered(t.node)

Goes(K, t, a, b) ==
  /\ IsTask(t) /\ Fit(K, t, a)
  /\ b = After(K, t.do, t.node, a) /\ IsSeq(b) /\ Len(b) > 0

Along(K, s, f) == \A i \in 1..Len(s) : Goes(K, s[i], f[i - 1], f[i])

Leads(K, s, a, b) == IsSeq(s) /\ \E f : f[0] = a /\ f[Len(s)] = b /\ Along(K, s, f)

LEMMA LeadsLevel ==
  ASSUME NEW K, NEW s, NEW a, IsSeq(s), \A i \in 1..Len(s) : Goes(K, s[i], a, a)
  PROVE  Leads(K, s, a, a)
<1> DEFINE f == [i \in 0..Len(s) |-> a]
<1>1. Len(s) \in Nat
  BY DEF IsSeq
<1>2. f[0] = a /\ f[Len(s)] = a
  BY <1>1
<1>3. ASSUME NEW i \in 1..Len(s) PROVE Goes(K, s[i], f[i - 1], f[i])
  <2>1. i \in 0..Len(s) /\ i - 1 \in 0..Len(s)
    BY <1>1
  <2>2. f[i - 1] = a /\ f[i] = a
    BY <2>1
  <2> HIDE DEF f
  <2> QED BY <2>2
<1> HIDE DEF f
<1>4. Along(K, s, f)
  BY <1>3 DEF Along
<1> QED BY <1>2, <1>4 DEF Leads

LEMMA LeadsEmpty ==
  ASSUME NEW K, NEW a
  PROVE  Leads(K, <<>>, a, a)
<1>1. \A i \in 1..Len(<<>>) : FALSE
  BY EmptyIsSeq
<1> QED BY <1>1, EmptyIsSeq, LeadsLevel

LEMMA LeadsOne ==
  ASSUME NEW K, NEW t, NEW a, NEW b, Goes(K, t, a, b)
  PROVE  Leads(K, <<t>>, a, b)
<1> DEFINE f == [i \in 0..1 |-> IF i = 0 THEN a ELSE b]
<1>1. <<t>> \in Seq({t}) /\ Len(<<t>>) = 1 /\ <<t>>[1] = t
  OBVIOUS
<1>2. IsSeq(<<t>>)
  BY <1>1, SeqIsSeq
<1>3. f[0] = a /\ f[Len(<<t>>)] = b
  BY <1>1
<1>4. Along(K, <<t>>, f)
  <2>1. SUFFICES ASSUME NEW i \in 1..Len(<<t>>) PROVE Goes(K, <<t>>[i], f[i - 1], f[i])
    BY DEF Along
  <2>2. i = 1 /\ i - 1 = 0
    BY <1>1
  <2>3. f[1] = b /\ f[0] = a
    OBVIOUS
  <2>4. f[i] = b /\ f[i - 1] = a /\ <<t>>[i] = t
    <3> HIDE DEF f
    <3> QED BY <1>1, <2>2, <2>3
  <2> HIDE DEF f
  <2> QED BY <2>4
<1> HIDE DEF f
<1> QED BY <1>2, <1>3, <1>4 DEF Leads

LEMMA LeadsConcat ==
  ASSUME NEW K, NEW s, NEW t, NEW a, NEW b, NEW c, Leads(K, s, a, b), Leads(K, t, b, c)
  PROVE  Leads(K, s \o t, a, c)
<1> DEFINE m == Len(s)
           n == Len(t)
<1>1. PICK f : f[0] = a /\ f[m] = b /\ Along(K, s, f)
  BY DEF Leads
<1>2. PICK g : g[0] = b /\ g[n] = c /\ Along(K, t, g)
  BY DEF Leads
<1>3. /\ m \in Nat /\ n \in Nat /\ IsSeq(s \o t) /\ Len(s \o t) = m + n
      /\ \A i \in 1..m : (s \o t)[i] = s[i]
      /\ \A i \in 1..n : (s \o t)[m + i] = t[i]
  <2>1. IsSeq(s) /\ IsSeq(t)
    BY DEF Leads
  <2>2. m \in Nat /\ n \in Nat
    BY <2>1 DEF IsSeq
  <2> QED BY <2>1, <2>2, ConcatIsSeq
<1> DEFINE h == [i \in 0..(m + n) |-> IF i <= m THEN f[i] ELSE g[i - m]]
<1> HIDE DEF m, n
<1>4. h[0] = a
  BY <1>1, <1>3
<1>5. h[m + n] = c
  <2>1. CASE n = 0
    BY <1>1, <1>2, <1>3, <2>1
  <2>2. CASE n # 0
    BY <1>2, <1>3, <2>2
  <2> QED BY <2>1, <2>2
<1>6. ASSUME NEW i \in 1..(m + n) PROVE Goes(K, (s \o t)[i], h[i - 1], h[i])
  <2>1. CASE i <= m
    <3>1. i \in 1..m /\ i \in 0..(m + n) /\ i - 1 \in 0..(m + n) /\ i - 1 <= m
      BY <1>3, <2>1
    <3>2. h[i] = f[i] /\ h[i - 1] = f[i - 1]
      BY <2>1, <3>1
    <3>3. Goes(K, s[i], f[i - 1], f[i])
      BY <1>1, <3>1 DEF Along, m
    <3> HIDE DEF h
    <3> QED BY <1>3, <3>1, <3>2, <3>3
  <2>2. CASE ~(i <= m)
    <3> DEFINE j == i - m
    <3>1. j \in 1..n /\ i = m + j /\ i \in 0..(m + n) /\ i - 1 \in 0..(m + n)
      BY <1>3, <2>2
    <3>2. h[i] = g[j]
      BY <2>2, <3>1
    <3>3. h[i - 1] = g[j - 1]
      <4>1. CASE j = 1
        <5>1. i - 1 = m /\ m <= m /\ j - 1 = 0
          BY <1>3, <3>1, <4>1
        <5> QED BY <1>1, <1>2, <3>1, <5>1
      <4>2. CASE j # 1
        <5>1. ~(i - 1 <= m) /\ (i - 1) - m = j - 1
          BY <1>3, <3>1, <4>2
        <5> QED BY <3>1, <5>1
      <4> QED BY <4>1, <4>2
    <3> HIDE DEF j, h
    <3>4. Goes(K, t[j], g[j - 1], g[j])
      BY <1>2, <3>1 DEF Along, n
    <3>5. (s \o t)[i] = t[j]
      BY <1>3, <3>1
    <3> QED BY <3>2, <3>3, <3>4, <3>5
  <2> QED BY <2>1, <2>2
<1> HIDE DEF h
<1>7. Along(K, s \o t, h)
  BY <1>3, <1>6 DEF Along
<1> QED BY <1>3, <1>4, <1>5, <1>7 DEF Leads

LEMMA LeadsTail ==
  ASSUME NEW K, NEW s, NEW a, NEW b, Leads(K, s, a, b), s # <<>>
  PROVE  \E c : Goes(K, Head(s), a, c) /\ Leads(K, Tail(s), c, b)
<1>1. PICK f : f[0] = a /\ f[Len(s)] = b /\ Along(K, s, f)
  BY DEF Leads
<1>2. /\ Len(s) > 0 /\ Head(s) = s[1] /\ IsSeq(Tail(s)) /\ Len(Tail(s)) = Len(s) - 1
      /\ \A i \in 1..(Len(s) - 1) : Tail(s)[i] = s[i + 1]
  BY TailIsSeq DEF Leads
<1> DEFINE n == Len(s) - 1
<1>3. n \in Nat /\ Len(s) = n + 1 /\ Len(Tail(s)) = n
  BY <1>2 DEF Leads, IsSeq
<1>4. \A i \in 1..n : Tail(s)[i] = s[i + 1]
  BY <1>2
<1> HIDE DEF n
<1> DEFINE g == [i \in 0..n |-> f[i + 1]]
<1>5. g[n] = b /\ g[0] = f[1]
  BY <1>1, <1>3
<1>6. Goes(K, Head(s), a, f[1])
  <2>1. 1 \in 1..Len(s) /\ 1 - 1 = 0
    BY <1>3
  <2>2. Goes(K, s[1], f[1 - 1], f[1])
    BY <1>1, <2>1 DEF Along
  <2> QED BY <1>1, <1>2, <2>1, <2>2
<1>7. ASSUME NEW i \in 1..n PROVE Goes(K, Tail(s)[i], g[i - 1], g[i])
  <2>1. /\ i + 1 \in 1..Len(s) /\ (i + 1) - 1 = i /\ i \in 0..n /\ i - 1 \in 0..n
        /\ (i - 1) + 1 = i
    BY <1>3
  <2>2. Goes(K, s[i + 1], f[(i + 1) - 1], f[i + 1])
    BY <1>1, <2>1 DEF Along
  <2>3. g[i] = f[i + 1] /\ g[i - 1] = f[i]
    BY <2>1
  <2> HIDE DEF g
  <2> QED BY <1>4, <2>1, <2>2, <2>3
<1> HIDE DEF g
<1>8. Along(K, Tail(s), g)
  BY <1>3, <1>7 DEF Along
<1>9. Leads(K, Tail(s), f[1], b)
  BY <1>2, <1>3, <1>5, <1>8 DEF Leads
<1> QED BY <1>6, <1>9

LEMMA LeadsPair ==
  ASSUME NEW K, NEW t, NEW u, NEW a, NEW b, NEW c, Goes(K, t, a, b), Goes(K, u, b, c)
  PROVE  Leads(K, <<t, u>>, a, c)
<1>1. Leads(K, <<t>>, a, b) /\ Leads(K, <<u>>, b, c)
  BY LeadsOne
<1>2. <<t>> \o <<u>> = <<t, u>>
  <2> DEFINE S == {t, u}
             l == <<t>> \o <<u>>
             r == <<t, u>>
  <2>1. <<t>> \in Seq(S) /\ <<u>> \in Seq(S) /\ r \in Seq(S)
    OBVIOUS
  <2>2. Len(<<t>>) = 1 /\ Len(<<u>>) = 1 /\ Len(r) = 2
    OBVIOUS
  <2>3. l \in Seq(S) /\ Len(l) = 2 /\ l[1] = t /\ l[2] = u
    BY <2>1, <2>2, ConcatProperties
  <2>4. r[1] = t /\ r[2] = u
    OBVIOUS
  <2>5. \A i \in 1..2 : i = 1 \/ i = 2
    OBVIOUS
  <2> HIDE DEF l, r
  <2> QED BY <2>1, <2>2, <2>3, <2>4, <2>5, SeqEqual DEF l, r
<1> QED BY <1>1, <1>2, LeadsConcat

LEMMA LeadsTriple ==
  ASSUME NEW K, NEW t, NEW u, NEW v, NEW a, NEW b, NEW c, NEW d,
         Goes(K, t, a, b), Goes(K, u, b, c), Goes(K, v, c, d)
  PROVE  Leads(K, <<t, u, v>>, a, d)
<1>1. Leads(K, <<t, u>>, a, c) /\ Leads(K, <<v>>, c, d)
  BY LeadsOne, LeadsPair
<1>2. <<t, u>> \o <<v>> = <<t, u, v>>
  <2> DEFINE S == {t, u, v}
             l == <<t, u>> \o <<v>>
             r == <<t, u, v>>
  <2>1. <<t, u>> \in Seq(S) /\ <<v>> \in Seq(S) /\ r \in Seq(S)
    OBVIOUS
  <2>2. Len(<<t, u>>) = 2 /\ Len(<<v>>) = 1 /\ Len(r) = 3
    OBVIOUS
  <2>3. l \in Seq(S) /\ Len(l) = 3 /\ l[1] = t /\ l[2] = u /\ l[3] = v
    BY <2>1, <2>2, ConcatProperties
  <2>4. r[1] = t /\ r[2] = u /\ r[3] = v
    OBVIOUS
  <2>5. \A i \in 1..3 : i = 1 \/ i = 2 \/ i = 3
    OBVIOUS
  <2> HIDE DEF l, r
  <2> QED BY <2>1, <2>2, <2>3, <2>4, <2>5, SeqEqual DEF l, r
<1> QED BY <1>1, <1>2, LeadsConcat

\* How sequences are put together.
LEMMA FlattenParts ==
  ASSUME NEW seqs, IsSeq(seqs)
  PROVE  /\ Len(seqs) = 0 => FlattenSeq(seqs) = <<>>
         /\ Len(seqs) # 0 => \E g :
              /\ FlattenSeq(seqs) = g[Len(seqs)]
              /\ \A i \in 1..Len(seqs) : g[i] = IF i = 1 THEN seqs[i] ELSE g[i - 1] \o seqs[i]
<1> DEFINE Solves(g, m) == g = [i \in 1..m |-> IF i = 1 THEN seqs[i] ELSE g[i - 1] \o seqs[i]]
           N == Len(seqs)
<1>0. N \in Nat
  BY DEF IsSeq
<1> HIDE DEF N
<1> DEFINE P == {m \in Nat : \E g : Solves(g, m)}
<1>2. 0 \in P
  <2>1. Solves([i \in 1..0 |-> <<>>], 0)
    OBVIOUS
  <2> QED BY <2>1
<1>3. ASSUME NEW m \in P \cap Nat PROVE m + 1 \in P
  <2>1. PICK g : Solves(g, m)
    OBVIOUS
  <2> DEFINE h == [i \in 1..(m + 1) |-> IF i <= m THEN g[i] ELSE IF i = 1 THEN seqs[i] ELSE g[m] \o seqs[i]]
  <2>2. ASSUME NEW i \in 1..(m + 1) PROVE h[i] = IF i = 1 THEN seqs[i] ELSE h[i - 1] \o seqs[i]
    <3>1. CASE i = 1 /\ i <= m
      <4>1. i \in 1..m
        BY <3>1
      <4>2. g[i] = seqs[i]
        BY <2>1, <3>1, <4>1
      <4> QED BY <3>1, <4>2
    <3>2. CASE i # 1 /\ i <= m
      <4>1. i \in 1..m /\ i - 1 \in 1..(m + 1) /\ i - 1 <= m
        BY <3>2
      <4>2. g[i] = g[i - 1] \o seqs[i]
        BY <2>1, <3>2, <4>1
      <4> QED BY <3>2, <4>1, <4>2
    <3>3. CASE i = m + 1
      <4>1. i - 1 = m /\ ~(i <= m) /\ (i # 1 => m \in 1..(m + 1) /\ m <= m)
        BY <3>3
      <4> QED BY <4>1
    <3> QED BY <3>1, <3>2, <3>3
  <2>3. h = [i \in 1..(m + 1) |-> h[i]]
    OBVIOUS
  <2> HIDE DEF h
  <2>4. Solves(h, m + 1)
    BY <2>2, <2>3
  <2>5. m + 1 \in Nat
    OBVIOUS
  <2> HIDE DEF Solves
  <2> QED BY <2>4, <2>5
<1> HIDE DEF P
<1>4. N \in P
  BY <1>0, <1>2, <1>3, Induction
<1>5. CASE N = 0
  <2>1. seqs = <<>>
    <3>1. seqs \in Seq(Values(seqs)) /\ Len(seqs) = 0
      BY <1>5, IsSeqOfValues DEF N
    <3> QED BY <3>1, EmptySeq
  <2>2. FlattenSeq(seqs) = <<>>
    BY <1>5, <2>1 DEF FlattenSeq, N
  <2> QED BY <1>5, <2>2 DEF N
<1>6. CASE N # 0
  <2> DEFINE flat == CHOOSE g : Solves(g, N)
  <2>1. Solves(flat, N)
    <3>1. \E g : Solves(g, N)
      BY <1>4 DEF P
    <3> HIDE DEF Solves
    <3> QED BY <3>1
  <2>2. FlattenSeq(seqs) = flat[N]
    BY <1>6 DEF FlattenSeq, N
  <2> HIDE DEF flat
  <2>3. \A i \in 1..N : flat[i] = IF i = 1 THEN seqs[i] ELSE flat[i - 1] \o seqs[i]
    BY <2>1
  <2> HIDE DEF Solves
  <2> QED BY <1>6, <2>2, <2>3 DEF N
<1> QED BY <1>5, <1>6

LEMMA LeadsFlatten ==
  ASSUME NEW K, NEW seqs, NEW a, IsSeq(seqs),
         \A i \in 1..Len(seqs) : Leads(K, seqs[i], a, a)
  PROVE  Leads(K, FlattenSeq(seqs), a, a)
<1> DEFINE N == Len(seqs)
<1>1. N \in Nat
  BY DEF IsSeq
<1>2. \A i \in 1..N : Leads(K, seqs[i], a, a)
  OBVIOUS
<1>3. /\ N = 0 => FlattenSeq(seqs) = <<>>
      /\ N # 0 => \E g :
              /\ FlattenSeq(seqs) = g[N]
              /\ \A i \in 1..N : g[i] = IF i = 1 THEN seqs[i] ELSE g[i - 1] \o seqs[i]
  BY FlattenParts
<1> HIDE DEF N
<1>4. CASE N = 0
  BY <1>3, <1>4, LeadsEmpty
<1>5. CASE N # 0
  <2>1. PICK g : /\ FlattenSeq(seqs) = g[N]
                 /\ \A i \in 1..N : g[i] = IF i = 1 THEN seqs[i] ELSE g[i - 1] \o seqs[i]
    BY <1>3, <1>5
  <2> DEFINE Q == {i \in Nat : i \in 1..N => Leads(K, g[i], a, a)}
  <2>2. 0 \in Q
    BY <1>1
  <2>3. ASSUME NEW i \in Q \cap Nat PROVE i + 1 \in Q
    <3>1. SUFFICES ASSUME i + 1 \in 1..N PROVE Leads(K, g[i + 1], a, a)
      OBVIOUS
    <3>2. Leads(K, seqs[i + 1], a, a)
      BY <1>2, <3>1
    <3>3. CASE i = 0
      BY <2>1, <3>1, <3>2, <3>3
    <3>4. CASE i # 0
      <4>1. i \in 1..N /\ (i + 1) - 1 = i /\ i + 1 # 1
        BY <1>1, <3>1, <3>4
      <4>2. g[i + 1] = g[i] \o seqs[i + 1]
        BY <2>1, <3>1, <4>1
      <4> QED BY <3>2, <4>1, <4>2, LeadsConcat
    <3> QED BY <3>3, <3>4
  <2> HIDE DEF Q
  <2>4. N \in Q
    BY <1>1, <2>2, <2>3, Induction
  <2>5. Leads(K, g[N], a, a)
    BY <1>1, <1>5, <2>4 DEF Q
  <2> QED BY <2>1, <2>5
<1> QED BY <1>4, <1>5

-----------------------------------------------------------------------------
(* The sequences of calls the handlers make *)

\* What leaves the stacks alone, and what opens something together with what
\* closes it.
Level == {"gather", "visibility", "argument", "type", "resolve", "variant", "inTrait",
          "associated", "leaveImpl"}
Openers == {"openRibs", "openBlock", "openTypeRib", "openTrait"}
Closer == [o \in Openers |-> IF o = "openTypeRib" THEN "closeTypeRib"
                             ELSE IF o = "openTrait" THEN "closeTrait" ELSE "closeRibs"]

LEMMA LevelEffect ==
  ASSUME NEW K \in Stacked, NEW do \in Level, NEW x, NEW a
  PROVE  After(K, do, x, a) = a
<1>1. do \notin Opens[K] /\ do \notin Closes[K]
  BY DEF Level, Stacked, Opens, Closes, Ending
<1> QED BY <1>1 DEF After

LEMMA OpenersEffect ==
  ASSUME NEW K \in Stacked, NEW o \in Openers
  PROVE  /\ o \in Opens[K] <=> Closer[o] \in Closes[K]
         /\ o \notin Closes[K] /\ Closer[o] \notin Opens[K]
         /\ K = "modules" => o \notin Opens[K]
         /\ K \in Scoped /\ o # "openTypeRib" => o \in Opens[K]
         /\ o \in Dos /\ Closer[o] \in Dos
<1>1. CASE o = "openRibs" \/ o = "openBlock"
  <2>1. Closer[o] = "closeRibs"
    BY <1>1 DEF Closer
  <2> QED BY <1>1, <2>1 DEF Stacked, Scoped, Opens, Closes, Ending, Dos
<1>2. CASE o = "openTypeRib"
  <2>1. Closer[o] = "closeTypeRib"
    BY <1>2 DEF Closer
  <2> QED BY <1>2, <2>1 DEF Stacked, Scoped, Opens, Closes, Ending, Dos
<1>3. CASE o = "openTrait"
  <2>1. Closer[o] = "closeTrait"
    BY <1>3 DEF Closer
  <2> QED BY <1>3, <2>1 DEF Stacked, Scoped, Opens, Closes, Ending, Dos
<1> QED BY <1>1, <1>2, <1>3 DEF Openers

LEMMA EmptyIsNoPath ==
  ASSUME NEW p, IsSeq(p), NEW e
  PROVE  IsSeq(Append(p, e)) /\ Append(p, e) # <<>>
<1>1. IsSeq(Append(p, e)) /\ Len(Append(p, e)) = Len(p) + 1
  BY AppendIsSeq
<1>2. Len(p) + 1 # 0
  BY DEF IsSeq
<1> QED BY <1>1, <1>2, EmptyIsSeq

LEMMA SingleIsSeq == \A w : IsSeq(Single(w)) /\ Single(w) # <<>> /\ IsSeq(Empty)
<1>1. ASSUME NEW w PROVE IsSeq(Single(w)) /\ Single(w) # <<>>
  <2>1. <<Segment(w)>> \in Seq({Segment(w)}) /\ <<Segment(w)>> # <<>>
    OBVIOUS
  <2> QED BY <2>1, SeqIsSeq DEF Single
<1> QED BY <1>1, EmptyIsSeq DEF Empty

\* Paths of items are sequences.
ArePaths(p, c) == IsSeq(p) /\ IsSeq(c)

LEMMA TodoFields ==
  ASSUME NEW do, NEW id
  PROVE  /\ Todo(do, id).do = do /\ Todo(do, id).node = id
         /\ IsSeq(Todo(do, id).prefix) /\ IsSeq(Todo(do, id).canonical)
BY SingleIsSeq DEF Todo, Task

LEMMA TaskFields ==
  ASSUME NEW do, NEW id, NEW p, NEW c
  PROVE  /\ Task(do, id, p, c).do = do /\ Task(do, id, p, c).node = id
         /\ Task(do, id, p, c).prefix = p /\ Task(do, id, p, c).canonical = c
BY DEF Task

LEMMA SitsMore ==
  ASSUME NEW K, NEW x, NEW a, Sits(K, x, a)
  PROVE  Sits(K, x, Append(a, x)) /\ Last(Append(a, x)) = x /\ Front(Append(a, x)) = a
<1> DEFINE b == Append(a, x)
<1>1. IsSeq(a) /\ Len(a) \in Nat /\ Len(a) > 0
  BY DEF Sits, IsSeq
<1>2. IsSeq(b) /\ Len(b) = Len(a) + 1 /\ Values(b) = Values(a) \cup {x}
  BY <1>1, AppendIsSeq
<1>3. b[1] = a[1] /\ Last(b) = x /\ Front(b) = a
  BY <1>1, AppendParts
<1> HIDE DEF b
<1>4. Len(b) > 0
  BY <1>1, <1>2
<1>5. Sits(K, x, b)
  BY <1>2, <1>3, <1>4 DEF Sits, Around
<1> QED BY <1>3, <1>5 DEF b

LEMMA SitsChild ==
  ASSUME crate \in Crates, NEW K, NEW c \in Items, NEW a
  PROVE  /\ Sits(K, Parent(c), a) => Sits(K, c, a)
         /\ ~IsModuleNode(Parent(c)) /\ InItsModule(K, Parent(c), a) => InItsModule(K, c, a)
<1>1. Around(Parent(c)) \subseteq Around(c)
  BY ChildFacts
<1>2. ~IsModuleNode(Parent(c)) => ModuleOf(c) = ModuleOf(Parent(c))
  BY ModuleOfEquation
<1> QED BY <1>1, <1>2 DEF Sits, InItsModule

LEMMA LevelGoes ==
  ASSUME NEW K \in Stacked, NEW t, IsTask(t), t.do \in Level, NEW a, Fit(K, t, a)
  PROVE  Goes(K, t, a, a)
<1>1. After(K, t.do, t.node, a) = a
  BY LevelEffect
<1> QED BY <1>1 DEF Goes, Fit, Sits

LEMMA VisibilityGoes ==
  ASSUME NEW K \in Stacked, NEW x \in Nodes, NEW a, Sits(K, x, a)
  PROVE  Goes(K, Todo("visibility", x), a, a) /\ Goes(K, Todo("leaveImpl", x), a, a)
<1>1. ASSUME NEW do \in {"visibility", "leaveImpl"} PROVE Goes(K, Todo(do, x), a, a)
  <2> DEFINE t == Todo(do, x)
  <2>1. t.do = do /\ t.node = x /\ IsSeq(t.prefix) /\ IsSeq(t.canonical)
    BY TodoFields
  <2> HIDE DEF t
  <2>2. IsTask(t) /\ Fit(K, t, a) /\ t.do \in Level
    BY <2>1 DEF IsTask, Fit, Dos, Level, Visiting
  <2>3. Goes(K, t, a, a)
    BY <2>2, LevelGoes
  <2> QED BY <2>3 DEF t
<1> QED BY <1>1

\* What is opened is closed again, and in between the node sits well.
LEMMA PairGoes ==
  ASSUME crate \in Crates, NEW K \in Stacked, NEW o \in Openers, NEW x \in Nodes, NEW a, Sits(K, x, a)
  PROVE  \E b : /\ Goes(K, Todo(o, x), a, b) /\ Goes(K, Todo(Closer[o], x), b, a)
                /\ Sits(K, x, b) /\ (K = "modules" => b = a)
                /\ o # "openTypeRib" => Under(K, x, b)
<1> DEFINE b == After(K, o, x, a)
           t == Todo(o, x)
           u == Todo(Closer[o], x)
<1>1. /\ t.do = o /\ t.node = x /\ u.do = Closer[o] /\ u.node = x
      /\ IsSeq(t.prefix) /\ IsSeq(t.canonical) /\ IsSeq(u.prefix) /\ IsSeq(u.canonical)
  BY TodoFields
<1>2. /\ b = (IF o \in Opens[K] THEN Append(a, x) ELSE a)
      /\ After(K, Closer[o], x, b) = (IF o \in Opens[K] THEN Front(b) ELSE b)
  BY OpenersEffect DEF After
<1>3. Sits(K, x, b) /\ After(K, Closer[o], x, b) = a /\ (o \in Opens[K] => Last(b) = x)
  BY <1>2, SitsMore
<1>4. K = "modules" => b = a
  BY <1>2, OpenersEffect
<1>5. o # "openTypeRib" => Under(K, x, b)
  BY <1>3, OpenersEffect DEF Under
<1>6. ASSUME NEW do \in {o, Closer[o]}
      PROVE  /\ do \in Dos
             /\ do \notin Visiting \cup {"gather", "enterModule", "leaveModule", "leaveGathered"}
  <2>1. Closer[o] \in {"closeRibs", "closeTypeRib", "closeTrait"}
    BY DEF Closer
  <2> QED BY <2>1, OpenersEffect DEF Openers, Visiting
<1>7. t.do \in {o, Closer[o]} /\ u.do \in {o, Closer[o]} /\ b = After(K, t.do, t.node, a) /\ a = After(K, u.do, u.node, b)
  BY <1>1, <1>3
<1> HIDE DEF b, t, u
<1>8. ASSUME NEW s, s.do \in {o, Closer[o]}, s.node = x, IsSeq(s.prefix), IsSeq(s.canonical),
             NEW d, Sits(K, x, d)
      PROVE  IsTask(s) /\ Fit(K, s, d)
  <2>1. s.do \in Dos /\ s.do \notin Visiting \cup {"gather", "enterModule", "leaveModule", "leaveGathered"}
    BY <1>6, <1>8
  <2> QED BY <1>8, <2>1 DEF IsTask, Fit, Visiting
<1>9. IsTask(t) /\ Fit(K, t, a) /\ IsTask(u) /\ Fit(K, u, b)
  BY <1>1, <1>3, <1>7, <1>8
<1>10. Goes(K, t, a, b) /\ Goes(K, u, b, a)
  BY <1>3, <1>7, <1>9 DEF Goes, Sits
<1> QED BY <1>3, <1>4, <1>5, <1>10 DEF t, u

\* The same task for several items.
LEMMA TasksLead ==
  ASSUME NEW K, NEW ids, NEW do, NEW p, NEW c, NEW a, IsSeq(ids),
         \A x \in Values(ids) : Goes(K, Task(do, x, p, c), a, a)
  PROVE  Leads(K, Tasks(do, ids, p, c), a, a)
<1> DEFINE s == Tasks(do, ids, p, c)
<1>1. Len(ids) \in Nat /\ DOMAIN ids = 1..Len(ids)
  <2>1. ids = [i \in 1..Len(ids) |-> ids[i]] /\ Len(ids) \in Nat
    BY DEF IsSeq
  <2> QED BY <2>1
<1>2. s = [i \in 1..Len(ids) |-> Task(do, ids[i], p, c)]
  BY <1>1 DEF Tasks
<1>3. s = [i \in 1..Len(ids) |-> s[i]] /\ \A i \in 1..Len(ids) : s[i] = Task(do, ids[i], p, c)
  BY <1>2
<1> HIDE DEF s
<1>4. IsSeq(s) /\ Len(s) = Len(ids)
  BY <1>1, <1>3, BuiltIsSeq
<1>5. \A i \in 1..Len(s) : Goes(K, s[i], a, a)
  BY <1>3, <1>4 DEF Values
<1>6. Leads(K, s, a, a)
  BY <1>4, <1>5, LeadsLevel
<1> QED BY <1>6 DEF s

LEMMA TypeTasksLead ==
  ASSUME NEW K \in Stacked, NEW id \in Items, NEW nth \in 1..Len(crate[id].types), NEW a,
         Sits(K, id, a), InItsModule(K, id, a)
  PROVE  Leads(K, TypeTasks(id, nth), a, a)
<1> DEFINE t == [Todo("argument", id) EXCEPT !.nth = nth]
           u == [Todo("type", id) EXCEPT !.nth = nth]
<1>1. /\ t.do = "argument" /\ t.node = id /\ t.nth = nth
      /\ u.do = "type" /\ u.node = id /\ u.nth = nth
      /\ IsSeq(t.prefix) /\ IsSeq(t.canonical) /\ IsSeq(u.prefix) /\ IsSeq(u.canonical)
  BY SingleIsSeq DEF Todo, Task
<1>2. TypeTasks(id, nth) = <<u>> \/ TypeTasks(id, nth) = <<t, u>>
  BY DEF TypeTasks
<1> HIDE DEF t, u
<1>3. ASSUME NEW s, s.do \in {"argument", "type"}, s.node = id, s.nth = nth,
             IsSeq(s.prefix), IsSeq(s.canonical)
      PROVE Goes(K, s, a, a)
  <2>1. IsTask(s) /\ s.do \in Level
    BY <1>3 DEF IsTask, Dos, Level, Items, Nodes
  <2>2. Fit(K, s, a)
    BY <1>3 DEF Fit
  <2> QED BY <2>1, <2>2, LevelGoes
<1>4. Goes(K, t, a, a) /\ Goes(K, u, a, a)
  BY <1>1, <1>3
<1> QED BY <1>2, <1>4, LeadsOne, LeadsPair

LEMMA AllTypesLead ==
  ASSUME crate \in Crates, NEW K \in Stacked, NEW id \in Items, NEW a,
         Sits(K, id, a), InItsModule(K, id, a)
  PROVE  Leads(K, AllTypes(id), a, a)
<1> DEFINE types == crate[id].types
           s == [j \in DOMAIN types |-> TypeTasks(id, j)]
<1>1. Len(types) \in Nat /\ DOMAIN types = 1..Len(types)
  BY CrateShape, LenProperties DEF Items, Nodes
<1>2. s = [j \in 1..Len(types) |-> s[j]] /\ \A j \in 1..Len(types) : s[j] = TypeTasks(id, j)
  BY <1>1
<1>3. AllTypes(id) = FlattenSeq(s)
  BY DEF AllTypes
<1>4. \A j \in 1..Len(types) : Leads(K, TypeTasks(id, j), a, a)
  BY TypeTasksLead
<1> HIDE DEF s, types
<1>5. IsSeq(s) /\ Len(s) = Len(types)
  BY <1>1, <1>2, BuiltIsSeq
<1>6. \A j \in 1..Len(s) : Leads(K, s[j], a, a)
  BY <1>2, <1>4, <1>5
<1> QED BY <1>3, <1>5, <1>6, LeadsFlatten

\* A visit of an item below another.
LEMMA VisitGoes ==
  ASSUME crate \in Crates, NEW K \in Stacked, NEW do \in {"resolve", "variant", "inTrait", "associated"},
         NEW x \in Items, NEW p, NEW c, ArePaths(p, c), NEW a, Sits(K, x, a), InItsModule(K, x, a),
         do # "variant" => Under(K, Parent(x), a)
  PROVE  Goes(K, Task(do, x, p, c), a, a)
<1> DEFINE t == Task(do, x, p, c)
<1>1. t.do = do /\ t.node = x /\ IsSeq(t.prefix) /\ IsSeq(t.canonical)
  BY TaskFields DEF ArePaths
<1> HIDE DEF t
<1>2. IsTask(t) /\ t.do \in Level
  BY <1>1 DEF IsTask, Dos, Level, Items, Nodes
<1>3. Fit(K, t, a)
  BY <1>1 DEF Fit
<1>4. Goes(K, t, a, a)
  BY <1>2, <1>3, LevelGoes
<1> QED BY <1>4 DEF t

\* The items in one that is not a module.
LEMMA ChildrenLead ==
  ASSUME crate \in Crates, NEW K \in Stacked, NEW id \in Items, ~IsModuleNode(id),
         NEW do \in {"resolve", "variant", "inTrait", "associated"}, NEW p, NEW c, ArePaths(p, c), NEW a,
         Sits(K, id, a), InItsModule(K, id, a), do # "variant" => Under(K, id, a)
  PROVE  /\ \A x \in Values(Inside(id)) : Goes(K, Task(do, x, p, c), a, a)
         /\ Leads(K, Tasks(do, Inside(id), p, c), a, a)
<1>1. id \in Nodes
  BY DEF Items, Nodes
<1>2. IsSeq(Inside(id)) /\ Values(Inside(id)) = {x \in Items : Parent(x) = id}
  BY <1>1, InsideValues
<1>3. ASSUME NEW x \in Values(Inside(id)) PROVE Goes(K, Task(do, x, p, c), a, a)
  <2>1. x \in Items /\ Parent(x) = id
    BY <1>2
  <2>2. Sits(K, x, a) /\ InItsModule(K, x, a)
    BY <2>1, SitsChild
  <2> QED BY <2>1, <2>2, VisitGoes
<1> QED BY <1>2, <1>3, TasksLead

LEMMA AssociatedLead ==
  ASSUME crate \in Crates, NEW K \in Stacked, id0 \in Items, ~IsModuleNode(id0), NEW p, NEW c, ArePaths(p, c), NEW a,
         Sits(K, id0, a), InItsModule(K, id0, a), Under(K, id0, a)
  PROVE  Leads(K, AssociatedTasks(p, c), a, a)
<1> DEFINE ids == Inside(id0)
           t(x) == Todo("visibility", x)
           u(x) == Task("associated", x, p, c)
           s == [i \in DOMAIN ids |-> <<t(ids[i]), u(ids[i])>>]
<1>0. id0 \in Nodes
  BY DEF Items, Nodes
<1>1. IsSeq(ids) /\ \A x \in Values(ids) : x \in Items /\ x \in Nodes /\ Parent(x) = id0
  BY <1>0, InsideValues DEF Items, Nodes
<1>2. AssociatedTasks(p, c) = FlattenSeq(s)
  BY DEF AssociatedTasks
<1>3. ASSUME NEW x \in Values(ids) PROVE Goes(K, t(x), a, a) /\ Goes(K, u(x), a, a)
  <2>1. Sits(K, x, a)
    BY <1>1, SitsChild
  <2>2. Goes(K, t(x), a, a)
    BY <1>1, <2>1, VisibilityGoes
  <2>3. Goes(K, u(x), a, a)
    BY ChildrenLead
  <2> QED BY <2>2, <2>3
<1> HIDE DEF ids, t, u
<1>4. Len(ids) \in Nat /\ DOMAIN ids = 1..Len(ids)
  <2>1. ids = [i \in 1..Len(ids) |-> ids[i]] /\ Len(ids) \in Nat
    BY <1>1 DEF IsSeq
  <2> QED BY <2>1
<1>5. s = [i \in 1..Len(ids) |-> s[i]] /\ \A i \in 1..Len(ids) : s[i] = <<t(ids[i]), u(ids[i])>>
  BY <1>4
<1> HIDE DEF s
<1>6. IsSeq(s) /\ Len(s) = Len(ids)
  BY <1>4, <1>5, BuiltIsSeq
<1>7. ASSUME NEW i \in 1..Len(s) PROVE Leads(K, s[i], a, a)
  <2>1. ids[i] \in Values(ids)
    BY <1>6 DEF Values
  <2>2. Leads(K, <<t(ids[i]), u(ids[i])>>, a, a)
    BY <1>3, <2>1, LeadsPair
  <2> QED BY <1>5, <1>6, <2>2
<1> QED BY <1>2, <1>6, <1>7, LeadsFlatten

LEMMA BlockLead ==
  ASSUME crate \in Crates, NEW K \in Stacked, NEW id \in Items, ~IsModuleNode(id), NEW p, NEW c, ArePaths(p, c), NEW a,
         Sits(K, id, a), InItsModule(K, id, a)
  PROVE  Leads(K, BlockTasks(id, p, c), a, a)
<1> DEFINE items == Inside(id)
           open == Todo("openBlock", id)
           close == Todo("closeRibs", id)
           visit(x) == Task("resolve", x, p, c)
           of(x) == IF crate[x].deep THEN <<open, visit(x), close>> ELSE <<visit(x)>>
           s == [i \in DOMAIN items |-> of(items[i])]
<1>0. id \in Nodes
  BY DEF Items, Nodes
<1>1. IsSeq(items) /\ Values(items) = {x \in Items : Parent(x) = id}
  BY <1>0, InsideValues
<1>2. BlockTasks(id, p, c) = IF items = <<>> THEN <<>> ELSE <<open>> \o FlattenSeq(s) \o <<close>>
  BY DEF BlockTasks
<1>3. ASSUME NEW d, Sits(K, id, d), InItsModule(K, id, d)
      PROVE  \E b : /\ Goes(K, open, d, b) /\ Goes(K, close, b, d)
                    /\ Sits(K, id, b) /\ InItsModule(K, id, b)
                    /\ \A x \in Values(items) : Goes(K, visit(x), b, b)
  <2>1. "openBlock" \in Openers /\ Closer["openBlock"] = "closeRibs"
    BY DEF Openers, Closer
  <2>2. PICK b : /\ Goes(K, open, d, b) /\ Goes(K, close, b, d)
                 /\ Sits(K, id, b) /\ (K = "modules" => b = d) /\ Under(K, id, b)
    BY <1>0, <1>3, <2>1, PairGoes
  <2>3. InItsModule(K, id, b)
    BY <1>3, <2>2 DEF InItsModule
  <2>4. \A x \in Values(items) : Goes(K, visit(x), b, b)
    BY <2>2, <2>3, ChildrenLead
  <2> QED BY <2>2, <2>3, <2>4
<1>4. PICK b : /\ Goes(K, open, a, b) /\ Goes(K, close, b, a)
               /\ Sits(K, id, b) /\ InItsModule(K, id, b)
               /\ \A x \in Values(items) : Goes(K, visit(x), b, b)
  BY <1>3
<1>5. PICK d : /\ Goes(K, open, b, d) /\ Goes(K, close, d, b)
               /\ \A x \in Values(items) : Goes(K, visit(x), d, d)
  BY <1>3, <1>4
<1> HIDE DEF items, open, close, visit
<1>6. Len(items) \in Nat /\ DOMAIN items = 1..Len(items)
  <2>1. items = [i \in 1..Len(items) |-> items[i]] /\ Len(items) \in Nat
    BY <1>1 DEF IsSeq
  <2> QED BY <2>1
<1>7. s = [i \in 1..Len(items) |-> s[i]] /\ \A i \in 1..Len(items) : s[i] = of(items[i])
  BY <1>6
<1> HIDE DEF s
<1>8. IsSeq(s) /\ Len(s) = Len(items)
  BY <1>6, <1>7, BuiltIsSeq
<1>9. ASSUME NEW i \in 1..Len(s) PROVE Leads(K, s[i], b, b)
  <2> DEFINE x == items[i]
             t == visit(x)
  <2>1. x \in Values(items)
    BY <1>8 DEF Values
  <2>2. Goes(K, t, b, b) /\ Goes(K, t, d, d)
    BY <1>4, <1>5, <2>1
  <2>3. s[i] = of(x)
    BY <1>7, <1>8
  <2>4. s[i] = <<t>> \/ s[i] = <<open, t, close>>
    BY <2>3
  <2> HIDE DEF t
  <2> QED BY <1>5, <2>2, <2>4, LeadsOne, LeadsTriple
<1>10. Leads(K, FlattenSeq(s), b, b)
  BY <1>8, <1>9, LeadsFlatten
<1>11. Leads(K, <<open>>, a, b) /\ Leads(K, <<close>>, b, a)
  BY <1>4, LeadsOne
<1>12. Leads(K, <<open>> \o FlattenSeq(s) \o <<close>>, a, a)
  BY <1>10, <1>11, LeadsConcat
<1> QED BY <1>2, <1>12, LeadsEmpty

LEMMA FunctionLead ==
  ASSUME crate \in Crates, NEW K \in Stacked, id0 \in Items, ~IsModuleNode(id0), NEW a,
         ArePaths(OwnPrefix, OwnCanonical), Sits(K, id0, a), InItsModule(K, id0, a)
  PROVE  Leads(K, FunctionTasks, a, a)
<1>0. id0 \in Nodes /\ "openRibs" \in Openers /\ Closer["openRibs"] = "closeRibs"
  BY DEF Items, Nodes, Openers, Closer
<1>1. PICK b : /\ Goes(K, Todo("openRibs", id0), a, b) /\ Goes(K, Todo("closeRibs", id0), b, a)
               /\ Sits(K, id0, b) /\ (K = "modules" => b = a)
  BY <1>0, PairGoes
<1>2. InItsModule(K, id0, b)
  BY <1>1 DEF InItsModule
<1>3. Leads(K, <<Todo("openRibs", id0)>>, a, b) /\ Leads(K, <<Todo("closeRibs", id0)>>, b, a)
  BY <1>1, LeadsOne
<1>4. Leads(K, AllTypes(id0), b, b) /\ Leads(K, BlockTasks(id0, OwnPrefix, OwnCanonical), b, b)
  BY <1>1, <1>2, AllTypesLead, BlockLead
<1> QED BY <1>3, <1>4, LeadsConcat DEF FunctionTasks

-----------------------------------------------------------------------------
(* What each handler leaves to be done *)

LEMMA AtFront ==
  ASSUME NEW K, NEW a, NEW b, Leads(K, work, a, b), work # <<>>
  PROVE  /\ IsTask(task) /\ Fit(K, task, a)
         /\ Leads(K, Tail(work), After(K, task.do, id0, a), b)
         /\ IsSeq(After(K, task.do, id0, a)) /\ Len(After(K, task.do, id0, a)) > 0
         /\ id0 \in Nodes /\ Sits(K, id0, a)
<1>1. PICK c : Goes(K, Head(work), a, c) /\ Leads(K, Tail(work), c, b)
  BY LeadsTail
<1> QED BY <1>1 DEF Goes, IsTask, Fit, id0, task

\* A handler whose calls lead from d to what its own task would have left.
LEMMA CallLeads ==
  ASSUME NEW K, NEW a, NEW b, Leads(K, work, a, b), work # <<>>, NEW calls, Call(calls),
         NEW d, Leads(K, calls, d, After(K, task.do, id0, a))
  PROVE  Leads(K, work', d, b)
BY AtFront, LeadsConcat DEF Call

LEMMA LevelCall ==
  ASSUME NEW K \in Stacked, NEW a, NEW b, Leads(K, work, a, b), work # <<>>, NEW calls, Call(calls),
         task.do \in Level, Leads(K, calls, a, a)
  PROVE  Leads(K, work', a, b)
BY LevelEffect, CallLeads

\* One that calls nothing.
LEMMA LastCall ==
  ASSUME NEW K \in Stacked, NEW a, NEW b, Leads(K, work, a, b), work # <<>>, Call(<<>>)
  PROVE  /\ Leads(K, work', After(K, task.do, id0, a), b)
         /\ task.do \in Level => Leads(K, work', a, b)
BY LeadsEmpty, LevelEffect, CallLeads

\* What the handler of a visit has before it.
LEMMA AtVisit ==
  ASSUME NEW K, NEW a, NEW b, Leads(K, work, a, b), work # <<>>, task.do \in Visiting
  PROVE  /\ id0 \in Items /\ id0 \in Nodes /\ Sits(K, id0, a) /\ InItsModule(K, id0, a)
         /\ task.do \in {"resolve", "inTrait", "associated"} => Under(K, Parent(id0), a)
         /\ ArePaths(task.prefix, task.canonical) /\ ArePaths(OwnPrefix, OwnCanonical)
         /\ task.do \in {"inherent", "ofTrait", "forType"} => Under(K, id0, a)
BY AtFront, EmptyIsNoPath DEF IsTask, Fit, Visiting, id0, ArePaths, OwnPrefix, OwnCanonical, Below

LEMMA AtGathering ==
  ASSUME NEW K, NEW a, NEW b, Leads(K, work, a, b), work # <<>>, task.do = "gather"
  PROVE  /\ id0 \in Items /\ id0 \in Nodes /\ Sits(K, id0, a) /\ Gathers(K, task, a)
         /\ Gathered(id0) /\ ArePaths(task.prefix, task.canonical) /\ ArePaths(OwnPrefix, OwnCanonical)
BY AtFront, EmptyIsNoPath DEF IsTask, Fit, id0, ArePaths, OwnPrefix, OwnCanonical, Below

LEMMA GatherGoes ==
  ASSUME NEW K \in Stacked, NEW x \in Items, Gathered(x), NEW p, NEW c, ArePaths(p, c),
         NEW a, Sits(K, x, a),
         K \in Scoped => Last(a) \in OpenAround(x),
         K \in Scoped /\ <<>> \in {p, c} => Last(a) = Parent(x) \/ InBody(x),
         K = "modules" => Last(a) = ModuleOf(x)
  PROVE  Goes(K, Task("gather", x, p, c), a, a)
<1> DEFINE t == Task("gather", x, p, c)
<1>1. t.do = "gather" /\ t.node = x /\ t.prefix = p /\ t.canonical = c
  BY TaskFields
<1> HIDE DEF t
<1>2. IsTask(t) /\ t.do \in Level
  BY <1>1 DEF IsTask, Dos, Level, Items, Nodes, ArePaths
<1>3. Gathers(K, t, a)
  BY <1>1 DEF Gathers
<1>4. Fit(K, t, a)
  BY <1>1, <1>3 DEF Fit, Visiting
<1>5. Goes(K, t, a, a)
  BY <1>2, <1>4, LevelGoes
<1> QED BY <1>5 DEF t

\* The items of a body are gathered from there.
LEMMA ShallowLead ==
  ASSUME crate \in Crates, NEW K \in Stacked, NEW a, NEW b, Leads(K, work, a, b), work # <<>>,
         task.do = "gather", crate[id0].kind \in Bodies
  PROVE  Leads(K, Tasks("gather", Shallow(id0), Empty, Empty), a, a)
<1>1. /\ id0 \in Items /\ id0 \in Nodes /\ Sits(K, id0, a) /\ Gathers(K, task, a) /\ Gathered(id0)
  BY AtGathering
<1>2. IsSeq(Shallow(id0)) /\ Values(Shallow(id0)) = {x \in Items : Parent(x) = id0 /\ ~crate[x].deep}
  BY <1>1, ShallowValues
<1>3. ~IsModuleNode(id0)
  BY DEF IsModuleNode, Bodies
<1>4. ASSUME NEW x \in Values(Shallow(id0)) PROVE Goes(K, Task("gather", x, Empty, Empty), a, a)
  <2>1. x \in Items /\ Parent(x) = id0 /\ ~crate[x].deep
    BY <1>2
  <2>2. InBody(x)
    BY <2>1 DEF InBody, Parent
  <2>3. Gathered(x)
    BY <1>1, <2>1, <2>2, GatheredEquation
  <2>4. Sits(K, x, a) /\ ModuleOf(x) = ModuleOf(id0)
    BY <1>1, <1>3, <2>1, SitsChild, ModuleOfEquation
  <2>5. OpenAround(id0) \subseteq OpenAround(x)
    BY <2>1, ChildFacts DEF Around
  <2>6. (K \in Scoped => Last(a) \in OpenAround(x)) /\ (K = "modules" => Last(a) = ModuleOf(x))
    BY <1>1, <2>4, <2>5 DEF Gathers, id0
  <2> QED BY <2>1, <2>2, <2>3, <2>4, <2>6, SingleIsSeq, GatherGoes DEF ArePaths
<1> QED BY <1>2, <1>4, TasksLead

\* Handlers that call no other, and leave the stacks alone.
LEMMA QuietSteps ==
  ASSUME NEW K \in Stacked, NEW a, NEW b, Leads(K, work, a, b),
         GatherType \/ GatherEnumeration \/ GatherTrait \/ GatherImplementation \/ ResolveItemVisibility
           \/ ResolveArgument \/ ResolveType \/ ResolveTypeAliasInTrait \/ LeaveImpl
           \/ GatherUnhandled \/ ResolveUnhandled \/ ResolveInTraitUnhandled
  PROVE  Leads(K, work', a, b)
<1>0. \A do \in {"gather", "visibility", "argument", "type", "inTrait", "leaveImpl"} : do \in Level
  BY DEF Level
<1>1. CASE GatherType
  BY <1>0, <1>1, LastCall DEF GatherType, AtGather, At
<1>2. CASE GatherEnumeration
  BY <1>0, <1>2, LastCall DEF GatherEnumeration, AtGather, At
<1>3. CASE GatherTrait
  BY <1>0, <1>3, LastCall DEF GatherTrait, AtGather, At
<1>4. CASE GatherImplementation
  BY <1>0, <1>4, LastCall DEF GatherImplementation, AtGather, At
<1>5. CASE ResolveItemVisibility
  BY <1>0, <1>5, LastCall DEF ResolveItemVisibility, At
<1>6. CASE ResolveArgument
  BY <1>0, <1>6, LastCall DEF ResolveArgument, At
<1>7. CASE ResolveType
  BY <1>0, <1>7, LastCall DEF ResolveType, At
<1>8. CASE ResolveTypeAliasInTrait
  BY <1>0, <1>8, LastCall DEF ResolveTypeAliasInTrait, At
<1>9. CASE LeaveImpl
  BY <1>0, <1>9, LastCall DEF LeaveImpl, At
<1>10. CASE GatherUnhandled \/ ResolveUnhandled \/ ResolveInTraitUnhandled
  BY <1>10 DEF GatherUnhandled, ResolveUnhandled, ResolveInTraitUnhandled
<1> QED BY <1>1, <1>2, <1>3, <1>4, <1>5, <1>6, <1>7, <1>8, <1>9, <1>10

\* Handlers of functions, constants, variants and associated items.
LEMMA BodySteps ==
  ASSUME crate \in Crates, NEW K \in Stacked, NEW a, NEW b, Leads(K, work, a, b),
         GatherFunction \/ GatherConstant \/ ResolveFunction \/ ResolveFunctionInTrait
           \/ ResolveAssociatedItem \/ ResolveEnumItem \/ ResolveConstant \/ ResolveStatic
  PROVE  Leads(K, work', a, b)
<1>0. /\ \A do \in {"gather", "resolve", "inTrait", "associated", "variant"} : do \in Level
      /\ \A do \in {"resolve", "inTrait", "associated", "variant"} : do \in Visiting
  BY DEF Level, Visiting
<1>1. CASE GatherFunction
  <2>1. /\ work # <<>> /\ Call(Tasks("gather", Shallow(id0), Empty, Empty)) /\ task.do = "gather"
        /\ crate[id0].kind \in Bodies
    BY <1>1 DEF GatherFunction, AtGather, At, Bodies, item
  <2> QED BY <1>0, <2>1, ShallowLead, LevelCall
<1>2. CASE GatherConstant
  <2>1. /\ work # <<>> /\ Call(Tasks("gather", Shallow(id0), Empty, Empty)) /\ task.do = "gather"
        /\ crate[id0].kind \in Bodies
    BY <1>2 DEF GatherConstant, AtGather, At, Bodies, item
  <2> QED BY <1>0, <2>1, ShallowLead, LevelCall
<1>3. CASE ResolveFunction
  <2>1. /\ work # <<>> /\ Call(<<Todo("visibility", id0)>> \o FunctionTasks)
        /\ task.do = "resolve" /\ ~IsModuleNode(id0)
    BY <1>3 DEF ResolveFunction, At, IsModuleNode, item
  <2>2. id0 \in Items /\ id0 \in Nodes /\ Sits(K, id0, a) /\ InItsModule(K, id0, a)
        /\ ArePaths(OwnPrefix, OwnCanonical)
    BY <1>0, <2>1, AtVisit
  <2>3. Leads(K, <<Todo("visibility", id0)>>, a, a)
    BY <2>1, <2>2, VisibilityGoes, LeadsOne
  <2>4. Leads(K, FunctionTasks, a, a)
    BY <2>1, <2>2, FunctionLead
  <2>5. Leads(K, <<Todo("visibility", id0)>> \o FunctionTasks, a, a)
    BY <2>3, <2>4, LeadsConcat
  <2> QED BY <1>0, <2>1, <2>5, LevelCall
<1>4. CASE ResolveFunctionInTrait
  <2>1. /\ work # <<>> /\ Call(FunctionTasks)
        /\ task.do = "inTrait" /\ ~IsModuleNode(id0)
    BY <1>4 DEF ResolveFunctionInTrait, At, IsModuleNode, item
  <2>2. id0 \in Items /\ id0 \in Nodes /\ Sits(K, id0, a) /\ InItsModule(K, id0, a)
        /\ ArePaths(OwnPrefix, OwnCanonical)
    BY <1>0, <2>1, AtVisit
  <2>3. Leads(K, FunctionTasks, a, a)
    BY <2>1, <2>2, FunctionLead
  <2> QED BY <1>0, <2>1, <2>3, LevelCall
<1>5. CASE ResolveEnumItem
  <2>1. /\ work # <<>> /\ Call(AllTypes(id0))
        /\ task.do = "variant" /\ ~IsModuleNode(id0)
    BY <1>5 DEF ResolveEnumItem, At, IsModuleNode, item, Variants
  <2>2. id0 \in Items /\ id0 \in Nodes /\ Sits(K, id0, a) /\ InItsModule(K, id0, a)
        /\ ArePaths(OwnPrefix, OwnCanonical)
    BY <1>0, <2>1, AtVisit
  <2>3. Leads(K, AllTypes(id0), a, a)
    BY <2>1, <2>2, AllTypesLead
  <2> QED BY <1>0, <2>1, <2>3, LevelCall
<1>6. CASE ResolveConstant
  <2>1. /\ work # <<>>
        /\ Call(<<Todo("visibility", id0)>> \o AllTypes(id0) \o BlockTasks(id0, OwnPrefix, OwnCanonical))
        /\ task.do = "resolve" /\ ~IsModuleNode(id0)
    BY <1>6 DEF ResolveConstant, At, IsModuleNode, item
  <2>2. id0 \in Items /\ id0 \in Nodes /\ Sits(K, id0, a) /\ InItsModule(K, id0, a)
        /\ ArePaths(OwnPrefix, OwnCanonical)
    BY <1>0, <2>1, AtVisit
  <2>3. Leads(K, <<Todo("visibility", id0)>>, a, a)
    BY <2>1, <2>2, VisibilityGoes, LeadsOne
  <2>4. Leads(K, AllTypes(id0), a, a)
    BY <2>1, <2>2, AllTypesLead
  <2>5. Leads(K, BlockTasks(id0, OwnPrefix, OwnCanonical), a, a)
    BY <2>1, <2>2, BlockLead
  <2>6. Leads(K, <<Todo("visibility", id0)>> \o AllTypes(id0) \o BlockTasks(id0, OwnPrefix, OwnCanonical), a, a)
    BY <2>3, <2>4, <2>5, LeadsConcat
  <2> QED BY <1>0, <2>1, <2>6, LevelCall
<1>7. CASE ResolveStatic
  <2>1. /\ work # <<>> /\ Call(AllTypes(id0) \o BlockTasks(id0, OwnPrefix, OwnCanonical))
        /\ task.do = "resolve" /\ ~IsModuleNode(id0)
    BY <1>7 DEF ResolveStatic, At, IsModuleNode, item
  <2>2. id0 \in Items /\ id0 \in Nodes /\ Sits(K, id0, a) /\ InItsModule(K, id0, a)
        /\ ArePaths(OwnPrefix, OwnCanonical)
    BY <1>0, <2>1, AtVisit
  <2>3. Leads(K, AllTypes(id0), a, a)
    BY <2>1, <2>2, AllTypesLead
  <2>4. Leads(K, BlockTasks(id0, OwnPrefix, OwnCanonical), a, a)
    BY <2>1, <2>2, BlockLead
  <2>5. Leads(K, AllTypes(id0) \o BlockTasks(id0, OwnPrefix, OwnCanonical), a, a)
    BY <2>3, <2>4, LeadsConcat
  <2> QED BY <1>0, <2>1, <2>5, LevelCall
<1>8. CASE ResolveAssociatedItem
  <2>1. /\ work # <<>> /\ Call(<<Task("resolve", id0, task.prefix, task.canonical)>>)
        /\ task.do = "associated"
    BY <1>8 DEF ResolveAssociatedItem, At
  <2>2. id0 \in Items /\ Sits(K, id0, a) /\ InItsModule(K, id0, a) /\ Under(K, Parent(id0), a)
        /\ ArePaths(task.prefix, task.canonical)
    BY <1>0, <2>1, AtVisit
  <2>3. Goes(K, Task("resolve", id0, task.prefix, task.canonical), a, a)
    BY <2>2, VisitGoes
  <2>4. Leads(K, <<Task("resolve", id0, task.prefix, task.canonical)>>, a, a)
    BY <2>3, LeadsOne
  <2> QED BY <1>0, <2>1, <2>4, LevelCall
<1> QED BY <1>1, <1>2, <1>3, <1>4, <1>5, <1>6, <1>7, <1>8

\* Handlers that call something that opens a rib, and later what closes it.
LEMMA RibSteps ==
  ASSUME crate \in Crates, NEW K \in Stacked, NEW a, NEW b, Leads(K, work, a, b),
         ResolveStruct \/ ResolveUnion \/ ResolveTypeAlias \/ ResolveEnumeration \/ ResolveTrait
  PROVE  Leads(K, work', a, b)
<1>0. /\ "resolve" \in Level /\ "resolve" \in Visiting
      /\ "openTypeRib" \in Openers /\ Closer["openTypeRib"] = "closeTypeRib"
      /\ "openTrait" \in Openers /\ Closer["openTrait"] = "closeTrait"
  BY DEF Level, Visiting, Openers, Closer
<1>1. CASE ResolveStruct
  <2>1. /\ work # <<>>
        /\ Call(<<Todo("visibility", id0), Todo("openTypeRib", id0)>> \o AllTypes(id0)
                  \o <<Todo("closeTypeRib", id0)>>)
        /\ task.do = "resolve" /\ ~IsModuleNode(id0)
    BY <1>1 DEF ResolveStruct, At, IsModuleNode, item, Structs
  <2>2. id0 \in Items /\ id0 \in Nodes /\ Sits(K, id0, a) /\ InItsModule(K, id0, a)
        /\ ArePaths(OwnPrefix, OwnCanonical)
    BY <1>0, <2>1, AtVisit
  <2>3. PICK d : /\ Goes(K, Todo("openTypeRib", id0), a, d) /\ Goes(K, Todo("closeTypeRib", id0), d, a)
                 /\ Sits(K, id0, d) /\ (K = "modules" => d = a)
                 /\ "openTypeRib" # "openTypeRib" => Under(K, id0, d)
    BY <1>0, <2>2, PairGoes
  <2>4. InItsModule(K, id0, d)
    BY <2>2, <2>3 DEF InItsModule
  <2>5. Leads(K, <<Todo("visibility", id0), Todo("openTypeRib", id0)>>, a, d)
    BY <2>2, <2>3, VisibilityGoes, LeadsPair
  <2>6. Leads(K, AllTypes(id0), d, d)
    BY <2>1, <2>2, <2>3, <2>4, AllTypesLead
  <2>7. Leads(K, <<Todo("closeTypeRib", id0)>>, d, a)
    BY <2>3, LeadsOne
  <2>8. Leads(K, <<Todo("visibility", id0), Todo("openTypeRib", id0)>> \o AllTypes(id0)
                  \o <<Todo("closeTypeRib", id0)>>, a, a)
    BY <2>5, <2>6, <2>7, LeadsConcat
  <2> QED BY <1>0, <2>1, <2>8, LevelCall
<1>2. CASE ResolveUnion
  <2>1. /\ work # <<>>
        /\ Call(<<Todo("visibility", id0), Todo("openTypeRib", id0)>> \o AllTypes(id0)
                  \o <<Todo("closeTypeRib", id0)>>)
        /\ task.do = "resolve" /\ ~IsModuleNode(id0)
    BY <1>2 DEF ResolveUnion, At, IsModuleNode, item
  <2>2. id0 \in Items /\ id0 \in Nodes /\ Sits(K, id0, a) /\ InItsModule(K, id0, a)
        /\ ArePaths(OwnPrefix, OwnCanonical)
    BY <1>0, <2>1, AtVisit
  <2>3. PICK d : /\ Goes(K, Todo("openTypeRib", id0), a, d) /\ Goes(K, Todo("closeTypeRib", id0), d, a)
                 /\ Sits(K, id0, d) /\ (K = "modules" => d = a)
                 /\ "openTypeRib" # "openTypeRib" => Under(K, id0, d)
    BY <1>0, <2>2, PairGoes
  <2>4. InItsModule(K, id0, d)
    BY <2>2, <2>3 DEF InItsModule
  <2>5. Leads(K, <<Todo("visibility", id0), Todo("openTypeRib", id0)>>, a, d)
    BY <2>2, <2>3, VisibilityGoes, LeadsPair
  <2>6. Leads(K, AllTypes(id0), d, d)
    BY <2>1, <2>2, <2>3, <2>4, AllTypesLead
  <2>7. Leads(K, <<Todo("closeTypeRib", id0)>>, d, a)
    BY <2>3, LeadsOne
  <2>8. Leads(K, <<Todo("visibility", id0), Todo("openTypeRib", id0)>> \o AllTypes(id0)
                  \o <<Todo("closeTypeRib", id0)>>, a, a)
    BY <2>5, <2>6, <2>7, LeadsConcat
  <2> QED BY <1>0, <2>1, <2>8, LevelCall
<1>3. CASE ResolveTypeAlias
  <2>1. /\ work # <<>> /\ Call(<<Todo("openTypeRib", id0)>> \o AllTypes(id0) \o <<Todo("closeTypeRib", id0)>>)
        /\ task.do = "resolve" /\ ~IsModuleNode(id0)
    BY <1>3 DEF ResolveTypeAlias, At, IsModuleNode, item
  <2>2. id0 \in Items /\ id0 \in Nodes /\ Sits(K, id0, a) /\ InItsModule(K, id0, a)
        /\ ArePaths(OwnPrefix, OwnCanonical)
    BY <1>0, <2>1, AtVisit
  <2>3. PICK d : /\ Goes(K, Todo("openTypeRib", id0), a, d) /\ Goes(K, Todo("closeTypeRib", id0), d, a)
                 /\ Sits(K, id0, d) /\ (K = "modules" => d = a)
                 /\ "openTypeRib" # "openTypeRib" => Under(K, id0, d)
    BY <1>0, <2>2, PairGoes
  <2>4. InItsModule(K, id0, d)
    BY <2>2, <2>3 DEF InItsModule
  <2>5. Leads(K, <<Todo("openTypeRib", id0)>>, a, d)
    BY <2>3, LeadsOne
  <2>6. Leads(K, AllTypes(id0), d, d)
    BY <2>1, <2>2, <2>3, <2>4, AllTypesLead
  <2>7. Leads(K, <<Todo("closeTypeRib", id0)>>, d, a)
    BY <2>3, LeadsOne
  <2>8. Leads(K, <<Todo("openTypeRib", id0)>> \o AllTypes(id0) \o <<Todo("closeTypeRib", id0)>>, a, a)
    BY <2>5, <2>6, <2>7, LeadsConcat
  <2> QED BY <1>0, <2>1, <2>8, LevelCall
<1>4. CASE ResolveEnumeration
  <2>1. /\ work # <<>>
        /\ Call(<<Todo("visibility", id0), Todo("openTypeRib", id0)>>
                  \o Tasks("variant", Inside(id0), OwnPrefix, OwnCanonical) \o <<Todo("closeTypeRib", id0)>>)
        /\ task.do = "resolve" /\ ~IsModuleNode(id0)
    BY <1>4 DEF ResolveEnumeration, At, IsModuleNode, item
  <2>2. id0 \in Items /\ id0 \in Nodes /\ Sits(K, id0, a) /\ InItsModule(K, id0, a)
        /\ ArePaths(OwnPrefix, OwnCanonical)
    BY <1>0, <2>1, AtVisit
  <2>3. PICK d : /\ Goes(K, Todo("openTypeRib", id0), a, d) /\ Goes(K, Todo("closeTypeRib", id0), d, a)
                 /\ Sits(K, id0, d) /\ (K = "modules" => d = a)
                 /\ "openTypeRib" # "openTypeRib" => Under(K, id0, d)
    BY <1>0, <2>2, PairGoes
  <2>4. InItsModule(K, id0, d)
    BY <2>2, <2>3 DEF InItsModule
  <2>5. Leads(K, <<Todo("visibility", id0), Todo("openTypeRib", id0)>>, a, d)
    BY <2>2, <2>3, VisibilityGoes, LeadsPair
  <2>6. Leads(K, Tasks("variant", Inside(id0), OwnPrefix, OwnCanonical), d, d)
    BY <2>1, <2>2, <2>3, <2>4, ChildrenLead
  <2>7. Leads(K, <<Todo("closeTypeRib", id0)>>, d, a)
    BY <2>3, LeadsOne
  <2>8. Leads(K, <<Todo("visibility", id0), Todo("openTypeRib", id0)>>
                  \o Tasks("variant", Inside(id0), OwnPrefix, OwnCanonical) \o <<Todo("closeTypeRib", id0)>>, a, a)
    BY <2>5, <2>6, <2>7, LeadsConcat
  <2> QED BY <1>0, <2>1, <2>8, LevelCall
<1>5. CASE ResolveTrait
  <2>1. /\ work # <<>>
        /\ Call(<<Todo("visibility", id0), Todo("openTrait", id0)>> \o AllTypes(id0)
                  \o Tasks("inTrait", Inside(id0), Empty, Empty) \o <<Todo("closeTrait", id0)>>)
        /\ task.do = "resolve" /\ ~IsModuleNode(id0)
    BY <1>5 DEF ResolveTrait, At, IsModuleNode, item
  <2>2. id0 \in Items /\ id0 \in Nodes /\ Sits(K, id0, a) /\ InItsModule(K, id0, a)
        /\ ArePaths(OwnPrefix, OwnCanonical)
    BY <1>0, <2>1, AtVisit
  <2>3. PICK d : /\ Goes(K, Todo("openTrait", id0), a, d) /\ Goes(K, Todo("closeTrait", id0), d, a)
                 /\ Sits(K, id0, d) /\ (K = "modules" => d = a)
                 /\ "openTrait" # "openTypeRib" => Under(K, id0, d)
    BY <1>0, <2>2, PairGoes
  <2>4. InItsModule(K, id0, d)
    BY <2>2, <2>3 DEF InItsModule
  <2>5. Leads(K, <<Todo("visibility", id0), Todo("openTrait", id0)>>, a, d)
    BY <2>2, <2>3, VisibilityGoes, LeadsPair
  <2>6. Leads(K, AllTypes(id0), d, d)
    BY <2>1, <2>2, <2>3, <2>4, AllTypesLead
  <2>7. Leads(K, Tasks("inTrait", Inside(id0), Empty, Empty), d, d)
    BY <2>1, <2>2, <2>3, <2>4, SingleIsSeq, ChildrenLead DEF ArePaths
  <2>8. Leads(K, <<Todo("closeTrait", id0)>>, d, a)
    BY <2>3, LeadsOne
  <2>9. Leads(K, <<Todo("visibility", id0), Todo("openTrait", id0)>> \o AllTypes(id0)
                  \o Tasks("inTrait", Inside(id0), Empty, Empty) \o <<Todo("closeTrait", id0)>>, a, a)
    BY <2>5, <2>6, <2>7, <2>8, LeadsConcat
  <2> QED BY <1>0, <2>1, <2>9, LevelCall
<1> QED BY <1>1, <1>2, <1>3, <1>4, <1>5

\* The two ways in which what an implementation has opened is closed.
LEMMA EndingEffect ==
  ASSUME NEW K \in Stacked, NEW x, NEW a
  PROVE  /\ \A do \in Ending : After(K, do, x, a) = After(K, "closeRibs", x, a)
         /\ After(K, "inherent", x, a) = After(K, "closeImpl", x, a)
         /\ After(K, "inherent", x, a) = IF K \in Scoped THEN Front(a) ELSE a
         /\ K = "modules" => After(K, "closeRibs", x, a) = a
<1>1. /\ \A do \in Ending : do \notin Opens[K] /\ (do \in Closes[K] <=> "closeRibs" \in Closes[K])
      /\ "inherent" \notin Opens[K] /\ "closeImpl" \notin Opens[K] /\ "closeRibs" \notin Opens[K]
      /\ "inherent" \in Closes[K] <=> K \in Scoped
      /\ "closeImpl" \in Closes[K] <=> K \in Scoped
      /\ K = "modules" => "closeRibs" \notin Closes[K]
  BY DEF Stacked, Scoped, Opens, Closes, Ending
<1> QED BY <1>1 DEF After

LEMMA EndGoes ==
  ASSUME NEW K \in Stacked, NEW do \in {"closeRibs", "closeImpl", "ofTrait", "forType", "inherent"},
         NEW x \in Items, NEW p, NEW q, ArePaths(p, q), NEW a, Sits(K, x, a),
         do \notin {"closeRibs", "closeImpl"} => InItsModule(K, x, a) /\ Under(K, x, a),
         NEW b, b = After(K, do, x, a), IsSeq(b), Len(b) > 0
  PROVE  Leads(K, <<Task(do, x, p, q)>>, a, b)
<1> DEFINE t == Task(do, x, p, q)
<1>1. t.do = do /\ t.node = x /\ t.prefix = p /\ t.canonical = q
  BY TaskFields
<1> HIDE DEF t
<1>2. IsTask(t)
  BY <1>1, TaskFields DEF IsTask, Dos, Items, Nodes, ArePaths
<1>3. Fit(K, t, a)
  BY <1>1 DEF Fit, Visiting
<1>4. Goes(K, t, a, b)
  BY <1>1, <1>2, <1>3 DEF Goes
<1>5. Leads(K, <<t>>, a, b)
  BY <1>4, LeadsOne
<1> QED BY <1>5 DEF t

\* The functions of an implementation, and what closes it.
LEMMA ImplLead ==
  ASSUME crate \in Crates, NEW K \in Stacked, id0 \in Items, ~IsModuleNode(id0), NEW p, NEW c, ArePaths(p, c), NEW a,
         Sits(K, id0, a), InItsModule(K, id0, a), Under(K, id0, a),
         NEW do \in {"closeRibs", "closeImpl"}, NEW b, b = After(K, do, id0, a), IsSeq(b), Len(b) > 0
  PROVE  Leads(K, AssociatedTasks(p, c) \o <<Todo("leaveImpl", id0), Todo(do, id0)>>, a, b)
<1>1. Leads(K, AssociatedTasks(p, c), a, a)
  BY AssociatedLead
<1>2. Goes(K, Todo("leaveImpl", id0), a, a)
  BY VisibilityGoes DEF Items, Nodes
<1>3. Goes(K, Todo(do, id0), a, b)
  <2> DEFINE t == Todo(do, id0)
  <2>1. t.do = do /\ t.node = id0 /\ IsSeq(t.prefix) /\ IsSeq(t.canonical)
    BY TodoFields
  <2> HIDE DEF t
  <2>2. IsTask(t)
    BY <2>1 DEF IsTask, Dos, Items, Nodes
  <2>3. Fit(K, t, a)
    BY <2>1 DEF Fit, Visiting
  <2>4. Goes(K, t, a, b)
    BY <2>1, <2>2, <2>3 DEF Goes
  <2> QED BY <2>4 DEF t
<1>4. Leads(K, <<Todo("leaveImpl", id0), Todo(do, id0)>>, a, b)
  BY <1>2, <1>3, LeadsPair
<1> QED BY <1>1, <1>4, LeadsConcat

\* Implementations of a trait.
LEMMA TraitImplSteps ==
  ASSUME crate \in Crates, NEW K \in Stacked, NEW a, NEW b, Leads(K, work, a, b),
         ResolveTraitImpl \/ GiveUp \/ TraitFound \/ ImplementTrait
  PROVE  Leads(K, work', a, b)
<1> DEFINE c == After(K, task.do, id0, a)
<1>0. \A do \in {"resolve", "ofTrait", "forType"} : do \in Visiting
  BY DEF Visiting
<1>1. CASE ResolveTraitImpl
  <2> DEFINE s == <<Todo("visibility", id0), Todo("openRibs", id0)>>
             t == <<Task("ofTrait", id0, task.prefix, task.canonical)>>
  <2>1. /\ work # <<>> /\ Call(s \o TypeTasks(id0, 1) \o t) /\ task.do = "resolve"
        /\ crate[id0].kind = "TraitImpl"
    BY <1>1 DEF ResolveTraitImpl, At, item
  <2>2. id0 \in Items /\ id0 \in Nodes /\ Sits(K, id0, a) /\ InItsModule(K, id0, a)
        /\ ArePaths(task.prefix, task.canonical)
    BY <1>0, <2>1, AtVisit
  <2>3. "openRibs" \in Openers /\ Closer["openRibs"] = "closeRibs" /\ "resolve" \in Level
    BY DEF Openers, Closer, Level
  <2>4. PICK d : /\ Goes(K, Todo("openRibs", id0), a, d) /\ Goes(K, Todo("closeRibs", id0), d, a)
                 /\ Sits(K, id0, d) /\ (K = "modules" => d = a) /\ Under(K, id0, d)
    BY <2>2, <2>3, PairGoes
  <2>5. InItsModule(K, id0, d)
    BY <2>2, <2>4 DEF InItsModule
  <2>6. 1 \in 1..Len(crate[id0].types)
    <3>1. Len(crate[id0].types) = 2
      BY <2>1, <2>2, TypesShape
    <3> QED BY <3>1
  <2>7. Leads(K, s, a, d)
    BY <2>2, <2>4, VisibilityGoes, LeadsPair
  <2>8. Leads(K, TypeTasks(id0, 1), d, d)
    BY <2>2, <2>4, <2>5, <2>6, TypeTasksLead
  <2>9. Leads(K, t, d, a)
    <3>1. "ofTrait" \in Ending /\ After(K, "closeRibs", id0, d) = a
      BY <2>4, TodoFields DEF Ending, Goes
    <3>2. a = After(K, "ofTrait", id0, d)
      BY <3>1, EndingEffect
    <3>3. IsSeq(a) /\ Len(a) > 0
      BY <2>2 DEF Sits
    <3> QED BY <2>2, <2>4, <2>5, <3>2, <3>3, EndGoes
  <2> HIDE DEF s, t
  <2>10. Leads(K, s \o TypeTasks(id0, 1) \o t, a, a)
    BY <2>7, <2>8, <2>9, LeadsConcat
  <2> QED BY <2>1, <2>3, <2>10, LevelCall
<1>2. ASSUME work # <<>>, task.do = "ofTrait" \/ task.do = "forType"
      PROVE  /\ id0 \in Items /\ Sits(K, id0, a) /\ InItsModule(K, id0, a) /\ Under(K, id0, a)
             /\ IsSeq(c) /\ Len(c) > 0 /\ c = After(K, "closeRibs", id0, a)
             /\ c = After(K, "forType", id0, a) /\ ArePaths(task.prefix, task.canonical)
  <2>1. task.do \in Ending /\ "forType" \in Ending
    BY <1>2 DEF Ending
  <2>2. After(K, task.do, id0, a) = After(K, "closeRibs", id0, a)
        /\ After(K, "forType", id0, a) = After(K, "closeRibs", id0, a)
    BY <2>1, EndingEffect
  <2> QED BY <1>0, <1>2, <2>2, AtVisit, AtFront
<1>3. CASE GiveUp
  <2>1. work # <<>> /\ Call(<<Todo("closeRibs", id0)>>) /\ (task.do = "ofTrait" \/ task.do = "forType")
    BY <1>3 DEF GiveUp, At
  <2>2. Leads(K, <<Task("closeRibs", id0, Empty, Empty)>>, a, c)
    <3> HIDE DEF c
    <3> QED BY <1>2, <2>1, SingleIsSeq, EndGoes DEF ArePaths
  <2> QED BY <2>1, <2>2, CallLeads DEF Todo
<1>4. CASE TraitFound
  <2> DEFINE t == <<Task("forType", id0, task.prefix, task.canonical)>>
  <2>1. /\ work # <<>> /\ Call(TypeTasks(id0, 2) \o t) /\ task.do = "ofTrait"
        /\ crate[id0].kind = "TraitImpl"
    BY <1>4 DEF TraitFound, At, item
  <2>2. 2 \in 1..Len(crate[id0].types)
    <3>1. Len(crate[id0].types) = 2
      BY <1>2, <2>1, TypesShape
    <3> QED BY <3>1
  <2>3. Leads(K, TypeTasks(id0, 2), a, a)
    BY <1>2, <2>1, <2>2, TypeTasksLead
  <2>4. Leads(K, t, a, c)
    <3> HIDE DEF c
    <3> QED BY <1>2, <2>1, EndGoes
  <2> HIDE DEF t
  <2>5. Leads(K, TypeTasks(id0, 2) \o t, a, c)
    BY <2>3, <2>4, LeadsConcat
  <2> QED BY <2>1, <2>5, CallLeads
<1>5. CASE ImplementTrait
  <2> DEFINE s == AssociatedTasks(task.prefix, task.canonical)
                    \o <<Todo("leaveImpl", id0), Todo("closeRibs", id0)>>
  <2>1. /\ work # <<>> /\ Call(s) /\ task.do = "forType" /\ ~IsModuleNode(id0)
    BY <1>5 DEF ImplementTrait, At, item, IsModuleNode
  <2>2. Leads(K, s, a, c)
    <3> HIDE DEF c
    <3> QED BY <1>2, <2>1, ImplLead
  <2> HIDE DEF s
  <2> QED BY <2>1, <2>2, CallLeads
<1> QED BY <1>1, <1>3, <1>4, <1>5

\* Canonical paths are sequences, and all that types have been resolved to are
\* nodes.
NamesPaths ==
  /\ \A id \in NodeId : IsSeq(canonicals[id])
  /\ \A r \in resolutions : r[2] > 0 /\ r[3] = 0 => r[5] \in NodeId

LEMMA SelfIsPath ==
  ASSUME NamesPaths, ArePaths(task.prefix, task.canonical),
         NEW self, self = IF ~Unprintable(1) THEN CanonicalOf(1, ResolvedTo(id0, 1)) ELSE <<>>
  PROVE  ArePaths(task.prefix \o self, InherentPath(task.canonical, self))
<1> DEFINE def == ResolvedTo(id0, 1)
           defs == {r[5] : r \in {q \in resolutions : q[1] = id0 /\ q[2] = 1 /\ q[3] = 0}}
<1>1. IsSeq(self)
  <2>1. CASE Unprintable(1)
    BY <2>1, EmptyIsSeq
  <2>2. CASE ~Unprintable(1)
    <3>1. def # NoNode
      BY <2>2 DEF Unprintable, HasCanonicalPath
    <3>2. def \in defs
      <4>1. def = IF defs = {} THEN NoNode ELSE CHOOSE d \in defs : TRUE
        BY DEF ResolvedTo
      <4> HIDE DEF def, defs
      <4> QED BY <3>1, <4>1
    <3>3. def \in NodeId
      <4>1. defs \subseteq NodeId
        BY DEF NamesPaths
      <4> QED BY <3>2, <4>1
    <3>4. IsSeq(canonicals[def])
      BY <3>3 DEF NamesPaths
    <3>5. self = CanonicalOf(1, def)
      BY <2>2
    <3> HIDE DEF def
    <3>6. self = <<>> \/ self = canonicals[def] \/ \E e : self = Append(canonicals[def], e)
      BY <3>5 DEF CanonicalOf, WithArguments
    <3> QED BY <3>4, <3>6, EmptyIsSeq, AppendIsSeq
  <2> QED BY <2>1, <2>2
<1>2. IsSeq(task.prefix \o self)
  BY <1>1, ConcatIsSeq DEF ArePaths
<1>3. InherentPath(task.canonical, self) = self \/ \E e : InherentPath(task.canonical, self) = Append(task.canonical, e)
  BY DEF InherentPath, ImplPath
<1> QED BY <1>1, <1>2, <1>3, AppendIsSeq DEF ArePaths

LEMMA InherentLeads ==
  ASSUME crate \in Crates, NEW K \in Stacked, NEW a, NEW b, Leads(K, work, a, b), NameInherentImpl, NamesPaths
  PROVE  Leads(K, work', a, b)
<1> DEFINE c == After(K, task.do, id0, a)
           s(p, q) == AssociatedTasks(p, q) \o <<Todo("leaveImpl", id0), Todo("closeImpl", id0)>>
<1>1. work # <<>> /\ task.do = "inherent" /\ task.do \in Visiting /\ ~IsModuleNode(id0)
  BY DEF NameInherentImpl, At, Visiting, item, IsModuleNode
<1>2. PICK p, q : Call(s(p, q)) /\ ArePaths(p, q)
  <2> DEFINE self == IF ~Unprintable(1) THEN CanonicalOf(1, ResolvedTo(id0, 1)) ELSE <<>>
  <2>1. Call(s(task.prefix \o self, InherentPath(task.canonical, self)))
    BY DEF NameInherentImpl
  <2>2. ArePaths(task.prefix \o self, InherentPath(task.canonical, self))
    BY <1>1, AtVisit, SelfIsPath
  <2> HIDE DEF s, self
  <2> QED BY <2>1, <2>2
<1>3. /\ id0 \in Items /\ Sits(K, id0, a) /\ InItsModule(K, id0, a) /\ Under(K, id0, a)
      /\ IsSeq(c) /\ Len(c) > 0 /\ c = After(K, "closeImpl", id0, a)
  BY <1>1, EndingEffect, AtVisit, AtFront
<1>4. Leads(K, s(p, q), a, c)
  <2> HIDE DEF c
  <2> QED BY <1>1, <1>2, <1>3, ImplLead
<1> HIDE DEF s
<1> QED BY <1>1, <1>2, <1>4, CallLeads

\* An inherent implementation opens its ribs at once.
Opened(K, a) == IF K \in Scoped THEN Append(a, id0) ELSE a

LEMMA ResolveInherentLeads ==
  ASSUME crate \in Crates, NEW K \in Stacked, NEW a, NEW b, Leads(K, work, a, b), ResolveInherentImpl
  PROVE  Leads(K, work', Opened(K, a), b)
<1> DEFINE d == Opened(K, a)
           s == <<Todo("visibility", id0)>>
           t == <<Task("inherent", id0, task.prefix, task.canonical)>>
<1>1. work # <<>> /\ Call(s \o AllTypes(id0) \o t) /\ task.do = "resolve" /\ task.do \in Visiting /\ task.do \in Level
  BY DEF ResolveInherentImpl, At, Visiting, Level
<1>2. /\ id0 \in Items /\ id0 \in Nodes /\ Sits(K, id0, a) /\ InItsModule(K, id0, a)
      /\ ArePaths(task.prefix, task.canonical)
  BY <1>1, AtVisit
<1>3. Sits(K, id0, d) /\ InItsModule(K, id0, d) /\ Under(K, id0, d) /\ (K \in Scoped => Front(d) = a)
  BY <1>2, SitsMore DEF Opened, InItsModule, Under, Scoped
<1>4. a = After(K, "inherent", id0, d) /\ IsSeq(a) /\ Len(a) > 0
  BY <1>2, <1>3, EndingEffect DEF Opened, Sits
<1> HIDE DEF d
<1>5. Leads(K, s, d, d)
  BY <1>2, <1>3, VisibilityGoes, LeadsOne
<1>6. Leads(K, AllTypes(id0), d, d)
  BY <1>2, <1>3, AllTypesLead
<1>7. Leads(K, t, d, a)
  BY <1>2, <1>3, <1>4, EndGoes
<1> HIDE DEF s, t
<1>8. Leads(K, s \o AllTypes(id0) \o t, d, a)
  BY <1>5, <1>6, <1>7, LeadsConcat
<1>9. After(K, task.do, id0, a) = a
  BY <1>1, LevelEffect
<1>10. Leads(K, work', d, b)
  BY <1>1, <1>8, <1>9, CallLeads
<1> QED BY <1>10 DEF d

\* A module is gathered from inside.
Entered(K, a) == IF K = "modules" THEN Append(a, id0) ELSE a

LEMMA EnteredFacts ==
  ASSUME NEW K, NEW a, Sits(K, id0, a)
  PROVE  /\ Sits(K, id0, Entered(K, a))
         /\ K = "modules" => Last(Entered(K, a)) = id0 /\ Front(Entered(K, a)) = a
         /\ K # "modules" => Entered(K, a) = a
BY SitsMore DEF Entered

\* Its items are in it.
LEMMA InModule ==
  ASSUME crate \in Crates, id0 \in Items, IsModuleNode(id0), NEW x \in Values(Inside(id0))
  PROVE  /\ x \in Items /\ Parent(x) = id0 /\ ModuleOf(x) = id0 /\ Gathered(x)
         /\ OpenAround(x) = Around(id0)
<1>1. id0 \in Nodes
  BY DEF Items, Nodes
<1>2. x \in Items /\ Parent(x) = id0
  BY <1>1, InsideValues
<1> QED BY <1>2, ModuleOfEquation, GatheredEquation, ChildFacts

LEMMA GatherModuleLeads ==
  ASSUME crate \in Crates, NEW K \in Stacked, NEW a, NEW b, Leads(K, work, a, b), GatherModule
  PROVE  Leads(K, work', Entered(K, a), b)
<1> DEFINE d == Entered(K, a)
           s == Tasks("gather", Inside(id0), OwnPrefix, OwnCanonical)
           t == <<Task("leaveGathered", id0, task.prefix, task.canonical)>>
<1>1. /\ work # <<>> /\ Call(s \o t) /\ task.do = "gather" /\ task.do \in Level /\ IsModuleNode(id0)
  BY DEF GatherModule, AtGather, At, Level, IsModuleNode, item
<1>2. /\ id0 \in Items /\ id0 \in Nodes /\ Sits(K, id0, a) /\ Gathers(K, task, a)
      /\ ArePaths(task.prefix, task.canonical) /\ ArePaths(OwnPrefix, OwnCanonical)
  BY <1>1, AtGathering
<1>3. /\ Sits(K, id0, d) /\ (K = "modules" => Last(d) = id0 /\ Front(d) = a)
      /\ K # "modules" => d = a
  BY <1>2, EnteredFacts
<1>4. OwnPrefix # <<>> /\ OwnCanonical # <<>>
  BY <1>2, EmptyIsNoPath DEF OwnPrefix, OwnCanonical, Below, ArePaths
<1>5. ASSUME NEW x \in Values(Inside(id0)) PROVE Goes(K, Task("gather", x, OwnPrefix, OwnCanonical), d, d)
  <2>1. /\ x \in Items /\ Parent(x) = id0 /\ ModuleOf(x) = id0 /\ Gathered(x)
        /\ OpenAround(x) = Around(id0)
    BY <1>1, <1>2, InModule
  <2>2. Sits(K, x, d)
    BY <1>3, <2>1, SitsChild
  <2>3. K \in Scoped => Last(d) \in OpenAround(x)
    BY <1>2, <1>3, <2>1 DEF Scoped, Gathers, Around, id0
  <2>4. <<>> \notin {OwnPrefix, OwnCanonical}
    BY <1>4
  <2> HIDE DEF d
  <2> QED BY <1>2, <1>3, <2>1, <2>2, <2>3, <2>4, GatherGoes
<1>6. IsSeq(Inside(id0))
  BY <1>2, InsideValues
<1>7. Leads(K, s, d, d)
  BY <1>5, <1>6, TasksLead
<1>8. Leads(K, t, d, a)
  <2> DEFINE u == Task("leaveGathered", id0, task.prefix, task.canonical)
  <2>1. u.do = "leaveGathered" /\ u.node = id0 /\ IsSeq(u.prefix) /\ IsSeq(u.canonical)
    BY <1>2, TaskFields DEF ArePaths
  <2> HIDE DEF u, d
  <2>2. IsTask(u) /\ Fit(K, u, d)
    BY <1>2, <1>3, <2>1 DEF IsTask, Fit, Dos, Visiting
  <2>3. "leaveGathered" \notin Opens[K] /\ ("leaveGathered" \in Closes[K] <=> K = "modules")
    BY DEF Stacked, Opens, Closes, Ending
  <2>4. a = After(K, u.do, u.node, d)
    BY <1>3, <2>1, <2>3 DEF After
  <2>5. Goes(K, u, d, a)
    BY <1>2, <2>2, <2>4 DEF Goes, Sits
  <2> QED BY <2>5, LeadsOne DEF u
<1> HIDE DEF s, t, d
<1>9. Leads(K, s \o t, d, a)
  BY <1>7, <1>8, LeadsConcat
<1>10. After(K, task.do, id0, a) = a
  BY <1>1, LevelEffect
<1>11. Leads(K, work', d, b)
  BY <1>1, <1>9, <1>10, CallLeads
<1> QED BY <1>11 DEF d

\* The second entering and the leaving of a module.
LEMMA ModuleTaskGoes ==
  ASSUME NEW K \in Stacked, id0 \in Nodes, NEW a, Sits(K, id0, a), K = "modules" => Last(a) = id0
  PROVE  /\ Goes(K, Todo("enterModule", id0), a, Entered(K, a))
         /\ Goes(K, Todo("leaveModule", id0), Entered(K, a), a)
<1> DEFINE t == Todo("enterModule", id0)
           u == Todo("leaveModule", id0)
           d == Entered(K, a)
<1>1. /\ t.do = "enterModule" /\ t.node = id0 /\ u.do = "leaveModule" /\ u.node = id0
      /\ IsSeq(t.prefix) /\ IsSeq(t.canonical) /\ IsSeq(u.prefix) /\ IsSeq(u.canonical)
  BY TodoFields
<1>2. /\ Sits(K, id0, d) /\ (K = "modules" => Last(d) = id0 /\ Front(d) = a)
      /\ K # "modules" => d = a
  BY EnteredFacts
<1>3. /\ "enterModule" \in Opens[K] <=> K = "modules"
      /\ "enterModule" \notin Closes[K] /\ "leaveModule" \notin Opens[K]
      /\ "leaveModule" \in Closes[K] <=> K = "modules"
  BY DEF Stacked, Opens, Closes, Ending
<1>4. After(K, "enterModule", id0, a) = d /\ After(K, "leaveModule", id0, d) = a
  BY <1>2, <1>3 DEF After, Entered
<1> HIDE DEF t, u, d
<1>5. IsTask(t) /\ Fit(K, t, a) /\ IsTask(u) /\ Fit(K, u, d)
  BY <1>1, <1>2 DEF IsTask, Fit, Dos, Visiting
<1>6. Goes(K, t, a, d) /\ Goes(K, u, d, a)
  BY <1>1, <1>2, <1>4, <1>5 DEF Goes, Sits
<1> QED BY <1>6 DEF t, u, d

\* A module that is visited is entered before anything else; the second time
\* its items are visited as those of a module that is entered twice.
LEMMA ResolveModuleLeads ==
  ASSUME crate \in Crates, NEW K \in Stacked, NEW a, NEW b, Leads(K, work, a, b), ResolveModule
  PROVE  Leads(K, work', Entered(K, a), b)
<1> DEFINE s1 == <<Todo("visibility", id0), Todo("openRibs", id0)>>
           s2 == Tasks("gather", Inside(id0), Empty, OwnCanonical)
           s3 == <<Todo("enterModule", id0)>>
           s4 == Tasks("resolve", Inside(id0), OwnPrefix, OwnCanonical)
           s5 == <<Todo("leaveModule", id0), Todo("closeRibs", id0), Todo("leaveModule", id0)>>
           d == Entered(K, a)
<1>1. /\ work # <<>> /\ Call(s1 \o s2 \o s3 \o s4 \o s5) /\ task.do = "resolve"
      /\ task.do \in Level /\ task.do \in Visiting /\ IsModuleNode(id0)
  BY DEF ResolveModule, At, Level, Visiting, IsModuleNode, item
<1>2. /\ id0 \in Items /\ id0 \in Nodes /\ Sits(K, id0, a) /\ InItsModule(K, id0, a)
      /\ ArePaths(OwnPrefix, OwnCanonical)
  BY <1>1, AtVisit
<1>3. /\ Sits(K, id0, d) /\ (K = "modules" => Last(d) = id0 /\ Front(d) = a)
      /\ K # "modules" => d = a
  BY <1>2, EnteredFacts
<1>4. "openRibs" \in Openers /\ Closer["openRibs"] = "closeRibs"
  BY DEF Openers, Closer
<1>5. PICK o : /\ Goes(K, Todo("openRibs", id0), d, o) /\ Goes(K, Todo("closeRibs", id0), o, d)
               /\ Sits(K, id0, o) /\ (K = "modules" => o = d) /\ Under(K, id0, o)
  BY <1>2, <1>3, <1>4, PairGoes
<1> DEFINE q == Entered(K, o)
<1>6. /\ Goes(K, Todo("enterModule", id0), o, q) /\ Goes(K, Todo("leaveModule", id0), q, o)
  BY <1>2, <1>3, <1>5, ModuleTaskGoes
<1>7. Goes(K, Todo("leaveModule", id0), d, a)
  <2> DEFINE u == Todo("leaveModule", id0)
  <2>1. u.do = "leaveModule" /\ u.node = id0 /\ IsSeq(u.prefix) /\ IsSeq(u.canonical)
    BY TodoFields
  <2> HIDE DEF u, d
  <2>2. "leaveModule" \notin Opens[K] /\ ("leaveModule" \in Closes[K] <=> K = "modules")
    BY DEF Stacked, Opens, Closes, Ending
  <2>3. IsTask(u) /\ Fit(K, u, d) /\ a = After(K, u.do, u.node, d)
    BY <1>2, <1>3, <2>1, <2>2 DEF IsTask, Fit, Dos, Visiting, After
  <2>4. Goes(K, u, d, a)
    BY <1>2, <2>3 DEF Goes, Sits
  <2> QED BY <2>4 DEF u
<1>8. /\ Sits(K, id0, q) /\ (K = "modules" => Last(q) = id0)
      /\ K # "modules" => q = o
  BY <1>5, EnteredFacts
<1>9. K = "modules" => (Len(q) > 1 => q[Len(q) - 1] = id0)
  <2> SUFFICES ASSUME K = "modules" PROVE q[Len(q) - 1] = id0
    OBVIOUS
  <2>1. IsSeq(d) /\ Last(d) = id0 /\ q = Append(d, id0) /\ Len(d) > 0
    BY <1>3, <1>5 DEF Entered, Sits
  <2> HIDE DEF d, q
  <2>2. Len(q) = Len(d) + 1 /\ Len(d) \in Nat /\ Len(d) \in 1..Len(d)
    BY <2>1, AppendIsSeq DEF IsSeq
  <2>3. q[Len(d)] = d[Len(d)] /\ Len(q) - 1 = Len(d)
    BY <2>1, <2>2, AppendParts
  <2> QED BY <2>1, <2>3 DEF Last
<1> HIDE DEF d, q
<1>10. IsSeq(Inside(id0)) /\ IsSeq(Empty)
  BY <1>2, InsideValues, SingleIsSeq
<1>11. Leads(K, s1, d, o)
  BY <1>2, <1>3, <1>5, VisibilityGoes, LeadsPair
<1>12. Leads(K, s2, o, o)
  <2>1. ASSUME NEW x \in Values(Inside(id0)) PROVE Goes(K, Task("gather", x, Empty, OwnCanonical), o, o)
    <3>1. /\ x \in Items /\ Parent(x) = id0 /\ ModuleOf(x) = id0 /\ Gathered(x)
          /\ OpenAround(x) = Around(id0)
      BY <1>1, <1>2, InModule
    <3>2. Sits(K, x, o)
      BY <1>5, <3>1, SitsChild
    <3>3. K \in Scoped => Last(o) \in OpenAround(x) /\ Last(o) = Parent(x)
      BY <1>5, <3>1 DEF Under, Around
    <3>4. K = "modules" => Last(o) = ModuleOf(x)
      BY <1>3, <1>5, <3>1
    <3>5. ArePaths(Empty, OwnCanonical)
      BY <1>2, <1>10 DEF ArePaths
    <3> QED BY <3>1, <3>2, <3>3, <3>4, <3>5, GatherGoes
  <2> QED BY <1>10, <2>1, TasksLead
<1>13. Leads(K, s3, o, q)
  BY <1>6, LeadsOne
<1>14. Leads(K, s4, q, q)
  <2>1. ASSUME NEW x \in Values(Inside(id0)) PROVE Goes(K, Task("resolve", x, OwnPrefix, OwnCanonical), q, q)
    <3>1. /\ x \in Items /\ Parent(x) = id0 /\ ModuleOf(x) = id0
      BY <1>1, <1>2, InModule
    <3>2. Sits(K, x, q)
      BY <1>8, <3>1, SitsChild
    <3>3. InItsModule(K, x, q)
      BY <1>8, <1>9, <3>1 DEF InItsModule
    <3>4. Under(K, Parent(x), q)
      BY <1>5, <1>8, <3>1 DEF Under, Scoped
    <3> QED BY <1>2, <3>1, <3>2, <3>3, <3>4, VisitGoes
  <2> QED BY <1>10, <2>1, TasksLead
<1>15. Leads(K, s5, q, a)
  BY <1>5, <1>6, <1>7, LeadsTriple
<1> HIDE DEF s1, s2, s3, s4, s5
<1>16. Leads(K, s1 \o s2 \o s3 \o s4 \o s5, d, a)
  <2>1. Leads(K, s1 \o s2, d, o)
    BY <1>11, <1>12, LeadsConcat
  <2>2. Leads(K, s1 \o s2 \o s3, d, q)
    BY <2>1, <1>13, LeadsConcat
  <2>3. Leads(K, s1 \o s2 \o s3 \o s4, d, q)
    BY <2>2, <1>14, LeadsConcat
  <2> QED BY <2>3, <1>15, LeadsConcat
<1>17. After(K, task.do, id0, a) = a
  BY <1>1, LevelEffect
<1>18. Leads(K, work', d, b)
  BY <1>1, <1>16, <1>17, CallLeads
<1> QED BY <1>18 DEF d

-----------------------------------------------------------------------------
(* The scopes *)

IsRib(rib) ==
  /\ rib = [node |-> rib.node, path |-> rib.path, kind |-> rib.kind, decls |-> rib.decls,
            refs |-> rib.refs]
  /\ rib.path = [n \in Name |-> rib.path[n]]

\* What a name may mean in the rib of a node.
Denotes(o, w, d) ==
  \/ d \in Items /\ crate[d].kind \notin Impls /\ crate[d].name = w /\ o \in KnownIn(d)
  \/ d = OwnNode(o) /\ (crate[o].param = w \/ (crate[o].kind \in Impls \cup {"Trait"} /\ w = "Self"))
  \/ w = "i32" /\ d = Builtin

Told(rib, w) == rib.path[Single(w)]

\* A rib in which each name means what it may, and a scope of such ribs.
Clear(rib, o) ==
  /\ IsRib(rib) /\ rib.node = o
  /\ \A w \in Known : Told(rib, w) # NoNode => Denotes(o, w, Told(rib, w))

Holds(scope, a) ==
  /\ IsSeq(scope) /\ IsSeq(a) /\ Len(a) = Len(scope)
  /\ \A i \in 1..Len(a) : Clear(scope[i], a[i])

LEMMA SingleName == \A w \in Known : Single(w) \in Name
BY ItemsAssumption

LEMMA SinglesDiffer ==
  ASSUME NEW v, NEW w, Single(v) = Single(w)
  PROVE  v = w
<1>1. Single(v)[1] = <<v>> /\ Single(w)[1] = <<w>>
  BY DEF Single, Segment
<1>2. <<v>>[1] = v /\ <<w>>[1] = w
  OBVIOUS
<1> QED BY <1>1, <1>2

LEMMA NewRibClear ==
  ASSUME NEW o
  PROVE  Clear(NewRib(o), o)
<1>1. \A w \in Known : Told(NewRib(o), w) = NoNode
  BY SingleName DEF NewRib, Told
<1>2. IsRib(NewRib(o)) /\ NewRib(o).node = o
  BY DEF IsRib, NewRib
<1> QED BY <1>1, <1>2 DEF Clear

LEMMA InsertNameClear ==
  ASSUME NEW rib, NEW o, Clear(rib, o), NEW n, NEW id, NEW k,
         \A w \in Known : n = Single(w) => Denotes(o, w, id)
  PROVE  Clear(InsertName(rib, n, id, TRUE, k), o)
<1> DEFINE t == InsertName(rib, n, id, TRUE, k)
<1>1. IsRib(rib) /\ rib.node = o
  BY DEF Clear
<1>2. t = [rib EXCEPT !.path[n] = id, !.decls = @ \cup {id}, !.refs[id] = {},
                      !.kind[id] = IF @ = NoKind THEN k ELSE @]
  BY DEF InsertName
<1>3. /\ t.node = rib.node /\ t.path = [rib.path EXCEPT ![n] = id]
      /\ t = [node |-> t.node, path |-> t.path, kind |-> t.kind, decls |-> t.decls, refs |-> t.refs]
  BY <1>1, <1>2 DEF IsRib
<1> HIDE DEF t
<1> DEFINE f == rib.path
           g == t.path
<1>4. f = [m \in Name |-> f[m]] /\ g = [f EXCEPT ![n] = id]
  BY <1>1, <1>3 DEF IsRib
<1> HIDE DEF f, g
<1>5. g = [m \in Name |-> g[m]] /\ \A m \in Name : g[m] = IF m = n THEN id ELSE f[m]
  BY <1>4
<1>6. ASSUME NEW w \in Known, Told(t, w) # NoNode PROVE Denotes(o, w, Told(t, w))
  <2>1. Told(t, w) = g[Single(w)] /\ Told(rib, w) = f[Single(w)] /\ Single(w) \in Name
    BY SingleName DEF Told, f, g
  <2>2. CASE Single(w) = n
    BY <1>5, <2>1, <2>2
  <2>3. CASE Single(w) # n
    <3>1. Told(t, w) = Told(rib, w)
      BY <1>5, <2>1, <2>3
    <3> QED BY <1>6, <3>1 DEF Clear
  <2> QED BY <2>2, <2>3
<1>7. IsRib(t)
  BY <1>3, <1>5 DEF IsRib, g
<1>8. Clear(t, o)
  BY <1>1, <1>3, <1>6, <1>7 DEF Clear
<1> QED BY <1>8 DEF t

LEMMA ClearNameClear ==
  ASSUME NEW rib, NEW o, Clear(rib, o), NEW n, NEW id
  PROVE  Clear(ClearName(rib, n, id), o)
<1> DEFINE t == ClearName(rib, n, id)
<1>1. IsRib(rib) /\ rib.node = o
  BY DEF Clear
<1>2. t = [rib EXCEPT !.path[n] = NoNode, !.decls = @ \ {id}]
  BY DEF ClearName
<1>3. /\ t.node = rib.node /\ t.path = [rib.path EXCEPT ![n] = NoNode]
      /\ t = [node |-> t.node, path |-> t.path, kind |-> t.kind, decls |-> t.decls, refs |-> t.refs]
  BY <1>1, <1>2 DEF IsRib
<1> HIDE DEF t
<1> DEFINE f == rib.path
           g == t.path
<1>4. f = [m \in Name |-> f[m]] /\ g = [f EXCEPT ![n] = NoNode]
  BY <1>1, <1>3 DEF IsRib
<1> HIDE DEF f, g
<1>5. g = [m \in Name |-> g[m]] /\ \A m \in Name : g[m] = IF m = n THEN NoNode ELSE f[m]
  BY <1>4
<1>6. ASSUME NEW w \in Known, Told(t, w) # NoNode PROVE Denotes(o, w, Told(t, w))
  <2>1. Told(t, w) = g[Single(w)] /\ Told(rib, w) = f[Single(w)] /\ Single(w) \in Name
    BY SingleName DEF Told, f, g
  <2>2. Told(t, w) = Told(rib, w)
    BY <1>5, <1>6, <2>1
  <2> QED BY <1>6, <2>2 DEF Clear
<1>7. IsRib(t)
  BY <1>3, <1>5 DEF IsRib, g
<1>8. Clear(t, o)
  BY <1>1, <1>3, <1>6, <1>7 DEF Clear
<1> QED BY <1>8 DEF t

LEMMA HoldsLength ==
  ASSUME NEW s, NEW a, Holds(s, a), Len(a) > 0
  PROVE  /\ IsSeq(s) /\ IsSeq(a) /\ Len(s) = Len(a) /\ Len(s) \in Nat /\ Len(s) \in 1..Len(s)
         /\ Clear(s[Len(s)], Last(a)) /\ s = [i \in 1..Len(s) |-> s[i]]
<1>1. IsSeq(s) /\ IsSeq(a) /\ Len(a) = Len(s) /\ Len(s) \in Nat
  BY DEF Holds, IsSeq
<1>2. Len(s) \in 1..Len(s) /\ s = [i \in 1..Len(s) |-> s[i]]
  BY <1>1 DEF IsSeq
<1> QED BY <1>1, <1>2 DEF Holds, Last

\* The innermost rib is replaced.
LEMMA HoldsExcept ==
  ASSUME NEW s, NEW a, Holds(s, a), Len(a) > 0, NEW t, NEW rib, t = [s EXCEPT ![Len(s)] = rib],
         Clear(rib, Last(a))
  PROVE  Holds(t, a)
<1>1. /\ IsSeq(s) /\ IsSeq(a) /\ Len(s) = Len(a) /\ Len(s) \in Nat /\ Len(s) \in 1..Len(s)
      /\ s = [i \in 1..Len(s) |-> s[i]]
  BY HoldsLength
<1>2. IsSeq(t) /\ Len(t) = Len(s)
  BY <1>1, ExceptIsSeq
<1>3. \A i \in 1..Len(s) : t[i] = IF i = Len(s) THEN rib ELSE s[i]
  BY <1>1
<1>4. ASSUME NEW i \in 1..Len(a) PROVE Clear(t[i], a[i])
  BY <1>1, <1>3 DEF Holds, Last
<1> QED BY <1>1, <1>2, <1>4 DEF Holds

LEMMA InsertHolds ==
  ASSUME NEW s, NEW a, Holds(s, a), Len(a) > 0, NEW n, NEW id, NEW k,
         \A w \in Known : n = Single(w) => Denotes(Last(a), w, id)
  PROVE  Holds(Insert(s, n, id, k), a)
<1> DEFINE rib == InsertName(s[Len(s)], n, id, TRUE, k)
<1>1. /\ Len(s) \in 1..Len(s) /\ s = [i \in 1..Len(s) |-> s[i]]
      /\ Clear(s[Len(s)], Last(a))
  BY HoldsLength
<1>2. Clear(rib, Last(a))
  BY <1>1, InsertNameClear
<1>3. Insert(s, n, id, k) = [s EXCEPT ![Len(s)] = rib]
  BY <1>1 DEF Insert
<1> HIDE DEF rib
<1> QED BY <1>2, <1>3, HoldsExcept

LEMMA ClearHolds ==
  ASSUME NEW s, NEW a, Holds(s, a), Len(a) > 0, NEW n, NEW id
  PROVE  Holds([s EXCEPT ![Len(s)] = ClearName(@, n, id)], a)
<1> DEFINE rib == ClearName(s[Len(s)], n, id)
<1>1. /\ Len(s) \in 1..Len(s) /\ s = [i \in 1..Len(s) |-> s[i]]
      /\ Clear(s[Len(s)], Last(a))
  BY HoldsLength
<1>2. Clear(rib, Last(a))
  BY <1>1, ClearNameClear
<1>3. [s EXCEPT ![Len(s)] = ClearName(@, n, id)] = [s EXCEPT ![Len(s)] = rib]
  BY <1>1
<1> HIDE DEF rib
<1> QED BY <1>2, <1>3, HoldsExcept

LEMMA PushHolds ==
  ASSUME NEW s, NEW a, Holds(s, a), NEW id
  PROVE  Holds(Push(s, id), Append(a, id)) /\ Last(Append(a, id)) = id
<1> DEFINE rib == NewRib(id)
           t == Append(s, rib)
           b == Append(a, id)
           n == Len(s)
<1>1. IsSeq(s) /\ IsSeq(a) /\ Len(a) = n /\ n \in Nat
  BY DEF Holds, IsSeq
<1>2. IsSeq(t) /\ IsSeq(b) /\ Len(t) = n + 1 /\ Len(b) = n + 1
  BY <1>1, AppendIsSeq
<1>3. /\ \A i \in 1..n : t[i] = s[i] /\ b[i] = a[i]
      /\ t[n + 1] = rib /\ b[n + 1] = id /\ Last(b) = id
  BY <1>1, AppendParts
<1>4. Clear(rib, id)
  BY NewRibClear
<1>5. \A i \in 1..n : Clear(s[i], a[i])
  BY <1>1 DEF Holds
<1> HIDE DEF t, b, rib, n
<1>6. ASSUME NEW i \in 1..(n + 1) PROVE Clear(t[i], b[i])
  <2>1. i \in 1..n \/ i = n + 1
    BY <1>1
  <2> QED BY <1>3, <1>4, <1>5, <2>1
<1>7. Holds(t, b)
  BY <1>2, <1>6 DEF Holds
<1> QED BY <1>3, <1>7 DEF t, b, rib, Push

LEMMA PopHolds ==
  ASSUME NEW s, NEW a, Holds(s, a), Len(a) > 0
  PROVE  Holds(Pop(s), Front(a))
<1> DEFINE t == Front(s)
           b == Front(a)
           n == Len(s)
<1>1. IsSeq(s) /\ IsSeq(a) /\ Len(a) = n /\ n \in Nat /\ n > 0
  BY DEF Holds, IsSeq
<1>2. /\ IsSeq(t) /\ IsSeq(b) /\ Len(t) = n - 1 /\ Len(b) = n - 1
      /\ \A i \in 1..(n - 1) : t[i] = s[i] /\ b[i] = a[i]
  BY <1>1, FrontParts
<1>3. \A i \in 1..n : Clear(s[i], a[i])
  BY <1>1 DEF Holds
<1>4. Pop(s) = t
  BY DEF Pop, Front
<1> HIDE DEF t, b, n
<1>5. \A i \in 1..(n - 1) : Clear(t[i], b[i])
  <2>1. \A i \in 1..(n - 1) : i \in 1..n
    BY <1>1
  <2> QED BY <1>2, <1>3, <2>1
<1>6. Holds(t, b)
  BY <1>2, <1>5 DEF Holds
<1> QED BY <1>4, <1>6 DEF b

\* Items entered one after the other.
LEMMA InsertAllHolds ==
  ASSUME NEW s, NEW a, Holds(s, a), Len(a) > 0, NEW ids, IsSeq(ids), NEW p, NEW k,
         \A x \in Values(ids) : \A w \in Known : Below(p, x) = Single(w) => Denotes(Last(a), w, x)
  PROVE  Holds(InsertAll(s, ids, p, k), a)
<1> DEFINE n == Len(ids)
           Step(f, i) == IF i = 0 THEN s ELSE Insert(f[i - 1], Below(p, ids[i]), ids[i], k)
           Solves(f, m) == f = [i \in 0..m |-> Step(f, i)]
           P == {m \in Nat : \E f : Solves(f, m)}
<1>0. n \in Nat
  BY DEF IsSeq
<1> HIDE DEF n
<1>1. 0 \in P
  <2> DEFINE g == [i \in 0..0 |-> s]
  <2>1. ASSUME NEW i \in 0..0 PROVE g[i] = Step(g, i)
    OBVIOUS
  <2>2. g = [i \in 0..0 |-> g[i]]
    OBVIOUS
  <2> HIDE DEF g, Step
  <2>3. Solves(g, 0)
    BY <2>1, <2>2
  <2> HIDE DEF Solves
  <2> QED BY <2>3
<1>2. ASSUME NEW m \in P \cap Nat PROVE m + 1 \in P
  <2>1. PICK f : Solves(f, m)
    OBVIOUS
  <2> DEFINE v == Insert(f[m], Below(p, ids[m + 1]), ids[m + 1], k)
             h == [i \in 0..(m + 1) |-> IF i = m + 1 THEN v ELSE f[i]]
  <2>2. ASSUME NEW i \in 0..(m + 1) PROVE h[i] = Step(h, i)
    <3>1. CASE i = m + 1
      <4>1. i # 0 /\ i - 1 = m /\ m \in 0..(m + 1) /\ m # m + 1
        BY <3>1
      <4>2. h[i] = v /\ h[m] = f[m]
        BY <3>1, <4>1
      <4> HIDE DEF h
      <4> QED BY <3>1, <4>1, <4>2
    <3>2. CASE i # m + 1
      <4>1. i \in 0..m /\ (i # 0 => i - 1 \in 0..(m + 1) /\ i - 1 # m + 1)
        BY <3>2
      <4>2. f[i] = Step(f, i)
        BY <2>1, <4>1
      <4>3. h[i] = f[i] /\ (i # 0 => h[i - 1] = f[i - 1])
        BY <3>2, <4>1
      <4> HIDE DEF h
      <4> QED BY <4>2, <4>3
    <3> QED BY <3>1, <3>2
  <2>3. h = [i \in 0..(m + 1) |-> h[i]]
    OBVIOUS
  <2> HIDE DEF h, Step
  <2>4. Solves(h, m + 1) /\ m + 1 \in Nat
    BY <2>2, <2>3
  <2> HIDE DEF Solves
  <2> QED BY <2>4
<1> DEFINE upTo == CHOOSE f : Solves(f, n)
<1>3. Solves(upTo, n)
  <2>1. n \in P
    <3> HIDE DEF P
    <3> QED BY <1>0, <1>1, <1>2, Induction
  <2> HIDE DEF Solves
  <2> QED BY <2>1
<1>4. InsertAll(s, ids, p, k) = upTo[n]
  BY DEF InsertAll, n
<1> HIDE DEF upTo, P
<1> DEFINE Q == {i \in Nat : i <= n => Holds(upTo[i], a)}
<1>5. 0 \in Q
  <2>1. upTo[0] = s
    BY <1>0, <1>3
  <2> QED BY <2>1
<1>6. ASSUME NEW i \in Q \cap Nat PROVE i + 1 \in Q
  <2>1. SUFFICES ASSUME i + 1 <= n PROVE Holds(upTo[i + 1], a)
    OBVIOUS
  <2>2. i + 1 \in 0..n /\ i + 1 # 0 /\ (i + 1) - 1 = i /\ i <= n /\ i + 1 \in 1..n
    BY <1>0, <2>1
  <2>3. upTo[i + 1] = Insert(upTo[i], Below(p, ids[i + 1]), ids[i + 1], k)
    BY <1>3, <2>2
  <2>4. ids[i + 1] \in Values(ids)
    BY <2>2 DEF Values, n
  <2>5. Holds(upTo[i], a)
    BY <2>2
  <2> HIDE DEF Q, Solves
  <2> QED BY <2>3, <2>4, <2>5, InsertHolds
<1> HIDE DEF Q
<1>7. n \in Q
  BY <1>0, <1>5, <1>6, Induction
<1>8. Holds(upTo[n], a)
  BY <1>0, <1>7 DEF Q
<1> QED BY <1>4, <1>8

LEMMA DeclareHolds ==
  ASSUME NEW s, NEW a, Holds(s, a), Len(a) > 0, NEW id, NEW param, Last(a) = id,
         param = "" \/ crate[id].param = param \/ (crate[id].kind \in Impls \cup {"Trait"} /\ param = "Self")
  PROVE  Holds(DeclareParam(s, id, param), a)
<1>1. CASE param = ""
  BY <1>1 DEF DeclareParam
<1>2. CASE param # ""
  <2>1. ASSUME NEW w \in Known, Single(param) = Single(w) PROVE Denotes(Last(a), w, OwnNode(id))
    <3>1. w = param
      BY <2>1, SinglesDiffer
    <3> QED BY <1>2, <3>1 DEF Denotes
  <2>2. DeclareParam(s, id, param) = Insert(s, Single(param), OwnNode(id), "Type")
    BY <1>2 DEF DeclareParam
  <2>3. ASSUME NEW n, NEW d, \A w \in Known : n = Single(w) => Denotes(Last(a), w, d)
        PROVE  Holds(Insert(s, n, d, "Type"), a)
    BY <2>3, InsertHolds
  <2>4. Holds(Insert(s, Single(param), OwnNode(id), "Type"), a)
    BY <2>1, <2>3
  <2> QED BY <2>2, <2>4
<1> QED BY <1>1, <1>2

-----------------------------------------------------------------------------
(* The stacks through the steps *)

End == <<CrateNode>>

\* No step changes the tree, nor what is said of the tree alone.
LEMMA SameTree ==
  ASSUME crate' = crate
  PROVE  /\ Nodes' = Nodes /\ Items' = Items
         /\ \A x : ModuleOf(x)' = ModuleOf(x)
         /\ \A x : OpenAround(x)' = OpenAround(x)
         /\ \A x : Gathered(x)' <=> Gathered(x)
         /\ \A x : InBody(x)' <=> InBody(x)
         /\ \A x : Parent(x)' = Parent(x)
         /\ \A x : KnownIn(x)' = KnownIn(x)
         /\ \A x : Around(x)' = Around(x)
<1>1. Nodes' = Nodes /\ Items' = Items
  BY DEF Nodes, Items
<1>2. \A x : ModuleOf(x)' = ModuleOf(x)
  BY DEF ModuleOf, Items
<1>3. \A x : OpenAround(x)' = OpenAround(x)
  BY DEF OpenAround
<1>4. \A x : Gathered(x)' <=> Gathered(x)
  BY DEF Gathered, Items
<1>5. \A x : (InBody(x)' <=> InBody(x)) /\ Parent(x)' = Parent(x)
  BY DEF InBody, Parent
<1>6. \A x : KnownIn(x)' = KnownIn(x)
  <2>1. SUFFICES ASSUME NEW x PROVE KnownIn(x)' = KnownIn(x)
    OBVIOUS
  <2>2. \A o \in {x, crate[x].parent} \ {CrateNode} : InBody(o)' <=> InBody(o)
    BY <1>5
  <2>3. OpenAround(x)' = OpenAround(x)
    BY <1>3
  <2> QED BY <2>2, <2>3 DEF KnownIn, Impls
<1>7. \A x : Around(x)' = Around(x)
  BY <1>3 DEF Around
<1> QED BY <1>1, <1>2, <1>3, <1>4, <1>5, <1>6, <1>7

LEMMA SameGoes ==
  ASSUME crate' = crate, NEW K, NEW t, NEW a, NEW b, Goes(K, t, a, b)
  PROVE  Goes(K, t, a, b)'
<1>1. IsTask(t)'
  BY SameTree DEF Goes, IsTask
<1>2. Sits(K, t.node, a)'
  BY SameTree DEF Goes, Fit, Sits
<1>3. Fit(K, t, a)'
  BY <1>2, SameTree DEF Goes, Fit, InItsModule, Under, Gathers
<1> QED BY <1>1, <1>3 DEF Goes

LEMMA SameLeads ==
  ASSUME crate' = crate, NEW K, NEW a, Leads(K, work', a, End)
  PROVE  Leads(K, work, a, End)'
<1>1. IsSeq(work')
  BY DEF Leads
<1>2. PICK f : f[0] = a /\ f[Len(work')] = End /\ Along(K, work', f)
  BY DEF Leads
<1>3. Along(K, work, f)'
  BY <1>2, SameGoes DEF Along
<1> QED BY <1>1, <1>2, <1>3 DEF Leads

-----------------------------------------------------------------------------
(* What the handlers enter *)

\* Only what is entered under no prefix is found by its bare name.
LEMMA BelowSingle ==
  ASSUME NEW p, IsSeq(p), NEW x, NEW w, Below(p, x) = Single(w)
  PROVE  p = <<>> /\ crate[x].name = w
<1> DEFINE e == Segment(crate[x].name)
<1>1. Len(Append(p, e)) = Len(p) + 1 /\ Append(p, e)[Len(p) + 1] = e /\ Len(p) \in Nat
  BY AppendIsSeq, AppendParts DEF IsSeq
<1>2. Len(Single(w)) = 1 /\ Single(w)[1] = <<w>>
  BY DEF Single, Segment
<1>3. Append(p, e) = Single(w)
  BY DEF Below
<1>4. Len(p) = 0 /\ e = <<w>>
  <2> HIDE DEF e
  <2>1. Len(p) + 1 = 1
    BY <1>1, <1>2, <1>3
  <2>2. Len(p) = 0 /\ Len(p) + 1 = 1
    BY <1>1, <2>1
  <2> QED BY <1>1, <1>2, <1>3, <2>2
<1>5. crate[x].name = w
  <2>1. <<crate[x].name>>[1] = crate[x].name /\ <<w>>[1] = w
    OBVIOUS
  <2> QED BY <1>4, <2>1 DEF Segment
<1> QED BY <1>4, <1>5, LenOfEmpty

LEMMA LongerPath ==
  ASSUME NEW p, IsSeq(p), NEW x, NEW y, NEW w
  PROVE  Below(Below(p, x), y) # Single(w)
<1>1. IsSeq(Below(p, x)) /\ Below(p, x) # <<>>
  BY EmptyIsNoPath DEF Below
<1> QED BY <1>1, BelowSingle

\* What is gathered, and what of a trait or an implementation is entered beside it.
LEMMA GatheredMeans ==
  ASSUME crate \in Crates, NEW K \in Scoped, NEW a, NEW b, Leads(K, work, a, b), work # <<>>,
         task.do = "gather", NEW p \in {task.prefix, task.canonical}, NEW w \in Known
  PROVE  /\ Below(p, id0) = Single(w) => Denotes(Last(a), w, id0)
         /\ \A x \in Items : Parent(x) = id0 /\ crate[id0].kind \in Impls \cup {"Trait"}
              => (Below(p, x) = Single(w) => Denotes(Last(a), w, x))
<1>1. /\ id0 \in Items /\ Gathers(K, task, a) /\ ArePaths(task.prefix, task.canonical)
  BY AtGathering
<1>2. IsSeq(p) /\ (p = <<>> => <<>> \in {task.prefix, task.canonical})
  BY <1>1 DEF ArePaths
<1>3. /\ Last(a) \in OpenAround(id0)
      /\ p = <<>> => Last(a) = Parent(id0) \/ InBody(id0)
  BY <1>1, <1>2 DEF Gathers, id0
<1>4. ASSUME Below(p, id0) = Single(w) PROVE Denotes(Last(a), w, id0)
  <2>1. p = <<>> /\ crate[id0].name = w
    BY <1>2, <1>4, BelowSingle
  <2>2. crate[id0].kind \notin Impls
    BY <1>1, <2>1, ItemShape
  <2>3. id0 # CrateNode
    BY <1>1 DEF Items
  <2>4. Last(a) \in KnownIn(id0)
    BY <1>3, <2>1, <2>3 DEF KnownIn, Parent
  <2> QED BY <1>1, <2>1, <2>2, <2>4 DEF Denotes
<1>5. ASSUME NEW x \in Items, Parent(x) = id0, crate[id0].kind \in Impls \cup {"Trait"},
             Below(p, x) = Single(w)
      PROVE  Denotes(Last(a), w, x)
  <2>1. p = <<>> /\ crate[x].name = w
    BY <1>2, <1>5, BelowSingle
  <2>2. crate[x].kind \notin Impls
    BY <2>1, ItemShape
  <2>3. id0 # CrateNode /\ crate[x].parent = id0
    BY <1>1, <1>5 DEF Items, Parent
  <2>4. OpenAround(id0) \subseteq OpenAround(x)
    BY <1>5, ChildFacts DEF Around
  <2>5. Last(a) \in KnownIn(x)
    BY <1>3, <1>5, <2>1, <2>3, <2>4 DEF KnownIn, Parent
  <2> QED BY <2>1, <2>2, <2>5 DEF Denotes
<1> QED BY <1>4, <1>5

\* What is visited is entered in what it stands in.
LEMMA VisitedMeans ==
  ASSUME crate \in Crates, NEW K \in Scoped, NEW a, NEW b, Leads(K, work, a, b), work # <<>>,
         task.do \in {"resolve", "inTrait"}, NEW w \in Known
  PROVE  /\ Single(crate[id0].name) = Single(w) => Denotes(Last(a), w, id0)
         /\ OwnPrefix = Single(w) => Denotes(Last(a), w, id0)
<1>1. task.do \in Visiting
  BY DEF Visiting
<1>2. id0 \in Items /\ Under(K, Parent(id0), a) /\ IsSeq(task.prefix)
  BY <1>1, AtVisit DEF ArePaths
<1>3. Last(a) \in KnownIn(id0)
  BY <1>2 DEF Under, KnownIn, Parent
<1>4. crate[id0].name = w => Denotes(Last(a), w, id0)
  BY <1>2, <1>3, ItemShape DEF Denotes
<1> QED BY <1>2, <1>4, SinglesDiffer, BelowSingle DEF OwnPrefix

\* The type an implementation is for.
LEMMA SelfMeans ==
  ASSUME NEW K \in Scoped, NEW a, NEW b, Leads(K, work, a, b), work # <<>>,
         task.do \in {"inherent", "forType"}, crate[id0].kind \in Impls, NEW w \in Known,
         Single("Self") = Single(w)
  PROVE  Denotes(Last(a), w, OwnNode(id0))
<1>1. task.do \in Visiting
  BY DEF Visiting
<1>2. Last(a) = id0
  BY <1>1, AtVisit DEF Under
<1> QED BY <1>2, SinglesDiffer DEF Denotes

\* The first half of what is told about a scope at a time: the stack it has and
\* where it leads.
On(K, scope, a) == K \in Stacked /\ Holds(scope, a) /\ Leads(K, work, a, End)

LEMMA OnLength ==
  ASSUME NEW K, NEW scope, NEW a, On(K, scope, a), work # <<>>
  PROVE  Len(a) > 0
BY AtFront DEF On, Sits

LEMMA EnterOne ==
  ASSUME NEW K, NEW scope, NEW a, On(K, scope, a), work # <<>>, NEW n, NEW id, NEW k,
         \A w \in Known : n = Single(w) => Denotes(Last(a), w, id)
  PROVE  Holds(Insert(scope, n, id, k), a)
BY OnLength, InsertHolds DEF On

\* An item entered under its own path, when it is gathered.
LEMMA EnterGathered ==
  ASSUME crate \in Crates, NEW K \in Scoped, NEW scope, NEW a, On(K, scope, a), work # <<>>,
         task.do = "gather", NEW k
  PROVE  /\ Holds(Insert(scope, OwnPrefix, id0, k), a)
         /\ Holds(Insert(scope, OwnCanonical, id0, k), a)
<1>1. ASSUME NEW n \in {OwnPrefix, OwnCanonical}, NEW w \in Known, n = Single(w)
      PROVE  Denotes(Last(a), w, id0)
  BY <1>1, GatheredMeans DEF On, OwnPrefix, OwnCanonical
<1>2. ASSUME NEW n \in {OwnPrefix, OwnCanonical} PROVE Holds(Insert(scope, n, id0, k), a)
  <2>1. \A w \in Known : n = Single(w) => Denotes(Last(a), w, id0)
    BY <1>1, <1>2
  <2> HIDE DEF OwnPrefix, OwnCanonical
  <2> QED BY <2>1, EnterOne
<1> QED BY <1>2

\* Items below an item that is gathered: none is known by its bare name.
LEMMA EnterDeeper ==
  ASSUME NEW scope, NEW a, Holds(scope, a), Len(a) > 0, NEW ids, IsSeq(ids), NEW p, IsSeq(p), NEW x, NEW k
  PROVE  Holds(InsertAll(scope, ids, Below(p, x), k), a)
<1>1. \A y \in Values(ids) : \A w \in Known : Below(Below(p, x), y) = Single(w) => Denotes(Last(a), w, y)
  BY LongerPath
<1> QED BY <1>1, InsertAllHolds

\* Those of a trait or an implementation, entered beside it.
LEMMA EnterBeside ==
  ASSUME crate \in Crates, NEW K \in Scoped, NEW a, Leads(K, work, a, End), work # <<>>,
         NEW scope, Holds(scope, a), task.do = "gather", crate[id0].kind \in Impls \cup {"Trait"},
         NEW ids, IsSeq(ids), \A x \in Values(ids) : x \in Items /\ Parent(x) = id0, NEW k
  PROVE  Holds(InsertAll(scope, ids, task.prefix, k), a)
<1>1. ASSUME NEW x \in Values(ids), NEW w \in Known, Below(task.prefix, x) = Single(w)
      PROVE  Denotes(Last(a), w, x)
  BY <1>1, GatheredMeans
<1>2. Len(a) > 0
  BY AtFront DEF Sits
<1> DEFINE p == task.prefix
<1>3. \A x \in Values(ids) : \A w \in Known : Below(p, x) = Single(w) => Denotes(Last(a), w, x)
  BY <1>1
<1> HIDE DEF p
<1>4. Holds(InsertAll(scope, ids, p, k), a)
  BY <1>2, <1>3, InsertAllHolds
<1> QED BY <1>4 DEF p

\* An item entered by its bare name, or under its prefix, when it is visited.
LEMMA EnterVisited ==
  ASSUME crate \in Crates, NEW K \in Scoped, NEW scope, NEW a, On(K, scope, a), work # <<>>,
         task.do \in {"resolve", "inTrait"}, NEW k
  PROVE  /\ Holds(Insert(scope, Single(crate[id0].name), id0, k), a)
         /\ Holds(Insert(scope, OwnPrefix, id0, k), a)
<1>1. ASSUME NEW n \in {Single(crate[id0].name), OwnPrefix}, NEW w \in Known, n = Single(w)
      PROVE  Denotes(Last(a), w, id0)
  BY <1>1, VisitedMeans DEF On
<1>2. ASSUME NEW n \in {Single(crate[id0].name), OwnPrefix} PROVE Holds(Insert(scope, n, id0, k), a)
  <2>1. \A w \in Known : n = Single(w) => Denotes(Last(a), w, id0)
    BY <1>1, <1>2
  <2> HIDE DEF OwnPrefix
  <2> QED BY <2>1, EnterOne
<1> QED BY <1>2

LEMMA EnterSelf ==
  ASSUME NEW K \in Scoped, NEW scope, NEW a, On(K, scope, a), work # <<>>,
         task.do \in {"inherent", "forType"}, crate[id0].kind \in Impls, NEW k
  PROVE  Holds(Insert(scope, Single("Self"), OwnNode(id0), k), a)
<1> DEFINE n == Single("Self")
           d == OwnNode(id0)
<1>1. \A w \in Known : n = Single(w) => Denotes(Last(a), w, d)
  BY SelfMeans DEF On
<1> HIDE DEF n, d
<1>2. Holds(Insert(scope, n, d, k), a)
  BY <1>1, EnterOne
<1> QED BY <1>2 DEF n, d

\* The items of a trait of one kind.
LEMMA InsideOfValues ==
  ASSUME crate \in Crates, NEW id \in Nodes, NEW kind
  PROVE  /\ IsSeq(InsideOf(id, kind))
         /\ \A x \in Values(InsideOf(id, kind)) : x \in Items /\ Parent(x) = id
<1> DEFINE S == {x \in Node(kind) : crate[x].parent = id}
<1>1. InsideOf(id, kind) = InOrder(S)
  BY DEF InsideOf
<1>2. Len(crate) \in Nat /\ Parent(CrateNode) # id
  <2>1. id \in 1..Len(crate) /\ Len(crate) \in Nat /\ Parent(CrateNode) = NoNode
    BY CrateShape
  <2>2. id # 0
    BY <2>1
  <2> QED BY <2>1, <2>2 DEF NoNode
<1>3. \A x \in S : x \in Items /\ Parent(x) = id
  BY <1>2 DEF Items, Parent, Node
<1> HIDE DEF S
<1>4. IsSeq(InOrder(S)) /\ Values(InOrder(S)) \subseteq S
  BY <1>2, InOrderValues
<1> QED BY <1>1, <1>3, <1>4

-----------------------------------------------------------------------------
(* What each step does to the scopes *)

\* The three scopes with their stacks.
AllOn(a, b, c) ==
  On("names", nameScope, a) /\ On("types", typeScope, b) /\ On("labels", labelScope, c)

AllHold(a, b, c) ==
  Holds(nameScope', a) /\ Holds(typeScope', b) /\ Holds(labelScope', c)

\* The steps of the first pass keep the stacks.
LEMMA GatheringHolds ==
  ASSUME crate \in Crates, NEW a, NEW b, NEW c, AllOn(a, b, c),
         GatherModule \/ GatherFunction \/ GatherConstant \/ GatherType \/ GatherEnumeration
           \/ GatherTrait \/ GatherImplementation
  PROVE  AllHold(a, b, c)
<1>0. /\ On("names", nameScope, a) /\ On("types", typeScope, b)
      /\ Holds(nameScope, a) /\ Holds(typeScope, b) /\ Holds(labelScope, c)
      /\ Leads("names", work, a, End) /\ Leads("types", work, b, End)
      /\ "names" \in Scoped /\ "types" \in Scoped
  BY DEF AllOn, On, Scoped
<1>1. work # <<>> /\ task.do = "gather"
  BY DEF GatherModule, GatherFunction, GatherConstant, GatherType, GatherEnumeration,
         GatherTrait, GatherImplementation, AtGather, At
<1>2. ASSUME NEW k
      PROVE  /\ Holds(Insert(nameScope, OwnPrefix, id0, k), a)
             /\ Holds(Insert(nameScope, OwnCanonical, id0, k), a)
             /\ Holds(Insert(typeScope, OwnPrefix, id0, k), b)
             /\ Holds(Insert(typeScope, OwnCanonical, id0, k), b)
  BY <1>0, <1>1, EnterGathered
<1>3. /\ Len(a) > 0 /\ Len(b) > 0 /\ id0 \in Nodes
      /\ IsSeq(task.prefix) /\ IsSeq(task.canonical)
  BY <1>0, <1>1, OnLength, AtGathering DEF ArePaths
<1>4. CASE GatherModule \/ GatherFunction \/ GatherConstant
  BY <1>0, <1>2, <1>4 DEF AllHold, GatherModule, GatherFunction, GatherConstant
<1>5. CASE GatherType
  BY <1>0, <1>2, <1>5 DEF AllHold, GatherType
<1>6. CASE GatherEnumeration
  <2>1. PICK S : /\ typeScope' = InsertAll(Insert(typeScope, OwnPrefix, id0, "Type"), InOrder(S), OwnPrefix, "Type")
                 /\ nameScope' = nameScope /\ labelScope' = labelScope
    BY <1>6 DEF GatherEnumeration
  <2>2. IsSeq(InOrder(S))
    BY CrateShape, InOrderValues
  <2>3. Holds(InsertAll(Insert(typeScope, OwnPrefix, id0, "Type"), InOrder(S), Below(task.prefix, id0), "Type"), b)
    BY <1>2, <1>3, <2>2, EnterDeeper
  <2> QED BY <1>0, <2>1, <2>3 DEF AllHold, OwnPrefix
<1>7. CASE GatherTrait
  <2> DEFINE s == Insert(typeScope, OwnCanonical, id0, "Trait")
             ids == InsideOf(id0, "TypeAlias")
             funs == InsideOf(id0, "Function")
  <2>1. /\ typeScope' = InsertAll(s, ids, task.prefix, "Type")
        /\ nameScope' = InsertAll(nameScope, funs, OwnCanonical, "Function")
        /\ labelScope' = labelScope /\ crate[id0].kind = "Trait"
    BY <1>7 DEF GatherTrait, AtGather, At, item
  <2>2. /\ IsSeq(ids) /\ \A x \in Values(ids) : x \in Items /\ Parent(x) = id0
        /\ IsSeq(funs)
    BY <1>3, InsideOfValues
  <2>3. Holds(s, b)
    BY <1>2
  <2> HIDE DEF s, ids, funs
  <2>4. Holds(InsertAll(s, ids, task.prefix, "Type"), b)
    BY <1>0, <1>1, <2>1, <2>2, <2>3, EnterBeside
  <2>5. Holds(InsertAll(nameScope, funs, Below(task.canonical, id0), "Function"), a)
    BY <1>0, <1>3, <2>2, EnterDeeper
  <2> QED BY <1>0, <2>1, <2>4, <2>5 DEF AllHold, OwnCanonical
<1>8. CASE GatherImplementation
  <2> DEFINE ids == Inside(id0)
  <2>1. /\ nameScope' = InsertAll(nameScope, ids, task.prefix, "Function")
        /\ typeScope' = typeScope /\ labelScope' = labelScope /\ crate[id0].kind \in Impls
    BY <1>8 DEF GatherImplementation, AtGather, At, item
  <2>2. IsSeq(ids) /\ \A x \in Values(ids) : x \in Items /\ Parent(x) = id0
    BY <1>3, InsideValues
  <2> HIDE DEF ids
  <2>3. Holds(InsertAll(nameScope, ids, task.prefix, "Function"), a)
    BY <1>0, <1>1, <2>1, <2>2, EnterBeside
  <2> QED BY <1>0, <2>1, <2>3 DEF AllHold
<1> QED BY <1>4, <1>5, <1>6, <1>7, <1>8

\* So do those of the second pass that enter an item or a Self.
LEMMA VisitingHolds ==
  ASSUME crate \in Crates, NEW a, NEW b, NEW c, AllOn(a, b, c),
         ResolveStruct \/ ResolveTypeAlias \/ ResolveEnumeration \/ ResolveTrait \/ ResolveConstant
           \/ ResolveTypeAliasInTrait \/ NameInherentImpl \/ ImplementTrait \/ LeaveImpl
  PROVE  AllHold(a, b, c)
<1>0. /\ On("names", nameScope, a) /\ On("types", typeScope, b)
      /\ Holds(nameScope, a) /\ Holds(typeScope, b) /\ Holds(labelScope, c)
      /\ "names" \in Scoped /\ "types" \in Scoped
  BY DEF AllOn, On, Scoped
<1>1. CASE ResolveStruct \/ ResolveTypeAlias \/ ResolveEnumeration \/ ResolveTrait \/ ResolveTypeAliasInTrait
  <2>1. /\ work # <<>> /\ task.do \in {"resolve", "inTrait"}
        /\ \E k : typeScope' = Insert(typeScope, Single(crate[id0].name), id0, k)
                  \/ typeScope' = Insert(typeScope, OwnPrefix, id0, k)
        /\ nameScope' = nameScope /\ labelScope' = labelScope
    BY <1>1 DEF ResolveStruct, ResolveTypeAlias, ResolveEnumeration, ResolveTrait,
                ResolveTypeAliasInTrait, At, item
  <2>2. ASSUME NEW k PROVE /\ Holds(Insert(typeScope, Single(crate[id0].name), id0, k), b)
                           /\ Holds(Insert(typeScope, OwnPrefix, id0, k), b)
    BY <1>0, <2>1, EnterVisited
  <2> QED BY <1>0, <2>1, <2>2 DEF AllHold
<1>2. CASE ResolveConstant
  <2>1. /\ work # <<>> /\ task.do \in {"resolve", "inTrait"}
        /\ nameScope' = Insert(nameScope, Single(crate[id0].name), id0, "Variable")
        /\ typeScope' = typeScope /\ labelScope' = labelScope
    BY <1>2 DEF ResolveConstant, At, item
  <2>2. Holds(Insert(nameScope, Single(crate[id0].name), id0, "Variable"), a)
    BY <1>0, <2>1, EnterVisited
  <2> QED BY <1>0, <2>1, <2>2 DEF AllHold
<1>3. CASE NameInherentImpl \/ ImplementTrait
  <2>1. /\ work # <<>> /\ task.do \in {"inherent", "forType"} /\ crate[id0].kind \in Impls
        /\ typeScope' = Insert(typeScope, Single("Self"), OwnNode(id0), "Unkown")
        /\ nameScope' = nameScope /\ labelScope' = labelScope
    BY <1>3 DEF NameInherentImpl, ImplementTrait, At, item, Impls, TypesOfImpl
  <2>2. Holds(Insert(typeScope, Single("Self"), OwnNode(id0), "Unkown"), b)
    BY <1>0, <2>1, EnterSelf
  <2> QED BY <1>0, <2>1, <2>2 DEF AllHold
<1>4. CASE LeaveImpl
  <2>1. /\ work # <<>> /\ nameScope' = nameScope /\ labelScope' = labelScope
        /\ typeScope' = [typeScope EXCEPT ![Len(typeScope)] = ClearName(@, Single("Self"), OwnNode(id0))]
    BY <1>4 DEF LeaveImpl, At
  <2>2. Len(b) > 0
    BY <1>0, <2>1, OnLength
  <2>3. Holds([typeScope EXCEPT ![Len(typeScope)] = ClearName(@, Single("Self"), OwnNode(id0))], b)
    BY <1>0, <2>2, ClearHolds
  <2> QED BY <1>0, <2>1, <2>3 DEF AllHold
<1> QED BY <1>1, <1>2, <1>3, <1>4

\* The others leave the scopes alone.
LEMMA OthersHold ==
  ASSUME NEW a, NEW b, NEW c, AllOn(a, b, c), UNCHANGED scopes
  PROVE  AllHold(a, b, c)
BY DEF AllOn, On, AllHold, scopes

\* What opens and what closes on each stack.
LEMMA TurnEffect ==
  ASSUME NEW x, NEW a
  PROVE  /\ \A do \in {"openRibs", "openBlock"} : \A K \in {"names", "types", "labels"} :
              After(K, do, x, a) = Append(a, x)
         /\ \A do \in {"openRibs", "openBlock", "closeRibs", "openTypeRib", "closeTypeRib",
                       "openTrait", "closeTrait", "closeImpl"} : After("modules", do, x, a) = a
         /\ \A K \in {"names", "types", "labels"} : After(K, "closeRibs", x, a) = Front(a)
         /\ After("types", "openTypeRib", x, a) = Append(a, x)
         /\ After("types", "closeTypeRib", x, a) = Front(a)
         /\ \A K \in {"names", "labels"} :
              After(K, "openTypeRib", x, a) = a /\ After(K, "closeTypeRib", x, a) = a
         /\ \A K \in Scoped : /\ After(K, "openTrait", x, a) = Append(a, x)
                              /\ After(K, "closeTrait", x, a) = Front(a)
                              /\ After(K, "closeImpl", x, a) = Front(a)
         /\ \A do \in {"openTrait", "closeTrait", "closeImpl"} : After("labels", do, x, a) = a
         /\ \A do \in {"enterModule", "leaveModule", "leaveGathered"} :
              \A K \in {"names", "types", "labels"} : After(K, do, x, a) = a
         /\ After("modules", "enterModule", x, a) = Append(a, x)
         /\ \A do \in {"leaveModule", "leaveGathered"} : After("modules", do, x, a) = Front(a)
<1> DEFINE P == Append(a, x)
           F == Front(a)
<1> HIDE DEF P, F
<1>1. \A K, do : After(K, do, x, a) = IF do \in Opens[K] THEN P ELSE IF do \in Closes[K] THEN F ELSE a
  BY DEF After, P, F
<1>2. /\ Opens["names"] = {"openRibs", "openBlock", "openTrait"}
      /\ Opens["types"] = {"openRibs", "openBlock", "openTrait", "openTypeRib"}
      /\ Opens["labels"] = {"openRibs", "openBlock"} /\ Opens["modules"] = {"enterModule"}
  BY DEF Opens
<1>3. /\ Closes["names"] = Ending \cup {"closeTrait", "inherent", "closeImpl"}
      /\ Closes["types"] = Ending \cup {"closeTrait", "inherent", "closeImpl", "closeTypeRib"}
      /\ Closes["labels"] = Ending /\ Closes["modules"] = {"leaveModule", "leaveGathered"}
  BY DEF Closes
<1>4. \A do \in {"openRibs", "openBlock"} : \A K \in {"names", "types", "labels"} : After(K, do, x, a) = P
  BY <1>1, <1>2
<1>5. \A do \in {"openRibs", "openBlock", "closeRibs", "openTypeRib", "closeTypeRib",
                 "openTrait", "closeTrait", "closeImpl"} : After("modules", do, x, a) = a
  BY <1>1, <1>2, <1>3
<1>6. \A K \in {"names", "types", "labels"} : After(K, "closeRibs", x, a) = F
  BY <1>1, <1>2, <1>3 DEF Ending
<1>7. /\ After("types", "openTypeRib", x, a) = P /\ After("types", "closeTypeRib", x, a) = F
      /\ \A K \in {"names", "labels"} :
              After(K, "openTypeRib", x, a) = a /\ After(K, "closeTypeRib", x, a) = a
  BY <1>1, <1>2, <1>3 DEF Ending
<1>8. /\ \A K \in Scoped : /\ After(K, "openTrait", x, a) = P
                           /\ After(K, "closeTrait", x, a) = F
                           /\ After(K, "closeImpl", x, a) = F
      /\ \A do \in {"openTrait", "closeTrait", "closeImpl"} : After("labels", do, x, a) = a
  BY <1>1, <1>2, <1>3 DEF Ending, Scoped
<1>9. /\ \A do \in {"enterModule", "leaveModule", "leaveGathered"} :
              \A K \in {"names", "types", "labels"} : After(K, do, x, a) = a
      /\ After("modules", "enterModule", x, a) = P
      /\ \A do \in {"leaveModule", "leaveGathered"} : After("modules", do, x, a) = F
  BY <1>1, <1>2, <1>3 DEF Ending
<1> QED BY <1>4, <1>5, <1>6, <1>7, <1>8, <1>9 DEF P, F

\* Openings and closings do to the scopes what is said of them.
Turn == \/ OpenRibs \/ OpenBlock \/ CloseRibs \/ OpenTypeRib \/ CloseTypeRib
        \/ OpenTrait \/ CloseTrait \/ CloseImpl
        \/ EnterModuleAgain \/ LeaveModule \/ LeaveGatheredModule

LEMMA TurnsHold ==
  ASSUME NEW a, NEW b, NEW c, AllOn(a, b, c), Turn
  PROVE  /\ work # <<>> /\ Call(<<>>)
         /\ AllHold(After("names", task.do, id0, a), After("types", task.do, id0, b),
                    After("labels", task.do, id0, c))
         /\ modules' = After("modules", task.do, id0, modules)
<1>0. work # <<>> /\ Call(<<>>)
  BY DEF Turn, OpenRibs, OpenBlock, CloseRibs, OpenTypeRib, CloseTypeRib, OpenTrait, CloseTrait,
         CloseImpl, EnterModuleAgain, LeaveModule, LeaveGatheredModule, At
<1>1. /\ Holds(nameScope, a) /\ Holds(typeScope, b) /\ Holds(labelScope, c)
      /\ Len(a) > 0 /\ Len(b) > 0 /\ Len(c) > 0
  BY <1>0, OnLength DEF AllOn, On
<1> DEFINE Pushed(s, d) == Holds(Push(s, id0), Append(d, id0))
           Popped(s, d) == Holds(Pop(s), Front(d))
<1>2. /\ Pushed(nameScope, a) /\ Pushed(typeScope, b) /\ Pushed(labelScope, c)
      /\ Popped(nameScope, a) /\ Popped(typeScope, b) /\ Popped(labelScope, c)
  BY <1>1, PushHolds, PopHolds
<1>3. ASSUME NEW p, p = crate[id0].param \/ (crate[id0].kind = "Trait" /\ p = "Self")
      PROVE  Holds(DeclareParam(Push(typeScope, id0), id0, p), Append(b, id0))
  <2> DEFINE s == Push(typeScope, id0)
             d == Append(b, id0)
  <2>1. Holds(s, d) /\ Last(d) = id0
    BY <1>1, PushHolds
  <2>2. Len(d) > 0
    <3>1. IsSeq(b) /\ Len(b) \in Nat
      BY <1>1 DEF Holds, IsSeq
    <3> QED BY <3>1, AppendIsSeq
  <2> HIDE DEF s, d
  <2>3. Holds(DeclareParam(s, id0, p), d)
    BY <1>3, <2>1, <2>2, DeclareHolds
  <2> QED BY <2>3 DEF s, d
<1>4. CASE OpenRibs
  <2>1. task.do = "openRibs"
    BY <1>4 DEF OpenRibs, At
  <2>2. /\ After("names", "openRibs", id0, a) = Append(a, id0)
        /\ After("types", "openRibs", id0, b) = Append(b, id0)
        /\ After("labels", "openRibs", id0, c) = Append(c, id0)
        /\ After("modules", "openRibs", id0, modules) = modules
    BY TurnEffect DEF Scoped
  <2>3. /\ Holds(nameScope', Append(a, id0))
        /\ Holds(typeScope', Append(b, id0))
        /\ Holds(labelScope', Append(c, id0))
        /\ modules' = modules
    BY <1>1, <1>2, <1>3, <1>4, <2>1 DEF OpenRibs, item
  <2> HIDE DEF Pushed, Popped
  <2> QED BY <1>0, <2>1, <2>2, <2>3 DEF AllHold
<1>5. CASE OpenBlock
  <2>1. task.do = "openBlock"
    BY <1>5 DEF OpenBlock, At
  <2>2. /\ After("names", "openBlock", id0, a) = Append(a, id0)
        /\ After("types", "openBlock", id0, b) = Append(b, id0)
        /\ After("labels", "openBlock", id0, c) = Append(c, id0)
        /\ After("modules", "openBlock", id0, modules) = modules
    BY TurnEffect DEF Scoped
  <2>3. /\ Holds(nameScope', Append(a, id0))
        /\ Holds(typeScope', Append(b, id0))
        /\ Holds(labelScope', Append(c, id0))
        /\ modules' = modules
    BY <1>1, <1>2, <1>3, <1>5, <2>1 DEF OpenBlock
  <2> HIDE DEF Pushed, Popped
  <2> QED BY <1>0, <2>1, <2>2, <2>3 DEF AllHold
<1>6. CASE CloseRibs
  <2>1. task.do = "closeRibs"
    BY <1>6 DEF CloseRibs, At
  <2>2. /\ After("names", "closeRibs", id0, a) = Front(a)
        /\ After("types", "closeRibs", id0, b) = Front(b)
        /\ After("labels", "closeRibs", id0, c) = Front(c)
        /\ After("modules", "closeRibs", id0, modules) = modules
    BY TurnEffect DEF Scoped
  <2>3. /\ Holds(nameScope', Front(a))
        /\ Holds(typeScope', Front(b))
        /\ Holds(labelScope', Front(c))
        /\ modules' = modules
    BY <1>1, <1>2, <1>3, <1>6, <2>1 DEF CloseRibs
  <2> HIDE DEF Pushed, Popped
  <2> QED BY <1>0, <2>1, <2>2, <2>3 DEF AllHold
<1>7. CASE OpenTypeRib
  <2>1. task.do = "openTypeRib"
    BY <1>7 DEF OpenTypeRib, At
  <2>2. /\ After("names", "openTypeRib", id0, a) = a
        /\ After("types", "openTypeRib", id0, b) = Append(b, id0)
        /\ After("labels", "openTypeRib", id0, c) = c
        /\ After("modules", "openTypeRib", id0, modules) = modules
    BY TurnEffect DEF Scoped
  <2>3. /\ Holds(nameScope', a)
        /\ Holds(typeScope', Append(b, id0))
        /\ Holds(labelScope', c)
        /\ modules' = modules
    BY <1>1, <1>2, <1>3, <1>7, <2>1 DEF OpenTypeRib, item
  <2> HIDE DEF Pushed, Popped
  <2> QED BY <1>0, <2>1, <2>2, <2>3 DEF AllHold
<1>8. CASE CloseTypeRib
  <2>1. task.do = "closeTypeRib"
    BY <1>8 DEF CloseTypeRib, At
  <2>2. /\ After("names", "closeTypeRib", id0, a) = a
        /\ After("types", "closeTypeRib", id0, b) = Front(b)
        /\ After("labels", "closeTypeRib", id0, c) = c
        /\ After("modules", "closeTypeRib", id0, modules) = modules
    BY TurnEffect DEF Scoped
  <2>3. /\ Holds(nameScope', a)
        /\ Holds(typeScope', Front(b))
        /\ Holds(labelScope', c)
        /\ modules' = modules
    BY <1>1, <1>2, <1>3, <1>8, <2>1 DEF CloseTypeRib
  <2> HIDE DEF Pushed, Popped
  <2> QED BY <1>0, <2>1, <2>2, <2>3 DEF AllHold
<1>9. CASE OpenTrait
  <2>1. task.do = "openTrait" /\ crate[id0].kind = "Trait"
    BY <1>9 DEF OpenTrait, At, item
  <2>2. /\ After("names", "openTrait", id0, a) = Append(a, id0)
        /\ After("types", "openTrait", id0, b) = Append(b, id0)
        /\ After("labels", "openTrait", id0, c) = c
        /\ After("modules", "openTrait", id0, modules) = modules
    BY TurnEffect DEF Scoped
  <2>3. /\ Holds(nameScope', Append(a, id0))
        /\ Holds(typeScope', Append(b, id0))
        /\ Holds(labelScope', c)
        /\ modules' = modules
    BY <1>1, <1>2, <1>3, <1>9, <2>1 DEF OpenTrait, item
  <2> HIDE DEF Pushed, Popped
  <2> QED BY <1>0, <2>1, <2>2, <2>3 DEF AllHold
<1>10. CASE CloseTrait
  <2>1. task.do = "closeTrait"
    BY <1>10 DEF CloseTrait, At
  <2>2. /\ After("names", "closeTrait", id0, a) = Front(a)
        /\ After("types", "closeTrait", id0, b) = Front(b)
        /\ After("labels", "closeTrait", id0, c) = c
        /\ After("modules", "closeTrait", id0, modules) = modules
    BY TurnEffect DEF Scoped
  <2>3. /\ Holds(nameScope', Front(a))
        /\ Holds(typeScope', Front(b))
        /\ Holds(labelScope', c)
        /\ modules' = modules
    BY <1>1, <1>2, <1>3, <1>10, <2>1 DEF CloseTrait
  <2> HIDE DEF Pushed, Popped
  <2> QED BY <1>0, <2>1, <2>2, <2>3 DEF AllHold
<1>11. CASE CloseImpl
  <2>1. task.do = "closeImpl"
    BY <1>11 DEF CloseImpl, At
  <2>2. /\ After("names", "closeImpl", id0, a) = Front(a)
        /\ After("types", "closeImpl", id0, b) = Front(b)
        /\ After("labels", "closeImpl", id0, c) = c
        /\ After("modules", "closeImpl", id0, modules) = modules
    BY TurnEffect DEF Scoped
  <2>3. /\ Holds(nameScope', Front(a))
        /\ Holds(typeScope', Front(b))
        /\ Holds(labelScope', c)
        /\ modules' = modules
    BY <1>1, <1>2, <1>3, <1>11, <2>1 DEF CloseImpl
  <2> HIDE DEF Pushed, Popped
  <2> QED BY <1>0, <2>1, <2>2, <2>3 DEF AllHold
<1>12. CASE EnterModuleAgain
  <2>1. task.do = "enterModule"
    BY <1>12 DEF EnterModuleAgain, At
  <2>2. /\ After("names", "enterModule", id0, a) = a
        /\ After("types", "enterModule", id0, b) = b
        /\ After("labels", "enterModule", id0, c) = c
        /\ After("modules", "enterModule", id0, modules) = Append(modules, id0)
    BY TurnEffect DEF Scoped
  <2>3. /\ Holds(nameScope', a)
        /\ Holds(typeScope', b)
        /\ Holds(labelScope', c)
        /\ modules' = Append(modules, id0)
    BY <1>1, <1>2, <1>3, <1>12, <2>1 DEF EnterModuleAgain, scopes
  <2> HIDE DEF Pushed, Popped
  <2> QED BY <1>0, <2>1, <2>2, <2>3 DEF AllHold
<1>13. CASE LeaveModule
  <2>1. task.do = "leaveModule"
    BY <1>13 DEF LeaveModule, At
  <2>2. /\ After("names", "leaveModule", id0, a) = a
        /\ After("types", "leaveModule", id0, b) = b
        /\ After("labels", "leaveModule", id0, c) = c
        /\ After("modules", "leaveModule", id0, modules) = Front(modules)
    BY TurnEffect DEF Scoped
  <2>3. /\ Holds(nameScope', a)
        /\ Holds(typeScope', b)
        /\ Holds(labelScope', c)
        /\ modules' = Front(modules)
    BY <1>1, <1>2, <1>3, <1>13, <2>1 DEF LeaveModule, scopes
  <2> HIDE DEF Pushed, Popped
  <2> QED BY <1>0, <2>1, <2>2, <2>3 DEF AllHold
<1>14. CASE LeaveGatheredModule
  <2>1. task.do = "leaveGathered"
    BY <1>14 DEF LeaveGatheredModule, At
  <2>2. /\ After("names", "leaveGathered", id0, a) = a
        /\ After("types", "leaveGathered", id0, b) = b
        /\ After("labels", "leaveGathered", id0, c) = c
        /\ After("modules", "leaveGathered", id0, modules) = Front(modules)
    BY TurnEffect DEF Scoped
  <2>3. /\ Holds(nameScope', a)
        /\ Holds(typeScope', b)
        /\ Holds(labelScope', c)
        /\ modules' = Front(modules)
    BY <1>1, <1>2, <1>3, <1>14, <2>1 DEF LeaveGatheredModule, scopes
  <2> HIDE DEF Pushed, Popped
  <2> QED BY <1>0, <2>1, <2>2, <2>3 DEF AllHold
<1> QED BY <1>4, <1>5, <1>6, <1>7, <1>8, <1>9, <1>10, <1>11, <1>12, <1>13, <1>14 DEF Turn

-----------------------------------------------------------------------------
(* Every scope has a stack that what is to be done leads back to the crate *)

Way(K, scope) == \E t, a : scope = t /\ Holds(t, a) /\ Leads(K, work, a, End)

ModulesWay ==
  \E t : modules = t /\ (Leads("modules", work, t, End) \/ (work = <<>> /\ t = <<>>))

Ways == /\ Way("names", nameScope) /\ Way("types", typeScope) /\ Way("labels", labelScope)
        /\ ModulesWay

LEMMA SameHolds ==
  ASSUME crate' = crate, NEW s, NEW a, Holds(s, a)
  PROVE  Holds(s, a)'
<1>1. ASSUME NEW o, NEW w, NEW d, Denotes(o, w, d) PROVE Denotes(o, w, d)'
  BY <1>1, SameTree DEF Denotes, Impls, OwnNode, Builtin
<1>2. ASSUME NEW rib, NEW o, Clear(rib, o) PROVE Clear(rib, o)'
  <2>1. IsRib(rib) /\ rib.node = o
    BY <1>2 DEF Clear
  <2>2. ASSUME NEW w \in Known, Told(rib, w) # NoNode PROVE Denotes(o, w, Told(rib, w))'
    <3>1. PICK d : d = Told(rib, w)
      OBVIOUS
    <3>2. Denotes(o, w, d)'
      BY <1>1, <1>2, <2>2, <3>1 DEF Clear
    <3> QED BY <3>1, <3>2
  <2> QED BY <2>1, <2>2 DEF Clear
<1> QED BY <1>2 DEF Holds

LEMMA WaysAgain ==
  ASSUME crate' = crate, NEW a, NEW b, NEW c, AllHold(a, b, c),
         Leads("names", work', a, End), Leads("types", work', b, End), Leads("labels", work', c, End),
         Leads("modules", work', modules', End) \/ (work' = <<>> /\ modules' = <<>>)
  PROVE  Ways'
<1>1. PICK r, s, t, m : r = nameScope' /\ s = typeScope' /\ t = labelScope' /\ m = modules'
  OBVIOUS
<1>2. Holds(r, a)' /\ Holds(s, b)' /\ Holds(t, c)'
  BY <1>1, SameHolds DEF AllHold
<1>3. Leads("names", work, a, End)' /\ Leads("types", work, b, End)' /\ Leads("labels", work, c, End)'
  BY SameLeads
<1>4. Leads("modules", work, m, End)' \/ (work' = <<>> /\ m = <<>>)
  BY <1>1, SameLeads
<1> QED BY <1>1, <1>2, <1>3, <1>4 DEF Ways, Way, ModulesWay

\* The stacks of a state.
LEMMA WaysNow ==
  ASSUME Ways
  PROVE  \E a, b, c : /\ AllOn(a, b, c)
                      /\ Leads("modules", work, modules, End) \/ (work = <<>> /\ modules = <<>>)
BY DEF Ways, Way, ModulesWay, AllOn, On, Stacked

\* The steps that keep the stacks.
Keeping ==
  \/ GatherFunction \/ GatherConstant \/ GatherType \/ GatherEnumeration \/ GatherTrait
  \/ GatherImplementation \/ GatherUnhandled
  \/ ResolveItemVisibility \/ ResolveArgument \/ ResolveType
  \/ ResolveFunction \/ ResolveAssociatedItem
  \/ ResolveStruct \/ ResolveTypeAlias \/ ResolveUnion \/ ResolveEnumeration
  \/ ResolveEnumItem \/ ResolveConstant \/ ResolveStatic \/ ResolveUnhandled
  \/ ResolveTrait \/ ResolveFunctionInTrait
  \/ ResolveTypeAliasInTrait \/ ResolveInTraitUnhandled
  \/ NameInherentImpl \/ LeaveImpl
  \/ ResolveTraitImpl \/ GiveUp \/ TraitFound \/ ImplementTrait

LEMMA KeepingLeads ==
  ASSUME crate \in Crates, NamesPaths, Keeping, NEW K \in Stacked, NEW a, NEW b, Leads(K, work, a, b)
  PROVE  Leads(K, work', a, b)
BY QuietSteps, BodySteps, RibSteps, TraitImplSteps, InherentLeads DEF Keeping

LEMMA KeepingHolds ==
  ASSUME crate \in Crates, Keeping, NEW a, NEW b, NEW c, AllOn(a, b, c)
  PROVE  /\ AllHold(a, b, c) /\ modules' = modules /\ crate' = crate /\ work # <<>>
<1>1. AllHold(a, b, c)
  <2>1. CASE GatherFunction \/ GatherConstant \/ GatherType \/ GatherEnumeration
               \/ GatherTrait \/ GatherImplementation
    BY <2>1, GatheringHolds
  <2>2. CASE ResolveStruct \/ ResolveTypeAlias \/ ResolveEnumeration \/ ResolveTrait \/ ResolveConstant
               \/ ResolveTypeAliasInTrait \/ NameInherentImpl \/ ImplementTrait \/ LeaveImpl
    BY <2>2, VisitingHolds
  <2>3. CASE GatherUnhandled \/ ResolveItemVisibility \/ ResolveArgument \/ ResolveType
               \/ ResolveFunction \/ ResolveAssociatedItem \/ ResolveUnion \/ ResolveEnumItem
               \/ ResolveStatic \/ ResolveUnhandled \/ ResolveFunctionInTrait \/ ResolveInTraitUnhandled
               \/ ResolveTraitImpl \/ GiveUp \/ TraitFound
    <3>1. UNCHANGED scopes
      BY <2>3 DEF scopes, GatherUnhandled, ResolveItemVisibility, ResolveArgument, ResolveType,
            ResolveFunction, ResolveAssociatedItem, ResolveUnion, ResolveEnumItem, ResolveStatic,
            ResolveUnhandled, ResolveFunctionInTrait, ResolveInTraitUnhandled, ResolveTraitImpl,
            GiveUp, TraitFound
    <3> QED BY <3>1, OthersHold
  <2> QED BY <2>1, <2>2, <2>3 DEF Keeping
<1>2. /\ modules' = modules /\ crate' = crate /\ work # <<>>
  BY DEF Keeping, At, AtGather, GatherFunction, GatherConstant, GatherType, GatherEnumeration, GatherTrait,
         GatherImplementation, GatherUnhandled, ResolveItemVisibility, ResolveArgument, ResolveType,
         ResolveFunction, ResolveAssociatedItem, ResolveStruct, ResolveTypeAlias, ResolveUnion,
         ResolveEnumeration, ResolveEnumItem, ResolveConstant, ResolveStatic, ResolveUnhandled,
         ResolveTrait, ResolveFunctionInTrait, ResolveTypeAliasInTrait, ResolveInTraitUnhandled,
         NameInherentImpl, LeaveImpl, ResolveTraitImpl, GiveUp, TraitFound, ImplementTrait
<1> QED BY <1>1, <1>2

\* The scopes and the stack of modules are what is left to be done of them.
LEMMA WaysStep ==
  ASSUME crate \in Crates, NamesPaths, Ways, [Next]_vars
  PROVE  Ways' /\ crate' = crate
<1>1. PICK a, b, c : AllOn(a, b, c)
  BY WaysNow
<1>2. Leads("modules", work, modules, End) \/ (work = <<>> /\ modules = <<>>)
  BY WaysNow
<1>3. /\ Leads("names", work, a, End) /\ Leads("types", work, b, End) /\ Leads("labels", work, c, End)
      /\ "names" \in Stacked /\ "types" \in Stacked /\ "labels" \in Stacked /\ "modules" \in Stacked
  BY <1>1 DEF AllOn, On, Stacked
<1>4. CASE Keeping
  <2>1. AllHold(a, b, c) /\ modules' = modules /\ crate' = crate /\ work # <<>>
    BY <1>1, <1>4, KeepingHolds
  <2>2. Leads("modules", work, modules, End)
    BY <1>2, <2>1
  <2>3. /\ Leads("names", work', a, End) /\ Leads("types", work', b, End) /\ Leads("labels", work', c, End)
        /\ Leads("modules", work', modules', End)
    BY <1>3, <1>4, <2>1, <2>2, KeepingLeads
  <2> QED BY <2>1, <2>3, WaysAgain
<1>5. CASE Turn
  <2> DEFINE na == After("names", task.do, id0, a)
             tb == After("types", task.do, id0, b)
             lc == After("labels", task.do, id0, c)
  <2>1. /\ work # <<>> /\ Call(<<>>) /\ AllHold(na, tb, lc)
        /\ modules' = After("modules", task.do, id0, modules)
    BY <1>1, <1>5, TurnsHold
  <2>2. crate' = crate
    BY <1>5 DEF Turn, OpenRibs, OpenBlock, CloseRibs, OpenTypeRib, CloseTypeRib, OpenTrait, CloseTrait,
                CloseImpl, EnterModuleAgain, LeaveModule, LeaveGatheredModule
  <2>3. Leads("modules", work, modules, End)
    BY <1>2, <2>1
  <2>4. /\ Leads("names", work', na, End) /\ Leads("types", work', tb, End) /\ Leads("labels", work', lc, End)
        /\ Leads("modules", work', modules', End)
    BY <1>3, <2>1, <2>3, LastCall
  <2> HIDE DEF na, tb, lc
  <2> QED BY <2>1, <2>2, <2>4, WaysAgain
<1>6. CASE GatherModule \/ ResolveModule
  <2>1. /\ work # <<>> /\ crate' = crate /\ modules' = Append(modules, id0)
    BY <1>6 DEF GatherModule, ResolveModule, AtGather, At
  <2>2. AllHold(a, b, c)
    <3>1. CASE GatherModule
      BY <1>1, <3>1, GatheringHolds
    <3>2. CASE ResolveModule
      BY <1>1, <3>2, OthersHold DEF ResolveModule
    <3> QED BY <1>6, <3>1, <3>2
  <2>3. ASSUME NEW K \in Stacked, NEW d, Leads(K, work, d, End) PROVE Leads(K, work', Entered(K, d), End)
    BY <1>6, <2>3, GatherModuleLeads, ResolveModuleLeads
  <2>4. /\ Entered("names", a) = a /\ Entered("types", b) = b /\ Entered("labels", c) = c
        /\ Entered("modules", modules) = modules'
    BY <2>1 DEF Entered
  <2>5. Leads("modules", work, modules, End)
    BY <1>2, <2>1
  <2>6. /\ Leads("names", work', a, End) /\ Leads("types", work', b, End) /\ Leads("labels", work', c, End)
        /\ Leads("modules", work', modules', End)
    BY <1>3, <2>3, <2>4, <2>5
  <2> QED BY <2>1, <2>2, <2>6, WaysAgain
<1>7. CASE ResolveInherentImpl
  <2>1. /\ work # <<>> /\ crate' = crate /\ modules' = modules
        /\ nameScope' = Push(nameScope, id0) /\ typeScope' = Push(typeScope, id0) /\ labelScope' = labelScope
    BY <1>7 DEF ResolveInherentImpl, At
  <2> DEFINE d == Append(a, id0)
             e == Append(b, id0)
  <2>2. AllHold(d, e, c)
    BY <1>1, <2>1, PushHolds DEF AllOn, On, AllHold
  <2>3. /\ Opened("names", a) = d /\ Opened("types", b) = e /\ Opened("labels", c) = c
        /\ Opened("modules", modules) = modules
    BY DEF Opened, Scoped
  <2>4. Leads("modules", work, modules, End)
    BY <1>2, <2>1
  <2>5. ASSUME NEW K \in Stacked, NEW f, Leads(K, work, f, End) PROVE Leads(K, work', Opened(K, f), End)
    BY <1>7, <2>5, ResolveInherentLeads
  <2> HIDE DEF d, e
  <2>6. /\ Leads("names", work', d, End) /\ Leads("types", work', e, End) /\ Leads("labels", work', c, End)
        /\ Leads("modules", work', modules', End)
    BY <1>3, <2>1, <2>3, <2>4, <2>5
  <2> QED BY <2>1, <2>2, <2>6, WaysAgain
<1>8. CASE LeaveCrate
  <2>1. work = <<>> /\ work' = work /\ modules # <<>> /\ modules' = Front(modules) /\ crate' = crate /\ UNCHANGED scopes
    BY <1>8 DEF LeaveCrate, scopes
  <2>2. modules = End
    <3>1. PICK f : f[0] = modules /\ f[Len(work)] = End
      BY <1>2, <2>1 DEF Leads
    <3> QED BY <2>1, <3>1, EmptyIsSeq
  <2>3. modules' = <<>>
    <3>1. IsSeq(<<CrateNode>>) /\ Len(<<CrateNode>>) = 1
      <4>1. <<CrateNode>> \in Seq({CrateNode})
        OBVIOUS
      <4> QED BY <4>1, SeqIsSeq
    <3>2. IsSeq(Front(End)) /\ Len(Front(End)) = 0
      <4>1. IsSeq(End) /\ Len(End) = 1 /\ Len(End) > 0
        BY <3>1 DEF End
      <4>2. Len(Front(End)) = Len(End) - 1 /\ IsSeq(Front(End))
        BY <4>1, FrontParts
      <4> QED BY <4>1, <4>2
    <3> QED BY <2>1, <2>2, <3>2, LenOfEmpty
  <2>4. AllHold(a, b, c)
    BY <1>1, <2>1, OthersHold
  <2>5. /\ Leads("names", work', a, End) /\ Leads("types", work', b, End) /\ Leads("labels", work', c, End)
    BY <1>3, <2>1
  <2> QED BY <2>1, <2>3, <2>4, <2>5, WaysAgain
<1>9. CASE UNCHANGED vars
  <2>1. work' = work /\ modules' = modules /\ crate' = crate /\ UNCHANGED scopes
    BY <1>9 DEF vars, scopes
  <2>2. AllHold(a, b, c)
    BY <1>1, <2>1, OthersHold
  <2>3. /\ Leads("names", work', a, End) /\ Leads("types", work', b, End) /\ Leads("labels", work', c, End)
        /\ Leads("modules", work', modules', End) \/ (work' = <<>> /\ modules' = <<>>)
    BY <1>2, <1>3, <2>1
  <2> QED BY <2>1, <2>2, <2>3, WaysAgain
<1>10. Keeping \/ Turn \/ GatherModule \/ ResolveModule \/ ResolveInherentImpl \/ LeaveCrate \/ UNCHANGED vars
  BY DEF Next, Keeping, Turn, Stopped
<1>11. Ways'
  BY <1>4, <1>5, <1>6, <1>7, <1>8, <1>9, <1>10
<1>12. crate' = crate
  <2>1. Keeping => crate' = crate
    BY <1>1, KeepingHolds
  <2> QED BY <1>10, <2>1 DEF Turn, OpenRibs, OpenBlock, CloseRibs, OpenTypeRib, CloseTypeRib, OpenTrait,
          CloseTrait, CloseImpl, EnterModuleAgain, LeaveModule, LeaveGatheredModule, GatherModule,
          ResolveModule, ResolveInherentImpl, LeaveCrate, vars
<1> QED BY <1>11, <1>12

\* At the start only the scopes of the crate are open.
LEMMA EndShape ==
  /\ IsSeq(End) /\ Len(End) = 1 /\ Len(End) > 0 /\ End[1] = CrateNode /\ Last(End) = CrateNode
  /\ Values(End) = {CrateNode} /\ End = Append(<<>>, CrateNode)
<1>1. /\ End \in Seq({CrateNode}) /\ Len(End) = 1 /\ End[1] = CrateNode
      /\ End = Append(<<>>, CrateNode)
  BY DEF End
<1>2. IsSeq(End)
  BY <1>1, SeqIsSeq
<1>3. Values(End) = {CrateNode}
  <2> HIDE DEF End
  <2>1. 1..1 = {1}
    OBVIOUS
  <2>2. Values(End) = {End[i] : i \in {1}}
    BY <1>1, <2>1 DEF Values
  <2> QED BY <1>1, <2>2
<1> QED BY <1>1, <1>2, <1>3 DEF Last

LEMMA TopLead ==
  ASSUME crate \in Crates, NEW K \in Stacked, NEW c, IsSeq(c), NEW do \in {"gather", "resolve"}
  PROVE  Leads(K, Tasks(do, Inside(CrateNode), Empty, c), End, End)
<1>1. CrateNode \in Nodes /\ IsModuleNode(CrateNode)
  BY CrateShape DEF IsModuleNode
<1>2. IsSeq(Inside(CrateNode)) /\ Values(Inside(CrateNode)) = {x \in Items : Parent(x) = CrateNode}
  BY <1>1, InsideValues
<1>3. ASSUME NEW x \in Values(Inside(CrateNode)) PROVE Goes(K, Task(do, x, Empty, c), End, End)
  <2>1. x \in Items /\ Parent(x) = CrateNode
    BY <1>2
  <2>2. /\ ModuleOf(x) = CrateNode /\ Gathered(x) /\ CrateNode \in OpenAround(x)
    BY <1>1, <2>1, ChildFacts
  <2>3. Sits(K, x, End)
    BY <2>2, EndShape DEF Sits, Around
  <2>4. ArePaths(Empty, c)
    BY SingleIsSeq DEF ArePaths
  <2>5. InItsModule(K, x, End) /\ Under(K, Parent(x), End)
    BY <2>1, <2>2, EndShape DEF InItsModule, Under
  <2>6. CASE do = "gather"
    BY <2>1, <2>2, <2>3, <2>4, <2>6, EndShape, GatherGoes
  <2>7. CASE do = "resolve"
    BY <2>1, <2>3, <2>4, <2>5, <2>7, VisitGoes
  <2> QED BY <2>6, <2>7
<1> QED BY <1>2, <1>3, TasksLead

LEMMA WaysFirst ==
  ASSUME Init
  PROVE  crate \in Crates /\ Ways
<1>1. crate \in Crates
  BY DEF Init
<1>2. ASSUME NEW K \in Stacked PROVE Leads(K, work, End, End)
  <2>1. work = Tasks("gather", Inside(CrateNode), Empty, Single(CrateName))
                 \o Tasks("resolve", Inside(CrateNode), Empty, Single(CrateName))
    BY DEF Init
  <2> QED BY <1>1, <2>1, SingleIsSeq, TopLead, LeadsConcat
<1>3. Holds(<<>>, <<>>)
  BY EmptyIsSeq DEF Holds
<1>4. Holds(Push(<<>>, CrateNode), End)
  <2> DEFINE none == <<>>
  <2>1. Holds(Push(none, CrateNode), Append(none, CrateNode))
    <3> HIDE DEF none
    <3>1. Holds(none, none)
      BY <1>3 DEF none
    <3> QED BY <3>1, PushHolds
  <2> QED BY <2>1, EndShape
<1> DEFINE s == Push(<<>>, CrateNode)
<1>5. ASSUME NEW n, NEW id, NEW k, \A w \in Known : n = Single(w) => Denotes(CrateNode, w, id)
      PROVE  Holds(Insert(s, n, id, k), End)
  <2>1. \A w \in Known : n = Single(w) => Denotes(Last(End), w, id)
    BY <1>5, EndShape
  <2> HIDE DEF s
  <2> QED BY <1>4, <2>1, EndShape, InsertHolds DEF s
<1>6. Holds(nameScope, End)
  <2> DEFINE n == Single("__$$crate__")
  <2>1. \A w \in Known : w # "__$$crate__"
    BY ItemsAssumption DEF Known, Keywords
  <2>2. \A w \in Known : n # Single(w)
    BY <2>1, SinglesDiffer
  <2> HIDE DEF n
  <2>3. Holds(Insert(s, n, CrateNode, "Dummy"), End)
    BY <1>5, <2>2
  <2> QED BY <2>3 DEF Init, n
<1>7. Holds(typeScope, End)
  <2>1. \A w \in Known : Single("i32") = Single(w) => Denotes(CrateNode, w, Builtin)
    BY SinglesDiffer DEF Denotes
  <2>2. Holds(Insert(s, Single("i32"), Builtin, "Type"), End)
    BY <1>5, <2>1
  <2> QED BY <2>2 DEF Init
<1>8. Holds(labelScope, End)
  BY <1>4 DEF Init
<1>9. modules = End
  BY DEF Init, End
<1> QED BY <1>1, <1>2, <1>6, <1>7, <1>8, <1>9 DEF Ways, Way, ModulesWay, Stacked

\* No scope is ever empty, and at the end only those of the crate are open.
LEMMA WaysNest ==
  ASSUME Ways
  PROVE  ScopesNest
<1>1. PICK a, b, c : AllOn(a, b, c)
  BY WaysNow
<1>2. Leads("modules", work, modules, End) \/ (work = <<>> /\ modules = <<>>)
  BY WaysNow
<1>3. ASSUME NEW K, NEW d, Leads(K, work, d, End) PROVE IsSeq(d) => Len(d) > 0 /\ (work = <<>> => d = End)
  <2>1. CASE work # <<>>
    BY <1>3, <2>1, AtFront DEF Sits
  <2>2. CASE work = <<>>
    <3>1. PICK f : f[0] = d /\ f[Len(work)] = End
      BY <1>3 DEF Leads
    <3> QED BY <2>2, <3>1, EmptyIsSeq, EndShape
  <2> QED BY <2>1, <2>2
<1>4. /\ Holds(nameScope, a) /\ Leads("names", work, a, End)
      /\ Holds(typeScope, b) /\ Leads("types", work, b, End)
      /\ Holds(labelScope, c) /\ Leads("labels", work, c, End)
  BY <1>1 DEF AllOn, On
<1>5. /\ Len(a) = Len(nameScope) /\ Len(b) = Len(typeScope) /\ Len(c) = Len(labelScope)
      /\ IsSeq(a) /\ IsSeq(b) /\ IsSeq(c)
  BY <1>4 DEF Holds
<1>6. Len(a) > 0 /\ Len(b) > 0 /\ Len(c) > 0
  BY <1>3, <1>4, <1>5
<1>7. ASSUME work # <<>> PROVE Len(modules) > 0
  BY <1>2, <1>7, AtFront DEF Sits
<1>8. ASSUME Running, Over PROVE Len(nameScope) = 1 /\ Len(typeScope) = 1 /\ Len(labelScope) = 1
  <2>1. modules = <<>>
    BY <1>8 DEF Over
  <2>2. work = <<>>
    BY <1>7, <2>1, EmptyIsSeq
  <2>3. a = End /\ b = End /\ c = End
    BY <1>3, <1>4, <1>5, <2>2
  <2> QED BY <1>5, <2>3, EndShape
<1> QED BY <1>5, <1>6, <1>7, <1>8 DEF ScopesNest

-----------------------------------------------------------------------------
(* The first pass over a module comes before the visits *)

\* What may stand before a task of the first pass.
Gathering == {"gather", "leaveGathered"}
Early     == Gathering \cup {"visibility", "openRibs"}

OnlyEarly(s) == IsSeq(s) /\ \A i \in 1..Len(s) : s[i].do \in Early
OnlyLate(s)  == IsSeq(s) /\ \A i \in 1..Len(s) : s[i].do \notin Gathering
Ordered(s)   == IsSeq(s) /\ \A i, j \in 1..Len(s) :
                  i < j /\ s[j].do \in Gathering => s[i].do \in Early

LEMMA LateIsOrdered == ASSUME NEW s, OnlyLate(s) PROVE Ordered(s)
  BY DEF OnlyLate, Ordered

LEMMA LateEmpty == OnlyLate(<<>>) /\ OnlyEarly(<<>>)
<1>1. \A i \in 1..Len(<<>>) : FALSE
  BY EmptyIsSeq
<1> QED BY <1>1, EmptyIsSeq DEF OnlyLate, OnlyEarly

LEMMA LateConcat ==
  ASSUME NEW s, NEW t, OnlyLate(s), OnlyLate(t)
  PROVE  OnlyLate(s \o t)
<1>1. /\ IsSeq(s) /\ IsSeq(t) /\ Len(s) \in Nat /\ Len(t) \in Nat
      /\ IsSeq(s \o t) /\ Len(s \o t) = Len(s) + Len(t)
      /\ \A i \in 1..Len(s) : (s \o t)[i] = s[i]
      /\ \A i \in 1..Len(t) : (s \o t)[Len(s) + i] = t[i]
  BY ConcatIsSeq DEF OnlyLate, IsSeq
<1> DEFINE m == Len(s)
           n == Len(t)
           u == s \o t
<1> HIDE DEF m, n, u
<1>2. ASSUME NEW i \in 1..(m + n) PROVE u[i].do \notin Gathering
  <2>1. CASE i \in 1..m
    BY <1>1, <2>1 DEF OnlyLate, m, u
  <2>2. CASE i \notin 1..m
    <3> DEFINE j == i - m
    <3>1. j \in 1..n /\ i = m + j
      BY <1>1, <2>2 DEF m, n
    <3> HIDE DEF j
    <3>2. u[i] = t[j]
      BY <1>1, <3>1 DEF m, n, u
    <3> QED BY <3>1, <3>2 DEF OnlyLate, n
  <2> QED BY <2>1, <2>2
<1> QED BY <1>1, <1>2 DEF OnlyLate, m, n, u

LEMMA EarlyConcat ==
  ASSUME NEW s, NEW t, OnlyEarly(s), OnlyEarly(t)
  PROVE  OnlyEarly(s \o t)
<1>1. /\ IsSeq(s) /\ IsSeq(t) /\ Len(s) \in Nat /\ Len(t) \in Nat
      /\ IsSeq(s \o t) /\ Len(s \o t) = Len(s) + Len(t)
      /\ \A i \in 1..Len(s) : (s \o t)[i] = s[i]
      /\ \A i \in 1..Len(t) : (s \o t)[Len(s) + i] = t[i]
  BY ConcatIsSeq DEF OnlyEarly, IsSeq
<1> DEFINE m == Len(s)
           n == Len(t)
           u == s \o t
<1> HIDE DEF m, n, u
<1>2. ASSUME NEW i \in 1..(m + n) PROVE u[i].do \in Early
  <2>1. CASE i \in 1..m
    BY <1>1, <2>1 DEF OnlyEarly, m, u
  <2>2. CASE i \notin 1..m
    <3> DEFINE j == i - m
    <3>1. j \in 1..n /\ i = m + j
      BY <1>1, <2>2 DEF m, n
    <3> HIDE DEF j
    <3>2. u[i] = t[j]
      BY <1>1, <3>1 DEF m, n, u
    <3> QED BY <3>1, <3>2 DEF OnlyEarly, n
  <2> QED BY <2>1, <2>2
<1> QED BY <1>1, <1>2 DEF OnlyEarly, m, n, u

\* What comes in order behind what comes first, and before what comes late.
LEMMA OrderedConcat ==
  ASSUME NEW s, NEW t, (OnlyEarly(s) /\ Ordered(t)) \/ (Ordered(s) /\ OnlyLate(t))
  PROVE  Ordered(s \o t)
<1>1. /\ IsSeq(s) /\ IsSeq(t) /\ Len(s) \in Nat /\ Len(t) \in Nat
      /\ IsSeq(s \o t) /\ Len(s \o t) = Len(s) + Len(t)
      /\ \A i \in 1..Len(s) : (s \o t)[i] = s[i]
      /\ \A i \in 1..Len(t) : (s \o t)[Len(s) + i] = t[i]
  BY ConcatIsSeq DEF OnlyLate, OnlyEarly, Ordered, IsSeq
<1> DEFINE m == Len(s)
           n == Len(t)
           u == s \o t
<1> HIDE DEF m, n, u
<1>2. /\ m \in Nat /\ n \in Nat
      /\ \A i \in 1..m : u[i] = s[i]
      /\ \A i \in 1..n : u[m + i] = t[i]
  BY <1>1 DEF m, n, u
<1>3. ASSUME NEW i \in 1..(m + n), NEW j \in 1..(m + n), i < j, u[j].do \in Gathering
      PROVE  u[i].do \in Early
  <2>1. CASE j \in 1..m
    <3>1. i \in 1..m
      BY <1>2, <1>3, <2>1
    <3>2. s[j].do \in Gathering /\ (s[i].do \in Early => u[i].do \in Early)
      BY <1>2, <1>3, <2>1, <3>1
    <3> QED BY <1>3, <2>1, <3>1, <3>2 DEF OnlyEarly, Ordered, m
  <2>2. CASE j \notin 1..m
    <3> DEFINE k == j - m
    <3>1. k \in 1..n /\ j = m + k
      BY <1>2, <2>2
    <3> HIDE DEF k
    <3>2. t[k].do \in Gathering
      BY <1>2, <1>3, <3>1
    <3>3. OnlyEarly(s) /\ Ordered(t)
      BY <3>1, <3>2 DEF OnlyLate, n
    <3>4. CASE i \in 1..m
      BY <1>2, <3>3, <3>4 DEF OnlyEarly, m
    <3>5. CASE i \notin 1..m
      <4> DEFINE l == i - m
      <4>1. l \in 1..n /\ i = m + l /\ l < k
        BY <1>2, <1>3, <3>1, <3>5
      <4> HIDE DEF l
      <4>2. u[i] = t[l]
        BY <1>2, <4>1
      <4> QED BY <3>1, <3>2, <3>3, <4>1, <4>2 DEF Ordered, n
    <3> QED BY <3>4, <3>5
  <2> QED BY <2>1, <2>2
<1> QED BY <1>1, <1>3 DEF Ordered, m, n, u

LEMMA OrderedTail ==
  ASSUME NEW s, Ordered(s), s # <<>>
  PROVE  /\ Ordered(Tail(s))
         /\ Head(s).do \notin Early => OnlyLate(s) /\ OnlyLate(Tail(s))
<1>1. /\ Len(s) > 0 /\ Head(s) = s[1] /\ IsSeq(Tail(s)) /\ Len(Tail(s)) = Len(s) - 1
      /\ \A i \in 1..(Len(s) - 1) : Tail(s)[i] = s[i + 1]
  BY TailIsSeq DEF Ordered
<1> DEFINE n == Len(s) - 1
           t == Tail(s)
<1>2. n \in Nat /\ Len(s) = n + 1 /\ Len(t) = n /\ IsSeq(t) /\ IsSeq(s)
  BY <1>1 DEF Ordered, IsSeq
<1>3. \A i \in 1..n : t[i] = s[i + 1]
  BY <1>1
<1> HIDE DEF n, t
<1>4. \A i, j \in 1..(n + 1) : i < j /\ s[j].do \in Gathering => s[i].do \in Early
  BY <1>2 DEF Ordered
<1>5. ASSUME NEW i \in 1..n, NEW j \in 1..n, i < j, t[j].do \in Gathering PROVE t[i].do \in Early
  <2>1. i + 1 \in 1..(n + 1) /\ j + 1 \in 1..(n + 1) /\ i + 1 < j + 1
    BY <1>2, <1>5
  <2>2. t[i] = s[i + 1] /\ t[j] = s[j + 1]
    BY <1>3
  <2> QED BY <1>4, <1>5, <2>1, <2>2
<1>6. ASSUME s[1].do \notin Early, NEW i \in 1..(n + 1) PROVE s[i].do \notin Gathering
  <2>1. CASE i = 1
    BY <1>6, <2>1 DEF Early
  <2>2. CASE i # 1
    <3>1. 1 \in 1..(n + 1) /\ 1 < i
      BY <1>2, <2>2
    <3> QED BY <1>4, <1>6, <3>1
  <2> QED BY <2>1, <2>2
<1>7. ASSUME s[1].do \notin Early, NEW i \in 1..n PROVE t[i].do \notin Gathering
  <2>1. i + 1 \in 1..(n + 1)
    BY <1>2
  <2> QED BY <1>3, <1>6, <1>7, <2>1
<1>8. Ordered(t)
  BY <1>2, <1>5 DEF Ordered
<1>9. s[1].do \notin Early => OnlyLate(s) /\ OnlyLate(t)
  BY <1>2, <1>6, <1>7 DEF OnlyLate
<1> QED BY <1>1, <1>8, <1>9 DEF t

LEMMA LateFlatten ==
  ASSUME NEW seqs, IsSeq(seqs), \A i \in 1..Len(seqs) : OnlyLate(seqs[i])
  PROVE  OnlyLate(FlattenSeq(seqs))
<1> DEFINE N == Len(seqs)
<1>1. N \in Nat
  BY DEF IsSeq
<1>2. \A i \in 1..N : OnlyLate(seqs[i])
  OBVIOUS
<1>3. /\ N = 0 => FlattenSeq(seqs) = <<>>
      /\ N # 0 => \E g :
              /\ FlattenSeq(seqs) = g[N]
              /\ \A i \in 1..N : g[i] = IF i = 1 THEN seqs[i] ELSE g[i - 1] \o seqs[i]
  BY FlattenParts
<1> HIDE DEF N
<1>4. CASE N = 0
  BY <1>3, <1>4, LateEmpty
<1>5. CASE N # 0
  <2>1. PICK g : /\ FlattenSeq(seqs) = g[N]
                 /\ \A i \in 1..N : g[i] = IF i = 1 THEN seqs[i] ELSE g[i - 1] \o seqs[i]
    BY <1>3, <1>5
  <2> DEFINE Q == {i \in Nat : i \in 1..N => OnlyLate(g[i])}
  <2>2. 0 \in Q
    BY <1>1
  <2>3. ASSUME NEW i \in Q \cap Nat PROVE i + 1 \in Q
    <3>1. SUFFICES ASSUME i + 1 \in 1..N PROVE OnlyLate(g[i + 1])
      OBVIOUS
    <3>2. OnlyLate(seqs[i + 1])
      BY <1>2, <3>1
    <3>3. CASE i = 0
      BY <2>1, <3>1, <3>2, <3>3
    <3>4. CASE i # 0
      <4>1. i \in 1..N /\ (i + 1) - 1 = i /\ i + 1 # 1
        BY <1>1, <3>1, <3>4
      <4>2. g[i + 1] = g[i] \o seqs[i + 1]
        BY <2>1, <3>1, <4>1
      <4> QED BY <3>2, <4>1, <4>2, LateConcat
    <3> QED BY <3>3, <3>4
  <2> HIDE DEF Q
  <2>4. N \in Q
    BY <1>1, <2>2, <2>3, Induction
  <2>5. OnlyLate(g[N])
    BY <1>1, <1>5, <2>4 DEF Q
  <2> QED BY <2>1, <2>5
<1> QED BY <1>4, <1>5

\* The calls of a handler.
LEMMA LateOne ==
  ASSUME NEW t, t.do \notin Gathering
  PROVE  OnlyLate(<<t>>)
<1>1. <<t>> \in Seq({t}) /\ Len(<<t>>) = 1 /\ <<t>>[1] = t
  OBVIOUS
<1>2. \A i \in 1..Len(<<t>>) : <<t>>[i] = t
  BY <1>1
<1> QED BY <1>1, <1>2, SeqIsSeq DEF OnlyLate

LEMMA LatePair ==
  ASSUME NEW t, NEW u, t.do \notin Gathering, u.do \notin Gathering
  PROVE  OnlyLate(<<t, u>>)
<1> DEFINE r == <<t, u>>
<1>1. r \in Seq({t, u}) /\ Len(r) = 2 /\ r[1] = t /\ r[2] = u
  OBVIOUS
<1> HIDE DEF r
<1>2. \A i \in 1..Len(r) : r[i] = t \/ r[i] = u
  BY <1>1
<1>3. OnlyLate(r)
  BY <1>1, <1>2, SeqIsSeq DEF OnlyLate
<1> QED BY <1>3 DEF r

LEMMA LateTriple ==
  ASSUME NEW t, NEW u, NEW v, t.do \notin Gathering, u.do \notin Gathering, v.do \notin Gathering
  PROVE  OnlyLate(<<t, u, v>>)
<1> DEFINE r == <<t, u, v>>
<1>1. r \in Seq({t, u, v}) /\ Len(r) = 3 /\ r[1] = t /\ r[2] = u /\ r[3] = v
  OBVIOUS
<1> HIDE DEF r
<1>2. \A i \in 1..Len(r) : r[i] = t \/ r[i] = u \/ r[i] = v
  BY <1>1
<1>3. OnlyLate(r)
  BY <1>1, <1>2, SeqIsSeq DEF OnlyLate
<1> QED BY <1>3 DEF r

\* The same task for several items, whatever the task.
LEMMA TasksShape ==
  ASSUME NEW ids, IsSeq(ids), NEW do, NEW p, NEW c
  PROVE  /\ IsSeq(Tasks(do, ids, p, c)) /\ Len(Tasks(do, ids, p, c)) = Len(ids)
         /\ \A i \in 1..Len(ids) : /\ Tasks(do, ids, p, c)[i].do = do
                                   /\ Tasks(do, ids, p, c)[i].node = ids[i]
<1> DEFINE s == Tasks(do, ids, p, c)
           n == Len(ids)
<1>1. n \in Nat /\ DOMAIN ids = 1..n
  <2>1. ids = [i \in 1..n |-> ids[i]] /\ n \in Nat
    BY DEF IsSeq
  <2> QED BY <2>1
<1>2. s = [i \in 1..n |-> Task(do, ids[i], p, c)]
  BY <1>1 DEF Tasks
<1>3. s = [i \in 1..n |-> s[i]] /\ \A i \in 1..n : s[i] = Task(do, ids[i], p, c)
  BY <1>2
<1> HIDE DEF s, n
<1>4. IsSeq(s) /\ Len(s) = n
  BY <1>1, <1>3, BuiltIsSeq
<1>5. \A i \in 1..n : s[i].do = do /\ s[i].node = ids[i]
  BY <1>3, TaskFields
<1> QED BY <1>4, <1>5 DEF s, n

LEMMA LateTasks ==
  ASSUME NEW ids, IsSeq(ids), NEW do, do \notin Gathering, NEW p, NEW c
  PROVE  OnlyLate(Tasks(do, ids, p, c))
BY TasksShape DEF OnlyLate

LEMMA EarlyTasks ==
  ASSUME NEW ids, IsSeq(ids), NEW p, NEW c
  PROVE  OnlyEarly(Tasks("gather", ids, p, c))
BY TasksShape DEF OnlyEarly, Early, Gathering

LEMMA LateTypes ==
  ASSUME crate \in Crates, NEW id \in Nodes
  PROVE  OnlyLate(AllTypes(id)) /\ \A nth : OnlyLate(TypeTasks(id, nth))
<1>1. ASSUME NEW nth PROVE OnlyLate(TypeTasks(id, nth))
  <2> DEFINE t == [Todo("argument", id) EXCEPT !.nth = nth]
             u == [Todo("type", id) EXCEPT !.nth = nth]
  <2>1. t.do \notin Gathering /\ u.do \notin Gathering
    BY DEF Todo, Task, Gathering
  <2>2. TypeTasks(id, nth) = <<u>> \/ TypeTasks(id, nth) = <<t, u>>
    BY DEF TypeTasks
  <2> HIDE DEF t, u
  <2> QED BY <2>1, <2>2, LateOne, LatePair
<1>2. OnlyLate(AllTypes(id))
  <2> DEFINE types == crate[id].types
             s == [j \in DOMAIN types |-> TypeTasks(id, j)]
  <2>1. Len(types) \in Nat /\ DOMAIN types = 1..Len(types)
    BY CrateShape, LenProperties
  <2>2. s = [j \in 1..Len(types) |-> s[j]] /\ \A j \in 1..Len(types) : s[j] = TypeTasks(id, j)
    BY <2>1
  <2>3. AllTypes(id) = FlattenSeq(s)
    BY DEF AllTypes
  <2> HIDE DEF s, types
  <2>4. IsSeq(s) /\ Len(s) = Len(types)
    BY <2>1, <2>2, BuiltIsSeq
  <2>5. \A j \in 1..Len(s) : OnlyLate(s[j])
    BY <1>1, <2>2, <2>4
  <2> QED BY <2>3, <2>4, <2>5, LateFlatten
<1> QED BY <1>1, <1>2

LEMMA LateBlock ==
  ASSUME crate \in Crates, NEW id \in Nodes, NEW p, NEW c
  PROVE  OnlyLate(BlockTasks(id, p, c))
<1> DEFINE items == Inside(id)
           open == Todo("openBlock", id)
           close == Todo("closeRibs", id)
           visit(x) == Task("resolve", x, p, c)
           of(x) == IF crate[x].deep THEN <<open, visit(x), close>> ELSE <<visit(x)>>
           s == [i \in DOMAIN items |-> of(items[i])]
<1>1. IsSeq(items)
  BY InsideValues
<1>2. BlockTasks(id, p, c) = IF items = <<>> THEN <<>> ELSE <<open>> \o FlattenSeq(s) \o <<close>>
  BY DEF BlockTasks
<1>3. open.do \notin Gathering /\ close.do \notin Gathering /\ \A x : visit(x).do \notin Gathering
  BY DEF Todo, Task, Gathering
<1> HIDE DEF items, open, close, visit
<1>4. ASSUME NEW x PROVE OnlyLate(of(x))
  BY <1>3, LateOne, LateTriple
<1> HIDE DEF of
<1>5. Len(items) \in Nat /\ DOMAIN items = 1..Len(items)
  <2>1. items = [i \in 1..Len(items) |-> items[i]] /\ Len(items) \in Nat
    BY <1>1 DEF IsSeq
  <2> QED BY <2>1
<1>6. s = [i \in 1..Len(items) |-> s[i]] /\ \A i \in 1..Len(items) : s[i] = of(items[i])
  BY <1>5
<1> HIDE DEF s
<1>7. IsSeq(s) /\ Len(s) = Len(items)
  BY <1>5, <1>6, BuiltIsSeq
<1>8. \A i \in 1..Len(s) : OnlyLate(s[i])
  BY <1>4, <1>6, <1>7
<1>9. OnlyLate(FlattenSeq(s)) /\ OnlyLate(<<open>>) /\ OnlyLate(<<close>>)
  BY <1>3, <1>7, <1>8, LateFlatten, LateOne
<1> QED BY <1>2, <1>9, LateEmpty, LateConcat

LEMMA LateFunction ==
  ASSUME crate \in Crates, id0 \in Nodes
  PROVE  OnlyLate(FunctionTasks)
<1> DEFINE s == <<Todo("openRibs", id0)>>
           t == <<Todo("closeRibs", id0)>>
<1>1. OnlyLate(s) /\ OnlyLate(t)
  BY TodoFields, LateOne DEF Gathering
<1>2. OnlyLate(AllTypes(id0)) /\ OnlyLate(BlockTasks(id0, OwnPrefix, OwnCanonical))
  BY LateTypes, LateBlock
<1>3. FunctionTasks = s \o AllTypes(id0) \o BlockTasks(id0, OwnPrefix, OwnCanonical) \o t
  BY DEF FunctionTasks
<1> HIDE DEF s, t
<1> QED BY <1>1, <1>2, <1>3, LateConcat

LEMMA LateAssociated ==
  ASSUME crate \in Crates, id0 \in Nodes, NEW p, NEW c
  PROVE  OnlyLate(AssociatedTasks(p, c))
<1> DEFINE ids == Inside(id0)
           t(x) == Todo("visibility", x)
           u(x) == Task("associated", x, p, c)
           s == [i \in DOMAIN ids |-> <<t(ids[i]), u(ids[i])>>]
<1>1. IsSeq(ids)
  BY InsideValues
<1>2. AssociatedTasks(p, c) = FlattenSeq(s)
  BY DEF AssociatedTasks
<1>3. \A x : t(x).do \notin Gathering /\ u(x).do \notin Gathering
  BY DEF Todo, Task, Gathering
<1> HIDE DEF ids, t, u
<1>4. ASSUME NEW x PROVE OnlyLate(<<t(x), u(x)>>)
  BY <1>3, LatePair
<1>5. Len(ids) \in Nat /\ DOMAIN ids = 1..Len(ids)
  <2>1. ids = [i \in 1..Len(ids) |-> ids[i]] /\ Len(ids) \in Nat
    BY <1>1 DEF IsSeq
  <2> QED BY <2>1
<1>6. s = [i \in 1..Len(ids) |-> s[i]] /\ \A i \in 1..Len(ids) : s[i] = <<t(ids[i]), u(ids[i])>>
  BY <1>5
<1> HIDE DEF s
<1>7. IsSeq(s) /\ Len(s) = Len(ids)
  BY <1>5, <1>6, BuiltIsSeq
<1>8. \A i \in 1..Len(s) : OnlyLate(s[i])
  BY <1>4, <1>6, <1>7
<1> QED BY <1>2, <1>7, <1>8, LateFlatten

-----------------------------------------------------------------------------
(* What still awaits the first pass *)

Awaits(s, x) == \E i \in 1..Len(s) : s[i].do = "gather" /\ s[i].node = x

LEMMA AwaitsConcat ==
  ASSUME NEW s, NEW t, IsSeq(s), IsSeq(t), NEW x, Awaits(s, x) \/ Awaits(t, x)
  PROVE  Awaits(s \o t, x)
<1> DEFINE m == Len(s)
           n == Len(t)
           u == s \o t
<1>1. /\ m \in Nat /\ n \in Nat /\ Len(u) = m + n
      /\ \A i \in 1..m : u[i] = s[i]
      /\ \A i \in 1..n : u[m + i] = t[i]
  BY ConcatIsSeq DEF IsSeq
<1> HIDE DEF u
<1>2. CASE Awaits(s, x)
  <2>1. PICK i \in 1..m : s[i].do = "gather" /\ s[i].node = x
    BY <1>2 DEF Awaits
  <2> HIDE DEF m, n
  <2>2. i \in 1..Len(u) /\ u[i] = s[i]
    BY <1>1
  <2> QED BY <2>1, <2>2 DEF Awaits, u
<1>3. CASE Awaits(t, x)
  <2>1. PICK i \in 1..n : t[i].do = "gather" /\ t[i].node = x
    BY <1>3 DEF Awaits
  <2> HIDE DEF m, n
  <2>2. m + i \in 1..Len(u) /\ u[m + i] = t[i]
    BY <1>1
  <2> QED BY <2>1, <2>2 DEF Awaits, u
<1> QED BY <1>2, <1>3

LEMMA AwaitsTasks ==
  ASSUME NEW ids, IsSeq(ids), NEW p, NEW c, NEW x \in Values(ids)
  PROVE  Awaits(Tasks("gather", ids, p, c), x)
<1> DEFINE s == Tasks("gather", ids, p, c)
<1>1. Len(s) = Len(ids) /\ \A i \in 1..Len(ids) : s[i].do = "gather" /\ s[i].node = ids[i]
  BY TasksShape
<1>2. PICK i \in 1..Len(ids) : x = ids[i]
  BY DEF Values
<1> HIDE DEF s
<1> QED BY <1>1, <1>2 DEF Awaits, s

LEMMA AwaitsTail ==
  ASSUME NEW s, IsSeq(s), s # <<>>, NEW x, Awaits(s, x)
  PROVE  Awaits(Tail(s), x) \/ (Head(s).do = "gather" /\ Head(s).node = x)
<1> DEFINE t == Tail(s)
           n == Len(s) - 1
<1>1. /\ Head(s) = s[1] /\ Len(t) = n /\ n \in Nat /\ Len(s) = n + 1
      /\ \A i \in 1..n : t[i] = s[i + 1]
  BY TailIsSeq DEF IsSeq
<1> HIDE DEF t, n
<1>2. PICK i \in 1..(n + 1) : s[i].do = "gather" /\ s[i].node = x
  BY <1>1 DEF Awaits
<1>3. CASE i = 1
  BY <1>1, <1>2, <1>3
<1>4. CASE i # 1
  <2> DEFINE j == i - 1
  <2>1. j \in 1..n /\ i = j + 1
    BY <1>1, <1>4
  <2> HIDE DEF j
  <2>2. t[j] = s[i]
    BY <1>1, <2>1
  <2>3. Awaits(t, x)
    BY <1>1, <1>2, <2>1, <2>2 DEF Awaits
  <2> QED BY <2>3 DEF t
<1> QED BY <1>3, <1>4

LEMMA LateAwaitsNone == ASSUME NEW s, OnlyLate(s), NEW x PROVE ~Awaits(s, x)
  BY DEF OnlyLate, Awaits, Gathering

\* What a step leaves in order, and what it has not done.
Keeps ==
  /\ Ordered(work')
  /\ \A x : Awaits(work, x) => Awaits(work', x) \/ (task.do = "gather" /\ id0 = x)

LEMMA CallKeeps ==
  ASSUME NEW calls, Call(calls), work # <<>>, Ordered(work),
         \/ OnlyEarly(calls)
         \/ task.do \notin Early /\ Ordered(calls)
  PROVE  /\ Keeps
         /\ \A x : Awaits(calls, x) => Awaits(work', x)
<1>1. /\ Ordered(Tail(work)) /\ (task.do \notin Early => OnlyLate(Tail(work)))
      /\ IsSeq(work) /\ IsSeq(Tail(work)) /\ IsSeq(calls)
  BY OrderedTail DEF task, Ordered, OnlyEarly
<1>2. Ordered(calls \o Tail(work))
  BY <1>1, OrderedConcat
<1>3. work' = calls \o Tail(work)
  BY DEF Call
<1>4. \A x : Awaits(calls, x) \/ Awaits(Tail(work), x) => Awaits(work', x)
  BY <1>1, <1>3, AwaitsConcat
<1>5. \A x : Awaits(work, x) => Awaits(Tail(work), x) \/ (task.do = "gather" /\ id0 = x)
  BY <1>1, AwaitsTail DEF task, id0
<1> QED BY <1>2, <1>3, <1>4, <1>5 DEF Keeps

\* A task that is at the front.
LEMMA TaskNow ==
  ASSUME Ways, work # <<>>
  PROVE  /\ Leads("modules", work, modules, End) /\ "modules" \in Stacked
         /\ IsTask(task) /\ id0 \in Nodes /\ Fit("modules", task, modules)
         /\ IsSeq(modules) /\ Len(modules) > 0 /\ modules[1] = CrateNode
<1>1. Leads("modules", work, modules, End) /\ "modules" \in Stacked
  BY WaysNow DEF Stacked
<1> QED BY <1>1, AtFront DEF Sits

\* Handlers that call no other, or only such as are no part of the first pass.
Leaves ==
  \/ LeaveGatheredModule \/ GatherType \/ GatherEnumeration \/ GatherTrait \/ GatherImplementation
  \/ ResolveItemVisibility \/ ResolveArgument \/ ResolveType
  \/ OpenRibs \/ OpenBlock \/ CloseRibs \/ OpenTypeRib \/ CloseTypeRib
  \/ EnterModuleAgain \/ LeaveModule \/ OpenTrait \/ CloseTrait \/ ResolveTypeAliasInTrait
  \/ LeaveImpl \/ CloseImpl
Stays == GatherUnhandled \/ ResolveUnhandled \/ ResolveInTraitUnhandled \/ LeaveCrate \/ UNCHANGED vars
Visits ==
  \/ ResolveFunction \/ ResolveAssociatedItem
  \/ ResolveStruct \/ ResolveTypeAlias \/ ResolveUnion \/ ResolveEnumeration
  \/ ResolveEnumItem \/ ResolveConstant \/ ResolveStatic
  \/ ResolveTrait \/ ResolveFunctionInTrait
  \/ ResolveInherentImpl \/ NameInherentImpl
  \/ ResolveTraitImpl \/ GiveUp \/ TraitFound \/ ImplementTrait

LEMMA LeavesKeep ==
  ASSUME Leaves, Ordered(work)
  PROVE  Keeps /\ work # <<>>
<1>1. Call(<<>>) /\ work # <<>>
  BY DEF Leaves, LeaveGatheredModule, GatherType, GatherEnumeration, GatherTrait, GatherImplementation,
         ResolveItemVisibility, ResolveArgument, ResolveType, OpenRibs, OpenBlock, CloseRibs, OpenTypeRib,
         CloseTypeRib, EnterModuleAgain, LeaveModule, OpenTrait, CloseTrait, ResolveTypeAliasInTrait,
         LeaveImpl, CloseImpl, AtGather, At
<1> QED BY <1>1, LateEmpty, CallKeeps

LEMMA StaysKeep ==
  ASSUME Stays, Ordered(work)
  PROVE  Keeps
<1>1. work' = work
  BY DEF Stays, GatherUnhandled, ResolveUnhandled, ResolveInTraitUnhandled, LeaveCrate, vars
<1> QED BY <1>1 DEF Keeps

\* The calls of a visit that are made before and after those about the item.
LEMMA TodoLate ==
  ASSUME NEW id
  PROVE  /\ \A do : do \notin Gathering => OnlyLate(<<Todo(do, id)>>)
         /\ \A d, e : d \notin Gathering /\ e \notin Gathering => OnlyLate(<<Todo(d, id), Todo(e, id)>>)
         /\ \A do, p, c : do \notin Gathering => OnlyLate(<<Task(do, id, p, c)>>)
<1>1. ASSUME NEW do, do \notin Gathering PROVE OnlyLate(<<Todo(do, id)>>)
  BY <1>1, TodoFields, LateOne
<1>2. ASSUME NEW d, NEW e, d \notin Gathering, e \notin Gathering
      PROVE  OnlyLate(<<Todo(d, id), Todo(e, id)>>)
  BY <1>2, TodoFields, LatePair
<1>3. ASSUME NEW do, NEW p, NEW c, do \notin Gathering PROVE OnlyLate(<<Task(do, id, p, c)>>)
  BY <1>3, TaskFields, LateOne
<1> QED BY <1>1, <1>2, <1>3

LEMMA VisitsKeep ==
  ASSUME crate \in Crates, Ways, Visits, Ordered(work)
  PROVE  Keeps /\ work # <<>>
<1>0. /\ work # <<>>
      /\ task.do \in {"resolve", "associated", "variant", "inTrait", "inherent", "ofTrait", "forType"}
  BY DEF Visits, ResolveFunction, ResolveAssociatedItem, ResolveStruct, ResolveTypeAlias, ResolveUnion,
         ResolveEnumeration, ResolveEnumItem, ResolveConstant, ResolveStatic, ResolveTrait,
         ResolveFunctionInTrait, ResolveInherentImpl, NameInherentImpl, ResolveTraitImpl, GiveUp,
         TraitFound, ImplementTrait, At
<1>1. task.do \notin Early /\ id0 \in Nodes
  BY <1>0, TaskNow DEF Early, Gathering
<1>2. ASSUME NEW calls, Call(calls), OnlyLate(calls) PROVE Keeps
  BY <1>0, <1>1, <1>2, LateIsOrdered, CallKeeps
<1>3. Keeps
  <2> DEFINE T(do) == Todo(do, id0)
             types == AllTypes(id0)
             block == BlockTasks(id0, OwnPrefix, OwnCanonical)
  <2>1. /\ OnlyLate(types) /\ OnlyLate(block) /\ OnlyLate(FunctionTasks)
        /\ OnlyLate(TypeTasks(id0, 1)) /\ OnlyLate(TypeTasks(id0, 2))
        /\ \A p, c : OnlyLate(AssociatedTasks(p, c))
    BY <1>1, LateTypes, LateBlock, LateFunction, LateAssociated
  <2>2. /\ OnlyLate(<<T("visibility")>>) /\ OnlyLate(<<T("visibility"), T("openTypeRib")>>)
        /\ OnlyLate(<<T("closeTypeRib")>>) /\ OnlyLate(<<T("openTypeRib")>>)
        /\ OnlyLate(<<T("visibility"), T("openTrait")>>) /\ OnlyLate(<<T("closeTrait")>>)
        /\ OnlyLate(<<T("leaveImpl"), T("closeImpl")>>) /\ OnlyLate(<<T("leaveImpl"), T("closeRibs")>>)
        /\ OnlyLate(<<T("visibility"), T("openRibs")>>) /\ OnlyLate(<<T("closeRibs")>>)
    BY TodoLate DEF Gathering
  <2>3. \A do \in {"resolve", "inherent", "ofTrait", "forType"} : \A p, c : OnlyLate(<<Task(do, id0, p, c)>>)
    BY TodoLate DEF Gathering
  <2>4. \A do \in {"variant", "inTrait"} : \A p, c : OnlyLate(Tasks(do, Inside(id0), p, c))
    BY <1>1, InsideValues, LateTasks DEF Gathering
  <2> HIDE DEF T, types, block
  <2>5. CASE ResolveFunction
    BY <1>2, <2>1, <2>2, <2>5, LateConcat DEF ResolveFunction, T
  <2>6. CASE ResolveAssociatedItem
    BY <1>2, <2>3, <2>6 DEF ResolveAssociatedItem
  <2>7. CASE ResolveStruct
    BY <1>2, <2>1, <2>2, <2>7, LateConcat DEF ResolveStruct, T, types
  <2>8. CASE ResolveTypeAlias
    BY <1>2, <2>1, <2>2, <2>8, LateConcat DEF ResolveTypeAlias, T, types
  <2>9. CASE ResolveUnion
    BY <1>2, <2>1, <2>2, <2>9, LateConcat DEF ResolveUnion, T, types
  <2>10. CASE ResolveEnumeration
    BY <1>2, <2>2, <2>4, <2>10, LateConcat DEF ResolveEnumeration, T
  <2>11. CASE ResolveEnumItem
    BY <1>2, <2>1, <2>11 DEF ResolveEnumItem, types
  <2>12. CASE ResolveConstant
    BY <1>2, <2>1, <2>2, <2>12, LateConcat DEF ResolveConstant, T, types, block
  <2>13. CASE ResolveStatic
    BY <1>2, <2>1, <2>13, LateConcat DEF ResolveStatic, types, block
  <2>14. CASE ResolveTrait
    <3>1. PICK s : s = Tasks("inTrait", Inside(id0), Empty, Empty) /\ OnlyLate(s)
      BY <2>4
    <3>2. Call(<<T("visibility"), T("openTrait")>> \o types \o s \o <<T("closeTrait")>>)
      BY <2>14, <3>1 DEF ResolveTrait, T, types
    <3> QED BY <1>2, <2>1, <2>2, <3>1, <3>2, LateConcat
  <2>15. CASE ResolveFunctionInTrait
    BY <1>2, <2>1, <2>15 DEF ResolveFunctionInTrait
  <2>16. CASE ResolveInherentImpl
    BY <1>2, <2>1, <2>2, <2>3, <2>16, LateConcat DEF ResolveInherentImpl, T, types
  <2>17. CASE NameInherentImpl
    <3>1. PICK p, c : Call(AssociatedTasks(p, c) \o <<T("leaveImpl"), T("closeImpl")>>)
      BY <2>17 DEF NameInherentImpl, T
    <3> QED BY <1>2, <2>1, <2>2, <3>1, LateConcat
  <2>18. CASE ResolveTraitImpl
    BY <1>2, <2>1, <2>2, <2>3, <2>18, LateConcat DEF ResolveTraitImpl, T
  <2>19. CASE GiveUp
    BY <1>2, <2>2, <2>19 DEF GiveUp, T
  <2>20. CASE TraitFound
    BY <1>2, <2>1, <2>3, <2>20, LateConcat DEF TraitFound
  <2>21. CASE ImplementTrait
    <3>1. Call(AssociatedTasks(task.prefix, task.canonical) \o <<T("leaveImpl"), T("closeRibs")>>)
      BY <2>21 DEF ImplementTrait, T
    <3> QED BY <1>2, <2>1, <2>2, <3>1, LateConcat
  <2> QED BY <1>0, <2>5, <2>6, <2>7, <2>8, <2>9, <2>10, <2>11, <2>12, <2>13, <2>14, <2>15, <2>16, <2>17, <2>18,
             <2>19, <2>20, <2>21 DEF Visits
<1> QED BY <1>0, <1>3

\* The items of a module are gathered from there, those of a body from there.
LEMMA GatheringKeeps ==
  ASSUME crate \in Crates, Ways, Ordered(work), GatherModule \/ GatherFunction \/ GatherConstant
  PROVE  /\ Keeps /\ work # <<>>
         /\ GatherModule => \A x \in Items : Parent(x) = id0 => Awaits(work', x)
         /\ GatherFunction \/ GatherConstant =>
              \A x \in Items : Parent(x) = id0 /\ ~crate[x].deep => Awaits(work', x)
<1>0. work # <<>> /\ id0 \in Nodes
  <2>1. work # <<>>
    BY DEF GatherModule, GatherFunction, GatherConstant, AtGather, At
  <2> QED BY <2>1, TaskNow
<1>1. CASE GatherModule
  <2> DEFINE s == Tasks("gather", Inside(id0), OwnPrefix, OwnCanonical)
             t == <<Task("leaveGathered", id0, task.prefix, task.canonical)>>
  <2>1. IsSeq(Inside(id0)) /\ Values(Inside(id0)) = {x \in Items : Parent(x) = id0}
    BY <1>0, InsideValues
  <2>2. Call(s \o t) /\ ~GatherFunction /\ ~GatherConstant
    BY <1>1 DEF GatherModule, GatherFunction, GatherConstant, AtGather, At
  <2>3. OnlyEarly(s) /\ \A x \in Items : Parent(x) = id0 => Awaits(s, x)
    BY <2>1, EarlyTasks, AwaitsTasks
  <2>4. OnlyEarly(t)
    <3> DEFINE u == Task("leaveGathered", id0, task.prefix, task.canonical)
    <3>1. u.do \in Early
      BY TaskFields DEF Early, Gathering
    <3> HIDE DEF u
    <3>2. <<u>> \in Seq({u}) /\ Len(<<u>>) = 1 /\ <<u>>[1] = u
      OBVIOUS
    <3>3. IsSeq(<<u>>)
      BY <3>2, SeqIsSeq
    <3>4. \A i \in 1..Len(<<u>>) : <<u>>[i] = u
      BY <3>2
    <3> QED BY <3>1, <3>3, <3>4 DEF OnlyEarly, u
  <2> HIDE DEF s, t
  <2>5. OnlyEarly(s \o t)
    BY <2>3, <2>4, EarlyConcat
  <2>6. \A x \in Items : Parent(x) = id0 => Awaits(s \o t, x)
    BY <2>3, <2>4, AwaitsConcat DEF OnlyEarly
  <2> QED BY <1>0, <1>1, <2>2, <2>5, <2>6, CallKeeps
<1>2. CASE GatherFunction \/ GatherConstant
  <2> DEFINE s == Tasks("gather", Shallow(id0), Empty, Empty)
  <2>1. IsSeq(Shallow(id0)) /\ Values(Shallow(id0)) = {x \in Items : Parent(x) = id0 /\ ~crate[x].deep}
    BY <1>0, ShallowValues
  <2>2. Call(s) /\ ~GatherModule
    BY <1>2 DEF GatherModule, GatherFunction, GatherConstant, AtGather, At
  <2>3. OnlyEarly(s) /\ \A x \in Items : Parent(x) = id0 /\ ~crate[x].deep => Awaits(s, x)
    BY <2>1, EarlyTasks, AwaitsTasks
  <2> HIDE DEF s
  <2> QED BY <1>0, <2>2, <2>3, CallKeeps
<1> QED BY <1>1, <1>2

LEMMA ResolveModuleKeeps ==
  ASSUME crate \in Crates, Ways, Ordered(work), ResolveModule
  PROVE  Keeps /\ work # <<>> /\ \A x \in Items : Parent(x) = id0 => Awaits(work', x)
<1> DEFINE T(do) == Todo(do, id0)
           s1 == <<T("visibility"), T("openRibs")>>
           s2 == Tasks("gather", Inside(id0), Empty, OwnCanonical)
           s3 == <<T("enterModule")>>
           s4 == Tasks("resolve", Inside(id0), OwnPrefix, OwnCanonical)
           s5 == <<T("leaveModule"), T("closeRibs"), T("leaveModule")>>
<1>1. work # <<>> /\ task.do \notin Early /\ Call(s1 \o s2 \o s3 \o s4 \o s5)
  BY DEF ResolveModule, At, Early, Gathering
<1>2. id0 \in Nodes
  BY <1>1, TaskNow
<1>3. IsSeq(Inside(id0)) /\ Values(Inside(id0)) = {x \in Items : Parent(x) = id0}
  BY <1>2, InsideValues
<1>4. OnlyEarly(s1)
  <2> DEFINE t == T("visibility")
             u == T("openRibs")
  <2>1. t.do \in Early /\ u.do \in Early
    BY TodoFields DEF Early
  <2> HIDE DEF t, u
  <2> DEFINE r == <<t, u>>
  <2>2. r \in Seq({t, u}) /\ Len(r) = 2 /\ r[1] = t /\ r[2] = u
    OBVIOUS
  <2> HIDE DEF r
  <2>3. \A i \in 1..Len(r) : r[i] = t \/ r[i] = u
    BY <2>2
  <2>4. OnlyEarly(r)
    BY <2>1, <2>2, <2>3, SeqIsSeq DEF OnlyEarly
  <2> QED BY <2>4 DEF r, t, u
<1>5. OnlyEarly(s2) /\ \A x \in Items : Parent(x) = id0 => Awaits(s2, x)
  BY <1>3, EarlyTasks, AwaitsTasks
<1>6. OnlyLate(s3) /\ OnlyLate(s4) /\ OnlyLate(s5)
  <2>1. OnlyLate(s3)
    BY TodoLate DEF Gathering
  <2>2. OnlyLate(s4)
    BY <1>3, LateTasks DEF Gathering
  <2>3. OnlyLate(s5)
    BY TodoFields, LateTriple DEF Gathering
  <2> QED BY <2>1, <2>2, <2>3
<1> HIDE DEF T, s1, s2, s3, s4, s5
<1> DEFINE r == s1 \o s2
<1>7. OnlyEarly(r) /\ \A x \in Items : Parent(x) = id0 => Awaits(r, x)
  BY <1>4, <1>5, EarlyConcat, AwaitsConcat DEF OnlyEarly
<1> HIDE DEF r
<1>8. Ordered(r) /\ Ordered(r \o s3) /\ Ordered((r \o s3) \o s4) /\ Ordered(((r \o s3) \o s4) \o s5)
  <2>1. Ordered(r)
    BY <1>7 DEF OnlyEarly, Ordered
  <2>2. Ordered(r \o s3)
    BY <1>6, <2>1, OrderedConcat
  <2>3. Ordered((r \o s3) \o s4)
    BY <1>6, <2>2, OrderedConcat
  <2>4. Ordered(((r \o s3) \o s4) \o s5)
    BY <1>6, <2>3, OrderedConcat
  <2> QED BY <2>1, <2>2, <2>3, <2>4
<1>9. ASSUME NEW x \in Items, Parent(x) = id0 PROVE Awaits(((r \o s3) \o s4) \o s5, x)
  <2>1. IsSeq(r) /\ IsSeq(s3) /\ IsSeq(s4) /\ IsSeq(s5) /\ Awaits(r, x)
    BY <1>6, <1>7, <1>9 DEF OnlyEarly, OnlyLate
  <2>2. IsSeq(r \o s3) /\ Awaits(r \o s3, x)
    BY <2>1, ConcatIsSeq, AwaitsConcat
  <2>3. IsSeq((r \o s3) \o s4) /\ Awaits((r \o s3) \o s4, x)
    BY <2>1, <2>2, ConcatIsSeq, AwaitsConcat
  <2> QED BY <2>1, <2>3, AwaitsConcat
<1>10. Call(((r \o s3) \o s4) \o s5)
  BY <1>1 DEF r
<1> QED BY <1>1, <1>8, <1>9, <1>10, CallKeeps

-----------------------------------------------------------------------------
(* The children of modules *)

LEMMA NodesAreIds ==
  ASSUME crate \in Crates
  PROVE  /\ Nodes \subseteq NodeId /\ Builtin \in NodeId
         /\ \A x \in Nodes : OwnNode(x) \in NodeId /\ x \in NodeId
<1>1. Len(crate) \in Nat /\ Nodes = 1..Len(crate) /\ 2 * Len(crate) < MaxNode /\ MaxNode \in Nat \ {0}
  BY CrateShape, RibsAssumption
<1>2. ASSUME NEW x \in 1..Len(crate) PROVE x \in 1..MaxNode /\ x + MaxNode \div 2 \in 1..MaxNode
  BY <1>1
<1> QED BY <1>1, <1>2 DEF NodeId, Builtin, OwnNode

Listable(x) == x \in Items /\ crate[x].kind \notin Impls

\* Each node has a list, which only has what belongs to it if the node is a module.
ListsOf(t) == t = [m \in NodeId |-> t[m]] /\ \A m \in NodeId : IsSeq(t[m])
SoundIn(t) == \A m \in Nodes : IsModuleNode(m) =>
                \A x \in Values(t[m]) : Listable(x) /\ Gathered(x) /\ ModuleOf(x) = m

\* What is in an open module, or in the body of something listed, is listed
\* unless it still is to be gathered.
Listed(t, x) == x \in Values(t[ModuleOf(x)])
Found(t, s, x) == Listed(t, x) \/ Awaits(s, x)
CompleteIn(t, s, k) ==
  \A x \in Items : Listable(x) =>
    /\ Parent(x) \in Values(k) => Found(t, s, x)
    /\ InBody(x) /\ ~crate[x].deep /\ Listed(t, Parent(x)) => Found(t, s, x)

Kids == \E t, s, k : /\ children = t /\ work = s /\ modules = k
                     /\ ListsOf(t) /\ SoundIn(t) /\ CompleteIn(t, s, k)

LEMMA KidsNow == Kids <=> ListsOf(children) /\ SoundIn(children) /\ CompleteIn(children, work, modules)
BY DEF Kids

\* The steps that list an item.
Listing == GatherModule \/ GatherFunction \/ GatherConstant \/ GatherType \/ GatherEnumeration \/ GatherTrait

LEMMA ListingFacts ==
  ASSUME crate \in Crates, Ways, Listing
  PROVE  /\ work # <<>> /\ task.do = "gather" /\ Listable(id0) /\ Gathered(id0)
         /\ Last(modules) = ModuleOf(id0) /\ ModuleOf(id0) \in Nodes /\ IsModuleNode(ModuleOf(id0))
<1>1. work # <<>> /\ task.do = "gather" /\ crate[id0].kind \notin Impls
  BY DEF Listing, GatherModule, GatherFunction, GatherConstant, GatherType, GatherEnumeration,
         GatherTrait, AtGather, At, item, Impls, TypesOfImpl, Structs
<1>2. Leads("modules", work, modules, End)
  BY <1>1, TaskNow
<1>3. id0 \in Items /\ Gathered(id0) /\ Last(modules) = ModuleOf(id0)
  BY <1>1, <1>2, AtGathering DEF Gathers, id0
<1> QED BY <1>1, <1>3, ModuleIsNode DEF Listable

LEMMA ListingLists ==
  ASSUME crate \in Crates, Ways, Listing, NEW s, s = children, ListsOf(s), NEW t, t = children'
  PROVE  /\ ListsOf(t)
         /\ \A m \in Nodes : IsModuleNode(m) =>
              Values(t[m]) = Values(s[m]) \cup (IF m = ModuleOf(id0) THEN {id0} ELSE {})
<1> DEFINE M == Last(modules)
           base(F, m) == IF m \in F THEN Append(s[m], m) ELSE s[m]
<1>1. M = ModuleOf(id0) /\ M \in NodeId
  BY ListingFacts, NodesAreIds
<1>2. s = [m \in NodeId |-> s[m]] /\ \A m \in NodeId : IsSeq(s[m])
  BY DEF ListsOf
<1>3. \E F : /\ \A m \in F : ~IsModuleNode(m)
             /\ t = [m \in NodeId |-> IF m = M THEN Append(base(F, m), id0) ELSE base(F, m)]
  <2>1. CASE GatherModule \/ GatherFunction \/ GatherConstant \/ GatherType \/ GatherTrait
    <3>1. t = [s EXCEPT ![M] = Append(@, id0)]
      BY <2>1 DEF GatherModule, GatherFunction, GatherConstant, GatherType, GatherTrait,
                  InsertModuleChildItem, ListChild
    <3>2. t = [m \in NodeId |-> IF m = M THEN Append(s[m], id0) ELSE s[m]]
      <4> HIDE DEF M
      <4> QED BY <1>1, <1>2, <3>1
    <3>3. \A m : base({}, m) = s[m]
      OBVIOUS
    <3> HIDE DEF base, M
    <3>4. t = [m \in NodeId |-> IF m = M THEN Append(base({}, m), id0) ELSE base({}, m)]
      BY <3>2, <3>3
    <3> QED BY <3>4
  <2>2. CASE GatherEnumeration
    <3> DEFINE F == {v \in {y \in DOMAIN crate : crate[y].parent = id0} : crate[v].kind \in {"EnumStruct", "EnumTuple"}}
               listed == [m \in DOMAIN s |-> IF m \in F THEN Append(s[m], m) ELSE s[m]]
    <3>1. t = [listed EXCEPT ![M] = Append(@, id0)]
      BY <2>2 DEF GatherEnumeration, ListChild
    <3>2. \A m \in F : ~IsModuleNode(m)
      BY DEF IsModuleNode
    <3> HIDE DEF F
    <3>3. DOMAIN s = NodeId
      BY <1>2
    <3>4. listed = [m \in NodeId |-> base(F, m)]
      BY <3>3
    <3> HIDE DEF listed, base, M
    <3>5. t = [m \in NodeId |-> IF m = M THEN Append(base(F, m), id0) ELSE base(F, m)]
      BY <1>1, <3>1, <3>4
    <3> QED BY <3>2, <3>5
  <2> QED BY <2>1, <2>2 DEF Listing
<1>4. PICK F : /\ \A m \in F : ~IsModuleNode(m)
               /\ t = [m \in NodeId |-> IF m = M THEN Append(base(F, m), id0) ELSE base(F, m)]
  BY <1>3
<1>5. ASSUME NEW m \in NodeId
      PROVE  /\ IsSeq(base(F, m))
             /\ IsModuleNode(m) => base(F, m) = s[m]
  BY <1>2, <1>4, AppendIsSeq
<1> DEFINE b(m) == base(F, m)
<1>6. t = [m \in NodeId |-> IF m = M THEN Append(b(m), id0) ELSE b(m)]
  BY <1>4
<1>7. \A m \in NodeId : IsSeq(b(m)) /\ (IsModuleNode(m) => b(m) = s[m])
  BY <1>5
<1> HIDE DEF base, b, M
<1>8. t = [m \in NodeId |-> t[m]] /\ \A m \in NodeId : t[m] = IF m = M THEN Append(b(m), id0) ELSE b(m)
  BY <1>6
<1>9. ASSUME NEW m \in NodeId
      PROVE  /\ IsSeq(t[m])
             /\ Values(t[m]) = Values(b(m)) \cup (IF m = M THEN {id0} ELSE {})
  BY <1>7, <1>8, AppendIsSeq
<1>10. ListsOf(t)
  BY <1>8, <1>9 DEF ListsOf
<1>11. ASSUME NEW m \in Nodes, IsModuleNode(m)
       PROVE  Values(t[m]) = Values(s[m]) \cup (IF m = ModuleOf(id0) THEN {id0} ELSE {})
  <2>1. m \in NodeId
    BY NodesAreIds
  <2> QED BY <1>1, <1>7, <1>9, <1>11, <2>1
<1> QED BY <1>10, <1>11

LEMMA StepKinds ==
  ASSUME [Next]_vars
  PROVE  Leaves \/ Stays \/ Visits \/ GatherModule \/ GatherFunction \/ GatherConstant \/ ResolveModule
BY DEF Next, Stopped, Leaves, Stays, Visits

LEMMA StepKeeps ==
  ASSUME crate \in Crates, Ways, Ordered(work), [Next]_vars
  PROVE  Keeps
BY StepKinds, LeavesKeep, StaysKeep, VisitsKeep, GatheringKeeps, ResolveModuleKeeps

\* A step that lists nothing leaves the lists alone, and if it gathers something
\* it is an implementation.
LEMMA NotListing ==
  ASSUME [Next]_vars, ~Listing
  PROVE  /\ children' = children
         /\ work' = work \/ task.do # "gather" \/ crate[id0].kind \in Impls
<1>1. CASE Leaves
  <2>1. CASE GatherImplementation
    BY <2>1 DEF GatherImplementation, AtGather, At, item
  <2>2. CASE ~GatherImplementation
    <3>1. ~GatherType /\ ~GatherEnumeration /\ ~GatherTrait
      BY DEF Listing
    <3> QED BY <1>1, <2>2, <3>1 DEF Leaves, LeaveGatheredModule, ResolveItemVisibility, ResolveArgument,
          ResolveType, OpenRibs, OpenBlock, CloseRibs, OpenTypeRib, CloseTypeRib, EnterModuleAgain,
          LeaveModule, OpenTrait, CloseTrait, ResolveTypeAliasInTrait, LeaveImpl, CloseImpl, At, table
  <2> QED BY <2>1, <2>2
<1>2. CASE Stays
  BY <1>2 DEF Stays, GatherUnhandled, ResolveUnhandled, ResolveInTraitUnhandled, LeaveCrate, vars, table
<1>3. CASE Visits \/ ResolveModule
  BY <1>3 DEF Visits, ResolveFunction, ResolveAssociatedItem, ResolveStruct, ResolveTypeAlias, ResolveUnion,
         ResolveEnumeration, ResolveEnumItem, ResolveConstant, ResolveStatic, ResolveTrait,
         ResolveFunctionInTrait, ResolveInherentImpl, NameInherentImpl, ResolveTraitImpl, GiveUp,
         TraitFound, ImplementTrait, ResolveModule, At, table
<1> QED BY <1>1, <1>2, <1>3, StepKinds DEF Listing

LEMMA ModulesAreSeq == ASSUME Ways PROVE IsSeq(modules)
<1>1. CASE work # <<>>
  BY <1>1, TaskNow
<1>2. CASE work = <<>>
  <2>1. Leads("modules", work, modules, End) \/ modules = <<>>
    BY WaysNow
  <2>2. ASSUME Leads("modules", work, modules, End) PROVE modules = End
    <3>1. PICK f : f[0] = modules /\ f[Len(work)] = End
      BY <2>2 DEF Leads
    <3> QED BY <1>2, <3>1, EmptyIsSeq
  <2> QED BY <2>1, <2>2, EmptyIsSeq, EndShape
<1> QED BY <1>1, <1>2

\* The items of a module that is entered are still to be gathered.
LEMMA OpenModules ==
  ASSUME crate \in Crates, Ways, Ordered(work), [Next]_vars, NEW x \in Items, Parent(x) \in Values(modules')
  PROVE  Parent(x) \in Values(modules) \/ Awaits(work', x)
<1>1. IsSeq(modules)
  BY ModulesAreSeq
<1>2. CASE GatherModule \/ ResolveModule
  <2>1. modules' = Append(modules, id0)
    BY <1>2 DEF GatherModule, ResolveModule
  <2>2. Parent(x) \in Values(modules) \cup {id0}
    BY <1>1, <2>1, AppendIsSeq
  <2> QED BY <1>2, <2>2, GatheringKeeps, ResolveModuleKeeps
<1>3. CASE EnterModuleAgain
  <2>1. modules' = Append(modules, id0) /\ work # <<>> /\ task.do = "enterModule"
    BY <1>3 DEF EnterModuleAgain, At
  <2>2. Last(modules) = id0 /\ Len(modules) > 0
    BY <2>1, TaskNow DEF Fit, id0
  <2>3. id0 \in Values(modules)
    BY <1>1, <2>2, LastIsValue
  <2> QED BY <1>1, <2>1, <2>3, AppendIsSeq
<1>4. CASE LeaveModule \/ LeaveGatheredModule \/ LeaveCrate
  <2>1. modules' = Front(modules)
    BY <1>4 DEF LeaveModule, LeaveGatheredModule, LeaveCrate
  <2>2. Len(modules) > 0
    <3>1. CASE work # <<>>
      BY <3>1, TaskNow
    <3>2. CASE work = <<>>
      <4>1. modules # <<>>
        BY <1>4, <3>2 DEF LeaveModule, LeaveGatheredModule, LeaveCrate, At
      <4>2. Len(modules) \in Nat /\ Len(modules) # 0
        BY <1>1, <4>1, LenOfEmpty DEF IsSeq
      <4> QED BY <4>2
    <3> QED BY <3>1, <3>2
  <2> QED BY <1>1, <2>1, <2>2, FrontParts
<1>5. CASE ~(GatherModule \/ ResolveModule \/ EnterModuleAgain \/ LeaveModule \/ LeaveGatheredModule \/ LeaveCrate)
  <2>1. CASE Leaves
    BY <1>5, <2>1 DEF Leaves, GatherType, GatherEnumeration, GatherTrait, GatherImplementation,
         ResolveItemVisibility, ResolveArgument, ResolveType, OpenRibs, OpenBlock, CloseRibs, OpenTypeRib,
         CloseTypeRib, OpenTrait, CloseTrait, ResolveTypeAliasInTrait, LeaveImpl, CloseImpl
  <2>2. CASE Stays
    BY <1>5, <2>2 DEF Stays, GatherUnhandled, ResolveUnhandled, ResolveInTraitUnhandled, vars
  <2>3. CASE Visits
    BY <2>3 DEF Visits, ResolveFunction, ResolveAssociatedItem, ResolveStruct, ResolveTypeAlias, ResolveUnion,
         ResolveEnumeration, ResolveEnumItem, ResolveConstant, ResolveStatic, ResolveTrait,
         ResolveFunctionInTrait, ResolveInherentImpl, NameInherentImpl, ResolveTraitImpl, GiveUp,
         TraitFound, ImplementTrait
  <2>4. CASE GatherFunction \/ GatherConstant
    BY <2>4 DEF GatherFunction, GatherConstant
  <2> QED BY <1>5, <2>1, <2>2, <2>3, <2>4, StepKinds
<1> QED BY <1>2, <1>3, <1>4, <1>5

LEMMA KidsStep ==
  ASSUME crate \in Crates, Ways, Ordered(work), Kids, [Next]_vars, crate' = crate
  PROVE  Kids'
<1>1. PICK s : s = children /\ ListsOf(s) /\ SoundIn(s) /\ CompleteIn(s, work, modules)
  BY KidsNow
<1>2. PICK t, r, k : t = children' /\ r = work' /\ k = modules'
  OBVIOUS
<1>3. /\ Keeps
      /\ \A x \in Items : Parent(x) \in Values(k) => Parent(x) \in Values(modules) \/ Awaits(r, x)
  BY <1>2, StepKeeps, OpenModules
<1>4. ASSUME Listing
      PROVE  /\ \A m \in Nodes : IsModuleNode(m) =>
                   Values(t[m]) = Values(s[m]) \cup (IF m = ModuleOf(id0) THEN {id0} ELSE {})
             /\ ListsOf(t) /\ Listable(id0) /\ Gathered(id0)
             /\ ModuleOf(id0) \in Nodes /\ IsModuleNode(ModuleOf(id0))
  BY <1>1, <1>2, <1>4, ListingLists, ListingFacts
<1>5. ASSUME ~Listing
      PROVE  /\ t = s
             /\ \A x \in Items : Listable(x) /\ Awaits(work, x) => Awaits(r, x)
  BY <1>1, <1>2, <1>3, <1>5, NotListing DEF Keeps, Listable
<1>6. ListsOf(t)
  BY <1>1, <1>4, <1>5
<1>7. SoundIn(t)
  <2>1. CASE Listing
    BY <1>1, <1>4, <2>1 DEF SoundIn
  <2>2. CASE ~Listing
    BY <1>1, <1>5, <2>2
  <2> QED BY <2>1, <2>2
<1>8. ASSUME NEW x \in Items
      PROVE  /\ Listed(s, x) => Listed(t, x)
             /\ Listing /\ x = id0 => Listed(t, x)
             /\ ~Listed(s, x) /\ Listed(t, x) => Listing /\ x = id0
  <2>1. ModuleOf(x) \in Nodes /\ IsModuleNode(ModuleOf(x))
    BY ModuleIsNode
  <2> QED BY <1>4, <1>5, <2>1 DEF Listed
<1>9. ASSUME NEW x \in Items, Listable(x), Found(s, work, x) PROVE Found(t, r, x)
  <2>1. CASE Listed(s, x)
    BY <1>8, <2>1 DEF Found
  <2>2. CASE Awaits(work, x) /\ Listing
    <3>1. Awaits(r, x) \/ id0 = x
      BY <1>2, <1>3, <2>2 DEF Keeps
    <3> QED BY <1>8, <2>2, <3>1 DEF Found
  <2>3. CASE Awaits(work, x) /\ ~Listing
    BY <1>5, <1>9, <2>3 DEF Found
  <2> QED BY <1>9, <2>1, <2>2, <2>3 DEF Found
<1>10. CompleteIn(t, r, k)
  <2>1. SUFFICES ASSUME NEW x \in Items, Listable(x)
                 PROVE  /\ Parent(x) \in Values(k) => Found(t, r, x)
                        /\ InBody(x) /\ ~crate[x].deep /\ Listed(t, Parent(x)) => Found(t, r, x)
    BY DEF CompleteIn
  <2>2. ASSUME Parent(x) \in Values(k) PROVE Found(t, r, x)
    <3>1. CASE Parent(x) \in Values(modules)
      BY <1>1, <1>9, <2>1, <3>1 DEF CompleteIn
    <3>2. CASE Awaits(r, x)
      BY <3>2 DEF Found
    <3> QED BY <1>3, <2>2, <3>1, <3>2
  <2>3. ASSUME InBody(x), ~crate[x].deep, Listed(t, Parent(x)) PROVE Found(t, r, x)
    <3>1. CASE Listed(s, Parent(x))
      BY <1>1, <1>9, <2>1, <2>3, <3>1 DEF CompleteIn
    <3>2. CASE ~Listed(s, Parent(x))
      <4>1. Parent(x) \in Items
        <5>1. Parent(x) \in Nodes /\ crate[Parent(x)].kind \in Bodies /\ crate[CrateNode].kind = "Crate"
          BY <2>3, ItemShape, CrateShape DEF InBody, Parent
        <5> QED BY <5>1 DEF Items, Nodes, Bodies
      <4>2. Listing /\ Parent(x) = id0
        BY <1>8, <2>3, <3>2, <4>1
      <4>3. crate[id0].kind \in Bodies
        BY <2>3, <4>2 DEF InBody, Parent
      <4>4. GatherFunction \/ GatherConstant
        BY <4>2, <4>3 DEF Listing, GatherModule, GatherType, GatherEnumeration, GatherTrait, AtGather, At,
              item, Bodies, Structs
      <4>5. Awaits(r, x)
        BY <1>2, <2>3, <4>2, <4>4, GatheringKeeps
      <4> QED BY <4>5 DEF Found
    <3> QED BY <3>1, <3>2
  <2> QED BY <2>2, <2>3
<1>11. ListsOf(t)' /\ SoundIn(t)' /\ CompleteIn(t, r, k)'
  <2>1. ListsOf(t)'
    BY <1>6 DEF ListsOf
  <2>2. \A x : Listable(x)' <=> Listable(x)
    BY SameTree DEF Listable, Impls
  <2>3. \A m : IsModuleNode(m)' <=> IsModuleNode(m)
    BY DEF IsModuleNode
  <2>4. SoundIn(t)'
    BY <1>7, <2>2, <2>3, SameTree DEF SoundIn
  <2>5. CompleteIn(t, r, k)'
    BY <1>10, <2>2, SameTree DEF CompleteIn, Found, Listed, Awaits
  <2> QED BY <2>1, <2>4, <2>5
<1> QED BY <1>2, <1>11 DEF Kids

\* At the start everything is still to be gathered.
LEMMA KidsFirst ==
  ASSUME Init
  PROVE  Ordered(work) /\ Kids
<1> DEFINE ids == Inside(CrateNode)
           s == Tasks("gather", ids, Empty, Single(CrateName))
           r == Tasks("resolve", ids, Empty, Single(CrateName))
<1>0. crate \in Crates
  BY DEF Init
<1>1. work = s \o r /\ children = [id \in 1..MaxNode |-> <<>>] /\ modules = End
  BY DEF Init, End
<1>2. IsSeq(ids) /\ Values(ids) = {x \in Items : Parent(x) = CrateNode}
  BY <1>0, CrateShape, InsideValues
<1> HIDE DEF ids
<1>3. OnlyEarly(s) /\ OnlyLate(r) /\ \A x \in Items : Parent(x) = CrateNode => Awaits(s, x)
  BY <1>2, EarlyTasks, LateTasks, AwaitsTasks DEF Gathering
<1> HIDE DEF s, r
<1>4. Ordered(s \o r)
  BY <1>3, LateIsOrdered, OrderedConcat
<1>5. \A x \in Items : Parent(x) = CrateNode => Awaits(s \o r, x)
  BY <1>3, AwaitsConcat DEF OnlyEarly, OnlyLate
<1>6. PICK t : t = children
  OBVIOUS
<1>7. t = [m \in NodeId |-> t[m]] /\ \A m \in NodeId : t[m] = <<>>
  BY <1>1, <1>6 DEF NodeId
<1>8. \A m \in NodeId : IsSeq(t[m]) /\ Values(t[m]) = {}
  <2>1. Values(<<>>) = {}
    BY EmptyIsSeq DEF Values
  <2> QED BY <1>7, <2>1, EmptyIsSeq
<1>9. ListsOf(t)
  BY <1>7, <1>8 DEF ListsOf
<1>10. SoundIn(t)
  BY <1>0, <1>8, NodesAreIds DEF SoundIn
<1>11. CompleteIn(t, work, modules)
  <2>1. SUFFICES ASSUME NEW x \in Items
                 PROVE  /\ Parent(x) \in Values(modules) => Found(t, work, x)
                        /\ InBody(x) /\ ~crate[x].deep /\ Listed(t, Parent(x)) => Found(t, work, x)
    BY DEF CompleteIn
  <2>2. Parent(x) \in Values(modules) => Found(t, work, x)
    BY <1>1, <1>5, EndShape DEF Found
  <2>3. InBody(x) => ~Listed(t, Parent(x))
    <3>1. SUFFICES ASSUME InBody(x) PROVE ~Listed(t, Parent(x))
      OBVIOUS
    <3>2. Parent(x) \in Items
      <4>1. Parent(x) \in Nodes /\ crate[Parent(x)].kind \in Bodies /\ crate[CrateNode].kind = "Crate"
        BY <1>0, <3>1, ItemShape, CrateShape DEF InBody, Parent
      <4> QED BY <4>1 DEF Items, Nodes, Bodies
    <3>3. ModuleOf(Parent(x)) \in NodeId
      BY <1>0, <3>2, ModuleIsNode, NodesAreIds
    <3> QED BY <1>8, <3>3 DEF Listed
  <2> QED BY <2>2, <2>3
<1>12. Kids
  BY <1>6, <1>9, <1>10, <1>11 DEF Kids
<1> QED BY <1>1, <1>4, <1>12

\* When nothing is to be gathered any more an open module has all that belongs
\* to it.
LEMMA AllListed ==
  ASSUME crate \in Crates, Kids, OnlyLate(work), NEW x \in Items, Listable(x), Gathered(x),
         ModuleOf(x) \in Values(modules)
  PROVE  Listed(children, x)
<1>1. PICK t, k : /\ t = children /\ k = modules /\ CompleteIn(t, work, k)
  BY KidsNow
<1> DEFINE Good(y) == Listable(y) /\ Gathered(y) /\ ModuleOf(y) \in Values(k) => Listed(t, y)
           P == {y \in Nodes : y \in Items => Good(y)}
<1>2. CrateNode \in P
  BY CrateShape DEF Items
<1>3. ASSUME NEW y \in Items, Parent(y) \in P PROVE y \in P
  <2>1. SUFFICES ASSUME Listable(y), Gathered(y), ModuleOf(y) \in Values(k) PROVE Listed(t, y)
    BY ItemShape
  <2>2. \/ Parent(y) \in Values(k)
        \/ InBody(y) /\ ~crate[y].deep /\ Listed(t, Parent(y))
    <3>1. CASE IsModuleNode(Parent(y))
      BY <2>1, <3>1, ChildFacts
    <3>2. CASE ~IsModuleNode(Parent(y))
      <4>1. InBody(y) /\ ~crate[y].deep /\ Gathered(Parent(y))
        BY <2>1, <3>2, GatheredEquation
      <4>2. Listable(Parent(y))
        <5>1. /\ Parent(y) \in Nodes /\ crate[Parent(y)].kind \in Bodies
              /\ crate[CrateNode].kind = "Crate"
          BY <4>1, ItemShape, CrateShape DEF InBody, Parent
        <5> QED BY <5>1 DEF Items, Nodes, Bodies, Listable, Impls, TypesOfImpl
      <4>3. ModuleOf(Parent(y)) \in Values(k)
        BY <2>1, <3>2, ChildFacts
      <4>4. Listed(t, Parent(y))
        BY <1>3, <4>1, <4>2, <4>3 DEF Listable
      <4> QED BY <4>1, <4>4
    <3> QED BY <3>1, <3>2
  <2>3. ~Awaits(work, y)
    BY LateAwaitsNone
  <2> QED BY <1>1, <2>1, <2>2, <2>3 DEF CompleteIn, Found
<1>4. x \in Nodes
  BY ItemShape
<1> HIDE DEF P
<1>5. x \in P
  BY <1>2, <1>3, <1>4, TreeInduction
<1> QED BY <1>1, <1>5 DEF P

-----------------------------------------------------------------------------
(* What is looked up *)

LEMMA EnvFields ==
  /\ Env.names = nameScope /\ Env.types = typeScope /\ Env.modules = modules /\ Env.children = children
  /\ Env.called = [id \in Nodes |-> crate[id].name]
BY DEF Env, Nodes

LEMMA NamedAreNodes ==
  ASSUME crate \in Crates, NEW x \in Items
  PROVE  x # NoNode
<1>1. x \in 1..Len(crate) /\ Len(crate) \in Nat
  BY CrateShape, ItemShape
<1> QED BY <1>1 DEF NoNode

\* A child of an open module.
LEMMA ChildMeans ==
  ASSUME crate \in Crates, Kids, OnlyLate(work), NEW m \in Nodes, m \in Values(modules), IsModuleNode(m),
         NEW w, NEW c, c = LookupModuleChild(Env, m, w)
  PROVE  IF c = NoNode THEN Named(m, w) = {} ELSE c \in Named(m, w)
<1>1. PICK s : s = children[m]
  OBVIOUS
<1>2. IsSeq(s) /\ \A x \in Values(s) : Listable(x) /\ Gathered(x) /\ ModuleOf(x) = m
  <2>1. m \in NodeId
    BY NodesAreIds
  <2> QED BY <1>1, <2>1, KidsNow DEF ListsOf, SoundIn
<1>3. \A x \in Values(s) : x \in Items /\ crate[x].kind \notin Impls /\ x \in Nodes
  BY <1>2, ItemShape DEF Listable
<1> DEFINE hits == {i \in 1..Len(s) : crate[s[i]].name = w}
<1>4. \A i \in 1..Len(s) : s[i] \in Values(s)
  BY DEF Values
<1>5. c = IF hits = {} THEN NoNode ELSE s[FirstIndex(hits)]
  <2> DEFINE h == {i \in DOMAIN s : Env.called[s[i]] = w}
  <2>1. c = IF h = {} THEN NoNode ELSE s[FirstIndex(h)]
    BY <1>1, EnvFields DEF LookupModuleChild
  <2>2. DOMAIN s = 1..Len(s)
    <3>1. s = [i \in 1..Len(s) |-> s[i]]
      BY <1>2 DEF IsSeq
    <3> QED BY <3>1
  <2>3. \A i \in 1..Len(s) : Env.called[s[i]] = crate[s[i]].name
    BY <1>3, <1>4, EnvFields
  <2>4. h = hits
    BY <2>2, <2>3
  <2> QED BY <2>1, <2>4
<1>6. CASE hits = {}
  <2>1. ASSUME NEW x \in Named(m, w) PROVE FALSE
    <3>1. x \in Items /\ Listable(x) /\ Gathered(x) /\ ModuleOf(x) = m /\ crate[x].name = w
      BY DEF Named, Listable
    <3>2. x \in Values(s)
      BY <1>1, <3>1, AllListed DEF Listed
    <3>3. PICK i \in 1..Len(s) : x = s[i]
      BY <3>2 DEF Values
    <3> QED BY <1>6, <3>1, <3>3
  <2> QED BY <1>5, <1>6, <2>1
<1>7. CASE hits # {}
  <2>1. hits \in SUBSET Nat
    BY <1>2 DEF IsSeq
  <2> DEFINE i == FirstIndex(hits)
  <2>2. i \in hits
    BY <1>7, <2>1, FirstIndexIn
  <2>3. c = s[i] /\ i \in 1..Len(s) /\ crate[s[i]].name = w
    BY <1>5, <1>7, <2>2
  <2> HIDE DEF i, hits
  <2>4. c \in Named(m, w) /\ c \in Items
    BY <1>2, <1>3, <1>4, <2>3 DEF Named
  <2> QED BY <2>4, NamedAreNodes
<1> QED BY <1>6, <1>7

\* A name that is known in a scope that something stands in.
LEMMA LookupMeans ==
  ASSUME crate \in Crates, NEW s, NEW a, Holds(s, a), NEW x \in Nodes, Values(a) \subseteq Around(x),
         NEW w \in Known, NEW d, d = Lookup(s, Single(w)), d # NoNode
  PROVE  d \in InScope(x, w)
<1> DEFINE hits == {i \in 1..Len(s) : s[i].path[Single(w)] # NoNode}
           i == FirstIndex(hits)
<1>1. d = IF hits = {} THEN NoNode ELSE s[i].path[Single(w)]
  BY DEF Lookup
<1>2. hits # {} /\ hits \in SUBSET Nat
  BY <1>1
<1>3. i \in hits
  BY <1>2, FirstIndexIn
<1>4. i \in 1..Len(s) /\ d = Told(s[i], w)
  BY <1>1, <1>2, <1>3 DEF Told
<1> HIDE DEF i, hits
<1>5. PICK o : o = a[i]
  OBVIOUS
<1>6. Clear(s[i], o) /\ o \in Values(a)
  BY <1>4, <1>5 DEF Holds, Values
<1>7. Denotes(o, w, d) /\ o \in OpenAround(x) \cup {x}
  BY <1>4, <1>6 DEF Clear, Around
<1> QED BY <1>7 DEF Denotes, InScope

-----------------------------------------------------------------------------
(* The loop over the segments of a path *)

\* The state of the resolver while a type of an item is resolved.
SeenFrom(scope, x) == \E a : Holds(scope, a) /\ Values(a) \subseteq Around(x)
Looking(x) ==
  /\ crate \in Crates /\ Kids /\ OnlyLate(work) /\ x \in Items
  /\ SeenFrom(nameScope, x) /\ SeenFrom(typeScope, x)
  /\ IsSeq(modules) /\ Len(modules) > 0 /\ modules[1] = CrateNode
  /\ Last(modules) = ModuleOf(x)
  /\ Len(modules) > 1 => modules[Len(modules) - 1] = ModuleOf(x)

\* The state of the loop after i segments.
IsWalk(s) == s = [module |-> s.module, previous |-> s.previous, resolved |-> s.resolved,
                  log |-> s.log, end |-> s.end]
Walked(x, p, s, i) ==
  /\ IsWalk(s) /\ \A e \in s.log : e[1] # 0
  /\ i = 0 => s.end = "no" /\ s.resolved = NoNode
  /\ s.end = "no" /\ s.resolved = NoNode =>
       /\ s.module = BaseOf(x, p, i + 1) /\ s.previous = s.module
       /\ \A j \in 1..i : ~Counts(x, p, j)
  /\ s.resolved # NoNode => Reaches(x, p, s.resolved)

\* The records of the loop, field by field.
LEMMA WalkOperators ==
  ASSUME NEW s, IsWalk(s), NEW i
  PROVE  /\ \A how : /\ IsWalk(Ended(s, how)) /\ Ended(s, how).log = s.log
                     /\ Ended(s, how).resolved = s.resolved /\ Ended(s, how).end = how
         /\ \A m : /\ IsWalk(EnterModule(s, i, m)) /\ EnterModule(s, i, m).log = s.log \cup {<<i, "name", m>>}
                   /\ EnterModule(s, i, m).resolved = s.resolved /\ EnterModule(s, i, m).end = s.end
                   /\ EnterModule(s, i, m).module = m /\ EnterModule(s, i, m).previous = m
         /\ \A space, d : /\ IsWalk(Resolved(s, i, space, d))
                          /\ Resolved(s, i, space, d).log = s.log \cup {<<i, space, d>>}
                          /\ Resolved(s, i, space, d).resolved = d
                          /\ Resolved(s, i, space, d).end = s.end
                          /\ Resolved(s, i, space, d).module = s.module
                          /\ Resolved(s, i, space, d).previous = s.previous
<1>1. s = [module |-> s.module, previous |-> s.previous, resolved |-> s.resolved, log |-> s.log, end |-> s.end]
  BY DEF IsWalk
<1>2. ASSUME NEW how
      PROVE  /\ IsWalk(Ended(s, how)) /\ Ended(s, how).log = s.log
             /\ Ended(s, how).resolved = s.resolved /\ Ended(s, how).end = how
  BY <1>1 DEF Ended, IsWalk
<1>3. ASSUME NEW m
      PROVE  /\ IsWalk(EnterModule(s, i, m)) /\ EnterModule(s, i, m).log = s.log \cup {<<i, "name", m>>}
             /\ EnterModule(s, i, m).resolved = s.resolved /\ EnterModule(s, i, m).end = s.end
             /\ EnterModule(s, i, m).module = m /\ EnterModule(s, i, m).previous = m
  <2> DEFINE l == s.log \cup {<<i, "name", m>>}
             t == [s EXCEPT !.module = m, !.previous = m, !.log = l]
  <2>1. EnterModule(s, i, m) = t
    BY DEF EnterModule
  <2>3. t = [s EXCEPT !.module = m, !.previous = m, !.log = l]
    OBVIOUS
  <2> HIDE DEF l, t
  <2>2. t = [module |-> m, previous |-> m, resolved |-> s.resolved, log |-> l, end |-> s.end]
    BY <1>1, <2>3
  <2> QED BY <2>1, <2>2 DEF IsWalk, l
<1>4. ASSUME NEW space, NEW d
      PROVE  /\ IsWalk(Resolved(s, i, space, d))
             /\ Resolved(s, i, space, d).log = s.log \cup {<<i, space, d>>}
             /\ Resolved(s, i, space, d).resolved = d
             /\ Resolved(s, i, space, d).end = s.end
             /\ Resolved(s, i, space, d).module = s.module
             /\ Resolved(s, i, space, d).previous = s.previous
  <2> DEFINE l == s.log \cup {<<i, space, d>>}
             t == [s EXCEPT !.resolved = d, !.log = l]
  <2>1. Resolved(s, i, space, d) = t
    BY DEF Resolved
  <2>3. t = [s EXCEPT !.resolved = d, !.log = l]
    OBVIOUS
  <2> HIDE DEF l, t
  <2>2. t = [module |-> s.module, previous |-> s.previous, resolved |-> d, log |-> l, end |-> s.end]
    BY <1>1, <2>3
  <2> QED BY <2>1, <2>2 DEF IsWalk, l
<1> QED BY <1>2, <1>3, <1>4

\* Settling changes no more than where the next segment is looked up.
LEMMA SettleKeeps ==
  ASSUME NEW env, NEW s, IsWalk(s), NEW i
  PROVE  /\ IsWalk(Settle(env, s, i)) /\ Settle(env, s, i).log = s.log
         /\ Settle(env, s, i).resolved = s.resolved
         /\ s.resolved = NoNode /\ i # 1 => Settle(env, s, i) = s
         /\ s.resolved = NoNode /\ i = 1 => Settle(env, s, i).end # "no"
<1> DEFINE m == IF IsModule(env, s.resolved) \/ IsCrate(s.resolved) THEN s.resolved ELSE s.module
           t == [s EXCEPT !.previous = s.resolved, !.module = m]
<1>1. s = [module |-> s.module, previous |-> s.previous, resolved |-> s.resolved, log |-> s.log, end |-> s.end]
  BY DEF IsWalk
<1>2. IsWalk(t) /\ t.log = s.log /\ t.resolved = s.resolved
  <2>3. t = [s EXCEPT !.previous = s.resolved, !.module = m]
    OBVIOUS
  <2> HIDE DEF m, t
  <2>1. t = [module |-> m, previous |-> s.resolved, resolved |-> s.resolved, log |-> s.log, end |-> s.end]
    BY <1>1, <2>3
  <2> QED BY <2>1 DEF IsWalk
<1>3. Settle(env, s, i) = IF s.end # "no" THEN s
                          ELSE IF s.resolved = NoNode THEN IF i = 1 THEN Ended(s, "exit") ELSE s ELSE t
  BY <1>1 DEF Settle
<1> HIDE DEF t
<1>4. IsWalk(Ended(s, "exit")) /\ Ended(s, "exit").log = s.log /\ Ended(s, "exit").resolved = s.resolved
      /\ Ended(s, "exit").end = "exit"
  BY WalkOperators
<1> QED BY <1>2, <1>3, <1>4

\* The module in which the next segment is looked up.
LEMMA NextBase ==
  ASSUME NEW x, NEW p, NEW i \in Nat, i > 0
  PROVE  BaseOf(x, p, i + 1) = IF p[i] \in {"crate", "self"} THEN CrateNode ELSE BaseOf(x, p, i)
<1>1. (i + 1) - 1 = i /\ 1..i = 1..(i - 1) \cup {i}
  OBVIOUS
<1> DEFINE K(j) == p[j] \in {"crate", "self"}
<1>2. /\ BaseOf(x, p, i) = IF \E j \in 1..(i - 1) : K(j) THEN CrateNode ELSE ModuleOf(x)
      /\ BaseOf(x, p, i + 1) = IF \E j \in 1..i : K(j) THEN CrateNode ELSE ModuleOf(x)
  BY <1>1 DEF BaseOf
<1>3. (\E j \in 1..i : K(j)) <=> K(i) \/ \E j \in 1..(i - 1) : K(j)
  BY <1>1
<1> HIDE DEF K
<1>4. BaseOf(x, p, i + 1) = IF K(i) THEN CrateNode ELSE BaseOf(x, p, i)
  BY <1>2, <1>3
<1> QED BY <1>4 DEF K

LEMMA FirstBase == ASSUME NEW x, NEW p PROVE BaseOf(x, p, 1) = ModuleOf(x)
  BY DEF BaseOf

\* A first name that counts is the first name.
LEMMA CountingReaches ==
  ASSUME NEW x, NEW p \in Seq(Known), NEW i \in 1..Len(p), Counts(x, p, i),
         \A j \in 1..(i - 1) : ~Counts(x, p, j), NEW d,
         d \in Named(BaseOf(x, p, i), p[i]) \/ (i = 1 /\ d \in InScope(x, p[1]))
  PROVE  Reaches(x, p, d)
<1>1. DOMAIN p = 1..Len(p)
  BY LenProperties
<1>2. i \in FirstName(x, p)
  BY <1>1 DEF FirstName
<1> QED BY <1>2 DEF Reaches

\* The words of a path.
LEMMA PathWords ==
  ASSUME NEW p \in Seq(Known), NEW i \in 1..Len(p)
  PROVE  /\ p[i] \in Known
         /\ p[i] \in Words => p[i] \notin {"crate", "super", "self"}
<1>1. p[i] \in Known
  BY ElementOfSeq
<1>2. Words \cap Keywords = {}
  BY ItemsAssumption
<1> QED BY <1>1, <1>2 DEF Keywords

LEMMA AroundNodes ==
  ASSUME crate \in Crates, NEW x \in Nodes
  PROVE  OpenAround(x) \subseteq Nodes
<1> DEFINE P == {y \in Nodes : OpenAround(y) \subseteq Nodes}
<1>1. CrateNode \in P
  BY CrateShape, AroundEquation
<1>2. ASSUME NEW y \in Items, Parent(y) \in P PROVE y \in P
  BY <1>2, ItemShape, AroundEquation DEF Around
<1> HIDE DEF P
<1>3. x \in P
  BY <1>1, <1>2, TreeInduction
<1> QED BY <1>3 DEF P

\* Nothing is known as self.
LEMMA NothingIsSelf ==
  ASSUME crate \in Crates, NEW x \in Nodes
  PROVE  InScope(x, "self") = {}
<1>1. "self" \notin Words /\ "self" # ""
  BY ItemsAssumption DEF Keywords
<1>2. \A y \in Items : crate[y].name # "self"
  BY <1>1, ItemShape
<1>3. \A o \in OpenAround(x) \cup {x} : o \in Nodes
  BY AroundNodes
<1>4. \A o \in Nodes : crate[o].param # "self"
  BY <1>1, CrateShape
<1> QED BY <1>1, <1>2, <1>3, <1>4 DEF InScope

\* What the loop has put into the log are segments.
Sound(s) == IsWalk(s) /\ \A e \in s.log : e[1] # 0

LEMMA SoundOperators ==
  ASSUME NEW s, Sound(s), NEW i, i # 0
  PROVE  /\ \A how : Sound(Ended(s, how))
         /\ \A m : Sound(EnterModule(s, i, m))
         /\ \A space, d : Sound(Resolved(s, i, space, d))
         /\ \A env : Sound(Settle(env, s, i)) /\ Sound(Super(env, s, i))
         /\ \A env, w : Sound(AsChild(env, s, i, w))
<1>1. IsWalk(s) /\ \A e \in s.log : e[1] # 0
  BY DEF Sound
<1>2. ASSUME NEW m, NEW n, NEW e \in s.log \cup {<<i, m, n>>} PROVE e[1] # 0
  BY <1>1, <1>2
<1>3. ASSUME NEW how PROVE Sound(Ended(s, how))
  <2>1. IsWalk(Ended(s, how)) /\ Ended(s, how).log = s.log
    BY <1>1, WalkOperators
  <2> QED BY <1>1, <2>1 DEF Sound
<1>4. ASSUME NEW m PROVE Sound(EnterModule(s, i, m))
  <2>1. IsWalk(EnterModule(s, i, m)) /\ EnterModule(s, i, m).log = s.log \cup {<<i, "name", m>>}
    BY <1>1, WalkOperators
  <2> QED BY <1>2, <2>1 DEF Sound
<1>5. ASSUME NEW space, NEW d PROVE Sound(Resolved(s, i, space, d))
  <2>1. IsWalk(Resolved(s, i, space, d)) /\ Resolved(s, i, space, d).log = s.log \cup {<<i, space, d>>}
    BY <1>1, WalkOperators
  <2> QED BY <1>2, <2>1 DEF Sound
<1>6. ASSUME NEW env PROVE Sound(Settle(env, s, i)) /\ Sound(Super(env, s, i))
  <2>0. IsWalk(s)
    BY <1>1
  <2>1. IsWalk(Settle(env, s, i))
    BY <2>0, SettleKeeps
  <2>2. Settle(env, s, i).log = s.log
    BY <2>0, SettleKeeps
  <2>3. Sound(Settle(env, s, i))
    BY <1>1, <2>1, <2>2 DEF Sound
  <2>4. Sound(Super(env, s, i))
    BY <1>3, <1>4 DEF Super
  <2> QED BY <2>3, <2>4
<1>7. ASSUME NEW env, NEW w PROVE Sound(AsChild(env, s, i, w))
  <2> DEFINE c == LookupModuleChild(env, s.module, w)
  <2>1. AsChild(env, s, i, w) \in {s, Ended(s, "nullopt"), Resolved(s, i, Space(env, c), c)}
    BY DEF AsChild
  <2> QED BY <1>3, <1>5, <2>1
<1> QED BY <1>3, <1>4, <1>5, <1>6, <1>7

LEMMA StartIsSound ==
  ASSUME NEW env, NEW s, Sound(s), NEW w
  PROVE  Sound(AtStart(env, s, w))
<1>1. AtStart(env, s, w) \in {s, Resolved(s, 1, "type", Lookup(env.types, Single(w))),
                              Resolved(s, 1, "name", Lookup(env.names, Single(w)))}
  BY DEF AtStart
<1>2. \A space, d : Sound(Resolved(s, 1, space, d))
  BY SoundOperators
<1> QED BY <1>1, <1>2

LEMMA SegmentIsSound ==
  ASSUME NEW env, NEW p, NEW s, Sound(s), NEW i, i # 0
  PROVE  Sound(TypeSegment(env, p, s, i))
<1> DEFINE w == p[i]
           t == IF i = 1 THEN AtStart(env, s, w) ELSE s
           u == AsChild(env, t, i, w)
<1>1. Sound(t)
  BY StartIsSound
<1>2. TypeSegment(env, p, s, i) \in {s, Ended(s, "nullopt"), EnterModule(s, i, CrateNode), Super(env, s, i),
                                     Settle(env, u, i), Settle(env, t, i)}
  BY DEF TypeSegment
<1> HIDE DEF t
<1>3. Sound(u)
  BY <1>1, SoundOperators
<1> HIDE DEF u
<1>4. Sound(Settle(env, u, i)) /\ Sound(Settle(env, t, i))
  BY <1>1, <1>3, SoundOperators
<1>5. Sound(Ended(s, "nullopt")) /\ Sound(EnterModule(s, i, CrateNode)) /\ Sound(Super(env, s, i))
  BY SoundOperators
<1> QED BY <1>2, <1>4, <1>5

\* Where a path is resolved.
LEMMA LookingFacts ==
  ASSUME NEW x, Looking(x)
  PROVE  /\ x \in Nodes
         /\ \A m \in {CrateNode, ModuleOf(x)} : m \in Nodes /\ IsModuleNode(m) /\ m \in Values(modules)
         /\ \A p, i : BaseOf(x, p, i) \in {CrateNode, ModuleOf(x)}
         /\ PeekCurrentModuleScope(Env) = ModuleOf(x)
         /\ Len(modules) > 1 => PeekParentModuleScope(Env) = ModuleOf(x)
         /\ \A w \in Known : \A s \in {Env.names, Env.types} :
              Lookup(s, Single(w)) # NoNode => Lookup(s, Single(w)) \in InScope(x, w)
<1>1. crate \in Crates /\ x \in Items /\ IsSeq(modules) /\ Len(modules) > 0
  BY DEF Looking
<1>2. x \in Nodes
  BY <1>1, ItemShape
<1>3. CrateNode \in Nodes /\ IsModuleNode(CrateNode) /\ ModuleOf(x) \in Nodes /\ IsModuleNode(ModuleOf(x))
  BY <1>1, CrateShape, ModuleIsNode DEF IsModuleNode
<1>4. CrateNode \in Values(modules) /\ ModuleOf(x) \in Values(modules)
  <2>1. Len(modules) \in Nat /\ 1 \in 1..Len(modules) /\ Len(modules) \in 1..Len(modules)
    BY <1>1 DEF IsSeq
  <2>2. modules[1] = CrateNode /\ modules[Len(modules)] = ModuleOf(x)
    BY DEF Looking, Last
  <2> QED BY <2>1, <2>2 DEF Values
<1>5. \A p, i : BaseOf(x, p, i) \in {CrateNode, ModuleOf(x)}
  BY DEF BaseOf
<1>6. PeekCurrentModuleScope(Env) = ModuleOf(x) /\ (Len(modules) > 1 => PeekParentModuleScope(Env) = ModuleOf(x))
  BY EnvFields DEF Looking, PeekCurrentModuleScope, PeekParentModuleScope
<1>7. ASSUME NEW w \in Known, NEW s \in {Env.names, Env.types}, Lookup(s, Single(w)) # NoNode
      PROVE  Lookup(s, Single(w)) \in InScope(x, w)
  <2>1. PICK a : Holds(s, a) /\ Values(a) \subseteq Around(x)
    BY <1>7, EnvFields DEF Looking, SeenFrom
  <2> QED BY <1>1, <1>2, <1>7, <2>1, LookupMeans
<1> QED BY <1>2, <1>3, <1>4, <1>5, <1>6, <1>7

\* super leads to the module of the item itself, if anywhere.
LEMMA SuperSegment ==
  ASSUME NEW x, Looking(x), NEW p, NEW i, NEW s, IsWalk(s), s.module = BaseOf(x, p, i),
         NEW t, t = Super(Env, s, i)
  PROVE  /\ t.resolved = s.resolved
         /\ t.end = "no" => t.module = s.module /\ t.previous = s.module
<1>1. CASE s.module = CrateNode
  <2>1. t = Ended(s, "nullopt")
    BY <1>1 DEF Super
  <2> QED BY <2>1, WalkOperators
<1>2. CASE s.module # CrateNode /\ Len(modules) < 2
  <2>1. t = Ended(s, "abort")
    BY <1>2, EnvFields DEF Super
  <2> QED BY <2>1, WalkOperators
<1>3. CASE s.module # CrateNode /\ ~(Len(modules) < 2)
  <2>1. s.module = ModuleOf(x)
    BY <1>3, LookingFacts
  <2>2. Len(modules) > 1
    <3>1. Len(modules) \in Nat
      BY DEF Looking, IsSeq
    <3> QED BY <1>3, <3>1
  <2>3. t = EnterModule(s, i, ModuleOf(x))
    BY <1>3, <2>2, LookingFacts, EnvFields DEF Super
  <2> QED BY <2>1, <2>3, WalkOperators
<1> QED BY <1>1, <1>2, <1>3

\* A name is looked for in the module, which has all its children.
LEMMA ChildSegment ==
  ASSUME NEW x, Looking(x), NEW p \in Seq(Known), NEW i \in 1..Len(p), p[i] \in Words,
         \A j \in 1..(i - 1) : ~Counts(x, p, j),
         NEW s, IsWalk(s), s.resolved = NoNode, s.end = "no", s.module = BaseOf(x, p, i),
         NEW t, t = AsChild(Env, s, i, p[i])
  PROVE  /\ IsWalk(t)
         /\ t.resolved # NoNode => Reaches(x, p, t.resolved)
         /\ t.resolved = NoNode /\ t.end = "no" => t = s /\ Named(BaseOf(x, p, i), p[i]) = {}
<1> DEFINE m == BaseOf(x, p, i)
           c == LookupModuleChild(Env, m, p[i])
<1>1. IF c = NoNode THEN Named(m, p[i]) = {} ELSE c \in Named(m, p[i])
  <2>1. m \in Nodes /\ IsModuleNode(m) /\ m \in Values(modules)
    BY LookingFacts
  <2>2. crate \in Crates /\ Kids /\ OnlyLate(work)
    BY DEF Looking
  <2> HIDE DEF m
  <2> QED BY <2>1, <2>2, ChildMeans
<1>2. t = IF c = NoNode THEN s ELSE IF Space(Env, c) = "none" THEN Ended(s, "nullopt")
          ELSE Resolved(s, i, Space(Env, c), c)
  BY DEF AsChild
<1>3. c # NoNode => Reaches(x, p, c)
  <2>1. SUFFICES ASSUME c # NoNode PROVE Reaches(x, p, c)
    OBVIOUS
  <2>2. c \in Named(m, p[i])
    BY <1>1, <2>1
  <2>3. Counts(x, p, i)
    <3>1. p[i] \notin Keywords /\ (i = 1 \/ i > 1)
      BY PathWords DEF Keywords
    <3> QED BY <2>2, <3>1 DEF Counts
  <2> HIDE DEF c
  <2> QED BY <2>2, <2>3, CountingReaches
<1> HIDE DEF c, m
<1>4. CASE c = NoNode
  BY <1>1, <1>2, <1>4 DEF m
<1>5. CASE c # NoNode /\ Space(Env, c) = "none"
  <2>1. t = Ended(s, "nullopt")
    BY <1>2, <1>5
  <2>2. IsWalk(t) /\ t.end = "nullopt" /\ t.resolved = NoNode
    BY <2>1, WalkOperators
  <2> QED BY <2>2
<1>6. CASE c # NoNode /\ Space(Env, c) # "none"
  <2>1. t = Resolved(s, i, Space(Env, c), c)
    BY <1>2, <1>6
  <2>2. IsWalk(t) /\ t.resolved = c
    BY <2>1, WalkOperators
  <2> QED BY <1>3, <1>6, <2>2
<1> QED BY <1>4, <1>5, <1>6

LEMMA SettleNow ==
  ASSUME NEW s, IsWalk(s), NEW i, NEW t, t = Settle(Env, s, i)
  PROVE  /\ t.resolved = s.resolved
         /\ s.resolved = NoNode /\ i # 1 => t = s
         /\ s.resolved = NoNode /\ i = 1 => t.end # "no"
<1>1. PICK env : env = Env
  OBVIOUS
<1>2. t = Settle(env, s, i)
  BY <1>1
<1>3. Settle(env, s, i).resolved = s.resolved
  BY SettleKeeps
<1>4. s.resolved = NoNode /\ i # 1 => Settle(env, s, i) = s
  BY SettleKeeps
<1>5. s.resolved = NoNode /\ i = 1 => Settle(env, s, i).end # "no"
  BY SettleKeeps
<1> QED BY <1>2, <1>3, <1>4, <1>5

\* The first segment.
LEMMA FirstSegment ==
  ASSUME NEW x, Looking(x), NEW p \in Seq(Known), 1 \in 1..Len(p),
         NEW s, Walked(x, p, s, 0), NEW t, t = TypeSegment(Env, p, s, 1)
  PROVE  Walked(x, p, t, 1)
<1> DEFINE w == p[1]
           u == AtStart(Env, s, w)
           v == AsChild(Env, u, 1, w)
<1>1. /\ IsWalk(s) /\ Sound(s) /\ s.end = "no" /\ s.resolved = NoNode
      /\ s.module = BaseOf(x, p, 1) /\ s.previous = s.module
  BY DEF Walked, Sound
<1>2. IsWalk(t) /\ \A e \in t.log : e[1] # 0
  <2>1. Sound(t)
    BY <1>1, SegmentIsSound
  <2> QED BY <2>1 DEF Sound
<1>3. w \in Known /\ \A j \in 1..(1 - 1) : ~Counts(x, p, j)
  BY PathWords
<1>4. SUFFICES /\ t.end = "no" /\ t.resolved = NoNode =>
                    /\ t.module = BaseOf(x, p, 2) /\ t.previous = t.module /\ ~Counts(x, p, 1)
               /\ t.resolved # NoNode => Reaches(x, p, t.resolved)
  <2>1. 1 + 1 = 2 /\ \A j \in 1..1 : j = 1
    OBVIOUS
  <2> QED BY <1>2, <2>1 DEF Walked
<1>5. BaseOf(x, p, 2) = IF w \in {"crate", "self"} THEN CrateNode ELSE BaseOf(x, p, 1)
  <2>1. 1 + 1 = 2 /\ 1 \in Nat /\ 1 > 0
    OBVIOUS
  <2> QED BY <2>1, NextBase
<1>6. u.resolved # NoNode => (w \notin Keywords => Reaches(x, p, u.resolved))
  <2>1. SUFFICES ASSUME u.resolved # NoNode, w \notin Keywords PROVE Reaches(x, p, u.resolved)
    OBVIOUS
  <2> DEFINE a == Lookup(Env.types, Single(w))
             b == Lookup(Env.names, Single(w))
  <2>2. u = IF a # NoNode THEN Resolved(s, 1, "type", a)
            ELSE IF b # NoNode THEN Resolved(s, 1, "name", b) ELSE s
    BY DEF AtStart
  <2>3. \A space, d : Resolved(s, 1, space, d).resolved = d
    BY <1>1, WalkOperators
  <2>4. (a # NoNode => a \in InScope(x, w)) /\ (b # NoNode => b \in InScope(x, w))
    BY <1>3, LookingFacts
  <2> HIDE DEF a, b, u
  <2>5. u.resolved \in InScope(x, w)
    BY <1>1, <2>1, <2>2, <2>3, <2>4
  <2>6. Counts(x, p, 1)
    BY <2>1 DEF Counts
  <2> QED BY <1>3, <2>5, <2>6, CountingReaches
<1>7. u.resolved = NoNode => u = s
  <2> DEFINE a == Lookup(Env.types, Single(w))
             b == Lookup(Env.names, Single(w))
  <2>1. u = IF a # NoNode THEN Resolved(s, 1, "type", a)
            ELSE IF b # NoNode THEN Resolved(s, 1, "name", b) ELSE s
    BY DEF AtStart
  <2>2. \A space, d : Resolved(s, 1, space, d).resolved = d
    BY <1>1, WalkOperators
  <2> HIDE DEF a, b, u
  <2> QED BY <2>1, <2>2
<1>8. w = "self" => u.resolved = NoNode
  <2>1. InScope(x, "self") = {}
    BY LookingFacts, NothingIsSelf DEF Looking
  <2>2. w = "self" => /\ Lookup(Env.types, Single(w)) = NoNode
                      /\ Lookup(Env.names, Single(w)) = NoNode
    BY <1>3, <2>1, LookingFacts
  <2> QED BY <1>1, <2>2 DEF AtStart
<1>9. t = IF w = "crate" THEN EnterModule(s, 1, CrateNode)
          ELSE IF w = "super" THEN Super(Env, s, 1)
          ELSE IF w = "self" /\ u.resolved = NoNode THEN EnterModule(s, 1, CrateNode)
          ELSE IF u.resolved = NoNode /\ u.previous = u.module /\ w \in Words THEN Settle(Env, v, 1)
          ELSE Settle(Env, u, 1)
  BY <1>1 DEF TypeSegment
<1>10. IsWalk(u)
  <2>1. Sound(u)
    BY <1>1, StartIsSound
  <2> QED BY <2>1 DEF Sound
<1> HIDE DEF u, v
<1>11. CASE w \in {"crate", "self"}
  <2>1. t = EnterModule(s, 1, CrateNode)
    BY <1>8, <1>9, <1>11
  <2>2. t.resolved = NoNode /\ t.module = CrateNode /\ t.previous = CrateNode
    BY <1>1, <2>1, WalkOperators
  <2>3. ~Counts(x, p, 1)
    BY <1>11 DEF Counts, Keywords
  <2> QED BY <1>5, <1>11, <2>2, <2>3
<1>12. CASE w = "super"
  <2>1. t = Super(Env, s, 1)
    BY <1>9, <1>12
  <2>2. /\ t.resolved = NoNode
        /\ t.end = "no" => t.module = s.module /\ t.previous = s.module
    BY <1>1, <2>1, SuperSegment
  <2>3. ~Counts(x, p, 1)
    BY <1>12 DEF Counts, Keywords
  <2> QED BY <1>1, <1>5, <1>12, <2>2, <2>3
<1>13. CASE w \notin Keywords
  <2>1. \A q : IsWalk(q) /\ t = Settle(Env, q, 1) =>
           t.resolved = q.resolved /\ (q.resolved = NoNode => t.end # "no")
    BY SettleNow
  <2>2. CASE u.resolved # NoNode
    <3>1. t = Settle(Env, u, 1)
      BY <1>9, <1>13, <2>2 DEF Keywords
    <3> QED BY <1>6, <1>10, <1>13, <2>1, <2>2, <3>1
  <2>3. CASE u.resolved = NoNode /\ w \notin Words
    <3>1. t = Settle(Env, u, 1)
      BY <1>9, <1>13, <2>3 DEF Keywords
    <3> QED BY <1>10, <2>1, <2>3, <3>1
  <2>4. CASE u.resolved = NoNode /\ w \in Words
    <3>1. t = Settle(Env, v, 1) /\ v = AsChild(Env, s, 1, w)
      BY <1>1, <1>7, <1>9, <1>13, <2>4 DEF Keywords, v
    <3>2. IsWalk(v) /\ (v.resolved # NoNode => Reaches(x, p, v.resolved))
      BY <1>1, <1>3, <2>4, <3>1, ChildSegment
    <3> QED BY <2>1, <3>1, <3>2
  <2> QED BY <2>2, <2>3, <2>4
<1> QED BY <1>11, <1>12, <1>13 DEF Keywords

\* Any other segment.
LEMMA NextSegment ==
  ASSUME NEW x, Looking(x), NEW p \in Seq(Known), NEW i \in 1..Len(p), i > 1,
         NEW s, Walked(x, p, s, i - 1), NEW t, t = TypeSegment(Env, p, s, i)
  PROVE  Walked(x, p, t, i)
<1> DEFINE w == p[i]
           v == AsChild(Env, s, i, w)
<1>0. i \in Nat /\ (i - 1) + 1 = i /\ i # 0 /\ i # 1 /\ i > 0 /\ 1..i = 1..(i - 1) \cup {i}
  OBVIOUS
<1>1. /\ IsWalk(s) /\ Sound(s)
      /\ s.end = "no" /\ s.resolved = NoNode =>
           /\ s.module = BaseOf(x, p, i) /\ s.previous = s.module
           /\ \A j \in 1..(i - 1) : ~Counts(x, p, j)
      /\ s.resolved # NoNode => Reaches(x, p, s.resolved)
  BY <1>0 DEF Walked, Sound
<1>2. IsWalk(t) /\ \A e \in t.log : e[1] # 0
  <2>1. Sound(t)
    BY <1>0, <1>1, SegmentIsSound
  <2> QED BY <2>1 DEF Sound
<1>3. t = IF s.end # "no" THEN s
          ELSE IF w = "self" THEN Ended(s, "nullopt")
          ELSE IF w = "crate" THEN EnterModule(s, i, CrateNode)
          ELSE IF w = "super" THEN Super(Env, s, i)
          ELSE IF s.resolved = NoNode /\ s.previous = s.module /\ w \in Words THEN Settle(Env, v, i)
          ELSE Settle(Env, s, i)
  BY <1>0 DEF TypeSegment
<1>4. w \in Known /\ (w \in Words => w \notin {"crate", "super", "self"})
  BY PathWords
<1>5. BaseOf(x, p, i + 1) = IF w \in {"crate", "self"} THEN CrateNode ELSE BaseOf(x, p, i)
  BY <1>0, NextBase
<1> HIDE DEF v
<1>6. CASE s.end # "no"
  <2>1. t = s
    BY <1>3, <1>6
  <2> QED BY <1>0, <1>1, <1>2, <1>6, <2>1 DEF Walked
<1>7. CASE s.end = "no" /\ s.resolved # NoNode
  <2>1. t \in {Ended(s, "nullopt"), EnterModule(s, i, CrateNode), Super(Env, s, i), Settle(Env, s, i)}
    BY <1>3, <1>7
  <2>2. \A how : Ended(s, how).resolved = s.resolved
    BY <1>1, WalkOperators
  <2>3. \A m : EnterModule(s, i, m).resolved = s.resolved
    BY <1>1, WalkOperators
  <2>4. Super(Env, s, i).resolved = s.resolved
    BY <2>2, <2>3 DEF Super
  <2>5. t = Settle(Env, s, i) => t.resolved = s.resolved
    BY <1>1, SettleNow
  <2>6. t.resolved = s.resolved
    BY <2>1, <2>2, <2>3, <2>4, <2>5
  <2> QED BY <1>0, <1>1, <1>2, <1>7, <2>6 DEF Walked
<1>8. CASE s.end = "no" /\ s.resolved = NoNode
  <2>0. /\ s.module = BaseOf(x, p, i) /\ s.previous = s.module
        /\ \A j \in 1..(i - 1) : ~Counts(x, p, j)
    BY <1>1, <1>8
  <2>1. SUFFICES /\ t.end = "no" /\ t.resolved = NoNode =>
                      /\ t.module = BaseOf(x, p, i + 1) /\ t.previous = t.module /\ ~Counts(x, p, i)
                 /\ t.resolved # NoNode => Reaches(x, p, t.resolved)
    <3>1. ~Counts(x, p, i) => \A j \in 1..i : ~Counts(x, p, j)
      BY <1>0, <2>0
    <3> QED BY <1>0, <1>2, <3>1 DEF Walked
  <2>2. w \notin Words => ~Counts(x, p, i)
    BY <1>0 DEF Counts
  <2>3. CASE w = "self"
    <3>1. t = Ended(s, "nullopt")
      BY <1>3, <1>8, <2>3
    <3> QED BY <1>1, <1>8, <3>1, WalkOperators
  <2>4. CASE w = "crate"
    <3>1. t = EnterModule(s, i, CrateNode)
      BY <1>3, <1>8, <2>4
    <3>2. t.resolved = NoNode /\ t.module = CrateNode /\ t.previous = CrateNode
      BY <1>1, <1>8, <3>1, WalkOperators
    <3>3. w \notin Words
      BY <1>4, <2>4
    <3> QED BY <1>5, <2>2, <2>4, <3>2, <3>3
  <2>5. CASE w = "super"
    <3>1. t = Super(Env, s, i)
      BY <1>3, <1>8, <2>5
    <3>2. /\ t.resolved = NoNode
          /\ t.end = "no" => t.module = s.module /\ t.previous = s.module
      BY <1>1, <1>8, <2>0, <3>1, SuperSegment
    <3>3. w \notin Words
      BY <1>4, <2>5
    <3> QED BY <1>5, <2>0, <2>2, <2>5, <3>2, <3>3
  <2>6. CASE w \notin {"crate", "super", "self"} /\ w \in Words
    <3>1. t = Settle(Env, v, i)
      BY <1>3, <1>8, <2>0, <2>6
    <3>2. /\ IsWalk(v)
          /\ v.resolved # NoNode => Reaches(x, p, v.resolved)
          /\ v.resolved = NoNode /\ v.end = "no" => v = s /\ Named(BaseOf(x, p, i), w) = {}
      BY <1>1, <1>8, <2>0, <2>6, ChildSegment DEF v
    <3>3. /\ t.resolved = v.resolved
          /\ v.resolved = NoNode => t = v
      BY <1>0, <3>1, <3>2, SettleNow
    <3>4. Named(BaseOf(x, p, i), w) = {} => ~Counts(x, p, i)
      BY <1>0 DEF Counts
    <3> QED BY <1>5, <2>0, <2>6, <3>2, <3>3, <3>4
  <2>7. CASE w \notin {"crate", "super", "self"} /\ w \notin Words
    <3>1. t = Settle(Env, s, i)
      BY <1>3, <1>8, <2>7
    <3>2. t = s
      BY <1>0, <1>1, <1>8, <3>1, SettleNow
    <3> QED BY <1>5, <1>8, <2>0, <2>2, <2>7, <3>2
  <2> QED BY <2>3, <2>4, <2>5, <2>6, <2>7
<1> QED BY <1>6, <1>7, <1>8

LEMMA WalkStarts ==
  ASSUME NEW x, Looking(x), NEW p
  PROVE  Walked(x, p, Start(Env), 0)
<1>1. PICK m : m = PeekCurrentModuleScope(Env)
  OBVIOUS
<1>2. Start(Env) = [module |-> m, previous |-> m, resolved |-> NoNode, log |-> {}, end |-> "no"]
  BY <1>1 DEF Start
<1>3. m = BaseOf(x, p, 0 + 1)
  <2>1. 0 + 1 = 1
    OBVIOUS
  <2> QED BY <1>1, <2>1, LookingFacts, FirstBase
<1>4. PICK s : s = Start(Env)
  OBVIOUS
<1>5. /\ s = [module |-> m, previous |-> m, resolved |-> NoNode, log |-> {}, end |-> "no"]
      /\ s.module = m /\ s.previous = m /\ s.resolved = NoNode /\ s.log = {} /\ s.end = "no"
  BY <1>2, <1>4
<1>6. IsWalk(s)
  BY <1>5 DEF IsWalk
<1>7. \A j \in 1..0 : FALSE
  OBVIOUS
<1>8. Walked(x, p, s, 0)
  BY <1>3, <1>5, <1>6, <1>7 DEF Walked
<1> QED BY <1>4, <1>8

\* After all the segments.
LEMMA WalkEnds ==
  ASSUME NEW x, Looking(x), NEW p \in Seq(Known)
  PROVE  \E s : /\ Walked(x, p, s, Len(p))
                /\ ResolveRelativeTypePath(Env, p) = TypeResult(Env, s, Space(Env, s.resolved))
<1> DEFINE n == Len(p)
           Step(f, i) == IF i = 0 THEN Start(Env) ELSE TypeSegment(Env, p, f[i - 1], i)
           Solves(f, m) == f = [i \in 0..m |-> Step(f, i)]
           P == {m \in Nat : \E f : Solves(f, m)}
<1>0. n \in Nat
  BY LenProperties
<1> HIDE DEF n
<1>1. 0 \in P
  <2> DEFINE g == [i \in 0..0 |-> Start(Env)]
  <2>1. ASSUME NEW i \in 0..0 PROVE g[i] = Step(g, i)
    OBVIOUS
  <2>2. g = [i \in 0..0 |-> g[i]]
    OBVIOUS
  <2> HIDE DEF g, Step
  <2>3. Solves(g, 0)
    BY <2>1, <2>2
  <2> HIDE DEF Solves
  <2> QED BY <2>3
<1>2. ASSUME NEW m \in P \cap Nat PROVE m + 1 \in P
  <2>1. PICK f : Solves(f, m)
    OBVIOUS
  <2> DEFINE v == TypeSegment(Env, p, f[m], m + 1)
             h == [i \in 0..(m + 1) |-> IF i = m + 1 THEN v ELSE f[i]]
  <2>2. ASSUME NEW i \in 0..(m + 1) PROVE h[i] = Step(h, i)
    <3>1. CASE i = m + 1
      <4>1. i # 0 /\ i - 1 = m /\ m \in 0..(m + 1) /\ m # m + 1
        BY <3>1
      <4>2. h[i] = v /\ h[m] = f[m]
        BY <3>1, <4>1
      <4> HIDE DEF h
      <4> QED BY <3>1, <4>1, <4>2
    <3>2. CASE i # m + 1
      <4>1. i \in 0..m /\ (i # 0 => i - 1 \in 0..(m + 1) /\ i - 1 # m + 1)
        BY <3>2
      <4>2. f[i] = Step(f, i)
        BY <2>1, <4>1
      <4>3. h[i] = f[i] /\ (i # 0 => h[i - 1] = f[i - 1])
        BY <3>2, <4>1
      <4> HIDE DEF h
      <4> QED BY <4>2, <4>3
    <3> QED BY <3>1, <3>2
  <2>3. h = [i \in 0..(m + 1) |-> h[i]]
    OBVIOUS
  <2> HIDE DEF h, Step
  <2>4. Solves(h, m + 1) /\ m + 1 \in Nat
    BY <2>2, <2>3
  <2> HIDE DEF Solves
  <2> QED BY <2>4
<1> DEFINE walk == CHOOSE f : Solves(f, n)
<1>3. Solves(walk, n)
  <2>1. n \in P
    <3> HIDE DEF P
    <3> QED BY <1>0, <1>1, <1>2, Induction
  <2> HIDE DEF Solves
  <2> QED BY <2>1
<1>4. ResolveRelativeTypePath(Env, p) = TypeResult(Env, walk[n], Space(Env, walk[n].resolved))
  BY DEF ResolveRelativeTypePath, n
<1> HIDE DEF walk, P
<1> DEFINE Q == {i \in Nat : i <= n => Walked(x, p, walk[i], i)}
<1>5. 0 \in Q
  <2>1. walk[0] = Start(Env)
    BY <1>0, <1>3
  <2> HIDE DEF Solves
  <2> QED BY <2>1, WalkStarts
<1>6. ASSUME NEW i \in Q \cap Nat PROVE i + 1 \in Q
  <2>1. SUFFICES ASSUME i + 1 <= n PROVE Walked(x, p, walk[i + 1], i + 1)
    OBVIOUS
  <2>2. i + 1 \in 0..n /\ i + 1 # 0 /\ (i + 1) - 1 = i /\ i <= n /\ i + 1 \in 1..n
    BY <1>0, <2>1
  <2>3. walk[i + 1] = TypeSegment(Env, p, walk[i], i + 1)
    BY <1>3, <2>2
  <2>4. Walked(x, p, walk[i], i)
    BY <2>2
  <2> HIDE DEF Q, Solves
  <2>5. PICK k : k = i + 1
    OBVIOUS
  <2>6. k \in 1..Len(p) /\ k - 1 = i /\ (i = 0 => k = 1) /\ (i # 0 => k > 1)
    BY <2>2, <2>5 DEF n
  <2>7. CASE i = 0
    BY <2>3, <2>4, <2>5, <2>6, <2>7, FirstSegment
  <2>8. CASE i # 0
    BY <2>3, <2>4, <2>5, <2>6, <2>8, NextSegment
  <2> QED BY <2>7, <2>8
<1> HIDE DEF Q
<1>7. n \in Q
  BY <1>0, <1>5, <1>6, Induction
<1>8. Walked(x, p, walk[n], n)
  BY <1>0, <1>7 DEF Q
<1> QED BY <1>4, <1>8 DEF n

\* What a path of a type resolves to is what its first name denotes.
LEMMA PathReaches ==
  ASSUME NEW x, Looking(x), NEW p \in Seq(Known), NEW e \in ResolveRelativeTypePath(Env, p).log, e[1] = 0
  PROVE  Reaches(x, p, e[3])
<1>1. PICK s : /\ Walked(x, p, s, Len(p))
               /\ ResolveRelativeTypePath(Env, p) = TypeResult(Env, s, Space(Env, s.resolved))
  BY WalkEnds
<1>2. PICK space : space = Space(Env, s.resolved)
  OBVIOUS
<1> DEFINE l == TypeResult(Env, s, space).log
<1>3. l = s.log \/ (s.resolved # NoNode /\ l = s.log \cup {<<0, space, s.resolved>>})
  BY DEF TypeResult, Result
<1>4. e \in l
  BY <1>1, <1>2
<1> HIDE DEF l
<1>5. e \notin s.log /\ (s.resolved # NoNode => Reaches(x, p, s.resolved))
  BY <1>1 DEF Walked
<1> QED BY <1>3, <1>4, <1>5

\* So it is with every form of type.
LEMMA TypeReaches ==
  ASSUME NEW x, Looking(x), NEW t \in TypeOfItem, NEW e \in ResolveTypeNoBounds(Env, t).log, e[1] = 0
  PROVE  Reaches(x, t.path, e[3])
<1>1. t.form \in Forms /\ t.path \in Seq(Known)
  BY DEF TypeOfItem
<1> DEFINE r == ResolveRelativeTypePath(Env, t.path)
<1>2. CASE t.form \in {"path", "wrapped"}
  <2>1. ResolveTypeNoBounds(Env, t) = r
    BY <1>2 DEF ResolveTypeNoBounds
  <2> HIDE DEF r
  <2>2. e \in r.log
    BY <2>1
  <2> QED BY <1>1, <2>2, PathReaches DEF r
<1>3. CASE t.form = "tuple"
  <2>1. ResolveTypeNoBounds(Env, t) = [r EXCEPT !.def = NoNode, !.some = FALSE]
    BY <1>3 DEF ResolveTypeNoBounds
  <2> HIDE DEF r
  <2>2. PICK q : q = ResolveTypeNoBounds(Env, t)
    OBVIOUS
  <2>3. q.log = r.log
    BY <2>1, <2>2
  <2>4. e \in r.log
    BY <2>2, <2>3
  <2> QED BY <1>1, <2>4, PathReaches DEF r
<1>4. CASE t.form = "unhandled"
  <2>1. ResolveTypeNoBounds(Env, t) = Result(NoNode, FALSE, {}, "aborted")
    BY <1>4 DEF ResolveTypeNoBounds
  <2>2. ResolveTypeNoBounds(Env, t).log = {}
    BY <2>1 DEF Result
  <2> QED BY <2>2
<1> QED BY <1>1, <1>2, <1>3, <1>4 DEF Forms

\* A type or a generic argument is resolved where its item stands, when the
\* first pass over everything around is done.
LEMMA TypeLooks ==
  ASSUME crate \in Crates, Ways, Ordered(work), Kids, work # <<>>, task.do \in {"type", "argument"}
  PROVE  /\ Looking(id0) /\ id0 \in Items /\ task.nth \in 1..Len(crate[id0].types)
         /\ crate[id0].types[task.nth] \in TypeOfItem /\ task.nth \in 1..10
<1>1. OnlyLate(work)
  BY OrderedTail DEF Early, Gathering, task
<1>2. /\ IsTask(task) /\ Fit("modules", task, modules)
      /\ IsSeq(modules) /\ Len(modules) > 0 /\ modules[1] = CrateNode
  BY TaskNow
<1>3. id0 \in Items /\ task.nth \in 1..Len(crate[id0].types)
  BY <1>2 DEF IsTask, id0
<1>4. InItsModule("modules", id0, modules)
  BY <1>2 DEF Fit, Visiting, id0
<1>5. PICK a, b, c : AllOn(a, b, c)
  BY WaysNow
<1>6. SeenFrom(nameScope, id0) /\ SeenFrom(typeScope, id0)
  <2>1. /\ Holds(nameScope, a) /\ Leads("names", work, a, End)
        /\ Holds(typeScope, b) /\ Leads("types", work, b, End)
    BY <1>5 DEF AllOn, On
  <2>2. Sits("names", id0, a) /\ Sits("types", id0, b)
    BY <2>1, AtFront
  <2> QED BY <2>1, <2>2 DEF SeenFrom, Sits, Scoped
<1>7. Looking(id0)
  BY <1>1, <1>2, <1>3, <1>4, <1>6 DEF Looking, InItsModule
<1>8. crate[id0].types \in Seq(TypeOfItem) /\ Len(crate[id0].types) <= 10
  <2>1. id0 \in 2..Len(crate) /\ id0 \in Nodes
    <3>1. id0 \in Nodes /\ id0 # 1
      BY <1>3 DEF Items, Nodes, CrateNode
    <3>2. Nodes = 1..Len(crate) /\ Len(crate) \in Nat
      BY CrateShape
    <3> QED BY <3>1, <3>2
  <2>2. WellFormed(crate)
    BY ItemsAssumption
  <2>3. Len(crate[id0].types) <= 10
    BY <2>1, <2>2 DEF WellFormed
  <2> QED BY <2>1, <2>3, CrateShape
<1>9. task.nth \in 1..10
  <2>1. Len(crate[id0].types) \in Nat
    BY <1>8, LenProperties
  <2> QED BY <1>3, <1>8, <2>1
<1>10. crate[id0].types[task.nth] \in TypeOfItem
  BY <1>3, <1>8, ElementOfSeq
<1> QED BY <1>3, <1>7, <1>9, <1>10

-----------------------------------------------------------------------------
(* What has been resolved *)

LEMMA SameReached ==
  ASSUME crate' = crate, NEW r
  PROVE  Reached(r)' <=> Reached(r)
<1>1. \A m, w : Named(m, w)' = Named(m, w)
  <2>1. \A x : Gathered(x)' = Gathered(x)
    BY DEF Gathered, Items
  <2> QED BY <2>1, SameTree DEF Named, Impls
<1>2. \A x, p, i : BaseOf(x, p, i)' = BaseOf(x, p, i)
  BY SameTree DEF BaseOf
<1>3. \A x, p, i : Counts(x, p, i)' <=> Counts(x, p, i)
  BY <1>1, <1>2 DEF Counts
<1>4. \A x, p : FirstName(x, p)' = FirstName(x, p)
  BY <1>3 DEF FirstName
<1>5. \A x, w : InScope(x, w)' = InScope(x, w)
  BY SameTree DEF InScope, Impls, OwnNode, Builtin
<1>6. \A x, p, d : Reaches(x, p, d)' <=> Reaches(x, p, d)
  BY <1>1, <1>2, <1>4, <1>5 DEF Reaches
<1>7. \A x, n : PathOf(x, n)' = PathOf(x, n)
  BY DEF PathOf
<1> QED BY <1>6, <1>7 DEF Reached

\* The steps that resolve something.
Resolving == ResolveItemVisibility \/ ResolveArgument \/ ResolveType

LEMMA ResolutionsKept ==
  ASSUME [Next]_vars, ~Resolving
  PROVE  resolutions' = resolutions
<1>1. CASE Leaves
  BY <1>1 DEF Resolving, Leaves, LeaveGatheredModule, GatherType, GatherEnumeration, GatherTrait,
              GatherImplementation, OpenRibs, OpenBlock, CloseRibs, OpenTypeRib, CloseTypeRib,
              EnterModuleAgain, LeaveModule, OpenTrait, CloseTrait, ResolveTypeAliasInTrait,
              LeaveImpl, CloseImpl, links
<1>2. CASE Stays
  BY <1>2 DEF Stays, GatherUnhandled, ResolveUnhandled, ResolveInTraitUnhandled, LeaveCrate, vars, links
<1>3. CASE Visits
  BY <1>3 DEF Visits, ResolveFunction, ResolveAssociatedItem, ResolveStruct, ResolveTypeAlias,
              ResolveUnion, ResolveEnumeration, ResolveEnumItem, ResolveConstant, ResolveStatic,
              ResolveTrait, ResolveFunctionInTrait, ResolveInherentImpl, NameInherentImpl,
              ResolveTraitImpl, GiveUp, TraitFound, ImplementTrait, links
<1>4. CASE GatherModule \/ GatherFunction \/ GatherConstant \/ ResolveModule
  BY <1>4 DEF GatherModule, GatherFunction, GatherConstant, ResolveModule, links
<1> QED BY <1>1, <1>2, <1>3, <1>4, StepKinds

\* What is recalled of a path reaches its first name.
LEMMA RecallReaches ==
  ASSUME crate \in Crates, Ways, Ordered(work), Kids, Resolving,
         NEW r \in resolutions', r \notin resolutions
  PROVE  Reached(r)
<1>1. CASE ResolveItemVisibility
  <2>1. PICK e : r = <<id0, 0, e[1], e[2], e[3]>>
    BY <1>1 DEF ResolveItemVisibility, Recall
  <2> QED BY <2>1 DEF Reached
<1>2. CASE ResolveArgument
  <2>1. work # <<>> /\ task.do \in {"type", "argument"}
    BY <1>2 DEF ResolveArgument, At
  <2> DEFINE n == task.nth
             t == crate[id0].types[n]
  <2>2. PICK e \in ResolveRelativeTypePath(Env, t.args).log : r = <<id0, ArgumentOf(n), e[1], e[2], e[3]>>
    BY <1>2 DEF ResolveArgument, Recall, item
  <2>3. Looking(id0) /\ t \in TypeOfItem /\ n \in 1..10
    BY <2>1, TypeLooks
  <2>4. t.args \in Seq(Known)
    BY <2>3 DEF TypeOfItem
  <2> HIDE DEF n
  <2>5. ArgumentOf(n) > ArgumentOf(0) /\ ArgumentOf(n) - ArgumentOf(0) = n
    BY <2>3 DEF ArgumentOf
  <2>6. PathOf(id0, ArgumentOf(n)) = t.args
    BY <2>5 DEF PathOf
  <2> HIDE DEF t
  <2>7. e[1] = 0 => Reaches(id0, t.args, e[3])
    BY <2>2, <2>3, <2>4, PathReaches
  <2>8. r[1] = id0 /\ r[2] = ArgumentOf(n) /\ r[3] = e[1] /\ r[5] = e[3]
    BY <2>2
  <2> QED BY <2>4, <2>6, <2>7, <2>8 DEF Reached
<1>3. CASE ResolveType
  <2>1. work # <<>> /\ task.do \in {"type", "argument"}
    BY <1>3 DEF ResolveType, At
  <2> DEFINE n == task.nth
             t == crate[id0].types[n]
  <2>2. PICK e \in ResolveTypeNoBounds(Env, t).log : r = <<id0, n, e[1], e[2], e[3]>>
    BY <1>3 DEF ResolveType, Recall, item
  <2>3. Looking(id0) /\ t \in TypeOfItem /\ n \in 1..10
    BY <2>1, TypeLooks
  <2> HIDE DEF n
  <2>4. ~(n > ArgumentOf(0))
    BY <2>3 DEF ArgumentOf
  <2>5. PathOf(id0, n) = t.path
    BY <2>4 DEF PathOf
  <2> HIDE DEF t
  <2>6. t.path \in Seq(Known) /\ (e[1] = 0 => Reaches(id0, t.path, e[3]))
    BY <2>2, <2>3, TypeReaches DEF TypeOfItem
  <2>7. r[1] = id0 /\ r[2] = n /\ r[3] = e[1] /\ r[5] = e[3]
    BY <2>2
  <2> QED BY <2>5, <2>6, <2>7 DEF Reached
<1> QED BY <1>1, <1>2, <1>3 DEF Resolving

LEMMA PathsStep ==
  ASSUME crate \in Crates, Ways, Ordered(work), Kids, PathsReachTheirFirstName, [Next]_vars, crate' = crate
  PROVE  PathsReachTheirFirstName'
<1>1. ASSUME NEW r \in resolutions' PROVE Reached(r)
  <2>1. CASE r \in resolutions
    BY <2>1 DEF PathsReachTheirFirstName
  <2>2. CASE r \notin resolutions
    BY <2>2, ResolutionsKept, RecallReaches
  <2> QED BY <2>1, <2>2
<1>2. \A r \in resolutions' : Reached(r)'
  BY <1>1, SameReached
<1>3. PathsReachTheirFirstName' <=> \A r \in resolutions' : Reached(r)'
  BY DEF PathsReachTheirFirstName
<1> QED BY <1>2, <1>3

-----------------------------------------------------------------------------
(* Canonical paths *)

\* Each node has a path, or none.
ArePathsOf(t) == t = [id \in NodeId |-> t[id]] /\ \A id \in NodeId : IsSeq(t[id])
Canonicals == \E t : canonicals = t /\ ArePathsOf(t)

LEMMA RecordedArePaths ==
  ASSUME NEW t, ArePathsOf(t), NEW id, NEW path, IsSeq(path)
  PROVE  ArePathsOf(Recorded(t, id, path))
<1> DEFINE r == Recorded(t, id, path)
<1>1. t = [x \in NodeId |-> t[x]] /\ \A x \in NodeId : IsSeq(t[x])
  BY DEF ArePathsOf
<1>2. r = [x \in NodeId |-> IF x = id THEN IF t[x] = <<>> THEN path ELSE t[x] ELSE t[x]]
  <2>1. DOMAIN t = NodeId
    BY <1>1
  <2> QED BY <2>1 DEF Recorded
<1> HIDE DEF r
<1>3. r = [x \in NodeId |-> r[x]] /\ \A x \in NodeId : r[x] \in {path, t[x]}
  BY <1>2
<1>4. \A x \in NodeId : IsSeq(r[x])
  BY <1>1, <1>3
<1>5. ArePathsOf(r)
  BY <1>3, <1>4 DEF ArePathsOf
<1> QED BY <1>5 DEF r

LEMMA RecordAllArePaths ==
  ASSUME NEW t, t = canonicals, ArePathsOf(t), NEW S, NEW prefix, IsSeq(prefix)
  PROVE  ArePathsOf(RecordAll(S, prefix))
<1> DEFINE r == RecordAll(S, prefix)
<1>1. t = [x \in NodeId |-> t[x]] /\ DOMAIN t = NodeId /\ \A x \in NodeId : IsSeq(t[x])
  BY DEF ArePathsOf
<1>2. r = [x \in NodeId |-> IF x \in S /\ t[x] = <<>> THEN Below(prefix, x) ELSE t[x]]
  BY <1>1 DEF RecordAll
<1> HIDE DEF r
<1>3. \A x : IsSeq(Below(prefix, x))
  BY AppendIsSeq DEF Below
<1>4. r = [x \in NodeId |-> r[x]] /\ \A x \in NodeId : r[x] \in {Below(prefix, x), t[x]}
  BY <1>2
<1>5. \A x \in NodeId : IsSeq(r[x])
  BY <1>1, <1>3, <1>4
<1>6. ArePathsOf(r)
  BY <1>4, <1>5 DEF ArePathsOf
<1> QED BY <1>6 DEF r

\* What the steps do to the paths.
LEMMA CanonicalsChange ==
  ASSUME [Next]_vars
  PROVE  \/ canonicals' = canonicals
         \/ work # <<>> /\ \/ canonicals' = Recorded(canonicals, id0, OwnCanonical)
                           \/ \E p : canonicals' = Recorded(canonicals, OwnNode(id0), Single(p))
                           \/ \E S : canonicals' = Recorded(RecordAll(S, OwnCanonical), id0, OwnCanonical)
<1>1. CASE GatherEnumeration
  <2>1. work # <<>> /\ \E S : canonicals' = Recorded(RecordAll(S, OwnCanonical), id0, OwnCanonical)
    BY <1>1 DEF GatherEnumeration, AtGather, At
  <2> QED BY <2>1
<1>2. CASE OpenRibs \/ OpenTypeRib \/ OpenTrait
  <2>1. work # <<>> /\ \E p : RecordParam(id0, p)
    BY <1>2 DEF OpenRibs, OpenTypeRib, OpenTrait, At
  <2>2. PICK p : RecordParam(id0, p)
    BY <2>1
  <2>3. canonicals' = canonicals \/ canonicals' = Recorded(canonicals, OwnNode(id0), Single(p))
    BY <2>2 DEF RecordParam
  <2> QED BY <2>1, <2>3
<1>3. CASE GatherConstant \/ GatherTrait
  BY <1>3 DEF GatherConstant, GatherTrait, AtGather, At
<1>4. CASE \/ GatherFunction \/ LeaveGatheredModule \/ GatherType \/ ResolveModule
           \/ ResolveTypeAliasInTrait
  BY <1>4 DEF GatherFunction, LeaveGatheredModule, GatherType, ResolveModule, ResolveTypeAliasInTrait,
              InsertCanonicalPath, AtGather, At
<1>5. CASE \/ GatherImplementation \/ ResolveItemVisibility \/ ResolveArgument \/ ResolveType
           \/ OpenBlock \/ CloseRibs \/ CloseTypeRib \/ EnterModuleAgain \/ LeaveModule
           \/ CloseTrait \/ LeaveImpl \/ CloseImpl \/ GatherModule
  BY <1>5 DEF GatherImplementation, ResolveItemVisibility, ResolveArgument, ResolveType, OpenBlock,
              CloseRibs, CloseTypeRib, EnterModuleAgain, LeaveModule, CloseTrait, LeaveImpl, CloseImpl,
              GatherModule, table
<1>6. CASE Stays
  BY <1>6 DEF Stays, GatherUnhandled, ResolveUnhandled, ResolveInTraitUnhandled, LeaveCrate, vars, table
<1>7. CASE \/ ResolveAssociatedItem \/ ResolveInherentImpl \/ NameInherentImpl
           \/ ResolveTraitImpl \/ GiveUp \/ TraitFound \/ ImplementTrait
  BY <1>7 DEF ResolveAssociatedItem, ResolveInherentImpl, NameInherentImpl, ResolveTraitImpl, GiveUp,
              TraitFound, ImplementTrait, table
<1>8. CASE \/ ResolveFunction \/ ResolveStruct \/ ResolveTypeAlias \/ ResolveUnion \/ ResolveEnumeration
           \/ ResolveEnumItem \/ ResolveConstant \/ ResolveStatic \/ ResolveTrait \/ ResolveFunctionInTrait
  BY <1>8 DEF ResolveFunction, ResolveStruct, ResolveTypeAlias, ResolveUnion, ResolveEnumeration,
              ResolveEnumItem, ResolveConstant, ResolveStatic, ResolveTrait, ResolveFunctionInTrait,
              InsertCanonicalPath, At
<1> QED BY <1>1, <1>2, <1>3, <1>4, <1>5, <1>6, <1>7, <1>8, StepKinds DEF Leaves, Visits

LEMMA CanonicalsStep ==
  ASSUME Ways, Canonicals, [Next]_vars
  PROVE  Canonicals'
<1>1. PICK t : t = canonicals /\ ArePathsOf(t)
  BY DEF Canonicals
<1>2. PICK u : u = canonicals'
  OBVIOUS
<1>3. work # <<>> => IsSeq(OwnCanonical)
  BY TaskNow, AppendIsSeq DEF IsTask, OwnCanonical, Below
<1>4. ArePathsOf(u)
  <2>1. CASE u = t
    BY <1>1, <2>1
  <2>2. CASE work # <<>> /\ u = Recorded(t, id0, OwnCanonical)
    BY <1>1, <1>3, <2>2, RecordedArePaths
  <2>3. ASSUME work # <<>>, NEW p, u = Recorded(t, OwnNode(id0), Single(p)) PROVE ArePathsOf(u)
    BY <1>1, <2>3, SingleIsSeq, RecordedArePaths
  <2>4. ASSUME work # <<>>, NEW S, u = Recorded(RecordAll(S, OwnCanonical), id0, OwnCanonical)
        PROVE  ArePathsOf(u)
    <3>1. IsSeq(OwnCanonical)
      BY <1>3, <2>4
    <3>2. ArePathsOf(RecordAll(S, OwnCanonical))
      BY <1>1, <3>1, RecordAllArePaths
    <3> QED BY <2>4, <3>1, <3>2, RecordedArePaths
  <2> QED BY <1>1, <1>2, <2>1, <2>2, <2>3, <2>4, CanonicalsChange
<1> QED BY <1>2, <1>4 DEF Canonicals

\* What is resolved belongs to the tree.
Owned == \A r \in resolutions : r[1] \in Nodes

LEMMA OwnedStep ==
  ASSUME Ways, Owned, [Next]_vars, crate' = crate
  PROVE  Owned'
<1>1. ASSUME NEW r \in resolutions' PROVE r[1] \in Nodes
  <2>1. CASE r \in resolutions
    BY <2>1 DEF Owned
  <2>2. CASE r \notin resolutions
    <3>1. Resolving
      BY <2>2, ResolutionsKept
    <3>2. work # <<>> /\ \E n, log : r \in {<<id0, n, e[1], e[2], e[3]>> : e \in log}
      BY <2>2, <3>1 DEF Resolving, ResolveItemVisibility, ResolveArgument, ResolveType, Recall, At
    <3>3. r[1] = id0
      BY <3>2
    <3> QED BY <3>2, <3>3, TaskNow
  <2> QED BY <2>1, <2>2
<1>2. Nodes' = Nodes
  BY DEF Nodes
<1> QED BY <1>1, <1>2 DEF Owned

\* Hence what a path reaches has a path itself.
LEMMA PathsAreNamed ==
  ASSUME crate \in Crates, Canonicals, PathsReachTheirFirstName, Owned
  PROVE  NamesPaths
<1>1. \A id \in NodeId : IsSeq(canonicals[id])
  BY DEF Canonicals, ArePathsOf
<1>2. ASSUME NEW r \in resolutions, r[2] > 0, r[3] = 0 PROVE r[5] \in NodeId
  <2>1. Reaches(r[1], PathOf(r[1], r[2]), r[5])
    BY <1>2 DEF PathsReachTheirFirstName, Reached
  <2>2. \A m, w : Named(m, w) \subseteq Items
    BY DEF Named
  <2>3. \A w : InScope(r[1], w) \subseteq Items \cup {OwnNode(o) : o \in Nodes} \cup {Builtin}
    <3>1. OpenAround(r[1]) \cup {r[1]} \subseteq Nodes
      <4>1. PICK x : x = r[1] /\ x \in Nodes
        BY DEF Owned
      <4> QED BY <4>1, AroundNodes
    <3> QED BY <3>1 DEF InScope
  <2>4. Items \subseteq NodeId /\ {OwnNode(o) : o \in Nodes} \subseteq NodeId /\ Builtin \in NodeId
    BY NodesAreIds, ItemShape
  <2>5. r[5] \in Items \cup {OwnNode(o) : o \in Nodes} \cup {Builtin}
    BY <2>1, <2>2, <2>3 DEF Reaches
  <2> QED BY <2>4, <2>5
<1> QED BY <1>1, <1>2 DEF NamesPaths

-----------------------------------------------------------------------------
(* The invariant *)

Inv == crate \in Crates /\ Ways /\ Ordered(work) /\ Kids /\ Canonicals /\ Owned
       /\ PathsReachTheirFirstName

LEMMA InvFirst == Init => Inv
<1> SUFFICES ASSUME Init PROVE Inv
  OBVIOUS
<1>1. crate \in Crates /\ Ways /\ Ordered(work) /\ Kids
  BY WaysFirst, KidsFirst
<1>2. Canonicals
  <2>1. PICK t : t = canonicals
    OBVIOUS
  <2>2. t = [id \in NodeId |-> IF id = Builtin THEN Single("i32") ELSE <<>>]
    BY <2>1 DEF Init, NodeId
  <2>3. t = [id \in NodeId |-> t[id]] /\ \A id \in NodeId : t[id] = Single("i32") \/ t[id] = <<>>
    BY <2>2
  <2>4. \A id \in NodeId : IsSeq(t[id])
    BY <2>3, SingleIsSeq, EmptyIsSeq
  <2> QED BY <2>1, <2>3, <2>4 DEF Canonicals, ArePathsOf
<1>3. PathsReachTheirFirstName /\ Owned
  BY DEF Init, PathsReachTheirFirstName, Owned
<1> QED BY <1>1, <1>2, <1>3 DEF Inv

LEMMA InvNext == Inv /\ [Next]_vars => Inv'
<1> SUFFICES ASSUME Inv, [Next]_vars PROVE Inv'
  OBVIOUS
<1>1. /\ crate \in Crates /\ Ways /\ Ordered(work) /\ Kids /\ Canonicals /\ Owned
      /\ PathsReachTheirFirstName /\ NamesPaths
  BY PathsAreNamed DEF Inv
<1>2. Ways' /\ crate' = crate
  BY <1>1, WaysStep
<1>3. Ordered(work)'
  BY <1>1, StepKeeps DEF Keeps
<1>4. Kids' /\ PathsReachTheirFirstName'
  BY <1>1, <1>2, KidsStep, PathsStep
<1>5. Canonicals' /\ Owned'
  BY <1>1, <1>2, CanonicalsStep, OwnedStep
<1> QED BY <1>1, <1>2, <1>3, <1>4, <1>5 DEF Inv

\* At every moment each scope has a rib, and the stack of modules a module, in
\* which the handlers enter what they meet (Scope::insert, peekCurrentModuleScope),
\* and a resolution that ends well leaves the ribs of the crate alone, whatever
\* way the handlers have returned: resolveTraitImpl has three.
THEOREM ScopesNesting == Spec => []ScopesNest
<1>1. Inv => ScopesNest
  BY WaysNest DEF Inv
<1> QED BY <1>1, InvFirst, InvNext, PTL DEF Spec

\* In a path of one name what stands before it is no name, and leads to the crate.
LEMMA OneNameFirst ==
  ASSUME NEW x, NEW path \in Seq(Known), OfOneName(x, path), NEW i \in FirstName(x, path)
  PROVE  /\ i = Len(path) /\ Len(path) \in Nat \ {0}
         /\ BaseOf(x, path, i) = IF Len(path) = 1 THEN ModuleOf(x) ELSE CrateNode
<1> DEFINE n == Len(path)
<1>1. n \in Nat /\ i \in 1..n /\ Counts(x, path, i)
  BY LenProperties DEF FirstName
<1>2. \A j \in 1..(n - 1) : path[j] \in {"crate", "self"}
  BY DEF OfOneName
<1>3. {"crate", "self"} \subseteq Keywords /\ \A w \in {"crate", "self"} : w \notin Words
  BY ItemsAssumption DEF Keywords
<1>4. i = n
  <2> SUFFICES ASSUME i # n PROVE FALSE
    OBVIOUS
  <2>1. i \in 1..(n - 1)
    BY <1>1
  <2>2. path[i] \in {"crate", "self"}
    BY <1>2, <2>1
  <2>3. path[i] \in Keywords /\ path[i] \notin Words
    BY <1>3, <2>2
  <2> QED BY <1>1, <2>3 DEF Counts
<1>5. CASE n = 1
  BY <1>4, <1>5, FirstBase
<1>6. CASE n # 1
  <2>1. 1 \in 1..(n - 1)
    <3>1. n \in Nat /\ i \in 1..n /\ n # 1
      BY <1>1, <1>6
    <3> HIDE DEF n
    <3> QED BY <3>1
  <2>2. \E j \in 1..(i - 1) : path[j] \in {"crate", "self"}
    BY <1>2, <1>4, <2>1
  <2> QED BY <1>1, <1>4, <1>6, <2>2 DEF BaseOf
<1> QED BY <1>1, <1>4, <1>5, <1>6

\* Whatever the crate and the path in it, if resolveRelativeTypePath resolves a
\* path of one name it is to what that name denotes, and never to anything else:
\* when a path is resolved, everything that the module it is looked for in has by
\* that name has been gathered (resolveCrate and resolveModule), and whatever the
\* open ribs know by that name belongs to something around the path.
THEOREM PathsReaching == Spec => []PathsOfOneNameReachIt
<1>1. Inv => PathsOfOneNameReachIt
  <2> SUFFICES ASSUME Inv PROVE PathsOfOneNameReachIt
    OBVIOUS
  <2>1. ASSUME NEW r \in resolutions, r[2] > 0, r[3] = 0, OfOneName(r[1], PathOf(r[1], r[2]))
        PROVE  LET path == PathOf(r[1], r[2])
               IN  \/ Len(path) > 1 /\ r[5] \in Named(CrateNode, path[Len(path)])
                   \/ Len(path) = 1 /\ r[5] \in Named(ModuleOf(r[1]), path[1]) \cup InScope(r[1], path[1])
    <3>1. PICK path : path = PathOf(r[1], r[2])
      OBVIOUS
    <3>2. path \in Seq(Known) /\ Reaches(r[1], path, r[5]) /\ OfOneName(r[1], path)
      BY <2>1, <3>1 DEF Inv, PathsReachTheirFirstName, Reached
    <3>3. PICK i \in FirstName(r[1], path) :
            \/ r[5] \in Named(BaseOf(r[1], path, i), path[i])
            \/ i = 1 /\ r[5] \in InScope(r[1], path[1])
      BY <3>2 DEF Reaches
    <3>4. /\ i = Len(path) /\ Len(path) \in Nat \ {0}
          /\ BaseOf(r[1], path, i) = IF Len(path) = 1 THEN ModuleOf(r[1]) ELSE CrateNode
      BY <3>2, OneNameFirst
    <3>5. CASE Len(path) = 1
      BY <3>1, <3>3, <3>4, <3>5
    <3>6. CASE Len(path) # 1
      <4>1. Len(path) > 1 /\ i # 1
        BY <3>4, <3>6
      <4> QED BY <3>1, <3>3, <3>4, <3>6, <4>1
    <3> QED BY <3>5, <3>6
  <2> QED BY <2>1 DEF PathsOfOneNameReachIt
<1> QED BY <1>1, InvFirst, InvNext, PTL DEF Spec
=============================================================================
