-------------------------- MODULE Inference_proofs --------------------------
(***************************************************************************)
(* Proofs about the inference of types: for every function, what the       *)
(* checker knows of a node is true in every typing of the function; types  *)
(* that are declared arrive where they are declared for; a type that is    *)
(* known stays; and what ends the process is a function without a typing,  *)
(* but for cases that are named.                                           *)
(***************************************************************************)
EXTENDS Inference, FiniteSetTheorems, SequenceTheorems, TLAPS

Kind == Builtin \cup {"General", "Integral", "Error"}
Role == {"pattern", "value", "block", "left", "right", "condition", "then", "else",
         "thenBlock", "elseBlock", "copy", "builtin", "function", "let"}
NodeId == Nat \X Role
Object == [kind : Kind, ref : NodeId, combined : SUBSET NodeId]

\* The nodes a type object is known to stand for, and those of copies.
Refs(t) == {t.ref} \cup t.combined
Copies  == {n \in NodeId : n[2] = "copy"}

\* A heap and a typing context.
Memory(h, ctx) ==
  /\ h \in Seq(Object)
  /\ IsFiniteSet(DOMAIN ctx) /\ DOMAIN ctx \subseteq NodeId
  /\ ctx \in [DOMAIN ctx -> DOMAIN h]

-----------------------------------------------------------------------------
(* What Unify does *)

\* The kinds of two objects after their hints, and of what they become.
HintedKind(kind, other) ==
  IF kind \in {"General", "Integral"} /\ other \in Integer THEN "Integral" ELSE kind
Outcome(kind, other) ==
  LET left == HintedKind(kind, other)
      right == HintedKind(other, kind)
  IN  IF right \in {"General", "Integral"} /\ left \notin {"General", "Integral"}
      THEN left ELSE right

\* A sequence of the elements of a finite set has each of them.
LEMMA SetToSeqHasAll ==
  ASSUME NEW S, IsFiniteSet(S)
  PROVE  /\ SetToSeq(S) \in Seq(S)
         /\ Len(SetToSeq(S)) = Cardinality(S)
         /\ Range(SetToSeq(S)) = S
<1>1. Cardinality(S) \in Nat /\ ExistsBijection(1..Cardinality(S), S)
  BY FS_CardinalityType
<1>2. \E f \in [1..Cardinality(S) -> S] : IsInjective(f)
  BY <1>1 DEF ExistsBijection, Bijection, Injection
<1>3. PICK f \in [1..Cardinality(S) -> S] : IsInjective(f) /\ f = SetToSeq(S)
  BY <1>2 DEF SetToSeq
<1>4. f \in Injection(1..Cardinality(S), S)
  BY <1>3 DEF Injection
<1>5. Cardinality(1..Cardinality(S)) = Cardinality(S)
  BY <1>1, FS_Interval
<1>6. f \in Surjection(1..Cardinality(S), S)
  BY <1>4, <1>5, FS_Injection
<1>7. Range(f) = S
  BY <1>3, <1>6 DEF Range, Surjection
<1>8. f \in Seq(S) /\ Len(f) = Cardinality(S)
  BY <1>1, <1>3
<1> QED BY <1>3, <1>7, <1>8

\* An integer type, a hint and a clone keep what an object refers to.
LEMMA HintedIs ==
  ASSUME NEW s \in Object, NEW t \in Object
  PROVE  /\ Hinted(s, t) \in Object
         /\ Hinted(s, t).ref = s.ref /\ Hinted(s, t).combined = s.combined
         /\ Hinted(s, t).kind = HintedKind(s.kind, t.kind)
         /\ Inferred(Hinted(s, t)) <=> Inferred(s)
BY DEF Hinted, HintedKind, Inferred, Object, Kind, Integer, Builtin, Ground

LEMMA CloneIs ==
  ASSUME NEW t \in Object, NEW o \in Nat
  PROVE  /\ Clone(t, o) \in Object
         /\ Clone(t, o).kind = t.kind
         /\ Refs(Clone(t, o)) \subseteq Refs(t) \cup Copies
<1>1. <<o, "copy">> \in NodeId /\ <<o, "copy">> \in Copies
  BY DEF NodeId, Role, Copies
<1> QED BY <1>1 DEF Clone, Refs, Object

LEMMA ExpectedIs ==
  ASSUME NEW s \in Object, NEW t \in Object, NEW o \in Nat
  PROVE  /\ Expected(s, t, o) \in Object
         /\ Expected(s, t, o).kind = IF Inferred(t) /\ ~Inferred(s) THEN s.kind ELSE t.kind
         /\ Refs(Expected(s, t, o)) \subseteq Refs(s) \cup Refs(t) \cup Copies
<1>1. CASE s.kind = t.kind /\ s.kind \in {"i32", "i64", "()"}
  <2>1. Expected(s, t, o) = Fresh(t.kind, t.ref)
    BY <1>1, Zenon DEF Expected
  <2>2. ~Inferred(t)
    BY <1>1 DEF Inferred
  <2>3. Fresh(t.kind, t.ref) \in Object /\ Refs(Fresh(t.kind, t.ref)) = {t.ref}
    BY DEF Fresh, Refs, Object
  <2> QED BY <2>1, <2>2, <2>3 DEF Fresh, Refs
<1>2. CASE ~(s.kind = t.kind /\ s.kind \in {"i32", "i64", "()"})
  <2>1. PICK known \in {s, t} : known = IF Inferred(t) /\ ~Inferred(s) THEN s ELSE t
    BY Zenon
  <2>2. Expected(s, t, o) = Clone(known, o)
    BY <1>2, <2>1, Zenon DEF Expected
  <2> QED BY <2>1, <2>2, CloneIs
<1> QED BY <1>1, <1>2

\* What the heap and the context have to do with those that Unify leaves.
Unified(l, r, u) ==
  /\ u.type = Len(heap) + 1 /\ u.type \in DOMAIN u.heap
  /\ Memory(u.heap, u.resolved)
  /\ \A p \in DOMAIN heap :
       /\ p \in DOMAIN u.heap
       /\ u.heap[p].ref = heap[p].ref
       /\ u.heap[p].kind = IF p = l THEN HintedKind(heap[l].kind, heap[r].kind)
                           ELSE IF p = r THEN HintedKind(heap[r].kind, heap[l].kind)
                           ELSE heap[p].kind
       /\ p \in {l, r} => Refs(u.heap[p]) \subseteq Refs(heap[l]) \cup Refs(heap[r]) \cup Copies
       /\ p \notin {l, r} => Refs(u.heap[p]) = Refs(heap[p])
  /\ \A p \in DOMAIN u.heap : p > Len(heap) =>
       /\ u.heap[p].kind = Outcome(heap[l].kind, heap[r].kind)
       /\ Refs(u.heap[p]) \subseteq Refs(heap[l]) \cup Refs(heap[r]) \cup Copies
  /\ DOMAIN resolved \subseteq DOMAIN u.resolved
  /\ DOMAIN u.resolved \subseteq DOMAIN resolved \cup Copies
  /\ \A n \in DOMAIN resolved :
       \/ u.resolved[n] = resolved[n]
       \/ /\ Inferred(heap[resolved[n]]) /\ u.resolved[n] > Len(heap)
          /\ n \in Refs(heap[l]) \cup Refs(heap[r]) \cup Copies
  /\ Outcome(heap[l].kind, heap[r].kind) # "General" =>
       \A n \in DOMAIN resolved \cap (Refs(heap[l]) \cup Refs(heap[r])) :
         Inferred(heap[resolved[n]]) => u.resolved[n] > Len(heap)

LEMMA UnifyIs ==
  ASSUME Memory(heap, resolved), NEW l \in DOMAIN heap, NEW r \in DOMAIN heap
  PROVE  Unified(l, r, Unify(l, r))
<1> DEFINE left  == Hinted(heap[l], heap[r])
           right == Hinted(heap[r], heap[l])
           o     == Len(heap) + 1
           made  == Expected(left, right, o)
           refs  == Combined(left, right)
           type  == [made EXCEPT !.combined = @ \cup refs]
           Saw(p) == (IF p = l THEN {made.ref, right.ref} ELSE {})
                       \cup (IF p = r THEN {made.ref, left.ref} ELSE {})
           known == [p \in 1..o |->
                       IF p = o THEN type
                       ELSE [heap[p] EXCEPT !.kind = IF p = l THEN left.kind
                                                     ELSE IF p = r THEN right.kind
                                                     ELSE @,
                                            !.combined = @ \cup Saw(p)]]
           set   == Stale(known, type.combined, type.kind)
           stale == SetToSeq(set)
           last  == o + Len(stale)
           copies == IF Inferred(type) THEN {<<p, "copy">> : p \in o..last} ELSE {}
           h     == [p \in 1..last |-> IF p <= o THEN known[p] ELSE Clone(type, p)]
           Place(n) == CHOOSE i \in DOMAIN stale : stale[i] = n
           ctx   == [n \in DOMAIN resolved \cup copies |->
                       IF n \in Range(stale) THEN o + Place(n)
                       ELSE IF n \in DOMAIN resolved THEN resolved[n]
                       ELSE n[1]]
           u     == Unify(l, r)
<1>0. u = [type |-> o, heap |-> h, resolved |-> ctx]
  BY DEF Unify
<1>1. /\ Len(heap) \in Nat /\ DOMAIN heap = 1..Len(heap) /\ o \in Nat
      /\ \A p \in DOMAIN heap : heap[p] \in Object
      /\ IsFiniteSet(DOMAIN resolved)
      /\ \A n \in DOMAIN resolved : n \in NodeId /\ resolved[n] \in DOMAIN heap
  BY DEF Memory
<1>2. /\ known \in [1..o -> {known[p] : p \in 1..o}] /\ known[o] = type
      /\ \A p \in DOMAIN heap :
           known[p] = [heap[p] EXCEPT !.kind = IF p = l THEN left.kind
                                               ELSE IF p = r THEN right.kind
                                               ELSE @,
                                      !.combined = @ \cup Saw(p)]
  <2>1. o \in 1..o /\ \A p \in DOMAIN heap : p \in 1..o /\ p # o
    BY <1>1
  <2> HIDE DEF o, left, right, made, refs, type, Saw
  <2> QED BY <2>1, Zenon
<1> HIDE DEF left, right, made, refs, type, known, set, stale, last, copies, h, Place, ctx, u
<1>3. /\ left \in Object /\ left.ref = heap[l].ref /\ left.combined = heap[l].combined
      /\ left.kind = HintedKind(heap[l].kind, heap[r].kind)
      /\ Inferred(left) <=> Inferred(heap[l])
  BY <1>1, HintedIs DEF left
<1>4. /\ right \in Object /\ right.ref = heap[r].ref /\ right.combined = heap[r].combined
      /\ right.kind = HintedKind(heap[r].kind, heap[l].kind)
      /\ Inferred(right) <=> Inferred(heap[r])
  BY <1>1, HintedIs DEF right
<1>5. Refs(left) = Refs(heap[l]) /\ Refs(right) = Refs(heap[r])
  BY <1>3, <1>4 DEF Refs
<1>6. /\ made \in Object
      /\ made.kind = Outcome(heap[l].kind, heap[r].kind)
      /\ Refs(made) \subseteq Refs(heap[l]) \cup Refs(heap[r]) \cup Copies
  <2>1. made.kind = IF Inferred(right) /\ ~Inferred(left) THEN left.kind ELSE right.kind
    BY <1>1, <1>3, <1>4, ExpectedIs DEF made
  <2>2. made.kind = Outcome(heap[l].kind, heap[r].kind)
    BY <1>3, <1>4, <2>1, Zenon DEF Outcome, Inferred
  <2> QED BY <1>1, <1>3, <1>4, <1>5, <2>2, ExpectedIs DEF made
<1>7. refs = Refs(heap[l]) \cup Refs(heap[r]) /\ refs \subseteq NodeId
  <2>1. refs = Refs(left) \cup Refs(right)
    BY DEF refs, Combined, Refs
  <2> QED BY <1>3, <1>4, <1>5, <2>1 DEF Refs, Object
<1>8. /\ type \in Object /\ type.kind = made.kind
      /\ refs \subseteq type.combined
      /\ Refs(type) \subseteq refs \cup Copies
  BY <1>6, <1>7 DEF type, Object, Refs
<1>9. ASSUME NEW p \in DOMAIN heap
      PROVE  /\ known[p] \in Object
             /\ known[p].ref = heap[p].ref
             /\ known[p].kind = IF p = l THEN left.kind ELSE IF p = r THEN right.kind
                                ELSE heap[p].kind
             /\ p \in {l, r} => Refs(known[p]) \subseteq refs \cup Copies
             /\ p \notin {l, r} => Refs(known[p]) = Refs(heap[p])
             /\ Inferred(known[p]) <=> Inferred(heap[p])
  <2>1. Saw(p) \subseteq NodeId /\ Saw(p) \subseteq refs \cup Copies /\ (p \notin {l, r} => Saw(p) = {})
    <3>1. made.ref \in refs \cup Copies /\ made.ref \in NodeId
      BY <1>6, <1>7 DEF Refs, Object
    <3>2. right.ref \in refs /\ left.ref \in refs
      BY <1>3, <1>4, <1>7 DEF Refs
    <3> QED BY <1>7, <3>1, <3>2
  <2>2. PICK t, saw, kind :
          /\ t = heap[p] /\ saw = Saw(p)
          /\ kind = IF p = l THEN left.kind ELSE IF p = r THEN right.kind ELSE heap[p].kind
    OBVIOUS
  <2>3. t \in Object /\ kind \in Kind
    BY <1>1, <1>3, <1>4, <2>2 DEF Object
  <2>4. known[p] = [t EXCEPT !.kind = kind, !.combined = @ \cup saw]
    BY <1>2, <2>2
  <2>5. /\ known[p] \in Object /\ known[p].ref = t.ref /\ known[p].kind = kind
        /\ Refs(known[p]) = Refs(t) \cup saw
    <3>1. saw \in SUBSET NodeId
      BY <2>1, <2>2
    <3> HIDE DEF Saw
    <3>2. PICK k : k = known[p] /\ k = [kind |-> kind, ref |-> t.ref, combined |-> t.combined \cup saw]
      BY <2>3, <2>4 DEF Object
    <3>3. t.ref \in NodeId /\ t.combined \in SUBSET NodeId
      BY <2>3 DEF Object
    <3>4. k \in Object
      BY <2>3, <3>1, <3>2, <3>3 DEF Object
    <3>5. k.ref = t.ref /\ k.kind = kind /\ k.combined = t.combined \cup saw
      BY <3>2
    <3>6. Refs(k) = Refs(t) \cup saw
      BY <3>5 DEF Refs
    <3> QED BY <3>2, <3>4, <3>5, <3>6
  <2>6. p \in {l, r} => Refs(t) \subseteq refs
    BY <1>7, <2>2
  <2>7. Inferred(known[p]) <=> Inferred(heap[p])
    BY <1>3, <1>4, <2>2, <2>5 DEF Inferred
  <2> QED BY <2>1, <2>2, <2>5, <2>6, <2>7
<1>10. \A n \in DOMAIN resolved : Inferred(known[resolved[n]]) <=> Inferred(heap[resolved[n]])
  BY <1>1, <1>9
<1>11. set = IF type.kind = "General" THEN {}
             ELSE {n \in type.combined \cap DOMAIN resolved : Inferred(heap[resolved[n]])}
  BY <1>10 DEF set, Stale
<1>12. set \subseteq DOMAIN resolved /\ IsFiniteSet(set)
  BY <1>1, <1>11, FS_Subset
<1>13. /\ Len(stale) \in Nat /\ DOMAIN stale = 1..Len(stale) /\ Range(stale) = set
       /\ last \in Nat /\ last >= o
  BY <1>1, <1>12, SetToSeqHasAll DEF stale, last
<1>14. ASSUME NEW n \in set PROVE ctx[n] \in (o + 1)..last
  <2>1. \E i \in DOMAIN stale : stale[i] = n
    BY <1>13 DEF Range
  <2>2. Place(n) \in DOMAIN stale
    BY <2>1 DEF Place
  <2>3. ctx[n] = o + Place(n)
    BY <1>12, <1>13 DEF ctx
  <2> QED BY <1>1, <1>13, <2>2, <2>3 DEF last
<1>15. /\ h \in Seq(Object) /\ DOMAIN h = 1..last /\ Len(h) = last
       /\ \A p \in DOMAIN heap : h[p] = known[p]
       /\ \A p \in o..last : h[p].kind = type.kind /\ Refs(h[p]) \subseteq refs \cup Copies
  <2>1. DOMAIN h = 1..last
    BY DEF h
  <2>2. \A p \in DOMAIN heap : p \in 1..last /\ p <= o /\ h[p] = known[p]
    BY <1>1, <1>13 DEF h
  <2>3. h[o] = type
    <3>1. o \in 1..last /\ o <= o
      BY <1>1, <1>13
    <3>2. h[o] = known[o]
      BY <3>1 DEF h
    <3> QED BY <1>2, <3>2, Zenon
  <2>4. \A p \in (o + 1)..last : h[p] = Clone(type, p)
    BY <1>1, <1>13 DEF h
  <2>5. \A p \in 1..last : p \in DOMAIN heap \/ p = o \/ p \in (o + 1)..last
    BY <1>1, <1>13
  <2>6. \A p \in (o + 1)..last : /\ Clone(type, p) \in Object /\ Clone(type, p).kind = type.kind
                                 /\ Refs(Clone(type, p)) \subseteq Refs(type) \cup Copies
    BY <1>1, <1>8, <1>13, CloneIs
  <2>7. \A p \in 1..last : h[p] \in Object
    BY <1>8, <1>9, <2>2, <2>3, <2>4, <2>5, <2>6
  <2>8. h \in Seq(Object) /\ Len(h) = last
    BY <1>13, <2>1, <2>7 DEF h
  <2>9. \A p \in o..last : p = o \/ p \in (o + 1)..last
    BY <1>1, <1>13
  <2> QED BY <1>8, <2>1, <2>2, <2>3, <2>4, <2>6, <2>8, <2>9
<1>16. copies \subseteq Copies /\ IsFiniteSet(copies) /\ \A n \in copies : n[1] \in o..last
  <2>1. CASE Inferred(type)
    <3>1. copies = {<<p, "copy">> : p \in o..last}
      BY <2>1 DEF copies
    <3>2. PICK f : f = [p \in o..last |-> <<p, "copy">>]
      OBVIOUS
    <3>3. f \in Surjection(o..last, copies)
      BY <3>1, <3>2 DEF Surjection
    <3>4. IsFiniteSet(o..last)
      BY <1>1, <1>13, FS_Interval
    <3>5. o..last \subseteq Nat
      BY <1>1, <1>13
    <3>6. copies \subseteq Copies
      BY <3>1, <3>5 DEF Copies, NodeId, Role
    <3> QED BY <3>1, <3>3, <3>4, <3>6, FS_Surjection
  <2>2. CASE ~Inferred(type)
    BY <2>2, FS_EmptySet DEF copies
  <2> QED BY <2>1, <2>2
<1>17. /\ DOMAIN ctx = DOMAIN resolved \cup copies
       /\ \A n \in DOMAIN resolved : n \notin set => ctx[n] = resolved[n]
       /\ \A n \in copies : n \notin DOMAIN resolved => ctx[n] = n[1]
  BY <1>12, <1>13 DEF ctx
<1>18. Memory(h, ctx)
  <2>1. IsFiniteSet(DOMAIN ctx) /\ DOMAIN ctx \subseteq NodeId
    <3>1. IsFiniteSet(DOMAIN resolved) /\ DOMAIN resolved \subseteq NodeId
      BY DEF Memory
    <3>2. IsFiniteSet(DOMAIN resolved \cup copies)
      BY <1>16, <3>1, FS_Union
    <3>3. copies \subseteq NodeId
      BY <1>16 DEF Copies
    <3> QED BY <1>17, <3>1, <3>2, <3>3
  <2>2. ASSUME NEW n \in DOMAIN ctx PROVE ctx[n] \in 1..last
    <3>1. CASE n \in set
      BY <1>1, <1>13, <1>14, <3>1
    <3>2. CASE n \in DOMAIN resolved /\ n \notin set
      <4>1. ctx[n] \in DOMAIN heap
        BY <1>1, <1>17, <3>2
      <4> QED BY <1>1, <1>13, <4>1
    <3>3. CASE n \in copies /\ n \notin DOMAIN resolved
      BY <1>1, <1>13, <1>16, <1>17, <3>3
    <3> QED BY <1>17, <3>1, <3>2, <3>3
  <2>3. ctx = [n \in DOMAIN ctx |-> ctx[n]]
    BY <1>17 DEF ctx
  <2>4. ctx \in [DOMAIN ctx -> DOMAIN h]
    BY <1>15, <2>2, <2>3
  <2> QED BY <1>15, <2>1, <2>4 DEF Memory
<1>19. u.type = o /\ u.heap = h /\ u.resolved = ctx
  BY <1>0
<1>20. \A p \in DOMAIN heap :
         /\ p \in DOMAIN h
         /\ h[p].ref = heap[p].ref
         /\ h[p].kind = IF p = l THEN HintedKind(heap[l].kind, heap[r].kind)
                        ELSE IF p = r THEN HintedKind(heap[r].kind, heap[l].kind)
                        ELSE heap[p].kind
         /\ p \in {l, r} => Refs(h[p]) \subseteq Refs(heap[l]) \cup Refs(heap[r]) \cup Copies
         /\ p \notin {l, r} => Refs(h[p]) = Refs(heap[p])
  <2>1. \A p \in DOMAIN heap : p \in DOMAIN h /\ h[p] = known[p]
    BY <1>1, <1>13, <1>15
  <2> QED BY <1>3, <1>4, <1>7, <1>9, <2>1, Zenon
<1>21. \A p \in DOMAIN h : p > Len(heap) =>
         /\ h[p].kind = Outcome(heap[l].kind, heap[r].kind)
         /\ Refs(h[p]) \subseteq Refs(heap[l]) \cup Refs(heap[r]) \cup Copies
  <2>1. \A p \in DOMAIN h : p > Len(heap) => p \in o..last
    BY <1>1, <1>13, <1>15
  <2> QED BY <1>6, <1>7, <1>8, <1>15, <2>1
<1>22. \A n \in set : ctx[n] > Len(heap)
  <2>1. \A i \in (o + 1)..last : i > Len(heap)
    BY <1>1, <1>13
  <2> QED BY <1>14, <2>1
<1>23. \A n \in set : n \in DOMAIN resolved /\ Inferred(heap[resolved[n]])
                        /\ n \in Refs(heap[l]) \cup Refs(heap[r]) \cup Copies
  <2>1. type.combined \subseteq refs \cup Copies
    BY <1>8 DEF Refs
  <2> QED BY <1>7, <1>11, <2>1
<1>24. type.kind # "General" =>
         \A n \in DOMAIN resolved \cap refs : Inferred(heap[resolved[n]]) => n \in set
  BY <1>8, <1>11
<1>25. o \in DOMAIN h /\ o = Len(heap) + 1
  BY <1>1, <1>13, <1>15
<1>26. /\ u.type = Len(heap) + 1 /\ u.type \in DOMAIN u.heap /\ Memory(u.heap, u.resolved)
  BY <1>18, <1>19, <1>25, Zenon
<1>27. DOMAIN resolved \subseteq DOMAIN u.resolved /\ DOMAIN u.resolved \subseteq DOMAIN resolved \cup Copies
  BY <1>16, <1>17, <1>19
<1>28. \A n \in DOMAIN resolved :
         \/ u.resolved[n] = resolved[n]
         \/ /\ Inferred(heap[resolved[n]]) /\ u.resolved[n] > Len(heap)
            /\ n \in Refs(heap[l]) \cup Refs(heap[r]) \cup Copies
  BY <1>17, <1>19, <1>22, <1>23
<1>29. Outcome(heap[l].kind, heap[r].kind) # "General" =>
         \A n \in DOMAIN resolved \cap (Refs(heap[l]) \cup Refs(heap[r])) :
           Inferred(heap[resolved[n]]) => u.resolved[n] > Len(heap)
  BY <1>6, <1>7, <1>8, <1>19, <1>22, <1>24
<1>30. u = Unify(l, r)
  BY DEF u
<1> QED BY <1>19, <1>20, <1>21, <1>26, <1>27, <1>28, <1>29, <1>30, Zenon DEF Unified

-----------------------------------------------------------------------------
(* Type correctness *)

\* A variable is declared without a type and without an initialiser.
Undeclared == \E i \in Lets : Body[i].type = "none" /\ Body[i].args = <<>>

\* A heap and a typing context that the function may have: the first objects are
\* the builtin types, whatever stands for them, and only a let statement that
\* says nothing of its variable makes a variable of which nothing is known.
Sound(h, ctx) ==
  /\ Memory(h, ctx)
  /\ \A k \in DOMAIN Builtins : k \in DOMAIN h /\ h[k].kind = Builtins[k]
  /\ ReturnType \in DOMAIN h /\ h[ReturnType].kind = function.returns
  /\ \A p \in DOMAIN h : h[p].kind = "General" => Undeclared

\* What the phases are about, and how many values there are in them.
Control ==
  \/ /\ phase \in {"first", "second"} /\ at \in DOMAIN Body
     /\ \/ Len(values) <= Len(Args)
        \/ Len(values) = Len(Args) + 1 /\ Operator # "none"
  \/ phase = "trailing" /\ at = Len(Body) + 1 /\ Len(values) <= Len(Args)
  \/ phase = "body" /\ at = Len(Body) + 1 /\ Len(values) \in {1, 2}

TypeOK ==
  /\ function \in Functions
  /\ Sound(heap, resolved)
  /\ values \in Seq(DOMAIN heap)
  /\ at \in Nat
  /\ Control
  /\ outcome \in {"running", "done", "aborted"}

LEMMA FunctionIs ==
  ASSUME function \in Functions
  PROVE  /\ Body \in Seq(Statement) /\ function.trailing \in Seq(Atom)
         /\ function.returns \in Builtin
         /\ WellFormed(function)
BY InferenceAssumption DEF Function, Body

LEMMA ArgsAre ==
  ASSUME function \in Functions, at \in Nat
  PROVE  /\ Args \in Seq(Atom) /\ Len(Args) \in Nat /\ Len(Body) \in Nat
         /\ DOMAIN Body = 1..Len(Body)
         /\ at \in DOMAIN Body => Body[at] \in Statement /\ Args = Body[at].args
                                    /\ Operator = Body[at].operator
         /\ at \notin DOMAIN Body => Args = function.trailing /\ Operator = "none" /\ Len(Args) <= 1
BY FunctionIs DEF Args, Operator, Statement, WellFormed

\* What is written: the reference of an object, the object of some nodes, and
\* an object behind those there are.
Refer(h, o, m) == [h EXCEPT ![o].ref = m]
Place(ctx, N, o) == [n \in DOMAIN ctx \cup N |-> IF n \in N THEN o ELSE ctx[n]]
Allocate(h, kind, m) == Append(h, Fresh(kind, m))

LEMMA ReferMemory ==
  ASSUME NEW h, NEW ctx, Memory(h, ctx), NEW o \in DOMAIN h, NEW m \in NodeId
  PROVE  /\ Memory(Refer(h, o, m), ctx) /\ DOMAIN Refer(h, o, m) = DOMAIN h
         /\ \A p \in DOMAIN h : /\ Refer(h, o, m)[p].kind = h[p].kind
                                /\ Refer(h, o, m)[p].combined = h[p].combined
         /\ \A p \in DOMAIN h \ {o} : Refer(h, o, m)[p] = h[p]
         /\ Refer(h, o, m)[o].ref = m
<1> DEFINE g == Refer(h, o, m)
<1>1. /\ Len(h) \in Nat /\ DOMAIN h = 1..Len(h) /\ \A p \in DOMAIN h : h[p] \in Object
      /\ h \in Seq(Object)
  BY DEF Memory
<1>2. PICK t : t = h[o]
  OBVIOUS
<1>3. PICK s : s = [kind |-> t.kind, ref |-> m, combined |-> t.combined]
  OBVIOUS
<1>4. t \in Object /\ s \in Object /\ s.kind = t.kind /\ s.ref = m /\ s.combined = t.combined
  BY <1>1, <1>2, <1>3 DEF Object
<1>5. [t EXCEPT !.ref = m] = s
  BY <1>3, <1>4 DEF Object
<1>6. g = [h EXCEPT ![o] = s]
  BY <1>2, <1>5 DEF Refer
<1> HIDE DEF g
<1>7. DOMAIN g = DOMAIN h /\ g[o] = s /\ \A p \in DOMAIN h \ {o} : g[p] = h[p]
  BY <1>6
<1>8. g \in Seq(Object)
  BY <1>1, <1>4, <1>6
<1>9. Memory(g, ctx)
  BY <1>7, <1>8 DEF Memory
<1> QED BY <1>2, <1>4, <1>7, <1>9 DEF g

LEMMA PlaceMemory ==
  ASSUME NEW h, NEW ctx, Memory(h, ctx), NEW o \in DOMAIN h,
         NEW N \in SUBSET NodeId, IsFiniteSet(N)
  PROVE  Memory(h, Place(ctx, N, o))
<1> DEFINE c == Place(ctx, N, o)
<1>1. IsFiniteSet(DOMAIN c) /\ DOMAIN c \subseteq NodeId
  BY FS_Union DEF Memory, Place
<1>2. c \in [DOMAIN c -> DOMAIN h]
  BY DEF Memory, Place
<1> QED BY <1>1, <1>2 DEF Memory

LEMMA AllocateMemory ==
  ASSUME NEW h, NEW ctx, Memory(h, ctx), NEW kind \in Kind, NEW m \in NodeId
  PROVE  /\ Memory(Allocate(h, kind, m), ctx)
         /\ DOMAIN Allocate(h, kind, m) = 1..(Len(h) + 1)
         /\ Len(Allocate(h, kind, m)) = Len(h) + 1
         /\ DOMAIN h \subseteq DOMAIN Allocate(h, kind, m)
         /\ \A p \in DOMAIN h : Allocate(h, kind, m)[p] = h[p]
         /\ Allocate(h, kind, m)[Len(h) + 1] = Fresh(kind, m)
<1> DEFINE g == Allocate(h, kind, m)
<1>1. Len(h) \in Nat /\ DOMAIN h = 1..Len(h) /\ h \in Seq(Object)
  BY DEF Memory
<1>2. Fresh(kind, m) \in Object
  BY DEF Fresh, Object
<1>3. /\ g \in Seq(Object) /\ Len(g) = Len(h) + 1 /\ DOMAIN g = 1..(Len(h) + 1)
      /\ \A p \in 1..Len(h) : g[p] = h[p]
      /\ g[Len(h) + 1] = Fresh(kind, m)
  BY <1>1, <1>2, AppendProperties DEF Allocate
<1> HIDE DEF g
<1>4. ctx \in [DOMAIN ctx -> DOMAIN g]
  BY <1>1, <1>3 DEF Memory
<1>5. DOMAIN h \subseteq DOMAIN g /\ Memory(g, ctx)
  BY <1>1, <1>3, <1>4 DEF Memory
<1> QED BY <1>1, <1>3, <1>5 DEF g

\* Hints and unification forget nothing that is known.
LEMMA KindsKnown ==
  ASSUME NEW kind \in Kind, NEW other \in Kind
  PROVE  /\ kind \notin {"General", "Integral"} => HintedKind(kind, other) = kind
         /\ HintedKind(kind, other) = "General" => kind = "General"
         /\ Outcome(kind, other) = "General" => "General" \in {kind, other}
         /\ Outcome(kind, other) = "Error" => "Error" \in {kind, other}
BY DEF HintedKind, Outcome, Kind, Builtin, Ground, Integer

LEMMA SoundRefer ==
  ASSUME NEW h, NEW ctx, Sound(h, ctx), NEW o \in DOMAIN h, NEW m \in NodeId
  PROVE  Sound(Refer(h, o, m), ctx)
<1>1. PICK g : g = Refer(h, o, m)
  OBVIOUS
<1>2. Memory(h, ctx)
  BY DEF Sound
<1>3. Memory(g, ctx) /\ DOMAIN g = DOMAIN h /\ \A p \in DOMAIN h : g[p].kind = h[p].kind
  BY <1>1, <1>2, ReferMemory
<1>4. Sound(g, ctx)
  BY <1>3 DEF Sound
<1> QED BY <1>1, <1>4

LEMMA SoundPlace ==
  ASSUME NEW h, NEW ctx, Sound(h, ctx), NEW o \in DOMAIN h,
         NEW N \in SUBSET NodeId, IsFiniteSet(N)
  PROVE  Sound(h, Place(ctx, N, o))
BY PlaceMemory DEF Sound

LEMMA SoundAllocate ==
  ASSUME NEW h, NEW ctx, Sound(h, ctx), NEW kind \in Kind, NEW m \in NodeId,
         kind = "General" => Undeclared
  PROVE  /\ Sound(Allocate(h, kind, m), ctx)
         /\ Len(h) + 1 \in DOMAIN Allocate(h, kind, m)
         /\ DOMAIN h \subseteq DOMAIN Allocate(h, kind, m)
<1>1. PICK g : g = Allocate(h, kind, m)
  OBVIOUS
<1>2. Memory(h, ctx)
  BY DEF Sound
<1>3. /\ Memory(g, ctx) /\ DOMAIN g = 1..(Len(h) + 1)
      /\ DOMAIN h \subseteq DOMAIN g
      /\ \A p \in DOMAIN h : g[p] = h[p]
      /\ g[Len(h) + 1] = Fresh(kind, m)
  BY <1>1, <1>2, AllocateMemory
<1>4. DOMAIN h = 1..Len(h) /\ Len(h) \in Nat
  BY <1>2 DEF Memory
<1>5. \A p \in DOMAIN g : p \in DOMAIN h \/ p = Len(h) + 1
  BY <1>3, <1>4
<1>6. Fresh(kind, m).kind = kind
  BY DEF Fresh
<1>7. Sound(g, ctx)
  BY <1>3, <1>5, <1>6 DEF Sound
<1>8. Len(h) + 1 \in DOMAIN g
  BY <1>3, <1>4
<1> QED BY <1>1, <1>3, <1>7, <1>8

LEMMA SoundUnify ==
  ASSUME Sound(heap, resolved), function \in Functions,
         NEW l \in DOMAIN heap, NEW r \in DOMAIN heap
  PROVE  /\ Sound(Unify(l, r).heap, Unify(l, r).resolved)
         /\ Unify(l, r).type \in DOMAIN Unify(l, r).heap
         /\ DOMAIN heap \subseteq DOMAIN Unify(l, r).heap
<1>1. PICK u : u = Unify(l, r)
  OBVIOUS
<1>2. Unified(l, r, u)
  BY <1>1, UnifyIs DEF Sound
<1>3. /\ Len(heap) \in Nat /\ DOMAIN heap = 1..Len(heap) /\ \A p \in DOMAIN heap : heap[p].kind \in Kind
      /\ DOMAIN u.heap \subseteq Nat
  <2>1. heap \in Seq(Object)
    BY DEF Sound, Memory
  <2>2. \A p \in DOMAIN heap : heap[p] \in Object
    BY <2>1
  <2>3. u.heap \in Seq(Object)
    BY <1>2 DEF Unified, Memory
  <2> QED BY <2>1, <2>2, <2>3 DEF Object
<1>4. /\ \A p \in DOMAIN heap :
           /\ p \in DOMAIN u.heap
           /\ heap[p].kind \notin {"General", "Integral"} => u.heap[p].kind = heap[p].kind
           /\ u.heap[p].kind = "General" => heap[p].kind = "General"
  BY <1>2, <1>3, KindsKnown DEF Unified
<1>5. \A p \in DOMAIN u.heap : p \in DOMAIN heap \/ p > Len(heap)
  BY <1>2, <1>3 DEF Unified, Memory
<1>6. \A p \in DOMAIN u.heap : u.heap[p].kind = "General" => Undeclared
  <2>1. Outcome(heap[l].kind, heap[r].kind) = "General" => Undeclared
    BY <1>3, KindsKnown DEF Sound
  <2> QED BY <1>2, <1>4, <1>5, <2>1 DEF Unified, Sound
<1>7. \A k \in DOMAIN Builtins : Builtins[k] \notin {"General", "Integral"}
  BY DEF Builtins
<1>8. function.returns \notin {"General", "Integral"}
  BY FunctionIs DEF Builtin, Ground, Integer
<1>9. Sound(u.heap, u.resolved)
  BY <1>2, <1>4, <1>6, <1>7, <1>8 DEF Unified, Sound
<1> QED BY <1>1, <1>2, <1>4, <1>9 DEF Unified

\* The arguments of a statement, and of the trailing expression behind them.
ArgsAt(i) == IF i \in DOMAIN Body THEN Body[i].args ELSE function.trailing

LEMMA ArgsAtAre ==
  ASSUME function \in Functions, NEW i
  PROVE  /\ ArgsAt(i) \in Seq(Atom) /\ Len(ArgsAt(i)) \in Nat
         /\ Len(Body) \in Nat /\ DOMAIN Body = 1..Len(Body)
BY FunctionIs DEF ArgsAt, Statement

\* What holds of a memory holds of it behind the step that leaves it.
LEMMA SoundStays ==
  ASSUME NEW h, NEW ctx, Sound(h, ctx), UNCHANGED function, heap' = h, resolved' = ctx
  PROVE  Sound(heap, resolved)'
BY DEF Sound, Memory, Undeclared, Lets, Body, ReturnType, BuiltinType

LEMMA NextStatementControls ==
  ASSUME TypeOK, at \in DOMAIN Body, NextStatement, UNCHANGED function, DOMAIN heap \subseteq DOMAIN heap'
  PROVE  Control' /\ at' \in Nat /\ values' \in Seq(DOMAIN heap)'
<1>1. values' = <<>> /\ Len(values)' = 0
  BY DEF NextStatement
<1>2. Len(Body) \in Nat /\ DOMAIN Body = 1..Len(Body) /\ Body' = Body /\ phase \in {"first", "second"}
  BY ArgsAtAre DEF Body, TypeOK, Control
<1>3. Args' = ArgsAt(at') /\ Len(ArgsAt(at')) \in Nat
  BY <1>2, ArgsAtAre DEF Args, ArgsAt, TypeOK
<1>4. 0 <= Len(Args')
  BY <1>3
<1>5. CASE at < Len(Body)
  BY <1>1, <1>2, <1>4, <1>5 DEF NextStatement, Control
<1>6. CASE at = Len(Body)
  BY <1>1, <1>2, <1>4, <1>6 DEF NextStatement, Control
<1> QED BY <1>2, <1>5, <1>6

LEMMA NodesAre ==
  ASSUME NEW nodes \in Seq(NodeId), nodes # <<>>
  PROVE  /\ Last(nodes) \in NodeId /\ Last(nodes) \in Range(nodes)
         /\ Range(nodes) \in SUBSET NodeId /\ IsFiniteSet(Range(nodes))
<1>1. Len(nodes) \in Nat \ {0} /\ DOMAIN nodes = 1..Len(nodes)
  BY EmptySeq
<1>2. Len(nodes) \in DOMAIN nodes /\ \A i \in DOMAIN nodes : nodes[i] \in NodeId
  BY <1>1
<1>3. nodes \in Surjection(1..Len(nodes), Range(nodes))
  BY <1>1 DEF Surjection, Range
<1>4. IsFiniteSet(Range(nodes))
  BY <1>1, <1>3, FS_Interval, FS_Surjection
<1> QED BY <1>2, <1>4 DEF Last, Range

\* A value more.
LEMMA ValueTyped ==
  ASSUME TypeOK, NEW h, NEW ctx, Sound(h, ctx), DOMAIN heap \subseteq DOMAIN h, NEW o \in DOMAIN h,
         NEW nodes \in Seq(NodeId), nodes # <<>>, Typed(h, ctx, nodes, o),
         \/ Len(values) < Len(Args)
         \/ at \in DOMAIN Body /\ Len(values) = Len(Args) /\ Operator # "none"
  PROVE  TypeOK'
<1>1. Last(nodes) \in NodeId /\ Range(nodes) \in SUBSET NodeId /\ IsFiniteSet(Range(nodes))
  BY NodesAre
<1>2. PICK g, c : g = Refer(h, o, Last(nodes)) /\ c = Place(ctx, Range(nodes), o)
  OBVIOUS
<1>3. heap' = g /\ resolved' = c
  BY <1>2 DEF Typed, Refer, Place
<1>4. Sound(g, ctx)
  BY <1>1, <1>2, SoundRefer
<1>5. DOMAIN g = DOMAIN h
  BY <1>2 DEF Refer
<1>6. Sound(g, c)
  BY <1>1, <1>2, <1>4, <1>5, SoundPlace
<1>7. Sound(heap, resolved)'
  BY <1>3, <1>6, SoundStays DEF Typed
<1>8. values' \in Seq(DOMAIN heap') /\ Len(values') = Len(values) + 1 /\ Len(values) \in Nat
  <2>1. values \in Seq(DOMAIN g) /\ o \in DOMAIN g
    BY <1>5, SeqMonotonic DEF TypeOK
  <2>2. values' = Append(values, o)
    BY DEF Typed
  <2> QED BY <1>3, <2>1, <2>2, AppendProperties, LenProperties
<1>9. UNCHANGED <<function, phase, at, outcome>> /\ UNCHANGED <<Args, Body, Operator>>
  BY DEF Typed, Args, Body, Operator
<1>10. Len(Args) \in Nat
  BY ArgsAre DEF TypeOK
<1>11. at \notin DOMAIN Body => Len(Args) <= 1 /\ Operator = "none"
  BY ArgsAre DEF TypeOK
<1>12. phase = "body" \/ phase = "trailing" => at \notin DOMAIN Body
  BY ArgsAre DEF TypeOK, Control
<1>13. Control'
  <2>1. CASE at \in DOMAIN Body
    BY <1>8, <1>9, <1>10, <1>12, <2>1 DEF TypeOK, Control
  <2>2. CASE at \notin DOMAIN Body
    BY <1>8, <1>9, <1>10, <1>11, <2>2 DEF TypeOK, Control
  <2> QED BY <2>1, <2>2
<1> QED BY <1>7, <1>8, <1>9, <1>13 DEF TypeOK

\* The nodes of the n-th operand.
Nodes(n) ==
  IF Operator = "none" THEN <<<<at, "value">>>>
  ELSE IF Operator = "if"
  THEN IF n = 1 THEN <<<<at, "condition">>>>
       ELSE IF n = 2 THEN <<<<at, "then">>, <<at, "thenBlock">>>>
       ELSE <<<<at, "else">>, <<at, "elseBlock">>>>
  ELSE IF n = 1 THEN <<<<at, "left">>>> ELSE <<<<at, "right">>>>

LEMMA OperatorsHave ==
  ASSUME function \in Functions, at \in Nat, Operator # "none"
  PROVE  /\ at \in DOMAIN Body
         /\ Len(Args) = IF Operator = "if" THEN 3 ELSE 2
<1>1. at \in DOMAIN Body /\ Args = Body[at].args /\ Operator = Body[at].operator
  BY ArgsAre
<1>2. Len(Args) \in Arity(Body[at])
  BY <1>1, FunctionIs DEF WellFormed, Body
<1> QED BY <1>1, <1>2 DEF Arity

LEMMA NodesOf ==
  ASSUME at \in Nat, NEW n
  PROVE  Nodes(n) \in Seq(NodeId) /\ Nodes(n) # <<>>
<1>1. /\ <<at, "value">> \in NodeId /\ <<at, "condition">> \in NodeId
      /\ <<at, "then">> \in NodeId /\ <<at, "else">> \in NodeId
  BY DEF NodeId, Role
<1>2. /\ <<at, "thenBlock">> \in NodeId /\ <<at, "elseBlock">> \in NodeId
      /\ <<at, "left">> \in NodeId /\ <<at, "right">> \in NodeId
  BY DEF NodeId, Role
<1>3. PICK v, c, t, e, tb, eb, l, r :
         /\ v = <<at, "value">> /\ c = <<at, "condition">> /\ t = <<at, "then">>
         /\ e = <<at, "else">> /\ tb = <<at, "thenBlock">> /\ eb = <<at, "elseBlock">>
         /\ l = <<at, "left">> /\ r = <<at, "right">>
  OBVIOUS
<1>4. \/ Nodes(n) = <<v>> \/ Nodes(n) = <<c>> \/ Nodes(n) = <<t, tb>>
      \/ Nodes(n) = <<e, eb>> \/ Nodes(n) = <<l>> \/ Nodes(n) = <<r>>
  BY <1>3, Zenon DEF Nodes
<1>5. \A i, j \in NodeId : /\ <<i>> \in Seq(NodeId) /\ <<i>> # <<>>
                          /\ <<i, j>> \in Seq(NodeId) /\ <<i, j>> # <<>>
  OBVIOUS
<1>6. {v, c, t, e, tb, eb, l, r} \subseteq NodeId
  BY <1>1, <1>2, <1>3
<1> QED BY <1>4, <1>5, <1>6

LEMMA OperandNodesAre ==
  ASSUME function \in Functions, at \in Nat, values \in Seq(DOMAIN heap), Len(values) < Len(Args)
  PROVE  OperandNodes = Nodes(Len(values) + 1)
<1>1. Len(values) \in Nat
  BY LenProperties
<1>2. CASE Operator = "none"
  BY <1>2, Zenon DEF OperandNodes, Nodes
<1>3. CASE Operator = "if"
  <2>1. Len(values) + 1 \in {1, 2, 3}
    <3>1. Len(Args) = 3
      BY <1>3, OperatorsHave
    <3>2. PICK m \in Nat : m = Len(values)
      BY <1>1
    <3> QED BY <3>1, <3>2
  <2>2. CASE Len(values) + 1 = 1
    BY <1>3, <2>2 DEF OperandNodes, Nodes
  <2>3. CASE Len(values) + 1 = 2
    <3>1. OperandNodes = <<<<at, <<"then", "else">>[1]>>, <<at, <<"thenBlock", "elseBlock">>[1]>>>>
      BY <1>3, <2>3 DEF OperandNodes
    <3> QED BY <1>3, <2>3, <3>1 DEF Nodes
  <2>4. CASE Len(values) + 1 = 3
    <3>1. OperandNodes = <<<<at, <<"then", "else">>[2]>>, <<at, <<"thenBlock", "elseBlock">>[2]>>>>
      BY <1>3, <2>4 DEF OperandNodes
    <3> QED BY <1>3, <2>4, <3>1 DEF Nodes
  <2> QED BY <2>1, <2>2, <2>3, <2>4
<1>4. CASE Operator \notin {"none", "if"}
  <2>1. Len(values) + 1 \in {1, 2}
    <3>1. Len(Args) = 2
      BY <1>4, OperatorsHave
    <3>2. PICK m \in Nat : m = Len(values)
      BY <1>1
    <3> QED BY <3>1, <3>2
  <2>2. OperandNodes = <<<<at, <<"left", "right">>[Len(values) + 1]>>>>
    BY <1>4, Zenon DEF OperandNodes
  <2> QED BY <1>4, <2>1, <2>2 DEF Nodes
<1> QED BY <1>2, <1>3, <1>4

LEMMA BuiltinTypeIs ==
  ASSUME NEW kind \in Ground
  PROVE  /\ BuiltinType(kind) \in DOMAIN Builtins
         /\ Builtins[BuiltinType(kind)] = kind
<1>1. Len(Builtins) = 4 /\ DOMAIN Builtins = 1..4 /\ \E o \in 1..4 : Builtins[o] = kind
  <2>1. Builtins[1] = "i32" /\ Builtins[2] = "i64" /\ Builtins[3] = "usize" /\ Builtins[4] = "bool"
    BY DEF Builtins
  <2> QED BY <2>1 DEF Builtins, Ground, Integer
<1> QED BY <1>1 DEF BuiltinType

LEMMA SharedAre ==
  ASSUME TypeOK
  PROVE  /\ \A kind \in Ground : BuiltinType(kind) \in DOMAIN heap /\ heap[BuiltinType(kind)].kind = kind
         /\ ReturnType \in DOMAIN heap
BY BuiltinTypeIs DEF TypeOK, Sound

\* Nothing but the outcome changes, or nothing of what TypeOK speaks of.
LEMMA EndingTyped ==
  ASSUME TypeOK, UNCHANGED <<function, heap, resolved, phase, at, values>>,
         outcome' \in {"running", "done", "aborted"}
  PROVE  TypeOK'
<1>1. PICK h, ctx : h = heap /\ ctx = resolved
  OBVIOUS
<1>2. Sound(heap, resolved)'
  BY <1>1, SoundStays DEF TypeOK
<1>3. Control'
  BY DEF TypeOK, Control, Args, Operator, Body
<1> QED BY <1>2, <1>3 DEF TypeOK

LEMMA OperandTyped ==
  ASSUME TypeOK, IntegerLiteral \/ BooleanLiteral \/ Variable
  PROVE  TypeOK'
<1>1. Len(values) < Len(Args) /\ OperandNodes \in Seq(NodeId) /\ OperandNodes # <<>>
  <2>1. Len(values) < Len(Args)
    BY DEF IntegerLiteral, BooleanLiteral, Variable, Pending
  <2> QED BY <2>1, OperandNodesAre, NodesOf DEF TypeOK
<1>2. Sound(heap, resolved)
  BY DEF TypeOK
<1>3. CASE IntegerLiteral
  <2>1. PICK m : m = OperandNodes[1]
    OBVIOUS
  <2>2. m \in NodeId
    BY <1>1, <2>1, EmptySeq
  <2>3. "Integral" \in Kind /\ "Integral" # "General"
    BY DEF Kind
  <2>4. PICK h : h = Allocate(heap, "Integral", m)
    OBVIOUS
  <2>5. Sound(h, resolved) /\ DOMAIN heap \subseteq DOMAIN h /\ Len(heap) + 1 \in DOMAIN h
    BY <1>2, <2>2, <2>3, <2>4, SoundAllocate
  <2>6. Typed(h, resolved, OperandNodes, Len(heap) + 1)
    BY <1>3, <2>1, <2>4 DEF IntegerLiteral, Allocate
  <2> QED BY <1>1, <2>5, <2>6, ValueTyped
<1>4. CASE BooleanLiteral
  <2>1. BuiltinType("bool") \in DOMAIN heap
    BY SharedAre DEF Ground
  <2>2. Typed(heap, resolved, OperandNodes, BuiltinType("bool"))
    BY <1>4 DEF BooleanLiteral
  <2> QED BY <1>1, <1>2, <2>1, <2>2, ValueTyped
<1>5. CASE Variable
  <2>1. PICK n : n = <<Argument.of, "pattern">>
    OBVIOUS
  <2>2. CASE n \in DOMAIN resolved /\ Typed(heap, resolved, OperandNodes, resolved[n])
    <3>1. resolved[n] \in DOMAIN heap
      BY <1>2, <2>2 DEF Sound, Memory
    <3> QED BY <1>1, <1>2, <2>2, <3>1, ValueTyped
  <2>3. CASE outcome' = "aborted" /\ UNCHANGED <<function, heap, resolved, phase, at, values>>
    BY <2>3, EndingTyped
  <2> QED BY <1>5, <2>1, <2>2, <2>3, Zenon DEF Variable
<1> QED BY <1>3, <1>4, <1>5

LEMMA NextTyped ==
  ASSUME TypeOK, NEW h, NEW ctx, Sound(h, ctx), DOMAIN heap \subseteq DOMAIN h,
         at \in DOMAIN Body, NextStatement, heap' = h, resolved' = ctx, UNCHANGED <<function, outcome>>
  PROVE  TypeOK'
<1>1. Sound(heap, resolved)'
  BY SoundStays
<1> QED BY <1>1, NextStatementControls DEF TypeOK

LEMMA EvaluatesTyped ==
  ASSUME TypeOK, NEW h, NEW ctx, Sound(h, ctx), DOMAIN heap \subseteq DOMAIN h, NEW o \in DOMAIN h,
         Len(values) = Len(Args), Operator # "none", Evaluates(h, ctx, o)
  PROVE  TypeOK'
<1>1. at \in DOMAIN Body
  BY OperatorsHave DEF TypeOK
<1>2. CASE Body[at].op = "let"
  <2>1. <<at, "value">> \in NodeId
    BY DEF NodeId, Role, TypeOK
  <2>2. <<<<at, "value">>>> \in Seq(NodeId) /\ <<<<at, "value">>>> # <<>>
    BY <2>1
  <2>3. Typed(h, ctx, <<<<at, "value">>>>, o)
    BY <1>2 DEF Evaluates
  <2> QED BY <1>1, <2>2, <2>3, ValueTyped
<1>3. CASE Body[at].op # "let"
  BY <1>1, <1>3, NextTyped DEF Evaluates
<1> QED BY <1>2, <1>3

LEMMA OperationTyped ==
  ASSUME TypeOK, Sum \/ Comparison \/ If
  PROVE  TypeOK'
<1>1. /\ Operator # "none" /\ Len(values) = Len(Args) /\ at \in DOMAIN Body
      /\ values[1] \in DOMAIN heap /\ values[2] \in DOMAIN heap
      /\ Operator = "if" => values[3] \in DOMAIN heap
  <2>1. Operator # "none" /\ Len(values) = Len(Args)
    BY DEF Sum, Comparison, If, Operands
  <2>2. at \in DOMAIN Body /\ Len(Args) = IF Operator = "if" THEN 3 ELSE 2
    BY <2>1, OperatorsHave DEF TypeOK
  <2> QED BY <2>1, <2>2 DEF TypeOK
<1>2. Sound(heap, resolved) /\ function \in Functions
  BY DEF TypeOK
<1>3. CASE Sum
  <2>1. CASE Evaluates(Unify(values[1], values[1]).heap, Unify(values[1], values[1]).resolved,
                       Unify(values[1], values[1]).type)
    BY <1>1, <1>2, <2>1, SoundUnify, EvaluatesTyped
  <2>2. CASE Evaluates(Append(heap, Fresh("Error", <<at, "value">>)), resolved, Len(heap) + 1)
    <3>1. <<at, "value">> \in NodeId /\ "Error" \in Kind /\ "Error" # "General"
      BY DEF NodeId, Role, TypeOK, Kind
    <3>2. PICK h : h = Allocate(heap, "Error", <<at, "value">>)
      OBVIOUS
    <3>3. Sound(h, resolved) /\ DOMAIN heap \subseteq DOMAIN h /\ Len(heap) + 1 \in DOMAIN h
      BY <1>2, <3>1, <3>2, SoundAllocate
    <3>4. Evaluates(h, resolved, Len(heap) + 1)
      BY <2>2, <3>2 DEF Allocate
    <3> QED BY <1>1, <3>3, <3>4, EvaluatesTyped
  <2> QED BY <1>3, <2>1, <2>2 DEF Sum
<1>4. CASE Comparison
  <2>1. CASE Evaluates(Unify(values[1], values[2]).heap, Unify(values[1], values[2]).resolved,
                       BuiltinType("bool"))
    <3>1. BuiltinType("bool") \in DOMAIN heap
      BY SharedAre DEF Ground
    <3>2. BuiltinType("bool") \in DOMAIN Unify(values[1], values[2]).heap
      BY <1>1, <1>2, <3>1, SoundUnify
    <3> QED BY <1>1, <1>2, <2>1, <3>2, SoundUnify, EvaluatesTyped
  <2>2. CASE Fails(values[1], values[2])
    BY <2>2, EndingTyped DEF Fails
  <2> QED BY <1>4, <2>1, <2>2 DEF Comparison
<1>5. CASE If
  <2>0. values[3] \in DOMAIN heap
    BY <1>1, <1>5 DEF If, Operands
  <2>1. CASE Evaluates(Unify(values[2], values[3]).heap, Unify(values[2], values[3]).resolved,
                       Unify(values[2], values[3]).type)
    BY <1>1, <1>2, <2>0, <2>1, SoundUnify, EvaluatesTyped
  <2>2. CASE Fails(values[2], values[3])
    BY <2>2, EndingTyped DEF Fails
  <2> QED BY <1>5, <2>1, <2>2 DEF If
<1> QED BY <1>3, <1>4, <1>5

LEMMA ValuesAre ==
  ASSUME TypeOK
  PROVE  /\ Len(values) \in Nat
         /\ Len(values) \in {1, 2, 3} => values[1] \in DOMAIN heap
         /\ Len(values) \in {2, 3} => values[2] \in DOMAIN heap
         /\ Len(values) = 3 => values[3] \in DOMAIN heap
<1>1. PICK n \in Nat : n = Len(values)
  BY LenProperties DEF TypeOK
<1>2. \A k \in 1..n : values[k] \in DOMAIN heap
  BY <1>1, ElementOfSeq DEF TypeOK
<1> QED BY <1>1, <1>2

LEMMA UnifiesTyped ==
  ASSUME TypeOK, NEW l \in DOMAIN heap, NEW r \in DOMAIN heap,
         heap' = Unify(l, r).heap, resolved' = Unify(l, r).resolved, UNCHANGED function
  PROVE  /\ Sound(heap, resolved)'
         /\ DOMAIN heap \subseteq DOMAIN heap'
         /\ Unify(l, r).type \in DOMAIN heap'
<1>1. PICK h, ctx : h = Unify(l, r).heap /\ ctx = Unify(l, r).resolved
  OBVIOUS
<1>2. Sound(h, ctx) /\ DOMAIN heap \subseteq DOMAIN h /\ Unify(l, r).type \in DOMAIN h
  BY <1>1, SoundUnify DEF TypeOK
<1> QED BY <1>1, <1>2, SoundStays

\* One value more behind a unification.
LEMMA UnifiesValueTyped ==
  ASSUME TypeOK, NEW l \in DOMAIN heap, NEW r \in DOMAIN heap, Unifies(l, r),
         values' = Append(values, Unify(l, r).type), UNCHANGED <<phase, at>>,
         \/ at \in DOMAIN Body /\ Len(values) = Len(Args) /\ Operator # "none"
         \/ phase = "body" /\ Len(values) = 1
  PROVE  TypeOK'
<1>1. /\ Sound(heap, resolved)' /\ DOMAIN heap \subseteq DOMAIN heap'
      /\ Unify(l, r).type \in DOMAIN heap'
  BY UnifiesTyped DEF Unifies
<1>2. values' \in Seq(DOMAIN heap') /\ Len(values') = Len(values) + 1 /\ Len(values) \in Nat
  <2>1. values \in Seq(DOMAIN heap')
    BY <1>1, SeqMonotonic DEF TypeOK
  <2> QED BY <1>1, <2>1, AppendProperties, LenProperties
<1>3. UNCHANGED <<function, outcome, Args, Body, Operator>>
  BY DEF Unifies, Args, Body, Operator
<1>4. Control'
  <2>1. at \in DOMAIN Body => phase \in {"first", "second"}
    BY ArgsAre DEF TypeOK, Control
  <2>2. phase = "body" => at = Len(Body) + 1
    BY ArgsAre DEF TypeOK, Control
  <2> QED BY <1>2, <1>3, <2>1, <2>2 DEF Control
<1> QED BY <1>1, <1>2, <1>3, <1>4 DEF TypeOK

LEMMA UnifiesNextTyped ==
  ASSUME TypeOK, NEW l \in DOMAIN heap, NEW r \in DOMAIN heap, Unifies(l, r),
         at \in DOMAIN Body, NextStatement
  PROVE  TypeOK'
<1>1. Sound(heap, resolved)' /\ DOMAIN heap \subseteq DOMAIN heap'
  BY UnifiesTyped DEF Unifies
<1>2. UNCHANGED <<function, outcome>>
  BY DEF Unifies
<1> QED BY <1>1, <1>2, NextStatementControls DEF TypeOK

LEMMA AssignmentTyped ==
  ASSUME TypeOK, Assignment \/ AssignmentAgain \/ Return
  PROVE  TypeOK'
<1>1. CASE Assignment
  <2>1. Operator \in {"=", "+="} /\ Len(values) = Len(Args)
    BY <1>1 DEF Assignment, Operands, Assigns
  <2>2. at \in DOMAIN Body /\ Len(Args) = 2
    BY <2>1, OperatorsHave DEF TypeOK
  <2>3. values[1] \in DOMAIN heap /\ values[2] \in DOMAIN heap
    BY <2>1, <2>2, ValuesAre
  <2>4. CASE Fails(values[1], values[2])
    BY <2>4, EndingTyped DEF Fails
  <2>5. CASE /\ Unifies(values[1], values[2])
             /\ values' = Append(values, Unify(values[1], values[2]).type)
             /\ UNCHANGED <<phase, at>>
    BY <2>1, <2>2, <2>3, <2>5, UnifiesValueTyped
  <2> QED BY <1>1, <2>4, <2>5 DEF Assignment
<1>2. CASE AssignmentAgain
  <2>1. Operator # "none" /\ Len(values) = 3
    BY <1>2 DEF AssignmentAgain, Assigns
  <2>2. at \in DOMAIN Body
    BY <2>1, OperatorsHave DEF TypeOK
  <2>3. values[1] \in DOMAIN heap /\ values[3] \in DOMAIN heap
    BY <2>1, ValuesAre
  <2> QED BY <1>2, <2>2, <2>3, UnifiesNextTyped DEF AssignmentAgain
<1>3. CASE Return
  <2>1. Len(values) = 1 /\ at <= Len(Body)
    BY <1>3 DEF Return
  <2>2. at \in DOMAIN Body
    BY <2>1, ArgsAre DEF TypeOK, Control
  <2>3. values[1] \in DOMAIN heap /\ ReturnType \in DOMAIN heap
    BY <2>1, SharedAre, ValuesAre
  <2>4. CASE Fails(ReturnType, values[1])
    BY <2>4, EndingTyped DEF Fails
  <2>5. CASE Unifies(ReturnType, values[1]) /\ NextStatement
    BY <2>2, <2>3, <2>5, UnifiesNextTyped
  <2> QED BY <1>3, <2>4, <2>5 DEF Return
<1> QED BY <1>1, <1>2, <1>3

LEMMA DeclaresTyped ==
  ASSUME TypeOK, NEW h, NEW ctx, Sound(h, ctx), DOMAIN heap \subseteq DOMAIN h,
         NEW o \in DOMAIN h, at \in DOMAIN Body, Declares(h, ctx, o)
  PROVE  TypeOK'
<1>1. PICK N, c : N = {<<at, "pattern">>} /\ c = Place(ctx, N, o)
  OBVIOUS
<1>2. N \in SUBSET NodeId /\ IsFiniteSet(N)
  <2>1. <<at, "pattern">> \in NodeId
    BY DEF NodeId, Role, TypeOK
  <2> QED BY <1>1, <2>1, FS_Singleton
<1>3. Sound(h, c)
  BY <1>1, <1>2, SoundPlace
<1>4. c = Insert(ctx, <<at, "pattern">>, o)
  BY <1>1 DEF Place, Insert
<1> QED BY <1>3, <1>4, NextTyped DEF Declares

LEMMA AtLetIs ==
  ASSUME TypeOK, NEW initialised, AtLet(initialised)
  PROVE  /\ at \in DOMAIN Body /\ at \in Lets /\ Body[at].type \in Ground \cup {"none"}
         /\ phase \in {"first", "second"}
         /\ initialised => /\ Initialiser \in DOMAIN heap /\ Args # <<>>
                           /\ Len(values) = IF Operator = "none" THEN 1 ELSE Len(Args) + 1
         /\ ~initialised => Args = <<>>
<1>1. at \in DOMAIN Body /\ phase \in {"first", "second"}
  BY ArgsAre DEF AtLet, TypeOK, Control
<1>2. Body[at] \in Statement /\ Args = Body[at].args /\ Operator = Body[at].operator
      /\ Body[at].op = "let" /\ Len(Args) \in Nat /\ Args \in Seq(Atom)
  BY <1>1, ArgsAre DEF TypeOK, AtLet
<1>3. Body[at].type \in Ground \cup {"none"}
  BY <1>2 DEF Statement
<1>4. ASSUME Args # <<>> PROVE Len(values) = IF Operator = "none" THEN 1 ELSE Len(Args) + 1
  <2>1. CASE Operator = "none"
    <3>1. Len(Args) \in {0, 1} /\ Len(Args) # 0
      <4>1. Len(Args) \in Arity(Body[at])
        BY <1>1, <1>2, FunctionIs DEF WellFormed, Body, TypeOK
      <4> QED BY <1>2, <1>4, <2>1, <4>1, EmptySeq DEF Arity
    <3> QED BY <2>1, <3>1 DEF AtLet
  <2> QED BY <2>1 DEF AtLet
<1>5. ASSUME Args # <<>> PROVE Initialiser \in DOMAIN heap
  <2>1. Len(values) \in 1..Len(values)
    BY <1>2, <1>4, <1>5, LenProperties DEF TypeOK
  <2> QED BY <2>1 DEF Initialiser, TypeOK
<1> QED BY <1>1, <1>2, <1>3, <1>4, <1>5 DEF AtLet, Lets

LEMMA LetTyped ==
  ASSUME TypeOK, LetError \/ LetCoerced \/ LetInferred \/ LetDeclared
  PROVE  TypeOK'
<1>0. Sound(heap, resolved) /\ function \in Functions
  BY DEF TypeOK
<1>1. CASE LetError
  <2>1. at \in DOMAIN Body
    BY <1>1, AtLetIs DEF LetError
  <2>2. CASE NextStatement /\ UNCHANGED <<function, heap, resolved, outcome>>
    <3>1. PICK h, ctx : h = heap /\ ctx = resolved
      OBVIOUS
    <3> QED BY <1>0, <2>1, <2>2, <3>1, NextTyped
  <2>3. CASE outcome' = "done" /\ UNCHANGED <<function, heap, resolved, phase, at, values>>
    BY <2>3, EndingTyped
  <2> QED BY <1>1, <2>2, <2>3 DEF LetError
<1>2. CASE LetCoerced
  <2>1. at \in DOMAIN Body /\ Initialiser \in DOMAIN heap /\ Body[at].type \in Ground
    BY <1>2, AtLetIs DEF LetCoerced, Specified
  <2>2. PICK e \in DOMAIN heap : e = BuiltinType(Body[at].type)
    BY <2>1, SharedAre
  <2>3. CASE Declares(Unify(e, Initialiser).heap, Unify(e, Initialiser).resolved, e)
    BY <1>0, <2>1, <2>2, <2>3, SoundUnify, DeclaresTyped
  <2>4. CASE Fails(e, Initialiser)
    BY <2>4, EndingTyped DEF Fails
  <2> QED BY <1>2, <2>2, <2>3, <2>4 DEF LetCoerced
<1>3. CASE LetInferred
  <2>1. at \in DOMAIN Body /\ Initialiser \in DOMAIN heap
    BY <1>3, AtLetIs DEF LetInferred
  <2> QED BY <1>0, <1>3, <2>1, DeclaresTyped DEF LetInferred
<1>4. CASE LetDeclared
  <2>1. at \in DOMAIN Body /\ at \in Lets /\ Body[at].type \in Ground \cup {"none"} /\ Args = <<>>
    BY <1>4, AtLetIs DEF LetDeclared
  <2>2. CASE Specified /\ Declares(heap, resolved, BuiltinType(Body[at].type))
    <3>1. BuiltinType(Body[at].type) \in DOMAIN heap
      BY <2>1, <2>2, SharedAre DEF Specified
    <3> QED BY <1>0, <2>1, <2>2, <3>1, DeclaresTyped
  <2>3. CASE /\ ~Specified
             /\ Declares(Append(heap, Fresh("General", <<at, "let">>)), resolved, Len(heap) + 1)
    <3>1. Undeclared
      BY <2>1, <2>3, ArgsAre DEF Undeclared, Specified, TypeOK
    <3>2. <<at, "let">> \in NodeId /\ "General" \in Kind
      BY DEF NodeId, Role, TypeOK, Kind
    <3>3. PICK h : h = Allocate(heap, "General", <<at, "let">>)
      OBVIOUS
    <3>4. Sound(h, resolved) /\ DOMAIN heap \subseteq DOMAIN h /\ Len(heap) + 1 \in DOMAIN h
      BY <1>0, <3>1, <3>2, <3>3, SoundAllocate
    <3>5. Declares(h, resolved, Len(heap) + 1)
      BY <2>3, <3>3 DEF Allocate
    <3> QED BY <2>1, <3>4, <3>5, DeclaresTyped
  <2> QED BY <1>4, <2>2, <2>3 DEF LetDeclared
<1> QED BY <1>1, <1>2, <1>3, <1>4

LEMMA BlockTyped ==
  ASSUME TypeOK, Block
  PROVE  TypeOK'
<1>1. phase = "trailing" /\ Len(values) = Len(Args) /\ at = Len(Body) + 1
  BY ArgsAre DEF Block, TypeOK, Control
<1>2. at \notin DOMAIN Body /\ Len(Args) \in Nat /\ Len(Args) <= 1 /\ Sound(heap, resolved)
      /\ function \in Functions /\ Args \in Seq(Atom)
  BY <1>1, ArgsAre DEF TypeOK
<1>3. PICK node : node = <<at, "block">>
  OBVIOUS
<1>4. node \in NodeId /\ {node} \in SUBSET NodeId /\ IsFiniteSet({node})
  <2>1. node \in NodeId
    BY <1>3 DEF NodeId, Role, TypeOK
  <2> QED BY <2>1, FS_Singleton
<1>5. \A ctx, o : Insert(ctx, node, o) = Place(ctx, {node}, o)
  BY DEF Insert, Place
<1>6. CASE /\ Args # <<>> /\ phase' = "body"
           /\ heap' = [heap EXCEPT ![values[1]].ref = node]
           /\ resolved' = Insert(resolved, node, values[1])
           /\ UNCHANGED <<function, at, values, outcome>>
  <2>1. Len(Args) = 1
    <3>1. PICK n \in Nat : n = Len(Args)
      BY <1>2
    <3>2. n # 0
      BY <1>2, <1>6, <3>1, EmptySeq
    <3> QED BY <1>2, <3>1, <3>2
  <2>2. values[1] \in DOMAIN heap
    BY <1>1, <2>1, ValuesAre
  <2>3. PICK h, c : h = Refer(heap, values[1], node) /\ c = Place(resolved, {node}, values[1])
    OBVIOUS
  <2>4. Sound(h, resolved) /\ DOMAIN h = DOMAIN heap
    BY <1>2, <1>4, <2>2, <2>3, SoundRefer DEF Refer
  <2>5. Sound(h, c)
    BY <1>4, <2>2, <2>3, <2>4, SoundPlace
  <2>6. heap' = h /\ resolved' = c
    BY <1>5, <1>6, <2>3 DEF Refer
  <2>7. Sound(heap, resolved)' /\ DOMAIN heap' = DOMAIN heap
    BY <1>6, <2>4, <2>5, <2>6, SoundStays
  <2>8. Control'
    BY <1>1, <1>6, <2>1 DEF Control, Body
  <2> QED BY <1>6, <2>7, <2>8 DEF TypeOK
<1>7. CASE /\ phase' = "body"
           /\ heap' = Append(heap, Fresh("()", node))
           /\ resolved' = Insert(resolved, node, Len(Append(heap, Fresh("()", node))))
           /\ values' = <<Len(Append(heap, Fresh("()", node)))>>
           /\ UNCHANGED <<function, at, outcome>>
  <2>1. "()" \in Kind /\ "()" # "General"
    BY DEF Kind, Builtin
  <2>2. PICK h, c : h = Allocate(heap, "()", node) /\ c = Place(resolved, {node}, Len(heap) + 1)
    OBVIOUS
  <2>3. Sound(h, resolved) /\ Len(heap) + 1 \in DOMAIN h
    BY <1>2, <1>4, <2>1, <2>2, SoundAllocate
  <2>4. Len(h) = Len(heap) + 1
    BY <1>2, <1>4, <2>1, <2>2, AllocateMemory DEF Sound
  <2>5. Sound(h, c)
    BY <1>4, <2>2, <2>3, SoundPlace
  <2>6. heap' = h /\ resolved' = c /\ values' = <<Len(heap) + 1>>
    BY <1>5, <1>7, <2>2, <2>4 DEF Allocate
  <2>7. Sound(heap, resolved)'
    BY <1>7, <2>5, <2>6, SoundStays
  <2>8. values' \in Seq(DOMAIN heap') /\ Len(values') = 1
    BY <2>3, <2>6
  <2>9. Control'
    BY <1>1, <1>7, <2>8 DEF Control, Body
  <2> QED BY <1>7, <2>7, <2>8, <2>9 DEF TypeOK
<1>8. CASE outcome' = "aborted" /\ UNCHANGED <<function, heap, resolved, phase, at, values>>
  BY <1>8, EndingTyped
<1> QED BY <1>3, <1>6, <1>7, <1>8, Zenon DEF Block

LEMMA CoerceTyped ==
  ASSUME TypeOK, Coerce \/ CoerceAgain
  PROVE  TypeOK'
<1>1. CASE Coerce
  <2>1. values[1] \in DOMAIN heap /\ ReturnType \in DOMAIN heap /\ phase = "body" /\ Len(values) = 1
    BY <1>1, SharedAre, ValuesAre DEF Coerce
  <2>2. CASE Fails(ReturnType, values[1])
    BY <2>2, EndingTyped DEF Fails
  <2>3. CASE /\ Unifies(ReturnType, values[1])
             /\ values' = Append(values, Unify(ReturnType, values[1]).type)
             /\ UNCHANGED <<phase, at>>
    BY <2>1, <2>3, UnifiesValueTyped
  <2> QED BY <1>1, <2>2, <2>3 DEF Coerce
<1>2. CASE CoerceAgain
  <2>1. values[2] \in DOMAIN heap /\ ReturnType \in DOMAIN heap
    BY <1>2, SharedAre, ValuesAre DEF CoerceAgain
  <2>2. Sound(heap, resolved)' /\ DOMAIN heap \subseteq DOMAIN heap'
    BY <1>2, <2>1, UnifiesTyped DEF CoerceAgain
  <2>3. UNCHANGED <<function, phase, at, values>> /\ outcome' = "done"
    BY <1>2 DEF CoerceAgain
  <2>4. values \in Seq(DOMAIN heap')
    BY <2>2, SeqMonotonic DEF TypeOK
  <2>5. Control'
    BY <2>3 DEF TypeOK, Control, Args, Operator, Body
  <2> QED BY <2>2, <2>3, <2>4, <2>5 DEF TypeOK
<1> QED BY <1>1, <1>2

LEMMA InitTyped == Init => TypeOK
<1> SUFFICES ASSUME Init PROVE TypeOK
  OBVIOUS
<1>1. function \in Functions /\ function.returns \in Builtin /\ Len(Body) \in Nat /\ DOMAIN Body = 1..Len(Body)
  BY FunctionIs DEF Init
<1>2. /\ DOMAIN Builtins = 1..4 /\ Len(Builtins) = 4
      /\ \A o \in 1..4 : Builtins[o] \in Ground
  BY DEF Builtins, Ground, Integer
<1>3. PICK scalars :
        scalars = [o \in DOMAIN Builtins |->
                     Fresh(Builtins[o], IF Builtins[o] = function.returns THEN <<0, "function">>
                                        ELSE <<o, "builtin">>)]
  OBVIOUS
<1>4. heap = IF function.returns = "()" THEN Append(scalars, Fresh("()", <<0, "function">>)) ELSE scalars
  BY <1>3 DEF Init
<1>5. <<0, "function">> \in NodeId /\ \A o \in 1..4 : <<o, "builtin">> \in NodeId
  BY DEF NodeId, Role
<1>6. /\ scalars \in Seq(Object) /\ Len(scalars) = 4 /\ DOMAIN scalars = 1..4
      /\ \A o \in 1..4 : scalars[o].kind = Builtins[o]
  <2>1. \A kind \in Kind, m \in NodeId : Fresh(kind, m) \in Object /\ Fresh(kind, m).kind = kind
    BY DEF Fresh, Object
  <2>2. \A o \in 1..4 : scalars[o] \in Object /\ scalars[o].kind = Builtins[o]
    BY <1>2, <1>3, <1>5, <2>1 DEF Kind, Builtin
  <2> QED BY <1>2, <1>3, <2>2
<1>7. /\ heap \in Seq(Object) /\ DOMAIN heap = IF function.returns = "()" THEN 1..5 ELSE 1..4
      /\ \A o \in 1..4 : heap[o].kind = Builtins[o]
      /\ function.returns = "()" => heap[5].kind = "()"
  <2>1. CASE function.returns = "()"
    <3>1. Fresh("()", <<0, "function">>) \in Object /\ Fresh("()", <<0, "function">>).kind = "()"
      BY <1>5 DEF Fresh, Object, Kind, Builtin
    <3>2. PICK t : t = Fresh("()", <<0, "function">>)
      OBVIOUS
    <3>3. heap = Append(scalars, t) /\ t \in Object /\ t.kind = "()"
      BY <1>4, <2>1, <3>1, <3>2
    <3>4. heap \in Seq(Object) /\ Len(heap) = 5 /\ heap[5] = t
      <4>1. heap \in Seq(Object) /\ Len(heap) = Len(scalars) + 1 /\ heap[Len(scalars) + 1] = t
        <5>1. \A s \in Seq(Object) : /\ Append(s, t) \in Seq(Object)
                                    /\ Len(Append(s, t)) = Len(s) + 1
                                    /\ Append(s, t)[Len(s) + 1] = t
          BY <3>3, AppendProperties
        <5> QED BY <1>6, <3>3, <5>1, Zenon
      <4>2. Len(scalars) + 1 = 5
        BY <1>6
      <4> QED BY <4>1, <4>2
    <3>5. \A o \in 1..4 : heap[o] = scalars[o]
      BY <1>6, <3>3, AppendProperties
    <3>6. DOMAIN heap = 1..5
      BY <3>4
    <3> QED BY <1>6, <2>1, <3>3, <3>4, <3>5, <3>6, Zenon
  <2>2. CASE function.returns # "()"
    BY <1>4, <1>6, <2>2
  <2> QED BY <2>1, <2>2
<1>8. /\ ReturnType \in DOMAIN heap /\ heap[ReturnType].kind = function.returns
      /\ function.returns # "()" => BuiltinType(function.returns) \in 1..4
  <2>1. CASE function.returns = "()"
    BY <1>2, <1>7, <2>1 DEF ReturnType
  <2>2. CASE function.returns # "()"
    <3>1. function.returns \in Ground
      BY <1>1, <2>2 DEF Builtin
    <3>2. BuiltinType(function.returns) \in 1..4 /\ Builtins[BuiltinType(function.returns)] = function.returns
      BY <1>2, <3>1, BuiltinTypeIs
    <3> QED BY <1>7, <2>2, <3>2 DEF ReturnType
  <2> QED BY <2>1, <2>2
<1>9. \A p \in DOMAIN heap : heap[p].kind # "General"
  <2>1. \A k \in Ground : k # "General"
    BY DEF Ground, Integer
  <2> QED BY <1>2, <1>7, <2>1
<1>10. Memory(heap, resolved)
  <2>1. PICK A, B : /\ A = {<<o, "builtin">> : o \in DOMAIN Builtins}
                    /\ B = IF function.returns = "()" THEN {} ELSE {<<0, "function">>}
    OBVIOUS
  <2>2. resolved = [n \in A \cup B |-> IF n[2] = "builtin" THEN n[1] ELSE BuiltinType(function.returns)]
    BY <2>1, Zenon DEF Init
  <2>3. IsFiniteSet(A)
    <3>1. PICK f : f = [o \in 1..4 |-> <<o, "builtin">>]
      OBVIOUS
    <3>2. f \in Surjection(1..4, A)
      BY <1>2, <2>1, <3>1 DEF Surjection
    <3>3. IsFiniteSet(1..4)
      <4>1. 1 \in Int /\ 4 \in Int
        OBVIOUS
      <4> QED BY <4>1, FS_Interval, Zenon
    <3> QED BY <3>2, <3>3, FS_Surjection
  <2>4. IsFiniteSet(B)
    BY <2>1, FS_EmptySet, FS_Singleton
  <2>5. IsFiniteSet(A \cup B) /\ A \cup B \subseteq NodeId
    BY <1>2, <1>5, <2>1, <2>3, <2>4, FS_Union
  <2>6. \A n \in A \cup B : resolved[n] \in 1..4
    BY <1>2, <1>8, <2>1, <2>2
  <2>7. \A n \in A \cup B : resolved[n] \in DOMAIN heap
    BY <1>7, <2>6
  <2> QED BY <1>7, <2>2, <2>5, <2>7 DEF Memory
<1>11. Sound(heap, resolved)
  BY <1>2, <1>7, <1>8, <1>9, <1>10 DEF Sound
<1>12. Control
  <2>1. values = <<>> /\ Len(values) = 0 /\ at = 1 /\ Len(Args) \in Nat
    BY <1>1, ArgsAre DEF Init
  <2>2. CASE Body = <<>>
    BY <1>1, <2>1, <2>2 DEF Init, Control
  <2>3. CASE Body # <<>>
    <3>1. Body \in Seq(Statement)
      BY <1>1, FunctionIs
    <3>2. at \in DOMAIN Body /\ phase = "first"
      BY <1>1, <2>1, <2>3, <3>1, EmptySeq DEF Init
    <3> QED BY <2>1, <3>2 DEF Control
  <2> QED BY <2>2, <2>3
<1> QED BY <1>1, <1>11, <1>12 DEF TypeOK, Init

LEMMA NextTypes == TypeOK /\ [Next]_vars => TypeOK'
<1> SUFFICES ASSUME TypeOK, [Next]_vars PROVE TypeOK'
  OBVIOUS
<1>1. CASE IntegerLiteral \/ BooleanLiteral \/ Variable
  BY <1>1, OperandTyped
<1>2. CASE Sum \/ Comparison \/ If
  BY <1>2, OperationTyped
<1>3. CASE Assignment \/ AssignmentAgain \/ Return
  BY <1>3, AssignmentTyped
<1>4. CASE LetError \/ LetCoerced \/ LetInferred \/ LetDeclared
  BY <1>4, LetTyped
<1>5. CASE Block
  BY <1>5, BlockTyped
<1>6. CASE Coerce \/ CoerceAgain
  BY <1>6, CoerceTyped
<1>7. CASE UNCHANGED vars
  BY <1>7, EndingTyped DEF vars, TypeOK
<1> QED BY <1>1, <1>2, <1>3, <1>4, <1>5, <1>6, <1>7 DEF Next

\* The heap is one of type objects, the typing context leads from the nodes it
\* knows into it, the built-in types stay what they are, and checkBlockExpression
\* has the operands of the statement it is at.
THEOREM TypeCorrect == Spec => []TypeOK
<1>1. Init => TypeOK
  BY InitTyped
<1>2. TypeOK /\ [Next]_vars => TypeOK'
  BY NextTypes
<1> QED BY <1>1, <1>2, PTL DEF Spec

-----------------------------------------------------------------------------
(* Coercions *)

\* Unifiable says no more of two types than their kinds.
UnifiableKinds(kind, other) ==
  \/ kind \in {"General", "Integral"} /\ other \in {"General", "Integral"} \cup Integer
  \/ kind = "General" /\ other \in {"bool", "()"}
  \/ kind \in Integer /\ other \in {"General", "Integral", kind}
  \/ kind = "()" /\ other \in {"General", "()"}

LEMMA UnifiableIs ==
  ASSUME NEW s, NEW t
  PROVE  Unifiable(s, t) <=> UnifiableKinds(s.kind, t.kind)
BY DEF Unifiable, UnifiableKinds, Inferred

\* What two types become can be unified with the first again.
LEMMA UnifiableAgain ==
  ASSUME NEW kind \in Kind, NEW other \in Kind, UnifiableKinds(kind, other)
  PROVE  UnifiableKinds(HintedKind(kind, other), Outcome(kind, other))
BY DEF UnifiableKinds, HintedKind, Outcome, Kind, Builtin, Ground, Integer

LEMMA KindsAre ==
  ASSUME TypeOK, NEW p \in DOMAIN heap
  PROVE  heap[p] \in Object /\ heap[p].kind \in Kind
<1>1. heap \in Seq(Object)
  BY DEF TypeOK, Sound, Memory
<1>2. heap[p] \in Object
  BY <1>1
<1> QED BY <1>2 DEF Object

LEMMA UnifiesRepeatable ==
  ASSUME TypeOK, NEW l \in DOMAIN heap, NEW r \in DOMAIN heap, Unifies(l, r)
  PROVE  Unifiable(heap'[l], heap'[Unify(l, r).type])
<1>1. PICK u : u = Unify(l, r)
  OBVIOUS
<1>2. Unified(l, r, u)
  BY <1>1, UnifyIs DEF TypeOK, Sound
<1>3. UnifiableKinds(heap[l].kind, heap[r].kind) /\ heap' = u.heap
  BY <1>1, UnifiableIs DEF Unifies
<1>4. u.heap[l].kind = HintedKind(heap[l].kind, heap[r].kind)
  BY <1>2 DEF Unified
<1>5. u.type \in DOMAIN u.heap /\ u.type > Len(heap)
  <2>1. Len(heap) \in Nat
    BY LenProperties DEF TypeOK, Sound, Memory
  <2> QED BY <1>2, <2>1 DEF Unified
<1>6. u.heap[u.type].kind = Outcome(heap[l].kind, heap[r].kind)
  BY <1>2, <1>5 DEF Unified
<1>7. UnifiableKinds(u.heap[l].kind, u.heap[u.type].kind)
  BY <1>3, <1>4, <1>6, KindsAre, UnifiableAgain
<1> QED BY <1>1, <1>3, <1>7, UnifiableIs

LEMMA AppendIs ==
  ASSUME NEW S, NEW s \in Seq(S), NEW e
  PROVE  /\ Len(Append(s, e)) = Len(s) + 1 /\ Len(s) \in Nat
         /\ Append(s, e)[Len(s) + 1] = e
         /\ \A k \in 1..Len(s) : Append(s, e)[k] = s[k]
         /\ DOMAIN Append(s, e) = 1..(Len(s) + 1)
<1>1. s \in Seq(S \cup {e})
  BY SeqMonotonic
<1> QED BY <1>1, AppendProperties

\* Nothing is to be unified again unless a coercion has unified once.
LEMMA NothingToRepeat ==
  ASSUME \/ outcome' # "running"
         \/ ~(phase' = "body" /\ Len(values') = 2) /\ ~(Operator' \in Assigns /\ Len(values') = 3)
  PROVE  CoercionIsRepeatable'
BY DEF CoercionIsRepeatable, Assigns

LEMMA CoercionStep ==
  ASSUME TypeOK, CoercionIsRepeatable, [Next]_vars
  PROVE  CoercionIsRepeatable'
<1>1. /\ at \in Nat /\ function \in Functions /\ Len(values) \in Nat /\ Len(Args) \in Nat
      /\ values \in Seq(DOMAIN heap)
  BY ArgsAre, LenProperties DEF TypeOK
<1>2. at \notin DOMAIN Body => Operator \notin Assigns /\ Len(Args) <= 1
  BY <1>1, ArgsAre DEF Assigns
<1>3. phase = "body" => at \notin DOMAIN Body /\ Len(values) \in {1, 2}
  BY <1>1, ArgsAre DEF TypeOK, Control
<1>4. Operator \in Assigns => Len(Args) = 2
  BY <1>1, OperatorsHave DEF Assigns
<1>5. ASSUME NEW h, NEW ctx, NEW nodes, NEW o, Typed(h, ctx, nodes, o),
             \/ Len(values) < Len(Args)
             \/ Len(values) = Len(Args) /\ at \in DOMAIN Body /\ Operator \notin Assigns
      PROVE  CoercionIsRepeatable'
  <2>1. Len(values') = Len(values) + 1 /\ UNCHANGED <<phase, Operator>>
    BY <1>1, <1>5, AppendProperties DEF Typed, Operator, Body
  <2>2. ~(phase = "body" /\ Len(values') = 2)
    BY <1>1, <1>2, <1>3, <1>5, <2>1
  <2>3. ASSUME Operator \in Assigns PROVE Len(values') # 3
    <3>1. Len(values) < 2
      BY <1>4, <1>5, <2>3
    <3> QED BY <1>1, <2>1, <3>1
  <2> QED BY <2>1, <2>2, <2>3, NothingToRepeat
<1>6. ASSUME NextStatement PROVE CoercionIsRepeatable'
  <2>1. Len(values') = 0
    BY <1>6 DEF NextStatement
  <2> QED BY <2>1, NothingToRepeat
<1>7. ASSUME NEW l, NEW r, Fails(l, r) PROVE CoercionIsRepeatable'
  BY <1>7, NothingToRepeat DEF Fails
<1>8. CASE IntegerLiteral \/ BooleanLiteral \/ Variable
  <2>1. Len(values) < Len(Args)
    BY <1>8 DEF IntegerLiteral, BooleanLiteral, Variable, Pending
  <2>2. outcome' = "aborted" => CoercionIsRepeatable'
    BY NothingToRepeat
  <2> QED BY <1>5, <1>8, <2>1, <2>2 DEF IntegerLiteral, BooleanLiteral, Variable
<1>9. CASE Sum \/ Comparison \/ If
  <2>1. Operator \in {"+", "==", "if"} /\ Len(values) = Len(Args)
    BY <1>9 DEF Sum, Comparison, If, Operands
  <2>2. Operator \notin Assigns /\ at \in DOMAIN Body
    BY <1>1, <2>1, OperatorsHave DEF Assigns
  <2>3. ASSUME NEW h, NEW ctx, NEW o, Evaluates(h, ctx, o) PROVE CoercionIsRepeatable'
    BY <1>5, <1>6, <2>1, <2>2, <2>3 DEF Evaluates
  <2> QED BY <1>7, <1>9, <2>3 DEF Sum, Comparison, If
<1>10. CASE Assignment
  <2>1. Operator \in Assigns /\ Len(values) = 2 /\ Len(Args) = 2
    BY <1>4, <1>10 DEF Assignment, Operands
  <2>2. CASE /\ Unifies(values[1], values[2])
             /\ values' = Append(values, Unify(values[1], values[2]).type)
             /\ UNCHANGED <<phase, at>>
    <3>1. values[1] \in DOMAIN heap /\ values[2] \in DOMAIN heap
      BY <2>1, ValuesAre
    <3>2. Unifiable(heap'[values[1]], heap'[Unify(values[1], values[2]).type])
      BY <2>2, <3>1, UnifiesRepeatable
    <3>3. PICK a, b, c : a = values[1] /\ b = values[2] /\ c = Unify(values[1], values[2]).type
      OBVIOUS
    <3>4. Len(values') = 3 /\ values'[1] = a /\ values'[3] = c
      <4>1. values' = Append(values, c)
        BY <2>2, <3>3
      <4>2. /\ Len(Append(values, c)) = Len(values) + 1
            /\ Append(values, c)[Len(values) + 1] = c
            /\ \A k \in 1..Len(values) : Append(values, c)[k] = values[k]
        BY <1>1, AppendIs
      <4>3. Len(values') = 2 + 1 /\ values'[2 + 1] = c
        BY <2>1, <4>1, <4>2
      <4>4. values'[1] = values[1]
        BY <2>1, <4>1, <4>2
      <4> QED BY <3>3, <4>3, <4>4
    <3>5. phase' # "body"
      BY <1>2, <1>3, <2>1, <2>2
    <3> QED BY <3>2, <3>3, <3>4, <3>5 DEF CoercionIsRepeatable
  <2> QED BY <1>7, <1>10, <2>2 DEF Assignment
<1>11. CASE AssignmentAgain \/ Return
  BY <1>6, <1>7, <1>11 DEF AssignmentAgain, Return
<1>12. CASE LetError \/ LetCoerced \/ LetInferred \/ LetDeclared
  <2>1. outcome' = "done" => CoercionIsRepeatable'
    BY NothingToRepeat
  <2> QED BY <1>6, <1>7, <1>12, <2>1 DEF LetError, LetCoerced, LetInferred, LetDeclared, Declares
<1>13. CASE Block
  <2>1. at \notin DOMAIN Body /\ Len(values) = Len(Args)
    BY <1>1, <1>13, ArgsAre DEF Block, TypeOK, Control
  <2>2. CASE UNCHANGED <<function, at, values, outcome>>
    <3>1. Operator' \notin Assigns /\ Len(values') <= 1
      BY <1>2, <2>1, <2>2 DEF Operator, Body
    <3>2. Len(values') # 2
      <4>1. \A n \in Nat : n <= 1 => n # 2
        OBVIOUS
      <4>2. Len(values') = Len(values)
        BY <2>2
      <4> QED BY <1>1, <3>1, <4>1, <4>2, Zenon
    <3> QED BY <3>1, <3>2, NothingToRepeat
  <2>3. CASE /\ values' = <<Len(Append(heap, Fresh("()", <<at, "block">>)))>>
             /\ UNCHANGED <<function, at, outcome>>
    <3>1. Len(values') = 1
      BY <2>3
    <3> QED BY <3>1, NothingToRepeat
  <2>4. CASE outcome' = "aborted"
    BY <2>4, NothingToRepeat
  <2> QED BY <1>13, <2>2, <2>3, <2>4 DEF Block
<1>14. CASE Coerce
  <2>1. Len(values) = 1 /\ phase = "body"
    BY <1>14 DEF Coerce
  <2>2. CASE /\ Unifies(ReturnType, values[1])
             /\ values' = Append(values, Unify(ReturnType, values[1]).type)
             /\ UNCHANGED <<phase, at>>
    <3>1. values[1] \in DOMAIN heap /\ ReturnType \in DOMAIN heap
      BY <2>1, SharedAre, ValuesAre
    <3>2. Unifiable(heap'[ReturnType], heap'[Unify(ReturnType, values[1]).type])
      BY <2>2, <3>1, UnifiesRepeatable
    <3>3. PICK a, c : a = ReturnType /\ c = Unify(ReturnType, values[1]).type
      OBVIOUS
    <3>4. Len(values') = 2 /\ values'[2] = c
      <4>1. values' = Append(values, c)
        BY <2>2, <3>3
      <4>2. /\ Len(Append(values, c)) = Len(values) + 1
            /\ Append(values, c)[Len(values) + 1] = c
        BY <1>1, AppendIs
      <4>3. Len(values') = 1 + 1 /\ values'[1 + 1] = c
        BY <2>1, <4>1, <4>2
      <4> QED BY <4>3
    <3>5. ReturnType' = ReturnType /\ Operator' \notin Assigns
      BY <1>2, <1>3, <2>1, <2>2 DEF Unifies, ReturnType, BuiltinType, Operator, Body
    <3> QED BY <3>2, <3>3, <3>4, <3>5 DEF CoercionIsRepeatable
  <2> QED BY <1>7, <1>14, <2>2 DEF Coerce
<1>15. CASE CoerceAgain
  BY <1>15, NothingToRepeat DEF CoerceAgain
<1>16. CASE UNCHANGED vars
  BY <1>16 DEF vars, CoercionIsRepeatable, ReturnType, BuiltinType, Operator, Body
<1> QED BY <1>8, <1>9, <1>10, <1>11, <1>12, <1>13, <1>14, <1>15, <1>16 DEF Next

\* For every function, what coercionWithSite has unified once can be unified with
\* the type on the left again: its second unification meets no assertion.
THEOREM AlwaysRepeatable == Spec => []CoercionIsRepeatable
<1>1. Init => CoercionIsRepeatable
  <2>1. Init => Len(values) = 0
    BY DEF Init
  <2> QED BY <2>1 DEF CoercionIsRepeatable
<1>2. TypeOK /\ CoercionIsRepeatable /\ [Next]_vars => CoercionIsRepeatable'
  BY CoercionStep
<1> QED BY <1>1, <1>2, TypeCorrect, PTL DEF Spec

-----------------------------------------------------------------------------
(* Types that stay, and types that are declared *)

\* The node n has a type of that kind.
Known(h, ctx, n, kind) == n \in DOMAIN ctx /\ h[ctx[n]].kind = kind

\* What was known of the nodes but those of N still is, behind g and c.
KnownIn(h, ctx, g, c, N) ==
  \A n \in DOMAIN ctx \ N :
    ~Inferred(h[ctx[n]]) => Known(g, c, n, h[ctx[n]].kind)

LEMMA ReferKnown ==
  ASSUME NEW h, NEW ctx, Memory(h, ctx), NEW o \in DOMAIN h, NEW m \in NodeId
  PROVE  KnownIn(h, ctx, Refer(h, o, m), ctx, {})
<1>1. PICK g : g = Refer(h, o, m)
  OBVIOUS
<1>2. \A p \in DOMAIN h : g[p].kind = h[p].kind
  BY <1>1, ReferMemory
<1>3. \A n \in DOMAIN ctx : ctx[n] \in DOMAIN h
  BY DEF Memory
<1> QED BY <1>1, <1>2, <1>3 DEF KnownIn, Known

LEMMA PlaceKnown ==
  ASSUME NEW h, NEW ctx, NEW N, NEW o
  PROVE  KnownIn(h, ctx, h, Place(ctx, N, o), N)
BY DEF KnownIn, Known, Place

LEMMA AllocateKnown ==
  ASSUME NEW h, NEW ctx, Memory(h, ctx), NEW kind \in Kind, NEW m \in NodeId
  PROVE  KnownIn(h, ctx, Allocate(h, kind, m), ctx, {})
<1>1. PICK g : g = Allocate(h, kind, m)
  OBVIOUS
<1>2. \A p \in DOMAIN h : g[p] = h[p]
  BY <1>1, AllocateMemory
<1>3. \A n \in DOMAIN ctx : ctx[n] \in DOMAIN h
  BY DEF Memory
<1> QED BY <1>1, <1>2, <1>3 DEF KnownIn, Known

LEMMA UnifyKnown ==
  ASSUME TypeOK, NEW l \in DOMAIN heap, NEW r \in DOMAIN heap
  PROVE  KnownIn(heap, resolved, Unify(l, r).heap, Unify(l, r).resolved, {})
<1>1. PICK u : u = Unify(l, r)
  OBVIOUS
<1>2. Unified(l, r, u)
  BY <1>1, UnifyIs DEF TypeOK, Sound
<1>3. ASSUME NEW n \in DOMAIN resolved, ~Inferred(heap[resolved[n]])
      PROVE  Known(u.heap, u.resolved, n, heap[resolved[n]].kind)
  <2>1. PICK p \in DOMAIN heap : p = resolved[n]
    BY DEF TypeOK, Sound, Memory
  <2>2. n \in DOMAIN u.resolved /\ u.resolved[n] = p
    BY <1>2, <1>3, <2>1 DEF Unified
  <2>3. heap[p].kind \notin {"General", "Integral"}
    BY <1>3, <2>1 DEF Inferred
  <2>4. u.heap[p].kind = heap[p].kind
    BY <1>2, <2>3, KindsAre, KindsKnown DEF Unified
  <2> QED BY <2>1, <2>2, <2>4 DEF Known
<1> QED BY <1>1, <1>3 DEF KnownIn

LEMMA KnownThrough ==
  ASSUME NEW h, NEW ctx, NEW g, NEW c, NEW k, NEW d, NEW N, NEW M,
         KnownIn(h, ctx, g, c, N), KnownIn(g, c, k, d, M)
  PROVE  KnownIn(h, ctx, k, d, N \cup M)
BY DEF KnownIn, Known, Inferred

\* Where the type of a node of another statement is known, it stays known.
KnownStays ==
  \A n \in DOMAIN resolved :
    n[1] # at /\ ~Inferred(heap[resolved[n]]) => Known(heap', resolved', n, heap[resolved[n]].kind)

LEMMA KnownInStays ==
  ASSUME NEW N, \A n \in N : n[1] = at, KnownIn(heap, resolved, heap', resolved', N)
  PROVE  KnownStays
BY DEF KnownStays, KnownIn

LEMMA TypedKnown ==
  ASSUME TypeOK, NEW h, NEW ctx, Sound(h, ctx), NEW o \in DOMAIN h,
         NEW nodes \in Seq(NodeId), nodes # <<>>, Typed(h, ctx, nodes, o)
  PROVE  KnownIn(h, ctx, heap', resolved', Range(nodes))
<1>1. Last(nodes) \in NodeId
  BY NodesAre
<1>2. PICK g, c : g = Refer(h, o, Last(nodes)) /\ c = Place(ctx, Range(nodes), o)
  OBVIOUS
<1>3. heap' = g /\ resolved' = c
  BY <1>2 DEF Typed, Refer, Place
<1>4. KnownIn(h, ctx, g, ctx, {})
  BY <1>1, <1>2, ReferKnown DEF Sound
<1>5. KnownIn(g, ctx, g, c, Range(nodes))
  BY <1>2, PlaceKnown
<1>6. KnownIn(h, ctx, g, c, {} \cup Range(nodes))
  BY <1>4, <1>5, KnownThrough
<1>7. {} \cup Range(nodes) = Range(nodes)
  OBVIOUS
<1> QED BY <1>3, <1>6, <1>7

\* The nodes of an operand are nodes of the statement it is of.
LEMMA NodesAreAt ==
  ASSUME NEW n
  PROVE  \A m \in Range(Nodes(n)) : m[1] = at
<1>1. \A a : Range(<<a>>) = {a}
  BY DEF Range
<1>2. \A a, b : Range(<<a, b>>) = {a, b}
  BY DEF Range
<1>3. PICK v, c, t, e, tb, eb, l, r :
         /\ v = <<at, "value">> /\ c = <<at, "condition">> /\ t = <<at, "then">>
         /\ e = <<at, "else">> /\ tb = <<at, "thenBlock">> /\ eb = <<at, "elseBlock">>
         /\ l = <<at, "left">> /\ r = <<at, "right">>
  OBVIOUS
<1>4. \/ Nodes(n) = <<v>> \/ Nodes(n) = <<c>> \/ Nodes(n) = <<t, tb>>
      \/ Nodes(n) = <<e, eb>> \/ Nodes(n) = <<l>> \/ Nodes(n) = <<r>>
  BY <1>3, Zenon DEF Nodes
<1>5. \A m \in {v, c, t, e, tb, eb, l, r} : m[1] = at
  BY <1>3
<1> QED BY <1>1, <1>2, <1>4, <1>5

\* What the actions leave known, one lemma per shape of an action.
LEMMA TypedStays ==
  ASSUME TypeOK, NEW h, NEW ctx, Sound(h, ctx), NEW o \in DOMAIN h,
         KnownIn(heap, resolved, h, ctx, {}),
         NEW nodes \in Seq(NodeId), nodes # <<>>, Typed(h, ctx, nodes, o),
         \A m \in Range(nodes) : m[1] = at
  PROVE  KnownStays
<1>1. KnownIn(h, ctx, heap', resolved', Range(nodes))
  BY TypedKnown
<1>2. KnownIn(heap, resolved, heap', resolved', {} \cup Range(nodes))
  BY <1>1, KnownThrough
<1>3. \A n \in {} \cup Range(nodes) : n[1] = at
  OBVIOUS
<1> QED BY <1>2, <1>3, KnownInStays

LEMMA EvaluatesStays ==
  ASSUME TypeOK, NEW h, NEW ctx, Sound(h, ctx), NEW o \in DOMAIN h,
         KnownIn(heap, resolved, h, ctx, {}), Evaluates(h, ctx, o)
  PROVE  KnownStays
<1>1. CASE Body[at].op = "let"
  <2>1. PICK v : v = <<at, "value">>
    OBVIOUS
  <2>2. v \in NodeId /\ v[1] = at
    BY <2>1 DEF NodeId, Role, TypeOK
  <2>3. <<v>> \in Seq(NodeId) /\ <<v>> # <<>> /\ \A m \in Range(<<v>>) : m[1] = at
    BY <2>2 DEF Range
  <2>4. Typed(h, ctx, <<v>>, o)
    BY <1>1, <2>1 DEF Evaluates
  <2> QED BY <2>3, <2>4, TypedStays
<1>2. CASE Body[at].op # "let"
  <2>1. heap' = h /\ resolved' = ctx
    BY <1>2 DEF Evaluates
  <2> QED BY <2>1, KnownInStays
<1> QED BY <1>1, <1>2

LEMMA DeclaresStays ==
  ASSUME TypeOK, NEW h, NEW ctx, NEW o, KnownIn(heap, resolved, h, ctx, {}), Declares(h, ctx, o)
  PROVE  KnownStays
<1>1. PICK n : n = <<at, "pattern">>
  OBVIOUS
<1>2. heap' = h /\ resolved' = Place(ctx, {n}, o)
  BY <1>1 DEF Declares, Insert, Place
<1>3. KnownIn(h, ctx, h, Place(ctx, {n}, o), {n})
  BY PlaceKnown
<1>4. KnownIn(heap, resolved, heap', resolved', {} \cup {n})
  BY <1>2, <1>3, KnownThrough
<1>5. \A m \in {} \cup {n} : m[1] = at
  BY <1>1
<1> QED BY <1>4, <1>5, KnownInStays

LEMMA NothingKnown ==
  ASSUME UNCHANGED <<heap, resolved>>
  PROVE  KnownStays
BY DEF KnownStays, Known

LEMMA UnifiesStays ==
  ASSUME TypeOK, NEW l \in DOMAIN heap, NEW r \in DOMAIN heap,
         heap' = Unify(l, r).heap, resolved' = Unify(l, r).resolved
  PROVE  KnownStays
<1>1. KnownIn(heap, resolved, heap', resolved', {})
  BY UnifyKnown
<1> QED BY <1>1, KnownInStays

LEMMA StepKnown ==
  ASSUME TypeOK, [Next]_vars
  PROVE  KnownStays
<1>0. /\ at \in Nat /\ function \in Functions /\ Len(values) \in Nat /\ Sound(heap, resolved)
      /\ values \in Seq(DOMAIN heap) /\ Memory(heap, resolved)
  BY LenProperties DEF TypeOK, Sound
<1>1. KnownIn(heap, resolved, heap, resolved, {})
  BY DEF KnownIn, Known
<1>2. ASSUME NEW h, NEW ctx, Sound(h, ctx), NEW o \in DOMAIN h, KnownIn(heap, resolved, h, ctx, {}),
             Len(values) < Len(Args), Typed(h, ctx, OperandNodes, o)
      PROVE  KnownStays
  <2>1. PICK nodes : nodes = OperandNodes
    OBVIOUS
  <2>2. nodes = Nodes(Len(values) + 1)
    BY <1>0, <1>2, <2>1, OperandNodesAre
  <2>3. nodes \in Seq(NodeId) /\ nodes # <<>> /\ \A m \in Range(nodes) : m[1] = at
    BY <1>0, <2>2, NodesOf, NodesAreAt
  <2> QED BY <1>2, <2>1, <2>3, TypedStays
<1>3. ASSUME NEW kind \in Kind, kind # "General" \/ Undeclared, NEW m \in NodeId
      PROVE  /\ Sound(Allocate(heap, kind, m), resolved)
             /\ Len(heap) + 1 \in DOMAIN Allocate(heap, kind, m)
             /\ KnownIn(heap, resolved, Allocate(heap, kind, m), resolved, {})
  BY <1>0, <1>3, SoundAllocate, AllocateKnown
<1>4. ASSUME NEW l \in DOMAIN heap, NEW r \in DOMAIN heap
      PROVE  /\ Sound(Unify(l, r).heap, Unify(l, r).resolved)
             /\ Unify(l, r).type \in DOMAIN Unify(l, r).heap
             /\ DOMAIN heap \subseteq DOMAIN Unify(l, r).heap
             /\ KnownIn(heap, resolved, Unify(l, r).heap, Unify(l, r).resolved, {})
  BY <1>0, <1>4, SoundUnify, UnifyKnown
<1>5. ASSUME NEW l, NEW r, Fails(l, r) PROVE KnownStays
  BY <1>5, NothingKnown DEF Fails
<1>6. CASE IntegerLiteral
  <2>1. Len(values) < Len(Args)
    BY <1>6 DEF IntegerLiteral, Pending
  <2>2. PICK m : m = OperandNodes[1]
    OBVIOUS
  <2>3. m \in NodeId
    <3>1. OperandNodes \in Seq(NodeId) /\ OperandNodes # <<>>
      BY <1>0, <2>1, OperandNodesAre, NodesOf
    <3> QED BY <2>2, <3>1, EmptySeq
  <2>4. "Integral" \in Kind /\ "Integral" # "General"
    BY DEF Kind
  <2>5. PICK h : h = Allocate(heap, "Integral", m)
    OBVIOUS
  <2>6. Typed(h, resolved, OperandNodes, Len(heap) + 1)
    BY <1>6, <2>2, <2>5 DEF IntegerLiteral, Allocate
  <2>7. Sound(h, resolved) /\ Len(heap) + 1 \in DOMAIN h /\ KnownIn(heap, resolved, h, resolved, {})
    BY <1>3, <2>3, <2>4, <2>5
  <2> QED BY <1>2, <2>1, <2>6, <2>7
<1>7. CASE BooleanLiteral
  <2>1. BuiltinType("bool") \in DOMAIN heap
    BY SharedAre DEF Ground
  <2> QED BY <1>0, <1>1, <1>2, <1>7, <2>1 DEF BooleanLiteral, Pending
<1>8. CASE Variable
  <2>1. PICK n : n = <<Argument.of, "pattern">>
    OBVIOUS
  <2>2. CASE n \in DOMAIN resolved /\ Typed(heap, resolved, OperandNodes, resolved[n])
    <3>1. resolved[n] \in DOMAIN heap
      BY <1>0, <2>2 DEF Sound, Memory
    <3> QED BY <1>0, <1>1, <1>2, <1>8, <2>2, <3>1 DEF Variable, Pending
  <2>3. CASE UNCHANGED <<function, heap, resolved, phase, at, values>>
    BY <2>3, NothingKnown
  <2> QED BY <1>8, <2>1, <2>2, <2>3, Zenon DEF Variable
<1>9. CASE Sum \/ Comparison \/ If
  <2>1. /\ Operator \in {"+", "==", "if"} /\ Len(values) = Len(Args)
    BY <1>9 DEF Sum, Comparison, If, Operands
  <2>2. Len(Args) = IF Operator = "if" THEN 3 ELSE 2
    BY <1>0, <2>1, OperatorsHave
  <2>3. /\ values[1] \in DOMAIN heap /\ values[2] \in DOMAIN heap
        /\ Operator = "if" => values[3] \in DOMAIN heap
    BY <2>1, <2>2, ValuesAre
  <2>4. CASE Sum
    <3>1. PICK l \in DOMAIN heap : l = values[1]
      BY <2>3
    <3>2. CASE Evaluates(Unify(l, l).heap, Unify(l, l).resolved, Unify(l, l).type)
      BY <1>4, <3>2, EvaluatesStays
    <3>3. CASE Evaluates(Append(heap, Fresh("Error", <<at, "value">>)), resolved, Len(heap) + 1)
      <4>1. <<at, "value">> \in NodeId /\ "Error" \in Kind /\ "Error" # "General"
        BY <1>0 DEF NodeId, Role, Kind
      <4>2. PICK h : h = Allocate(heap, "Error", <<at, "value">>)
        OBVIOUS
      <4>3. Evaluates(h, resolved, Len(heap) + 1)
        BY <3>3, <4>2 DEF Allocate
      <4> QED BY <1>3, <4>1, <4>2, <4>3, EvaluatesStays
    <3> QED BY <2>4, <3>1, <3>2, <3>3 DEF Sum
  <2>5. CASE Comparison
    <3>1. PICK l \in DOMAIN heap, r \in DOMAIN heap : l = values[1] /\ r = values[2]
      BY <2>3
    <3>2. CASE Evaluates(Unify(l, r).heap, Unify(l, r).resolved, BuiltinType("bool"))
      <4>1. BuiltinType("bool") \in DOMAIN Unify(l, r).heap
        BY <1>4, SharedAre DEF Ground
      <4> QED BY <1>4, <3>2, <4>1, EvaluatesStays
    <3> QED BY <1>5, <2>5, <3>1, <3>2 DEF Comparison
  <2>6. CASE If
    <3>1. PICK l \in DOMAIN heap, r \in DOMAIN heap : l = values[2] /\ r = values[3]
      BY <2>3, <2>6 DEF If, Operands
    <3>2. CASE Evaluates(Unify(l, r).heap, Unify(l, r).resolved, Unify(l, r).type)
      BY <1>4, <3>2, EvaluatesStays
    <3> QED BY <1>5, <2>6, <3>1, <3>2 DEF If
  <2> QED BY <1>9, <2>4, <2>5, <2>6
<1>10. CASE Assignment \/ AssignmentAgain \/ Return \/ Coerce \/ CoerceAgain
  <2>1. ASSUME NEW l, NEW r, Unifies(l, r), l \in DOMAIN heap, r \in DOMAIN heap PROVE KnownStays
    BY <2>1, UnifiesStays DEF Unifies
  <2>2. CASE Assignment
    <3>1. Len(values) = 2
      BY <1>0, <2>2, OperatorsHave DEF Assignment, Operands, Assigns
    <3> QED BY <1>5, <2>1, <2>2, <3>1, ValuesAre DEF Assignment
  <2>3. CASE AssignmentAgain
    BY <2>1, <2>3, ValuesAre DEF AssignmentAgain
  <2>4. CASE Return
    BY <1>5, <2>1, <2>4, SharedAre, ValuesAre DEF Return
  <2>5. CASE Coerce
    BY <1>5, <2>1, <2>5, SharedAre, ValuesAre DEF Coerce
  <2>6. CASE CoerceAgain
    BY <2>6, SharedAre, ValuesAre, UnifiesStays DEF CoerceAgain
  <2> QED BY <1>10, <2>2, <2>3, <2>4, <2>5, <2>6
<1>11. CASE LetError
  BY <1>11, NothingKnown DEF LetError
<1>12. CASE LetCoerced
  <2>1. Initialiser \in DOMAIN heap /\ Body[at].type \in Ground
    BY <1>12, AtLetIs DEF LetCoerced, Specified
  <2>2. PICK e \in DOMAIN heap, r \in DOMAIN heap : e = BuiltinType(Body[at].type) /\ r = Initialiser
    BY <2>1, SharedAre
  <2>3. CASE Declares(Unify(e, r).heap, Unify(e, r).resolved, e)
    BY <1>4, <2>3, DeclaresStays
  <2> QED BY <1>5, <1>12, <2>2, <2>3 DEF LetCoerced
<1>13. CASE LetInferred
  BY <1>1, <1>13, DeclaresStays DEF LetInferred
<1>14. CASE LetDeclared
  <2>1. CASE Declares(heap, resolved, BuiltinType(Body[at].type))
    BY <1>1, <2>1, DeclaresStays
  <2>2. CASE /\ ~Specified
             /\ Declares(Append(heap, Fresh("General", <<at, "let">>)), resolved, Len(heap) + 1)
    <3>1. <<at, "let">> \in NodeId /\ "General" \in Kind
      BY <1>0 DEF NodeId, Role, Kind
    <3>2. PICK h : h = Allocate(heap, "General", <<at, "let">>)
      OBVIOUS
    <3>3. KnownIn(heap, resolved, h, resolved, {})
      BY <1>0, <3>1, <3>2, AllocateKnown
    <3> QED BY <2>2, <3>2, <3>3, DeclaresStays DEF Allocate
  <2> QED BY <1>14, <2>1, <2>2 DEF LetDeclared
<1>15. CASE Block
  <2>1. PICK node : node = <<at, "block">>
    OBVIOUS
  <2>2. node \in NodeId /\ node[1] = at
    BY <1>0, <2>1 DEF NodeId, Role
  <2>3. \A ctx, o : Insert(ctx, node, o) = Place(ctx, {node}, o)
    BY DEF Insert, Place
  <2>4. \A n \in {} \cup {node} : n[1] = at
    BY <2>2
  <2>5. ASSUME NEW h, NEW o, KnownIn(heap, resolved, h, resolved, {}),
               heap' = h, resolved' = Place(resolved, {node}, o)
        PROVE  KnownStays
    <3>1. KnownIn(h, resolved, h, Place(resolved, {node}, o), {node})
      BY PlaceKnown
    <3>2. KnownIn(heap, resolved, heap', resolved', {} \cup {node})
      BY <2>5, <3>1, KnownThrough
    <3> QED BY <2>4, <3>2, KnownInStays
  <2>6. CASE /\ Args # <<>>
             /\ heap' = [heap EXCEPT ![values[1]].ref = node]
             /\ resolved' = Insert(resolved, node, values[1])
    <3>1. Len(values) = 1
      <4>1. Len(values) = Len(Args) /\ at \notin DOMAIN Body
        BY <1>0, <1>15, ArgsAre DEF Block, TypeOK, Control
      <4>2. Len(Args) <= 1 /\ Args \in Seq(Atom)
        BY <1>0, <4>1, ArgsAre
      <4>3. PICK n \in Nat : n = Len(Args) /\ n # 0
        BY <1>0, <2>6, <4>1, <4>2, EmptySeq
      <4> QED BY <4>1, <4>2, <4>3
    <3>2. values[1] \in DOMAIN heap
      BY <3>1, ValuesAre
    <3>3. KnownIn(heap, resolved, Refer(heap, values[1], node), resolved, {})
      BY <1>0, <2>2, <3>2, ReferKnown
    <3> QED BY <2>3, <2>5, <2>6, <3>3 DEF Refer
  <2>7. CASE /\ heap' = Append(heap, Fresh("()", node))
             /\ resolved' = Insert(resolved, node, Len(Append(heap, Fresh("()", node))))
    <3>1. "()" \in Kind
      BY DEF Kind, Builtin
    <3>2. KnownIn(heap, resolved, Allocate(heap, "()", node), resolved, {})
      BY <1>0, <2>2, <3>1, AllocateKnown
    <3> QED BY <2>3, <2>5, <2>7, <3>2 DEF Allocate
  <2>8. CASE UNCHANGED <<function, heap, resolved, phase, at, values>>
    BY <2>8, NothingKnown
  <2> QED BY <1>15, <2>1, <2>6, <2>7, <2>8, Zenon DEF Block
<1>16. CASE UNCHANGED vars
  BY <1>16, NothingKnown DEF vars
<1> QED BY <1>6, <1>7, <1>8, <1>9, <1>10, <1>11, <1>12, <1>13, <1>14, <1>15, <1>16 DEF Next

\* While a statement is checked, in either loop, no node of another one loses a
\* type that is known: unification only replaces inference variables.
THEOREM KnownTypesStay == Spec => [][KnownStays]_vars
<1>1. TypeOK /\ [Next]_vars => [KnownStays]_vars
  BY StepKnown
<1> QED BY <1>1, TypeCorrect, PTL DEF Spec

\* What statement i declares, and whether it says so of an initialiser.
DeclaredKind(i) == IF Body[i].op = "return" THEN function.returns ELSE Body[i].type
Promises(i) ==
  Body[i].op \in {"let", "return"} /\ Body[i].args # <<>> /\ DeclaredKind(i) # "none"
ValueNode(i) == <<i, "value">>

\* The initialiser, or what is returned, has been checked; the statement has not.
Evaluated ==
  /\ at \in DOMAIN Body /\ Args # <<>> /\ Body[at].op \in {"let", "return"}
  /\ Len(values) = IF Operator = "none" THEN Len(Args) ELSE Len(Args) + 1

\* Its type refers to its own node: a coercion that knows better gets there.
Current ==
  Evaluated => /\ ValueNode(at) \in DOMAIN resolved
               /\ resolved[ValueNode(at)] = Initialiser
               /\ heap[Initialiser].ref = ValueNode(at)

\* Statements that are behind: those with an error may wait for the second loop.
Excused(i) == phase = "first" \/ (phase = "second" /\ i > at)
Reached ==
  \A i \in DOMAIN Body :
    Promises(i) /\ i # at /\ (i < at \/ phase # "first") =>
      \/ Known(heap, resolved, ValueNode(i), DeclaredKind(i))
      \/ Excused(i) /\ Known(heap, resolved, ValueNode(i), "Error")

\* The check of the function is over, or was given up at a let statement.
Ended ==
  outcome = "done" =>
    \/ phase = "body"
    \/ phase = "second" /\ Evaluated /\ heap[Initialiser].kind = "Error"

LEMMA StatementIs ==
  ASSUME TypeOK, at \in DOMAIN Body
  PROVE  /\ Body[at].op \in {"let", "return", "expression"}
         /\ Args = Body[at].args /\ Operator = Body[at].operator
         /\ Body[at].op = "return" => Operator = "none" /\ Len(Args) = 1
         /\ Operator \in Assigns => Body[at].op = "expression"
         /\ Body[at].op = "expression" => Operator # "none"
         /\ Body[at].op = "let" => Operator \in {"none", "+", "==", "if"}
<1>1. Body[at] \in Statement /\ Args = Body[at].args /\ Operator = Body[at].operator
  BY ArgsAre DEF TypeOK
<1>2. Body[at].op = "return" => Operator = "none" /\ Len(Args) = 1
  <2>1. Len(Args) \in Arity(Body[at])
    BY <1>1, FunctionIs DEF WellFormed, Body, TypeOK
  <2> QED BY <1>1, <2>1 DEF Statement, Arity
<1>3. /\ Body[at].op \in {"let", "return", "expression"}
      /\ Body[at].op = "expression" => Operator # "none"
      /\ Body[at].op = "let" => Operator \in {"none", "+", "==", "if"}
  BY <1>1 DEF Statement
<1>4. Operator \in Assigns => Body[at].op = "expression"
  BY <1>1, <1>2, <1>3 DEF Assigns
<1> QED BY <1>1, <1>2, <1>3, <1>4

LEMMA TypedIs ==
  ASSUME NEW h, NEW ctx, Memory(h, ctx), NEW o \in DOMAIN h,
         NEW nodes \in Seq(NodeId), nodes # <<>>, Typed(h, ctx, nodes, o)
  PROVE  /\ Last(nodes) \in DOMAIN resolved' /\ resolved'[Last(nodes)] = o
         /\ heap'[o].ref = Last(nodes) /\ o \in DOMAIN heap'
<1>1. Last(nodes) \in NodeId /\ Last(nodes) \in Range(nodes)
  BY NodesAre
<1>2. PICK g, c : g = Refer(h, o, Last(nodes)) /\ c = Place(ctx, Range(nodes), o)
  OBVIOUS
<1>3. heap' = g /\ resolved' = c
  BY <1>2 DEF Typed, Refer, Place
<1>4. g[o].ref = Last(nodes) /\ DOMAIN g = DOMAIN h
  BY <1>1, <1>2, ReferMemory
<1>5. Last(nodes) \in DOMAIN c /\ c[Last(nodes)] = o
  BY <1>1, <1>2 DEF Place
<1> QED BY <1>3, <1>4, <1>5

\* Where the last node that gets a type is that of the value, it is current.
LEMMA TypedCurrent ==
  ASSUME TypeOK, NEW h, NEW ctx, Memory(h, ctx), NEW o \in DOMAIN h,
         NEW nodes \in Seq(NodeId), nodes # <<>>, Typed(h, ctx, nodes, o),
         Evaluated' => Last(nodes) = <<at, "value">>
  PROVE  Current'
<1> SUFFICES ASSUME Evaluated' PROVE /\ ValueNode(at') \in DOMAIN resolved'
                                     /\ resolved'[ValueNode(at')] = Initialiser'
                                     /\ heap'[Initialiser'].ref = ValueNode(at')
  BY DEF Current, Initialiser, ValueNode
<1>1. PICK v : v = <<at, "value">>
  OBVIOUS
<1>2. Last(nodes) = v /\ ValueNode(at') = v
  BY <1>1 DEF Typed, ValueNode
<1>3. v \in DOMAIN resolved' /\ resolved'[v] = o /\ heap'[o].ref = v
  BY <1>2, TypedIs
<1>4. Initialiser' = o
  <2>1. Len(Append(values, o)) = Len(values) + 1 /\ Append(values, o)[Len(values) + 1] = o
    BY AppendIs DEF TypeOK
  <2> QED BY <2>1 DEF Initialiser, Typed
<1> QED BY <1>2, <1>3, <1>4

LEMMA NotEvaluated ==
  ASSUME function' \in Functions, at' \in Nat,
         \/ values' = <<>>
         \/ at' \notin DOMAIN Body'
         \/ Body'[at'].op = "expression"
  PROVE  Current'
<1>1. PICK f, i, v : f = function' /\ i = at' /\ v = values'
  OBVIOUS
<1>2. CASE values' = <<>>
  <2>1. PICK A : A = Args'
    OBVIOUS
  <2>2. A \in Seq(Atom)
    <3>1. /\ f.body \in Seq(Statement) /\ f.trailing \in Seq(Atom)
      BY <1>1, InferenceAssumption DEF Function
    <3>2. A = IF i \in DOMAIN f.body THEN f.body[i].args ELSE f.trailing
      BY <1>1, <2>1 DEF Args, Body
    <3> QED BY <3>1, <3>2 DEF Statement
  <2>3. A # <<>> => Len(A) # 0 /\ Len(A) + 1 # 0
    BY <2>2, EmptySeq, LenProperties
  <2>4. Len(values') = 0
    BY <1>2
  <2> QED BY <2>1, <2>3, <2>4 DEF Current, Evaluated
<1>3. CASE at' \notin DOMAIN Body'
  BY <1>3 DEF Current, Evaluated
<1>4. CASE Body'[at'].op = "expression"
  BY <1>4 DEF Current, Evaluated
<1> QED BY <1>2, <1>3, <1>4

LEMMA CurrentStays ==
  ASSUME Current, UNCHANGED <<function, heap, resolved, at, values>>
  PROVE  Current'
BY DEF Current, Evaluated, Args, Operator, Body, Initialiser, ValueNode

LEMMA CurrentStep ==
  ASSUME TypeOK, Current, [Next]_vars
  PROVE  Current'
<1>0. /\ at \in Nat /\ function \in Functions /\ Len(values) \in Nat /\ Len(Args) \in Nat
      /\ values \in Seq(DOMAIN heap) /\ Memory(heap, resolved) /\ Sound(heap, resolved)
  BY ArgsAre, LenProperties DEF TypeOK, Sound
<1>1. function' \in Functions /\ at' \in Nat
  BY NextTypes DEF TypeOK
<1>2. ASSUME NextStatement PROVE Current'
  BY <1>1, <1>2, NotEvaluated DEF NextStatement
<1>3. ASSUME UNCHANGED <<function, heap, resolved, at, values>> PROVE Current'
  BY <1>3, CurrentStays
<1>4. ASSUME UNCHANGED <<function, at>>, at \notin DOMAIN Body \/ Operator \in Assigns PROVE Current'
  <2>1. Body' = Body /\ at' = at
    BY <1>4 DEF Body
  <2>2. at \in DOMAIN Body /\ Operator \in Assigns => Body[at].op = "expression"
    BY StatementIs
  <2> QED BY <1>1, <1>4, <2>1, <2>2, NotEvaluated
<1>5. ASSUME NEW h, NEW ctx, Memory(h, ctx), NEW o \in DOMAIN h, Len(values) < Len(Args),
             Typed(h, ctx, OperandNodes, o)
      PROVE  Current'
  <2>1. PICK nodes : nodes = OperandNodes
    OBVIOUS
  <2>2. nodes = Nodes(Len(values) + 1)
    BY <1>0, <1>5, <2>1, OperandNodesAre
  <2>3. nodes \in Seq(NodeId) /\ nodes # <<>>
    BY <1>0, <2>2, NodesOf
  <2>4. ASSUME Evaluated' PROVE Last(nodes) = <<at, "value">>
    <3>1. UNCHANGED <<Operator, Args>> /\ Len(values') = Len(values) + 1
      <4>1. Len(Append(values, o)) = Len(values) + 1
        BY <1>0, AppendIs
      <4> QED BY <1>5, <4>1 DEF Typed, Operator, Args, Body
    <3>2. Operator = "none"
      BY <1>0, <1>5, <2>4, <3>1 DEF Evaluated
    <3>3. PICK v : v = <<at, "value">>
      OBVIOUS
    <3>4. nodes = <<v>>
      BY <2>2, <3>2, <3>3 DEF Nodes
    <3>5. Last(<<v>>) = v
      BY DEF Last
    <3> QED BY <3>3, <3>4, <3>5
  <2> QED BY <1>5, <2>1, <2>3, <2>4, TypedCurrent
<1>6. ASSUME NEW h, NEW ctx, Memory(h, ctx), NEW o \in DOMAIN h, Evaluates(h, ctx, o)
      PROVE  Current'
  <2>1. CASE Body[at].op = "let"
    <3>1. PICK v : v = <<at, "value">>
      OBVIOUS
    <3>2. v \in NodeId
      BY <1>0, <3>1 DEF NodeId, Role
    <3>3. <<v>> \in Seq(NodeId) /\ <<v>> # <<>> /\ Last(<<v>>) = v
      BY <3>2 DEF Last
    <3>4. Typed(h, ctx, <<v>>, o)
      BY <1>6, <2>1, <3>1 DEF Evaluates
    <3> QED BY <1>6, <3>1, <3>3, <3>4, TypedCurrent
  <2>2. CASE Body[at].op # "let"
    BY <1>2, <1>6, <2>2 DEF Evaluates
  <2> QED BY <2>1, <2>2
<1>7. ASSUME NEW kind \in Kind, NEW m \in NodeId
      PROVE  /\ Memory(Allocate(heap, kind, m), resolved)
             /\ Len(heap) + 1 \in DOMAIN Allocate(heap, kind, m)
  <2>1. Len(heap) + 1 \in 1..(Len(heap) + 1)
    BY <1>0, LenProperties DEF Memory
  <2> QED BY <1>0, <2>1, AllocateMemory
<1>8. ASSUME NEW l \in DOMAIN heap, NEW r \in DOMAIN heap
      PROVE  /\ Memory(Unify(l, r).heap, Unify(l, r).resolved)
             /\ Unify(l, r).type \in DOMAIN Unify(l, r).heap
             /\ DOMAIN heap \subseteq DOMAIN Unify(l, r).heap
  BY <1>0, SoundUnify DEF Sound
<1>9. ASSUME NEW l, NEW r, Fails(l, r) PROVE Current'
  BY <1>3, <1>9 DEF Fails
<1>10. CASE IntegerLiteral
  <2>1. Len(values) < Len(Args)
    BY <1>10 DEF IntegerLiteral, Pending
  <2>2. PICK m : m = OperandNodes[1]
    OBVIOUS
  <2>3. m \in NodeId
    <3>1. OperandNodes \in Seq(NodeId) /\ OperandNodes # <<>>
      BY <1>0, <2>1, OperandNodesAre, NodesOf
    <3> QED BY <2>2, <3>1, EmptySeq
  <2>4. "Integral" \in Kind
    BY DEF Kind
  <2>5. PICK h : h = Allocate(heap, "Integral", m)
    OBVIOUS
  <2>6. Typed(h, resolved, OperandNodes, Len(heap) + 1)
    BY <1>10, <2>2, <2>5 DEF IntegerLiteral, Allocate
  <2>7. Memory(h, resolved) /\ Len(heap) + 1 \in DOMAIN h
    BY <1>7, <2>3, <2>4, <2>5
  <2> QED BY <1>5, <2>1, <2>6, <2>7
<1>11. CASE BooleanLiteral
  <2>1. BuiltinType("bool") \in DOMAIN heap
    BY SharedAre DEF Ground
  <2> QED BY <1>0, <1>5, <1>11, <2>1 DEF BooleanLiteral, Pending
<1>12. CASE Variable
  <2>1. PICK n : n = <<Argument.of, "pattern">>
    OBVIOUS
  <2>2. CASE n \in DOMAIN resolved /\ Typed(heap, resolved, OperandNodes, resolved[n])
    <3>1. resolved[n] \in DOMAIN heap
      BY <1>0, <2>2 DEF Memory
    <3> QED BY <1>0, <1>5, <1>12, <2>2, <3>1 DEF Variable, Pending
  <2>3. CASE UNCHANGED <<function, heap, resolved, phase, at, values>>
    BY <1>3, <2>3
  <2> QED BY <1>12, <2>1, <2>2, <2>3, Zenon DEF Variable
<1>13. CASE Sum \/ Comparison \/ If
  <2>1. /\ Operator \in {"+", "==", "if"} /\ Len(values) = Len(Args)
    BY <1>13 DEF Sum, Comparison, If, Operands
  <2>2. Len(Args) = IF Operator = "if" THEN 3 ELSE 2
    BY <1>0, <2>1, OperatorsHave
  <2>3. /\ values[1] \in DOMAIN heap /\ values[2] \in DOMAIN heap
        /\ Operator = "if" => values[3] \in DOMAIN heap
    BY <2>1, <2>2, ValuesAre
  <2>4. CASE Sum
    <3>1. PICK l \in DOMAIN heap : l = values[1]
      BY <2>3
    <3>2. CASE Evaluates(Unify(l, l).heap, Unify(l, l).resolved, Unify(l, l).type)
      BY <1>6, <1>8, <3>2
    <3>3. CASE Evaluates(Append(heap, Fresh("Error", <<at, "value">>)), resolved, Len(heap) + 1)
      <4>1. <<at, "value">> \in NodeId /\ "Error" \in Kind
        BY <1>0 DEF NodeId, Role, Kind
      <4>2. PICK h : h = Allocate(heap, "Error", <<at, "value">>)
        OBVIOUS
      <4>3. Evaluates(h, resolved, Len(heap) + 1)
        BY <3>3, <4>2 DEF Allocate
      <4> QED BY <1>6, <1>7, <4>1, <4>2, <4>3
    <3> QED BY <2>4, <3>1, <3>2, <3>3 DEF Sum
  <2>5. CASE Comparison
    <3>1. PICK l \in DOMAIN heap, r \in DOMAIN heap : l = values[1] /\ r = values[2]
      BY <2>3
    <3>2. CASE Evaluates(Unify(l, r).heap, Unify(l, r).resolved, BuiltinType("bool"))
      <4>1. BuiltinType("bool") \in DOMAIN Unify(l, r).heap
        BY <1>8, SharedAre DEF Ground
      <4> QED BY <1>6, <1>8, <3>2, <4>1
    <3> QED BY <1>9, <2>5, <3>1, <3>2 DEF Comparison
  <2>6. CASE If
    <3>1. PICK l \in DOMAIN heap, r \in DOMAIN heap : l = values[2] /\ r = values[3]
      BY <2>3, <2>6 DEF If, Operands
    <3>2. CASE Evaluates(Unify(l, r).heap, Unify(l, r).resolved, Unify(l, r).type)
      BY <1>6, <1>8, <3>2
    <3> QED BY <1>9, <2>6, <3>1, <3>2 DEF If
  <2> QED BY <1>13, <2>4, <2>5, <2>6
<1>14. CASE Assignment
  <2>1. Operator \in Assigns
    BY <1>14 DEF Assignment, Operands
  <2> QED BY <1>4, <1>9, <1>14, <2>1 DEF Assignment, Unifies
<1>15. CASE AssignmentAgain \/ Return
  BY <1>2, <1>9, <1>15 DEF AssignmentAgain, Return
<1>16. CASE LetError \/ LetCoerced \/ LetInferred \/ LetDeclared
  <2>1. LetError => NextStatement \/ UNCHANGED <<function, heap, resolved, at, values>>
    BY DEF LetError
  <2>2. LetCoerced => NextStatement \/ Fails(BuiltinType(Body[at].type), Initialiser)
    BY DEF LetCoerced, Declares
  <2>3. LetInferred \/ LetDeclared => NextStatement
    BY DEF LetInferred, LetDeclared, Declares
  <2> QED BY <1>2, <1>3, <1>9, <1>16, <2>1, <2>2, <2>3
<1>17. CASE Block \/ Coerce \/ CoerceAgain
  <2>1. at \notin DOMAIN Body
    BY <1>0, <1>17, ArgsAre DEF Block, Coerce, CoerceAgain, TypeOK, Control
  <2>2. UNCHANGED <<function, at>>
    BY <1>17 DEF Block, Coerce, CoerceAgain, Unifies, Fails
  <2> QED BY <1>4, <2>1, <2>2
<1>18. CASE UNCHANGED vars
  BY <1>3, <1>18 DEF vars
<1> QED BY <1>10, <1>11, <1>12, <1>13, <1>14, <1>15, <1>16, <1>17, <1>18 DEF Next

\* A type that is declared gets to the value, if the types can be unified.
LEMMA UnifyDelivers ==
  ASSUME TypeOK, Current, Evaluated, Initialiser \in DOMAIN heap,
         NEW l \in DOMAIN heap, heap[l].kind \in Builtin, Unifiable(heap[l], heap[Initialiser])
  PROVE  Known(Unify(l, Initialiser).heap, Unify(l, Initialiser).resolved, ValueNode(at), heap[l].kind)
<1>0. PICK r \in DOMAIN heap : r = Initialiser
  OBVIOUS
<1>1. PICK n, D : r = Initialiser /\ n = ValueNode(at) /\ D = heap[l].kind
  BY <1>0
<1>2. n \in DOMAIN resolved /\ resolved[n] = r /\ n \in Refs(heap[r])
  BY <1>1 DEF Current, Refs
<1>3. PICK u : u = Unify(l, r)
  OBVIOUS
<1>4. Unified(l, r, u)
  BY <1>3, UnifyIs DEF TypeOK, Sound
<1>5. UnifiableKinds(D, heap[r].kind) /\ D \in Builtin
  BY <1>1, UnifiableIs
<1>6. CASE Inferred(heap[r])
  <2>1. Outcome(D, heap[r].kind) = D
    BY <1>5, <1>6 DEF UnifiableKinds, Inferred, Outcome, HintedKind, Builtin, Ground, Integer
  <2>2. D # "General"
    BY <1>5 DEF Builtin, Ground, Integer
  <2>3. u.resolved[n] > Len(heap) /\ n \in DOMAIN u.resolved
    BY <1>1, <1>2, <1>4, <1>6, <2>1, <2>2 DEF Unified
  <2>4. u.resolved[n] \in DOMAIN u.heap
    BY <1>4, <2>3 DEF Unified, Memory
  <2>5. u.heap[u.resolved[n]].kind = D
    BY <1>1, <1>4, <2>1, <2>3, <2>4 DEF Unified
  <2> QED BY <1>1, <1>3, <2>3, <2>5 DEF Known
<1>7. CASE ~Inferred(heap[r])
  <2>1. heap[r].kind = D
    BY <1>5, <1>7 DEF UnifiableKinds, Inferred, Builtin, Ground, Integer
  <2>2. KnownIn(heap, resolved, u.heap, u.resolved, {})
    BY <1>3, UnifyKnown
  <2> QED BY <1>1, <1>2, <1>3, <1>7, <2>1, <2>2 DEF KnownIn
<1> QED BY <1>6, <1>7

LEMMA DeclaredKindIs ==
  ASSUME function \in Functions, NEW i \in DOMAIN Body, Promises(i)
  PROVE  DeclaredKind(i) \in Builtin
<1>1. Body[i] \in Statement /\ function.returns \in Builtin
  BY FunctionIs
<1>2. Body[i].op = "let" => Body[i].type \in Ground \cup {"none"}
  BY <1>1 DEF Statement
<1> QED BY <1>1, <1>2 DEF Promises, DeclaredKind, Builtin

\* What is known of the statements but the one that is checked stays.
LEMMA ReachedStays ==
  ASSUME TypeOK, KnownStays, NEW i \in DOMAIN Body, i # at, NEW kind,
         kind \in Builtin \cup {"Error"}, Known(heap, resolved, ValueNode(i), kind)
  PROVE  Known(heap', resolved', ValueNode(i), kind)
<1>1. kind \notin {"General", "Integral"}
  BY DEF Builtin, Ground, Integer
<1>2. PICK n : n = ValueNode(i)
  OBVIOUS
<1>3. n \in DOMAIN resolved /\ heap[resolved[n]].kind = kind /\ n[1] # at
  BY <1>2 DEF Known, ValueNode
<1> QED BY <1>1, <1>2, <1>3 DEF KnownStays, Inferred

\* The function, and what it declares, stay.
LEMMA DeclaredStays ==
  ASSUME UNCHANGED function
  PROVE  /\ Body' = Body
         /\ \A i : Promises(i)' <=> Promises(i)
         /\ \A i : DeclaredKind(i)' = DeclaredKind(i)
BY DEF Body, Promises, DeclaredKind

LEMMA SameStatementReached ==
  ASSUME TypeOK, Reached, KnownStays, UNCHANGED <<function, phase, at>>
  PROVE  Reached'
<1>0. function \in Functions
  BY DEF TypeOK
<1> SUFFICES ASSUME NEW i \in DOMAIN Body, Promises(i), i # at, i < at \/ phase # "first"
             PROVE  \/ Known(heap', resolved', ValueNode(i), DeclaredKind(i))
                    \/ Excused(i) /\ Known(heap', resolved', ValueNode(i), "Error")
  BY DeclaredStays DEF Reached, Known, ValueNode, Excused
<1>1. \/ Known(heap, resolved, ValueNode(i), DeclaredKind(i))
      \/ Excused(i) /\ Known(heap, resolved, ValueNode(i), "Error")
  BY DEF Reached
<1> QED BY <1>0, <1>1, DeclaredKindIs, ReachedStays

LEMMA NextStatementReached ==
  ASSUME TypeOK, Reached, KnownStays, UNCHANGED function, NextStatement, at \in DOMAIN Body,
         Promises(at) =>
           \/ Known(heap', resolved', ValueNode(at), DeclaredKind(at))
           \/ phase = "first" /\ Known(heap', resolved', ValueNode(at), "Error")
  PROVE  Reached'
<1>0. function \in Functions /\ Len(Body) \in Nat /\ DOMAIN Body = 1..Len(Body) /\ at \in Nat
      /\ phase \in {"first", "second"}
  BY ArgsAre DEF TypeOK, Control
<1> DEFINE Later(i) == phase' = "first" \/ (phase' = "second" /\ i > at')
<1> SUFFICES ASSUME NEW i \in DOMAIN Body, Promises(i), i # at', i < at' \/ phase' # "first"
             PROVE  \/ Known(heap', resolved', ValueNode(i), DeclaredKind(i))
                    \/ Later(i) /\ Known(heap', resolved', ValueNode(i), "Error")
  BY DeclaredStays DEF Reached, Known, ValueNode, Excused
<1>1. CASE i = at
  <2>1. phase = "first" => Later(i)
    <3>1. CASE phase' = "first"
      BY <3>1
    <3>2. CASE phase' = "second" /\ at' = 1
      <4>1. i # 1 /\ i \in 1..Len(Body)
        BY <1>0, <3>2
      <4> QED BY <1>0, <3>2, <4>1
    <3> QED BY <3>1, <3>2 DEF NextStatement
  <2> QED BY <1>1, <2>1
<1>2. CASE i # at
  <2>1. i < at \/ phase # "first"
    BY <1>0, <1>2 DEF NextStatement
  <2>2. \/ Known(heap, resolved, ValueNode(i), DeclaredKind(i))
        \/ Excused(i) /\ Known(heap, resolved, ValueNode(i), "Error")
    BY <1>2, <2>1 DEF Reached
  <2>3. Excused(i) => Later(i)
    BY <1>0, <1>2 DEF NextStatement, Excused
  <2> QED BY <1>0, <1>2, <2>2, <2>3, DeclaredKindIs, ReachedStays
<1> QED BY <1>1, <1>2

\* At the end of a statement, its value has the type it declares.
LEMMA LetReached ==
  ASSUME TypeOK, Current, Reached, KnownStays, LetError \/ LetCoerced \/ LetInferred \/ LetDeclared
  PROVE  Reached'
<1>0. at \in DOMAIN Body /\ Args = Body[at].args /\ Operator = Body[at].operator /\ Body[at].op = "let"
      /\ function \in Functions
  <2>1. at \in DOMAIN Body /\ at \in Lets
    BY AtLetIs DEF LetError, LetCoerced, LetInferred, LetDeclared
  <2> QED BY <2>1, StatementIs DEF Lets, TypeOK
<1>1. AtLet(TRUE) => Evaluated /\ Initialiser \in DOMAIN heap
  BY <1>0, AtLetIs DEF Evaluated, AtLet
<1>2. CASE LetError
  <2>1. CASE phase = "first" /\ NextStatement /\ UNCHANGED <<function, heap, resolved, outcome>>
    <3>1. AtLet(TRUE) /\ heap[Initialiser].kind = "Error"
      BY <1>2 DEF LetError
    <3>2. Known(heap, resolved, ValueNode(at), "Error")
      BY <1>1, <3>1 DEF Current, Known
    <3>3. PICK n : n = ValueNode(at)
      OBVIOUS
    <3>4. Known(heap', resolved', n, "Error")
      BY <2>1, <3>2, <3>3 DEF Known
    <3> QED BY <1>0, <2>1, <3>3, <3>4, NextStatementReached
  <2>2. CASE UNCHANGED <<function, heap, resolved, phase, at, values>>
    BY <2>2, SameStatementReached
  <2> QED BY <1>2, <2>1, <2>2 DEF LetError
<1>3. CASE LetCoerced
  <2>1. AtLet(TRUE) /\ Body[at].type \in Ground
    BY <1>3, AtLetIs DEF LetCoerced, Specified
  <2>2. PICK e \in DOMAIN heap : e = BuiltinType(Body[at].type) /\ heap[e].kind = Body[at].type
    BY <2>1, SharedAre
  <2>3. CASE Fails(e, Initialiser)
    BY <2>3, NothingKnown, SameStatementReached DEF Fails
  <2>4. CASE /\ Unifiable(heap[e], heap[Initialiser])
             /\ Declares(Unify(e, Initialiser).heap, Unify(e, Initialiser).resolved, e)
    <3>1. PICK h, ctx, n, m : /\ h = Unify(e, Initialiser).heap /\ ctx = Unify(e, Initialiser).resolved
                              /\ n = ValueNode(at) /\ m = <<at, "pattern">>
      OBVIOUS
    <3>2. Known(h, ctx, n, Body[at].type)
      BY <1>1, <2>1, <2>2, <2>4, <3>1, UnifyDelivers DEF Builtin
    <3>3. heap' = h /\ resolved' = Insert(ctx, m, e) /\ NextStatement /\ UNCHANGED function
      BY <2>4, <3>1 DEF Declares
    <3>4. n # m
      BY <3>1 DEF ValueNode
    <3>5. Known(heap', resolved', n, Body[at].type)
      BY <3>2, <3>3, <3>4 DEF Known, Insert
    <3>6. DeclaredKind(at) = Body[at].type
      BY <1>0 DEF DeclaredKind
    <3> QED BY <1>0, <3>1, <3>3, <3>5, <3>6, NextStatementReached
  <2> QED BY <1>3, <2>2, <2>3, <2>4 DEF LetCoerced
<1>4. CASE LetInferred \/ LetDeclared
  <2>1. ~Promises(at)
    <3>1. LetInferred => Body[at].type = "none"
      BY DEF LetInferred, Specified
    <3>2. LetDeclared => Args = <<>>
      BY DEF LetDeclared, AtLet
    <3> QED BY <1>0, <1>4, <3>1, <3>2 DEF Promises, DeclaredKind
  <2>2. NextStatement /\ UNCHANGED function
    BY <1>4 DEF LetInferred, LetDeclared, Declares
  <2> QED BY <1>0, <2>1, <2>2, NextStatementReached
<1> QED BY <1>2, <1>3, <1>4

LEMMA ReturnReached ==
  ASSUME TypeOK, Current, Reached, KnownStays, Return
  PROVE  Reached'
<1>1. at \in DOMAIN Body /\ Body[at].op = "return" /\ Len(values) = 1
  BY ArgsAre DEF Return, TypeOK, Control
<1>2. Args # <<>> /\ Operator = "none" /\ Len(Args) = 1
  <2>1. Operator = "none" /\ Len(Args) = 1 /\ Len(<<>>) = 0
    BY <1>1, StatementIs
  <2> QED BY <2>1
<1>3. Evaluated /\ Initialiser = values[1]
  BY <1>1, <1>2 DEF Evaluated, Initialiser
<1>4. PICK r \in DOMAIN heap, l \in DOMAIN heap :
        r = values[1] /\ l = ReturnType /\ heap[l].kind = function.returns
  BY <1>1, SharedAre, ValuesAre DEF TypeOK, Sound
<1>5. CASE Fails(l, r)
  BY <1>5, NothingKnown, SameStatementReached DEF Fails
<1>6. CASE Unifies(l, r) /\ NextStatement
  <2>1. function.returns \in Builtin /\ DeclaredKind(at) = function.returns
    BY <1>1, FunctionIs DEF DeclaredKind, TypeOK
  <2>2. Known(Unify(l, r).heap, Unify(l, r).resolved, ValueNode(at), function.returns)
    BY <1>3, <1>4, <1>6, <2>1, UnifyDelivers DEF Unifies
  <2>3. PICK n, D : n = ValueNode(at) /\ D = function.returns
    OBVIOUS
  <2>4. Known(heap', resolved', n, D)
    BY <1>6, <2>2, <2>3 DEF Unifies
  <2> QED BY <1>1, <1>6, <2>1, <2>3, <2>4, NextStatementReached DEF Unifies
<1> QED BY <1>4, <1>5, <1>6 DEF Return

LEMMA ReachedStep ==
  ASSUME TypeOK, Current, Reached, [Next]_vars
  PROVE  Reached'
<1>0. KnownStays /\ at \in Nat /\ function \in Functions
  BY StepKnown DEF TypeOK
<1>1. ASSUME UNCHANGED <<function, phase, at>> PROVE Reached'
  BY <1>0, <1>1, SameStatementReached
<1>2. ASSUME NextStatement, at \in DOMAIN Body, UNCHANGED function, Body[at].op = "expression"
      PROVE  Reached'
  <2>1. ~Promises(at)
    BY <1>2 DEF Promises
  <2> QED BY <1>0, <1>2, <2>1, NextStatementReached
<1>3. CASE IntegerLiteral \/ BooleanLiteral \/ Variable
  BY <1>1, <1>3 DEF IntegerLiteral, BooleanLiteral, Variable, Typed
<1>4. CASE Sum \/ Comparison \/ If
  <2>1. Operator \in {"+", "==", "if"}
    BY <1>4 DEF Sum, Comparison, If, Operands
  <2>2. at \in DOMAIN Body
    BY <1>0, <2>1, OperatorsHave
  <2>3. Body[at].op \in {"let", "expression"}
    BY <2>1, <2>2, StatementIs
  <2>4. ASSUME NEW h, NEW ctx, NEW o, Evaluates(h, ctx, o) PROVE Reached'
    BY <1>1, <1>2, <2>2, <2>3, <2>4 DEF Evaluates, Typed
  <2>5. ASSUME NEW l, NEW r, Fails(l, r) PROVE Reached'
    BY <1>1, <2>5 DEF Fails
  <2> QED BY <1>4, <2>4, <2>5 DEF Sum, Comparison, If
<1>5. CASE Assignment
  BY <1>1, <1>5 DEF Assignment, Unifies, Fails
<1>6. CASE AssignmentAgain
  <2>1. Operator \in Assigns /\ NextStatement /\ UNCHANGED function
    BY <1>6 DEF AssignmentAgain, Unifies
  <2>2. at \in DOMAIN Body
    BY <1>0, <2>1, OperatorsHave DEF Assigns
  <2>3. Body[at].op = "expression"
    BY <2>1, <2>2, StatementIs
  <2> QED BY <1>2, <2>1, <2>2, <2>3
<1>7. CASE Return
  BY <1>0, <1>7, ReturnReached
<1>8. CASE LetError \/ LetCoerced \/ LetInferred \/ LetDeclared
  BY <1>0, <1>8, LetReached
<1>9. CASE Block
  <2>1. phase = "trailing" /\ at = Len(Body) + 1
    BY <1>0, <1>9, ArgsAre DEF Block, TypeOK, Control
  <2>2. UNCHANGED <<function, at>> /\ phase' \in {"trailing", "body"}
    BY <1>9, <2>1 DEF Block
  <2>3. ASSUME NEW i \in DOMAIN Body, Promises(i), i # at
        PROVE  Known(heap', resolved', ValueNode(i), DeclaredKind(i))
    <3>1. Known(heap, resolved, ValueNode(i), DeclaredKind(i))
      BY <2>1, <2>3 DEF Reached, Excused
    <3> QED BY <1>0, <2>3, <3>1, DeclaredKindIs, ReachedStays
  <2> QED BY <2>2, <2>3, DeclaredStays DEF Reached, Known, ValueNode
<1>10. CASE Coerce \/ CoerceAgain
  BY <1>1, <1>10 DEF Coerce, CoerceAgain, Unifies, Fails
<1>11. CASE UNCHANGED vars
  BY <1>1, <1>11 DEF vars
<1> QED BY <1>3, <1>4, <1>5, <1>6, <1>7, <1>8, <1>9, <1>10, <1>11 DEF Next

LEMMA EndedStep ==
  ASSUME TypeOK, Ended, [Next]_vars
  PROVE  Ended'
<1>1. ASSUME outcome' # "done" PROVE Ended'
  BY <1>1 DEF Ended
<1>2. CASE outcome = "running" /\ outcome' = outcome
  BY <1>1, <1>2
<1>3. CASE LetError
  <2>1. CASE UNCHANGED <<function, heap, resolved, phase, at, values>> /\ phase = "second"
    <3>1. at \in DOMAIN Body /\ at \in Lets /\ Args # <<>>
      BY <1>3, AtLetIs DEF LetError
    <3>2. Evaluated /\ heap[Initialiser].kind = "Error"
      BY <1>3, <3>1 DEF LetError, AtLet, Evaluated, Lets
    <3>3. (phase = "second" /\ Evaluated /\ heap[Initialiser].kind = "Error")'
      BY <2>1, <3>2 DEF Evaluated, Initialiser, Args, Operator, Body
    <3> QED BY <3>3 DEF Ended
  <2>2. CASE UNCHANGED outcome
    BY <1>2, <1>3, <2>2 DEF LetError, AtLet
  <2> QED BY <1>3, <2>1, <2>2 DEF LetError
<1>4. CASE CoerceAgain
  BY <1>4 DEF CoerceAgain, Ended
<1>5. CASE UNCHANGED vars
  BY <1>5 DEF vars, Ended, Evaluated, Initialiser, Args, Operator, Body
<1>6. CASE IntegerLiteral \/ BooleanLiteral \/ Variable
  BY <1>1, <1>2, <1>6 DEF IntegerLiteral, BooleanLiteral, Variable, Pending, Typed
<1>7. CASE Sum \/ Comparison \/ If
  <2>1. ASSUME NEW h, NEW ctx, NEW o, Evaluates(h, ctx, o) PROVE UNCHANGED outcome
    BY <2>1 DEF Evaluates, Typed
  <2> QED BY <1>1, <1>2, <1>7, <2>1 DEF Sum, Comparison, If, Operands, Fails
<1>8. CASE Assignment \/ AssignmentAgain \/ Return \/ Coerce
  BY <1>1, <1>2, <1>8 DEF Assignment, AssignmentAgain, Return, Coerce, Operands, Unifies, Fails
<1>9. CASE LetCoerced \/ LetInferred \/ LetDeclared
  BY <1>1, <1>2, <1>9 DEF LetCoerced, LetInferred, LetDeclared, AtLet, Declares, Fails
<1>10. CASE Block
  BY <1>1, <1>2, <1>10 DEF Block
<1> QED BY <1>3, <1>4, <1>5, <1>6, <1>7, <1>8, <1>9, <1>10 DEF Next

LEMMA ReachIs == TypeOK /\ Current /\ Reached /\ Ended => DeclaredTypesReach
<1> SUFFICES ASSUME TypeOK, Current, Reached, Ended, outcome = "done",
                    NEW i \in DOMAIN Body, Promises(i)
             PROVE  \/ heap[resolved[ValueNode(i)]].kind = DeclaredKind(i)
                    \/ phase = "second" /\ heap[resolved[ValueNode(i)]].kind = "Error"
  BY DEF DeclaredTypesReach, Promises, DeclaredKind, ValueNode
<1>1. CASE i = at
  <2>1. phase \in {"first", "second"}
    BY <1>1, ArgsAre DEF TypeOK, Control
  <2> QED BY <1>1, <2>1 DEF Ended, Current
<1>2. CASE i # at
  <2>1. phase # "first"
    BY DEF Ended
  <2> QED BY <1>2, <2>1 DEF Reached, Known, Excused
<1> QED BY <1>1, <1>2

\* For every function, the type that a let statement or the function declares is
\* the type of the initialiser, or of what is returned, when the check of the
\* function ends; unless it was given up in the second loop, for an error.
THEOREM DeclaredAlwaysReach == Spec => []DeclaredTypesReach
<1> DEFINE I == Current /\ Reached /\ Ended
<1>1. Init => I
  <2> SUFFICES ASSUME Init PROVE I
    OBVIOUS
  <2>1. TypeOK
    BY InitTyped
  <2>2. values = <<>> /\ Len(values) = 0 /\ outcome = "running" /\ at = 1
    BY DEF Init
  <2>3. Current
    <3>1. Args # <<>> => Len(Args) # 0 /\ Len(Args) + 1 # 0
      BY <2>1, ArgsAre, EmptySeq DEF TypeOK
    <3> QED BY <2>2, <3>1 DEF Current, Evaluated
  <2>4. Reached
    <3>1. DOMAIN Body = 1..Len(Body) /\ Len(Body) \in Nat
      BY <2>1, ArgsAre DEF TypeOK
    <3>2. Body = <<>> => DOMAIN Body = {}
      BY <3>1
    <3> QED BY <2>2, <3>1, <3>2 DEF Reached, Init
  <2> QED BY <2>2, <2>3, <2>4 DEF Ended
<1>2. TypeOK /\ I /\ [Next]_vars => I'
  BY CurrentStep, ReachedStep, EndedStep
<1>3. TypeOK /\ I => DeclaredTypesReach
  BY ReachIs
<1> QED BY <1>1, <1>2, <1>3, TypeCorrect, PTL DEF Spec

-----------------------------------------------------------------------------
(* What the nodes of a function are in its typings *)

\* Where several types are possible, as for a comparison of literals, the nodes
\* that are unified have the same.
TypeOf(typing, n) == CHOOSE t \in NodeTypes(typing, n) : TRUE

Named == {"pattern", "value", "left", "right", "condition", "then", "else",
          "thenBlock", "elseBlock"}
Of(typing, n, g) == n[2] \in Named => NodeTypes(typing, n) # {} /\ g = TypeOf(typing, n)

\* The types of the operands of statement i, and of its branches.
Sides(typing, i) ==
  LET s == Body[i]
  IN  {t \in OperandTypes(typing, s.args) :
         /\ s.operator = "+" => t \in (IF s.op = "let" THEN {typing[i]} ELSE Integer)
         /\ s.operator = "+=" => t \in Integer}
Branches(typing, i) ==
  LET s == Body[i]
  IN  IF s.op = "let" THEN {typing[i]} ELSE OperandTypes(typing, Tail(s.args))

LEMMA NodeTypesAre ==
  ASSUME NEW typing, NEW i
  PROVE  /\ NodeTypes(typing, <<i, "pattern">>) = {typing[i]}
         /\ i \in Lets => NodeTypes(typing, <<i, "value">>) = {typing[i]}
         /\ i \notin Lets => NodeTypes(typing, <<i, "value">>) = {function.returns}
         /\ NodeTypes(typing, <<i, "left">>) = Sides(typing, i)
         /\ NodeTypes(typing, <<i, "right">>) = Sides(typing, i)
         /\ NodeTypes(typing, <<i, "condition">>) = {"bool"}
         /\ NodeTypes(typing, <<i, "then">>) = Branches(typing, i)
         /\ NodeTypes(typing, <<i, "else">>) = Branches(typing, i)
         /\ NodeTypes(typing, <<i, "thenBlock">>) = Branches(typing, i)
         /\ NodeTypes(typing, <<i, "elseBlock">>) = Branches(typing, i)
<1>1. \A r : <<i, r>>[1] = i /\ <<i, r>>[2] = r
  OBVIOUS
<1>2. PICK v, p, l, r, c, t, e, tb, eb :
         /\ v = <<i, "value">> /\ c = <<i, "condition">> /\ t = <<i, "then">>
         /\ e = <<i, "else">> /\ tb = <<i, "thenBlock">> /\ eb = <<i, "elseBlock">>
         /\ l = <<i, "left">> /\ r = <<i, "right">> /\ p = <<i, "pattern">>
  OBVIOUS
<1>3. /\ v[1] = i /\ c[1] = i /\ t[1] = i /\ e[1] = i /\ tb[1] = i /\ eb[1] = i /\ l[1] = i
      /\ r[1] = i /\ p[1] = i
  BY <1>1, <1>2
<1>4. v[2] = "value" /\ c[2] = "condition" /\ t[2] = "then" /\ e[2] = "else" /\ tb[2] = "thenBlock"
  BY <1>1, <1>2
<1>5. eb[2] = "elseBlock" /\ l[2] = "left" /\ r[2] = "right" /\ p[2] = "pattern"
  BY <1>1, <1>2
<1>6. NodeTypes(typing, p) = {typing[i]}
  BY <1>3, <1>5, Zenon DEF NodeTypes
<1>7. i \in Lets => NodeTypes(typing, v) = {typing[i]}
  BY <1>3, <1>4, Zenon DEF NodeTypes
<1>8. i \notin Lets => NodeTypes(typing, v) = {function.returns}
  BY <1>3, <1>4, Zenon DEF NodeTypes
<1>9. NodeTypes(typing, l) = Sides(typing, i)
  BY <1>3, <1>5, Zenon DEF NodeTypes, Sides
<1>10. NodeTypes(typing, r) = Sides(typing, i)
  BY <1>3, <1>5, Zenon DEF NodeTypes, Sides
<1>11. NodeTypes(typing, c) = {"bool"}
  BY <1>3, <1>4, Zenon DEF NodeTypes
<1>12. NodeTypes(typing, t) = Branches(typing, i)
  BY <1>3, <1>4, Zenon DEF NodeTypes, Branches
<1>13. NodeTypes(typing, e) = Branches(typing, i)
  BY <1>3, <1>4, Zenon DEF NodeTypes, Branches
<1>14. NodeTypes(typing, tb) = Branches(typing, i)
  BY <1>3, <1>4, Zenon DEF NodeTypes, Branches
<1>15. NodeTypes(typing, eb) = Branches(typing, i)
  BY <1>3, <1>5, Zenon DEF NodeTypes, Branches
<1> QED BY <1>2, <1>6, <1>7, <1>8, <1>9, <1>10, <1>11, <1>12, <1>13, <1>14, <1>15, Zenon

LEMMA TypingIs ==
  ASSUME NEW typing \in Typings
  PROVE  /\ \A i \in Lets : typing[i] \in Ground /\ i \in DOMAIN Body
         /\ \A i \in Lets : Body[i].args # <<>> => typing[i] \in Types(typing, Body[i])
         /\ \A i \in Lets : Body[i].type # "none" => typing[i] = Body[i].type
         /\ \A i \in DOMAIN Body :
              Body[i].op = "return" => function.returns \in Types(typing, Body[i])
         /\ \A i \in DOMAIN Body :
              Body[i].op \notin {"let", "return"} => Types(typing, Body[i]) # {}
         /\ IF function.trailing = <<>> THEN function.returns = "()" \/ HasReturn
            ELSE function.returns \in OperandTypes(typing, function.trailing)
<1>1. typing \in [Lets -> Ground] /\ IsTyping(typing)
  BY DEF Typings
<1>2. \A i \in Lets : i \in DOMAIN Body /\ Body[i].op = "let"
  BY DEF Lets
<1>3. ASSUME NEW i \in DOMAIN Body
      PROVE  CASE Body[i].op = "let" ->
                    /\ Body[i].args # <<>> => typing[i] \in Types(typing, Body[i])
                    /\ Body[i].type # "none" => typing[i] = Body[i].type
               [] Body[i].op = "return" -> function.returns \in Types(typing, Body[i])
               [] OTHER -> Types(typing, Body[i]) # {}
  BY <1>1, Zenon DEF IsTyping
<1>4. ASSUME NEW i \in Lets
      PROVE  /\ Body[i].args # <<>> => typing[i] \in Types(typing, Body[i])
             /\ Body[i].type # "none" => typing[i] = Body[i].type
  BY <1>2, <1>3
<1>5. ASSUME NEW i \in DOMAIN Body
      PROVE  /\ Body[i].op = "return" => function.returns \in Types(typing, Body[i])
             /\ Body[i].op \notin {"let", "return"} => Types(typing, Body[i]) # {}
  BY <1>3
<1>6. IF function.trailing = <<>> THEN function.returns = "()" \/ HasReturn
      ELSE function.returns \in OperandTypes(typing, function.trailing)
  BY <1>1, Zenon DEF IsTyping
<1>7. \A i \in Lets : typing[i] \in Ground
  BY <1>1
<1> QED BY <1>2, <1>4, <1>5, <1>6, <1>7, Zenon

LEMMA TypesAre ==
  ASSUME NEW typing, NEW s
  PROVE  /\ s.operator = "none" => Types(typing, s) = OperandTypes(typing, s.args)
         /\ s.operator = "+" => Types(typing, s) = OperandTypes(typing, s.args) \cap Integer
         /\ s.operator = "if" /\ HasType(typing, s.args[1], "bool") =>
              Types(typing, s) = OperandTypes(typing, Tail(s.args))
         /\ s.operator = "if" /\ ~HasType(typing, s.args[1], "bool") => Types(typing, s) = {}
         /\ s.operator = "+=" /\ Types(typing, s) # {} => OperandTypes(typing, s.args) \cap Integer # {}
         /\ s.operator \in {"==", "="} /\ Types(typing, s) # {} => OperandTypes(typing, s.args) # {}
         /\ s.operator = "==" => Types(typing, s) \subseteq {"bool"}
<1>1. PICK o : o = s.operator
  OBVIOUS
<1>2. CASE o = "none"
  BY <1>1, <1>2 DEF Types
<1>3. CASE o = "+"
  BY <1>1, <1>3 DEF Types
<1>4. CASE o = "if"
  BY <1>1, <1>4 DEF Types
<1>5. CASE o = "+="
  BY <1>1, <1>5 DEF Types
<1>6. CASE o \in {"==", "="}
  BY <1>1, <1>6 DEF Types
<1>7. CASE o \notin {"none", "+", "if", "+=", "==", "="}
  BY <1>1, <1>7
<1> QED BY <1>2, <1>3, <1>4, <1>5, <1>6, <1>7

\* What a typing says of the statement that is checked.
LEMMA StatementTypes ==
  ASSUME TypeOK, at \in DOMAIN Body, Args # <<>>, NEW typing \in Typings
  PROVE  /\ Operator = "none" =>
              (IF at \in Lets THEN typing[at] ELSE function.returns) \in OperandTypes(typing, Args)
         /\ Operator = "if" => /\ HasType(typing, Args[1], "bool")
                               /\ Branches(typing, at) # {}
                               /\ Branches(typing, at) \subseteq OperandTypes(typing, Tail(Args))
                               /\ at \in Lets => Branches(typing, at) = {typing[at]}
         /\ Operator \in {"+", "==", "=", "+="} =>
              /\ Sides(typing, at) # {}
              /\ Sides(typing, at) \subseteq OperandTypes(typing, Args)
         /\ Operator = "+" => /\ Sides(typing, at) \subseteq Integer
                              /\ at \in Lets => Sides(typing, at) = {typing[at]}
         /\ Operator = "+=" => Sides(typing, at) \subseteq Integer
         /\ Operator = "==" /\ at \in Lets => typing[at] = "bool"
<1>1. PICK s : s = Body[at]
  OBVIOUS
<1>2. /\ s.args = Args /\ s.operator = Operator /\ s.op \in {"let", "return", "expression"}
      /\ s.op = "return" => Operator = "none"
      /\ s.op = "expression" => Operator # "none"
      /\ at \in Lets <=> s.op = "let"
  BY <1>1, StatementIs DEF Lets
<1>3. /\ at \in Lets => typing[at] \in Types(typing, s)
      /\ s.op = "return" => function.returns \in Types(typing, s)
      /\ s.op = "expression" => Types(typing, s) # {}
  <2>1. /\ \A i \in Lets : Body[i].args # <<>> => typing[i] \in Types(typing, Body[i])
        /\ \A i \in DOMAIN Body :
              Body[i].op = "return" => function.returns \in Types(typing, Body[i])
        /\ \A i \in DOMAIN Body :
              Body[i].op \notin {"let", "return"} => Types(typing, Body[i]) # {}
    BY TypingIs
  <2> QED BY <1>1, <1>2, <2>1
<1>4. Types(typing, s) # {}
  BY <1>2, <1>3
<1>5. Sides(typing, at) = {t \in OperandTypes(typing, Args) :
         /\ Operator = "+" => t \in (IF at \in Lets THEN {typing[at]} ELSE Integer)
         /\ Operator = "+=" => t \in Integer}
  BY <1>1, <1>2 DEF Sides
<1>6. Branches(typing, at) = IF at \in Lets THEN {typing[at]} ELSE OperandTypes(typing, Tail(Args))
  BY <1>1, <1>2 DEF Branches
<1>7. CASE Operator = "none"
  <2>1. Types(typing, s) = OperandTypes(typing, Args)
    BY <1>2, <1>7, TypesAre
  <2> QED BY <1>2, <1>3, <1>7, <2>1
<1>8. CASE Operator = "if"
  <2>1. HasType(typing, Args[1], "bool") /\ Types(typing, s) = OperandTypes(typing, Tail(Args))
    BY <1>2, <1>4, <1>8, TypesAre
  <2> QED BY <1>3, <1>4, <1>6, <1>8, <2>1
<1>9. CASE Operator = "+"
  <2>1. Types(typing, s) = OperandTypes(typing, Args) \cap Integer
    BY <1>2, <1>9, TypesAre
  <2> QED BY <1>3, <1>4, <1>5, <1>9, <2>1
<1>10. CASE Operator = "+="
  <2>1. OperandTypes(typing, Args) \cap Integer # {}
    BY <1>2, <1>4, <1>10, TypesAre
  <2> QED BY <1>5, <1>10, <2>1
<1>11. CASE Operator \in {"==", "="}
  <2>1. OperandTypes(typing, Args) # {} /\ (Operator = "==" => Types(typing, s) \subseteq {"bool"})
    BY <1>2, <1>4, <1>11, TypesAre
  <2> QED BY <1>3, <1>5, <1>11, <2>1
<1>12. CASE Operator \notin {"none", "if", "+", "+=", "==", "="}
  BY <1>12
<1> QED BY <1>7, <1>8, <1>9, <1>10, <1>11, <1>12

\* The type, in a typing, of the k-th value: that of an operand, or that of the
\* operation.
Value(typing, k) ==
  IF at \notin DOMAIN Body THEN function.returns
  ELSE IF k <= Len(Args) THEN TypeOf(typing, Nodes(k)[1])
  ELSE IF at \in Lets THEN typing[at] ELSE TypeOf(typing, <<at, "left">>)

LEMMA OfOnly ==
  ASSUME NEW typing, NEW n, NEW t, NodeTypes(typing, n) = {t}
  PROVE  Of(typing, n, t) /\ TypeOf(typing, n) = t
<1>1. TypeOf(typing, n) \in NodeTypes(typing, n)
  BY DEF TypeOf
<1> QED BY <1>1 DEF Of

LEMMA OfSame ==
  ASSUME NEW typing, NEW n, NEW m, NodeTypes(typing, n) = NodeTypes(typing, m),
         NodeTypes(typing, n) # {}
  PROVE  /\ TypeOf(typing, n) = TypeOf(typing, m) /\ TypeOf(typing, n) \in NodeTypes(typing, n)
         /\ Of(typing, n, TypeOf(typing, n)) /\ Of(typing, m, TypeOf(typing, n))
<1>1. PICK T : T = NodeTypes(typing, n)
  OBVIOUS
<1>2. TypeOf(typing, n) = (CHOOSE t \in T : TRUE) /\ TypeOf(typing, m) = (CHOOSE t \in T : TRUE)
  BY <1>1, Zenon DEF TypeOf
<1>3. (CHOOSE t \in T : TRUE) \in T
  BY <1>1
<1> QED BY <1>1, <1>2, <1>3 DEF Of

LEMMA OperandTypesHave ==
  ASSUME NEW typing, NEW A, NEW t \in OperandTypes(typing, A)
  PROVE  t \in Ground /\ \A i \in DOMAIN A : HasType(typing, A[i], t)
BY DEF OperandTypes

\* The operands of a sum, a comparison or an assignment have one type.
LEMMA SidesMean ==
  ASSUME TypeOK, Operator \in {"+", "==", "=", "+="}, NEW typing \in Typings
  PROVE  /\ at \in DOMAIN Body /\ Len(Args) = 2 /\ Args # <<>>
         /\ Value(typing, 1) \in Sides(typing, at)
         /\ Value(typing, 2) = Value(typing, 1)
         /\ Operator \in Assigns => Value(typing, 3) = Value(typing, 1)
         /\ Of(typing, <<at, "left">>, Value(typing, 1))
         /\ Of(typing, <<at, "right">>, Value(typing, 1))
<1>1. at \in DOMAIN Body /\ Len(Args) = 2
  BY OperatorsHave DEF TypeOK
<1>2. Args # <<>>
  <2>1. Len(<<>>) = 0
    OBVIOUS
  <2> QED BY <1>1, <2>1
<1>3. Sides(typing, at) # {}
  BY <1>1, <1>2, StatementTypes
<1>4. PICK l, r : l = <<at, "left">> /\ r = <<at, "right">>
  OBVIOUS
<1>5. NodeTypes(typing, l) = Sides(typing, at) /\ NodeTypes(typing, r) = Sides(typing, at)
  BY <1>4, NodeTypesAre
<1>6. Nodes(1) = <<l>> /\ Nodes(2) = <<r>>
  BY <1>4 DEF Nodes
<1>7. Value(typing, 1) = TypeOf(typing, l)
  <2>1. Nodes(1)[1] = l
    BY <1>6
  <2>2. 1 <= Len(Args)
    BY <1>1
  <2> QED BY <1>1, <2>1, <2>2, Zenon DEF Value
<1>8. Value(typing, 2) = TypeOf(typing, r)
  <2>1. Nodes(2)[1] = r
    BY <1>6
  <2>2. 2 <= Len(Args)
    BY <1>1
  <2> QED BY <1>1, <2>1, <2>2, Zenon DEF Value
<1>9. Operator \in Assigns => Value(typing, 3) = TypeOf(typing, l)
  <2>1. ~(3 <= Len(Args))
    BY <1>1
  <2>2. Operator \in Assigns => at \notin Lets
    BY <1>1, StatementIs DEF Lets
  <2> QED BY <1>1, <1>4, <2>1, <2>2, Zenon DEF Value
<1>10. /\ TypeOf(typing, l) = TypeOf(typing, r) /\ TypeOf(typing, l) \in Sides(typing, at)
       /\ Of(typing, l, TypeOf(typing, l)) /\ Of(typing, r, TypeOf(typing, l))
  BY <1>3, <1>5, OfSame
<1> QED BY <1>1, <1>2, <1>4, <1>7, <1>8, <1>9, <1>10

\* The condition is a bool, and the branches have one type.
LEMMA BranchesMean ==
  ASSUME TypeOK, Operator = "if", NEW typing \in Typings
  PROVE  /\ at \in DOMAIN Body /\ Len(Args) = 3 /\ Args # <<>>
         /\ Value(typing, 1) = "bool" /\ Of(typing, <<at, "condition">>, "bool")
         /\ Value(typing, 2) \in Branches(typing, at)
         /\ Value(typing, 3) = Value(typing, 2)
         /\ \A r \in {"then", "thenBlock", "else", "elseBlock"} : Of(typing, <<at, r>>, Value(typing, 2))
<1>1. at \in DOMAIN Body /\ Len(Args) = 3
  BY OperatorsHave DEF TypeOK
<1>2. Args # <<>>
  <2>1. Len(<<>>) = 0
    OBVIOUS
  <2> QED BY <1>1, <2>1
<1>3. Branches(typing, at) # {}
  BY <1>1, <1>2, StatementTypes
<1>4. PICK c, t, e, tb, eb :
         /\ c = <<at, "condition">> /\ t = <<at, "then">> /\ e = <<at, "else">>
         /\ tb = <<at, "thenBlock">> /\ eb = <<at, "elseBlock">>
  OBVIOUS
<1>5. /\ NodeTypes(typing, c) = {"bool"} /\ NodeTypes(typing, t) = Branches(typing, at)
      /\ NodeTypes(typing, e) = Branches(typing, at) /\ NodeTypes(typing, tb) = Branches(typing, at)
      /\ NodeTypes(typing, eb) = Branches(typing, at)
  BY <1>4, NodeTypesAre
<1>6. Nodes(1) = <<c>> /\ Nodes(2) = <<t, tb>> /\ Nodes(3) = <<e, eb>>
  BY <1>4 DEF Nodes
<1>7. Value(typing, 1) = TypeOf(typing, c)
  <2>1. Nodes(1)[1] = c
    BY <1>6
  <2>2. 1 <= Len(Args)
    BY <1>1
  <2> QED BY <1>1, <2>1, <2>2, Zenon DEF Value
<1>8. Value(typing, 2) = TypeOf(typing, t)
  <2>1. Nodes(2)[1] = t
    BY <1>6
  <2>2. 2 <= Len(Args)
    BY <1>1
  <2> QED BY <1>1, <2>1, <2>2, Zenon DEF Value
<1>9. Value(typing, 3) = TypeOf(typing, e)
  <2>1. Nodes(3)[1] = e
    BY <1>6
  <2>2. 3 <= Len(Args)
    BY <1>1
  <2> QED BY <1>1, <2>1, <2>2, Zenon DEF Value
<1>10. TypeOf(typing, c) = "bool" /\ Of(typing, c, "bool")
  BY <1>5, OfOnly
<1>11. /\ TypeOf(typing, t) = TypeOf(typing, e) /\ TypeOf(typing, t) \in Branches(typing, at)
       /\ Of(typing, t, TypeOf(typing, t)) /\ Of(typing, e, TypeOf(typing, t))
       /\ Of(typing, tb, TypeOf(typing, t)) /\ Of(typing, eb, TypeOf(typing, t))
  BY <1>3, <1>5, OfSame
<1> QED BY <1>1, <1>2, <1>4, <1>7, <1>8, <1>9, <1>10, <1>11

LEMMA TailOfThree ==
  ASSUME NEW S, NEW s \in Seq(S), Len(s) = 3
  PROVE  Tail(s)[1] = s[2] /\ Tail(s)[2] = s[3] /\ DOMAIN Tail(s) = 1..2
<1>1. s # <<>>
  <2>1. Len(<<>>) = 0
    OBVIOUS
  <2> QED BY <2>1
<1>2. /\ Tail(s) \in Seq(S) /\ Len(Tail(s)) = 3 - 1
      /\ \A i \in 1..Len(Tail(s)) : Tail(s)[i] = s[i + 1]
  BY <1>1, HeadTailProperties
<1>3. Len(Tail(s)) = 2 /\ DOMAIN Tail(s) = 1..2
  <2>1. PICK t \in Seq(S) : t = Tail(s)
    BY <1>2
  <2>2. Len(t) = 3 - 1 /\ DOMAIN t = 1..Len(t)
    BY <1>2, <2>1, LenProperties
  <2>3. Len(t) = 2
    BY <2>2
  <2> QED BY <2>1, <2>2, <2>3
<1>4. 1 \in 1..2 /\ 2 \in 1..2
  OBVIOUS
<1>5. Tail(s)[1] = s[1 + 1] /\ Tail(s)[2] = s[2 + 1]
  BY <1>2, <1>3, <1>4
<1> QED BY <1>3, <1>5

\* Without an operator, the operand is the initialiser or what is returned.
LEMMA ValueMeans ==
  ASSUME TypeOK, Operator = "none", Args # <<>>, NEW typing \in Typings
  PROVE  /\ Len(Args) = 1
         /\ Value(typing, 1) = IF at \in Lets THEN typing[at] ELSE function.returns
         /\ Of(typing, <<at, "value">>, Value(typing, 1))
         /\ Value(typing, 1) \in OperandTypes(typing, Args)
<1>0. at \in Nat /\ function \in Functions /\ Args \in Seq(Atom) /\ Len(Args) \in Nat
  BY ArgsAre DEF TypeOK
<1>1. Len(Args) = 1
  <2>1. Len(Args) # 0
    BY <1>0, EmptySeq
  <2>2. CASE at \in DOMAIN Body
    <3>1. Len(Args) \in Arity(Body[at]) /\ Body[at].operator = "none"
      BY <2>2, FunctionIs, StatementIs DEF WellFormed, Body, TypeOK
    <3> QED BY <2>1, <3>1 DEF Arity
  <2>3. CASE at \notin DOMAIN Body
    BY <1>0, <2>1, <2>3, ArgsAre
  <2> QED BY <2>2, <2>3
<1>2. PICK v : v = <<at, "value">>
  OBVIOUS
<1> DEFINE g == IF at \in Lets THEN typing[at] ELSE function.returns
<1>3. NodeTypes(typing, v) = {g}
  BY <1>2, NodeTypesAre
<1>4. Of(typing, v, g) /\ TypeOf(typing, v) = g
  <2> HIDE DEF g
  <2> QED BY <1>3, OfOnly
<1>5. Value(typing, 1) = g
  <2>1. CASE at \in DOMAIN Body
    <3>1. Nodes(1) = <<v>> /\ 1 <= Len(Args)
      BY <1>1, <1>2 DEF Nodes
    <3>2. Nodes(1)[1] = v
      BY <3>1
    <3>3. Value(typing, 1) = TypeOf(typing, v)
      BY <2>1, <3>1, <3>2, Zenon DEF Value
    <3> QED BY <1>4, <3>3
  <2>2. CASE at \notin DOMAIN Body
    BY <2>2 DEF Value, Lets
  <2> QED BY <2>1, <2>2
<1>6. Value(typing, 1) \in OperandTypes(typing, Args)
  <2>1. CASE at \in DOMAIN Body
    BY <1>5, <2>1, StatementTypes
  <2>2. CASE at \notin DOMAIN Body
    <3>1. Args = function.trailing /\ at \notin Lets
      BY <1>0, <2>2, ArgsAre DEF Lets
    <3> QED BY <1>5, <3>1, TypingIs
  <2> QED BY <2>1, <2>2
<1>7. Of(typing, v, Value(typing, 1))
  BY <1>5, <1>4
<1> QED BY <1>1, <1>2, <1>5, <1>6, <1>7

LEMMA OperandMeans ==
  ASSUME TypeOK, NEW typing \in Typings, NEW n \in 1..Len(Args)
  PROVE  /\ \A m \in Range(Nodes(n)) : Of(typing, m, Value(typing, n))
         /\ HasType(typing, Args[n], Value(typing, n))
         /\ Value(typing, n) \in Builtin
<1>0. /\ at \in Nat /\ function \in Functions /\ Args \in Seq(Atom) /\ Len(Args) \in Nat
      /\ DOMAIN Args = 1..Len(Args) /\ Args # <<>>
  BY ArgsAre, EmptySeq DEF TypeOK
<1>1. (\A a : Range(<<a>>) = {a}) /\ (\A a, b : Range(<<a, b>>) = {a, b})
  BY DEF Range
<1>2. CASE Operator = "none"
  <2>1. n = 1
    BY <1>0, <1>2, ValueMeans
  <2>2. PICK v : v = <<at, "value">>
    OBVIOUS
  <2>3. Range(Nodes(n)) = {v}
    <3>1. Nodes(n) = <<v>>
      BY <1>2, <2>2, Zenon DEF Nodes
    <3> QED BY <1>1, <3>1
  <2>4. Of(typing, v, Value(typing, 1)) /\ Value(typing, 1) \in OperandTypes(typing, Args)
    BY <1>0, <1>2, <2>2, ValueMeans
  <2>5. HasType(typing, Args[n], Value(typing, 1)) /\ Value(typing, 1) \in Ground
    BY <1>0, <2>4, OperandTypesHave
  <2> QED BY <2>1, <2>3, <2>4, <2>5 DEF Builtin
<1>3. CASE Operator = "if"
  <2>1. /\ Len(Args) = 3 /\ at \in DOMAIN Body
        /\ Value(typing, 1) = "bool" /\ Of(typing, <<at, "condition">>, "bool")
        /\ Value(typing, 2) \in Branches(typing, at)
        /\ Value(typing, 3) = Value(typing, 2)
        /\ \A r \in {"then", "thenBlock", "else", "elseBlock"} : Of(typing, <<at, r>>, Value(typing, 2))
    BY <1>3, BranchesMean
  <2>2. HasType(typing, Args[1], "bool") /\ Branches(typing, at) \subseteq OperandTypes(typing, Tail(Args))
    BY <1>0, <1>3, <2>1, StatementTypes
  <2>3. /\ Value(typing, 2) \in Ground
        /\ \A i \in DOMAIN Tail(Args) : HasType(typing, Tail(Args)[i], Value(typing, 2))
    BY <2>1, <2>2, OperandTypesHave
  <2>4. Tail(Args)[1] = Args[2] /\ Tail(Args)[2] = Args[3] /\ DOMAIN Tail(Args) = 1..2
    BY <1>0, <2>1, TailOfThree
  <2>6. HasType(typing, Args[2], Value(typing, 2)) /\ HasType(typing, Args[3], Value(typing, 2))
    <3>1. 1 \in 1..2 /\ 2 \in 1..2
      OBVIOUS
    <3> QED BY <2>3, <2>4, <3>1
  <2>7. n = 1 \/ n = 2 \/ n = 3
    BY <2>1
  <2>8. PICK c, t, e, tb, eb :
         /\ c = <<at, "condition">> /\ t = <<at, "then">> /\ e = <<at, "else">>
         /\ tb = <<at, "thenBlock">> /\ eb = <<at, "elseBlock">>
    OBVIOUS
  <2>9. /\ Range(Nodes(1)) = {c} /\ Range(Nodes(2)) = {t, tb} /\ Range(Nodes(3)) = {e, eb}
    <3>1. Nodes(1) = <<c>> /\ Nodes(2) = <<t, tb>> /\ Nodes(3) = <<e, eb>>
      BY <1>3, <2>8 DEF Nodes
    <3> QED BY <1>1, <3>1
  <2>10. Of(typing, c, "bool") /\ \A m \in {t, tb, e, eb} : Of(typing, m, Value(typing, 2))
    BY <2>1, <2>8
  <2>11. "bool" \in Builtin /\ Value(typing, 2) \in Builtin
    BY <2>3 DEF Builtin, Ground
  <2>12. CASE n = 1
    BY <2>1, <2>2, <2>9, <2>10, <2>11, <2>12
  <2>13. CASE n = 2
    BY <2>6, <2>9, <2>10, <2>11, <2>13
  <2>14. CASE n = 3
    BY <2>1, <2>6, <2>9, <2>10, <2>11, <2>14
  <2> QED BY <2>7, <2>12, <2>13, <2>14
<1>4. CASE Operator \notin {"none", "if"}
  <2>1. Operator \in {"+", "==", "=", "+="}
    <3>1. at \in DOMAIN Body
      BY <1>0, <1>4, ArgsAre
    <3> QED BY <1>0, <1>4, <3>1, ArgsAre DEF Statement
  <2>2. /\ at \in DOMAIN Body /\ Len(Args) = 2
        /\ Value(typing, 1) \in Sides(typing, at) /\ Value(typing, 2) = Value(typing, 1)
        /\ Of(typing, <<at, "left">>, Value(typing, 1)) /\ Of(typing, <<at, "right">>, Value(typing, 1))
    BY <2>1, SidesMean
  <2>3. Sides(typing, at) \subseteq OperandTypes(typing, Args)
    BY <1>0, <2>1, <2>2, StatementTypes
  <2>4. Value(typing, 1) \in Ground /\ HasType(typing, Args[n], Value(typing, 1))
    BY <1>0, <2>2, <2>3, OperandTypesHave
  <2>5. PICK l, r : l = <<at, "left">> /\ r = <<at, "right">>
    OBVIOUS
  <2>6. Range(Nodes(1)) = {l} /\ Range(Nodes(2)) = {r}
    <3>1. Nodes(1) = <<l>> /\ Nodes(2) = <<r>>
      BY <1>4, <2>5 DEF Nodes
    <3> QED BY <1>1, <3>1
  <2>7. n = 1 \/ n = 2
    BY <2>2
  <2> QED BY <2>2, <2>4, <2>5, <2>6, <2>7 DEF Builtin
<1> QED BY <1>2, <1>3, <1>4

\* G gives every type object the type it is to become: what it admits, what the
\* nodes that it refers to are, and what the nodes are that stand for it.
Consistent(typing, h, ctx, G) ==
  /\ G \in [DOMAIN h -> Builtin]
  /\ \A p \in DOMAIN h : /\ Admits(h[p], G[p])
                         /\ \A n \in Refs(h[p]) : Of(typing, n, G[p])
                         /\ h[p].kind = "Error" => AddsUndeclared
  /\ \A n \in DOMAIN ctx : Of(typing, n, G[ctx[n]])

\* A G for more objects.
Extends(G, h, H) == \A p \in DOMAIN h : H[p] = G[p]

AdmitsKind(kind, g) == kind \in {g, "General", "Error"} \/ (kind = "Integral" /\ g \in Integer)

LEMMA AdmitsIs ==
  ASSUME NEW t, NEW g
  PROVE  Admits(t, g) <=> AdmitsKind(t.kind, g)
BY DEF Admits, AdmitsKind

LEMMA KindsAdmit ==
  ASSUME NEW kind \in Kind, NEW other \in Kind, NEW g \in Builtin,
         AdmitsKind(kind, g), AdmitsKind(other, g)
  PROVE  /\ AdmitsKind(HintedKind(kind, other), g) /\ AdmitsKind(Outcome(kind, other), g)
         /\ HintedKind(kind, other) = "Error" => kind = "Error"
<1>1. HintedKind(kind, other) \in {kind, "Integral"} /\ HintedKind(other, kind) \in {other, "Integral"}
  BY DEF HintedKind
<1>2. HintedKind(kind, other) # kind => other \in Integer
  BY DEF HintedKind
<1>3. HintedKind(other, kind) # other => kind \in Integer
  BY DEF HintedKind
<1>4. \A k \in {kind, other} : k \in Integer => g \in Integer
  BY DEF AdmitsKind, Integer
<1>5. AdmitsKind(HintedKind(kind, other), g) /\ AdmitsKind(HintedKind(other, kind), g)
  BY <1>1, <1>2, <1>3, <1>4 DEF AdmitsKind
<1>6. Outcome(kind, other) \in {HintedKind(kind, other), HintedKind(other, kind)}
  BY DEF Outcome
<1> QED BY <1>1, <1>5, <1>6

LEMMA CopiesAreOf ==
  ASSUME NEW typing, NEW n \in Copies, NEW g
  PROVE  Of(typing, n, g)
BY DEF Of, Copies, Named

LEMMA ReferMeans ==
  ASSUME NEW typing, NEW h, NEW ctx, NEW G, Consistent(typing, h, ctx, G), Memory(h, ctx),
         NEW o \in DOMAIN h, NEW m \in NodeId, Of(typing, m, G[o])
  PROVE  Consistent(typing, Refer(h, o, m), ctx, G)
<1>1. PICK g : g = Refer(h, o, m)
  OBVIOUS
<1>2. /\ DOMAIN g = DOMAIN h
      /\ \A p \in DOMAIN h : g[p].kind = h[p].kind /\ g[p].combined = h[p].combined
      /\ \A p \in DOMAIN h \ {o} : g[p] = h[p]
      /\ g[o].ref = m
  BY <1>1, ReferMemory
<1>3. \A p \in DOMAIN h : Refs(g[p]) \subseteq Refs(h[p]) \cup (IF p = o THEN {m} ELSE {})
  BY <1>2 DEF Refs
<1>4. ASSUME NEW p \in DOMAIN g
      PROVE  /\ Admits(g[p], G[p]) /\ (g[p].kind = "Error" => AddsUndeclared)
             /\ \A n \in Refs(g[p]) : Of(typing, n, G[p])
  <2>1. Admits(h[p], G[p]) /\ (h[p].kind = "Error" => AddsUndeclared)
    BY <1>2 DEF Consistent
  <2>2. \A n \in Refs(h[p]) : Of(typing, n, G[p])
    BY <1>2 DEF Consistent
  <2> QED BY <1>2, <1>3, <2>1, <2>2 DEF Admits
<1> QED BY <1>1, <1>2, <1>4 DEF Consistent

LEMMA PlaceMeans ==
  ASSUME NEW typing, NEW h, NEW ctx, NEW G, Consistent(typing, h, ctx, G),
         NEW o, NEW N, \A n \in N : Of(typing, n, G[o])
  PROVE  Consistent(typing, h, Place(ctx, N, o), G)
<1>1. PICK c : c = Place(ctx, N, o)
  OBVIOUS
<1>2. \A n \in DOMAIN c : (n \in N /\ c[n] = o) \/ (n \in DOMAIN ctx /\ c[n] = ctx[n])
  BY <1>1 DEF Place
<1>3. \A n \in DOMAIN c : Of(typing, n, G[c[n]])
  BY <1>2 DEF Consistent
<1> QED BY <1>1, <1>3 DEF Consistent

LEMMA AllocateMeans ==
  ASSUME NEW typing, NEW h, NEW ctx, NEW G, Consistent(typing, h, ctx, G), Memory(h, ctx),
         NEW kind \in Kind, NEW m \in NodeId, NEW g \in Builtin,
         AdmitsKind(kind, g), Of(typing, m, g), kind = "Error" => AddsUndeclared
  PROVE  \E H : /\ Consistent(typing, Allocate(h, kind, m), ctx, H)
                /\ Extends(G, h, H) /\ H[Len(h) + 1] = g
<1>1. PICK k : k = Allocate(h, kind, m)
  OBVIOUS
<1>2. /\ DOMAIN k = 1..(Len(h) + 1) /\ DOMAIN h \subseteq DOMAIN k
      /\ \A p \in DOMAIN h : k[p] = h[p]
      /\ k[Len(h) + 1] = Fresh(kind, m)
  BY <1>1, AllocateMemory
<1>3. DOMAIN h = 1..Len(h) /\ Len(h) \in Nat
  BY LenProperties DEF Memory
<1>4. Len(h) + 1 \in DOMAIN k /\ Len(h) + 1 \notin DOMAIN h /\ \A p \in DOMAIN k : p \in DOMAIN h \/ p = Len(h) + 1
  BY <1>2, <1>3
<1>5. PICK last : last = Len(h) + 1
  OBVIOUS
<1>6. PICK H : H = [p \in DOMAIN k |-> IF p \in DOMAIN h THEN G[p] ELSE g]
  OBVIOUS
<1>7. H[last] = g /\ (\A p \in DOMAIN h : H[p] = G[p]) /\ H \in [DOMAIN k -> Builtin]
  BY <1>2, <1>4, <1>5, <1>6 DEF Consistent
<1>8. Fresh(kind, m).kind = kind /\ Refs(Fresh(kind, m)) = {m}
  BY DEF Fresh, Refs
<1>9. ASSUME NEW p \in DOMAIN k
      PROVE  /\ Admits(k[p], H[p]) /\ (k[p].kind = "Error" => AddsUndeclared)
             /\ \A n \in Refs(k[p]) : Of(typing, n, H[p])
  <2>1. CASE p \in DOMAIN h
    BY <1>2, <1>7, <2>1 DEF Consistent
  <2>2. CASE p = last
    BY <1>2, <1>5, <1>7, <1>8, <2>2, AdmitsIs
  <2> QED BY <1>4, <1>5, <2>1, <2>2
<1>10. \A n \in DOMAIN ctx : Of(typing, n, H[ctx[n]])
  BY <1>7 DEF Consistent, Memory
<1>11. Consistent(typing, k, ctx, H)
  BY <1>7, <1>9, <1>10 DEF Consistent
<1> QED BY <1>1, <1>5, <1>7, <1>11 DEF Extends

LEMMA UnifyMeans ==
  ASSUME TypeOK, NEW typing, NEW G, Consistent(typing, heap, resolved, G),
         NEW l \in DOMAIN heap, NEW r \in DOMAIN heap, G[l] = G[r]
  PROVE  \E H : /\ Consistent(typing, Unify(l, r).heap, Unify(l, r).resolved, H)
                /\ Extends(G, heap, H) /\ H[Unify(l, r).type] = G[l]
<1>1. PICK u : u = Unify(l, r)
  OBVIOUS
<1>2. Unified(l, r, u)
  BY <1>1, UnifyIs DEF TypeOK, Sound
<1>3. PICK g : g = G[l]
  OBVIOUS
<1>4. /\ g \in Builtin /\ AdmitsKind(heap[l].kind, g) /\ AdmitsKind(heap[r].kind, g)
      /\ \A n \in Refs(heap[l]) \cup Refs(heap[r]) \cup Copies : Of(typing, n, g)
  BY <1>3, AdmitsIs, CopiesAreOf DEF Consistent
<1>5. /\ AdmitsKind(HintedKind(heap[l].kind, heap[r].kind), g)
      /\ AdmitsKind(HintedKind(heap[r].kind, heap[l].kind), g)
      /\ AdmitsKind(Outcome(heap[l].kind, heap[r].kind), g)
      /\ HintedKind(heap[l].kind, heap[r].kind) = "Error" => AddsUndeclared
      /\ HintedKind(heap[r].kind, heap[l].kind) = "Error" => AddsUndeclared
      /\ Outcome(heap[l].kind, heap[r].kind) = "Error" => AddsUndeclared
  BY <1>4, KindsAre, KindsAdmit, KindsKnown DEF Consistent
<1>6. DOMAIN heap = 1..Len(heap) /\ Len(heap) \in Nat
  BY LenProperties DEF TypeOK, Sound, Memory
<1>7. DOMAIN u.heap \subseteq Nat
  BY <1>2, LenProperties DEF Unified, Memory
<1>8. \A p \in DOMAIN u.heap : p \in DOMAIN heap \/ p > Len(heap)
  BY <1>6, <1>7, <1>2 DEF Unified, Memory
<1>9. PICK H : H = [p \in DOMAIN u.heap |-> IF p \in DOMAIN heap THEN G[p] ELSE g]
  OBVIOUS
<1>10. /\ \A p \in DOMAIN heap : p \in DOMAIN u.heap /\ H[p] = G[p]
       /\ \A p \in DOMAIN u.heap : p > Len(heap) => H[p] = g
       /\ H \in [DOMAIN u.heap -> Builtin]
  <2>1. \A p \in DOMAIN heap : p \in DOMAIN u.heap
    BY <1>2 DEF Unified
  <2>2. \A p \in DOMAIN u.heap : p > Len(heap) => p \notin DOMAIN heap
    BY <1>6
  <2>3. \A p \in DOMAIN heap : G[p] \in Builtin
    BY DEF Consistent
  <2> QED BY <1>4, <1>9, <2>1, <2>2, <2>3
<1>11. ASSUME NEW p \in DOMAIN u.heap
       PROVE  /\ AdmitsKind(u.heap[p].kind, H[p]) /\ (u.heap[p].kind = "Error" => AddsUndeclared)
              /\ \A n \in Refs(u.heap[p]) : Of(typing, n, H[p])
  <2>1. CASE p > Len(heap)
    <3>1. u.heap[p].kind = Outcome(heap[l].kind, heap[r].kind)
          /\ Refs(u.heap[p]) \subseteq Refs(heap[l]) \cup Refs(heap[r]) \cup Copies
      BY <1>2, <2>1 DEF Unified
    <3> QED BY <1>4, <1>5, <1>10, <2>1, <3>1
  <2>2. CASE p \in {l, r}
    <3>1. /\ u.heap[p].kind \in {HintedKind(heap[l].kind, heap[r].kind), HintedKind(heap[r].kind, heap[l].kind)}
          /\ Refs(u.heap[p]) \subseteq Refs(heap[l]) \cup Refs(heap[r]) \cup Copies
      BY <1>2, <2>2 DEF Unified
    <3>2. H[p] = g
      BY <1>3, <1>10, <2>2
    <3> QED BY <1>4, <1>5, <3>1, <3>2
  <2>3. CASE p \in DOMAIN heap /\ p \notin {l, r}
    <3>1. u.heap[p].kind = heap[p].kind /\ Refs(u.heap[p]) = Refs(heap[p])
      BY <1>2, <2>3 DEF Unified
    <3>2. /\ AdmitsKind(heap[p].kind, G[p]) /\ (heap[p].kind = "Error" => AddsUndeclared)
          /\ \A n \in Refs(heap[p]) : Of(typing, n, G[p])
      BY <2>3, AdmitsIs DEF Consistent
    <3>3. H[p] = G[p]
      BY <1>10, <2>3
    <3> QED BY <3>1, <3>2, <3>3
  <2> QED BY <1>8, <2>1, <2>2, <2>3
<1>12. ASSUME NEW n \in DOMAIN u.resolved PROVE Of(typing, n, H[u.resolved[n]])
  <2>1. CASE n \in DOMAIN resolved /\ u.resolved[n] = resolved[n]
    <3>1. resolved[n] \in DOMAIN heap /\ Of(typing, n, G[resolved[n]])
      BY <2>1 DEF TypeOK, Sound, Memory, Consistent
    <3> QED BY <1>10, <2>1, <3>1
  <2>2. CASE u.resolved[n] > Len(heap) /\ n \in Refs(heap[l]) \cup Refs(heap[r]) \cup Copies
    <3>1. u.resolved[n] \in DOMAIN u.heap
      BY <1>2 DEF Unified, Memory
    <3> QED BY <1>4, <1>10, <2>2, <3>1
  <2>3. CASE n \in Copies
    BY <2>3, CopiesAreOf
  <2> QED BY <1>2, <2>1, <2>2, <2>3 DEF Unified
<1>13. Consistent(typing, u.heap, u.resolved, H)
  BY <1>10, <1>11, <1>12, AdmitsIs DEF Consistent
<1>14. H[u.type] = g
  <2>1. u.type \in DOMAIN u.heap /\ u.type > Len(heap)
    BY <1>2, <1>6 DEF Unified
  <2> QED BY <1>10, <2>1
<1> QED BY <1>1, <1>3, <1>10, <1>13, <1>14 DEF Extends

\* The types that the values of the operands are to have.
ValuesMean(typing, G) == \A k \in DOMAIN values : G[values[k]] = Value(typing, k)

\* G is what the function means, in a typing.
Meaning(typing, G) == Consistent(typing, heap, resolved, G) /\ ValuesMean(typing, G)

LEMMA FunctionStays ==
  ASSUME UNCHANGED function
  PROVE  /\ Body' = Body /\ Lets' = Lets /\ (AddsUndeclared' <=> AddsUndeclared)
         /\ \A typing, A : OperandTypes(typing, A)' = OperandTypes(typing, A)
BY DEF Body, Lets, AddsUndeclared, OperandTypes, HasType

LEMMA NodeTypesStay ==
  ASSUME UNCHANGED function, NEW typing, NEW n
  PROVE  NodeTypes(typing, n)' = NodeTypes(typing, n)
BY FunctionStays, Zenon DEF NodeTypes

LEMMA OfStays ==
  ASSUME UNCHANGED function, NEW typing, NEW n, NEW g
  PROVE  /\ TypeOf(typing, n)' = TypeOf(typing, n)
         /\ Of(typing, n, g)' <=> Of(typing, n, g)
<1>1. PICK T : T = NodeTypes(typing, n)
  OBVIOUS
<1>2. NodeTypes(typing, n)' = T
  BY <1>1, NodeTypesStay
<1>3. TypeOf(typing, n) = (CHOOSE t \in T : TRUE)
  BY <1>1, Zenon DEF TypeOf
<1>4. TypeOf(typing, n)' = (CHOOSE t \in T : TRUE)
  BY <1>2, Zenon DEF TypeOf
<1> QED BY <1>1, <1>2, <1>3, <1>4 DEF Of

LEMMA ConsistentStays ==
  ASSUME UNCHANGED function, NEW typing, NEW h, NEW ctx, NEW G, Consistent(typing, h, ctx, G),
         heap' = h, resolved' = ctx
  PROVE  Consistent(typing, heap, resolved, G)'
<1>1. AddsUndeclared' <=> AddsUndeclared
  BY FunctionStays
<1>2. \A n, g : Of(typing, n, g)' <=> Of(typing, n, g)
  BY OfStays
<1> QED BY <1>1, <1>2 DEF Consistent, Admits

LEMMA ValueStays ==
  ASSUME UNCHANGED <<function, at>>, NEW typing, NEW k
  PROVE  Value(typing, k)' = Value(typing, k)
<1>1. UNCHANGED <<Body, Lets, Args, Operator>>
  BY FunctionStays DEF Args, Operator
<1>2. PICK m : m = Nodes(k)[1]
  OBVIOUS
<1>3. (Nodes(k)[1])' = m
  BY <1>1, <1>2 DEF Nodes
<1>4. TypeOf(typing, Nodes(k)[1])' = TypeOf(typing, m)
  BY <1>2, <1>3, OfStays
<1> QED BY <1>1, <1>2, <1>3, <1>4, OfStays DEF Value

\* The shapes of the actions: what the function means, behind each of them.
Meant(typing) == \E G : Meaning(typing, G)

LEMMA NoneMeans ==
  ASSUME UNCHANGED <<function, heap, resolved, at, values>>, NEW typing, Meant(typing)
  PROVE  Meant(typing)'
<1>1. PICK G : Meaning(typing, G)
  BY DEF Meant
<1>2. PICK h, ctx : h = heap /\ ctx = resolved
  OBVIOUS
<1>3. Consistent(typing, heap, resolved, G)'
  BY <1>1, <1>2, ConsistentStays DEF Meaning
<1>4. ValuesMean(typing, G)'
  BY <1>1, ValueStays DEF Meaning, ValuesMean
<1> QED BY <1>3, <1>4 DEF Meaning, Meant

LEMMA NextMeans ==
  ASSUME UNCHANGED function, NEW typing, NEW h, NEW ctx, NEW H, Consistent(typing, h, ctx, H),
         heap' = h, resolved' = ctx, NextStatement
  PROVE  Meant(typing)'
<1>1. Consistent(typing, heap, resolved, H)'
  BY ConsistentStays
<1>2. values' = <<>> /\ DOMAIN values' = {}
  BY DEF NextStatement
<1>3. ValuesMean(typing, H)'
  BY <1>2 DEF ValuesMean
<1> QED BY <1>1, <1>3 DEF Meaning, Meant

\* A value more, of the type that it is to have.
LEMMA ValueAdded ==
  ASSUME TypeOK, NEW typing, NEW G, ValuesMean(typing, G), NEW H, Extends(G, heap, H),
         UNCHANGED <<function, at>>, NEW o, values' = Append(values, o),
         H[o] = Value(typing, Len(values) + 1)
  PROVE  ValuesMean(typing, H)'
<1>1. /\ Len(values) \in Nat /\ DOMAIN values = 1..Len(values)
      /\ \A k \in DOMAIN values : values[k] \in DOMAIN heap
  BY LenProperties DEF TypeOK
<1>2. /\ Append(values, o)[Len(values) + 1] = o
      /\ \A k \in 1..Len(values) : Append(values, o)[k] = values[k]
      /\ DOMAIN Append(values, o) = 1..(Len(values) + 1)
  BY AppendIs DEF TypeOK
<1>3. \A k \in 1..(Len(values) + 1) : k \in 1..Len(values) \/ k = Len(values) + 1
  BY <1>1
<1>4. \A k \in DOMAIN values : H[values[k]] = Value(typing, k)
  BY <1>1 DEF ValuesMean, Extends
<1>5. \A k \in DOMAIN values' : H[values'[k]] = Value(typing, k)
  BY <1>1, <1>2, <1>3, <1>4
<1> QED BY <1>5, ValueStays DEF ValuesMean

LEMMA TypedMeans ==
  ASSUME TypeOK, NEW typing, NEW G, ValuesMean(typing, G),
         NEW h, NEW ctx, NEW H, Memory(h, ctx), Consistent(typing, h, ctx, H), Extends(G, heap, H),
         NEW o \in DOMAIN h, H[o] = Value(typing, Len(values) + 1),
         NEW nodes \in Seq(NodeId), nodes # <<>>, \A m \in Range(nodes) : Of(typing, m, H[o]),
         Typed(h, ctx, nodes, o)
  PROVE  Meant(typing)'
<1>1. Last(nodes) \in NodeId /\ Last(nodes) \in Range(nodes)
  BY NodesAre
<1>2. PICK g, c : g = Refer(h, o, Last(nodes)) /\ c = Place(ctx, Range(nodes), o)
  OBVIOUS
<1>3. heap' = g /\ resolved' = c
  BY <1>2 DEF Typed, Refer, Place
<1>4. Consistent(typing, g, ctx, H)
  BY <1>1, <1>2, ReferMeans
<1>5. Consistent(typing, g, c, H)
  BY <1>2, <1>4, PlaceMeans
<1>6. Consistent(typing, heap, resolved, H)'
  BY <1>3, <1>5, ConsistentStays DEF Typed
<1>7. ValuesMean(typing, H)'
  BY ValueAdded DEF Typed
<1> QED BY <1>6, <1>7 DEF Meaning, Meant

\* The value of a statement is the last of its values, when it is that of a let.
LEMMA EvaluatesMeans ==
  ASSUME TypeOK, NEW typing, NEW G, ValuesMean(typing, G),
         NEW h, NEW ctx, NEW H, Memory(h, ctx), Consistent(typing, h, ctx, H), Extends(G, heap, H),
         NEW o \in DOMAIN h, at \in Lets => H[o] = typing[at],
         Len(values) = Len(Args), at \in DOMAIN Body, Evaluates(h, ctx, o)
  PROVE  Meant(typing)'
<1>1. CASE Body[at].op = "let"
  <2>1. at \in Lets
    BY <1>1 DEF Lets
  <2>2. PICK v : v = <<at, "value">>
    OBVIOUS
  <2>3. v \in NodeId
    BY <2>2 DEF NodeId, Role, TypeOK
  <2>4. <<v>> \in Seq(NodeId) /\ <<v>> # <<>> /\ Range(<<v>>) = {v}
    BY <2>3 DEF Range
  <2>5. Typed(h, ctx, <<v>>, o)
    BY <1>1, <2>2 DEF Evaluates
  <2>6. Value(typing, Len(values) + 1) = typing[at]
    <3>1. Len(Args) \in Nat
      BY ArgsAre DEF TypeOK
    <3>2. ~(Len(values) + 1 <= Len(Args))
      BY <3>1
    <3> QED BY <2>1, <3>2, Zenon DEF Value
  <2>7. NodeTypes(typing, v) = {typing[at]}
    BY <2>1, <2>2, NodeTypesAre
  <2>8. Of(typing, v, H[o])
    BY <2>1, <2>7, OfOnly
  <2> QED BY <2>1, <2>4, <2>5, <2>6, <2>8, TypedMeans
<1>2. CASE Body[at].op # "let"
  BY <1>2, NextMeans DEF Evaluates
<1> QED BY <1>1, <1>2

LEMMA DeclaresMeans ==
  ASSUME NEW typing, NEW h, NEW ctx, NEW H, Consistent(typing, h, ctx, H),
         NEW o, at \in Lets, H[o] = typing[at], Declares(h, ctx, o)
  PROVE  Meant(typing)'
<1>1. PICK p : p = <<at, "pattern">>
  OBVIOUS
<1>2. NodeTypes(typing, p) = {typing[at]}
  BY <1>1, NodeTypesAre
<1>3. \A n \in {p} : Of(typing, n, H[o])
  BY <1>2, OfOnly
<1>4. PICK c : c = Place(ctx, {p}, o)
  OBVIOUS
<1>5. Consistent(typing, h, c, H)
  BY <1>3, <1>4, PlaceMeans
<1>6. heap' = h /\ resolved' = c /\ NextStatement /\ UNCHANGED function
  BY <1>1, <1>4 DEF Declares, Insert, Place
<1> QED BY <1>5, <1>6, NextMeans

\* The types of what is shared are those that typings speak of.
LEMMA SharedMean ==
  ASSUME TypeOK, NEW typing, NEW G, Consistent(typing, heap, resolved, G)
  PROVE  /\ \A kind \in Ground : BuiltinType(kind) \in DOMAIN heap /\ G[BuiltinType(kind)] = kind
         /\ ReturnType \in DOMAIN heap /\ G[ReturnType] = function.returns
<1>1. ASSUME NEW p \in DOMAIN heap, heap[p].kind \in Builtin PROVE G[p] = heap[p].kind
  <2>1. AdmitsKind(heap[p].kind, G[p])
    BY AdmitsIs DEF Consistent
  <2> QED BY <1>1, <2>1 DEF AdmitsKind, Builtin, Ground, Integer
<1>2. \A kind \in Ground : BuiltinType(kind) \in DOMAIN heap /\ heap[BuiltinType(kind)].kind = kind
  BY SharedAre
<1>3. ReturnType \in DOMAIN heap /\ heap[ReturnType].kind = function.returns /\ function.returns \in Builtin
  BY FunctionIs DEF TypeOK, Sound
<1> QED BY <1>1, <1>2, <1>3 DEF Builtin

LEMMA OperandStep ==
  ASSUME TypeOK, NEW typing \in Typings, NEW G, Meaning(typing, G),
         IntegerLiteral \/ BooleanLiteral \/ Variable
  PROVE  Meant(typing)'
<1>0. /\ Memory(heap, resolved) /\ Len(values) \in Nat /\ Len(Args) \in Nat /\ Args \in Seq(Atom)
      /\ Consistent(typing, heap, resolved, G) /\ ValuesMean(typing, G) /\ Extends(G, heap, G)
  BY ArgsAre, LenProperties DEF TypeOK, Sound, Meaning, Extends
<1>1. Len(values) < Len(Args)
  BY DEF IntegerLiteral, BooleanLiteral, Variable, Pending
<1>2. PICK n \in 1..Len(Args) : n = Len(values) + 1
  BY <1>0, <1>1
<1>3. PICK nodes, g, a : nodes = OperandNodes /\ g = Value(typing, n) /\ a = Args[n]
  OBVIOUS
<1>4. /\ nodes = Nodes(n) /\ nodes \in Seq(NodeId) /\ nodes # <<>>
      /\ \A m \in Range(nodes) : Of(typing, m, g)
      /\ HasType(typing, a, g) /\ g \in Builtin
  <2>1. nodes = Nodes(n)
    BY <1>1, <1>2, <1>3, OperandNodesAre DEF TypeOK
  <2>2. Nodes(n) \in Seq(NodeId) /\ Nodes(n) # <<>>
    BY NodesOf DEF TypeOK
  <2> QED BY <1>3, <2>1, <2>2, OperandMeans
<1>5. Argument = a
  BY <1>2, <1>3 DEF Argument
<1>6. ASSUME NEW h, NEW ctx, NEW H, Memory(h, ctx), Consistent(typing, h, ctx, H),
             Extends(G, heap, H), NEW o \in DOMAIN h, H[o] = g, Typed(h, ctx, nodes, o)
      PROVE  Meant(typing)'
  BY <1>0, <1>2, <1>3, <1>4, <1>6, TypedMeans
<1>7. CASE IntegerLiteral
  <2>1. g \in Integer
    <3>1. a.form = "integer"
      BY <1>5, <1>7 DEF IntegerLiteral, Pending
    <3> QED BY <1>4, <3>1 DEF HasType
  <2>2. PICK m : m = nodes[1]
    OBVIOUS
  <2>3. m \in NodeId /\ m \in Range(nodes)
    <3>1. 1 \in DOMAIN nodes
      BY <1>4, EmptySeq, LenProperties
    <3> QED BY <1>4, <2>2, <3>1 DEF Range
  <2>4. "Integral" \in Kind /\ "Integral" # "Error" /\ AdmitsKind("Integral", g) /\ Of(typing, m, g)
    BY <1>4, <2>1, <2>3 DEF Kind, AdmitsKind
  <2>5. PICK h : h = Allocate(heap, "Integral", m)
    OBVIOUS
  <2>6. PICK H : Consistent(typing, h, resolved, H) /\ Extends(G, heap, H) /\ H[Len(heap) + 1] = g
    BY <1>0, <1>4, <2>3, <2>4, <2>5, AllocateMeans
  <2>7. Memory(h, resolved) /\ Len(heap) + 1 \in DOMAIN h
    <3>1. Memory(h, resolved) /\ DOMAIN h = 1..(Len(heap) + 1)
      BY <1>0, <2>3, <2>4, <2>5, AllocateMemory
    <3>2. Len(heap) \in Nat
      BY <1>0, LenProperties DEF Memory
    <3> QED BY <3>1, <3>2
  <2>8. Typed(h, resolved, nodes, Len(heap) + 1)
    BY <1>3, <1>7, <2>2, <2>5 DEF IntegerLiteral, Allocate
  <2> QED BY <1>6, <2>6, <2>7, <2>8
<1>8. CASE BooleanLiteral
  <2>1. g = "bool"
    <3>1. a.form = "boolean"
      BY <1>5, <1>8 DEF BooleanLiteral, Pending
    <3> QED BY <1>4, <3>1 DEF HasType
  <2>2. BuiltinType("bool") \in DOMAIN heap /\ G[BuiltinType("bool")] = "bool"
    BY <1>0, SharedMean DEF Ground
  <2>3. Typed(heap, resolved, nodes, BuiltinType("bool"))
    BY <1>3, <1>8 DEF BooleanLiteral
  <2> QED BY <1>0, <1>6, <2>1, <2>2, <2>3
<1>9. CASE Variable
  <2>1. PICK p : p = <<Argument.of, "pattern">>
    OBVIOUS
  <2>2. CASE p \in DOMAIN resolved /\ Typed(heap, resolved, nodes, resolved[p])
    <3>1. a.form = "variable"
      BY <1>5, <1>9 DEF Variable, Pending
    <3>2. g = typing[a.of]
      BY <1>4, <3>1 DEF HasType
    <3>3. PICK i : i = a.of
      OBVIOUS
    <3>4. p = <<i, "pattern">> /\ p[2] = "pattern"
      BY <1>5, <2>1, <3>3
    <3>5. NodeTypes(typing, p) = {typing[i]}
      BY <3>4, NodeTypesAre
    <3>6. TypeOf(typing, p) = typing[i]
      BY <3>5, OfOnly
    <3>7. Of(typing, p, G[resolved[p]])
      BY <1>0, <2>2 DEF Consistent
    <3>8. G[resolved[p]] = typing[i]
      BY <3>4, <3>6, <3>7 DEF Of, Named
    <3>9. resolved[p] \in DOMAIN heap
      BY <1>0, <2>2 DEF Memory
    <3> QED BY <1>0, <1>6, <2>2, <3>2, <3>3, <3>8, <3>9
  <2>3. CASE UNCHANGED <<function, heap, resolved, phase, at, values>>
    BY <2>3, NoneMeans DEF Meant
  <2> QED BY <1>3, <1>9, <2>1, <2>2, <2>3, Zenon DEF Variable
<1> QED BY <1>7, <1>8, <1>9

LEMMA ValueMeansNow ==
  ASSUME TypeOK, NEW typing, NEW G, ValuesMean(typing, G)
  PROVE  /\ Len(values) \in {1, 2, 3} => G[values[1]] = Value(typing, 1)
         /\ Len(values) \in {2, 3} => G[values[2]] = Value(typing, 2)
         /\ Len(values) = 3 => G[values[3]] = Value(typing, 3)
<1>1. PICK n \in Nat : n = Len(values)
  BY LenProperties DEF TypeOK
<1>2. DOMAIN values = 1..n
  BY <1>1, LenProperties DEF TypeOK
<1>3. \A k \in 1..n : G[values[k]] = Value(typing, k)
  BY <1>2 DEF ValuesMean
<1> QED BY <1>1, <1>3

\* Unification, and a step that goes on with what it leaves.
LEMMA UnifyAfter ==
  ASSUME TypeOK, NEW typing, NEW G, Meaning(typing, G),
         NEW l \in DOMAIN heap, NEW r \in DOMAIN heap, G[l] = G[r]
  PROVE  /\ Memory(Unify(l, r).heap, Unify(l, r).resolved)
         /\ Unify(l, r).type \in DOMAIN Unify(l, r).heap
         /\ DOMAIN heap \subseteq DOMAIN Unify(l, r).heap
         /\ \E H : /\ Consistent(typing, Unify(l, r).heap, Unify(l, r).resolved, H)
                   /\ Extends(G, heap, H) /\ H[Unify(l, r).type] = G[l]
<1>1. Consistent(typing, heap, resolved, G)
  BY DEF Meaning
<1>2. \E H : /\ Consistent(typing, Unify(l, r).heap, Unify(l, r).resolved, H)
             /\ Extends(G, heap, H) /\ H[Unify(l, r).type] = G[l]
  BY <1>1, UnifyMeans
<1> QED BY <1>2, SoundUnify DEF TypeOK, Sound

LEMMA UnifiesNextMeans ==
  ASSUME TypeOK, NEW typing, NEW G, Meaning(typing, G),
         NEW l \in DOMAIN heap, NEW r \in DOMAIN heap, G[l] = G[r], Unifies(l, r), NextStatement
  PROVE  Meant(typing)'
<1>1. PICK h, ctx : h = Unify(l, r).heap /\ ctx = Unify(l, r).resolved
  OBVIOUS
<1>2. PICK H : Consistent(typing, h, ctx, H)
  BY <1>1, UnifyAfter
<1> QED BY <1>1, <1>2, NextMeans DEF Unifies

LEMMA UnifiesValueMeans ==
  ASSUME TypeOK, NEW typing, NEW G, Meaning(typing, G),
         NEW l \in DOMAIN heap, NEW r \in DOMAIN heap, G[l] = G[r], Unifies(l, r),
         values' = Append(values, Unify(l, r).type), UNCHANGED at,
         Value(typing, Len(values) + 1) = G[r]
  PROVE  Meant(typing)'
<1>1. PICK h, ctx, o : h = Unify(l, r).heap /\ ctx = Unify(l, r).resolved /\ o = Unify(l, r).type
  OBVIOUS
<1>2. PICK H : Consistent(typing, h, ctx, H) /\ Extends(G, heap, H) /\ H[o] = G[l]
  <2>1. \E H : /\ Consistent(typing, Unify(l, r).heap, Unify(l, r).resolved, H)
               /\ Extends(G, heap, H) /\ H[Unify(l, r).type] = G[l]
    BY UnifyAfter
  <2> QED BY <1>1, <2>1, Zenon
<1>3. Consistent(typing, heap, resolved, H)'
  BY <1>1, <1>2, ConsistentStays DEF Unifies
<1>4. ValuesMean(typing, H)'
  BY <1>1, <1>2, ValueAdded DEF Unifies, Meaning
<1> QED BY <1>3, <1>4 DEF Meaning, Meant

\* A unification, and an operator expression of the type it makes.
LEMMA UnifiesEvaluatesMeans ==
  ASSUME TypeOK, NEW typing, NEW G, Meaning(typing, G),
         NEW l \in DOMAIN heap, NEW r \in DOMAIN heap, G[l] = G[r],
         Len(values) = Len(Args), at \in DOMAIN Body, NEW o,
         Evaluates(Unify(l, r).heap, Unify(l, r).resolved, o),
         \/ o = Unify(l, r).type /\ (at \in Lets => G[l] = typing[at])
         \/ o \in DOMAIN heap /\ (at \in Lets => G[o] = typing[at])
  PROVE  Meant(typing)'
<1>1. PICK h, ctx, u : h = Unify(l, r).heap /\ ctx = Unify(l, r).resolved /\ u = Unify(l, r).type
  OBVIOUS
<1>2. PICK H : Consistent(typing, h, ctx, H) /\ Extends(G, heap, H) /\ H[u] = G[l]
  <2>1. \E H : /\ Consistent(typing, Unify(l, r).heap, Unify(l, r).resolved, H)
               /\ Extends(G, heap, H) /\ H[Unify(l, r).type] = G[l]
    BY UnifyAfter
  <2> QED BY <1>1, <2>1, Zenon
<1>3. Memory(h, ctx) /\ u \in DOMAIN h /\ DOMAIN heap \subseteq DOMAIN h
  <2>1. /\ Memory(Unify(l, r).heap, Unify(l, r).resolved)
        /\ Unify(l, r).type \in DOMAIN Unify(l, r).heap
        /\ DOMAIN heap \subseteq DOMAIN Unify(l, r).heap
    BY UnifyAfter
  <2> QED BY <1>1, <2>1, Zenon
<1>4. o \in DOMAIN h /\ (at \in Lets => H[o] = typing[at])
  <2>1. CASE o = u /\ (at \in Lets => G[l] = typing[at])
    BY <1>2, <1>3, <2>1, Zenon
  <2>2. CASE o \in DOMAIN heap /\ (at \in Lets => G[o] = typing[at])
    BY <1>2, <1>3, <2>2, Zenon DEF Extends
  <2> QED BY <1>1, <2>1, <2>2, Zenon
<1>5. Evaluates(h, ctx, o) /\ ValuesMean(typing, G)
  BY <1>1 DEF Meaning
<1> QED BY <1>2, <1>3, <1>4, <1>5, EvaluatesMeans

\* Only a variable of which nothing is known has a type that a sum refuses.
LEMMA RefusedByASum ==
  ASSUME TypeOK, NEW typing, NEW G, Consistent(typing, heap, resolved, G), Operator = "+",
         at \in DOMAIN Body, NEW p \in DOMAIN heap, G[p] \in Integer, ~Arithmetic(heap[p])
  PROVE  AddsUndeclared
<1>1. AdmitsKind(heap[p].kind, G[p])
  BY AdmitsIs DEF Consistent
<1>2. heap[p].kind \in {"General", "Error"}
  BY <1>1 DEF AdmitsKind, Arithmetic
<1>3. CASE heap[p].kind = "Error"
  BY <1>3 DEF Consistent
<1>4. CASE heap[p].kind = "General"
  <2>1. Undeclared
    BY <1>4 DEF TypeOK, Sound
  <2>2. Body[at].operator = "+"
    BY ArgsAre DEF TypeOK
  <2> QED BY <2>1, <2>2 DEF Undeclared, AddsUndeclared
<1> QED BY <1>2, <1>3, <1>4

LEMMA OperationStep ==
  ASSUME TypeOK, NEW typing \in Typings, NEW G, Meaning(typing, G), Sum \/ Comparison \/ If
  PROVE  Meant(typing)'
<1>0. /\ Memory(heap, resolved) /\ Len(values) \in Nat /\ Consistent(typing, heap, resolved, G)
      /\ ValuesMean(typing, G) /\ Meant(typing)
  BY LenProperties DEF TypeOK, Sound, Meaning, Meant
<1>1. Operator \in {"+", "==", "if"} /\ Len(values) = Len(Args) /\ at \in DOMAIN Body /\ Args # <<>>
  <2>1. Operator \in {"+", "==", "if"} /\ Len(values) = Len(Args)
    BY DEF Sum, Comparison, If, Operands
  <2> QED BY <2>1, SidesMean, BranchesMean
<1>2. CASE Sum
  <2>0. Operator = "+" /\ Len(values) = 2
    BY <1>2, SidesMean DEF Sum, Operands
  <2>1. PICK l, r : l = values[1] /\ r = values[2]
    OBVIOUS
  <2>2. l \in DOMAIN heap /\ r \in DOMAIN heap
    BY <2>0, <2>1, ValuesAre
  <2>3. G[l] \in Sides(typing, at) /\ G[r] = G[l]
    BY <1>0, <2>0, <2>1, SidesMean, ValueMeansNow
  <2>4. G[l] \in Integer /\ (at \in Lets => G[l] = typing[at])
    BY <1>1, <2>0, <2>3, StatementTypes
  <2>5. CASE Evaluates(Unify(l, l).heap, Unify(l, l).resolved, Unify(l, l).type)
    BY <1>1, <2>2, <2>4, <2>5, UnifiesEvaluatesMeans
  <2>6. CASE /\ ~(Arithmetic(heap[l]) /\ Arithmetic(heap[r]))
             /\ Evaluates(Append(heap, Fresh("Error", <<at, "value">>)), resolved, Len(heap) + 1)
    <3>1. AddsUndeclared
      BY <1>0, <1>1, <2>0, <2>2, <2>3, <2>4, <2>6, RefusedByASum
    <3>2. PICK v, g : v = <<at, "value">> /\ g = IF at \in Lets THEN typing[at] ELSE function.returns
      OBVIOUS
    <3>3. v \in NodeId /\ g \in Builtin /\ Of(typing, v, g)
      <4>1. v \in NodeId
        BY <3>2 DEF NodeId, Role, TypeOK
      <4>2. g \in Builtin
        BY <3>2, TypingIs, FunctionIs DEF Builtin, TypeOK
      <4>3. NodeTypes(typing, v) = {g}
        BY <3>2, NodeTypesAre
      <4> QED BY <4>1, <4>2, <4>3, OfOnly
    <3>4. PICK h : h = Allocate(heap, "Error", v)
      OBVIOUS
    <3>5. "Error" \in Kind /\ AdmitsKind("Error", g)
      BY DEF Kind, AdmitsKind
    <3>6. PICK H : Consistent(typing, h, resolved, H) /\ Extends(G, heap, H) /\ H[Len(heap) + 1] = g
      BY <1>0, <3>1, <3>3, <3>4, <3>5, AllocateMeans
    <3>7. Memory(h, resolved) /\ Len(heap) + 1 \in DOMAIN h
      <4>1. Memory(h, resolved) /\ DOMAIN h = 1..(Len(heap) + 1)
        BY <1>0, <3>3, <3>4, <3>5, AllocateMemory
      <4>2. Len(heap) \in Nat
        BY <1>0, LenProperties DEF Memory
      <4> QED BY <4>1, <4>2
    <3>8. Evaluates(h, resolved, Len(heap) + 1)
      BY <2>6, <3>2, <3>4 DEF Allocate
    <3>9. at \in Lets => H[Len(heap) + 1] = typing[at]
      BY <3>2, <3>6
    <3> QED BY <1>0, <1>1, <3>6, <3>7, <3>8, <3>9, EvaluatesMeans
  <2> QED BY <1>2, <2>1, <2>5, <2>6 DEF Sum
<1>3. CASE Comparison
  <2>0. Operator = "==" /\ Len(values) = 2
    BY <1>3, SidesMean DEF Comparison, Operands
  <2>1. PICK l, r : l = values[1] /\ r = values[2]
    OBVIOUS
  <2>2. l \in DOMAIN heap /\ r \in DOMAIN heap
    BY <2>0, <2>1, ValuesAre
  <2>3. G[r] = G[l]
    BY <1>0, <2>0, <2>1, SidesMean, ValueMeansNow
  <2>4. PICK o : o = BuiltinType("bool")
    OBVIOUS
  <2>5. o \in DOMAIN heap /\ (at \in Lets => G[o] = typing[at])
    <3>1. o \in DOMAIN heap /\ G[o] = "bool"
      BY <1>0, <2>4, SharedMean DEF Ground
    <3>2. at \in Lets => typing[at] = "bool"
      BY <1>1, <2>0, StatementTypes
    <3> QED BY <3>1, <3>2
  <2>6. CASE Evaluates(Unify(l, r).heap, Unify(l, r).resolved, o)
    BY <1>1, <2>2, <2>3, <2>5, <2>6, UnifiesEvaluatesMeans
  <2>7. CASE Fails(l, r)
    BY <1>0, <2>7, NoneMeans DEF Fails
  <2> QED BY <1>3, <2>1, <2>4, <2>6, <2>7 DEF Comparison
<1>4. CASE If
  <2>0. Operator = "if" /\ Len(values) = 3
    BY <1>4, BranchesMean DEF If, Operands
  <2>1. PICK l, r : l = values[2] /\ r = values[3]
    OBVIOUS
  <2>2. l \in DOMAIN heap /\ r \in DOMAIN heap
    BY <2>0, <2>1, ValuesAre
  <2>3. G[l] \in Branches(typing, at) /\ G[r] = G[l]
    BY <1>0, <2>0, <2>1, BranchesMean, ValueMeansNow
  <2>4. at \in Lets => G[l] = typing[at]
    BY <1>1, <2>0, <2>3, StatementTypes
  <2>5. CASE Evaluates(Unify(l, r).heap, Unify(l, r).resolved, Unify(l, r).type)
    BY <1>1, <2>2, <2>3, <2>4, <2>5, UnifiesEvaluatesMeans
  <2>6. CASE Fails(l, r)
    BY <1>0, <2>6, NoneMeans DEF Fails
  <2> QED BY <1>4, <2>1, <2>5, <2>6 DEF If
<1> QED BY <1>2, <1>3, <1>4

LEMMA AssignmentStep ==
  ASSUME TypeOK, NEW typing \in Typings, NEW G, Meaning(typing, G), Assignment \/ AssignmentAgain
  PROVE  Meant(typing)'
<1>0. ValuesMean(typing, G) /\ Meant(typing)
  BY DEF Meaning, Meant
<1>1. Operator \in Assigns /\ Operator \in {"+", "==", "=", "+="} /\ Len(values) \in {2, 3}
  <2>1. Operator \in Assigns
    BY DEF Assignment, AssignmentAgain, Operands
  <2>2. Operator \in {"+", "==", "=", "+="}
    BY <2>1 DEF Assigns
  <2>3. Len(Args) = 2
    BY <2>2, SidesMean
  <2> QED BY <2>1, <2>2, <2>3 DEF Assignment, AssignmentAgain, Operands
<1>2. PICK l, r : l = values[1] /\ r = values[2]
  OBVIOUS
<1>3. /\ l \in DOMAIN heap /\ r \in DOMAIN heap /\ G[l] = Value(typing, 1) /\ G[r] = G[l]
      /\ Value(typing, 3) = Value(typing, 1)
  BY <1>0, <1>1, <1>2, ValuesAre, SidesMean, ValueMeansNow
<1>4. CASE Assignment
  <2>1. Len(values) + 1 = 3
    <3>1. Len(values) = 2
      BY <1>1, <1>4, SidesMean DEF Assignment, Operands
    <3> QED BY <3>1
  <2>2. CASE Unifies(l, r) /\ values' = Append(values, Unify(l, r).type) /\ UNCHANGED at
    <3>1. Value(typing, Len(values) + 1) = G[r]
      BY <1>3, <2>1, Zenon
    <3> QED BY <1>3, <2>2, <3>1, UnifiesValueMeans
  <2>3. CASE Fails(l, r)
    BY <1>0, <2>3, NoneMeans DEF Fails
  <2> QED BY <1>2, <1>4, <2>2, <2>3 DEF Assignment
<1>5. CASE AssignmentAgain
  <2>1. PICK u : u = values[3]
    OBVIOUS
  <2>2. u \in DOMAIN heap /\ G[u] = G[l]
    BY <1>0, <1>3, <1>5, <2>1, ValuesAre, ValueMeansNow DEF AssignmentAgain
  <2>3. Unifies(l, u) /\ NextStatement
    BY <1>2, <1>5, <2>1 DEF AssignmentAgain
  <2> QED BY <1>3, <2>2, <2>3, UnifiesNextMeans
<1> QED BY <1>4, <1>5

LEMMA ReturnIs ==
  ASSUME TypeOK, Return
  PROVE  at \in DOMAIN Body /\ at \notin Lets /\ Operator = "none" /\ Args # <<>>
<1>1. at \in DOMAIN Body /\ Body[at].op = "return"
  BY ArgsAre DEF Return, TypeOK, Control
<1>2. Body[at] \in Statement /\ Operator = Body[at].operator /\ Args = Body[at].args
  BY <1>1, ArgsAre DEF TypeOK
<1>3. Operator = "none"
  BY <1>1, <1>2 DEF Statement
<1>4. Len(Args) \in Arity(Body[at])
  BY <1>1, <1>2, FunctionIs DEF TypeOK, WellFormed, Body
<1>5. Len(Args) = 1
  BY <1>1, <1>2, <1>3, <1>4 DEF Arity
<1>6. Len(<<>>) = 0
  OBVIOUS
<1>7. Args # <<>>
  BY <1>5, <1>6
<1>8. at \notin Lets
  BY <1>1 DEF Lets
<1> QED BY <1>1, <1>3, <1>7, <1>8

LEMMA ReturnStep ==
  ASSUME TypeOK, NEW typing \in Typings, NEW G, Meaning(typing, G), Return
  PROVE  Meant(typing)'
<1>1. /\ ValuesMean(typing, G) /\ Meant(typing) /\ Consistent(typing, heap, resolved, G)
      /\ Len(values) = 1
  BY DEF Meaning, Meant, Return
<1>2. at \in DOMAIN Body /\ at \notin Lets /\ Operator = "none" /\ Args # <<>>
  BY ReturnIs
<1>3. PICK l, r : l = ReturnType /\ r = values[1]
  OBVIOUS
<1>4. l \in DOMAIN heap /\ r \in DOMAIN heap /\ G[l] = G[r]
  <2>1. l \in DOMAIN heap /\ G[l] = function.returns
    BY <1>1, <1>3, SharedMean
  <2>2. r \in DOMAIN heap /\ G[r] = Value(typing, 1)
    BY <1>1, <1>3, ValuesAre, ValueMeansNow
  <2>3. Value(typing, 1) = function.returns
    BY <1>2, ValueMeans
  <2> QED BY <2>1, <2>2, <2>3
<1>5. CASE Unifies(l, r) /\ NextStatement
  BY <1>4, <1>5, UnifiesNextMeans
<1>6. CASE Fails(l, r)
  BY <1>1, <1>6, NoneMeans DEF Fails
<1> QED BY <1>3, <1>5, <1>6 DEF Return

\* What a let statement initialises its variable with has the type of the variable.
LEMMA InitialiserMeans ==
  ASSUME TypeOK, NEW typing \in Typings, NEW G, ValuesMean(typing, G), AtLet(TRUE)
  PROVE  G[Initialiser] = typing[at]
<1>1. at \in DOMAIN Body /\ at \in Lets /\ Args # <<>>
  BY AtLetIs
<1>2. PICK n \in Nat : n = Len(values)
  BY LenProperties DEF TypeOK
<1>3. n = IF Operator = "none" THEN 1 ELSE Len(Args) + 1
  BY <1>2, AtLetIs
<1>4. n \in DOMAIN values
  <2>1. n \in 1..n
    BY <1>3, ArgsAre DEF TypeOK
  <2> QED BY <1>2, <2>1, LenProperties DEF TypeOK
<1>5. G[Initialiser] = Value(typing, n)
  BY <1>2, <1>4 DEF ValuesMean, Initialiser
<1>6. Value(typing, n) = typing[at]
  <2>1. CASE Operator = "none"
    <3>1. Value(typing, 1) = typing[at]
      BY <1>1, <2>1, ValueMeans
    <3> QED BY <1>3, <2>1, <3>1, Zenon
  <2>2. CASE Operator # "none"
    <3>1. Len(Args) \in Nat
      BY ArgsAre DEF TypeOK
    <3>2. ~(n <= Len(Args))
      BY <1>3, <2>2, <3>1
    <3> QED BY <1>1, <3>2, Zenon DEF Value
  <2> QED BY <2>1, <2>2
<1> QED BY <1>5, <1>6

LEMMA LetStep ==
  ASSUME TypeOK, NEW typing \in Typings, NEW G, Meaning(typing, G),
         LetError \/ LetCoerced \/ LetInferred \/ LetDeclared
  PROVE  Meant(typing)'
<1>0. /\ ValuesMean(typing, G) /\ Meant(typing) /\ Consistent(typing, heap, resolved, G)
      /\ Memory(heap, resolved)
  BY DEF Meaning, Meant, TypeOK, Sound
<1>1. CASE LetError
  <2>1. CASE NextStatement /\ UNCHANGED <<function, heap, resolved, outcome>>
    <3>1. PICK h, ctx : h = heap /\ ctx = resolved
      OBVIOUS
    <3> QED BY <1>0, <2>1, <3>1, NextMeans
  <2>2. CASE UNCHANGED <<function, heap, resolved, phase, at, values>>
    BY <1>0, <2>2, NoneMeans
  <2> QED BY <1>1, <2>1, <2>2 DEF LetError
<1>2. CASE LetCoerced
  <2>1. /\ at \in DOMAIN Body /\ at \in Lets /\ Initialiser \in DOMAIN heap
        /\ Body[at].type \in Ground /\ Body[at].type # "none"
    BY <1>2, AtLetIs DEF LetCoerced, Specified
  <2>2. PICK e, r : e = BuiltinType(Body[at].type) /\ r = Initialiser
    OBVIOUS
  <2>3. e \in DOMAIN heap /\ G[e] = typing[at]
    BY <1>0, <2>1, <2>2, SharedMean, TypingIs
  <2>4. r \in DOMAIN heap /\ G[r] = typing[at]
    BY <1>0, <1>2, <2>1, <2>2, InitialiserMeans DEF LetCoerced
  <2>5. CASE Declares(Unify(e, r).heap, Unify(e, r).resolved, e)
    <3>1. PICK h, ctx : h = Unify(e, r).heap /\ ctx = Unify(e, r).resolved
      OBVIOUS
    <3>2. PICK H : Consistent(typing, h, ctx, H) /\ Extends(G, heap, H)
      <4>1. G[e] = G[r]
        BY <2>3, <2>4
      <4>2. \E H : /\ Consistent(typing, Unify(e, r).heap, Unify(e, r).resolved, H)
                   /\ Extends(G, heap, H) /\ H[Unify(e, r).type] = G[e]
        BY <2>3, <2>4, <4>1, UnifyAfter
      <4> QED BY <3>1, <4>2, Zenon
    <3>3. H[e] = typing[at]
      BY <2>3, <3>2 DEF Extends
    <3> QED BY <2>1, <2>5, <3>1, <3>2, <3>3, DeclaresMeans
  <2>6. CASE Fails(e, r)
    BY <1>0, <2>6, NoneMeans DEF Fails
  <2> QED BY <1>2, <2>2, <2>5, <2>6 DEF LetCoerced
<1>3. CASE LetInferred
  <2>1. at \in Lets /\ G[Initialiser] = typing[at]
    BY <1>0, <1>3, AtLetIs, InitialiserMeans DEF LetInferred
  <2>2. PICK h, ctx, o : h = heap /\ ctx = resolved /\ o = Initialiser
    OBVIOUS
  <2> QED BY <1>0, <1>3, <2>1, <2>2, DeclaresMeans DEF LetInferred
<1>4. CASE LetDeclared
  <2>1. at \in Lets /\ Body[at].type \in Ground \cup {"none"}
    BY <1>4, AtLetIs DEF LetDeclared
  <2>2. CASE Specified /\ Declares(heap, resolved, BuiltinType(Body[at].type))
    <3>1. PICK h, ctx, o : h = heap /\ ctx = resolved /\ o = BuiltinType(Body[at].type)
      OBVIOUS
    <3>2. Body[at].type \in Ground /\ Body[at].type # "none"
      BY <2>1, <2>2 DEF Specified
    <3>3. G[o] = typing[at]
      BY <1>0, <2>1, <3>1, <3>2, SharedMean, TypingIs
    <3> QED BY <1>0, <2>1, <2>2, <3>1, <3>3, DeclaresMeans
  <2>3. CASE Declares(Append(heap, Fresh("General", <<at, "let">>)), resolved, Len(heap) + 1)
    <3>1. PICK v, g : v = <<at, "let">> /\ g = typing[at]
      OBVIOUS
    <3>2. v \in NodeId /\ g \in Builtin /\ Of(typing, v, g)
      <4>1. v \in NodeId
        BY <3>1 DEF NodeId, Role, TypeOK
      <4>2. g \in Builtin
        BY <2>1, <3>1, TypingIs DEF Builtin
      <4>3. v[2] = "let" /\ "let" \notin Named
        BY <3>1 DEF Named
      <4> QED BY <4>1, <4>2, <4>3 DEF Of
    <3>3. PICK h : h = Allocate(heap, "General", v)
      OBVIOUS
    <3>4. "General" \in Kind /\ AdmitsKind("General", g) /\ "General" # "Error"
      BY DEF Kind, AdmitsKind
    <3>5. PICK H : Consistent(typing, h, resolved, H) /\ Extends(G, heap, H) /\ H[Len(heap) + 1] = g
      BY <1>0, <3>2, <3>3, <3>4, AllocateMeans
    <3>6. PICK o, ctx : o = Len(heap) + 1 /\ ctx = resolved
      OBVIOUS
    <3>7. Declares(h, ctx, o) /\ H[o] = typing[at] /\ Consistent(typing, h, ctx, H)
      BY <2>3, <3>1, <3>3, <3>5, <3>6 DEF Allocate
    <3> QED BY <2>1, <3>7, DeclaresMeans
  <2> QED BY <1>4, <2>2, <2>3 DEF LetDeclared
<1> QED BY <1>1, <1>2, <1>3, <1>4

LEMMA BlockStep ==
  ASSUME TypeOK, NEW typing \in Typings, NEW G, Meaning(typing, G), Block
  PROVE  Meant(typing)'
<1>0. /\ ValuesMean(typing, G) /\ Meant(typing) /\ Consistent(typing, heap, resolved, G)
      /\ Memory(heap, resolved)
  BY DEF Meaning, Meant, TypeOK, Sound
<1>1. /\ at \notin DOMAIN Body /\ at \notin Lets /\ Len(values) = Len(Args) /\ Operator = "none"
      /\ Args = function.trailing
  <2>1. at = Len(Body) + 1 /\ Len(values) = Len(Args)
    BY ArgsAre DEF Block, TypeOK, Control
  <2>2. at \notin DOMAIN Body
    BY <2>1, ArgsAre DEF TypeOK
  <2> QED BY <2>1, <2>2, ArgsAre DEF TypeOK, Lets
<1>2. PICK node : node = <<at, "block">>
  OBVIOUS
<1>3. node \in NodeId /\ \A g : Of(typing, node, g)
  <2>1. node \in NodeId /\ node[2] = "block"
    BY <1>2 DEF NodeId, Role, TypeOK
  <2>2. "block" \notin Named
    BY DEF Named
  <2> QED BY <2>1, <2>2 DEF Of
<1>4. \A ctx, o : Insert(ctx, node, o) = Place(ctx, {node}, o)
  BY DEF Insert, Place
<1>5. \A k : Value(typing, k) = function.returns
  BY <1>1 DEF Value
<1>6. CASE /\ Args # <<>> /\ heap' = [heap EXCEPT ![values[1]].ref = node]
           /\ resolved' = Insert(resolved, node, values[1])
           /\ UNCHANGED <<function, at, values, outcome>>
  <2>1. Len(values) = 1
    BY <1>1, <1>6, ValueMeans
  <2>2. values[1] \in DOMAIN heap
    BY <2>1, ValuesAre
  <2>3. PICK h, c : h = Refer(heap, values[1], node) /\ c = Place(resolved, {node}, values[1])
    OBVIOUS
  <2>4. Consistent(typing, h, resolved, G)
    BY <1>0, <1>3, <2>2, <2>3, ReferMeans
  <2>5. Consistent(typing, h, c, G)
    BY <1>3, <2>3, <2>4, PlaceMeans
  <2>6. heap' = h /\ resolved' = c
    BY <1>4, <1>6, <2>3 DEF Refer
  <2>7. Consistent(typing, heap, resolved, G)'
    BY <1>6, <2>5, <2>6, ConsistentStays
  <2>8. ValuesMean(typing, G)'
    <3>1. PICK vs : vs = values
      OBVIOUS
    <3>2. \A k \in DOMAIN vs : G[vs[k]] = function.returns
      BY <1>0, <1>5, <3>1 DEF ValuesMean
    <3>3. values' = vs /\ at' = at /\ function' = function
      BY <1>6, <3>1
    <3>4. \A k : Value(typing, k)' = function.returns
      BY <1>5, <3>3, ValueStays
    <3> QED BY <3>2, <3>3, <3>4 DEF ValuesMean
  <2> QED BY <2>7, <2>8 DEF Meaning, Meant
<1>7. CASE /\ Args = <<>> /\ ~HasReturn
           /\ heap' = Append(heap, Fresh("()", node))
           /\ resolved' = Insert(resolved, node, Len(Append(heap, Fresh("()", node))))
           /\ values' = <<Len(Append(heap, Fresh("()", node)))>>
           /\ UNCHANGED <<function, at, outcome>>
  <2>1. function.returns = "()"
    BY <1>1, <1>7, TypingIs
  <2>2. "()" \in Kind /\ "()" \in Builtin /\ AdmitsKind("()", "()") /\ "()" # "Error"
    BY DEF Kind, Builtin, AdmitsKind
  <2>3. PICK h, c, o : /\ h = Allocate(heap, "()", node) /\ o = Len(heap) + 1
                       /\ c = Place(resolved, {node}, o)
    OBVIOUS
  <2>4. PICK H : Consistent(typing, h, resolved, H) /\ H[o] = "()"
    BY <1>0, <1>3, <2>2, <2>3, AllocateMeans
  <2>5. Consistent(typing, h, c, H)
    BY <1>3, <2>3, <2>4, PlaceMeans
  <2>6. Len(h) = o
    BY <1>0, <1>3, <2>2, <2>3, AllocateMemory
  <2>7. heap' = h /\ resolved' = c /\ values' = <<o>>
    BY <1>4, <1>7, <2>3, <2>6 DEF Allocate
  <2>8. Consistent(typing, heap, resolved, H)'
    BY <1>7, <2>5, <2>7, ConsistentStays
  <2>9. ValuesMean(typing, H)'
    <3>1. \A k : Value(typing, k)' = "()"
      BY <1>5, <1>7, <2>1, ValueStays
    <3>2. \A k \in DOMAIN <<o>> : H[<<o>>[k]] = "()"
      BY <2>4
    <3> QED BY <2>7, <3>1, <3>2, Zenon DEF ValuesMean
  <2> QED BY <2>8, <2>9 DEF Meaning, Meant
<1>8. CASE UNCHANGED <<function, heap, resolved, phase, at, values>>
  BY <1>0, <1>8, NoneMeans
<1> QED BY <1>2, <1>6, <1>7, <1>8, Zenon DEF Block

LEMMA CoerceStep ==
  ASSUME TypeOK, NEW typing \in Typings, NEW G, Meaning(typing, G), Coerce \/ CoerceAgain
  PROVE  Meant(typing)'
<1>0. /\ ValuesMean(typing, G) /\ Meant(typing) /\ Consistent(typing, heap, resolved, G)
      /\ phase = "body" /\ Len(values) \in {1, 2}
  BY DEF Meaning, Meant, Coerce, CoerceAgain
<1>1. \A k : Value(typing, k) = function.returns
  <2>1. at = Len(Body) + 1
    BY <1>0 DEF TypeOK, Control
  <2>2. at \notin DOMAIN Body
    BY <2>1, ArgsAre DEF TypeOK
  <2> QED BY <2>2 DEF Value
<1>2. PICK l : l = ReturnType
  OBVIOUS
<1>3. l \in DOMAIN heap /\ G[l] = function.returns
  BY <1>0, <1>2, SharedMean
<1>4. CASE Coerce
  <2>1. PICK r : r = values[1]
    OBVIOUS
  <2>2. r \in DOMAIN heap /\ G[r] = function.returns
    BY <1>0, <1>1, <1>4, <2>1, ValuesAre, ValueMeansNow DEF Coerce
  <2>3. CASE Unifies(l, r) /\ values' = Append(values, Unify(l, r).type) /\ UNCHANGED at
    <3>1. G[l] = G[r] /\ Value(typing, Len(values) + 1) = G[r]
      BY <1>1, <1>3, <2>2, Zenon
    <3> QED BY <1>3, <2>2, <2>3, <3>1, UnifiesValueMeans
  <2>4. CASE Fails(l, r)
    BY <1>0, <2>4, NoneMeans DEF Fails
  <2> QED BY <1>2, <1>4, <2>1, <2>3, <2>4 DEF Coerce
<1>5. CASE CoerceAgain
  <2>1. PICK r : r = values[2]
    OBVIOUS
  <2>2. r \in DOMAIN heap /\ G[r] = function.returns
    BY <1>0, <1>1, <1>5, <2>1, ValuesAre, ValueMeansNow DEF CoerceAgain
  <2>3. PICK h, ctx : h = Unify(l, r).heap /\ ctx = Unify(l, r).resolved
    OBVIOUS
  <2>4. PICK H : Consistent(typing, h, ctx, H) /\ Extends(G, heap, H)
    <3>1. G[l] = G[r]
      BY <1>3, <2>2
    <3>2. \E H : /\ Consistent(typing, Unify(l, r).heap, Unify(l, r).resolved, H)
                 /\ Extends(G, heap, H) /\ H[Unify(l, r).type] = G[l]
      BY <1>3, <2>2, <3>1, UnifyAfter
    <3> QED BY <2>3, <3>2, Zenon
  <2>5. heap' = h /\ resolved' = ctx /\ UNCHANGED <<function, at, values>>
    BY <1>2, <1>5, <2>1, <2>3 DEF CoerceAgain
  <2>6. Consistent(typing, heap, resolved, H)'
    BY <2>4, <2>5, ConsistentStays
  <2>7. ValuesMean(typing, H)'
    <3>1. \A k \in DOMAIN values : H[values[k]] = function.returns
      <4>1. \A k \in DOMAIN values : values[k] \in DOMAIN heap
        BY DEF TypeOK
      <4> QED BY <1>0, <1>1, <2>4, <4>1 DEF ValuesMean, Extends
    <3>2. \A k : Value(typing, k)' = function.returns
      BY <1>1, <2>5, ValueStays
    <3>3. values' = values
      BY <2>5
    <3> QED BY <3>1, <3>2, <3>3 DEF ValuesMean
  <2> QED BY <2>6, <2>7 DEF Meaning, Meant
<1> QED BY <1>4, <1>5

LEMMA FunctionKept ==
  ASSUME [Next]_vars
  PROVE  UNCHANGED function
<1>1. CASE IntegerLiteral \/ BooleanLiteral \/ Variable
  BY <1>1 DEF IntegerLiteral, BooleanLiteral, Variable, Typed
<1>2. CASE Sum
  BY <1>2 DEF Sum, Evaluates, Typed
<1>3. CASE Comparison
  BY <1>3 DEF Comparison, Evaluates, Typed, Fails
<1>4. CASE If
  BY <1>4 DEF If, Evaluates, Typed, Fails
<1>5. CASE Assignment \/ AssignmentAgain \/ Return
  BY <1>5 DEF Assignment, AssignmentAgain, Return, Unifies, Fails
<1>6. CASE LetError \/ LetCoerced \/ LetInferred \/ LetDeclared
  BY <1>6, Zenon DEF LetError, LetCoerced, LetInferred, LetDeclared, Declares, Fails
<1>7. CASE Block \/ Coerce \/ CoerceAgain
  BY <1>7, Zenon DEF Block, Coerce, CoerceAgain, Unifies, Fails
<1>8. CASE UNCHANGED vars
  BY <1>8 DEF vars
<1> QED BY <1>1, <1>2, <1>3, <1>4, <1>5, <1>6, <1>7, <1>8 DEF Next

\* The first objects are builtin types, and no node of the function has one.
LEMMA InitialObjects ==
  ASSUME Init
  PROVE  /\ \A p \in DOMAIN heap : /\ heap[p].kind \in Builtin
                                   /\ \A n \in Refs(heap[p]) : n[2] \notin Named
         /\ \A n \in DOMAIN resolved : n[2] \notin Named
<1>1. TypeOK /\ function.returns \in Builtin
  BY InitTyped, FunctionIs DEF TypeOK
<1>2. DOMAIN Builtins = 1..4 /\ \A o \in 1..4 : Builtins[o] \in Builtin
  BY DEF Builtins, Builtin, Ground, Integer
<1>3. PICK scalars :
        scalars = [o \in DOMAIN Builtins |->
                     Fresh(Builtins[o], IF Builtins[o] = function.returns THEN <<0, "function">>
                                        ELSE <<o, "builtin">>)]
  OBVIOUS
<1>4. heap = IF function.returns = "()" THEN Append(scalars, Fresh("()", <<0, "function">>)) ELSE scalars
  BY <1>3 DEF Init
<1>5. \A kind, m : Fresh(kind, m).kind = kind /\ Refs(Fresh(kind, m)) = {m}
  BY DEF Fresh, Refs
<1>6. "builtin" \notin Named /\ "function" \notin Named
  BY DEF Named
<1>7. ASSUME NEW o \in 1..4
      PROVE  scalars[o].kind \in Builtin /\ \A n \in Refs(scalars[o]) : n[2] \notin Named
  <2>1. PICK m : m = IF Builtins[o] = function.returns THEN <<0, "function">> ELSE <<o, "builtin">>
    OBVIOUS
  <2>2. m[2] \in {"function", "builtin"}
    BY <2>1
  <2>3. scalars[o] = Fresh(Builtins[o], m)
    BY <1>2, <1>3, <2>1
  <2> QED BY <1>2, <1>5, <1>6, <2>2, <2>3
<1>8. \A p \in DOMAIN heap : heap[p].kind \in Builtin /\ \A n \in Refs(heap[p]) : n[2] \notin Named
  <2>1. CASE function.returns = "()"
    <3>1. PICK t, m : m = <<0, "function">> /\ t = Fresh("()", m)
      OBVIOUS
    <3>2. t.kind \in Builtin /\ Refs(t) = {m} /\ m[2] = "function"
      BY <1>5, <3>1 DEF Builtin
    <3>3. heap = Append(scalars, t) /\ scalars \in Seq({scalars[o] : o \in 1..4}) /\ Len(scalars) = 4
      BY <1>2, <1>3, <1>4, <2>1, <3>1
    <3>4. DOMAIN heap = 1..5 /\ heap[5] = t /\ \A o \in 1..4 : heap[o] = scalars[o]
      <4>1. /\ DOMAIN heap = 1..(Len(scalars) + 1) /\ heap[Len(scalars) + 1] = t
            /\ \A o \in 1..Len(scalars) : heap[o] = scalars[o]
        <5>1. PICK S : scalars \in Seq(S)
          BY <3>3
        <5>2. /\ DOMAIN Append(scalars, t) = 1..(Len(scalars) + 1)
              /\ Append(scalars, t)[Len(scalars) + 1] = t
              /\ \A o \in 1..Len(scalars) : Append(scalars, t)[o] = scalars[o]
          BY <5>1, AppendIs
        <5> QED BY <3>3, <5>2, Zenon
      <4> QED BY <3>3, <4>1
    <3>5. \A p \in 1..5 : p = 5 \/ p \in 1..4
      OBVIOUS
    <3>6. \A n \in Refs(t) : n[2] \notin Named
      BY <1>6, <3>2
    <3> QED BY <1>7, <3>2, <3>4, <3>5, <3>6, Zenon
  <2>2. CASE function.returns # "()"
    BY <1>2, <1>3, <1>4, <1>7, <2>2
  <2> QED BY <2>1, <2>2
<1>9. \A n \in DOMAIN resolved : n[2] \notin Named
  <2>1. ASSUME NEW n \in DOMAIN resolved PROVE n = <<0, "function">> \/ \E o : n = <<o, "builtin">>
    <3>1. n \in {<<o, "builtin">> : o \in DOMAIN Builtins}
                  \cup (IF function.returns = "()" THEN {} ELSE {<<0, "function">>})
      BY <2>1, Zenon DEF Init
    <3> QED BY <3>1
  <2>2. \A n \in DOMAIN resolved : n[2] \in {"function", "builtin"}
    BY <2>1
  <2> QED BY <1>6, <2>2
<1> QED BY <1>8, <1>9

LEMMA InitMeans ==
  ASSUME Init, NEW typing
  PROVE  Meant(typing)
<1>1. TypeOK
  BY InitTyped
<1>2. PICK G : G = [p \in DOMAIN heap |-> heap[p].kind]
  OBVIOUS
<1>3. \A p \in DOMAIN heap : G[p] = heap[p].kind /\ G[p] \in Builtin
  BY <1>2, InitialObjects
<1>4. ASSUME NEW p \in DOMAIN heap
      PROVE  /\ Admits(heap[p], G[p])
             /\ \A n \in Refs(heap[p]) : Of(typing, n, G[p])
             /\ heap[p].kind = "Error" => AddsUndeclared
  <2>1. AdmitsKind(heap[p].kind, G[p]) /\ heap[p].kind # "Error"
    BY <1>3 DEF AdmitsKind, Builtin, Ground, Integer
  <2>2. \A n \in Refs(heap[p]) : Of(typing, n, G[p])
    BY InitialObjects DEF Of
  <2> QED BY <2>1, <2>2, AdmitsIs
<1>5. \A n \in DOMAIN resolved : Of(typing, n, G[resolved[n]])
  BY InitialObjects DEF Of
<1>6. G \in [DOMAIN heap -> Builtin]
  BY <1>2, <1>3
<1>7. Consistent(typing, heap, resolved, G)
  BY <1>4, <1>5, <1>6 DEF Consistent
<1>8. ValuesMean(typing, G)
  BY DEF Init, ValuesMean
<1> QED BY <1>7, <1>8 DEF Meaning, Meant

LEMMA StepMeans ==
  ASSUME TypeOK, NEW typing \in Typings, Meant(typing), [Next]_vars
  PROVE  Meant(typing)'
<1>0. PICK G : Meaning(typing, G)
  BY DEF Meant
<1>1. CASE IntegerLiteral \/ BooleanLiteral \/ Variable
  BY <1>0, <1>1, OperandStep
<1>2. CASE Sum \/ Comparison \/ If
  BY <1>0, <1>2, OperationStep
<1>3. CASE Assignment \/ AssignmentAgain
  BY <1>0, <1>3, AssignmentStep
<1>4. CASE Return
  BY <1>0, <1>4, ReturnStep
<1>5. CASE LetError \/ LetCoerced \/ LetInferred \/ LetDeclared
  BY <1>0, <1>5, LetStep
<1>6. CASE Block
  BY <1>0, <1>6, BlockStep
<1>7. CASE Coerce \/ CoerceAgain
  BY <1>0, <1>7, CoerceStep
<1>8. CASE UNCHANGED vars
  BY <1>8, NoneMeans DEF vars
<1> QED BY <1>1, <1>2, <1>3, <1>4, <1>5, <1>6, <1>7, <1>8 DEF Next

\* The typings are those of the function.
LEMMA TypingsStay ==
  ASSUME UNCHANGED function
  PROVE  Typings' = Typings
<1>1. Body' = Body /\ Lets' = Lets /\ (HasReturn' <=> HasReturn)
  BY DEF Body, Lets, HasReturn
<1>2. \A typing, A : OperandTypes(typing, A)' = OperandTypes(typing, A)
  BY FunctionStays
<1>3. \A typing, s : Types(typing, s)' = Types(typing, s)
  BY <1>2, Zenon DEF Types, HasType
<1>4. ASSUME NEW typing PROVE IsTyping(typing)' <=> IsTyping(typing)
  BY <1>1, <1>2, <1>3, Zenon DEF IsTyping
<1> QED BY <1>1, <1>4 DEF Typings

LEMMA MeantAgrees ==
  ASSUME NEW typing \in Typings, Meant(typing), NEW n \in DOMAIN resolved, n[2] \in Named,
         TypeOK
  PROVE  \E t \in NodeTypes(typing, n) : Admits(heap[resolved[n]], t)
<1>1. PICK G : Consistent(typing, heap, resolved, G)
  BY DEF Meant, Meaning
<1>2. PICK p \in DOMAIN heap : p = resolved[n]
  BY DEF TypeOK, Sound, Memory
<1>3. Of(typing, n, G[p]) /\ Admits(heap[p], G[p])
  BY <1>1, <1>2 DEF Consistent
<1>4. G[p] \in NodeTypes(typing, n)
  BY <1>3 DEF Of, TypeOf
<1> QED BY <1>2, <1>3, <1>4

\* In every typing of the function, the types that checkBlockExpression, unify and
\* commit have given the variables and operands so far are still possible: one type
\* for every type object, which it admits and which is that of all the nodes that
\* share it or that it refers to.
THEOREM AlwaysAgrees == Spec => []AgreesWithTypings
<1> DEFINE AllMeant == \A typing \in Typings : Meant(typing)
<1>1. Init => AllMeant
  BY InitMeans
<1>2. TypeOK /\ AllMeant /\ [Next]_vars => AllMeant'
  <2> SUFFICES ASSUME TypeOK, AllMeant, [Next]_vars PROVE AllMeant'
    OBVIOUS
  <2>1. UNCHANGED function
    BY FunctionKept
  <2>2. \A typing \in Typings : Meant(typing)'
    BY StepMeans
  <2>3. Typings' = Typings
    BY <2>1, TypingsStay
  <2> QED BY <2>2, <2>3
<1>3. TypeOK /\ AllMeant => AgreesWithTypings
  BY MeantAgrees DEF AgreesWithTypings, Named
<1> QED BY <1>1, <1>2, <1>3, TypeCorrect, PTL DEF Spec

-----------------------------------------------------------------------------
(* Functions that are given up *)

\* Where a type that is to be bool cannot be unified with itself: what may be
\* the reason for giving up.
Excuse(typing) == UnifiesWithBool(typing) \/ OnlyReturns \/ AddsUndeclared

\* The variables declared so far have a type, unless a sum has none.
PatternsKnown ==
  \A i \in Lets : i < at \/ phase # "first" =>
    <<i, "pattern">> \in DOMAIN resolved \/ AddsUndeclared

\* Two types that one type is possible for can be unified, but for bool.
LEMMA KindsUnify ==
  ASSUME NEW kind \in Kind, NEW other \in Kind, NEW g \in Builtin,
         AdmitsKind(kind, g), AdmitsKind(other, g), kind # "Error", other # "Error"
  PROVE  UnifiableKinds(kind, other) \/ g = "bool"
BY DEF UnifiableKinds, AdmitsKind, Kind, Builtin, Ground, Integer

LEMMA FailsOnBool ==
  ASSUME TypeOK, NEW typing, NEW G, Consistent(typing, heap, resolved, G),
         NEW l \in DOMAIN heap, NEW r \in DOMAIN heap, G[l] = G[r], Fails(l, r)
  PROVE  G[l] = "bool" \/ AddsUndeclared
<1>1. /\ heap[l].kind \in Kind /\ heap[r].kind \in Kind /\ G[l] \in Builtin
      /\ AdmitsKind(heap[l].kind, G[l]) /\ AdmitsKind(heap[r].kind, G[l])
  BY KindsAre, AdmitsIs DEF Consistent
<1>2. heap[l].kind = "Error" \/ heap[r].kind = "Error" => AddsUndeclared
  BY DEF Consistent
<1>3. ~UnifiableKinds(heap[l].kind, heap[r].kind)
  BY UnifiableIs DEF Fails
<1> QED BY <1>1, <1>2, <1>3, KindsUnify

\* Operands that may be bool cannot be anything else.
LEMMA OnlyBool ==
  ASSUME NEW typing, NEW A \in Seq(Atom), A # <<>>, "bool" \in OperandTypes(typing, A)
  PROVE  OperandTypes(typing, A) = {"bool"}
<1>1. 1 \in DOMAIN A /\ A[1] \in Atom
  BY EmptySeq, LenProperties
<1>2. HasType(typing, A[1], "bool")
  BY <1>1, OperandTypesHave
<1>3. A[1].form # "integer" /\ A[1].form \in {"integer", "boolean", "variable"}
  BY <1>1, <1>2 DEF HasType, Integer, Atom
<1>4. ASSUME NEW t \in OperandTypes(typing, A) PROVE t = "bool"
  <2>1. HasType(typing, A[1], t)
    BY <1>1, OperandTypesHave
  <2> QED BY <1>2, <1>3, <2>1 DEF HasType
<1> QED BY <1>4

LEMMA OperationExcuse ==
  ASSUME TypeOK, NEW typing \in Typings, NEW G, Meaning(typing, G),
         Comparison \/ If \/ Assignment, outcome' = "aborted"
  PROVE  Excuse(typing)
<1>0. ValuesMean(typing, G) /\ Consistent(typing, heap, resolved, G) /\ outcome = "running"
  BY DEF Meaning, Comparison, If, Assignment, Operands
<1>1. CASE Comparison \/ Assignment
  <2>1. Operator \in {"+", "==", "=", "+="} /\ Operator # "+" /\ Len(values) = Len(Args)
    BY <1>1 DEF Comparison, Assignment, Operands, Assigns
  <2>2. at \in DOMAIN Body /\ Len(values) = 2 /\ Args # <<>>
    BY <2>1, SidesMean
  <2>3. PICK l, r : l = values[1] /\ r = values[2]
    OBVIOUS
  <2>4. /\ l \in DOMAIN heap /\ r \in DOMAIN heap /\ G[l] = G[r]
        /\ G[l] \in Sides(typing, at)
    BY <1>0, <2>1, <2>2, <2>3, ValuesAre, SidesMean, ValueMeansNow
  <2>5. Fails(l, r)
    <3>1. CASE Comparison
      BY <1>0, <2>1, <2>2, <2>3, <3>1 DEF Comparison, Evaluates, Typed
    <3>2. CASE Assignment
      BY <1>0, <2>3, <3>2 DEF Assignment, Unifies
    <3> QED BY <1>1, <3>1, <3>2
  <2>6. G[l] = "bool" \/ AddsUndeclared
    BY <1>0, <2>4, <2>5, FailsOnBool
  <2>7. ASSUME G[l] = "bool" PROVE UnifiesWithBool(typing)
    <3>1. Body[at] \in Statement /\ Args = Body[at].args /\ Operator = Body[at].operator
          /\ Args \in Seq(Atom)
      BY <2>2, ArgsAre DEF TypeOK
    <3>2. "bool" \in OperandTypes(typing, Args)
      BY <2>1, <2>2, <2>4, <2>7, StatementTypes
    <3>3. OperandTypes(typing, Args) = {"bool"}
      BY <2>2, <3>1, <3>2, OnlyBool
    <3>4. Operator # "+="
      <4>1. "bool" \notin Integer
        BY DEF Integer
      <4> QED BY <2>2, <2>4, <2>7, <4>1, StatementTypes
    <3>5. Body[at].operator \in {"==", "="}
      BY <2>1, <3>1, <3>4
    <3> QED BY <2>2, <3>1, <3>3, <3>5 DEF UnifiesWithBool
  <2> QED BY <2>6, <2>7 DEF Excuse
<1>2. CASE If
  <2>1. Operator = "if" /\ Len(values) = Len(Args)
    BY <1>2 DEF If, Operands
  <2>2. at \in DOMAIN Body /\ Len(values) = 3 /\ Len(Args) = 3 /\ Args # <<>>
    BY <2>1, BranchesMean
  <2>3. PICK l, r : l = values[2] /\ r = values[3]
    OBVIOUS
  <2>4. /\ l \in DOMAIN heap /\ r \in DOMAIN heap /\ G[l] = G[r]
        /\ G[l] \in Branches(typing, at)
    BY <1>0, <2>1, <2>2, <2>3, ValuesAre, BranchesMean, ValueMeansNow
  <2>5. Fails(l, r)
    BY <1>0, <1>2, <2>3 DEF If, Evaluates, Typed
  <2>6. G[l] = "bool" \/ AddsUndeclared
    BY <1>0, <2>4, <2>5, FailsOnBool
  <2>7. ASSUME G[l] = "bool" PROVE UnifiesWithBool(typing)
    <3>1. Args = Body[at].args /\ Operator = Body[at].operator /\ Args \in Seq(Atom)
      BY <2>2, ArgsAre DEF TypeOK
    <3>2. "bool" \in OperandTypes(typing, Tail(Args))
      BY <2>1, <2>2, <2>4, <2>7, StatementTypes
    <3>3. Tail(Args) \in Seq(Atom) /\ Len(Tail(Args)) = 2
      BY <2>2, <3>1
    <3>4. Tail(Args) # <<>>
      <4>1. PICK B \in Seq(Atom) : B = Tail(Args) /\ Len(B) = 2
        BY <3>3
      <4>2. B # <<>>
        <5>1. Len(<<>>) = 0
          OBVIOUS
        <5>2. 2 # 0
          OBVIOUS
        <5> QED BY <4>1, <5>1, <5>2, Zenon
      <4> QED BY <4>1, <4>2
    <3>5. OperandTypes(typing, Tail(Args)) = {"bool"}
      BY <3>2, <3>3, <3>4, OnlyBool
    <3> QED BY <2>1, <2>2, <3>1, <3>5 DEF UnifiesWithBool
  <2> QED BY <2>6, <2>7 DEF Excuse
<1> QED BY <1>1, <1>2

LEMMA ReturnExcuse ==
  ASSUME TypeOK, NEW typing \in Typings, NEW G, Meaning(typing, G),
         Return \/ Coerce, outcome' = "aborted"
  PROVE  Excuse(typing)
<1>0. /\ ValuesMean(typing, G) /\ Consistent(typing, heap, resolved, G)
      /\ outcome = "running" /\ Len(values) = 1
  BY DEF Meaning, Return, Coerce
<1>1. PICK l, r : l = ReturnType /\ r = values[1]
  OBVIOUS
<1>2. l \in DOMAIN heap /\ r \in DOMAIN heap /\ G[l] = function.returns /\ G[r] = Value(typing, 1)
  BY <1>0, <1>1, SharedMean, ValuesAre, ValueMeansNow
<1>3. Value(typing, 1) = function.returns
  <2>1. CASE Return
    <3>1. at \in DOMAIN Body /\ at \notin Lets /\ Operator = "none" /\ Args # <<>>
      BY <2>1, ReturnIs
    <3> QED BY <3>1, ValueMeans
  <2>2. CASE Coerce
    <3>1. at = Len(Body) + 1
      BY <2>2 DEF TypeOK, Control, Coerce
    <3>2. at \notin DOMAIN Body
      BY <3>1, ArgsAre DEF TypeOK
    <3> QED BY <3>2 DEF Value
  <2> QED BY <2>1, <2>2
<1>4. Fails(l, r)
  BY <1>0, <1>1 DEF Return, Coerce, Unifies
<1>5. G[l] = "bool" \/ AddsUndeclared
  BY <1>0, <1>2, <1>3, <1>4, FailsOnBool
<1> QED BY <1>2, <1>5 DEF Excuse, UnifiesWithBool

LEMMA LetExcuse ==
  ASSUME TypeOK, NEW typing \in Typings, NEW G, Meaning(typing, G),
         LetCoerced, outcome' = "aborted"
  PROVE  Excuse(typing)
<1>0. /\ ValuesMean(typing, G) /\ Consistent(typing, heap, resolved, G)
      /\ outcome = "running" /\ AtLet(TRUE)
  BY DEF Meaning, LetCoerced, AtLet
<1>1. /\ at \in DOMAIN Body /\ at \in Lets /\ Initialiser \in DOMAIN heap /\ Args # <<>>
      /\ Body[at].type \in Ground /\ Body[at].type # "none"
  BY <1>0, AtLetIs DEF LetCoerced, Specified
<1>2. PICK e, r : e = BuiltinType(Body[at].type) /\ r = Initialiser
  OBVIOUS
<1>3. /\ e \in DOMAIN heap /\ r \in DOMAIN heap /\ G[e] = Body[at].type /\ G[e] = G[r]
  <2>1. G[r] = Body[at].type
    BY <1>0, <1>1, <1>2, TypingIs, InitialiserMeans
  <2>2. e \in DOMAIN heap /\ G[e] = Body[at].type
    BY <1>0, <1>1, <1>2, SharedMean
  <2> QED BY <1>1, <1>2, <2>1, <2>2
<1>4. Fails(e, r)
  BY <1>0, <1>2 DEF LetCoerced, Declares
<1>5. G[e] = "bool" \/ AddsUndeclared
  BY <1>0, <1>3, <1>4, FailsOnBool
<1>6. Body[at].op = "let" /\ Body[at].args # <<>>
  BY <1>1, ArgsAre DEF Lets, TypeOK
<1> QED BY <1>1, <1>3, <1>5, <1>6 DEF Excuse, UnifiesWithBool

\* A variable is declared by a statement before the one that uses it.
LEMMA VariableExcuse ==
  ASSUME TypeOK, NEW typing, PatternsKnown, Variable, outcome' = "aborted"
  PROVE  Excuse(typing)
<1>1. PICK n, a : n = Len(values) + 1 /\ a = Args[n]
  OBVIOUS
<1>2. n \in DOMAIN Args /\ a.form = "variable" /\ <<a.of, "pattern">> \notin DOMAIN resolved
  <2>1. Len(values) < Len(Args) /\ Argument = a
    BY <1>1 DEF Variable, Pending, Argument
  <2>2. n \in 1..Len(Args)
    BY <1>1, <2>1, ArgsAre, LenProperties DEF TypeOK
  <2>3. n \in DOMAIN Args
    BY <2>2, ArgsAre, LenProperties DEF TypeOK
  <2>4. a.form = "variable" /\ outcome = "running"
    BY <2>1 DEF Variable, Pending
  <2> QED BY <2>1, <2>3, <2>4 DEF Variable, Typed
<1>3. a.of \in Lets /\ (a.of < at \/ phase # "first")
  <2>1. CASE at \in DOMAIN Body
    <3>1. Declared(Args, Body, at - 1)
      <4>1. Args = Body[at].args
        BY <2>1, ArgsAre DEF TypeOK
      <4> QED BY <2>1, <4>1, FunctionIs DEF TypeOK, WellFormed, Body
    <3>2. a.of \in 1..(at - 1) /\ Body[a.of].op = "let"
      BY <1>1, <1>2, <3>1 DEF Declared
    <3>3. at \in 1..Len(Body) /\ Len(Body) \in Nat
      BY <2>1, ArgsAre DEF TypeOK
    <3> QED BY <3>2, <3>3, ArgsAre DEF Lets, TypeOK
  <2>2. CASE at \notin DOMAIN Body
    <3>1. Declared(Args, Body, Len(Body)) /\ phase # "first" /\ DOMAIN Body = 1..Len(Body)
      BY <2>2, ArgsAre, FunctionIs DEF TypeOK, WellFormed, Control, Body
    <3>2. a.of \in 1..Len(Body) /\ Body[a.of].op = "let"
      BY <1>1, <1>2, <3>1 DEF Declared
    <3> QED BY <3>1, <3>2 DEF Lets
  <2> QED BY <2>1, <2>2
<1> QED BY <1>2, <1>3 DEF PatternsKnown, Excuse

LEMMA AbortExcuse ==
  ASSUME TypeOK, NEW typing \in Typings, Meant(typing), PatternsKnown, [Next]_vars,
         outcome = "running", outcome' = "aborted"
  PROVE  Excuse(typing)
<1>0. PICK G : Meaning(typing, G)
  BY DEF Meant
<1>1. CASE IntegerLiteral \/ BooleanLiteral
  BY <1>1 DEF IntegerLiteral, BooleanLiteral, Typed
<1>2. CASE Variable
  BY <1>2, VariableExcuse
<1>3. CASE Sum
  BY <1>3, Zenon DEF Sum, Evaluates, Typed
<1>4. CASE Comparison \/ If \/ Assignment
  BY <1>0, <1>4, OperationExcuse
<1>5. CASE AssignmentAgain
  BY <1>5 DEF AssignmentAgain, Unifies
<1>6. CASE Return \/ Coerce
  BY <1>0, <1>6, ReturnExcuse
<1>7. CASE LetError
  BY <1>7 DEF LetError
<1>8. CASE LetCoerced
  BY <1>0, <1>8, LetExcuse
<1>9. CASE LetInferred
  BY <1>9 DEF LetInferred, Declares
<1>10. CASE LetDeclared
  BY <1>10, Zenon DEF LetDeclared, Declares
<1>11. CASE Block
  <2>1. at \notin DOMAIN Body
    <3>1. at = Len(Body) + 1
      BY <1>11 DEF Block, TypeOK, Control
    <3> QED BY <3>1, ArgsAre DEF TypeOK
  <2>2. Args = function.trailing
    BY <2>1 DEF Args
  <2>3. Args = <<>> /\ HasReturn
    BY <1>11, Zenon DEF Block
  <2> QED BY <2>2, <2>3 DEF OnlyReturns, Excuse
<1>12. CASE CoerceAgain
  BY <1>12 DEF CoerceAgain
<1>13. CASE UNCHANGED vars
  BY <1>13 DEF vars
<1> QED BY <1>1, <1>2, <1>3, <1>4, <1>5, <1>6, <1>7, <1>8, <1>9, <1>10, <1>11, <1>12, <1>13 DEF Next

\* No node loses its type.
NodesKept == DOMAIN resolved \subseteq DOMAIN resolved'

LEMMA UnifyKeepsNodes ==
  ASSUME TypeOK, NEW l \in DOMAIN heap, NEW r \in DOMAIN heap
  PROVE  DOMAIN resolved \subseteq DOMAIN Unify(l, r).resolved
BY UnifyIs DEF Unified, TypeOK, Sound

LEMMA WrittenKeepsNodes ==
  ASSUME NEW h, NEW ctx, DOMAIN resolved \subseteq DOMAIN ctx, NEW o, NEW nodes,
         Typed(h, ctx, nodes, o) \/ Evaluates(h, ctx, o) \/ Declares(h, ctx, o)
  PROVE  NodesKept
<1>1. ASSUME NEW ns, Typed(h, ctx, ns, o) PROVE NodesKept
  BY <1>1 DEF Typed, NodesKept
<1> QED BY <1>1 DEF Evaluates, Declares, Insert, NodesKept

LEMMA StepKeepsNodes ==
  ASSUME TypeOK, [Next]_vars
  PROVE  NodesKept
<1>1. ASSUME UNCHANGED resolved PROVE NodesKept
  BY <1>1 DEF NodesKept
<1>2. CASE IntegerLiteral
  BY <1>2, WrittenKeepsNodes DEF IntegerLiteral
<1>3. CASE BooleanLiteral
  BY <1>3, WrittenKeepsNodes DEF BooleanLiteral
<1>4. CASE Variable
  BY <1>1, <1>4, WrittenKeepsNodes DEF Variable
<1>5. CASE Sum \/ Comparison \/ If
  <2>1. /\ Len(values) \in {2, 3} /\ (If => Len(values) = 3)
    BY <1>5, OperatorsHave DEF Sum, Comparison, If, Operands, TypeOK
  <2>2. values[1] \in DOMAIN heap /\ values[2] \in DOMAIN heap /\ (If => values[3] \in DOMAIN heap)
    BY <2>1, ValuesAre
  <2>3. CASE Sum
    BY <2>2, <2>3, UnifyKeepsNodes, WrittenKeepsNodes DEF Sum
  <2>4. CASE Comparison
    BY <1>1, <2>2, <2>4, UnifyKeepsNodes, WrittenKeepsNodes DEF Comparison, Fails
  <2>5. CASE If
    BY <1>1, <2>2, <2>5, UnifyKeepsNodes, WrittenKeepsNodes DEF If, Fails
  <2> QED BY <1>5, <2>3, <2>4, <2>5
<1>6. CASE Assignment \/ AssignmentAgain
  <2>1. Operator \in Assigns /\ (AssignmentAgain => Len(values) = 3) /\ (Assignment => Len(values) = Len(Args))
    BY <1>6 DEF Assignment, AssignmentAgain, Operands
  <2>2. Len(values) \in {2, 3}
    BY <1>6, <2>1, OperatorsHave DEF Assigns, TypeOK
  <2>3. /\ values[1] \in DOMAIN heap /\ values[2] \in DOMAIN heap
        /\ AssignmentAgain => values[3] \in DOMAIN heap
    BY <2>1, <2>2, ValuesAre
  <2>4. CASE Assignment
    BY <1>1, <2>3, <2>4, UnifyKeepsNodes DEF Assignment, Unifies, Fails, NodesKept
  <2>5. CASE AssignmentAgain
    BY <2>3, <2>5, UnifyKeepsNodes DEF AssignmentAgain, Unifies, NodesKept
  <2> QED BY <1>6, <2>4, <2>5
<1>7. CASE Return \/ Coerce
  <2>1. ReturnType \in DOMAIN heap /\ values[1] \in DOMAIN heap
    BY <1>7, SharedAre, ValuesAre DEF Return, Coerce
  <2> QED BY <1>1, <1>7, <2>1, UnifyKeepsNodes DEF Return, Coerce, Unifies, Fails, NodesKept
<1>8. CASE LetError
  BY <1>1, <1>8 DEF LetError
<1>9. CASE LetCoerced
  <2>1. Initialiser \in DOMAIN heap /\ Body[at].type \in Ground
    BY <1>9, AtLetIs DEF LetCoerced, Specified
  <2>2. BuiltinType(Body[at].type) \in DOMAIN heap
    BY <2>1, SharedAre
  <2> QED BY <1>1, <1>9, <2>1, <2>2, UnifyKeepsNodes, WrittenKeepsNodes DEF LetCoerced, Fails
<1>10. CASE LetInferred
  BY <1>10, WrittenKeepsNodes DEF LetInferred
<1>11. CASE LetDeclared
  BY <1>11, WrittenKeepsNodes DEF LetDeclared
<1>12. CASE Block
  <2>1. \A node, o : DOMAIN resolved \subseteq DOMAIN Insert(resolved, node, o)
    BY DEF Insert
  <2> QED BY <1>1, <1>12, <2>1, Zenon DEF Block, NodesKept
<1>13. CASE CoerceAgain
  <2>1. ReturnType \in DOMAIN heap /\ values[2] \in DOMAIN heap
    BY <1>13, SharedAre, ValuesAre DEF CoerceAgain
  <2> QED BY <1>13, <2>1, UnifyKeepsNodes DEF CoerceAgain, NodesKept
<1>14. CASE UNCHANGED vars
  BY <1>1, <1>14 DEF vars
<1> QED BY <1>2, <1>3, <1>4, <1>5, <1>6, <1>7, <1>8, <1>9, <1>10, <1>11, <1>12, <1>13, <1>14 DEF Next

\* A let statement that is left has declared its variable, or had an error.
LEMMA PatternDeclared ==
  ASSUME TypeOK, NEW typing \in Typings, Meant(typing), Next, NextStatement, at \in Lets
  PROVE  <<at, "pattern">> \in DOMAIN resolved' \/ AddsUndeclared
<1>0. at \in DOMAIN Body /\ Body[at].op = "let" /\ values' = <<>>
  BY DEF Lets, NextStatement
<1>1. ASSUME UNCHANGED <<phase, at>> PROVE FALSE
  <2>1. at \in Nat
    BY DEF TypeOK
  <2> QED BY <1>1, <2>1 DEF NextStatement
<1>2. ASSUME NEW h, NEW ctx, NEW nodes, NEW o, Typed(h, ctx, nodes, o) PROVE FALSE
  <2>1. values' = Append(values, o) /\ values \in Seq(DOMAIN heap)
    BY <1>2 DEF Typed, TypeOK
  <2>2. Len(Append(values, o)) = Len(values) + 1 /\ Len(values) \in Nat
    BY <2>1, AppendIs
  <2>3. Len(<<>>) = 0
    OBVIOUS
  <2>4. Len(values) + 1 = 0
    BY <1>0, <2>1, <2>2, <2>3, Zenon
  <2> QED BY <2>2, <2>4
<1>3. ASSUME NEW h, NEW ctx, NEW o, Declares(h, ctx, o)
      PROVE  <<at, "pattern">> \in DOMAIN resolved'
  BY <1>3 DEF Declares, Insert
<1>4. CASE IntegerLiteral \/ BooleanLiteral \/ Variable
  <2>1. Len(values) < Len(Args)
    BY <1>4 DEF IntegerLiteral, BooleanLiteral, Variable, Pending
  <2>2. CASE Variable /\ UNCHANGED <<function, phase, at>>
    BY <1>1, <2>2
  <2> QED BY <1>2, <1>4, <2>2 DEF IntegerLiteral, BooleanLiteral, Variable
<1>5. CASE Sum \/ Comparison \/ If
  <2>1. ASSUME NEW h, NEW ctx, NEW o, Evaluates(h, ctx, o) PROVE FALSE
    BY <1>0, <1>2, <2>1 DEF Evaluates
  <2>2. ASSUME NEW l, NEW r, Fails(l, r) PROVE FALSE
    BY <1>1, <2>2 DEF Fails
  <2> QED BY <1>5, <2>1, <2>2, Zenon DEF Sum, Comparison, If
<1>6. CASE Assignment \/ AssignmentAgain \/ Return
  <2>1. Body[at] \in Statement /\ Operator = Body[at].operator
    BY <1>0, ArgsAre DEF TypeOK
  <2>2. Operator \notin Assigns
    BY <1>0, <2>1 DEF Statement, Assigns
  <2> QED BY <1>0, <1>6, <2>2 DEF Assignment, AssignmentAgain, Return, Operands
<1>7. CASE LetError
  <2>1. PICK G : Consistent(typing, heap, resolved, G)
    BY DEF Meant, Meaning
  <2>2. Initialiser \in DOMAIN heap /\ heap[Initialiser].kind = "Error"
    BY <1>7, AtLetIs DEF LetError
  <2> QED BY <2>1, <2>2 DEF Consistent
<1>8. CASE LetCoerced \/ LetInferred \/ LetDeclared
  <2>1. ASSUME NEW l, NEW r, Fails(l, r) PROVE FALSE
    BY <1>1, <2>1 DEF Fails
  <2> QED BY <1>3, <1>8, <2>1, Zenon DEF LetCoerced, LetInferred, LetDeclared
<1>9. CASE Block \/ Coerce \/ CoerceAgain
  <2>1. phase \in {"trailing", "body"}
    BY <1>9, Zenon DEF Block, Coerce, CoerceAgain
  <2> QED BY <1>0, <2>1, ArgsAre DEF TypeOK, Control
<1> QED BY <1>4, <1>5, <1>6, <1>7, <1>8, <1>9 DEF Next

\* A step is one of a check that goes on; it leaves its statement, or it does not.
LEMMA StepGoes ==
  ASSUME Next
  PROVE  /\ outcome = "running"
         /\ \/ NextStatement
            \/ UNCHANGED <<phase, at>>
            \/ phase = "trailing" /\ UNCHANGED at
<1>1. CASE IntegerLiteral \/ BooleanLiteral \/ Variable
  BY <1>1 DEF IntegerLiteral, BooleanLiteral, Variable, Pending, Typed
<1>2. CASE Sum
  BY <1>2, Zenon DEF Sum, Evaluates, Typed, Operands
<1>3. CASE Comparison
  BY <1>3, Zenon DEF Comparison, Evaluates, Typed, Fails, Operands
<1>4. CASE If
  BY <1>4, Zenon DEF If, Evaluates, Typed, Fails, Operands
<1>5. CASE Assignment \/ AssignmentAgain \/ Return
  BY <1>5 DEF Assignment, AssignmentAgain, Return, Fails, Operands
<1>6. CASE LetError \/ LetCoerced \/ LetInferred \/ LetDeclared
  BY <1>6, Zenon DEF LetError, LetCoerced, LetInferred, LetDeclared, Declares, Fails, AtLet
<1>7. CASE Block \/ Coerce \/ CoerceAgain
  BY <1>7, Zenon DEF Block, Coerce, CoerceAgain, Fails
<1> QED BY <1>1, <1>2, <1>3, <1>4, <1>5, <1>6, <1>7 DEF Next

LEMMA PatternsStep ==
  ASSUME TypeOK, NEW typing \in Typings, Meant(typing), PatternsKnown, [Next]_vars
  PROVE  PatternsKnown'
<1>1. /\ Lets' = Lets /\ (AddsUndeclared' <=> AddsUndeclared) /\ NodesKept
      /\ Len(Body) \in Nat /\ DOMAIN Body = 1..Len(Body) /\ at \in Nat
  BY FunctionKept, FunctionStays, StepKeepsNodes, ArgsAre DEF TypeOK
<1>2. ASSUME NEW i \in Lets, <<i, "pattern">> \in DOMAIN resolved \/ AddsUndeclared
      PROVE  <<i, "pattern">> \in DOMAIN resolved' \/ AddsUndeclared'
  BY <1>1, <1>2 DEF NodesKept
<1>3. ASSUME NEW i \in Lets, i < at' \/ phase' # "first"
      PROVE  <<i, "pattern">> \in DOMAIN resolved' \/ AddsUndeclared'
  <2>1. i \in 1..Len(Body)
    BY <1>1 DEF Lets
  <2>2. CASE i < at \/ phase # "first"
    BY <1>2, <2>2 DEF PatternsKnown
  <2>3. CASE Next /\ NextStatement
    <3>1. i < at \/ i = at \/ phase # "first"
      <4>1. \/ at' = at + 1 /\ (phase' = phase \/ phase # "first")
            \/ at = Len(Body)
        BY <2>3 DEF NextStatement
      <4>2. CASE at' = at + 1 /\ (phase' = phase \/ phase # "first")
        BY <1>1, <1>3, <2>1, <4>2
      <4>3. CASE at = Len(Body)
        <5>1. i \in 1..at /\ at \in Nat
          BY <1>1, <2>1, <4>3, Zenon
        <5>2. i < at \/ i = at
          BY <5>1
        <5> QED BY <5>2
      <4> QED BY <4>1, <4>2, <4>3
    <3>2. CASE i = at
      BY <1>1, <2>3, <3>2, PatternDeclared
    <3> QED BY <2>2, <3>1, <3>2
  <2>4. CASE UNCHANGED <<phase, at>>
    BY <1>3, <2>2, <2>4
  <2>5. CASE phase = "trailing"
    BY <2>2, <2>5
  <2> QED BY <2>3, <2>4, <2>5, StepGoes DEF vars
<1> QED BY <1>1, <1>3 DEF PatternsKnown

LEMMA ExcuseStays ==
  ASSUME UNCHANGED function, NEW typing
  PROVE  Excuse(typing)' <=> Excuse(typing)
<1>1. UnifiesWithBool(typing)' <=> UnifiesWithBool(typing)
  BY FunctionStays, Zenon DEF UnifiesWithBool
<1>2. OnlyReturns' <=> OnlyReturns
  BY FunctionStays DEF OnlyReturns, HasReturn
<1> QED BY <1>1, <1>2, FunctionStays DEF Excuse

\* An assertion of unify or of a coercion, or a query of the context, only fails
\* for a function that has no typing or where the code is not finished: of what
\* is unified, one type is possible, and the variables used have been declared.
THEOREM AbortsExplained == Spec => []AbortsOnlyIfIllTyped
<1> DEFINE Means(typing) == Meant(typing) /\ PatternsKnown /\ (outcome = "aborted" => Excuse(typing))
           AllMean == \A typing \in Typings : Means(typing)
<1>1. Init => AllMean
  <2>1. ASSUME Init PROVE PatternsKnown
    <3>1. at = 1 /\ DOMAIN Body = 1..Len(Body) /\ (phase # "first" => Body = <<>>)
      BY <2>1, InitTyped, ArgsAre DEF Init, TypeOK
    <3>2. \A i \in Lets : i \in 1..Len(Body) /\ phase = "first"
      BY <3>1 DEF Lets
    <3> QED BY <3>1, <3>2 DEF PatternsKnown
  <2> QED BY <2>1, InitMeans DEF Init
<1>2. TypeOK /\ AllMean /\ [Next]_vars => AllMean'
  <2> SUFFICES ASSUME TypeOK, AllMean, [Next]_vars PROVE AllMean'
    OBVIOUS
  <2>1. UNCHANGED function
    BY FunctionKept
  <2>2. ASSUME NEW typing \in Typings PROVE Means(typing)'
    <3>1. Means(typing)
      OBVIOUS
    <3>2. Meant(typing)' /\ PatternsKnown'
      BY <3>1, StepMeans, PatternsStep
    <3>3. outcome' = "aborted" => Excuse(typing)
      <4>1. CASE outcome = "running"
        BY <3>1, <4>1, AbortExcuse
      <4>2. CASE outcome # "running"
        BY <3>1, <4>2, StepGoes DEF vars
      <4> QED BY <4>1, <4>2
    <3> QED BY <2>1, <3>2, <3>3, ExcuseStays
  <2>3. Typings' = Typings
    BY <2>1, TypingsStay
  <2> QED BY <2>2, <2>3
<1>3. AllMean => AbortsOnlyIfIllTyped
  BY DEF AbortsOnlyIfIllTyped, Excuse
<1> QED BY <1>1, <1>2, <1>3, TypeCorrect, PTL DEF Spec

=============================================================================
