---------------------------- MODULE Types_proofs ----------------------------
(***************************************************************************)
(* Theorems about types that meet: for all structures, all types of any    *)
(* height and any size of the stack.                                       *)
(***************************************************************************)
EXTENDS Types, SequenceTheorems, WellFoundedInduction, TLAPS

-----------------------------------------------------------------------------
(* What is defined by recursion satisfies its equation: what each function *)
(* is at a number is a step from what it is at the one before.             *)

TermStep(h, smaller) ==
  {t \in [kind : Kinds, tag : STRING, args : Seq(smaller)] : WellFormed(t)}
WalkedStep(n, within) ==
  [t \in Term |-> {t} \cup UNION {within[s] : s \in Inside(t)}]
CompatibleStep(h, smaller) ==
  [a \in TermUpTo[h] |-> [b \in TermUpTo[h] |->
     \/ Assigned(a, b)
     \/ /\ a.kind = b.kind /\ a.tag = b.tag /\ Len(a.args) = Len(b.args)
        /\ \A i \in DOMAIN a.args : smaller[a.args[i]][b.args[i]]]]
FacingStep(h, smaller) ==
  [a \in TermUpTo[h] |-> [b \in TermUpTo[h] |->
     \/ Inferred(a, {"General"}) /\ b.kind \in {"Str"} \cup FunctionKinds
     \/ \E i \in DOMAIN a.args \cap DOMAIN b.args : smaller[a.args[i]][b.args[i]]]]
AlikeStep(h, smaller) ==
  [a \in TermUpTo[h] |-> [b \in TermUpTo[h] |->
     \/ AnyType(a) \/ AnyType(b) \/ Assigned(a, b)
     \/ a.kind = "ADT" /\ b.kind = "ADT" /\ SameFields(a, b)
     \/ SameShape(a, b) /\ \A i \in Seen(a) : smaller[a.args[i]][b.args[i]]]]
UsableStep(h, smaller) ==
  [t \in TermUpTo[h] |-> [as \in TermUpTo[h] |->
     \/ t.kind = "Never" \/ (Variable(t) /\ Admits(t.tag, as))
     \/ /\ t.kind = as.kind /\ UsableTag(t, as)
        /\ t.kind # "ADT" =>
             /\ Len(t.args) = Len(as.args)
             /\ \A i \in DOMAIN t.args : smaller[t.args[i]][as.args[i]]]]
CanEqualStep(n, within) == [a \in Term |-> [b \in Term |-> compare(within, a, b)]]
UnifyStep(n, within) == [l \in Term |-> [r \in Term |-> Emitted(expect(within, l, r))]]

OfTerms      == INSTANCE Recursion WITH Base <- {}, Step <- TermStep
OfWalked     == INSTANCE Recursion WITH Base <- [t \in Term |-> {}], Step <- WalkedStep
OfCompatible == INSTANCE Recursion WITH Base <- <<>>, Step <- CompatibleStep
OfFacing     == INSTANCE Recursion WITH Base <- <<>>, Step <- FacingStep
OfAlike      == INSTANCE Recursion WITH Base <- <<>>, Step <- AlikeStep
OfUsable     == INSTANCE Recursion WITH Base <- <<>>, Step <- UsableStep
OfCanEqual   == INSTANCE Recursion WITH Base <- [a \in Term |-> [b \in Term |-> {"overflow"}]], Step <- CanEqualStep
OfUnify      == INSTANCE Recursion WITH Base <- [l \in Term |-> [r \in Term |-> Overflow]], Step <- UnifyStep

LEMMA TermUpToEquation ==
  TermUpTo[0] = {} /\ \A h \in Nat : TermUpTo[h + 1] = TermStep(h + 1, TermUpTo[h])
<1>1. \E f : f = [h \in Nat |-> IF h = 0 THEN {} ELSE TermStep(h, f[h - 1])]
  BY OfTerms!RecursionHolds
<1>2. TermUpTo = [h \in Nat |-> IF h = 0 THEN {} ELSE TermStep(h, TermUpTo[h - 1])]
  BY <1>1 DEF TermUpTo, TermStep
<1> QED BY <1>2

LEMMA WalkedEquation ==
  /\ walked[0] = [t \in Term |-> {}]
  /\ \A n \in Nat : walked[n + 1] = WalkedStep(n + 1, walked[n])
<1> DEFINE base == [t \in Term |-> {}]
<1>1. \E f : f = [n \in Nat |-> IF n = 0 THEN base ELSE WalkedStep(n, f[n - 1])]
  BY OfWalked!RecursionHolds
<1>2. walked = [n \in Nat |-> IF n = 0 THEN base ELSE WalkedStep(n, walked[n - 1])]
  BY <1>1 DEF walked, WalkedStep
<1> HIDE DEF base
<1>3. walked[0] = base /\ \A n \in Nat : walked[n + 1] = WalkedStep(n + 1, walked[n])
  BY <1>2
<1> QED BY <1>3 DEF base

LEMMA CompatibleEquation == \A h \in Nat : compatible[h + 1] = CompatibleStep(h + 1, compatible[h])
<1>1. \E f : f = [h \in Nat |-> IF h = 0 THEN <<>> ELSE CompatibleStep(h, f[h - 1])]
  BY OfCompatible!RecursionHolds
<1>2. compatible = [h \in Nat |-> IF h = 0 THEN <<>> ELSE CompatibleStep(h, compatible[h - 1])]
  BY <1>1 DEF compatible, CompatibleStep
<1> QED BY <1>2

LEMMA FacingEquation == \A h \in Nat : facing[h + 1] = FacingStep(h + 1, facing[h])
<1>1. \E f : f = [h \in Nat |-> IF h = 0 THEN <<>> ELSE FacingStep(h, f[h - 1])]
  BY OfFacing!RecursionHolds
<1>2. facing = [h \in Nat |-> IF h = 0 THEN <<>> ELSE FacingStep(h, facing[h - 1])]
  BY <1>1 DEF facing, FacingStep
<1> QED BY <1>2

LEMMA AlikeEquation == \A h \in Nat : alike[h + 1] = AlikeStep(h + 1, alike[h])
<1>1. \E f : f = [h \in Nat |-> IF h = 0 THEN <<>> ELSE AlikeStep(h, f[h - 1])]
  BY OfAlike!RecursionHolds
<1>2. alike = [h \in Nat |-> IF h = 0 THEN <<>> ELSE AlikeStep(h, alike[h - 1])]
  BY <1>1 DEF alike, AlikeStep
<1> QED BY <1>2

LEMMA UsableEquation == \A h \in Nat : usable[h + 1] = UsableStep(h + 1, usable[h])
<1>1. \E f : f = [h \in Nat |-> IF h = 0 THEN <<>> ELSE UsableStep(h, f[h - 1])]
  BY OfUsable!RecursionHolds
<1>2. usable = [h \in Nat |-> IF h = 0 THEN <<>> ELSE UsableStep(h, usable[h - 1])]
  BY <1>1 DEF usable, UsableStep
<1> QED BY <1>2

LEMMA CanEqualEquation ==
  /\ canEqualWithin[0] = [a \in Term |-> [b \in Term |-> {"overflow"}]]
  /\ \A n \in Nat : canEqualWithin[n + 1] = CanEqualStep(n + 1, canEqualWithin[n])
<1> DEFINE base == [a \in Term |-> [b \in Term |-> {"overflow"}]]
<1>1. \E f : f = [n \in Nat |-> IF n = 0 THEN base ELSE CanEqualStep(n, f[n - 1])]
  BY OfCanEqual!RecursionHolds
<1>2. canEqualWithin = [n \in Nat |-> IF n = 0 THEN base ELSE CanEqualStep(n, canEqualWithin[n - 1])]
  BY <1>1 DEF canEqualWithin, CanEqualStep
<1> HIDE DEF base
<1>3. canEqualWithin[0] = base /\ \A n \in Nat : canEqualWithin[n + 1] = CanEqualStep(n + 1, canEqualWithin[n])
  BY <1>2
<1> QED BY <1>3 DEF base

LEMMA UnifyEquation ==
  /\ unifyWithin[0] = [l \in Term |-> [r \in Term |-> Overflow]]
  /\ \A n \in Nat : unifyWithin[n + 1] = UnifyStep(n + 1, unifyWithin[n])
<1> DEFINE base == [l \in Term |-> [r \in Term |-> Overflow]]
<1>1. \E f : f = [n \in Nat |-> IF n = 0 THEN base ELSE UnifyStep(n, f[n - 1])]
  BY OfUnify!RecursionHolds
<1>2. unifyWithin = [n \in Nat |-> IF n = 0 THEN base ELSE UnifyStep(n, unifyWithin[n - 1])]
  BY <1>1 DEF unifyWithin, UnifyStep
<1> HIDE DEF base
<1>3. unifyWithin[0] = base /\ \A n \in Nat : unifyWithin[n + 1] = UnifyStep(n + 1, unifyWithin[n])
  BY <1>2
<1> QED BY <1>3 DEF base

-----------------------------------------------------------------------------
(* The heights of types *)

\* Induction over the numbers, and over the heights up to the bound.
LEMMA NatInduces ==
  ASSUME NEW S \in SUBSET Nat, 0 \in S, \A n \in S : n + 1 \in S
  PROVE  S = Nat
BY OfTerms!SetInduction

LEMMA TermUpToNext ==
  ASSUME NEW h \in Nat, NEW t
  PROVE  t \in TermUpTo[h + 1] <=> /\ t \in [kind : Kinds, tag : STRING, args : Seq(TermUpTo[h])]
                                   /\ WellFormed(t)
BY TermUpToEquation DEF TermStep

\* A type of some height is one of every greater height.
LEMMA HeightsGrow == \A h \in Nat : TermUpTo[h] \subseteq TermUpTo[h + 1]
<1> DEFINE S == {h \in Nat : TermUpTo[h] \subseteq TermUpTo[h + 1]}
<1>1. 0 \in S
  BY TermUpToEquation
<1>2. ASSUME NEW h \in S PROVE h + 1 \in S
  <2>1. ASSUME NEW t \in TermUpTo[h + 1] PROVE t \in TermUpTo[(h + 1) + 1]
    <3>1. t \in [kind : Kinds, tag : STRING, args : Seq(TermUpTo[h])] /\ WellFormed(t)
      BY TermUpToNext
    <3>2. TermUpTo[h] \subseteq TermUpTo[h + 1]
      OBVIOUS
    <3>3. t.args \in Seq(TermUpTo[h + 1])
      BY <3>1, <3>2
    <3>4. t \in [kind : Kinds, tag : STRING, args : Seq(TermUpTo[h + 1])]
      BY <3>1, <3>3
    <3> QED BY <3>1, <3>4, TermUpToNext, h + 1 \in Nat
  <2> QED BY <2>1
<1>3. S = Nat
  <2> HIDE DEF S
  <2>1. S \in SUBSET Nat
    BY DEF S
  <2> QED BY <1>1, <1>2, <2>1, NatInduces
<1> QED BY <1>3

\* A type of some height has parts of the height below.
LEMMA PartsAreLower ==
  ASSUME NEW h \in Nat, NEW t \in TermUpTo[h]
  PROVE  /\ h - 1 \in Nat /\ (h - 1) + 1 = h
         /\ t \in [kind : Kinds, tag : STRING, args : Seq(TermUpTo[h - 1])]
         /\ WellFormed(t)
         /\ \A i \in DOMAIN t.args : t.args[i] \in TermUpTo[h - 1] /\ t.args[i] \in TermUpTo[h]
<1>1. h # 0
  BY TermUpToEquation
<1>2. h - 1 \in Nat /\ (h - 1) + 1 = h
  BY <1>1
<1>3. t \in [kind : Kinds, tag : STRING, args : Seq(TermUpTo[h - 1])] /\ WellFormed(t)
  BY <1>2, TermUpToNext
<1>4. \A i \in DOMAIN t.args : t.args[i] \in TermUpTo[h - 1]
  BY <1>3
<1> QED BY <1>2, <1>3, <1>4, HeightsGrow

\* A type of a height that is not above the bound is a type.
LEMMA LowTermsAreTerms ==
  ASSUME NEW h \in Nat, h <= Height
  PROVE  TermUpTo[h] \subseteq Term
<1> USE TermsAssumption
<1> DEFINE S == {k \in Nat : \A j \in Nat : j + k = Height => TermUpTo[j] \subseteq Term}
<1>1. 0 \in S
  BY DEF Term
<1>2. ASSUME NEW k \in S PROVE k + 1 \in S
  <2>1. ASSUME NEW j \in Nat, j + (k + 1) = Height PROVE TermUpTo[j] \subseteq Term
    <3>1. j + 1 \in Nat /\ (j + 1) + k = Height
      BY <2>1
    <3> QED BY <3>1, HeightsGrow
  <2> QED BY <2>1
<1>3. S = Nat
  <2> HIDE DEF S
  <2>1. S \in SUBSET Nat
    BY DEF S
  <2> QED BY <1>1, <1>2, <2>1, NatInduces
<1>4. Height - h \in Nat /\ h + (Height - h) = Height
  OBVIOUS
<1> QED BY <1>3, <1>4

LEMMA TermsAreWellFormed ==
  ASSUME NEW t \in Term
  PROVE  /\ t \in [kind : Kinds, tag : STRING, args : Seq(Term)]
         /\ WellFormed(t)
         /\ Height - 1 \in Nat /\ (Height - 1) + 1 = Height
         /\ t.args \in Seq(TermUpTo[Height - 1])
<1>1. Height \in Nat /\ t \in TermUpTo[Height]
  BY TermsAssumption DEF Term
<1>2. TermUpTo[Height - 1] \subseteq Term
  BY <1>1, PartsAreLower, HeightsGrow DEF Term
<1>3. Height - 1 \in Nat /\ (Height - 1) + 1 = Height
  BY <1>1, PartsAreLower
<1>4. t \in [kind : Kinds, tag : STRING, args : Seq(TermUpTo[Height - 1])] /\ WellFormed(t)
  BY <1>1, PartsAreLower
<1>5. t.args \in Seq(Term)
  BY <1>2, <1>4
<1> QED BY <1>3, <1>4, <1>5

\* What a type is built from, and the fields of a structure, are types.
LEMMA InsideAreTerms ==
  ASSUME NEW t \in Term
  PROVE  Inside(t) \subseteq Term
<1>1. Parts(t) \subseteq Term
  BY TermsAreWellFormed DEF Parts
<1>2. ASSUME t.kind = "ADT" PROVE AllFields(t) \subseteq Term
  <2>1. t.tag \in DOMAIN Adts
    BY <1>2, TermsAreWellFormed DEF WellFormed
  <2>2. Adts[t.tag].variants \in Seq(Seq(Term))
    BY <2>1, TermsAssumption
  <2> QED BY <2>2 DEF AllFields, Fields
<1> QED BY <1>1, <1>2 DEF Inside

LEMMA ArgsAreTerms ==
  ASSUME NEW t \in Term
  PROVE  /\ t.args \in Seq(Term) /\ Len(t.args) \in Nat /\ DOMAIN t.args = 1..Len(t.args)
         /\ \A i \in DOMAIN t.args : t.args[i] \in Term
BY TermsAreWellFormed

-----------------------------------------------------------------------------
(* The relations of types do not depend on a height: each is what it is of *)
(* the parts.                                                              *)

LEMMA CompatibleNext ==
  ASSUME NEW h \in Nat, NEW a \in TermUpTo[h + 1], NEW b \in TermUpTo[h + 1]
  PROVE  compatible[h + 1][a][b] =
           (\/ Assigned(a, b)
            \/ /\ a.kind = b.kind /\ a.tag = b.tag /\ Len(a.args) = Len(b.args)
               /\ \A i \in DOMAIN a.args : compatible[h][a.args[i]][b.args[i]])
<1>1. compatible[h + 1] = CompatibleStep(h + 1, compatible[h])
  BY CompatibleEquation
<1>2. CompatibleStep(h + 1, compatible[h])[a][b] =
           (\/ Assigned(a, b)
            \/ /\ a.kind = b.kind /\ a.tag = b.tag /\ Len(a.args) = Len(b.args)
               /\ \A i \in DOMAIN a.args : compatible[h][a.args[i]][b.args[i]])
  BY DEF CompatibleStep
<1> QED BY <1>1, <1>2

LEMMA CompatibleStable ==
  \A h \in Nat : \A a, b \in TermUpTo[h] : compatible[h + 1][a][b] = compatible[h][a][b]
<1> DEFINE S == {h \in Nat : \A a, b \in TermUpTo[h] : compatible[h + 1][a][b] = compatible[h][a][b]}
<1>1. 0 \in S
  BY TermUpToEquation
<1>2. ASSUME NEW h \in S PROVE h + 1 \in S
  <2>1. ASSUME NEW a \in TermUpTo[h + 1], NEW b \in TermUpTo[h + 1]
        PROVE compatible[(h + 1) + 1][a][b] = compatible[h + 1][a][b]
    <3>1. a \in TermUpTo[(h + 1) + 1] /\ b \in TermUpTo[(h + 1) + 1] /\ h \in Nat /\ h + 1 \in Nat
      BY HeightsGrow
    <3>2. a.args \in Seq(TermUpTo[h]) /\ b.args \in Seq(TermUpTo[h])
      BY TermUpToNext
    <3>3. \A x, y \in TermUpTo[h] : compatible[h + 1][x][y] = compatible[h][x][y]
      OBVIOUS
    <3>4. Len(a.args) = Len(b.args) =>
            \A i \in DOMAIN a.args : compatible[h + 1][a.args[i]][b.args[i]] = compatible[h][a.args[i]][b.args[i]]
      BY <3>2, <3>3
    <3> HIDE DEF S
    <3>5. compatible[(h + 1) + 1][a][b] =
           (\/ Assigned(a, b)
            \/ /\ a.kind = b.kind /\ a.tag = b.tag /\ Len(a.args) = Len(b.args)
               /\ \A i \in DOMAIN a.args : compatible[h + 1][a.args[i]][b.args[i]])
      BY <3>1, CompatibleNext
    <3>6. compatible[h + 1][a][b] =
           (\/ Assigned(a, b)
            \/ /\ a.kind = b.kind /\ a.tag = b.tag /\ Len(a.args) = Len(b.args)
               /\ \A i \in DOMAIN a.args : compatible[h][a.args[i]][b.args[i]])
      BY <3>1, CompatibleNext
    <3> QED BY <3>4, <3>5, <3>6
  <2> QED BY <2>1
<1>3. S = Nat
  <2> HIDE DEF S
  <2>1. S \in SUBSET Nat
    BY DEF S
  <2> QED BY <1>1, <1>2, <2>1, NatInduces
<1> QED BY <1>3

LEMMA CompatibleUnfolds ==
  ASSUME NEW a \in Term, NEW b \in Term
  PROVE  Compatible(a, b) =
           (\/ Assigned(a, b)
            \/ /\ a.kind = b.kind /\ a.tag = b.tag /\ Len(a.args) = Len(b.args)
               /\ \A i \in DOMAIN a.args : Compatible(a.args[i], b.args[i]))
<1> DEFINE h == Height - 1
<1>1. h \in Nat /\ h + 1 = Height /\ a.args \in Seq(TermUpTo[h]) /\ b.args \in Seq(TermUpTo[h])
  BY TermsAreWellFormed
<1>2. a \in TermUpTo[h + 1] /\ b \in TermUpTo[h + 1]
  BY <1>1 DEF Term
<1> HIDE DEF h
<1>3. Len(a.args) = Len(b.args) =>
        \A i \in DOMAIN a.args : compatible[h + 1][a.args[i]][b.args[i]] = compatible[h][a.args[i]][b.args[i]]
  <2> SUFFICES ASSUME Len(a.args) = Len(b.args), NEW i \in DOMAIN a.args
               PROVE compatible[h + 1][a.args[i]][b.args[i]] = compatible[h][a.args[i]][b.args[i]]
    OBVIOUS
  <2>1. a.args[i] \in TermUpTo[h] /\ b.args[i] \in TermUpTo[h]
    BY <1>1
  <2> QED BY <1>1, <2>1, CompatibleStable
<1>4. compatible[h + 1][a][b] =
           (\/ Assigned(a, b)
            \/ /\ a.kind = b.kind /\ a.tag = b.tag /\ Len(a.args) = Len(b.args)
               /\ \A i \in DOMAIN a.args : compatible[h][a.args[i]][b.args[i]])
  BY <1>1, <1>2, CompatibleNext
<1> QED BY <1>1, <1>3, <1>4 DEF Compatible

LEMMA FacingNext ==
  ASSUME NEW h \in Nat, NEW a \in TermUpTo[h + 1], NEW b \in TermUpTo[h + 1]
  PROVE  facing[h + 1][a][b] =
           (\/ Inferred(a, {"General"}) /\ b.kind \in {"Str"} \cup FunctionKinds
            \/ \E i \in DOMAIN a.args \cap DOMAIN b.args : facing[h][a.args[i]][b.args[i]])
<1>1. facing[h + 1] = FacingStep(h + 1, facing[h])
  BY FacingEquation
<1>2. FacingStep(h + 1, facing[h])[a][b] =
           (\/ Inferred(a, {"General"}) /\ b.kind \in {"Str"} \cup FunctionKinds
            \/ \E i \in DOMAIN a.args \cap DOMAIN b.args : facing[h][a.args[i]][b.args[i]])
  BY DEF FacingStep
<1> QED BY <1>1, <1>2

LEMMA FacingStable ==
  \A h \in Nat : \A a, b \in TermUpTo[h] : facing[h + 1][a][b] = facing[h][a][b]
<1> DEFINE S == {h \in Nat : \A a, b \in TermUpTo[h] : facing[h + 1][a][b] = facing[h][a][b]}
<1>1. 0 \in S
  BY TermUpToEquation
<1>2. ASSUME NEW h \in S PROVE h + 1 \in S
  <2>1. ASSUME NEW a \in TermUpTo[h + 1], NEW b \in TermUpTo[h + 1]
        PROVE facing[(h + 1) + 1][a][b] = facing[h + 1][a][b]
    <3>1. a \in TermUpTo[(h + 1) + 1] /\ b \in TermUpTo[(h + 1) + 1] /\ h \in Nat /\ h + 1 \in Nat
      BY HeightsGrow
    <3>2. a.args \in Seq(TermUpTo[h]) /\ b.args \in Seq(TermUpTo[h])
      BY TermUpToNext
    <3>3. \A x, y \in TermUpTo[h] : facing[h + 1][x][y] = facing[h][x][y]
      OBVIOUS
    <3>4. \A i \in DOMAIN a.args \cap DOMAIN b.args : facing[h + 1][a.args[i]][b.args[i]] = facing[h][a.args[i]][b.args[i]]
      BY <3>2, <3>3
    <3> HIDE DEF S
    <3>5. facing[(h + 1) + 1][a][b] =
           (\/ Inferred(a, {"General"}) /\ b.kind \in {"Str"} \cup FunctionKinds
            \/ \E i \in DOMAIN a.args \cap DOMAIN b.args : facing[h + 1][a.args[i]][b.args[i]])
      BY <3>1, FacingNext
    <3>6. facing[h + 1][a][b] =
           (\/ Inferred(a, {"General"}) /\ b.kind \in {"Str"} \cup FunctionKinds
            \/ \E i \in DOMAIN a.args \cap DOMAIN b.args : facing[h][a.args[i]][b.args[i]])
      BY <3>1, FacingNext
    <3> QED BY <3>4, <3>5, <3>6
  <2> QED BY <2>1
<1>3. S = Nat
  <2> HIDE DEF S
  <2>1. S \in SUBSET Nat
    BY DEF S
  <2> QED BY <1>1, <1>2, <2>1, NatInduces
<1> QED BY <1>3

LEMMA FacingUnfolds ==
  ASSUME NEW a \in Term, NEW b \in Term
  PROVE  Facing(a, b) =
           (\/ Inferred(a, {"General"}) /\ b.kind \in {"Str"} \cup FunctionKinds
            \/ \E i \in DOMAIN a.args \cap DOMAIN b.args : Facing(a.args[i], b.args[i]))
<1> DEFINE h == Height - 1
<1>1. h \in Nat /\ h + 1 = Height /\ a.args \in Seq(TermUpTo[h]) /\ b.args \in Seq(TermUpTo[h])
  BY TermsAreWellFormed
<1>2. a \in TermUpTo[h + 1] /\ b \in TermUpTo[h + 1]
  BY <1>1 DEF Term
<1> HIDE DEF h
<1>3. \A i \in DOMAIN a.args \cap DOMAIN b.args : facing[h + 1][a.args[i]][b.args[i]] = facing[h][a.args[i]][b.args[i]]
  <2> SUFFICES ASSUME NEW i \in DOMAIN a.args \cap DOMAIN b.args
               PROVE facing[h + 1][a.args[i]][b.args[i]] = facing[h][a.args[i]][b.args[i]]
    OBVIOUS
  <2>1. a.args[i] \in TermUpTo[h] /\ b.args[i] \in TermUpTo[h]
    BY <1>1
  <2> QED BY <1>1, <2>1, FacingStable
<1>4. facing[h + 1][a][b] =
           (\/ Inferred(a, {"General"}) /\ b.kind \in {"Str"} \cup FunctionKinds
            \/ \E i \in DOMAIN a.args \cap DOMAIN b.args : facing[h][a.args[i]][b.args[i]])
  BY <1>1, <1>2, FacingNext
<1> QED BY <1>1, <1>3, <1>4 DEF Facing

LEMMA SeenIsCommon ==
  ASSUME NEW X, NEW a, NEW b, a.args \in Seq(X), b.args \in Seq(X), SameShape(a, b), NEW i \in Seen(a)
  PROVE  i \in DOMAIN a.args /\ i \in DOMAIN b.args
<1>1. Len(a.args) = Len(b.args)
  BY Zenon DEF SameShape
<1> QED BY <1>1 DEF Seen

LEMMA AlikeNext ==
  ASSUME NEW h \in Nat, NEW a \in TermUpTo[h + 1], NEW b \in TermUpTo[h + 1]
  PROVE  alike[h + 1][a][b] =
           (\/ AnyType(a) \/ AnyType(b) \/ Assigned(a, b)
            \/ a.kind = "ADT" /\ b.kind = "ADT" /\ SameFields(a, b)
            \/ SameShape(a, b) /\ \A i \in Seen(a) : alike[h][a.args[i]][b.args[i]])
<1>1. alike[h + 1] = AlikeStep(h + 1, alike[h])
  BY AlikeEquation
<1>2. AlikeStep(h + 1, alike[h])[a][b] =
           (\/ AnyType(a) \/ AnyType(b) \/ Assigned(a, b)
            \/ a.kind = "ADT" /\ b.kind = "ADT" /\ SameFields(a, b)
            \/ SameShape(a, b) /\ \A i \in Seen(a) : alike[h][a.args[i]][b.args[i]])
  BY DEF AlikeStep, Seen
<1> QED BY <1>1, <1>2

LEMMA AlikeStable ==
  \A h \in Nat : \A a, b \in TermUpTo[h] : alike[h + 1][a][b] = alike[h][a][b]
<1> DEFINE S == {h \in Nat : \A a, b \in TermUpTo[h] : alike[h + 1][a][b] = alike[h][a][b]}
<1>1. 0 \in S
  BY TermUpToEquation
<1>2. ASSUME NEW h \in S PROVE h + 1 \in S
  <2>1. ASSUME NEW a \in TermUpTo[h + 1], NEW b \in TermUpTo[h + 1]
        PROVE alike[(h + 1) + 1][a][b] = alike[h + 1][a][b]
    <3>1. a \in TermUpTo[(h + 1) + 1] /\ b \in TermUpTo[(h + 1) + 1] /\ h \in Nat /\ h + 1 \in Nat
      BY HeightsGrow
    <3>2. a.args \in Seq(TermUpTo[h]) /\ b.args \in Seq(TermUpTo[h])
      BY TermUpToNext
    <3>3. \A x, y \in TermUpTo[h] : alike[h + 1][x][y] = alike[h][x][y]
      OBVIOUS
    <3>4. SameShape(a, b) =>
            \A i \in Seen(a) : alike[h + 1][a.args[i]][b.args[i]] = alike[h][a.args[i]][b.args[i]]
      <4> SUFFICES ASSUME SameShape(a, b), NEW i \in Seen(a)
                   PROVE alike[h + 1][a.args[i]][b.args[i]] = alike[h][a.args[i]][b.args[i]]
        OBVIOUS
      <4>1. i \in DOMAIN a.args /\ i \in DOMAIN b.args
        BY <3>2, SeenIsCommon
      <4> QED BY <3>2, <3>3, <4>1
    <3> HIDE DEF S
    <3>5. alike[(h + 1) + 1][a][b] =
           (\/ AnyType(a) \/ AnyType(b) \/ Assigned(a, b)
            \/ a.kind = "ADT" /\ b.kind = "ADT" /\ SameFields(a, b)
            \/ SameShape(a, b) /\ \A i \in Seen(a) : alike[h + 1][a.args[i]][b.args[i]])
      BY <3>1, AlikeNext
    <3>6. alike[h + 1][a][b] =
           (\/ AnyType(a) \/ AnyType(b) \/ Assigned(a, b)
            \/ a.kind = "ADT" /\ b.kind = "ADT" /\ SameFields(a, b)
            \/ SameShape(a, b) /\ \A i \in Seen(a) : alike[h][a.args[i]][b.args[i]])
      BY <3>1, AlikeNext
    <3> QED BY <3>4, <3>5, <3>6
  <2> QED BY <2>1
<1>3. S = Nat
  <2> HIDE DEF S
  <2>1. S \in SUBSET Nat
    BY DEF S
  <2> QED BY <1>1, <1>2, <2>1, NatInduces
<1> QED BY <1>3

LEMMA AlikeUnfolds ==
  ASSUME NEW a \in Term, NEW b \in Term
  PROVE  Alike(a, b) =
           (\/ AnyType(a) \/ AnyType(b) \/ Assigned(a, b)
            \/ a.kind = "ADT" /\ b.kind = "ADT" /\ SameFields(a, b)
            \/ SameShape(a, b) /\ \A i \in Seen(a) : Alike(a.args[i], b.args[i]))
<1> DEFINE h == Height - 1
<1>1. h \in Nat /\ h + 1 = Height /\ a.args \in Seq(TermUpTo[h]) /\ b.args \in Seq(TermUpTo[h])
  BY TermsAreWellFormed
<1>2. a \in TermUpTo[h + 1] /\ b \in TermUpTo[h + 1]
  BY <1>1 DEF Term
<1> HIDE DEF h
<1>3. SameShape(a, b) =>
        \A i \in Seen(a) : alike[h + 1][a.args[i]][b.args[i]] = alike[h][a.args[i]][b.args[i]]
  <2> SUFFICES ASSUME SameShape(a, b), NEW i \in Seen(a)
               PROVE alike[h + 1][a.args[i]][b.args[i]] = alike[h][a.args[i]][b.args[i]]
    OBVIOUS
  <2>1. i \in DOMAIN a.args /\ i \in DOMAIN b.args
    BY <1>1, SeenIsCommon
  <2>2. a.args[i] \in TermUpTo[h] /\ b.args[i] \in TermUpTo[h]
    BY <1>1, <2>1
  <2> QED BY <1>1, <2>2, AlikeStable
<1>4. alike[h + 1][a][b] =
           (\/ AnyType(a) \/ AnyType(b) \/ Assigned(a, b)
            \/ a.kind = "ADT" /\ b.kind = "ADT" /\ SameFields(a, b)
            \/ SameShape(a, b) /\ \A i \in Seen(a) : alike[h][a.args[i]][b.args[i]])
  BY <1>1, <1>2, AlikeNext
<1> QED BY <1>1, <1>3, <1>4 DEF Alike

LEMMA UsableNext ==
  ASSUME NEW h \in Nat, NEW t \in TermUpTo[h + 1], NEW as \in TermUpTo[h + 1]
  PROVE  usable[h + 1][t][as] =
           (\/ t.kind = "Never" \/ (Variable(t) /\ Admits(t.tag, as))
            \/ /\ t.kind = as.kind /\ UsableTag(t, as)
               /\ t.kind # "ADT" =>
                    /\ Len(t.args) = Len(as.args)
                    /\ \A i \in DOMAIN t.args : usable[h][t.args[i]][as.args[i]])
<1>1. usable[h + 1] = UsableStep(h + 1, usable[h])
  BY UsableEquation
<1>2. UsableStep(h + 1, usable[h])[t][as] =
           (\/ t.kind = "Never" \/ (Variable(t) /\ Admits(t.tag, as))
            \/ /\ t.kind = as.kind /\ UsableTag(t, as)
               /\ t.kind # "ADT" =>
                    /\ Len(t.args) = Len(as.args)
                    /\ \A i \in DOMAIN t.args : usable[h][t.args[i]][as.args[i]])
  BY DEF UsableStep
<1> QED BY <1>1, <1>2

LEMMA UsableStable ==
  \A h \in Nat : \A t, as \in TermUpTo[h] : usable[h + 1][t][as] = usable[h][t][as]
<1> DEFINE S == {h \in Nat : \A t, as \in TermUpTo[h] : usable[h + 1][t][as] = usable[h][t][as]}
<1>1. 0 \in S
  BY TermUpToEquation
<1>2. ASSUME NEW h \in S PROVE h + 1 \in S
  <2>1. ASSUME NEW t \in TermUpTo[h + 1], NEW as \in TermUpTo[h + 1]
        PROVE usable[(h + 1) + 1][t][as] = usable[h + 1][t][as]
    <3>1. t \in TermUpTo[(h + 1) + 1] /\ as \in TermUpTo[(h + 1) + 1] /\ h \in Nat /\ h + 1 \in Nat
      BY HeightsGrow
    <3>2. t.args \in Seq(TermUpTo[h]) /\ as.args \in Seq(TermUpTo[h])
      BY TermUpToNext
    <3>3. \A x, y \in TermUpTo[h] : usable[h + 1][x][y] = usable[h][x][y]
      OBVIOUS
    <3>4. Len(t.args) = Len(as.args) =>
            \A i \in DOMAIN t.args : usable[h + 1][t.args[i]][as.args[i]] = usable[h][t.args[i]][as.args[i]]
      BY <3>2, <3>3
    <3> HIDE DEF S
    <3>5. usable[(h + 1) + 1][t][as] =
           (\/ t.kind = "Never" \/ (Variable(t) /\ Admits(t.tag, as))
            \/ /\ t.kind = as.kind /\ UsableTag(t, as)
               /\ t.kind # "ADT" =>
                    /\ Len(t.args) = Len(as.args)
                    /\ \A i \in DOMAIN t.args : usable[h + 1][t.args[i]][as.args[i]])
      BY <3>1, UsableNext
    <3>6. usable[h + 1][t][as] =
           (\/ t.kind = "Never" \/ (Variable(t) /\ Admits(t.tag, as))
            \/ /\ t.kind = as.kind /\ UsableTag(t, as)
               /\ t.kind # "ADT" =>
                    /\ Len(t.args) = Len(as.args)
                    /\ \A i \in DOMAIN t.args : usable[h][t.args[i]][as.args[i]])
      BY <3>1, UsableNext
    <3> QED BY <3>4, <3>5, <3>6
  <2> QED BY <2>1
<1>3. S = Nat
  <2> HIDE DEF S
  <2>1. S \in SUBSET Nat
    BY DEF S
  <2> QED BY <1>1, <1>2, <2>1, NatInduces
<1> QED BY <1>3

LEMMA UsableUnfolds ==
  ASSUME NEW t \in Term, NEW as \in Term
  PROVE  Usable(t, as) =
           (\/ t.kind = "Never" \/ (Variable(t) /\ Admits(t.tag, as))
            \/ /\ t.kind = as.kind /\ UsableTag(t, as)
               /\ t.kind # "ADT" =>
                    /\ Len(t.args) = Len(as.args)
                    /\ \A i \in DOMAIN t.args : Usable(t.args[i], as.args[i]))
<1> DEFINE h == Height - 1
<1>1. h \in Nat /\ h + 1 = Height /\ t.args \in Seq(TermUpTo[h]) /\ as.args \in Seq(TermUpTo[h])
  BY TermsAreWellFormed
<1>2. t \in TermUpTo[h + 1] /\ as \in TermUpTo[h + 1]
  BY <1>1 DEF Term
<1> HIDE DEF h
<1>3. Len(t.args) = Len(as.args) =>
        \A i \in DOMAIN t.args : usable[h + 1][t.args[i]][as.args[i]] = usable[h][t.args[i]][as.args[i]]
  <2> SUFFICES ASSUME Len(t.args) = Len(as.args), NEW i \in DOMAIN t.args
               PROVE usable[h + 1][t.args[i]][as.args[i]] = usable[h][t.args[i]][as.args[i]]
    OBVIOUS
  <2>1. t.args[i] \in TermUpTo[h] /\ as.args[i] \in TermUpTo[h]
    BY <1>1
  <2> QED BY <1>1, <2>1, UsableStable
<1>4. usable[h + 1][t][as] =
           (\/ t.kind = "Never" \/ (Variable(t) /\ Admits(t.tag, as))
            \/ /\ t.kind = as.kind /\ UsableTag(t, as)
               /\ t.kind # "ADT" =>
                    /\ Len(t.args) = Len(as.args)
                    /\ \A i \in DOMAIN t.args : usable[h][t.args[i]][as.args[i]])
  BY <1>1, <1>2, UsableNext
<1> QED BY <1>1, <1>3, <1>4 DEF Usable

-----------------------------------------------------------------------------
(* What the classes of types hold, kind by kind *)

LEMMA PlainTypes ==
  ASSUME NEW t \in Term, t.kind \in PlainKinds
  PROVE  t.tag = "" /\ t.args = <<>>
BY TermsAreWellFormed DEF WellFormed

LEMMA TaggedTypes ==
  ASSUME NEW t \in Term, t.kind \in TaggedKinds
  PROVE  t.args = <<>>
BY TermsAreWellFormed DEF WellFormed

LEMMA InferredTypes ==
  ASSUME NEW t \in Term, t.kind = "Inferred"
  PROVE  t.tag \in {"General", "Integral", "Float"} /\ t.args = <<>>
BY TermsAreWellFormed DEF WellFormed

LEMMA PointerTypes ==
  ASSUME NEW t \in Term, t.kind \in PointerKinds
  PROVE  t.tag \in {"mut", "const"} /\ Len(t.args) = 1
BY TermsAreWellFormed DEF WellFormed, PointerKinds

LEMMA SingleTypes ==
  ASSUME NEW t \in Term, t.kind \in {"Reference", "RawPointer", "Array", "Slice", "Projection"}
  PROVE  /\ Len(t.args) = 1 /\ DOMAIN t.args = {1} /\ t.args[1] \in Term
         /\ t.kind \in {"Slice", "Projection"} => t.tag = ""
<1>1. Len(t.args) = 1
  BY TermsAreWellFormed DEF WellFormed, PointerKinds
<1>2. t.kind \in {"Slice", "Projection"} => t.tag = ""
  BY TermsAreWellFormed DEF WellFormed, PointerKinds
<1>3. DOMAIN t.args = 1..1 /\ \A i \in DOMAIN t.args : t.args[i] \in Term
  BY <1>1, ArgsAreTerms
<1>4. 1..1 = {1}
  OBVIOUS
<1> QED BY <1>1, <1>2, <1>3, <1>4

LEMMA ListTypes ==
  ASSUME NEW t \in Term, t.kind \in {"Tuple", "Function", "FunctionPointer"}
  PROVE  t.tag = ""
BY TermsAreWellFormed DEF WellFormed, FunctionKinds

LEMMA StructureTypes ==
  ASSUME NEW t \in Term, t.kind = "ADT"
  PROVE  /\ t.tag \in DOMAIN Adts
         /\ Fields(t) \in Seq(Seq(Term))
         /\ Adts[t.tag].parameters \in Seq(STRING)
<1>1. t.tag \in DOMAIN Adts
  BY TermsAreWellFormed DEF WellFormed, FunctionKinds
<1> QED BY <1>1, TermsAssumption DEF Fields

-----------------------------------------------------------------------------
(* Induction over types, and the relations of a type to itself *)

\* What is true of a type when it is true of its parts is true of all types.
LEMMA TermInduction ==
  ASSUME NEW S \in SUBSET Term,
         \A t \in Term : (\A i \in DOMAIN t.args : t.args[i] \in S) => t \in S
  PROVE  S = Term
<1> DEFINE H == {h \in Nat : \A t \in TermUpTo[h] : t \in Term => t \in S}
<1>1. 0 \in H
  BY TermUpToEquation
<1>2. ASSUME NEW h \in H PROVE h + 1 \in H
  <2>1. ASSUME NEW t \in TermUpTo[h + 1], t \in Term PROVE t \in S
    <3>1. \A i \in DOMAIN t.args : t.args[i] \in TermUpTo[h]
      BY TermUpToNext
    <3>2. \A i \in DOMAIN t.args : t.args[i] \in Term
      BY <2>1, TermsAreWellFormed
    <3> QED BY <2>1, <3>1, <3>2
  <2> QED BY <2>1
<1>3. H = Nat
  <2> HIDE DEF H
  <2>1. H \in SUBSET Nat
    BY DEF H
  <2> QED BY <1>1, <1>2, <2>1, NatInduces
<1>4. Height \in H
  BY <1>3, TermsAssumption
<1> QED BY <1>4 DEF Term

\* A type is an instance of itself.
LEMMA CompatibleReflexive == \A t \in Term : Compatible(t, t)
<1> DEFINE S == {t \in Term : Compatible(t, t)}
<1>1. ASSUME NEW t \in Term, \A i \in DOMAIN t.args : t.args[i] \in S PROVE t \in S
  BY <1>1, CompatibleUnfolds
<1>2. S = Term
  <2> HIDE DEF S
  <2>1. S \in SUBSET Term
    BY DEF S
  <2> QED BY <1>1, <2>1, TermInduction
<1> QED BY <1>2

\* A type does not face itself.
LEMMA FacingIrreflexive == \A t \in Term : ~Facing(t, t)
<1> DEFINE S == {t \in Term : ~Facing(t, t)}
<1>1. ASSUME NEW t \in Term, \A i \in DOMAIN t.args : t.args[i] \in S PROVE t \in S
  BY <1>1, FacingUnfolds DEF Inferred, FunctionKinds
<1>2. S = Term
  <2> HIDE DEF S
  <2>1. S \in SUBSET Term
    BY DEF S
  <2> QED BY <1>1, <2>1, TermInduction
<1> QED BY <1>2

\* A type may be used as itself.
LEMMA UsableReflexive == \A t \in Term : Usable(t, t)
<1> DEFINE S == {t \in Term : Usable(t, t)}
<1>1. ASSUME NEW t \in Term, \A i \in DOMAIN t.args : t.args[i] \in S PROVE t \in S
  <2>1. t.kind = "Reference" => t.tag \in {"mut", "const"}
    BY PointerTypes DEF PointerKinds
  <2>2. UsableTag(t, t)
    BY <2>1 DEF UsableTag
  <2>3. \A i \in DOMAIN t.args : Usable(t.args[i], t.args[i])
    BY <1>1
  <2> QED BY <2>2, <2>3, UsableUnfolds
<1>2. S = Term
  <2> HIDE DEF S
  <2>1. S \in SUBSET Term
    BY DEF S
  <2> QED BY <1>1, <2>1, TermInduction
<1> QED BY <1>2

\* What is alike one way is alike the other way.
LEMMA AlikeSymmetric == \A a, b \in Term : Alike(a, b) => Alike(b, a)
<1> DEFINE S == {a \in Term : \A b \in Term : Alike(a, b) => Alike(b, a)}
<1>1. ASSUME NEW a \in Term, \A i \in DOMAIN a.args : a.args[i] \in S PROVE a \in S
  <2>1. ASSUME NEW b \in Term, Alike(a, b) PROVE Alike(b, a)
    <3>1. CASE AnyType(a) \/ AnyType(b) \/ Assigned(a, b)
      <4>1. AnyType(b) \/ AnyType(a) \/ Assigned(b, a)
        BY <3>1 DEF Assigned
      <4> QED BY <4>1, AlikeUnfolds, Zenon
    <3>2. CASE a.kind = "ADT" /\ b.kind = "ADT" /\ SameFields(a, b)
      <4>1. SameFields(b, a)
        BY <3>2 DEF SameFields
      <4> QED BY <3>2, <4>1, AlikeUnfolds, Zenon
    <3>3. CASE SameShape(a, b) /\ \A i \in Seen(a) : Alike(a.args[i], b.args[i])
      <4>1. SameShape(b, a) /\ Len(a.args) = Len(b.args)
        <5>1. a.kind = b.kind \/ {a.kind, b.kind} = FunctionKinds
          BY <3>3, Zenon DEF SameShape
        <5>2. b.kind = a.kind \/ {b.kind, a.kind} = FunctionKinds
          BY <5>1
        <5>3. b.tag = a.tag \/ b.kind = "Array"
          BY <3>3, <5>1 DEF SameShape, FunctionKinds
        <5>4. b.kind # "ADT" /\ Len(a.args) = Len(b.args)
          BY <3>3, <5>1 DEF SameShape, FunctionKinds
        <5> QED BY <5>2, <5>3, <5>4, Zenon DEF SameShape
      <4>2. DOMAIN a.args = DOMAIN b.args
        BY <4>1, ArgsAreTerms
      <4>3. Seen(a) = Seen(b) /\ Seen(a) \subseteq DOMAIN a.args
        <5>1. a.kind = "Tuple" <=> b.kind = "Tuple"
          BY <3>3 DEF SameShape, FunctionKinds
        <5> QED BY <5>1, <4>2 DEF Seen
      <4>4. ASSUME NEW i \in Seen(b) PROVE Alike(b.args[i], a.args[i])
        <5>1. a.args[i] \in S /\ b.args[i] \in Term /\ Alike(a.args[i], b.args[i])
          BY <1>1, <3>3, <4>2, <4>3, <4>4, ArgsAreTerms
        <5> QED BY <5>1
      <4> QED BY <4>1, <4>4, AlikeUnfolds, Zenon
    <3> QED BY <2>1, <3>1, <3>2, <3>3, AlikeUnfolds, Zenon
  <2> QED BY <2>1
<1>2. S = Term
  <2> HIDE DEF S
  <2>1. S \in SUBSET Term
    BY DEF S
  <2> QED BY <1>1, <2>1, TermInduction
<1> QED BY <1>2

LEMMA CompatibleSymmetric == \A a, b \in Term : Compatible(a, b) => Compatible(b, a)
<1> DEFINE S == {a \in Term : \A b \in Term : Compatible(a, b) => Compatible(b, a)}
<1>1. ASSUME NEW a \in Term, \A i \in DOMAIN a.args : a.args[i] \in S PROVE a \in S
  <2>1. ASSUME NEW b \in Term, Compatible(a, b) PROVE Compatible(b, a)
    <3>1. CASE Assigned(a, b)
      <4>1. Assigned(b, a)
        BY <3>1 DEF Assigned
      <4> QED BY <4>1, CompatibleUnfolds, Zenon
    <3>2. CASE /\ a.kind = b.kind /\ a.tag = b.tag /\ Len(a.args) = Len(b.args)
               /\ \A i \in DOMAIN a.args : Compatible(a.args[i], b.args[i])
      <4>1. DOMAIN a.args = DOMAIN b.args
        BY <3>2, ArgsAreTerms
      <4>2. ASSUME NEW i \in DOMAIN b.args PROVE Compatible(b.args[i], a.args[i])
        <5>1. a.args[i] \in S /\ b.args[i] \in Term /\ Compatible(a.args[i], b.args[i])
          BY <1>1, <3>2, <4>1, ArgsAreTerms
        <5> QED BY <5>1
      <4>3. b.kind = a.kind /\ b.tag = a.tag /\ Len(b.args) = Len(a.args)
        BY <3>2
      <4> QED BY <4>2, <4>3, CompatibleUnfolds, Zenon
    <3> QED BY <2>1, <3>1, <3>2, CompatibleUnfolds, Zenon
  <2> QED BY <2>1
<1>2. S = Term
  <2> HIDE DEF S
  <2>1. S \in SUBSET Term
    BY DEF S
  <2> QED BY <1>1, <2>1, TermInduction
<1> QED BY <1>2

\* What is walked through: nothing without calls, and a type before its parts.
LEMMA WalkedUnfolds ==
  ASSUME NEW n \in Nat, NEW t \in Term
  PROVE  /\ t \in walked[n + 1][t]
         /\ \A s \in Inside(t) : walked[n][s] \subseteq walked[n + 1][t]
         /\ \A x \in walked[n + 1][t] : x = t \/ \E s \in Inside(t) : x \in walked[n][s]
<1>1. walked[n + 1] = WalkedStep(n + 1, walked[n])
  BY WalkedEquation
<1>2. walked[n + 1][t] = {t} \cup UNION {walked[n][s] : s \in Inside(t)}
  BY <1>1 DEF WalkedStep
<1> QED BY <1>2

\* A part of a type, walked with one call less.
LEMMA WalkedParts ==
  ASSUME NEW n \in Nat, NEW t \in Term, NEW i \in DOMAIN t.args
  PROVE  walked[n][t.args[i]] \subseteq walked[n + 1][t]
<1>1. t.args[i] \in Inside(t)
  BY DEF Inside, Parts
<1> QED BY <1>1, WalkedUnfolds

LEMMA WalkedFields ==
  ASSUME NEW n \in Nat, NEW t \in Term, t.kind = "ADT",
         NEW v \in DOMAIN Fields(t), NEW f \in DOMAIN Fields(t)[v]
  PROVE  Fields(t)[v][f] \in Term /\ walked[n][Fields(t)[v][f]] \subseteq walked[n + 1][t]
<1>1. Fields(t)[v][f] \in Inside(t)
  BY DEF Inside, AllFields
<1> QED BY <1>1, WalkedUnfolds, InsideAreTerms

-----------------------------------------------------------------------------
(* The comparison of two types *)

LEMMA CanEqualUnfolds ==
  ASSUME NEW n \in Nat, NEW a \in Term, NEW b \in Term
  PROVE  /\ canEqualWithin[0][a][b] = {"overflow"}
         /\ canEqualWithin[n + 1][a][b] = compare(canEqualWithin[n], a, b)
<1>1. canEqualWithin[n + 1] = CanEqualStep(n + 1, canEqualWithin[n])
  BY CanEqualEquation
<1>2. CanEqualStep(n + 1, canEqualWithin[n])[a][b] = compare(canEqualWithin[n], a, b)
  BY DEF CanEqualStep
<1>3. canEqualWithin[0][a][b] = {"overflow"}
  BY CanEqualEquation
<1> QED BY <1>1, <1>2, <1>3

LEMMA Answers ==
  ASSUME NEW b \in BOOLEAN
  PROVE  /\ "no" \in Answer(b) => ~b
         /\ "yes" \in Answer(b) => b
BY DEF Answer

LEMMA AndThenSays ==
  ASSUME NEW first, NEW second
  PROVE  /\ "no" \in AndThen(first, second) => "no" \in first \/ ("yes" \in first /\ "no" \in second)
         /\ "yes" \in AndThen(first, second) => "yes" \in first /\ "yes" \in second
BY DEF AndThen

LEMMA InTurnSays ==
  ASSUME NEW outcomes
  PROVE  /\ "no" \in InTurn(outcomes) => \E i \in DOMAIN outcomes : "no" \in outcomes[i]
         /\ "yes" \in InTurn(outcomes) => \A i \in DOMAIN outcomes : "yes" \in outcomes[i]
BY DEF InTurn

\* Lists of types: not of the same length, or a pair that is not equal.
LEMMA CanEqualAllSays ==
  ASSUME NEW within, NEW as \in Seq(Term), NEW bs \in Seq(Term)
  PROVE  /\ "no" \in CanEqualAll(within, as, bs) =>
              Len(as) # Len(bs) \/ \E i \in DOMAIN as : "no" \in within[as[i]][bs[i]]
         /\ "yes" \in CanEqualAll(within, as, bs) =>
              Len(as) = Len(bs) /\ \A i \in DOMAIN as : "yes" \in within[as[i]][bs[i]]
<1> DEFINE pairs == [i \in DOMAIN as |-> within[as[i]][bs[i]]]
           same == Len(as) = Len(bs)
<1>1. CanEqualAll(within, as, bs) = AndThen(Answer(same), InTurn(pairs))
  BY DEF CanEqualAll
<1>2. DOMAIN pairs = DOMAIN as /\ \A i \in DOMAIN as : pairs[i] = within[as[i]][bs[i]]
  OBVIOUS
<1>3. same \in BOOLEAN
  OBVIOUS
<1>4. ("no" \in Answer(same) => ~same) /\ ("yes" \in Answer(same) => same)
  BY <1>3, Answers
<1> HIDE DEF pairs
<1>5. /\ "no" \in InTurn(pairs) => \E i \in DOMAIN pairs : "no" \in pairs[i]
      /\ "yes" \in InTurn(pairs) => \A i \in DOMAIN pairs : "yes" \in pairs[i]
  BY InTurnSays
<1>6. /\ "no" \in AndThen(Answer(same), InTurn(pairs)) => "no" \in Answer(same) \/ "no" \in InTurn(pairs)
      /\ "yes" \in AndThen(Answer(same), InTurn(pairs)) => "yes" \in Answer(same) /\ "yes" \in InTurn(pairs)
  BY AndThenSays
<1> QED BY <1>1, <1>2, <1>4, <1>5, <1>6

\* Types that are compared without looking into them.
Scalar == {"Bool", "Char", "Str", "Never", "Int", "Uint", "USize", "ISize", "Float"}
VariablesFor(kind) ==
  CASE kind \in {"Bool", "Char", "Str", "Never"} -> {"General"}
    [] kind \in {"Int", "Uint", "USize", "ISize"} -> {"General", "Integral"}
    [] OTHER -> {"General", "Float"}

LEMMA ScalarsCompare ==
  ASSUME NEW within, NEW a \in Term, NEW b \in Term, a.kind \in Scalar
  PROVE  compare(within, a, b) = OfKind(a, b, VariablesFor(a.kind))
<1>1. CASE a.kind = "Bool"
  BY <1>1 DEF compare, BoolCmp, VariablesFor
<1>2. CASE a.kind = "Char"
  BY <1>2 DEF compare, CharCmp, VariablesFor
<1>3. CASE a.kind = "Str"
  BY <1>3 DEF compare, StrCmp, VariablesFor
<1>4. CASE a.kind = "Never"
  BY <1>4 DEF compare, NeverCmp, VariablesFor
<1>5. CASE a.kind = "Int"
  BY <1>5 DEF compare, IntCmp, VariablesFor
<1>6. CASE a.kind = "Uint"
  BY <1>6 DEF compare, UintCmp, VariablesFor
<1>7. CASE a.kind = "USize"
  BY <1>7 DEF compare, USizeCmp, VariablesFor
<1>8. CASE a.kind = "ISize"
  BY <1>8 DEF compare, ISizeCmp, VariablesFor
<1>9. CASE a.kind = "Float"
  BY <1>9 DEF compare, FloatCmp, VariablesFor
<1> QED BY <1>1, <1>2, <1>3, <1>4, <1>5, <1>6, <1>7, <1>8, <1>9 DEF Scalar

\* A scalar says no only to what is not an instance of it, and yes only to
\* itself and to variables that may stand for it.
LEMMA ScalarsSay ==
  ASSUME NEW within, NEW a \in Term, NEW b \in Term, a.kind \in Scalar
  PROVE  /\ "no" \in compare(within, a, b) => ~Compatible(a, b)
         /\ "yes" \in compare(within, a, b) => Alike(a, b)
<1> DEFINE equal == (b.kind = a.kind /\ b.tag = a.tag) \/ Inferred(b, VariablesFor(a.kind))
<1>1. compare(within, a, b) = Answer(equal)
  BY ScalarsCompare DEF OfKind
<1>2. equal \in BOOLEAN
  BY DEF Inferred
<1>3. ("no" \in Answer(equal) => ~equal) /\ ("yes" \in Answer(equal) => equal)
  BY <1>2, Answers
<1>4. a.args = <<>> /\ a.kind # "Inferred" /\ a.kind # "ADT" /\ a.kind # "Tuple"
  BY PlainTypes, TaggedTypes DEF Scalar, PlainKinds, TaggedKinds
<1>5. b.kind = a.kind => b.args = <<>>
  BY PlainTypes, TaggedTypes DEF Scalar, PlainKinds, TaggedKinds
<1>6. Variable(b) => (Admits(b.tag, a) <=> b.tag \in VariablesFor(a.kind))
  <2> SUFFICES ASSUME Variable(b) PROVE Admits(b.tag, a) <=> b.tag \in VariablesFor(a.kind)
    OBVIOUS
  <2>1. b.tag \in {"General", "Integral", "Float"}
    BY InferredTypes DEF Variable
  <2> QED BY <2>1, <1>4 DEF Admits, VariablesFor, Scalar, IntegerKinds, Inferred
<1>7. Assigned(a, b) <=> Inferred(b, VariablesFor(a.kind))
  BY <1>4, <1>6 DEF Assigned, Variable, Inferred
<1>8. Compatible(a, b) => equal
  BY <1>7, CompatibleUnfolds
<1>9. equal => Alike(a, b)
  <2>1. CASE Inferred(b, VariablesFor(a.kind))
    BY <2>1, <1>7, AlikeUnfolds, Zenon
  <2>2. CASE b.kind = a.kind /\ b.tag = a.tag
    <3>1. SameShape(a, b) /\ Seen(a) = {}
      BY <2>2, <1>4, <1>5 DEF SameShape, Seen
    <3> QED BY <3>1, AlikeUnfolds
  <2> QED BY <2>1, <2>2
<1> QED BY <1>1, <1>3, <1>8, <1>9

\* No type that is walked through is of a kind that comparisons do not look into.
ClearOf(n, t) == \A s \in walked[n][t] : s.kind \notin Opaque

\* What the comparison of two types says, with the calls it may make.
Says(a, b, outcomes) ==
  /\ "no" \in outcomes /\ Compatible(a, b) => Facing(a, b)
  /\ "yes" \in outcomes => Alike(a, b)
SaysWithin(n) ==
  \A a, b \in Term : ClearOf(n, a) /\ ClearOf(n, b) => Says(a, b, canEqualWithin[n][a][b])

LEMMA ClearParts ==
  ASSUME NEW n \in Nat, NEW t \in Term, ClearOf(n + 1, t)
  PROVE  /\ t.kind \notin Opaque
         /\ \A i \in DOMAIN t.args : ClearOf(n, t.args[i])
<1>1. t \in walked[n + 1][t]
  BY WalkedUnfolds
<1>2. \A i \in DOMAIN t.args : walked[n][t.args[i]] \subseteq walked[n + 1][t]
  BY WalkedParts
<1> QED BY <1>1, <1>2 DEF ClearOf

LEMMA PartsSay ==
  ASSUME NEW n \in Nat, SaysWithin(n), NEW a \in Term, NEW b \in Term,
         ClearOf(n + 1, a), ClearOf(n + 1, b), NEW i \in DOMAIN a.args, i \in DOMAIN b.args
  PROVE  Says(a.args[i], b.args[i], canEqualWithin[n][a.args[i]][b.args[i]])
<1>1. ClearOf(n, a.args[i]) /\ ClearOf(n, b.args[i])
  BY ClearParts
<1>2. a.args[i] \in Term /\ b.args[i] \in Term
  BY ArgsAreTerms
<1> QED BY <1>1, <1>2 DEF SaysWithin

\* A type of another kind: only a variable may stand for a type that is neither
\* a number nor a variable.
LEMMA OthersSay ==
  ASSUME NEW a \in Term, NEW b \in Term, a.kind # b.kind,
         a.kind \notin {"Inferred", "Float"} \cup IntegerKinds
  PROVE  Says(a, b, Answer(Inferred(b, {"General"})))
<1> DEFINE general == Inferred(b, {"General"})
<1>1. general \in BOOLEAN
  BY DEF Inferred
<1>2. ("no" \in Answer(general) => ~general) /\ ("yes" \in Answer(general) => general)
  BY <1>1, Answers
<1>3. Assigned(a, b) <=> general
  BY DEF Assigned, Variable, Admits, Inferred
<1>4. Compatible(a, b) => general
  BY <1>3, CompatibleUnfolds
<1>5. general => Alike(a, b)
  BY <1>3, AlikeUnfolds, Zenon
<1> HIDE DEF general
<1> QED BY <1>2, <1>4, <1>5 DEF Says, general

\* Two types of one kind with one part each, of which the parts are compared.
LEMMA SinglesSay ==
  ASSUME NEW n \in Nat, SaysWithin(n), NEW a \in Term, NEW b \in Term,
         ClearOf(n + 1, a), ClearOf(n + 1, b), NEW outcomes,
         a.kind = b.kind, a.kind \in {"Reference", "RawPointer", "Array", "Slice"},
         "no" \in outcomes => (a.tag # b.tag /\ a.kind # "Array") \/ "no" \in canEqualWithin[n][a.args[1]][b.args[1]],
         "yes" \in outcomes =>
           (a.tag = b.tag \/ a.kind = "Array") /\ "yes" \in canEqualWithin[n][a.args[1]][b.args[1]]
  PROVE  Says(a, b, outcomes)
<1>1. /\ Len(a.args) = 1 /\ DOMAIN a.args = {1} /\ Len(b.args) = 1 /\ DOMAIN b.args = {1}
  BY SingleTypes
<1>2. Says(a.args[1], b.args[1], canEqualWithin[n][a.args[1]][b.args[1]])
  BY <1>1, PartsSay
<1>3. ~Assigned(a, b)
  BY DEF Assigned, Variable
<1>4. ASSUME "no" \in outcomes, Compatible(a, b) PROVE Facing(a, b)
  <2>1. a.tag = b.tag /\ Compatible(a.args[1], b.args[1])
    BY <1>1, <1>3, <1>4, CompatibleUnfolds
  <2>2. "no" \in canEqualWithin[n][a.args[1]][b.args[1]]
    BY <1>4, <2>1
  <2>3. Facing(a.args[1], b.args[1])
    BY <1>2, <2>1, <2>2 DEF Says
  <2> QED BY <1>1, <2>3, FacingUnfolds
<1>5. ASSUME "yes" \in outcomes PROVE Alike(a, b)
  <2>1. "yes" \in canEqualWithin[n][a.args[1]][b.args[1]] /\ (a.tag = b.tag \/ a.kind = "Array")
    BY <1>5
  <2>2. Alike(a.args[1], b.args[1])
    BY <1>2, <2>1 DEF Says
  <2>3. SameShape(a, b) /\ Seen(a) = {1}
    BY <1>1, <2>1 DEF SameShape, Seen
  <2>4. SameShape(a, b) /\ \A i \in Seen(a) : Alike(a.args[i], b.args[i])
    BY <2>2, <2>3
  <2> QED BY <2>4, AlikeUnfolds, Zenon
<1> QED BY <1>4, <1>5 DEF Says

LEMMA ReferencesSay ==
  ASSUME NEW n \in Nat, SaysWithin(n), NEW a \in Term, NEW b \in Term,
         ClearOf(n + 1, a), ClearOf(n + 1, b), a.kind \in {"Reference", "RawPointer"}
  PROVE  Says(a, b, compare(canEqualWithin[n], a, b))
<1> DEFINE same == a.tag = b.tag
           part == canEqualWithin[n][a.args[1]][b.args[1]]
<1>1. compare(canEqualWithin[n], a, b) =
        IF b.kind = a.kind THEN AndThen(Answer(same), part) ELSE Answer(Inferred(b, {"General"}))
  BY DEF compare, ReferenceCmp, visitReference, RawPointerCmp, visitRawPointer
<1>2. CASE b.kind = a.kind
  <2>1. same \in BOOLEAN
    OBVIOUS
  <2>2. ("no" \in Answer(same) => ~same) /\ ("yes" \in Answer(same) => same)
    BY <2>1, Answers
  <2>3. /\ "no" \in AndThen(Answer(same), part) => "no" \in Answer(same) \/ "no" \in part
        /\ "yes" \in AndThen(Answer(same), part) => "yes" \in Answer(same) /\ "yes" \in part
    BY AndThenSays
  <2>4. /\ "no" \in AndThen(Answer(same), part) => ~same \/ "no" \in part
        /\ "yes" \in AndThen(Answer(same), part) => same /\ "yes" \in part
    BY <2>2, <2>3
  <2>5. Says(a, b, AndThen(Answer(same), part))
    BY <1>2, <2>4, SinglesSay
  <2> QED BY <1>1, <1>2, <2>5
<1>3. CASE b.kind # a.kind
  BY <1>1, <1>3, OthersSay DEF IntegerKinds
<1> QED BY <1>2, <1>3

LEMMA ArraysSay ==
  ASSUME NEW n \in Nat, SaysWithin(n), NEW a \in Term, NEW b \in Term,
         ClearOf(n + 1, a), ClearOf(n + 1, b), a.kind \in {"Array", "Slice"}
  PROVE  Says(a, b, compare(canEqualWithin[n], a, b))
<1> DEFINE part == canEqualWithin[n][a.args[1]][b.args[1]]
<1>1. compare(canEqualWithin[n], a, b) =
        IF b.kind = a.kind THEN part ELSE Answer(Inferred(b, {"General"}))
  BY DEF compare, ArrayCmp, visitArray, SliceCmp, visitSlice
<1>2. CASE b.kind = a.kind
  <2>1. a.tag = b.tag \/ a.kind = "Array"
    BY <1>2, SingleTypes
  <2>2. Says(a, b, part)
    BY <1>2, <2>1, SinglesSay
  <2> QED BY <1>1, <1>2, <2>2
<1>3. CASE b.kind # a.kind
  BY <1>1, <1>3, OthersSay DEF IntegerKinds
<1> QED BY <1>2, <1>3

LEMMA OneShape ==
  ASSUME NEW a, NEW b, a.kind = b.kind, a.tag = b.tag, a.kind # "ADT", Len(a.args) = Len(b.args)
  PROVE  SameShape(a, b)
BY Zenon DEF SameShape

\* Of two tuples, the first fields.
LEMMA TuplesSay ==
  ASSUME NEW n \in Nat, SaysWithin(n), NEW a \in Term, NEW b \in Term,
         ClearOf(n + 1, a), ClearOf(n + 1, b), a.kind = "Tuple"
  PROVE  Says(a, b, compare(canEqualWithin[n], a, b))
<1> DEFINE variable == Inferred(b, {"General", "Float"})
           same == Len(a.args) = Len(b.args)
           part == canEqualWithin[n][a.args[1]][b.args[1]]
<1>1. compare(canEqualWithin[n], a, b) =
        IF b.kind = "Tuple" THEN visitTuple(canEqualWithin[n], a, b) ELSE Answer(variable)
  BY DEF compare, TupleCmp
<1>2. visitTuple(canEqualWithin[n], a, b) = IF ~same \/ a.args = <<>> THEN Answer(same) ELSE part
  BY DEF visitTuple
<1>3. CASE b.kind # "Tuple"
  <2>1. variable \in BOOLEAN
    BY DEF Inferred
  <2>2. ("no" \in Answer(variable) => ~variable) /\ ("yes" \in Answer(variable) => variable)
    BY <2>1, Answers
  <2>3. Assigned(a, b) => variable
    BY DEF Assigned, Variable, Admits, Inferred, IntegerKinds
  <2>4. Compatible(a, b) => variable
    BY <2>3, <1>3, CompatibleUnfolds
  <2>5. variable => AnyType(b) \/ Assigned(a, b)
    BY DEF AnyType, Assigned, Variable, Admits, Inferred
  <2>6. variable => Alike(a, b)
    BY <2>5, AlikeUnfolds, Zenon
  <2> HIDE DEF variable
  <2> QED BY <1>1, <1>3, <2>2, <2>4, <2>6 DEF Says
<1>4. CASE b.kind = "Tuple" /\ (~same \/ a.args = <<>>)
  <2>1. same \in BOOLEAN
    OBVIOUS
  <2>2. ("no" \in Answer(same) => ~same) /\ ("yes" \in Answer(same) => same)
    BY <2>1, Answers
  <2>3. ~Assigned(a, b)
    BY <1>4 DEF Assigned, Variable
  <2>4. Compatible(a, b) => same
    BY <2>3, CompatibleUnfolds
  <2>5. ASSUME same PROVE Alike(a, b)
    <3>1. a.args = <<>>
      BY <1>4, <2>5
    <3>2. SameShape(a, b) /\ Seen(a) = {}
      <4>1. a.tag = b.tag
        BY <1>4, ListTypes
      <4>2. SameShape(a, b)
        BY <1>4, <2>5, <4>1, OneShape
      <4> QED BY <1>4, <3>1, <4>2 DEF Seen
    <3> QED BY <3>2, AlikeUnfolds
  <2>6. Says(a, b, Answer(same))
    BY <2>2, <2>4, <2>5 DEF Says
  <2> HIDE DEF same
  <2> QED BY <1>1, <1>2, <1>4, <2>6
<1>5. CASE b.kind = "Tuple" /\ same /\ a.args # <<>>
  <2>1. a.args \in Seq(Term) /\ b.args \in Seq(Term)
    BY ArgsAreTerms
  <2>2. 1 \in DOMAIN a.args /\ 1 \in DOMAIN b.args
    BY <1>5, <2>1
  <2>3. Says(a.args[1], b.args[1], part)
    BY <2>2, PartsSay
  <2>4. ~Assigned(a, b)
    BY <1>5 DEF Assigned, Variable
  <2>5. Compatible(a, b) => Compatible(a.args[1], b.args[1])
    BY <2>2, <2>4, CompatibleUnfolds
  <2>6. Facing(a.args[1], b.args[1]) => Facing(a, b)
    BY <2>2, FacingUnfolds
  <2>7. ASSUME Alike(a.args[1], b.args[1]) PROVE Alike(a, b)
    <3>1. a.tag = b.tag
      BY <1>5, ListTypes
    <3>2. SameShape(a, b)
      BY <1>5, <3>1, OneShape
    <3>3. \A i \in Seen(a) : Alike(a.args[i], b.args[i])
      BY <1>5, <2>7 DEF Seen
    <3> QED BY <3>2, <3>3, AlikeUnfolds, Zenon
  <2>8. Says(a, b, part)
    BY <2>3, <2>5, <2>6, <2>7 DEF Says
  <2> QED BY <1>1, <1>2, <1>5, <2>8
<1> QED BY <1>3, <1>4, <1>5

\* Two types of which every pair of parts is compared.
LEMMA ListsSay ==
  ASSUME NEW n \in Nat, SaysWithin(n), NEW a \in Term, NEW b \in Term,
         ClearOf(n + 1, a), ClearOf(n + 1, b), NEW outcomes,
         a.kind = b.kind \/ {a.kind, b.kind} = FunctionKinds,
         a.kind \in {"Function", "FunctionPointer", "Closure"},
         "no" \in outcomes => a.tag # b.tag \/ "no" \in CanEqualAll(canEqualWithin[n], a.args, b.args),
         "yes" \in outcomes => a.tag = b.tag /\ "yes" \in CanEqualAll(canEqualWithin[n], a.args, b.args)
  PROVE  Says(a, b, outcomes)
<1>0. a.args \in Seq(Term) /\ b.args \in Seq(Term)
  BY ArgsAreTerms
<1>1. /\ "no" \in CanEqualAll(canEqualWithin[n], a.args, b.args) =>
           \/ Len(a.args) # Len(b.args)
           \/ \E i \in DOMAIN a.args : "no" \in canEqualWithin[n][a.args[i]][b.args[i]]
      /\ "yes" \in CanEqualAll(canEqualWithin[n], a.args, b.args) =>
           /\ Len(a.args) = Len(b.args)
           /\ \A i \in DOMAIN a.args : "yes" \in canEqualWithin[n][a.args[i]][b.args[i]]
  BY <1>0, CanEqualAllSays
<1>2. Len(a.args) = Len(b.args) => DOMAIN a.args = DOMAIN b.args
  BY <1>0
<1>3. a.kind # "Inferred" /\ b.kind # "Inferred" /\ b.kind # "ADT" /\ b.kind # "Tuple"
  BY DEF FunctionKinds
<1>4. ~Assigned(a, b)
  BY <1>3 DEF Assigned, Variable
<1>5. ASSUME "no" \in outcomes, Compatible(a, b) PROVE Facing(a, b)
  <2>1. /\ a.tag = b.tag /\ Len(a.args) = Len(b.args)
        /\ \A i \in DOMAIN a.args : Compatible(a.args[i], b.args[i])
    BY <1>4, <1>5, CompatibleUnfolds
  <2>2. PICK i \in DOMAIN a.args : "no" \in canEqualWithin[n][a.args[i]][b.args[i]]
    BY <1>1, <1>5, <2>1
  <2>3. i \in DOMAIN b.args
    BY <1>2, <2>1
  <2>4. Facing(a.args[i], b.args[i])
    BY <2>1, <2>2, <2>3, PartsSay DEF Says
  <2> QED BY <2>3, <2>4, FacingUnfolds
<1>6. ASSUME "yes" \in outcomes PROVE Alike(a, b)
  <2>1. /\ a.tag = b.tag /\ Len(a.args) = Len(b.args) /\ DOMAIN a.args = DOMAIN b.args
        /\ \A i \in DOMAIN a.args : "yes" \in canEqualWithin[n][a.args[i]][b.args[i]]
    BY <1>1, <1>2, <1>6
  <2>2. \A i \in DOMAIN a.args : Alike(a.args[i], b.args[i])
    BY <2>1, PartsSay DEF Says
  <2>3. SameShape(a, b) /\ Seen(a) = DOMAIN a.args
    <3>1. a.kind # "ADT" /\ Seen(a) = DOMAIN a.args
      BY DEF Seen
    <3> QED BY <3>1, <2>1, Zenon DEF SameShape
  <2>4. SameShape(a, b) /\ \A i \in Seen(a) : Alike(a.args[i], b.args[i])
    BY <2>2, <2>3
  <2> QED BY <2>4, AlikeUnfolds, Zenon
<1> QED BY <1>5, <1>6 DEF Says

LEMMA FunctionsSay ==
  ASSUME NEW n \in Nat, SaysWithin(n), NEW a \in Term, NEW b \in Term,
         ClearOf(n + 1, a), ClearOf(n + 1, b), a.kind \in FunctionKinds
  PROVE  Says(a, b, compare(canEqualWithin[n], a, b))
<1> DEFINE all == CanEqualAll(canEqualWithin[n], a.args, b.args)
<1>1. a.kind \in {"Function", "FunctionPointer"}
  BY DEF FunctionKinds
<1>2. CASE b.kind = a.kind \/ (a.kind = "FunctionPointer" /\ b.kind = "Function")
  <2>1. compare(canEqualWithin[n], a, b) = all
    BY <1>1, <1>2 DEF compare, FunctionCmp, visitFunction, FunctionPointerCmp, visitFunctionPointer
  <2>2. a.kind = b.kind \/ {a.kind, b.kind} = FunctionKinds
    BY <1>2 DEF FunctionKinds
  <2>3. a.tag = b.tag
    BY <1>1, <1>2, ListTypes
  <2>4. Says(a, b, all)
    BY <1>1, <2>2, <2>3, ListsSay
  <2> QED BY <2>1, <2>4
<1>3. CASE ~(b.kind = a.kind \/ (a.kind = "FunctionPointer" /\ b.kind = "Function"))
  <2>1. compare(canEqualWithin[n], a, b) = Answer(Inferred(b, {"General"}))
    BY <1>1, <1>3 DEF compare, FunctionCmp, FunctionPointerCmp
  <2> QED BY <1>1, <1>3, <2>1, OthersSay DEF IntegerKinds
<1> QED BY <1>2, <1>3

LEMMA ClosuresSay ==
  ASSUME NEW n \in Nat, SaysWithin(n), NEW a \in Term, NEW b \in Term,
         ClearOf(n + 1, a), ClearOf(n + 1, b), a.kind = "Closure"
  PROVE  Says(a, b, compare(canEqualWithin[n], a, b))
<1> DEFINE all == CanEqualAll(canEqualWithin[n], a.args, b.args)
           same == a.tag = b.tag
<1>1. compare(canEqualWithin[n], a, b) =
        IF b.kind = "Closure" THEN AndThen(Answer(same), all) ELSE Answer(Inferred(b, {"General"}))
  BY DEF compare, ClosureCmp, visitClosure
<1>2. CASE b.kind = "Closure"
  <2>1. same \in BOOLEAN
    OBVIOUS
  <2>2. ("no" \in Answer(same) => ~same) /\ ("yes" \in Answer(same) => same)
    BY <2>1, Answers
  <2> HIDE DEF all
  <2>3. /\ "no" \in AndThen(Answer(same), all) => "no" \in Answer(same) \/ "no" \in all
        /\ "yes" \in AndThen(Answer(same), all) => "yes" \in Answer(same) /\ "yes" \in all
    BY AndThenSays
  <2>4. /\ "no" \in AndThen(Answer(same), all) => ~same \/ "no" \in all
        /\ "yes" \in AndThen(Answer(same), all) => same /\ "yes" \in all
    BY <2>2, <2>3
  <2> USE DEF all
  <2>5. Says(a, b, AndThen(Answer(same), all))
    BY <1>2, <2>4, ListsSay
  <2> QED BY <1>1, <1>2, <2>5
<1>3. CASE b.kind # "Closure"
  BY <1>1, <1>3, OthersSay DEF IntegerKinds
<1> QED BY <1>2, <1>3

\* Fields are compared with themselves: what is not of one definition has none.
LEMMA StructuresSay ==
  ASSUME NEW n \in Nat, SaysWithin(n), NEW a \in Term, NEW b \in Term,
         ClearOf(n + 1, a), ClearOf(n + 1, b), a.kind = "ADT"
  PROVE  Says(a, b, compare(canEqualWithin[n], a, b))
<1> DEFINE head == /\ Adts[a.tag].kind = Adts[b.tag].kind /\ Adts[a.tag].name = Adts[b.tag].name
                   /\ Len(Adts[a.tag].variants) = Len(Adts[b.tag].variants)
           turns == [v \in DOMAIN Adts[a.tag].variants |-> VariantCanEqual(canEqualWithin[n], a, b, v)]
           fields(v) == [f \in DOMAIN Fields(a)[v] |-> canEqualWithin[n][Fields(a)[v][f]][Fields(b)[v][f]]]
<1>1. compare(canEqualWithin[n], a, b) =
        IF b.kind = "ADT" THEN visitADT(canEqualWithin[n], a, b) ELSE Answer(Inferred(b, {"General"}))
  BY DEF compare, ADTCmp
<1>2. visitADT(canEqualWithin[n], a, b) = AndThen(Answer(head), InTurn(turns))
  BY DEF visitADT
<1>3. CASE b.kind = "ADT"
  <2>1. /\ Fields(a) \in Seq(Seq(Term)) /\ Fields(b) \in Seq(Seq(Term))
        /\ Fields(a) = Adts[a.tag].variants /\ Fields(b) = Adts[b.tag].variants
    BY <1>3, StructureTypes DEF Fields
  <2>2. DOMAIN turns = DOMAIN Fields(a) /\ \A v \in DOMAIN Fields(a) : turns[v] = VariantCanEqual(canEqualWithin[n], a, b, v)
    BY <2>1
  <2>3. \A v : VariantCanEqual(canEqualWithin[n], a, b, v) = AndThen(Answer(SameFieldObjects(a, b, v)), InTurn(fields(v)))
    BY DEF VariantCanEqual
  <2>4. \A v : ("no" \in Answer(SameFieldObjects(a, b, v)) => ~SameFieldObjects(a, b, v))
                 /\ ("yes" \in Answer(SameFieldObjects(a, b, v)) => SameFieldObjects(a, b, v))
    <3>1. \A v : SameFieldObjects(a, b, v) \in BOOLEAN
      BY DEF SameFieldObjects
    <3> QED BY <3>1, Answers
  <2>5. ("no" \in Answer(head) => ~head) /\ ("yes" \in Answer(head) => head)
    <3>1. head \in BOOLEAN
      OBVIOUS
    <3> HIDE DEF head
    <3> QED BY <3>1, Answers
  <2> HIDE DEF head, turns, fields
  <2>6. /\ "no" \in AndThen(Answer(head), InTurn(turns)) =>
             ~head \/ \E v \in DOMAIN Fields(a) : "no" \in VariantCanEqual(canEqualWithin[n], a, b, v)
        /\ "yes" \in AndThen(Answer(head), InTurn(turns)) =>
             head /\ \A v \in DOMAIN Fields(a) : "yes" \in VariantCanEqual(canEqualWithin[n], a, b, v)
    <3>1. /\ "no" \in AndThen(Answer(head), InTurn(turns)) => "no" \in Answer(head) \/ "no" \in InTurn(turns)
          /\ "yes" \in AndThen(Answer(head), InTurn(turns)) => "yes" \in Answer(head) /\ "yes" \in InTurn(turns)
      BY AndThenSays
    <3>2. /\ "no" \in InTurn(turns) => \E i \in DOMAIN turns : "no" \in turns[i]
          /\ "yes" \in InTurn(turns) => \A i \in DOMAIN turns : "yes" \in turns[i]
      BY InTurnSays
    <3> QED BY <2>2, <2>5, <3>1, <3>2
  <2>7. ASSUME NEW v
        PROVE  /\ "no" \in VariantCanEqual(canEqualWithin[n], a, b, v) =>
                    ~SameFieldObjects(a, b, v) \/ \E f \in DOMAIN fields(v) : "no" \in fields(v)[f]
               /\ "yes" \in VariantCanEqual(canEqualWithin[n], a, b, v) => SameFieldObjects(a, b, v)
    <3> DEFINE same == SameFieldObjects(a, b, v)
               parts == fields(v)
    <3>1. VariantCanEqual(canEqualWithin[n], a, b, v) = AndThen(Answer(same), InTurn(parts))
      BY <2>3
    <3>2. ("no" \in Answer(same) => ~same) /\ ("yes" \in Answer(same) => same)
      BY <2>4
    <3> HIDE DEF same, parts
    <3>3. /\ "no" \in AndThen(Answer(same), InTurn(parts)) => "no" \in Answer(same) \/ "no" \in InTurn(parts)
          /\ "yes" \in AndThen(Answer(same), InTurn(parts)) => "yes" \in Answer(same) /\ "yes" \in InTurn(parts)
      BY AndThenSays
    <3>4. "no" \in InTurn(parts) => \E i \in DOMAIN parts : "no" \in parts[i]
      BY InTurnSays
    <3>5. /\ "no" \in VariantCanEqual(canEqualWithin[n], a, b, v) => ~same \/ \E i \in DOMAIN parts : "no" \in parts[i]
          /\ "yes" \in VariantCanEqual(canEqualWithin[n], a, b, v) => same
      BY <3>1, <3>2, <3>3, <3>4
    <3> QED BY <3>5 DEF same, parts
  <2>8. ASSUME "no" \in AndThen(Answer(head), InTurn(turns)) PROVE ~Compatible(a, b)
    <3>1. SUFFICES ASSUME Compatible(a, b) PROVE FALSE
      OBVIOUS
    <3>2. a.tag = b.tag
      BY <1>3, <3>1, CompatibleUnfolds DEF Assigned, Variable
    <3>3. head /\ \A v : SameFieldObjects(a, b, v)
      BY <3>2 DEF head, SameFieldObjects
    <3>4. PICK v \in DOMAIN Fields(a) : "no" \in VariantCanEqual(canEqualWithin[n], a, b, v)
      BY <2>6, <2>8, <3>3
    <3>5. PICK f \in DOMAIN fields(v) : "no" \in fields(v)[f]
      BY <2>7, <3>3, <3>4
    <3>6. f \in DOMAIN Fields(a)[v] /\ fields(v)[f] = canEqualWithin[n][Fields(a)[v][f]][Fields(a)[v][f]]
      BY <3>2, <3>5 DEF fields, Fields
    <3>7. Fields(a)[v][f] \in Term /\ walked[n][Fields(a)[v][f]] \subseteq walked[n + 1][a]
      BY <3>6, WalkedFields
    <3>8. ClearOf(n, Fields(a)[v][f])
      BY <3>7 DEF ClearOf
    <3>9. Says(Fields(a)[v][f], Fields(a)[v][f], canEqualWithin[n][Fields(a)[v][f]][Fields(a)[v][f]])
      BY <3>7, <3>8 DEF SaysWithin
    <3>10. Facing(Fields(a)[v][f], Fields(a)[v][f])
      BY <3>5, <3>6, <3>7, <3>9, CompatibleReflexive DEF Says
    <3> QED BY <3>7, <3>10, FacingIrreflexive
  <2>9. ASSUME "yes" \in AndThen(Answer(head), InTurn(turns)) PROVE Alike(a, b)
    <3>1. head /\ \A v \in DOMAIN Fields(a) : SameFieldObjects(a, b, v)
      BY <2>6, <2>7, <2>9
    <3>2. CASE a.tag = b.tag
      <4>1. SameFields(a, b)
        BY <3>2 DEF SameFields
      <4> QED BY <1>3, <4>1, AlikeUnfolds, Zenon
    <3>3. CASE a.tag # b.tag
      <4>1. Len(Fields(a)) = Len(Fields(b)) /\ Adts[a.tag].name = Adts[b.tag].name
        BY <2>1, <3>1 DEF head
      <4>2. DOMAIN Fields(a) = DOMAIN Fields(b)
        BY <2>1, <4>1
      <4>3. \A v \in DOMAIN Fields(a) : Fields(a)[v] = <<>> /\ Fields(b)[v] = <<>>
        BY <3>1, <3>3 DEF SameFieldObjects
      <4>4. AllFields(a) = {} /\ AllFields(b) = {}
        BY <4>2, <4>3 DEF AllFields
      <4>5. SameFields(a, b)
        BY <4>1, <4>4 DEF SameFields
      <4> QED BY <1>3, <4>5, AlikeUnfolds, Zenon
    <3> QED BY <3>2, <3>3
  <2>10. Says(a, b, AndThen(Answer(head), InTurn(turns)))
    BY <2>8, <2>9 DEF Says
  <2>11. compare(canEqualWithin[n], a, b) = AndThen(Answer(head), InTurn(turns))
    BY <1>1, <1>2, <1>3 DEF head, turns
  <2> QED BY <2>10, <2>11
<1>4. CASE b.kind # "ADT"
  BY <1>1, <1>4, OthersSay DEF IntegerKinds
<1> QED BY <1>3, <1>4

\* A parameter says yes to every type, and is alike to every type.
LEMMA ParametersSay ==
  ASSUME NEW within, NEW a \in Term, NEW b \in Term, a.kind = "Parameter", b.kind \notin Opaque
  PROVE  Says(a, b, compare(within, a, b))
<1>1. compare(within, a, b) = Answer(TRUE)
  BY DEF compare, ParamCmp, Opaque
<1>2. "no" \notin Answer(TRUE)
  BY DEF Answer
<1>3. AnyType(a)
  BY DEF AnyType
<1>4. Alike(a, b)
  BY <1>3, AlikeUnfolds, Zenon
<1> QED BY <1>1, <1>2, <1>4 DEF Says

\* A variable says no to strings and functions, whatever it may stand for.
LEMMA VariablesSay ==
  ASSUME NEW within, NEW a \in Term, NEW b \in Term, a.kind = "Inferred", b.kind \notin Opaque
  PROVE  Says(a, b, compare(within, a, b))
<1> DEFINE admitted ==
      CASE b.kind \in IntegerKinds -> a.tag \in {"General", "Integral"}
        [] b.kind = "Float" -> a.tag \in {"General", "Float"}
        [] b.kind \in {"Str", "Error", "FunctionPointer", "Projection", "Function"} -> FALSE
        [] b.kind \in {"PlaceHolder", "Inferred", "Parameter", "Never"} -> TRUE
        [] OTHER -> a.tag = "General"
<1>1. compare(within, a, b) = Answer(admitted)
  BY DEF compare, InferCmp
<1>2. b.kind \in Kinds /\ a.tag \in {"General", "Integral", "Float"} /\ a.args = <<>>
  BY TermsAreWellFormed, InferredTypes
<1>3. CASE b.kind \in IntegerKinds
  <2>1. admitted <=> a.tag \in {"General", "Integral"}
    BY <1>3 DEF IntegerKinds
  <2>2. b.kind # "Inferred" /\ b.kind # "Float"
    BY <1>3 DEF IntegerKinds
  <2>3. Assigned(a, b) <=> a.tag \in {"General", "Integral"}
    BY <1>2, <1>3, <2>2 DEF Assigned, Variable, Admits, Inferred
  <2>4. Compatible(a, b) => Assigned(a, b)
    BY <2>2, CompatibleUnfolds
  <2>5. Assigned(a, b) => Alike(a, b)
    BY AlikeUnfolds, Zenon
  <2> QED BY <1>1, <2>1, <2>3, <2>4, <2>5 DEF Says, Answer
<1>4. CASE b.kind = "Float"
  <2>1. admitted <=> a.tag \in {"General", "Float"}
    BY <1>4 DEF IntegerKinds
  <2>3. Assigned(a, b) <=> a.tag \in {"General", "Float"}
    BY <1>2, <1>4 DEF Assigned, Variable, Admits, Inferred, IntegerKinds
  <2>4. Compatible(a, b) => Assigned(a, b)
    BY <1>4, CompatibleUnfolds
  <2>5. Assigned(a, b) => Alike(a, b)
    BY AlikeUnfolds, Zenon
  <2> QED BY <1>1, <2>1, <2>3, <2>4, <2>5 DEF Says, Answer
<1>5. CASE b.kind \in {"Str", "FunctionPointer", "Function"}
  <2>1. ~admitted
    BY <1>5 DEF IntegerKinds
  <2>2. Assigned(a, b) => a.tag = "General"
    BY <1>2, <1>5 DEF Assigned, Variable, Admits, Inferred, IntegerKinds
  <2>3. Compatible(a, b) => Assigned(a, b)
    BY <1>5, CompatibleUnfolds
  <2>4. a.tag = "General" => Facing(a, b)
    BY <1>5, FacingUnfolds DEF Inferred, FunctionKinds
  <2> QED BY <1>1, <2>1, <2>2, <2>3, <2>4 DEF Says, Answer
<1>6. CASE b.kind \in {"Inferred", "Parameter", "Never"}
  <2>1. admitted
    BY <1>6 DEF IntegerKinds
  <2>2. b.kind = "Inferred" => AnyType(a) \/ AnyType(b) \/ Assigned(a, b) \/ (a.tag = b.tag /\ b.args = <<>>)
    BY <1>2, InferredTypes DEF AnyType, Assigned, Variable, Admits, Inferred
  <2>3. b.kind # "Inferred" => AnyType(b)
    BY <1>6 DEF AnyType
  <2>4. ASSUME b.kind = "Inferred", a.tag = b.tag, b.args = <<>> PROVE Alike(a, b)
    <3>1. SameShape(a, b)
      BY <1>2, <2>4, OneShape
    <3>2. Seen(a) = {}
      BY <1>2 DEF Seen
    <3> QED BY <3>1, <3>2, AlikeUnfolds
  <2>5. AnyType(a) \/ AnyType(b) \/ Assigned(a, b) => Alike(a, b)
    BY AlikeUnfolds, Zenon
  <2>6. Alike(a, b)
    BY <1>6, <2>2, <2>3, <2>4, <2>5
  <2> HIDE DEF admitted
  <2> QED BY <1>1, <2>1, <2>6 DEF Says, Answer
<1>7. CASE b.kind \notin IntegerKinds \cup {"Float", "Str", "FunctionPointer", "Function", "Inferred", "Parameter", "Never"}
  <2>1. admitted <=> a.tag = "General"
    BY <1>7 DEF IntegerKinds, Opaque
  <2>2. Assigned(a, b) <=> a.tag = "General"
    BY <1>2, <1>7 DEF Assigned, Variable, Admits, Inferred, IntegerKinds
  <2>3. Compatible(a, b) => Assigned(a, b)
    BY <1>7, CompatibleUnfolds
  <2>4. Assigned(a, b) => Alike(a, b)
    BY AlikeUnfolds, Zenon
  <2> QED BY <1>1, <2>1, <2>2, <2>3, <2>4 DEF Says, Answer
<1> QED BY <1>3, <1>4, <1>5, <1>6, <1>7

\* What the comparison of two types says, whatever calls it may make.
LEMMA ComparisonSays == \A n \in Nat : SaysWithin(n)
<1> DEFINE S == {n \in Nat : SaysWithin(n)}
<1>1. 0 \in S
  <2>1. \A a, b \in Term : canEqualWithin[0][a][b] = {"overflow"}
    BY CanEqualUnfolds, 0 \in Nat
  <2> QED BY <2>1 DEF SaysWithin, Says
<1>2. ASSUME NEW n \in S PROVE n + 1 \in S
  <2>1. ASSUME NEW a \in Term, NEW b \in Term, ClearOf(n + 1, a), ClearOf(n + 1, b)
        PROVE  Says(a, b, canEqualWithin[n + 1][a][b])
    <3>0. n \in Nat /\ SaysWithin(n)
      OBVIOUS
    <3>1. canEqualWithin[n + 1][a][b] = compare(canEqualWithin[n], a, b)
      BY <3>0, CanEqualUnfolds
    <3>2. a.kind \notin Opaque /\ b.kind \notin Opaque
      BY <2>1, <3>0, ClearParts
    <3>3. a.kind \in Scalar \cup FunctionKinds \cup
                     {"Tuple", "Reference", "RawPointer", "Array", "Slice", "Closure", "ADT", "Parameter", "Inferred"}
      BY <3>2, TermsAreWellFormed DEF Kinds, PlainKinds, TaggedKinds, PointerKinds, FunctionKinds, Scalar, Opaque
    <3> HIDE DEF S
    <3>4. CASE a.kind \in Scalar
      BY <3>1, <3>4, ScalarsSay DEF Says
    <3>5. CASE a.kind \in FunctionKinds
      BY <2>1, <3>0, <3>1, <3>5, FunctionsSay
    <3>6. CASE a.kind = "Tuple"
      BY <2>1, <3>0, <3>1, <3>6, TuplesSay
    <3>7. CASE a.kind \in {"Reference", "RawPointer"}
      BY <2>1, <3>0, <3>1, <3>7, ReferencesSay
    <3>8. CASE a.kind \in {"Array", "Slice"}
      BY <2>1, <3>0, <3>1, <3>8, ArraysSay
    <3>9. CASE a.kind = "Closure"
      BY <2>1, <3>0, <3>1, <3>9, ClosuresSay
    <3>10. CASE a.kind = "ADT"
      BY <2>1, <3>0, <3>1, <3>10, StructuresSay
    <3>11. CASE a.kind = "Parameter"
      BY <3>1, <3>2, <3>11, ParametersSay
    <3>12. CASE a.kind = "Inferred"
      BY <3>1, <3>2, <3>12, VariablesSay
    <3> QED BY <3>3, <3>4, <3>5, <3>6, <3>7, <3>8, <3>9, <3>10, <3>11, <3>12
  <2>2. SaysWithin(n + 1)
    BY <2>1 DEF SaysWithin
  <2> QED BY <2>2
<1>3. S = Nat
  <2> HIDE DEF S
  <2>1. S \in SUBSET Nat
    BY DEF S
  <2> QED BY <1>1, <1>2, <2>1, NatInduces
<1> QED BY <1>3

-----------------------------------------------------------------------------
(* The unification of two types *)

LEMMA UnifyUnfolds ==
  ASSUME NEW n \in Nat, NEW l \in Term, NEW r \in Term
  PROVE  /\ unifyWithin[0][l][r] = Overflow
         /\ unifyWithin[n + 1][l][r] = Emitted(expect(unifyWithin[n], l, r))
<1>1. unifyWithin[n + 1] = UnifyStep(n + 1, unifyWithin[n])
  BY UnifyEquation
<1>2. UnifyStep(n + 1, unifyWithin[n])[l][r] = Emitted(expect(unifyWithin[n], l, r))
  BY DEF UnifyStep
<1>3. unifyWithin[0][l][r] = Overflow
  BY UnifyEquation
<1> QED BY <1>1, <1>2, <1>3

\* What ends the process is not a type.
LEMMA TermsAreNotFails ==
  ASSUME NEW t \in Term
  PROVE  t \notin Fails /\ t # Fine /\ t # None /\ (t # Error => t.kind # "Error")
<1>1. t.kind \in Kinds /\ t \in [kind : Kinds, tag : STRING, args : Seq(Term)]
  BY TermsAreWellFormed
<1>2. t.kind \notin {"Abort", "Overflow", "Fine", "None"}
  BY <1>1 DEF Kinds, PlainKinds, TaggedKinds, PointerKinds, FunctionKinds
<1>3. t \notin Fails /\ t # Fine /\ t # None
  <2>1. Abort.kind = "Abort" /\ Overflow.kind = "Overflow" /\ Fine.kind = "Fine" /\ None.kind = "None"
    BY DEF Abort, Overflow, Fine, None, Leaf, Type
  <2> QED BY <1>2, <2>1 DEF Fails
<1>4. ASSUME t.kind = "Error" PROVE t = Error
  <2>1. t.tag = "" /\ t.args = <<>>
    BY <1>4, PlainTypes DEF PlainKinds
  <2> QED BY <1>1, <1>4, <2>1 DEF Error, Leaf, Type
<1> QED BY <1>3, <1>4

LEMMA FailsDiffer == Abort # Overflow /\ Fine \notin Fails /\ Error \notin Fails /\ Abort \in Fails /\ Overflow \in Fails
BY DEF Fails, Abort, Overflow, Fine, Error, Leaf, Type

LEMMA LeastExists ==
  ASSUME NEW S \in SUBSET Nat, S # {}
  PROVE  \E x \in S : \A y \in S : x <= y
<1>1. IsWellFoundedOn(OpToRel(<, Nat), Nat)
  BY NatLessThanWellFounded
<1>2. PICK x \in S : \A y \in S : ~(<<y, x>> \in OpToRel(<, Nat))
  BY <1>1, WFMin
<1>3. ASSUME NEW y \in S PROVE x <= y
  <2>1. x \in Nat /\ y \in Nat
    OBVIOUS
  <2>2. ~(<<y, x>> \in OpToRel(<, Nat))
    BY <1>2
  <2>3. ~(y < x)
    BY <2>1, <2>2 DEF OpToRel
  <2> QED BY <2>1, <2>3
<1> QED BY <1>3

\* Unifications made in turn: none fails, or what comes is a failure of one.
LEMMA FirstFailureIs ==
  ASSUME NEW results, DOMAIN results \subseteq Nat
  PROVE  \/ FirstFailure(results) = Fine /\ \A i \in DOMAIN results : results[i] \notin Fails
         \/ FirstFailure(results) \in Fails /\ \E i \in DOMAIN results : FirstFailure(results) = results[i]
<1> DEFINE failed == {i \in DOMAIN results : results[i] \in Fails}
<1>1. CASE failed = {}
  BY <1>1 DEF FirstFailure
<1>2. CASE failed # {}
  <2> DEFINE first == CHOOSE i \in failed : \A j \in failed : i <= j
  <2>1. failed \in SUBSET Nat
    OBVIOUS
  <2>2. \E i \in failed : \A j \in failed : i <= j
    <3> HIDE DEF failed
    <3> QED BY <1>2, <2>1, LeastExists
  <2>3. first \in failed
    BY <2>2
  <2>4. FirstFailure(results) = results[first]
    BY <1>2 DEF FirstFailure
  <2> HIDE DEF first
  <2> QED BY <2>3, <2>4
<1> QED BY <1>1, <1>2

LEMMA KindOfErrors == Error.kind = "Error" /\ Abort.kind = "Abort"
BY DEF Error, Abort, Leaf, Type

\* A type with new parts has the kind and the tag it had.
Rebuilt(t, parts) == [t EXCEPT !.args = parts]

LEMMA WithNewParts ==
  ASSUME NEW t \in Term, NEW parts
  PROVE  /\ Rebuilt(t, parts).kind = t.kind /\ Rebuilt(t, parts).tag = t.tag
         /\ Rebuilt(t, parts).args = parts
         /\ parts = t.args => Rebuilt(t, parts) = t
<1>1. t \in [kind : Kinds, tag : STRING, args : Seq(Term)]
  BY TermsAreWellFormed
<1> QED BY <1>1 DEF Rebuilt

\* What the i-th parts of two types become.
Each(within, l, r, i) == within[l.args[i]][r.args[i]]

LEMMA PartsUnifiedAre ==
  ASSUME NEW within, NEW l \in Term, NEW r \in Term
  PROVE  /\ DOMAIN PartsUnified(within, l, r) = DOMAIN l.args
         /\ \A i \in DOMAIN l.args : PartsUnified(within, l, r)[i] = Each(within, l, r, i)
BY DEF PartsUnified, Each

\* One of some results fails, and is the result; or none does.
IsFailure(u, results) == u \in Fails /\ \E i \in DOMAIN results : u = results[i]
NoFailure(results) == \A i \in DOMAIN results : results[i] \notin Fails

\* The unified parts of two types make a type of that kind, or one of them fails.
LEMMA PartsUnify ==
  ASSUME NEW within, NEW t \in Term, NEW l \in Term, NEW r \in Term
  PROVE  \/ IsFailure(UnifyParts(within, t, l, r), PartsUnified(within, l, r))
         \/ /\ NoFailure(PartsUnified(within, l, r))
            /\ UnifyParts(within, t, l, r) \notin Fails
            /\ UnifyParts(within, t, l, r) = Rebuilt(t, PartsUnified(within, l, r))
<1> DEFINE parts == PartsUnified(within, l, r)
           made == Rebuilt(t, parts)
<1>1. DOMAIN parts = DOMAIN l.args /\ DOMAIN parts \subseteq Nat
  BY ArgsAreTerms, PartsUnifiedAre
<1>2. UnifyParts(within, t, l, r) = IF FirstFailure(parts) = Fine THEN made ELSE FirstFailure(parts)
  BY DEF UnifyParts, WithParts, Rebuilt
<1>3. made \notin Fails
  <2>1. t.kind \notin {"Abort", "Overflow"}
    BY TermsAreWellFormed DEF Kinds, PlainKinds, TaggedKinds, PointerKinds, FunctionKinds
  <2>2. Overflow.kind = "Overflow"
    BY DEF Overflow, Leaf, Type
  <2>3. made.kind = t.kind
    BY WithNewParts
  <2> HIDE DEF made
  <2> QED BY <2>1, <2>2, <2>3, KindOfErrors DEF Fails
<1> HIDE DEF parts, made
<1>4. \/ FirstFailure(parts) = Fine /\ NoFailure(parts)
      \/ IsFailure(FirstFailure(parts), parts)
  BY <1>1, FirstFailureIs DEF NoFailure, IsFailure
<1>5. IsFailure(FirstFailure(parts), parts) => FirstFailure(parts) # Fine
  BY FailsDiffer DEF IsFailure
<1>6. \/ IsFailure(UnifyParts(within, t, l, r), parts)
      \/ NoFailure(parts) /\ UnifyParts(within, t, l, r) = made
  BY <1>2, <1>4, <1>5
<1> QED BY <1>3, <1>6 DEF parts, made

\* What is emitted is a failure, or what was found.
LEMMA EmittedIs ==
  ASSUME NEW t
  PROVE  Emitted(t) \notin Fails => Emitted(t) = t /\ t # Error /\ t \notin Fails
BY FailsDiffer DEF Emitted

\* A type that two types may be used as.
Serves(h, l, r, t) == t \notin Fails => t \in TermUpTo[h] /\ Usable(l, t) /\ Usable(r, t)
ServesWithin(n) ==
  \A h \in 0..Height : \A l, r \in TermUpTo[h] : Serves(h, l, r, unifyWithin[n][l][r])

LEMMA HeightsAreNumbers ==
  ASSUME NEW h \in 0..Height
  PROVE  h \in Nat /\ TermUpTo[h] \subseteq Term
BY LowTermsAreTerms, TermsAssumption

\* One of the two, the other of which is a variable that may stand for it.
LEMMA VariableServes ==
  ASSUME NEW h \in 0..Height, NEW l \in TermUpTo[h], NEW r \in TermUpTo[h]
  PROVE  /\ Variable(r) /\ Admits(r.tag, l) => Serves(h, l, r, l)
         /\ (Variable(l) /\ Admits(l.tag, r)) \/ l.kind = "Never" => Serves(h, l, r, r)
<1>1. l \in Term /\ r \in Term
  BY HeightsAreNumbers
<1>2. Usable(l, l) /\ Usable(r, r)
  BY <1>1, UsableReflexive
<1>3. Variable(r) /\ Admits(r.tag, l) => Usable(r, l)
  BY <1>1, UsableUnfolds, Zenon
<1>4. (Variable(l) /\ Admits(l.tag, r)) \/ l.kind = "Never" => Usable(l, r)
  BY <1>1, UsableUnfolds, Zenon
<1> QED BY <1>2, <1>3, <1>4 DEF Serves

\* One of two types that have the same name and no parts.
LEMMA SameServes ==
  ASSUME NEW h \in 0..Height, NEW l \in TermUpTo[h], NEW r \in TermUpTo[h],
         l.kind = r.kind, l.tag = r.tag, l.args = <<>>, r.args = <<>>, l.kind \notin {"ADT", "Reference"}
  PROVE  Serves(h, l, r, r)
<1>1. l \in Term /\ r \in Term
  BY HeightsAreNumbers
<1>2. UsableTag(l, r)
  BY DEF UsableTag
<1>3. Len(l.args) = Len(r.args) /\ \A i \in DOMAIN l.args : Usable(l.args[i], r.args[i])
  OBVIOUS
<1>4. Usable(l, r)
  BY <1>1, <1>2, <1>3, UsableUnfolds, Zenon
<1>5. Usable(r, r)
  BY <1>1, UsableReflexive
<1> QED BY <1>4, <1>5 DEF Serves

\* A type made of the unified parts of two, with the tag of one of them.
LEMMA PartsServe ==
  ASSUME NEW n \in Nat, ServesWithin(n), NEW h \in 0..Height,
         NEW l \in TermUpTo[h], NEW r \in TermUpTo[h], NEW t \in {l, r},
         l.kind = r.kind, Len(l.args) = Len(r.args), l.kind \in {"Tuple", "Array", "Slice", "Reference"},
         UsableTag(l, t), UsableTag(r, t)
  PROVE  Serves(h, l, r, UnifyParts(unifyWithin[n], t, l, r))
<1> DEFINE parts == PartsUnified(unifyWithin[n], l, r)
           made == Rebuilt(t, parts)
<1>1. l \in Term /\ r \in Term /\ t \in Term /\ h \in Nat /\ t \in TermUpTo[h]
  BY HeightsAreNumbers
<1>2. /\ h - 1 \in Nat /\ (h - 1) + 1 = h
      /\ \A i \in DOMAIN l.args : l.args[i] \in TermUpTo[h - 1]
      /\ \A i \in DOMAIN r.args : r.args[i] \in TermUpTo[h - 1]
      /\ t \in [kind : Kinds, tag : STRING, args : Seq(TermUpTo[h - 1])] /\ WellFormed(t)
  BY <1>1, PartsAreLower
<1>3. h - 1 \in 0..Height
  BY <1>2, TermsAssumption
<1>4. DOMAIN l.args = 1..Len(l.args) /\ Len(l.args) \in Nat /\ DOMAIN r.args = DOMAIN l.args
  BY <1>1, ArgsAreTerms
<1>5. \A i \in DOMAIN l.args : Serves(h - 1, l.args[i], r.args[i], Each(unifyWithin[n], l, r, i))
  BY <1>2, <1>3, <1>4 DEF ServesWithin, Each
<1>55. DOMAIN parts = DOMAIN l.args /\ \A i \in DOMAIN l.args : parts[i] = Each(unifyWithin[n], l, r, i)
  BY <1>1, PartsUnifiedAre
<1>6. ASSUME UnifyParts(unifyWithin[n], t, l, r) \notin Fails
      PROVE  /\ UnifyParts(unifyWithin[n], t, l, r) = made
             /\ \A i \in DOMAIN l.args : parts[i] \notin Fails
  <2>1. NoFailure(parts) /\ UnifyParts(unifyWithin[n], t, l, r) = made
    BY <1>1, <1>6, PartsUnify DEF IsFailure
  <2> QED BY <1>55, <2>1 DEF NoFailure
<1>7. ASSUME \A i \in DOMAIN l.args : parts[i] \notin Fails
      PROVE  made \in TermUpTo[h] /\ Usable(l, made) /\ Usable(r, made)
  <2>1. \A i \in DOMAIN l.args : /\ parts[i] \in TermUpTo[h - 1]
                                 /\ Usable(l.args[i], parts[i]) /\ Usable(r.args[i], parts[i])
    BY <1>5, <1>55, <1>7 DEF Serves
  <2>2. parts \in [1..Len(l.args) -> TermUpTo[h - 1]]
    BY <1>4, <1>55, <2>1 DEF PartsUnified
  <2>3. DOMAIN parts = DOMAIN l.args
    BY <1>55
  <2> HIDE DEF parts
  <2>4. parts \in Seq(TermUpTo[h - 1]) /\ Len(parts) = Len(l.args)
    BY <1>4, <2>2
  <2>5. made.kind = t.kind /\ made.tag = t.tag /\ made.args = parts
    BY <1>1, WithNewParts
  <2>6. made \in [kind : Kinds, tag : STRING, args : Seq(TermUpTo[h - 1])]
    BY <1>2, <2>4 DEF Rebuilt
  <2>7. t.kind = l.kind /\ Len(t.args) = Len(parts)
    BY <2>4
  <2> HIDE DEF made
  <2>8. WellFormed(made)
    BY <1>2, <2>4, <2>5, <2>7 DEF WellFormed, PlainKinds, TaggedKinds, PointerKinds, FunctionKinds
  <2>9. made \in TermUpTo[h]
    BY <1>2, <2>6, <2>8, TermUpToNext
  <2>10. made \in Term
    BY <2>9, HeightsAreNumbers
  <2>11. UsableTag(l, made) /\ UsableTag(r, made)
    BY <2>5 DEF UsableTag
  <2>12. /\ l.kind = made.kind /\ Len(l.args) = Len(made.args) /\ r.kind = made.kind /\ Len(r.args) = Len(made.args)
         /\ \A i \in DOMAIN l.args : Usable(l.args[i], made.args[i])
         /\ \A i \in DOMAIN r.args : Usable(r.args[i], made.args[i])
    BY <1>4, <2>1, <2>4, <2>5, <2>7
  <2>13. Usable(l, made)
    BY <1>1, <2>10, <2>11, <2>12, UsableUnfolds, Zenon
  <2>14. Usable(r, made)
    BY <1>1, <2>10, <2>11, <2>12, UsableUnfolds, Zenon
  <2> QED BY <2>9, <2>13, <2>14
<1> HIDE DEF made, parts
<1>8. CASE UnifyParts(unifyWithin[n], t, l, r) \in Fails
  BY <1>8 DEF Serves
<1>9. CASE UnifyParts(unifyWithin[n], t, l, r) \notin Fails
  BY <1>6, <1>7, <1>9 DEF Serves
<1> QED BY <1>8, <1>9

\* What each rule of expect answers: one of the two types, a type made of their
\* parts, or a failure, and when it is none of the types the two have in common.
Scalars == {"Int", "Uint", "USize", "ISize", "Str"}
LEMMA ScalarsExpect ==
  ASSUME NEW within, NEW l \in Term, NEW r \in Term, l.kind \in Scalars
  PROVE  \/ expect(within, l, r) = r /\ r.kind = l.kind /\ r.tag = l.tag
         \/ expect(within, l, r) = l /\ Variable(r) /\ Admits(r.tag, l)
         \/ expect(within, l, r) \in {Error, Abort} /\ ~Compatible(l, r)
<1>1. Variable(r) => r.tag \in {"General", "Integral", "Float"}
  BY InferredTypes DEF Variable
<1>2. l.kind \in {"USize", "ISize", "Str"} => l.tag = ""
  BY PlainTypes DEF PlainKinds
<1>3. r.kind \in {"USize", "ISize", "Str"} => r.tag = ""
  BY PlainTypes DEF PlainKinds
<1>4. Compatible(l, r) => (Variable(r) /\ Admits(r.tag, l)) \/ (l.kind = r.kind /\ l.tag = r.tag)
  BY CompatibleUnfolds DEF Assigned, Variable, Scalars
<1>5. Variable(r) => (Admits(r.tag, l) <=> r.tag = "General" \/ (r.tag = "Integral" /\ l.kind # "Str"))
  BY <1>1 DEF Admits, Scalars, IntegerKinds, Inferred
<1>6. CASE l.kind = "Int"
  BY <1>1, <1>4, <1>5, <1>6 DEF expect, expectIntType, Inferred, Variable
<1>7. CASE l.kind = "Uint"
  BY <1>1, <1>4, <1>5, <1>7 DEF expect, expectUint, Inferred, Variable
<1>8. CASE l.kind = "USize"
  BY <1>1, <1>2, <1>3, <1>4, <1>5, <1>8 DEF expect, expectUSizeType, Inferred, Variable
<1>9. CASE l.kind = "ISize"
  BY <1>1, <1>2, <1>3, <1>4, <1>5, <1>9 DEF expect, expectISizeType, Inferred, Variable
<1>10. CASE l.kind = "Str"
  BY <1>1, <1>2, <1>3, <1>4, <1>5, <1>10 DEF expect, expectStr, Inferred, Variable
<1> QED BY <1>6, <1>7, <1>8, <1>9, <1>10 DEF Scalars

LEMMA NeverExpects ==
  ASSUME NEW within, NEW l \in Term, NEW r \in Term, l.kind = "Never"
  PROVE  \/ expect(within, l, r) = r
         \/ expect(within, l, r) = l /\ Variable(r) /\ Admits(r.tag, l)
         \/ expect(within, l, r) = Error /\ ~Compatible(l, r)
<1>1. expect(within, l, r) = expectNever(l, r)
  BY DEF expect
<1>2. Inferred(r, {"General"}) => Variable(r) /\ Admits(r.tag, l)
  BY DEF Inferred, Variable, Admits
<1>3. Variable(r) /\ Admits(r.tag, l) => Inferred(r, {"General"})
  BY DEF Inferred, Variable, Admits, IntegerKinds
<1>4. Compatible(l, r) => Inferred(r, {"General"}) \/ r.kind = "Never"
  BY <1>3, CompatibleUnfolds DEF Assigned, Variable
<1>5. CASE Inferred(r, {"General"})
  BY <1>1, <1>2, <1>5 DEF expectNever, Inferred
<1>6. CASE ~Inferred(r, {"General"})
  BY <1>1, <1>4, <1>6 DEF expectNever
<1> QED BY <1>5, <1>6

LEMMA VariablesExpect ==
  ASSUME NEW within, NEW l \in Term, NEW r \in Term, Variable(l)
  PROVE  \/ expect(within, l, r) = r /\ Admits(l.tag, r)
         \/ expect(within, l, r) = Error /\ (~Compatible(l, r) \/ r.kind = "Error")
<1>1. l.kind = "Inferred" /\ l.tag \in {"General", "Integral", "Float"}
  BY InferredTypes DEF Variable
<1>2. expect(within, l, r) = expectInferenceVariable(l, r)
  BY <1>1 DEF expect
<1>3. r.kind = "Inferred" => r.tag \in {"General", "Integral", "Float"}
  BY InferredTypes
<1>4. Compatible(l, r) => Admits(l.tag, r) \/ (Variable(r) /\ Admits(r.tag, l)) \/ (r.kind = l.kind /\ r.tag = l.tag)
  BY CompatibleUnfolds DEF Assigned
<1>5. CASE r.kind = "Inferred"
  <2>1. expect(within, l, r) = IF l.tag = "General" \/ r.tag \in {l.tag, "General"} THEN r ELSE Error
    BY <1>2, <1>5 DEF expectInferenceVariable, IntegerKinds
  <2>2. l.tag = "General" \/ r.tag \in {l.tag, "General"} => Admits(l.tag, r)
    BY <1>1, <1>3, <1>5 DEF Admits, Inferred
  <2>3. Admits(l.tag, r) => l.tag = "General" \/ r.tag \in {l.tag, "General"}
    BY <1>1, <1>3, <1>5 DEF Admits, Inferred, IntegerKinds
  <2>4. Variable(r) /\ Admits(r.tag, l) => l.tag = "General" \/ r.tag \in {l.tag, "General"}
    BY <1>1, <1>3, <1>5 DEF Admits, Inferred, IntegerKinds
  <2> QED BY <1>4, <2>1, <2>2, <2>3, <2>4
<1>6. CASE r.kind # "Inferred"
  <2>1. Compatible(l, r) => Admits(l.tag, r)
    BY <1>1, <1>4, <1>6 DEF Variable
  <2>2. CASE r.kind \in IntegerKinds
    <3>1. expect(within, l, r) = IF l.tag \in {"General", "Integral"} THEN r ELSE Error
      BY <1>2, <2>2 DEF expectInferenceVariable, IntegerKinds
    <3>2. Admits(l.tag, r) <=> l.tag \in {"General", "Integral"}
      BY <1>1, <1>6, <2>2 DEF Admits, Inferred, IntegerKinds
    <3> QED BY <2>1, <3>1, <3>2
  <2>3. CASE r.kind = "Float"
    <3>1. expect(within, l, r) = IF l.tag \in {"General", "Float"} THEN r ELSE Error
      BY <1>2, <2>3 DEF expectInferenceVariable, IntegerKinds
    <3>2. Admits(l.tag, r) <=> l.tag \in {"General", "Float"}
      BY <1>1, <2>3 DEF Admits, Inferred, IntegerKinds
    <3> QED BY <2>1, <3>1, <3>2
  <2>4. CASE r.kind = "Error"
    BY <1>2, <2>4 DEF expectInferenceVariable, IntegerKinds
  <2>5. CASE r.kind \notin IntegerKinds \cup {"Float", "Error"}
    <3>1. expect(within, l, r) = IF l.tag = "General" THEN r ELSE Error
      BY <1>2, <1>6, <2>5 DEF expectInferenceVariable
    <3>2. Admits(l.tag, r) <=> l.tag = "General"
      BY <1>1, <1>6, <2>5 DEF Admits, Inferred
    <3> QED BY <2>1, <3>1, <3>2
  <2> QED BY <2>2, <2>3, <2>4, <2>5
<1> QED BY <1>5, <1>6

\* Types with parts, and which of the two the parts are put into.
Compound == {"Tuple", "Array", "Slice", "Reference"}
Whole(l, r) == IF l.kind = "Reference" THEN l ELSE r
LEMMA CompoundsExpect ==
  ASSUME NEW within, NEW l \in Term, NEW r \in Term, l.kind \in Compound
  PROVE  \/ expect(within, l, r) = l /\ Variable(r) /\ Admits(r.tag, l)
         \/ /\ expect(within, l, r) = UnifyParts(within, Whole(l, r), l, r)
            /\ r.kind = l.kind /\ Len(l.args) = Len(r.args)
            /\ l.kind = "Reference" => acceptableMutability(l, r) \/ expect(within, l, r) \in Fails
         \/ expect(within, l, r) = Error /\ ~Compatible(l, r)
<1>1. Inferred(r, {"General"}) <=> Variable(r) /\ Admits(r.tag, l)
  BY DEF Inferred, Variable, Admits, Compound, IntegerKinds
<1>2. Compatible(l, r) =>
        Inferred(r, {"General"}) \/ (l.kind = r.kind /\ l.tag = r.tag /\ Len(l.args) = Len(r.args))
  BY <1>1, CompatibleUnfolds DEF Assigned, Variable, Compound
<1>3. CASE Inferred(r, {"General"})
  <2>1. CASE l.kind = "Tuple"
    BY <1>1, <1>3, <2>1 DEF expect, expectTuple, Inferred
  <2>2. CASE l.kind = "Array"
    BY <1>1, <1>3, <2>2 DEF expect, expectArray, Inferred
  <2>3. CASE l.kind = "Slice"
    BY <1>1, <1>3, <2>3 DEF expect, expectSlice, Inferred
  <2>4. CASE l.kind = "Reference"
    <3>1. expect(within, l, r) = expectReference(within, l, r)
      BY <2>4 DEF expect
    <3>2. expectReference(within, l, r) = l
      BY <1>3 DEF expectReference, Inferred
    <3> QED BY <1>1, <1>3, <3>1, <3>2
  <2> QED BY <2>1, <2>2, <2>3, <2>4 DEF Compound
<1>4. CASE ~Inferred(r, {"General"}) /\ l.kind \in {"Array", "Slice"}
  <2>1. CASE r.kind = l.kind
    <3>1. Len(l.args) = Len(r.args)
      BY <1>4, <2>1, SingleTypes
    <3> QED BY <1>4, <2>1, <3>1 DEF expect, expectArray, expectSlice, Whole
  <2>2. CASE r.kind # l.kind
    BY <1>2, <1>4, <2>2 DEF expect, expectArray, expectSlice
  <2> QED BY <2>1, <2>2
<1>5. CASE ~Inferred(r, {"General"}) /\ l.kind = "Tuple"
  <2>1. CASE r.kind = "Tuple" /\ Len(r.args) = Len(l.args)
    BY <1>5, <2>1 DEF expect, expectTuple, Whole
  <2>2. CASE ~(r.kind = "Tuple" /\ Len(r.args) = Len(l.args))
    BY <1>2, <1>5, <2>2 DEF expect, expectTuple
  <2> QED BY <2>1, <2>2
<1>6. CASE ~Inferred(r, {"General"}) /\ l.kind = "Reference"
  <2> DEFINE made == UnifyParts(within, l, l, r)
  <2>1. expect(within, l, r) =
          IF r.kind = "Reference" THEN (IF made \in Fails \/ acceptableMutability(l, r) THEN made ELSE Error) ELSE Error
    BY <1>6 DEF expect, expectReference
  <2> HIDE DEF made
  <2>2. CASE r.kind = "Reference"
    <3>1. Len(l.args) = Len(r.args)
      BY <1>6, <2>2, SingleTypes
    <3>2. ~acceptableMutability(l, r) => ~Compatible(l, r)
      BY <1>2, <1>6 DEF acceptableMutability
    <3> QED BY <1>6, <2>1, <2>2, <3>1, <3>2 DEF made, Whole
  <2>3. CASE r.kind # "Reference"
    BY <1>2, <1>6, <2>1, <2>3
  <2> QED BY <2>2, <2>3
<1> QED BY <1>3, <1>4, <1>5, <1>6 DEF Compound

LEMMA StructuresExpect ==
  ASSUME NEW within, NEW l \in Term, NEW r \in Term, l.kind = "ADT"
  PROVE  \/ expect(within, l, r) = l /\ Variable(r) /\ Admits(r.tag, l)
         \/ expect(within, l, r) = Error /\ ~Compatible(l, r)
         \/ /\ r.kind = "ADT" /\ Adts[l.tag].name = Adts[r.tag].name /\ Len(Fields(l)) = Len(Fields(r))
            /\ \/ expect(within, l, r) = FieldsUnify(within, l, r) /\ FieldsUnify(within, l, r) # Fine
               \/ /\ expect(within, l, r) = SubstitutionsUnify(within, l, r)
                  /\ SubstitutionsUnify(within, l, r) # Fine
               \/ expect(within, l, r) = l
<1>1. Inferred(r, {"General"}) <=> Variable(r) /\ Admits(r.tag, l)
  BY DEF Inferred, Variable, Admits, IntegerKinds
<1>2. Compatible(l, r) => Inferred(r, {"General"}) \/ (r.kind = "ADT" /\ l.tag = r.tag)
  BY <1>1, CompatibleUnfolds DEF Assigned, Variable
<1>3. expect(within, l, r) = expectADT(within, l, r)
  BY DEF expect
<1>4. CASE Inferred(r, {"General"})
  BY <1>1, <1>3, <1>4 DEF expectADT
<1>5. CASE /\ ~Inferred(r, {"General"})
           /\ \/ r.kind # "ADT" \/ Adts[l.tag].kind # Adts[r.tag].kind
              \/ Adts[l.tag].name # Adts[r.tag].name \/ Len(Fields(l)) # Len(Fields(r))
  BY <1>2, <1>3, <1>5 DEF expectADT, Fields
<1>6. CASE /\ ~Inferred(r, {"General"}) /\ r.kind = "ADT" /\ Adts[l.tag].kind = Adts[r.tag].kind
           /\ Adts[l.tag].name = Adts[r.tag].name /\ Len(Fields(l)) = Len(Fields(r))
  BY <1>3, <1>6 DEF expectADT
<1> QED BY <1>4, <1>5, <1>6

\* Two raw pointers are never unified, and types of the other kinds are not expected.
LEMMA OthersExpect ==
  ASSUME NEW within, NEW l \in Term, NEW r \in Term,
         l.kind \notin Scalars \cup Compound \cup {"Never", "Inferred", "ADT"}
  PROVE  /\ l.kind \in Unsupported
         /\ \/ expect(within, l, r) = l /\ Variable(r) /\ Admits(r.tag, l)
            \/ expect(within, l, r) \in Fails \cup {Error}
<1>1. l.kind \in Unsupported
  BY TermsAreWellFormed DEF Kinds, PlainKinds, TaggedKinds, PointerKinds, FunctionKinds, Scalars, Compound, Unsupported
<1>2. CASE l.kind = "RawPointer"
  <2>1. expect(within, l, r) = expectRawPointer(within, l, r)
    BY <1>2 DEF expect
  <2>2. CASE Inferred(r, {"General"})
    BY <1>1, <2>1, <2>2 DEF expectRawPointer, Inferred, Variable, Admits
  <2>3. CASE ~Inferred(r, {"General"})
    <3>1. expectRawPointer(within, l, r) \in Fails \cup {Error}
      BY <2>3 DEF expectRawPointer
    <3> QED BY <1>1, <2>1, <3>1
  <2> QED BY <2>2, <2>3
<1>3. CASE l.kind # "RawPointer"
  <2>1. expect(within, l, r) = Abort
    BY <1>3 DEF expect, Scalars, Compound
  <2> QED BY <1>1, <2>1, FailsDiffer
<1> QED BY <1>2, <1>3

\* The fields of two structures fail, or are fine; so do their parameters.
LEMMA FieldsFail ==
  ASSUME NEW within, NEW l \in Term, NEW r \in Term, l.kind = "ADT",
         FieldsUnify(within, l, r) # Fine
  PROVE  /\ FieldsUnify(within, l, r) \in Fails
         /\ \E v \in DOMAIN Fields(l) :
              \/ FieldsUnify(within, l, r) = Abort /\ Len(Fields(l)[v]) # Len(Fields(r)[v])
              \/ \E f \in DOMAIN Fields(l)[v] :
                    FieldsUnify(within, l, r) = within[Fields(l)[v][f]][Fields(r)[v][f]]
<1> DEFINE unified(v, f) == within[Fields(l)[v][f]][Fields(r)[v][f]]
           variant(v) == [f \in DOMAIN Fields(l)[v] |-> unified(v, f)]
           variants == [v \in DOMAIN Fields(l) |-> VariantsUnify(within, Fields(l)[v], Fields(r)[v])]
<1>1. Fields(l) \in Seq(Seq(Term))
  BY StructureTypes
<1>2. DOMAIN variants \subseteq Nat /\ DOMAIN variants = DOMAIN Fields(l)
  BY <1>1
<1>3. FieldsUnify(within, l, r) = FirstFailure(variants)
  BY DEF FieldsUnify
<1>4. PICK v \in DOMAIN variants : FirstFailure(variants) \in Fails /\ FirstFailure(variants) = variants[v]
  <2> HIDE DEF variants
  <2> QED BY <1>2, <1>3, FirstFailureIs
<1>5. variants[v] = IF Len(Fields(l)[v]) # Len(Fields(r)[v]) THEN Abort ELSE FirstFailure(variant(v))
  BY <1>2 DEF VariantsUnify
<1>6. CASE Len(Fields(l)[v]) # Len(Fields(r)[v])
  BY <1>2, <1>3, <1>4, <1>5, <1>6
<1>7. CASE Len(Fields(l)[v]) = Len(Fields(r)[v])
  <2> DEFINE parts == variant(v)
  <2>1. DOMAIN parts \subseteq Nat /\ DOMAIN parts = DOMAIN Fields(l)[v]
    BY <1>1, <1>2
  <2>2. FirstFailure(parts) \in Fails
    BY <1>4, <1>5, <1>7
  <2>3. \E f \in DOMAIN parts : FirstFailure(parts) = parts[f]
    <3> HIDE DEF parts
    <3> QED BY <2>1, <2>2, FirstFailureIs, FailsDiffer
  <2>4. PICK f \in DOMAIN Fields(l)[v] : FirstFailure(parts) = unified(v, f)
    BY <2>1, <2>3
  <2>5. FieldsUnify(within, l, r) = unified(v, f)
    BY <1>3, <1>4, <1>5, <1>7, <2>4
  <2> QED BY <1>2, <1>3, <1>4, <2>5
<1> QED BY <1>6, <1>7

LEMMA SubstitutionsFail ==
  ASSUME NEW within, NEW l \in Term, NEW r \in Term, l.kind = "ADT",
         SubstitutionsUnify(within, l, r) # Fine
  PROVE  /\ SubstitutionsUnify(within, l, r) \in Fails
         /\ isUnit(l) /\ (Adts[l.tag].parameters # <<>> \/ Len(Adts[l.tag].parameters) # Len(Adts[r.tag].parameters))
<1> DEFINE x == Adts[l.tag].parameters
           y == Adts[r.tag].parameters
           parts == [i \in DOMAIN x |-> within[Param(x[i])][Param(y[i])]]
<1>1. SubstitutionsUnify(within, l, r) =
        IF ~isUnit(l) \/ ~isUnit(r) THEN Fine
        ELSE IF Len(x) # Len(y) THEN Abort ELSE FirstFailure(parts)
  BY DEF SubstitutionsUnify
<1>2. x \in Seq(STRING)
  BY StructureTypes
<1>3. isUnit(l)
  BY <1>1
<1>4. CASE Len(x) # Len(y)
  BY <1>1, <1>3, <1>4, FailsDiffer
<1>5. CASE Len(x) = Len(y)
  <2>1. SubstitutionsUnify(within, l, r) = FirstFailure(parts)
    BY <1>1, <1>5
  <2>2. DOMAIN parts = DOMAIN x /\ DOMAIN parts \subseteq Nat
    BY <1>2
  <2> HIDE DEF parts
  <2>3. FirstFailure(parts) \in Fails /\ \E i \in DOMAIN parts : FirstFailure(parts) = parts[i]
    BY <2>1, <2>2, FirstFailureIs
  <2>4. x # <<>>
    BY <2>2, <2>3
  <2> QED BY <1>3, <2>1, <2>3, <2>4
<1> QED BY <1>4, <1>5

\* What two types become, whatever calls that takes, is a type that both may be
\* used as, and no higher than the two.
LEMMA UnificationServes == \A n \in Nat : ServesWithin(n)
<1> DEFINE S == {n \in Nat : ServesWithin(n)}
<1>1. 0 \in S
  <2>1. ASSUME NEW h \in 0..Height, NEW l \in TermUpTo[h], NEW r \in TermUpTo[h]
        PROVE Serves(h, l, r, unifyWithin[0][l][r])
    <3>1. l \in Term /\ r \in Term
      BY HeightsAreNumbers
    <3>2. unifyWithin[0][l][r] = Overflow
      BY <3>1, UnifyUnfolds, 0 \in Nat
    <3> QED BY <3>2, FailsDiffer DEF Serves
  <2> QED BY <2>1 DEF ServesWithin
<1>2. ASSUME NEW n \in S PROVE n + 1 \in S
  <2>1. ASSUME NEW h \in 0..Height, NEW l \in TermUpTo[h], NEW r \in TermUpTo[h]
        PROVE Serves(h, l, r, unifyWithin[n + 1][l][r])
    <3> DEFINE t == expect(unifyWithin[n], l, r)
    <3>1. l \in Term /\ r \in Term /\ n \in Nat /\ ServesWithin(n)
      BY HeightsAreNumbers
    <3> HIDE DEF S
    <3>2. unifyWithin[n + 1][l][r] = Emitted(t)
      BY <3>1, UnifyUnfolds
    <3>3. Emitted(t) \notin Fails => Emitted(t) = t /\ t # Error /\ t \notin Fails
      BY EmittedIs
    <3> HIDE DEF t
    <3>4. SUFFICES ASSUME t # Error, t \notin Fails PROVE Serves(h, l, r, t)
      <4>1. CASE Emitted(t) \in Fails
        BY <3>2, <4>1 DEF Serves
      <4>2. CASE Emitted(t) \notin Fails
        BY <3>2, <3>3, <4>2
      <4> QED BY <4>1, <4>2
    <3>5. /\ Variable(r) /\ Admits(r.tag, l) => Serves(h, l, r, l)
          /\ (Variable(l) /\ Admits(l.tag, r)) \/ l.kind = "Never" => Serves(h, l, r, r)
      BY VariableServes
    <3>6. t \notin {Error, Abort}
      BY <3>4, FailsDiffer
    <3>7. CASE l.kind \in Scalars
      <4>1. \/ t = r /\ r.kind = l.kind /\ r.tag = l.tag
            \/ t = l /\ Variable(r) /\ Admits(r.tag, l)
        BY <3>1, <3>6, <3>7, ScalarsExpect DEF t
      <4>2. l.args = <<>> /\ (r.kind = l.kind => r.args = <<>>)
        BY <3>1, <3>7, PlainTypes, TaggedTypes DEF Scalars, PlainKinds, TaggedKinds
      <4>3. l.kind \notin {"ADT", "Reference"}
        BY <3>7 DEF Scalars
      <4>4. CASE t = r /\ r.kind = l.kind /\ r.tag = l.tag
        BY <4>2, <4>3, <4>4, SameServes
      <4> QED BY <3>5, <4>1, <4>4
    <3>8. CASE l.kind = "Never"
      <4>1. t = r \/ (t = l /\ Variable(r) /\ Admits(r.tag, l))
        BY <3>1, <3>6, <3>8, NeverExpects DEF t
      <4> QED BY <3>5, <3>8, <4>1
    <3>9. CASE Variable(l)
      <4>1. t = r /\ Admits(l.tag, r)
        BY <3>1, <3>6, <3>9, VariablesExpect DEF t
      <4> QED BY <3>5, <3>9, <4>1
    <3>10. CASE l.kind \in Compound
      <4>1. CASE t = l /\ Variable(r) /\ Admits(r.tag, l)
        BY <3>5, <4>1
      <4>2. CASE /\ t = UnifyParts(unifyWithin[n], Whole(l, r), l, r)
                 /\ r.kind = l.kind /\ Len(l.args) = Len(r.args)
                 /\ l.kind = "Reference" => acceptableMutability(l, r) \/ t \in Fails
        <5>1. l.kind = "Reference" =>
                l.tag \in {"mut", "const"} /\ r.tag \in {"mut", "const"} /\ (l.tag = "mut" => r.tag = "mut")
          BY <3>1, <3>4, <4>2, PointerTypes DEF acceptableMutability, PointerKinds
        <5>2. l.kind \in {"Tuple", "Slice"} => l.tag = "" /\ r.tag = ""
          BY <3>1, <4>2, ListTypes, SingleTypes
        <5>3. Whole(l, r) \in {l, r}
          BY DEF Whole
        <5>4. UsableTag(l, Whole(l, r)) /\ UsableTag(r, Whole(l, r))
          BY <3>10, <4>2, <5>1, <5>2 DEF UsableTag, Whole, Compound
        <5> QED BY <3>1, <3>10, <4>2, <5>3, <5>4, PartsServe DEF Compound
      <4> QED BY <3>1, <3>6, <3>10, <4>1, <4>2, CompoundsExpect DEF t
    <3>11. CASE l.kind = "ADT"
      <4>1. CASE t = l /\ Variable(r) /\ Admits(r.tag, l)
        BY <3>5, <4>1
      <4>2. CASE r.kind = "ADT" /\ Adts[l.tag].name = Adts[r.tag].name /\ t = l
        <5>1. UsableTag(r, l)
          BY <4>2 DEF UsableTag
        <5>2. Usable(r, l)
          BY <3>1, <3>11, <4>2, <5>1, UsableUnfolds
        <5>3. Usable(l, l)
          BY <3>1, UsableReflexive
        <5> QED BY <4>2, <5>2, <5>3 DEF Serves
      <4>3. FieldsUnify(unifyWithin[n], l, r) # Fine => FieldsUnify(unifyWithin[n], l, r) \in Fails
        BY <3>1, <3>11, FieldsFail
      <4>4. SubstitutionsUnify(unifyWithin[n], l, r) # Fine => SubstitutionsUnify(unifyWithin[n], l, r) \in Fails
        BY <3>1, <3>11, SubstitutionsFail
      <4> QED BY <3>1, <3>4, <3>6, <3>11, <4>1, <4>2, <4>3, <4>4, StructuresExpect DEF t
    <3>12. CASE l.kind \notin Scalars \cup Compound \cup {"Never", "Inferred", "ADT"}
      BY <3>1, <3>4, <3>5, <3>12, OthersExpect DEF t
    <3> QED BY <3>7, <3>8, <3>9, <3>10, <3>11, <3>12 DEF Variable
  <2>2. ServesWithin(n + 1)
    BY <2>1 DEF ServesWithin
  <2> QED BY <2>2
<1>3. S = Nat
  <2> HIDE DEF S
  <2>1. S \in SUBSET Nat
    BY DEF S
  <2> QED BY <1>1, <1>2, <2>1, NatInduces
<1> QED BY <1>3

-----------------------------------------------------------------------------
(* Unifying once more, and unifying compatible types *)

\* A type that the rules have no case for is walked through, in one of the two.
ExcusedIn(n, l, r) == \E t \in walked[n][l] \cup walked[n][r] : Excused(t)

LEMMA ExcusedHere ==
  ASSUME NEW n \in Nat, NEW l \in Term, NEW r \in Term
  PROVE  /\ Excused(l) \/ Excused(r) => ExcusedIn(n + 1, l, r)
         /\ \A i \in DOMAIN l.args \cap DOMAIN r.args :
              ExcusedIn(n, l.args[i], r.args[i]) => ExcusedIn(n + 1, l, r)
<1>1. l \in walked[n + 1][l] /\ r \in walked[n + 1][r]
  BY WalkedUnfolds
<1>2. \A i \in DOMAIN l.args : walked[n][l.args[i]] \subseteq walked[n + 1][l]
  BY WalkedParts
<1>3. \A i \in DOMAIN r.args : walked[n][r.args[i]] \subseteq walked[n + 1][r]
  BY WalkedParts
<1> QED BY <1>1, <1>2, <1>3 DEF ExcusedIn

\* A type unified with itself is itself, or there is a failure.
SelfWithin(n) == \A t \in Term : unifyWithin[n][t][t] \in {t} \cup Fails

LEMMA PartsAreThemselves ==
  ASSUME NEW n \in Nat, SelfWithin(n), NEW t \in Term
  PROVE  UnifyParts(unifyWithin[n], t, t, t) \in {t} \cup Fails
<1> DEFINE parts == PartsUnified(unifyWithin[n], t, t)
<1>1. CASE UnifyParts(unifyWithin[n], t, t, t) \in Fails
  BY <1>1
<1>2. CASE UnifyParts(unifyWithin[n], t, t, t) \notin Fails
  <2>1. /\ \A i \in DOMAIN t.args : parts[i] \notin Fails
        /\ UnifyParts(unifyWithin[n], t, t, t) = Rebuilt(t, parts)
    <3>1. NoFailure(parts) /\ UnifyParts(unifyWithin[n], t, t, t) = Rebuilt(t, parts)
      BY <1>2, PartsUnify DEF IsFailure
    <3> QED BY <3>1, PartsUnifiedAre DEF NoFailure
  <2>2. \A i \in DOMAIN t.args : parts[i] = t.args[i]
    <3>1. \A i \in DOMAIN t.args : Each(unifyWithin[n], t, t, i) \in {t.args[i]} \cup Fails
      BY ArgsAreTerms DEF SelfWithin, Each
    <3> QED BY <2>1, <3>1, PartsUnifiedAre
  <2>3. parts = t.args
    <3>1. t.args = [i \in DOMAIN t.args |-> t.args[i]]
      BY ArgsAreTerms
    <3>2. parts = [i \in DOMAIN t.args |-> parts[i]]
      BY DEF PartsUnified
    <3> QED BY <2>2, <3>1, <3>2
  <2> HIDE DEF parts
  <2> QED BY <2>1, <2>3, WithNewParts
<1> QED BY <1>1, <1>2

LEMMA UnifiedWithItself == \A n \in Nat : SelfWithin(n)
<1> DEFINE S == {n \in Nat : SelfWithin(n)}
<1>1. 0 \in S
  <2>1. \A t \in Term : unifyWithin[0][t][t] = Overflow
    BY UnifyUnfolds, 0 \in Nat
  <2> QED BY <2>1, FailsDiffer DEF SelfWithin
<1>2. ASSUME NEW n \in S PROVE n + 1 \in S
  <2>1. ASSUME NEW l \in Term PROVE unifyWithin[n + 1][l][l] \in {l} \cup Fails
    <3> DEFINE t == expect(unifyWithin[n], l, l)
    <3>1. n \in Nat /\ SelfWithin(n)
      OBVIOUS
    <3> HIDE DEF S
    <3>2. unifyWithin[n + 1][l][l] = Emitted(t)
      BY <3>1, UnifyUnfolds
    <3> HIDE DEF t
    <3>3. t \in {l, Error} \cup Fails => Emitted(t) \in {l} \cup Fails
      BY FailsDiffer DEF Emitted
    <3>4. CASE l.kind \in Scalars
      BY <3>2, <3>3, <3>4, ScalarsExpect, FailsDiffer DEF t
    <3>5. CASE l.kind = "Never"
      BY <3>2, <3>3, <3>5, NeverExpects, FailsDiffer DEF t
    <3>6. CASE Variable(l)
      BY <3>2, <3>3, <3>6, VariablesExpect, FailsDiffer DEF t
    <3>7. CASE l.kind \in Compound
      <4>1. Whole(l, l) = l
        BY DEF Whole
      <4>2. UnifyParts(unifyWithin[n], l, l, l) \in {l} \cup Fails
        BY <3>1, PartsAreThemselves
      <4> QED BY <3>2, <3>3, <3>7, <4>1, <4>2, CompoundsExpect DEF t
    <3>8. CASE l.kind = "ADT"
      <4>1. FieldsUnify(unifyWithin[n], l, l) # Fine => FieldsUnify(unifyWithin[n], l, l) \in Fails
        BY <3>8, FieldsFail
      <4>2. SubstitutionsUnify(unifyWithin[n], l, l) # Fine => SubstitutionsUnify(unifyWithin[n], l, l) \in Fails
        BY <3>8, SubstitutionsFail
      <4> QED BY <3>2, <3>3, <3>8, <4>1, <4>2, StructuresExpect DEF t
    <3>9. CASE l.kind \notin Scalars \cup Compound \cup {"Never", "Inferred", "ADT"}
      BY <3>2, <3>3, <3>9, OthersExpect DEF t
    <3> QED BY <3>4, <3>5, <3>6, <3>7, <3>8, <3>9 DEF Variable
  <2>2. SelfWithin(n + 1)
    BY <2>1 DEF SelfWithin
  <2> QED BY <2>2
<1>3. S = Nat
  <2> HIDE DEF S
  <2>1. S \in SUBSET Nat
    BY DEF S
  <2> QED BY <1>1, <1>2, <2>1, NatInduces
<1> QED BY <1>3

\* Two types that have an instance in common unify without an assertion, unless
\* the rules have no case for a type that is walked through.
MeetsWithin(n) ==
  \A l, r \in Term : unifyWithin[n][l][r] = Abort /\ Compatible(l, r) => ExcusedIn(n, l, r)

LEMMA CompatibleMeet == \A n \in Nat : MeetsWithin(n)
<1> DEFINE S == {n \in Nat : MeetsWithin(n)}
<1>1. 0 \in S
  <2>1. \A l, r \in Term : unifyWithin[0][l][r] = Overflow
    BY UnifyUnfolds, 0 \in Nat
  <2> QED BY <2>1, FailsDiffer DEF MeetsWithin
<1>2. ASSUME NEW n \in S PROVE n + 1 \in S
  <2>1. ASSUME NEW l \in Term, NEW r \in Term, unifyWithin[n + 1][l][r] = Abort, Compatible(l, r)
        PROVE  ExcusedIn(n + 1, l, r)
    <3> DEFINE t == expect(unifyWithin[n], l, r)
    <3>1. n \in Nat /\ MeetsWithin(n)
      OBVIOUS
    <3> HIDE DEF S
    <3>2. Emitted(t) = Abort
      BY <2>1, <3>1, UnifyUnfolds
    <3> HIDE DEF t
    <3>3. t \in {Error, Abort}
      BY <3>2 DEF Emitted
    <3>4. Excused(l) \/ Excused(r) => ExcusedIn(n + 1, l, r)
      BY <3>1, ExcusedHere
    <3>5. t = l \/ t = r => t.kind = "Error"
      BY <3>3, TermsAreNotFails, FailsDiffer, KindOfErrors
    <3>6. l.kind = "Error" \/ r.kind = "Error" => ExcusedIn(n + 1, l, r)
      BY <3>4 DEF Excused, Unsupported
    <3>7. CASE l.kind \in Scalars
      BY <2>1, <3>5, <3>6, <3>7, ScalarsExpect DEF t
    <3>8. CASE l.kind = "Never"
      BY <2>1, <3>5, <3>6, <3>8, NeverExpects DEF t
    <3>9. CASE Variable(l)
      BY <2>1, <3>5, <3>6, <3>9, VariablesExpect DEF t
    <3>10. CASE l.kind \in Compound
      <4>1. CASE t = l
        BY <3>5, <3>6, <4>1
      <4>2. CASE t = UnifyParts(unifyWithin[n], Whole(l, r), l, r) /\ r.kind = l.kind /\ Len(l.args) = Len(r.args)
        <5>1. PICK w \in Term : w = Whole(l, r) /\ w.kind = l.kind
          BY <4>2 DEF Whole
        <5>2. t = UnifyParts(unifyWithin[n], w, l, r)
          BY <4>2, <5>1
        <5>3. IsFailure(t, PartsUnified(unifyWithin[n], l, r))
          <6>1. t \notin Fails => t = Rebuilt(w, PartsUnified(unifyWithin[n], l, r))
            BY <5>1, <5>2, PartsUnify DEF IsFailure
          <6>2. t \notin Fails => t.kind = w.kind
            BY <5>1, <6>1, WithNewParts
          <6>3. t \in Fails
            BY <3>3, <3>10, <5>1, <6>2, KindOfErrors DEF Compound
          <6> QED BY <5>1, <5>2, <6>3, PartsUnify
        <5>4. PICK i \in DOMAIN l.args : t = unifyWithin[n][l.args[i]][r.args[i]]
          <6>1. \E i \in DOMAIN l.args : t = PartsUnified(unifyWithin[n], l, r)[i]
            BY <5>3, PartsUnifiedAre DEF IsFailure
          <6>2. PICK i \in DOMAIN l.args : t = Each(unifyWithin[n], l, r, i)
            BY <6>1, PartsUnifiedAre
          <6> QED BY <6>2 DEF Each
        <5>5. i \in DOMAIN r.args /\ l.args[i] \in Term /\ r.args[i] \in Term
          BY <4>2, ArgsAreTerms
        <5>6. Compatible(l.args[i], r.args[i])
          BY <2>1, <3>10, <4>2, CompatibleUnfolds DEF Assigned, Variable, Compound
        <5>7. ExcusedIn(n, l.args[i], r.args[i])
          <6>1. t = Abort
            BY <3>3, <5>3, FailsDiffer DEF IsFailure
          <6> QED BY <3>1, <5>4, <5>5, <5>6, <6>1 DEF MeetsWithin
        <5> QED BY <3>1, <5>5, <5>7, ExcusedHere
      <4> QED BY <2>1, <3>10, <4>1, <4>2, CompoundsExpect DEF t
    <3>11. CASE l.kind = "ADT"
      <4>1. CASE t = l
        BY <3>5, <3>6, <4>1
      <4>2. ASSUME r.kind = "ADT" PROVE l.tag = r.tag /\ Fields(l) = Fields(r)
        BY <2>1, <3>11, <4>2, CompatibleUnfolds DEF Assigned, Variable, Fields
      <4>3. CASE r.kind = "ADT" /\ t = FieldsUnify(unifyWithin[n], l, r) /\ FieldsUnify(unifyWithin[n], l, r) # Fine
        <5>1. t = Abort
          BY <3>3, <3>11, <4>3, FieldsFail, FailsDiffer
        <5>2. PICK v \in DOMAIN Fields(l) : \E f \in DOMAIN Fields(l)[v] :
                     t = unifyWithin[n][Fields(l)[v][f]][Fields(l)[v][f]]
          BY <3>11, <4>2, <4>3, FieldsFail
        <5>3. PICK f \in DOMAIN Fields(l)[v] : t = unifyWithin[n][Fields(l)[v][f]][Fields(l)[v][f]]
          BY <5>2
        <5>4. Fields(l)[v][f] \in Term /\ walked[n][Fields(l)[v][f]] \subseteq walked[n + 1][l]
          BY <3>1, <3>11, WalkedFields
        <5>5. ExcusedIn(n, Fields(l)[v][f], Fields(l)[v][f])
          BY <3>1, <5>1, <5>3, <5>4, CompatibleReflexive DEF MeetsWithin
        <5> QED BY <5>4, <5>5 DEF ExcusedIn
      <4>4. CASE /\ r.kind = "ADT" /\ t = SubstitutionsUnify(unifyWithin[n], l, r)
                 /\ SubstitutionsUnify(unifyWithin[n], l, r) # Fine
        <5>1. isUnit(l) /\ Adts[l.tag].parameters # <<>>
          BY <3>11, <4>2, <4>4, SubstitutionsFail
        <5>2. Excused(l)
          BY <3>11, <5>1 DEF Excused, Generic
        <5> QED BY <3>4, <5>2
      <4> QED BY <2>1, <3>11, <4>1, <4>3, <4>4, StructuresExpect DEF t
    <3>12. CASE l.kind \notin Scalars \cup Compound \cup {"Never", "Inferred", "ADT"}
      BY <3>4, <3>12, OthersExpect DEF Excused
    <3> QED BY <3>7, <3>8, <3>9, <3>10, <3>11, <3>12 DEF Variable
  <2>2. MeetsWithin(n + 1)
    BY <2>1 DEF MeetsWithin
  <2> QED BY <2>2
<1>3. S = Nat
  <2> HIDE DEF S
  <2>1. S \in SUBSET Nat
    BY DEF S
  <2> QED BY <1>1, <1>2, <2>1, NatInduces
<1> QED BY <1>3


\* Two types of a kind with as many parts, and of one mutability, have their
\* parts unified.
LEMMA CompoundsMeet ==
  ASSUME NEW within, NEW l \in Term, NEW r \in Term, l.kind \in Compound, r.kind = l.kind,
         Len(l.args) = Len(r.args), l.kind = "Reference" => l.tag = r.tag
  PROVE  expect(within, l, r) = UnifyParts(within, Whole(l, r), l, r)
<1>1. ~Inferred(r, {"General"})
  BY DEF Inferred, Compound
<1>2. CASE l.kind = "Reference"
  <2> DEFINE made == UnifyParts(within, l, l, r)
  <2>1. acceptableMutability(l, r)
    BY <1>2 DEF acceptableMutability
  <2>2. expect(within, l, r) =
          IF r.kind = "Reference" THEN (IF made \in Fails \/ acceptableMutability(l, r) THEN made ELSE Error) ELSE Error
    BY <1>1, <1>2 DEF expect, expectReference
  <2>3. Whole(l, r) = l
    BY <1>2 DEF Whole
  <2> HIDE DEF made
  <2>4. expect(within, l, r) = made
    BY <1>2, <2>1, <2>2
  <2> QED BY <2>3, <2>4 DEF made
<1>3. CASE l.kind = "Tuple"
  BY <1>1, <1>3 DEF expect, expectTuple, Whole
<1>4. CASE l.kind = "Array"
  BY <1>1, <1>4 DEF expect, expectArray, Whole
<1>5. CASE l.kind = "Slice"
  BY <1>1, <1>5 DEF expect, expectSlice, Whole
<1> QED BY <1>2, <1>3, <1>4, <1>5 DEF Compound

\* What two types have become, unified once more with the first, is the same.
Again(n, l, r, t, u) == t \notin Fails => u \in {t, Overflow} \/ (u = Abort /\ ExcusedIn(n, l, r))
AgainWithin(n) ==
  \A l, r \in Term : Again(n, l, r, unifyWithin[n][l][r], unifyWithin[n][l][unifyWithin[n][l][r]])

\* When it is the first itself.
LEMMA AgainWithItself ==
  ASSUME NEW n \in Nat, NEW l \in Term, NEW r \in Term
  PROVE  Again(n, l, r, l, unifyWithin[n][l][l])
<1>1. unifyWithin[n][l][l] \in {l} \cup Fails
  BY UnifiedWithItself DEF SelfWithin
<1>2. unifyWithin[n][l][l] = Abort => ExcusedIn(n, l, l)
  BY CompatibleMeet, CompatibleReflexive DEF MeetsWithin
<1>3. ExcusedIn(n, l, l) => ExcusedIn(n, l, r)
  BY DEF ExcusedIn
<1> QED BY <1>1, <1>2, <1>3 DEF Again, Fails

\* When it is made of the parts of the two.
LEMMA AgainWithParts ==
  ASSUME NEW n \in Nat, AgainWithin(n), NEW l \in Term, NEW r \in Term, l.kind \in Compound,
         r.kind = l.kind, Len(l.args) = Len(r.args), NEW t \in Term, t \notin Fails,
         t = UnifyParts(unifyWithin[n], Whole(l, r), l, r)
  PROVE  Again(n + 1, l, r, t, expect(unifyWithin[n], l, t))
<1> DEFINE parts == PartsUnified(unifyWithin[n], l, r)
           again == PartsUnified(unifyWithin[n], l, t)
           u == expect(unifyWithin[n], l, t)
<1>1. PICK w \in Term : w = Whole(l, r) /\ w.kind = l.kind /\ (w.kind = "Reference" => w = l)
  BY DEF Whole
<1>2. NoFailure(parts) /\ t = Rebuilt(w, parts)
  BY <1>1, PartsUnify DEF IsFailure
<1>3. t.kind = l.kind /\ t.tag = w.tag /\ t.args = parts
  BY <1>1, <1>2, WithNewParts
<1>4. /\ DOMAIN parts = DOMAIN l.args /\ DOMAIN again = DOMAIN l.args
      /\ \A i \in DOMAIN l.args : parts[i] = Each(unifyWithin[n], l, r, i) /\ again[i] = Each(unifyWithin[n], l, t, i)
  BY PartsUnifiedAre
<1>5. /\ DOMAIN l.args = 1..Len(l.args) /\ DOMAIN r.args = DOMAIN l.args
      /\ \A i \in DOMAIN l.args : l.args[i] \in Term /\ r.args[i] \in Term
  BY ArgsAreTerms
<1>6. Len(t.args) = Len(l.args)
  BY <1>3, <1>4, <1>5, ArgsAreTerms
<1>7. u = UnifyParts(unifyWithin[n], Whole(l, t), l, t)
  BY <1>1, <1>3, <1>6, CompoundsMeet
<1>8. PICK v \in Term : v = Whole(l, t) /\ (l.kind = "Reference" => v = w) /\ (l.kind # "Reference" => v = t)
  BY <1>1 DEF Whole
<1>9. parts = [i \in DOMAIN l.args |-> parts[i]] /\ again = [i \in DOMAIN l.args |-> again[i]]
  BY DEF PartsUnified
<1> HIDE DEF parts, again, u
<1>10. ASSUME NEW i \in DOMAIN l.args
       PROVE  Again(n, l.args[i], r.args[i], parts[i], again[i])
  <2>1. parts[i] = unifyWithin[n][l.args[i]][r.args[i]]
    BY <1>4 DEF Each
  <2>2. again[i] = unifyWithin[n][l.args[i]][parts[i]]
    BY <1>3, <1>4 DEF Each
  <2>3. l.args[i] \in Term /\ r.args[i] \in Term
    BY <1>5
  <2> QED BY <2>1, <2>2, <2>3 DEF AgainWithin
<1>11. ASSUME NEW i \in DOMAIN l.args
       PROVE  again[i] \in {parts[i], Overflow} \/ (again[i] = Abort /\ ExcusedIn(n + 1, l, r))
  <2>1. parts[i] \notin Fails
    BY <1>2, <1>4 DEF NoFailure
  <2>2. ExcusedIn(n, l.args[i], r.args[i]) => ExcusedIn(n + 1, l, r)
    BY <1>5, ExcusedHere
  <2> QED BY <1>10, <2>1, <2>2 DEF Again
<1>12. CASE NoFailure(again) /\ u = Rebuilt(v, again)
  <2>1. \A i \in DOMAIN l.args : again[i] = parts[i]
    <3>1. \A i \in DOMAIN l.args : again[i] \notin Fails
      BY <1>4, <1>12 DEF NoFailure
    <3> QED BY <1>11, <3>1, FailsDiffer
  <2>2. again = parts
    BY <1>9, <2>1
  <2>3. u = t
    <3>1. CASE v = w
      BY <1>2, <1>12, <2>2, <3>1
    <3>2. CASE v = t
      BY <1>3, <1>12, <2>2, <3>2, WithNewParts
    <3> QED BY <1>8, <3>1, <3>2
  <2> QED BY <2>3 DEF Again, u
<1>13. CASE IsFailure(u, again)
  <2>1. PICK i \in DOMAIN l.args : u = again[i] /\ u \in Fails
    BY <1>4, <1>13 DEF IsFailure
  <2>2. parts[i] \notin Fails
    BY <1>2, <1>4 DEF NoFailure
  <2>3. u = Overflow \/ (u = Abort /\ ExcusedIn(n + 1, l, r))
    BY <1>11, <2>1, <2>2
  <2> QED BY <2>3 DEF Again, u
<1> QED BY <1>7, <1>8, <1>12, <1>13, PartsUnify DEF again

LEMMA UnificationAgain == \A n \in Nat : AgainWithin(n)
<1> DEFINE S == {n \in Nat : AgainWithin(n)}
<1>1. 0 \in S
  <2>1. \A l, r \in Term : unifyWithin[0][l][r] = Overflow
    BY UnifyUnfolds, 0 \in Nat
  <2> QED BY <2>1, FailsDiffer DEF AgainWithin, Again
<1>2. ASSUME NEW n \in S PROVE n + 1 \in S
  <2>1. ASSUME NEW l \in Term, NEW r \in Term
        PROVE  Again(n + 1, l, r, unifyWithin[n + 1][l][r], unifyWithin[n + 1][l][unifyWithin[n + 1][l][r]])
    <3> DEFINE e == expect(unifyWithin[n], l, r)
               t == unifyWithin[n + 1][l][r]
    <3>1. n \in Nat /\ AgainWithin(n) /\ n + 1 \in Nat
      OBVIOUS
    <3> HIDE DEF S
    <3>2. t = Emitted(e)
      BY <3>1, UnifyUnfolds
    <3>3. t \notin Fails => t \in Term
      <4>1. Height \in 0..Height /\ l \in TermUpTo[Height] /\ r \in TermUpTo[Height]
        BY TermsAssumption DEF Term
      <4> QED BY <3>1, <4>1, UnificationServes DEF ServesWithin, Serves, Term
    <3> HIDE DEF e, t
    <3>4. CASE t \in Fails
      BY <3>4 DEF Again, t
    <3>5. CASE t \notin Fails
      <4>1. e = t /\ t # Error /\ e \notin Fails
        BY <3>2, <3>5, EmittedIs
      <4>2. CASE t = l
        <5>1. Again(n + 1, l, r, l, unifyWithin[n + 1][l][l])
          BY <3>1, AgainWithItself
        <5> QED BY <4>2, <5>1 DEF t
      <4>3. CASE t = r
        BY <4>3 DEF Again, t
      <4>4. CASE l.kind \in Compound /\ t # l
        <5>1. /\ t = UnifyParts(unifyWithin[n], Whole(l, r), l, r)
              /\ r.kind = l.kind /\ Len(l.args) = Len(r.args)
          BY <4>1, <4>4, CompoundsExpect DEF e
        <5>2. Again(n + 1, l, r, t, expect(unifyWithin[n], l, t))
          BY <3>1, <3>3, <3>5, <4>4, <5>1, AgainWithParts
        <5>3. unifyWithin[n + 1][l][t] = Emitted(expect(unifyWithin[n], l, t))
          BY <3>1, <3>3, <3>5, UnifyUnfolds
        <5>4. Again(n + 1, l, r, t, unifyWithin[n + 1][l][t])
          BY <4>1, <5>2, <5>3, FailsDiffer DEF Again, Emitted, Fails
        <5> QED BY <5>4 DEF t
      <4>5. CASE l.kind \in Scalars
        <5>1. t = l \/ t = r
          BY <4>1, <4>5, ScalarsExpect DEF e, Fails
        <5> QED BY <4>2, <4>3, <5>1
      <4>6. CASE l.kind = "Never"
        BY <4>1, <4>2, <4>3, <4>6, NeverExpects DEF e
      <4>7. CASE Variable(l)
        BY <4>1, <4>2, <4>3, <4>7, VariablesExpect DEF e
      <4>8. CASE l.kind = "ADT"
        <5>1. FieldsUnify(unifyWithin[n], l, r) # Fine => FieldsUnify(unifyWithin[n], l, r) \in Fails
          BY <4>8, FieldsFail
        <5>2. SubstitutionsUnify(unifyWithin[n], l, r) # Fine => SubstitutionsUnify(unifyWithin[n], l, r) \in Fails
          BY <4>8, SubstitutionsFail
        <5>3. t = l
          BY <4>1, <4>8, <5>1, <5>2, StructuresExpect DEF e
        <5> QED BY <4>2, <5>3
      <4>9. CASE l.kind \notin Scalars \cup Compound \cup {"Never", "Inferred", "ADT"}
        <5>1. t = l
          BY <4>1, <4>9, OthersExpect DEF e
        <5> QED BY <4>2, <5>1
      <4> QED BY <4>2, <4>4, <4>5, <4>6, <4>7, <4>8, <4>9 DEF Variable
    <3> QED BY <3>4, <3>5
  <2>2. AgainWithin(n + 1)
    BY <2>1 DEF AgainWithin
  <2> QED BY <2>2
<1>3. S = Nat
  <2> HIDE DEF S
  <2>1. S \in SUBSET Nat
    BY DEF S
  <2> QED BY <1>1, <1>2, <2>1, NatInduces
<1> QED BY <1>3

-----------------------------------------------------------------------------
(* The specification *)

\* What probing has answered is an answer of its comparisons, and what two types
\* have become is what one of the steps makes of them.
TypesInv ==
  /\ receiver \in Receivers /\ other \in Others
  /\ found = "no" => "no" \in canEqual(receiver, other) /\ "no" \in canEqual(other, receiver)
  /\ found = "yes" => "yes" \in canEqual(receiver, other) \/ "yes" \in canEqual(other, receiver)
  /\ result # None => \/ found = "yes" /\ result = unifyWithSite(receiver, other)
                      \/ found = "coerced" /\ result = coercionWithSite(receiver, other)

THEOREM TypesInvHolds == Spec => []TypesInv
<1>1. Init => TypesInv
  BY DEF Init, TypesInv
<1>2. TypesInv /\ [Next]_vars => TypesInv'
  <2> SUFFICES ASSUME TypesInv, [Next]_vars PROVE TypesInv'
    OBVIOUS
  <2>1. CASE Probe
    <3>1. \/ found' # "no" /\ found' \in canEqual(receiver, other)
          \/ "no" \in canEqual(receiver, other) /\ found' \in canEqual(other, receiver)
      BY <2>1 DEF Probe, processImplItemCandidate
    <3>2. found = "unknown" /\ receiver' = receiver /\ other' = other /\ result' = result
      BY <2>1 DEF Probe
    <3> QED BY <3>1, <3>2 DEF TypesInv
  <2>2. CASE UnifyFound
    BY <2>2 DEF UnifyFound, TypesInv
  <2>3. CASE Coerce
    BY <2>3 DEF Coerce, TypesInv
  <2>4. CASE UNCHANGED vars
    BY <2>4 DEF vars, TypesInv
  <2> QED BY <2>1, <2>2, <2>3, <2>4 DEF Next
<1> QED BY <1>1, <1>2, PTL DEF Spec

LEMMA MeetingTypesAreTerms ==
  ASSUME TypesInv
  PROVE  receiver \in Term /\ other \in Term /\ MaxCalls \in Nat
BY TypesAssumption, TermsAssumption DEF TypesInv

LEMMA ClosedIsClear ==
  ASSUME NEW t \in Term
  PROVE  Closed(t) => ClearOf(MaxCalls, t)
BY DEF Closed, KindsOf, Walked, ClearOf

LEMMA CanEqualSays ==
  ASSUME NEW a \in Term, NEW b \in Term, Closed(a), Closed(b)
  PROVE  /\ "no" \in canEqual(a, b) /\ Compatible(a, b) => Facing(a, b)
         /\ "yes" \in canEqual(a, b) => Alike(a, b)
<1>1. SaysWithin(MaxCalls)
  BY ComparisonSays, TermsAssumption
<1> QED BY <1>1, ClosedIsClear DEF SaysWithin, Says, canEqual

\* Probing misses no implementation (processImplItemCandidate with the classes
\* of Compare.h): it says no to two types with a common instance only when each
\* has a variable where the other has a string or a function.
THEOREM ProbeMissesNothingHolds == Spec => []ProbeMissesNothing
<1>1. TypesInv => ProbeMissesNothing
  <2> SUFFICES ASSUME TypesInv, found = "no", Closed(receiver), Closed(other), Compatible(receiver, other)
               PROVE  Facing(receiver, other) /\ Facing(other, receiver)
    BY DEF ProbeMissesNothing
  <2>1. receiver \in Term /\ other \in Term
    BY MeetingTypesAreTerms
  <2>2. "no" \in canEqual(receiver, other) /\ "no" \in canEqual(other, receiver)
    BY DEF TypesInv
  <2>3. Compatible(other, receiver)
    BY <2>1, CompatibleSymmetric
  <2> QED BY <2>1, <2>2, <2>3, CanEqualSays
<1> QED BY <1>1, TypesInvHolds, PTL

\* Probing finds nothing but what differs where the classes of Compare.h do not
\* look.
THEOREM ProbeBlindSpotsHolds == Spec => []ProbeBlindSpots
<1>1. TypesInv => ProbeBlindSpots
  <2> SUFFICES ASSUME TypesInv, found = "yes", Closed(receiver), Closed(other)
               PROVE  Alike(receiver, other)
    BY DEF ProbeBlindSpots
  <2>1. receiver \in Term /\ other \in Term
    BY MeetingTypesAreTerms
  <2>2. "yes" \in canEqual(receiver, other) \/ "yes" \in canEqual(other, receiver)
    BY DEF TypesInv
  <2>3. Alike(receiver, other) \/ Alike(other, receiver)
    BY <2>1, <2>2, CanEqualSays
  <2> QED BY <2>1, <2>3, AlikeSymmetric
<1> QED BY <1>1, TypesInvHolds, PTL

\* A unification that aborts, and a second one of what the first has made.
LEMMA UnifyWithSiteMeets ==
  ASSUME NEW l \in Term, NEW r \in Term
  PROVE  /\ unifyWithSite(l, r) = Abort /\ Compatible(l, r) => \E t \in Walked(l) \cup Walked(r) : Excused(t)
         /\ unifyWithSite(l, r) \notin Fails =>
              /\ unifyWithSite(l, r) \in Term
              /\ Usable(l, unifyWithSite(l, r)) /\ Usable(r, unifyWithSite(l, r))
              /\ LET t == unifyWithSite(l, r)
                     u == unifyWithSite(l, t)
                 IN u \in {t, Overflow} \/ (u = Abort /\ \E x \in Walked(l) \cup Walked(r) : Excused(x))
<1>1. MaxCalls \in Nat /\ Height \in 0..Height /\ l \in TermUpTo[Height] /\ r \in TermUpTo[Height]
  BY TermsAssumption DEF Term
<1>2. ExcusedIn(MaxCalls, l, r) => \E t \in Walked(l) \cup Walked(r) : Excused(t)
  BY DEF ExcusedIn, Walked
<1>3. unifyWithSite(l, r) = Abort /\ Compatible(l, r) => ExcusedIn(MaxCalls, l, r)
  BY <1>1, CompatibleMeet DEF MeetsWithin, unifyWithSite
<1>4. Serves(Height, l, r, unifyWithSite(l, r))
  BY <1>1, UnificationServes DEF ServesWithin, unifyWithSite
<1>5. Again(MaxCalls, l, r, unifyWithSite(l, r), unifyWithSite(l, unifyWithSite(l, r)))
  BY <1>1, UnificationAgain DEF AgainWithin, unifyWithSite
<1> QED BY <1>2, <1>3, <1>4, <1>5 DEF Serves, Again, Term

\* Coercion: unification, and the result unified once more.
LEMMA CoercionMeets ==
  ASSUME NEW l \in Term, NEW r \in Term
  PROVE  /\ coercionWithSite(l, r) = Abort /\ Compatible(l, r) /\ r.kind # "Never" =>
              \E t \in Walked(l) \cup Walked(r) : Excused(t)
         /\ coercionWithSite(l, r) \notin Fails /\ Error \notin {l, r} =>
              Usable(l, coercionWithSite(l, r)) /\ Usable(r, coercionWithSite(l, r))
<1> DEFINE t == unifyWithSite(l, r)
           u == unifyWithSite(l, t)
           excused == \E x \in Walked(l) \cup Walked(r) : Excused(x)
<1>1. /\ t = Abort /\ Compatible(l, r) => excused
      /\ t \notin Fails => Usable(l, t) /\ Usable(r, t) /\ (u \in {t, Overflow} \/ (u = Abort /\ excused))
  BY UnifyWithSiteMeets
<1>2. coercion(r, l) = Abort \/ coercion(r, l) = t
  BY DEF coercion
<1>3. r.kind # "Never" => coercion(r, l) = t
  BY DEF coercion
<1>4. CASE Error \in {l, r}
  <2>1. coercionWithSite(l, r) = r
    BY <1>4 DEF coercionWithSite
  <2>2. r # Abort
    BY TermsAreNotFails, FailsDiffer
  <2> QED BY <1>4, <2>1, <2>2
<1>5. CASE Error \notin {l, r}
  <2>1. coercionWithSite(l, r) = IF coercion(r, l) \in Fails THEN coercion(r, l) ELSE unifyWithSite(l, coercion(r, l))
    BY <1>5 DEF coercionWithSite
  <2>2. CASE coercion(r, l) \in Fails
    <3>1. coercionWithSite(l, r) = coercion(r, l) /\ coercionWithSite(l, r) \in Fails
      BY <2>1, <2>2
    <3> HIDE DEF t, u, excused
    <3>2. coercionWithSite(l, r) = Abort /\ Compatible(l, r) /\ r.kind # "Never" => excused
      BY <1>1, <1>3, <3>1
    <3> QED BY <3>1, <3>2 DEF excused
  <2>3. CASE coercion(r, l) \notin Fails
    <3>1. coercion(r, l) = t /\ t \notin Fails
      BY <1>2, <2>3, FailsDiffer
    <3>2. coercionWithSite(l, r) = u
      BY <2>1, <2>3, <3>1
    <3> HIDE DEF t, u, excused
    <3>3. u = Abort => excused
      BY <1>1, <3>1, FailsDiffer
    <3>4. u \notin Fails => Usable(l, u) /\ Usable(r, u)
      BY <1>1, <3>1 DEF Fails
    <3> QED BY <3>2, <3>3, <3>4 DEF excused
  <2> QED BY <2>2, <2>3
<1> QED BY <1>4, <1>5

\* Two types with a common instance unify without an assertion of Unification.cpp,
\* when each of the types they are built from has a case in expect.
THEOREM CompatibleTypesMeetHolds == Spec => []CompatibleTypesMeet
<1>1. TypesInv => CompatibleTypesMeet
  <2> SUFFICES ASSUME TypesInv, result = Abort, Compatible(receiver, other)
               PROVE  \/ \E t \in Walked(receiver) \cup Walked(other) : Excused(t)
                      \/ other.kind = "Never"
    BY DEF CompatibleTypesMeet
  <2>1. receiver \in Term /\ other \in Term
    BY MeetingTypesAreTerms
  <2>2. result # None
    BY DEF Abort, None, Leaf, Type
  <2>3. result = unifyWithSite(receiver, other) \/ result = coercionWithSite(receiver, other)
    BY <2>2 DEF TypesInv
  <2> QED BY <2>1, <2>3, UnifyWithSiteMeets, CoercionMeets
<1> QED BY <1>1, TypesInvHolds, PTL

\* What unification makes of two types can stand for either: no part of one is
\* given another type by the other.
THEOREM MeetingIsUsableHolds == Spec => []MeetingIsUsable
<1>1. TypesInv => MeetingIsUsable
  <2> SUFFICES ASSUME TypesInv, result \notin {None} \cup Fails, Error \notin {receiver, other}
               PROVE  Usable(receiver, result) /\ Usable(other, result)
    BY DEF MeetingIsUsable
  <2>1. receiver \in Term /\ other \in Term
    BY MeetingTypesAreTerms
  <2>2. result = unifyWithSite(receiver, other) \/ result = coercionWithSite(receiver, other)
    BY DEF TypesInv
  <2>3. CASE result = unifyWithSite(receiver, other)
    BY <2>1, <2>3, UnifyWithSiteMeets
  <2>4. CASE result = coercionWithSite(receiver, other)
    BY <2>1, <2>4, CoercionMeets
  <2> QED BY <2>2, <2>3, <2>4
<1> QED BY <1>1, TypesInvHolds, PTL
=============================================================================
