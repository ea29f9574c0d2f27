----------------------------- MODULE Recursion -----------------------------
(***************************************************************************)
(* Functions of a natural number that are defined by recursion.            *)
(*                                                                         *)
(* An equation f[n \in Nat] == ... defines f as some function that         *)
(* satisfies the equation, which says something of f only where there is   *)
(* one.  A module that defines a function in this way instantiates this    *)
(* one with the value at zero and with the step, and takes from RecursionHolds *)
(* that there is.                                                          *)
(***************************************************************************)
EXTENDS Naturals, WellFoundedInduction, TLAPS

CONSTANTS Base, Step(_, _)

Solves(g, n) == g = [i \in 0..n |-> IF i = 0 THEN Base ELSE Step(i, g[i - 1])]

\* What is true of zero, and of the successor of each number it is true of,
\* is true of every number.
LEMMA SetInduction ==
  ASSUME NEW S \in SUBSET Nat, 0 \in S, \A n \in S : n + 1 \in S
  PROVE  S = Nat
<1>1. SUFFICES ASSUME Nat \ S # {} PROVE FALSE
  OBVIOUS
<1>2. IsWellFoundedOn(OpToRel(<, Nat), Nat)
  BY NatLessThanWellFounded
<1>3. PICK n \in Nat \ S : \A m \in Nat \ S : ~(<<m, n>> \in OpToRel(<, Nat))
  BY <1>1, <1>2, WFMin
<1>4. \A m \in Nat \ S : ~(m < n)
  <2> SUFFICES ASSUME NEW m \in Nat \ S PROVE ~(m < n)
    OBVIOUS
  <2>1. m \in Nat /\ n \in Nat
    OBVIOUS
  <2>2. ~(<<m, n>> \in OpToRel(<, Nat))
    BY <1>3
  <2> QED BY <2>1, <2>2 DEF OpToRel
<1>5. n # 0
  BY <1>3
<1>6. n - 1 \in Nat /\ n - 1 < n /\ (n - 1) + 1 = n
  BY <1>5
<1>7. n - 1 \in S
  BY <1>4, <1>6
<1> QED BY <1>3, <1>6, <1>7

\* Two solutions agree where both are defined.
LEMMA SolutionsAgree ==
  ASSUME NEW m \in Nat, NEW n \in Nat, m <= n, NEW g, NEW h, Solves(g, m), Solves(h, n)
  PROVE  \A i \in 0..m : g[i] = h[i]
<1> DEFINE S == {i \in Nat : i <= m => g[i] = h[i]}
<1>1. 0 \in S
  BY DEF Solves
<1>2. ASSUME NEW i \in S PROVE i + 1 \in S
  <2>1. CASE i + 1 <= m
    <3>1. i <= m /\ i + 1 \in 0..m /\ i + 1 \in 0..n /\ i + 1 # 0 /\ (i + 1) - 1 = i
      BY <2>1
    <3>2. g[i + 1] = Step(i + 1, g[i]) /\ h[i + 1] = Step(i + 1, h[i])
      BY <3>1 DEF Solves
    <3> QED BY <3>1, <3>2
  <2> QED BY <2>1
<1>3. S = Nat
  <2> HIDE DEF S
  <2>1. S \in SUBSET Nat
    BY DEF S
  <2> QED BY <1>1, <1>2, <2>1, SetInduction
<1> QED BY <1>3

\* There is a solution up to every number.
LEMMA SolutionsExist == \A n \in Nat : \E g : Solves(g, n)
<1> DEFINE S == {n \in Nat : \E g : Solves(g, n)}
<1>1. 0 \in S
  <2>1. Solves([i \in 0..0 |-> Base], 0)
    BY DEF Solves
  <2> QED BY <2>1
<1>2. ASSUME NEW n \in S PROVE n + 1 \in S
  <2>1. PICK g : Solves(g, n)
    OBVIOUS
  <2> DEFINE h == [i \in 0..(n + 1) |-> IF i <= n THEN g[i] ELSE Step(i, g[n])]
  <2>2. ASSUME NEW i \in 0..(n + 1) PROVE h[i] = IF i = 0 THEN Base ELSE Step(i, h[i - 1])
    <3>1. CASE i = 0
      BY <2>1, <3>1 DEF Solves
    <3>2. CASE i # 0 /\ i <= n
      <4>1. i \in 0..n /\ i - 1 \in 0..(n + 1) /\ i - 1 <= n
        BY <3>2
      <4>2. g[i] = Step(i, g[i - 1])
        BY <2>1, <3>2, <4>1 DEF Solves
      <4> QED BY <3>2, <4>1, <4>2
    <3>3. CASE i = n + 1
      <4>1. i - 1 = n /\ n \in 0..(n + 1) /\ n <= n /\ i # 0 /\ ~(i <= n)
        BY <3>3
      <4> QED BY <4>1
    <3> QED BY <3>1, <3>2, <3>3
  <2>3. h = [i \in 0..(n + 1) |-> IF i = 0 THEN Base ELSE Step(i, h[i - 1])]
    <3> HIDE DEF h
    <3>1. h = [i \in 0..(n + 1) |-> h[i]]
      BY DEF h
    <3> QED BY <2>2, <3>1
  <2>4. Solves(h, n + 1)
    <3> HIDE DEF h
    <3> QED BY <2>3 DEF Solves
  <2> QED BY <2>4
<1>3. S = Nat
  <2> HIDE DEF S
  <2>1. S \in SUBSET Nat
    BY DEF S
  <2> QED BY <1>1, <1>2, <2>1, SetInduction
<1> QED BY <1>3

\* The solutions together are one of the whole equation.
THEOREM RecursionHolds == \E f : f = [n \in Nat |-> IF n = 0 THEN Base ELSE Step(n, f[n - 1])]
<1> DEFINE upTo(n) == CHOOSE g : Solves(g, n)
           f == [n \in Nat |-> upTo(n)[n]]
<1>1. \A n \in Nat : Solves(upTo(n), n)
  BY SolutionsExist
<1> HIDE DEF upTo
<1>2. ASSUME NEW n \in Nat PROVE f[n] = IF n = 0 THEN Base ELSE Step(n, f[n - 1])
  <2>1. CASE n = 0
    <3>1. Solves(upTo(0), 0)
      BY <1>1
    <3> QED BY <2>1, <3>1 DEF Solves
  <2>2. CASE n # 0
    <3>1. n - 1 \in Nat /\ n - 1 <= n /\ n \in 0..n /\ n - 1 \in 0..(n - 1)
      BY <2>2
    <3>2. Solves(upTo(n), n) /\ Solves(upTo(n - 1), n - 1)
      BY <1>1, <3>1
    <3>3. upTo(n)[n] = Step(n, upTo(n)[n - 1])
      BY <2>2, <3>1, <3>2 DEF Solves
    <3>4. upTo(n)[n - 1] = upTo(n - 1)[n - 1]
      BY <3>1, <3>2, SolutionsAgree
    <3>5. f[n] = upTo(n)[n] /\ f[n - 1] = upTo(n - 1)[n - 1]
      BY <3>1
    <3> QED BY <2>2, <3>3, <3>4, <3>5
  <2> QED BY <2>1, <2>2
<1>3. f = [n \in Nat |-> f[n]]
  OBVIOUS
<1> HIDE DEF f
<1>4. f = [n \in Nat |-> IF n = 0 THEN Base ELSE Step(n, f[n - 1])]
  BY <1>2, <1>3
<1> QED BY <1>4
=============================================================================
