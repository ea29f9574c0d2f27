------------------------- MODULE Expressions_proofs -------------------------
(***************************************************************************)
(* Proofs about the expression parser, for texts of any length.            *)
(*                                                                         *)
(* The inductive invariant describes the activations: expressions and      *)
(* handlers alternate, a handler starts its tree where the expression that *)
(* called it does, check points never decrease from one activation to the  *)
(* next, and the depth of an activation is bounded by its check point,     *)
(* unless the parser is at an operator it does not eat.                    *)
(*                                                                         *)
(* A second one says what its binding powers have made of each tree: how   *)
(* tightly the operators at its edges bind, so that it fits where it goes. *)
(*                                                                         *)
(* A third one counts brackets: what each tree and each activation has     *)
(* eaten balances, but for a tuple's parenthesis and what the activation   *)
(* has still to close, unless a token that makes a node has none.          *)
(***************************************************************************)
EXTENDS Expressions, FiniteSetTheorems, SequenceTheorems, TLAPS

\* The position the tree of an activation starts at.
Start(c) == IF c.left = Nothing THEN c.mark + 1 ELSE c.left.from

\* Every text ends with the end of file and has it nowhere else.
Text ==
  /\ Len(ts) \in 1..(MaxTokens + 1)
  /\ \A i \in 1..Len(ts) : ts[i] = "eof" <=> i = Len(ts)

LeftEnds(c, to) == c.left # Nothing => c.left.to = to

\* An activation in a text of n tokens; the outermost; one and its callee.
Frame(c, n) ==
  /\ c \in Call /\ c.mark < n
  /\ c.at # "expression" => c.mark + 1 < n
Root(c) == c.at = "expression" /\ Start(c) = 1
Linked(c, d) ==
  /\ c.mark <= d.mark /\ LeftEnds(c, c.mark)
  /\ c.at = "expression" <=> d.at # "expression"
  /\ c.at = "expression" => Start(d) = Start(c)

WellStacked(s, n) ==
  /\ s \in Seq(Call)
  /\ \A i \in 1..Len(s) : Frame(s[i], n) /\ (i = 1 => Root(s[i]))
  /\ \A i \in 1..Len(s) : i > 1 => Linked(s[i - 1], s[i])

\* The depth of an activation is bounded by its check point.
DepthBound(c) == 2 * c.mark + (IF c.at = "expression" THEN 1 ELSE 2)
Shallow(s) == \A i \in 1..Len(s) : i <= DepthBound(s[i])

\* At an operator that is not eaten before the recursion.
Stuck == AtOperand /\ Current \in {"-", "&&"}

\* What the innermost activation has.
TopOK(c) ==
  /\ c.mark <= offset
  /\ result = Nothing => c.at = "expression"
  /\ LeftEnds(c, IF result = Nothing THEN offset ELSE c.mark)
  /\ result = Nothing /\ c.left = Nothing => c.mark = offset
  /\ result \in Tree /\ c.at = "expression" => result.from = Start(c)

Done == result # Nothing /\ (result # Failure => result.from = 1)

IInv ==
  /\ TypeOK /\ Text /\ WellStacked(calls, Len(ts))
  /\ IF calls = <<>> THEN Done ELSE TopOK(Top)
  /\ result \in Tree => result.to = offset
  /\ outcome = "running" => Stuck \/ Shallow(calls)
  /\ DeepOnlyAtUneaten

-----------------------------------------------------------------------------
(* Stacks of activations *)

LEMMA FrontOf ==
  ASSUME NEW S, NEW s \in Seq(S), s # <<>>
  PROVE  /\ Len(s) \in Nat /\ Len(s) >= 1 /\ s[Len(s)] \in S
         /\ SubSeq(s, 1, Len(s) - 1) \in Seq(S)
         /\ Len(SubSeq(s, 1, Len(s) - 1)) = Len(s) - 1
         /\ \A i \in 1..(Len(s) - 1) : SubSeq(s, 1, Len(s) - 1)[i] = s[i]
<1> DEFINE n == Len(s) - 1
<1>1. Len(s) \in Nat /\ Len(s) >= 1 /\ \A i \in 1..Len(s) : s[i] \in S
  BY EmptySeq, LenProperties, ElementOfSeq
<1>2. n \in Int /\ n >= 0 /\ \A i \in 1..n : s[i] \in S
  BY <1>1
<1> HIDE DEF n
<1>3. /\ SubSeq(s, 1, n) \in Seq(S)
      /\ Len(SubSeq(s, 1, n)) = IF 1 <= n THEN n - 1 + 1 ELSE 0
      /\ \A i \in 1..(n - 1 + 1) : SubSeq(s, 1, n)[i] = s[1 + i - 1]
  BY <1>2, SubSeqProperties
<1>4. /\ SubSeq(s, 1, n) \in Seq(S)
      /\ Len(SubSeq(s, 1, n)) = n
      /\ \A i \in 1..n : SubSeq(s, 1, n)[i] = s[i]
  BY <1>2, <1>3
<1> QED
  BY <1>1, <1>4 DEF n

LEMMA BackOf ==
  ASSUME NEW S, NEW s \in Seq(S), NEW e \in S
  PROVE  /\ Append(s, e) \in Seq(S) /\ Append(s, e) # <<>>
         /\ Len(s) \in Nat /\ Len(Append(s, e)) = Len(s) + 1
         /\ \A i \in 1..Len(s) : Append(s, e)[i] = s[i]
         /\ Append(s, e)[Len(s) + 1] = e
OBVIOUS

\* Returning.
LEMMA Popped ==
  ASSUME NEW n, NEW s, WellStacked(s, n), s # <<>>
  PROVE  WellStacked(SubSeq(s, 1, Len(s) - 1), n)
BY FrontOf DEF WellStacked

\* Calling.
LEMMA Pushed ==
  ASSUME NEW n, NEW s, NEW c, WellStacked(s, n), Frame(c, n),
         IF s = <<>> THEN Root(c) ELSE Linked(s[Len(s)], c)
  PROVE  WellStacked(Append(s, c), n)
<1>1. s \in Seq(Call) /\ c \in Call
  BY DEF WellStacked, Frame
<1>2. Len(s) = 0 <=> s = <<>>
  BY <1>1, EmptySeq
<1> QED
  BY <1>1, <1>2, BackOf DEF WellStacked

LEMMA PoppedShallow ==
  ASSUME NEW s \in Seq(Call), s # <<>>, Shallow(s)
  PROVE  Shallow(SubSeq(s, 1, Len(s) - 1))
BY FrontOf DEF Shallow

LEMMA PushedShallow ==
  ASSUME NEW s \in Seq(Call), NEW c \in Call, Shallow(s), Len(s) < DepthBound(c)
  PROVE  Shallow(Append(s, c))
<1>1. DepthBound(c) \in Int
  BY DEF DepthBound, Call
<1> QED
  BY <1>1, BackOf DEF Shallow

LEMMA LinkedOn ==
  ASSUME NEW p \in Call, NEW c \in Call, NEW d \in Call, Linked(p, c),
         d.at = "expression" <=> c.at = "expression", c.mark <= d.mark,
         Start(d) = Start(c)
  PROVE  Linked(p, d)
<1>1. p.mark \in Nat /\ c.mark \in Nat /\ d.mark \in Nat
  BY DEF Call
<1>2. p.mark <= d.mark
  BY <1>1 DEF Linked
<1>3. p.at = "expression" <=> d.at # "expression"
  BY DEF Linked
<1>4. p.at = "expression" => Start(d) = Start(p)
  BY DEF Linked
<1> QED
  BY <1>2, <1>3, <1>4 DEF Linked

\* The innermost activation goes on.
LEMMA Replaced ==
  ASSUME NEW n, NEW s, NEW c, WellStacked(s, n), s # <<>>, Frame(c, n),
         c.at = "expression" <=> s[Len(s)].at = "expression",
         s[Len(s)].mark <= c.mark, Start(c) = Start(s[Len(s)])
  PROVE  WellStacked(Append(SubSeq(s, 1, Len(s) - 1), c), n)
<1> DEFINE front == SubSeq(s, 1, Len(s) - 1)
           last == s[Len(s)]
<1>1. s \in Seq(Call) /\ Len(s) \in Nat /\ Len(s) >= 1 /\ front \in Seq(Call)
  BY FrontOf DEF WellStacked
<1>2. /\ Len(front) = Len(s) - 1
      /\ \A i \in 1..(Len(s) - 1) : front[i] = s[i]
  BY <1>1, FrontOf
<1>3. WellStacked(front, n)
  BY Popped
<1>4. CASE front = <<>>
  <2>1. Len(front) = 0
    BY <1>1, <1>4, EmptySeq
  <2>2. Len(s) = 1
    BY <1>1, <1>2, <2>1
  <2>3. Root(last)
    BY <1>1, <2>2 DEF WellStacked
  <2>4. Root(c)
    BY <2>3 DEF Root
  <2> QED
    BY <1>3, <1>4, <2>4, Pushed
<1>5. CASE front # <<>>
  <2>1. Len(front) \in Nat /\ Len(front) >= 1
    BY <1>1, <1>5, EmptySeq, LenProperties
  <2> DEFINE prev == front[Len(front)]
  <2>2. prev = s[Len(s) - 1] /\ Len(s) > 1
    BY <1>1, <1>2, <2>1
  <2>3. Linked(prev, last)
    BY <1>1, <2>2 DEF WellStacked
  <2>4. prev \in Call /\ last \in Call /\ c \in Call
    BY <1>1, <2>1, ElementOfSeq, LenProperties DEF Frame
  <2>5. Linked(prev, c)
    <3> HIDE DEF prev, last
    <3>1. /\ c.at = "expression" <=> last.at = "expression"
          /\ last.mark <= c.mark /\ Start(c) = Start(last)
      BY DEF last
    <3> QED
      BY <2>3, <2>4, <3>1, LinkedOn
  <2> QED
    BY <1>3, <1>5, <2>5, Pushed
<1> QED
  BY <1>4, <1>5

-----------------------------------------------------------------------------
(* Trees and activations *)

LEMMA NoTree ==
  /\ Nothing \notin Tree /\ Failure \notin Tree /\ Nothing # Failure
  /\ Nothing.nodes = {}
BY DEF Nothing, Failure, Tree

LEMMA MadeType ==
  ASSUME NEW c \in Call, NEW role \in Role, NEW nodes \in SUBSET Node, NEW to \in Nat
  PROVE  /\ Made(c, role, nodes, to) \in Tree
         /\ Made(c, role, nodes, to).from = Start(c)
         /\ Made(c, role, nodes, to).to = to
<1>1. /\ c.mark \in Nat /\ c.left \in Tree \cup {Nothing} /\ c.nodes \in SUBSET Node
  BY DEF Call
<1>2. c.left # Nothing => c.left.from \in Nat \ {0} /\ c.left.nodes \in SUBSET Node
  BY <1>1 DEF Tree
<1>3. Start(c) \in Nat \ {0} /\ c.left.nodes \in SUBSET Node
  BY <1>1, <1>2, NoTree DEF Start
<1> DEFINE n == [role |-> role, at |-> c.mark + 1, from |-> Start(c), to |-> to]
           all == c.left.nodes \cup c.nodes \cup nodes \cup {n}
<1>4. n \in Node
  BY <1>1, <1>3 DEF Node
<1>5. all \in SUBSET Node
  BY <1>1, <1>3, <1>4
<1>6. Made(c, role, nodes, to) = [from |-> Start(c), to |-> to, nodes |-> all]
  BY DEF Made, Start
<1> HIDE DEF all
<1> QED
  BY <1>3, <1>5, <1>6 DEF Tree

\* A new activation of parseExpression.
LEMMA ExpressionType ==
  ASSUME NEW power \in Nat, NEW off \in Nat
  PROVE  /\ Expression(power, off) \in Call
         /\ Expression(power, off).at = "expression"
         /\ Expression(power, off).mark = off
         /\ Expression(power, off).left = Nothing
BY DEF Expression, Call, Handler

\* An activation at its next check point, with a tree.
LEMMA MarkType ==
  ASSUME NEW c \in Call, NEW off \in Nat
  PROVE  /\ [c EXCEPT !.mark = off] \in Call
         /\ [c EXCEPT !.mark = off].at = c.at
         /\ [c EXCEPT !.mark = off].mark = off
         /\ [c EXCEPT !.mark = off].left = c.left
BY DEF Call

LEMMA LeftType ==
  ASSUME NEW c \in Call, NEW t \in Tree
  PROVE  /\ [c EXCEPT !.left = t] \in Call
         /\ [c EXCEPT !.left = t].at = c.at
         /\ [c EXCEPT !.left = t].mark = c.mark
         /\ [c EXCEPT !.left = t].left = t
BY DEF Call

LEMMA ReplacedShallow ==
  ASSUME NEW s \in Seq(Call), NEW c \in Call, s # <<>>, Shallow(s),
         DepthBound(c) >= DepthBound(s[Len(s)])
  PROVE  Shallow(Append(SubSeq(s, 1, Len(s) - 1), c))
<1>1. Shallow(SubSeq(s, 1, Len(s) - 1)) /\ Len(s) \in Nat /\ Len(s) >= 1
  BY PoppedShallow, FrontOf
<1>2. Len(s) <= DepthBound(s[Len(s)]) /\ s[Len(s)] \in Call
  BY <1>1, FrontOf DEF Shallow
<1>3. DepthBound(c) \in Int /\ DepthBound(s[Len(s)]) \in Int
  BY <1>2 DEF DepthBound, Call
<1>4. /\ SubSeq(s, 1, Len(s) - 1) \in Seq(Call)
      /\ Len(SubSeq(s, 1, Len(s) - 1)) = Len(s) - 1
  BY FrontOf
<1>5. Len(SubSeq(s, 1, Len(s) - 1)) < DepthBound(c)
  BY <1>1, <1>2, <1>3, <1>4
<1> QED
  BY <1>1, <1>4, <1>5, PushedShallow

-----------------------------------------------------------------------------
(* What every kind of step preserves *)

\* The process ends.
LEMMA EndKeeps ==
  ASSUME IInv, NEW how \in Ending \ {"running"},
         how = "overflowed" => Current \in {"-", "&&"}, End(how)
  PROVE  IInv'
<1> USE DEF End
<1>1. TypeOK' /\ Text' /\ WellStacked(calls, Len(ts))'
  BY DEF IInv, TypeOK, Text, WellStacked
<1>2. (IF calls = <<>> THEN Done ELSE TopOK(Top))'
  BY DEF IInv, Done, TopOK, Top
<1>3. (result \in Tree => result.to = offset)'
  BY DEF IInv
<1>4. outcome' # "running"
  OBVIOUS
<1>5. DeepOnlyAtUneaten'
  BY DEF DeepOnlyAtUneaten, Current, TokenAt
<1> QED
  BY <1>1, <1>2, <1>3, <1>4, <1>5 DEF IInv

\* parseExpression goes on with a tree.
LEMMA ContinueKeeps ==
  ASSUME IInv, Running, Shallow(calls), Top.at = "expression",
         NEW c \in Call, NEW n \in Nat, c.at = "expression", c.left \in Tree,
         Top.mark <= c.mark, c.mark <= offset, offset + n < Len(ts),
         c.left.from = Start(Top), c.left.to = offset + n, Continue(c, n)
  PROVE  IInv'
<1>1. /\ calls \in Seq(Call) /\ calls # <<>> /\ Top \in Call
      /\ offset \in Nat /\ Len(ts) \in Nat
  BY FrontOf DEF IInv, TypeOK, Running, Top
<1>2. c.mark \in Nat
  BY DEF Call
<1>3. c.left # Nothing /\ Start(c) = Start(Top)
  BY NoTree DEF Start
<1>4. /\ calls' = Append(Below, c) /\ offset' = offset + n /\ result' = Nothing
      /\ ts' = ts /\ outcome' = outcome
  BY DEF Continue
<1>5. Top = calls[Len(calls)] /\ Below = SubSeq(calls, 1, Len(calls) - 1)
  BY DEF Top, Below
<1>6. Frame(c, Len(ts))
  BY <1>1, <1>2 DEF Frame
<1>7. WellStacked(calls', Len(ts))
  BY <1>1, <1>2, <1>3, <1>4, <1>5, <1>6, Replaced DEF IInv
<1>8. DepthBound(c) >= DepthBound(Top)
  BY <1>1, <1>2 DEF DepthBound, Call
<1>9. Shallow(calls')
  BY <1>1, <1>2, <1>4, <1>5, <1>8, ReplacedShallow
<1>10. calls' \in Seq(Call) /\ calls' # <<>> /\ Top' = c
  <2>1. Below \in Seq(Call)
    BY <1>1, <1>5, FrontOf
  <2>2. /\ Append(Below, c) \in Seq(Call) /\ Append(Below, c) # <<>>
        /\ Append(Below, c)[Len(Append(Below, c))] = c
    BY <1>2, <2>1, BackOf
  <2> QED
    BY <1>4, <2>2 DEF Top
<1>11. TypeOK'
  BY <1>1, <1>4, <1>10 DEF IInv, TypeOK
<1>12. Text'
  BY <1>4 DEF IInv, Text
<1>13. TopOK(Top)'
  BY <1>1, <1>2, <1>3, <1>4, <1>10, NoTree DEF TopOK, LeftEnds
<1>14. DeepOnlyAtUneaten'
  BY <1>4 DEF Running, DeepOnlyAtUneaten
<1> QED
  BY <1>4, <1>7, <1>9, <1>10, <1>11, <1>12, <1>13, <1>14, NoTree DEF IInv

\* An activation returns.
LEMMA ReturnKeeps ==
  ASSUME IInv, Running, Shallow(calls), NEW t \in Tree \cup {Failure}, NEW off \in Nat,
         off < Len(ts), Len(calls) > 1 => calls[Len(calls) - 1].mark <= off,
         t # Failure => t.to = off,
         t # Failure /\ (Top.at # "expression" \/ Len(calls) = 1) => t.from = Start(Top),
         Return(t, off)
  PROVE  IInv'
<1>1. /\ calls \in Seq(Call) /\ calls # <<>> /\ Top \in Call
      /\ Len(calls) \in Nat /\ Len(calls) >= 1
      /\ offset \in Nat /\ Len(ts) \in Nat
  BY FrontOf DEF IInv, TypeOK, Running, Top
<1>2. /\ calls' = Below /\ offset' = off /\ result' = t
      /\ ts' = ts /\ outcome' = outcome
  BY DEF Return
<1>3. Top = calls[Len(calls)] /\ Below = SubSeq(calls, 1, Len(calls) - 1)
  BY DEF Top, Below
<1>4. /\ Below \in Seq(Call) /\ Len(Below) = Len(calls) - 1
      /\ \A i \in 1..(Len(calls) - 1) : Below[i] = calls[i]
  BY <1>1, <1>3, FrontOf
<1>5. WellStacked(calls', Len(ts))
  BY <1>1, <1>2, <1>3, Popped DEF IInv
<1>6. Shallow(calls')
  BY <1>1, <1>2, <1>3, PoppedShallow
<1>7. TypeOK'
  BY <1>1, <1>2, <1>4 DEF IInv, TypeOK
<1>8. Text'
  BY <1>2 DEF IInv, Text
<1>9. DeepOnlyAtUneaten'
  BY <1>2 DEF Running, DeepOnlyAtUneaten
<1>10. t # Nothing /\ (t \in Tree <=> t # Failure)
  BY NoTree
<1>11. CASE Len(calls) = 1
  <2>1. calls' = <<>>
    BY <1>2, <1>4, <1>11, EmptySeq
  <2>2. Start(Top) = 1
    BY <1>1, <1>3, <1>11 DEF IInv, WellStacked, Root
  <2>3. Done'
    BY <1>2, <1>10, <1>11, <2>2 DEF Done
  <2> QED
    BY <1>2, <1>5, <1>6, <1>7, <1>8, <1>9, <1>10, <2>1, <2>3 DEF IInv
<1>12. CASE Len(calls) > 1
  <2> DEFINE d == calls[Len(calls) - 1]
  <2>1. calls' # <<>> /\ Top' = d
    BY <1>1, <1>2, <1>4, <1>12, EmptySeq DEF Top
  <2>2. d \in Call /\ Linked(d, Top)
    BY <1>1, <1>3, <1>12 DEF IInv, WellStacked
  <2>3. d.mark <= off
    BY <1>12
  <2> HIDE DEF d
  <2>4. LeftEnds(d, d.mark) /\ (d.at = "expression" => Top.at # "expression" /\ Start(d) = Start(Top))
    BY <2>2 DEF Linked
  <2>5. TopOK(Top)'
    BY <1>2, <1>10, <2>1, <2>3, <2>4 DEF TopOK, LeftEnds, Start
  <2>6. (result \in Tree => result.to = offset)'
    BY <1>2, <1>10
  <2>7. (IF calls = <<>> THEN Done ELSE TopOK(Top))'
    BY <2>1, <2>5
  <2>8. WellStacked(calls, Len(ts))'
    BY <1>2, <1>5
  <2>9. (outcome = "running" => Stuck \/ Shallow(calls))'
    BY <1>6
  <2> QED
    BY <1>7, <1>8, <1>9, <2>6, <2>7, <2>8, <2>9 DEF IInv
<1>13. Len(calls) = 1 \/ Len(calls) > 1
  <2> DEFINE k == Len(calls)
  <2>1. k \in Nat /\ k >= 1
    BY <1>1
  <2> HIDE DEF k
  <2>2. k = 1 \/ k > 1
    BY <2>1
  <2> QED
    BY <2>2 DEF k
<1> QED
  BY <1>11, <1>12, <1>13

\* parseExpression is called by the innermost activation of stack s: beyond
\* that handler's own token, or at an operator that is not eaten.
LEMMA CallKeeps ==
  ASSUME IInv, Running, NEW s, WellStacked(s, Len(ts)), s # <<>>,
         s[Len(s)].at # "expression", LeftEnds(s[Len(s)], s[Len(s)].mark),
         NEW power \in Nat, NEW off \in Nat, off < Len(ts),
         \/ Shallow(s) /\ off > s[Len(s)].mark
         \/ off = offset /\ off = s[Len(s)].mark /\ Current \in {"-", "&&"},
         CallExpression(s, power, off)
  PROVE  IInv'
<1> DEFINE last == s[Len(s)]
           e == Expression(power, off)
<1>1. /\ s \in Seq(Call) /\ Len(s) \in Nat /\ Len(s) >= 1 /\ last \in Call
      /\ last.at # "expression" /\ Frame(last, Len(ts))
  <2>1. s \in Seq(Call)
    BY DEF WellStacked
  <2>2. Len(s) \in Nat /\ Len(s) >= 1 /\ last \in Call
    BY <2>1, FrontOf
  <2> QED
    BY <2>1, <2>2 DEF WellStacked
<1>2. offset \in Nat /\ Len(ts) \in Nat /\ Len(ts) <= MaxTokens + 1
  BY ExpressionsAssumption DEF IInv, TypeOK, Text
<1>3. e \in Call /\ e.at = "expression" /\ e.mark = off /\ e.left = Nothing
  BY ExpressionType
<1>4. last.mark \in Nat /\ last.mark < Len(ts) /\ last.mark <= off
  BY <1>1 DEF Call, Frame
<1>5. \/ Shallow(s) /\ off > last.mark
      \/ off = offset /\ off = last.mark /\ Current \in {"-", "&&"}
  OBVIOUS
<1>6. LeftEnds(last, last.mark)
  OBVIOUS
<1> HIDE DEF last, e
<1>7. DepthBound(last) = 2 * last.mark + 2 /\ DepthBound(e) = 2 * off + 1
  BY <1>1, <1>3 DEF DepthBound
<1>8. Shallow(s) => Len(s) <= DepthBound(last)
  BY <1>1 DEF Shallow, last
<1>9. CASE Len(s) >= MaxCalls
  <2>1. ~Shallow(s)
    BY <1>1, <1>2, <1>4, <1>7, <1>8, <1>9, ExpressionsAssumption
  <2>2. End("overflowed") /\ Current \in {"-", "&&"}
    BY <1>5, <1>9, <2>1 DEF CallExpression
  <2> QED
    BY <2>2, EndKeeps DEF Ending
<1>10. CASE ~(Len(s) >= MaxCalls)
  <2>1. /\ calls' = Append(s, e) /\ offset' = off /\ result' = Nothing
        /\ ts' = ts /\ outcome' = outcome
    BY <1>10 DEF CallExpression, e
  <2>2. /\ Append(s, e) \in Seq(Call) /\ Append(s, e) # <<>>
        /\ Append(s, e)[Len(Append(s, e))] = e
    BY <1>1, <1>3, BackOf
  <2>3. calls' \in Seq(Call) /\ calls' # <<>> /\ Top' = e
    BY <2>1, <2>2 DEF Top
  <2>4. Linked(last, e)
    BY <1>1, <1>3, <1>4, <1>6 DEF Linked
  <2>5. Frame(e, Len(ts))
    BY <1>3 DEF Frame
  <2>6. WellStacked(calls, Len(ts))'
    BY <2>1, <2>4, <2>5, Pushed DEF last
  <2>7. TypeOK'
    BY <1>2, <2>1, <2>3 DEF IInv, TypeOK
  <2>8. Text'
    BY <2>1 DEF IInv, Text
  <2>9. DeepOnlyAtUneaten'
    BY <2>1 DEF Running, DeepOnlyAtUneaten
  <2>10. TopOK(Top)'
    BY <1>3, <2>1, <2>3, NoTree DEF TopOK, LeftEnds
  <2>11. (IF calls = <<>> THEN Done ELSE TopOK(Top))'
    BY <2>3, <2>10
  <2>12. (result \in Tree => result.to = offset)'
    BY <2>1, NoTree
  <2>13. (outcome = "running" => Stuck \/ Shallow(calls))'
    <3>1. CASE Shallow(s) /\ off > last.mark
      <4>1. Len(s) < DepthBound(e)
        BY <1>1, <1>4, <1>7, <1>8, <3>1
      <4>2. Shallow(Append(s, e))
        BY <1>1, <1>3, <3>1, <4>1, PushedShallow
      <4> QED
        BY <2>1, <4>2
    <3>2. CASE off = offset /\ Current \in {"-", "&&"}
      <4>1. Current' = Current
        BY <2>1, <3>2 DEF Current, TokenAt
      <4>2. AtOperand'
        BY <1>3, <2>1, <2>3 DEF AtOperand, Running
      <4> QED
        BY <3>2, <4>1, <4>2 DEF Stuck
    <3> QED
      BY <1>5, <3>1, <3>2
  <2> QED
    BY <2>6, <2>7, <2>8, <2>9, <2>11, <2>12, <2>13 DEF IInv
<1> QED
  BY <1>9, <1>10

-----------------------------------------------------------------------------
(* What parseExpression and its handlers preserve *)

\* The end of file comes after every other token.
LEMMA NotLast ==
  ASSUME IInv, NEW k \in Nat, TokenAt(k) \notin {"eof", "none"}
  PROVE  offset + k + 1 < Len(ts)
<1>1. offset \in Nat /\ Len(ts) \in Nat
  BY DEF IInv, TypeOK, Text
<1>2. offset + k < Len(ts) /\ ts[offset + k + 1] # "eof"
  BY DEF TokenAt
<1>3. offset + k + 1 # Len(ts)
  BY <1>1, <1>2 DEF IInv, Text
<1> QED
  BY <1>1, <1>2, <1>3

\* The innermost activation.
LEMMA TopType ==
  ASSUME IInv, Running
  PROVE  /\ calls \in Seq(Call) /\ calls # <<>> /\ Top \in Call /\ TopOK(Top)
         /\ Top = calls[Len(calls)] /\ Below = SubSeq(calls, 1, Len(calls) - 1)
         /\ Len(calls) \in Nat /\ Len(calls) >= 1
         /\ Frame(Top, Len(ts)) /\ Top.mark \in Nat
         /\ offset \in Nat /\ Len(ts) \in Nat /\ offset < Len(ts)
<1>1. calls \in Seq(Call) /\ calls # <<>> /\ TopOK(Top)
  BY DEF IInv, TypeOK, Running
<1>2. Len(calls) \in Nat /\ Len(calls) >= 1 /\ Top \in Call
  BY <1>1, FrontOf DEF Top
<1>3. Frame(Top, Len(ts))
  BY <1>2 DEF IInv, WellStacked, Top
<1>4. offset \in Nat /\ Len(ts) \in Nat /\ offset < Len(ts)
  BY DEF IInv, TypeOK, Text
<1> QED
  BY <1>1, <1>2, <1>3, <1>4 DEF Top, Below, Call

LEMMA HereType ==
  ASSUME IInv, Running, Top.at = "expression", result = Nothing
  PROVE  /\ Here \in Call /\ Here.at = "expression" /\ Here.mark = offset
         /\ Here.left = Top.left /\ Start(Here) = Start(Top) /\ LeftEnds(Here, offset)
<1>1. Top \in Call /\ TopOK(Top) /\ offset \in Nat
  BY TopType
<1>2. /\ Here \in Call /\ Here.at = "expression" /\ Here.mark = offset
      /\ Here.left = Top.left
  BY <1>1, MarkType DEF Here
<1>3. LeftEnds(Here, offset) /\ (Top.left = Nothing => Top.mark = offset)
  BY <1>1, <1>2 DEF TopOK, LeftEnds
<1> QED
  BY <1>2, <1>3 DEF Start

\* parseExpression calls a handler that calls nobody.
LEMMA ExtendKeeps ==
  ASSUME IInv, Running, Top.at = "expression", result = Nothing, ~Stuck,
         NEW role \in Role, NEW n \in Nat, offset + n < Len(ts), Extend(role, n)
  PROVE  IInv'
<1>1. /\ Here \in Call /\ Here.at = "expression" /\ Here.mark = offset
      /\ Start(Here) = Start(Top)
  BY HereType
<1>2. offset \in Nat /\ Top.mark <= offset /\ Shallow(calls)
  BY TopType DEF TopOK, IInv, Running
<1> DEFINE t == Made(Here, role, {}, offset + n)
           c == [Here EXCEPT !.left = t]
<1>3. t \in Tree /\ t.from = Start(Top) /\ t.to = offset + n
  BY <1>1, <1>2, MadeType
<1>4. Continue(c, n)
  BY DEF Extend
<1> HIDE DEF t
<1>5. c \in Call /\ c.at = "expression" /\ c.mark = offset /\ c.left = t
  BY <1>1, <1>3, LeftType
<1> HIDE DEF c
<1> QED
  BY <1>2, <1>3, <1>4, <1>5, ContinueKeeps

\* parseExpression calls handler h.
LEMMA CallingType ==
  ASSUME IInv, Running, Top.at = "expression", result = Nothing,
         NEW h \in Handler \ {"expression"}, offset + 1 < Len(ts)
  PROVE  /\ WellStacked(Calling(h), Len(ts)) /\ Calling(h) # <<>>
         /\ Calling(h)[Len(Calling(h))].at = h
         /\ Calling(h)[Len(Calling(h))].mark = offset
         /\ LeftEnds(Calling(h)[Len(Calling(h))], offset)
         /\ Shallow(calls) => Shallow(Calling(h))
<1> DEFINE c == [at |-> h, mark |-> offset, power |-> 0, left |-> Top.left, nodes |-> {}]
           s == Append(Below, Here)
<1>1. /\ calls \in Seq(Call) /\ calls # <<>> /\ Top \in Call
      /\ Top = calls[Len(calls)] /\ Below = SubSeq(calls, 1, Len(calls) - 1)
      /\ Len(calls) \in Nat /\ Len(calls) >= 1
      /\ Top.mark \in Nat /\ Top.mark <= offset
      /\ offset \in Nat /\ Len(ts) \in Nat
  BY TopType DEF TopOK
<1>2. /\ Here \in Call /\ Here.at = "expression" /\ Here.mark = offset
      /\ Here.left = Top.left /\ Start(Here) = Start(Top) /\ LeftEnds(Here, offset)
  BY HereType
<1>3. /\ c \in Call /\ c.at = h /\ c.mark = offset /\ c.left = Top.left
  BY <1>1 DEF Call
<1>4. Calling(h) = Append(s, c)
  BY DEF Calling
<1>5. Len(calls) \in Nat /\ Below \in Seq(Call) /\ Len(Below) = Len(calls) - 1
  BY <1>1, FrontOf
<1>6. /\ s \in Seq(Call) /\ s # <<>> /\ Len(s) = Len(calls)
      /\ s[Len(s)] = Here
  BY <1>2, <1>5, BackOf
<1> HIDE DEF c
<1>7. Frame(Here, Len(ts)) /\ Frame(c, Len(ts))
  BY <1>1, <1>2, <1>3 DEF Frame
<1>8. WellStacked(s, Len(ts))
  BY <1>1, <1>2, <1>7, Replaced DEF IInv
<1>9. Shallow(calls) => Shallow(s)
  <2>1. DepthBound(Here) >= DepthBound(Top)
    BY <1>1, <1>2 DEF DepthBound
  <2> QED
    BY <1>1, <1>2, <2>1, ReplacedShallow
<1> HIDE DEF s
<1>10. Linked(Here, c)
  BY <1>1, <1>2, <1>3 DEF Linked, Start
<1>11. WellStacked(Append(s, c), Len(ts))
  BY <1>6, <1>7, <1>8, <1>10, Pushed
<1>12. /\ Append(s, c) # <<>> /\ Append(s, c)[Len(Append(s, c))] = c
  BY <1>3, <1>6, BackOf
<1>13. Shallow(calls) => Shallow(Append(s, c))
  <2>1. ASSUME Shallow(calls)
        PROVE  Len(s) < DepthBound(c)
    <3>1. Len(calls) <= DepthBound(Top)
      BY <1>1, <2>1 DEF Shallow
    <3>2. DepthBound(Top) = 2 * Top.mark + 1 /\ DepthBound(c) = 2 * offset + 2
      BY <1>3 DEF DepthBound
    <3> QED
      BY <1>1, <1>6, <3>1, <3>2
  <2> QED
    BY <1>3, <1>6, <1>9, <2>1, PushedShallow
<1>14. LeftEnds(c, offset)
  BY <1>2, <1>3 DEF LeftEnds
<1> QED
  BY <1>3, <1>4, <1>11, <1>12, <1>13, <1>14

LEMMA HandlerKeeps ==
  ASSUME IInv, Running, Top.at = "expression", result = Nothing, ~Stuck,
         NEW h \in Handler \ {"expression"}, NEW power \in Nat, NEW off \in Nat,
         offset < off, off < Len(ts), CallExpression(Calling(h), power, off)
  PROVE  IInv'
<1>1. offset \in Nat /\ Len(ts) \in Nat /\ Shallow(calls)
  BY TopType DEF IInv, Running
<1>2. offset + 1 < Len(ts)
  BY <1>1
<1> DEFINE s == Calling(h)
<1>3. /\ WellStacked(s, Len(ts)) /\ s # <<>>
      /\ s[Len(s)].at = h /\ s[Len(s)].mark = offset
      /\ LeftEnds(s[Len(s)], offset) /\ Shallow(s)
  BY <1>1, <1>2, CallingType
<1>4. CallExpression(s, power, off)
  OBVIOUS
<1> HIDE DEF s
<1> QED
  BY <1>1, <1>3, <1>4, CallKeeps

\* A handler goes on as c and calls parseExpression again.
LEMMA AgainKeeps ==
  ASSUME IInv, Running, Top.at # "expression", result # Nothing,
         NEW c \in Call, c.at # "expression", c.mark = Top.mark, c.left = Top.left,
         NEW off \in Nat, Top.mark < off, off < Len(ts),
         CallExpression(Append(Below, c), 0, off)
  PROVE  IInv'
<1> DEFINE s == Append(Below, c)
<1>1. /\ calls \in Seq(Call) /\ calls # <<>> /\ Top \in Call /\ TopOK(Top)
      /\ Top = calls[Len(calls)] /\ Below = SubSeq(calls, 1, Len(calls) - 1)
      /\ Frame(Top, Len(ts)) /\ Top.mark \in Nat
  BY TopType
<1>2. Shallow(calls)
  BY DEF IInv, Running, Stuck, AtOperand
<1>3. Frame(c, Len(ts)) /\ Start(c) = Start(Top)
  BY <1>1 DEF Frame, Start
<1>4. WellStacked(s, Len(ts))
  BY <1>1, <1>3, Replaced DEF IInv
<1>5. Shallow(s)
  <2>1. DepthBound(c) >= DepthBound(Top)
    BY <1>1 DEF DepthBound
  <2> QED
    BY <1>1, <1>2, <2>1, ReplacedShallow
<1>6. s # <<>> /\ s[Len(s)] = c
  <2>1. Below \in Seq(Call)
    BY <1>1, FrontOf
  <2> QED
    BY <2>1, BackOf
<1>7. LeftEnds(c, c.mark)
  BY <1>1 DEF TopOK, LeftEnds
<1>8. CallExpression(s, 0, off)
  OBVIOUS
<1> HIDE DEF s
<1> QED
  BY <1>4, <1>5, <1>6, <1>7, <1>8, CallKeeps

\* Check points do not decrease.
LEMMA MarkBelow ==
  ASSUME IInv, Running, Len(calls) > 1
  PROVE  calls[Len(calls) - 1].mark <= Top.mark
<1>1. Len(calls) \in Nat /\ Top = calls[Len(calls)]
  BY TopType
<1>2. Linked(calls[Len(calls) - 1], Top)
  BY <1>1 DEF IInv, WellStacked
<1> QED
  BY <1>2 DEF Linked

LEMMA MarkBelowType ==
  ASSUME IInv, Running, Len(calls) > 1, NEW off \in Nat, Top.mark <= off
  PROVE  calls[Len(calls) - 1].mark <= off
<1>1. calls \in Seq(Call) /\ Len(calls) \in Nat /\ Top.mark \in Nat
  BY TopType
<1>2. calls[Len(calls) - 1] \in Call
  BY <1>1, ElementOfSeq
<1>3. calls[Len(calls) - 1].mark \in Nat
  BY <1>2 DEF Call
<1> QED
  BY <1>1, <1>3, MarkBelow

\* A handler fails, or returns the tree it has made.
LEMMA HandlerFails ==
  ASSUME IInv, Running, result # Nothing, NEW off \in Nat,
         Top.mark <= off, off < Len(ts), Return(Failure, off)
  PROVE  IInv'
<1>1. Shallow(calls)
  BY DEF IInv, Running, Stuck, AtOperand
<1> QED
  BY <1>1, MarkBelowType, ReturnKeeps

LEMMA HandlerReturns ==
  ASSUME IInv, Running, result # Nothing,
         NEW c \in Call, Start(c) = Start(Top), NEW role \in Role,
         NEW nodes \in SUBSET Node, NEW off \in Nat, offset <= off, off < Len(ts),
         Return(Made(c, role, nodes, off), off)
  PROVE  IInv'
<1> DEFINE t == Made(c, role, nodes, off)
<1>1. t \in Tree /\ t.from = Start(Top) /\ t.to = off
  BY MadeType
<1>2. Return(t, off)
  OBVIOUS
<1> HIDE DEF t
<1>3. Shallow(calls)
  BY DEF IInv, Running, Stuck, AtOperand
<1>4. Top.mark <= off
  <2>1. Top.mark \in Nat /\ offset \in Nat /\ Top.mark <= offset
    BY TopType DEF TopOK
  <2> QED
    BY <2>1
<1> QED
  BY <1>1, <1>2, <1>3, <1>4, MarkBelowType, ReturnKeeps

-----------------------------------------------------------------------------
(* The steps *)

LEMMA Eaten ==
  ASSUME IInv
  PROVE  /\ Current \notin {"eof", "none"} => offset + 1 < Len(ts)
         /\ TokenAt(1) \notin {"eof", "none"} => offset + 2 < Len(ts)
         /\ TokenAt(2) \notin {"eof", "none"} => offset + 3 < Len(ts)
         /\ TokenAt(3) \notin {"eof", "none"} => offset + 4 < Len(ts)
         /\ offset \in Nat /\ Len(ts) \in Nat
<1>1. offset \in Nat /\ Len(ts) \in Nat
  BY DEF IInv, TypeOK, Text
<1>2. TokenAt(0) \notin {"eof", "none"} => offset + 0 + 1 < Len(ts)
  BY NotLast
<1>3. TokenAt(1) \notin {"eof", "none"} => offset + 1 + 1 < Len(ts)
  BY NotLast
<1>4. TokenAt(2) \notin {"eof", "none"} => offset + 2 + 1 < Len(ts)
  BY NotLast
<1>5. TokenAt(3) \notin {"eof", "none"} => offset + 3 + 1 < Len(ts)
  BY NotLast
<1>6. offset + 0 + 1 = offset + 1 /\ offset + 1 + 1 = offset + 2
      /\ offset + 2 + 1 = offset + 3 /\ offset + 3 + 1 = offset + 4
  BY <1>1
<1> QED
  BY <1>1, <1>2, <1>3, <1>4, <1>5, <1>6 DEF Current

LEMMA Later ==
  ASSUME NEW m \in Nat, NEW n \in Nat, m <= n
  PROVE  m <= n + 1 /\ m < n + 1 /\ n + 1 \in Nat
OBVIOUS

LEMMA Powers ==
  ASSUME NEW t
  PROVE  PrefixPower(t) \in Nat /\ InfixPower(t) \in Nat
BY DEF PrefixPower, InfixPower

LEMMA AtOperandType ==
  ASSUME IInv, AtOperand
  PROVE  /\ Running /\ Top.at = "expression" /\ result = Nothing
         /\ Stuck <=> Current \in {"-", "&&"}
         /\ Top \in Call /\ Top.mark = offset /\ Start(Top) = offset + 1
BY TopType DEF AtOperand, Stuck, TopOK, Start

\* parseUnaryExpression.
LEMMA OperandStep ==
  ASSUME IInv, Literal \/ EmptyBrackets \/ Alone \/ Prefix \/ Open \/ NoOperand
  PROVE  IInv'
<1> USE Eaten
<1>1. CASE Literal
  <2>1. AtOperand /\ Current \in {"x", "1"} /\ Extend("leaf", 1)
    BY <1>1 DEF Literal
  <2> QED
    BY <2>1, AtOperandType, ExtendKeeps DEF Role
<1>2. CASE EmptyBrackets
  <2>1. AtOperand /\ Current \in {"(", "["} /\ TokenAt(1) \in {")", "]"}
        /\ Extend("bracket", 2)
    BY <1>2 DEF EmptyBrackets
  <2> QED
    BY <2>1, AtOperandType, ExtendKeeps DEF Role
<1>3. CASE Alone
  <2>1. AtOperand /\ Current \in {"..", "return", "break"} /\ Extend("leaf", 1)
    BY <1>3 DEF Alone, Terminators
  <2> QED
    BY <2>1, AtOperandType, ExtendKeeps DEF Role
<1>4. CASE Prefix
  <2>1. /\ AtOperand /\ Current \in {"*", "..", "..=", "return", "break"}
        /\ CallExpression(Calling("operand"), PrefixPower(Current), offset + 1)
    BY <1>4 DEF Prefix
  <2>2. offset + 1 \in Nat /\ offset < offset + 1 /\ offset + 1 < Len(ts)
    BY <2>1
  <2> QED
    BY <2>1, <2>2, AtOperandType, HandlerKeeps, Powers DEF Handler
<1>5. CASE Open
  <2>1. PICK h \in {"probe", "first"} :
          AtOperand /\ Current \in {"(", "["} /\ CallExpression(Calling(h), 0, offset + 1)
    BY <1>5 DEF Open
  <2>2. offset + 1 \in Nat /\ offset < offset + 1 /\ offset + 1 < Len(ts)
    BY <2>1
  <2> QED
    BY <2>1, <2>2, AtOperandType, HandlerKeeps DEF Handler
<1>6. CASE NoOperand
  <2>1. AtOperand /\ Current \notin OperandStarts /\ Return(Failure, offset)
    BY <1>6 DEF NoOperand
  <2>2. Running /\ ~Stuck /\ Top.mark = offset
    BY <2>1, AtOperandType DEF OperandStarts
  <2>3. Shallow(calls)
    BY <2>2 DEF IInv, Running
  <2>4. offset \in Nat /\ Top.mark <= offset /\ offset < Len(ts)
    BY <2>2, TopType
  <2> QED
    BY <2>1, <2>2, <2>3, <2>4, MarkBelowType, ReturnKeeps
<1> QED
  BY <1>1, <1>2, <1>3, <1>4, <1>5, <1>6

\* & - and &&.
LEMMA BorrowStep ==
  ASSUME IInv, Borrow
  PROVE  IInv'
<1>1. AtOperand /\ Current = "&"
  BY DEF Borrow
<1>2. Running /\ Top.at = "expression" /\ result = Nothing /\ ~Stuck
  BY <1>1, AtOperandType
<1>3. CASE End("aborted")
  BY <1>3, EndKeeps DEF Ending
<1>4. CASE /\ TokenAt(2) = "mut"
           /\ CallExpression(Calling("operand"), PrefixPower("&"), offset + 2)
  <2>1. offset + 2 \in Nat /\ offset < offset + 2 /\ offset + 2 < Len(ts)
    BY <1>4, Eaten
  <2> QED
    BY <1>2, <1>4, <2>1, HandlerKeeps, Powers DEF Handler
<1>5. CASE CallExpression(Calling("operand"), PrefixPower("&"), offset + 1)
  <2>1. offset + 1 \in Nat /\ offset < offset + 1 /\ offset + 1 < Len(ts)
    BY <1>1, Eaten
  <2> QED
    BY <1>2, <1>5, <2>1, HandlerKeeps, Powers DEF Handler
<1> QED
  BY <1>3, <1>4, <1>5 DEF Borrow

LEMMA UneatenStep ==
  ASSUME IInv, Uneaten
  PROVE  IInv'
<1>1. AtOperand /\ Current \in {"-", "&&"}
  BY DEF Uneaten
<1>2. CASE End("aborted")
  BY <1>2, EndKeeps DEF Ending
<1>3. CASE CallExpression(Calling("operand"), PrefixPower(Current), offset)
  <2> DEFINE s == Calling("operand")
  <2>1. offset + 1 < Len(ts) /\ offset \in Nat /\ offset < Len(ts)
    BY <1>1, Eaten
  <2>2. /\ WellStacked(s, Len(ts)) /\ s # <<>>
        /\ s[Len(s)].at = "operand" /\ s[Len(s)].mark = offset
        /\ LeftEnds(s[Len(s)], offset)
    BY <1>1, <2>1, AtOperandType, CallingType DEF Handler
  <2>3. CallExpression(s, PrefixPower(Current), offset)
    BY <1>3
  <2> HIDE DEF s
  <2> QED
    BY <1>1, <2>1, <2>2, <2>3, AtOperandType, CallKeeps, Powers
<1> QED
  BY <1>2, <1>3 DEF Uneaten

LEMMA AtOperatorType ==
  ASSUME IInv, AtOperator
  PROVE  /\ Running /\ Top.at = "expression" /\ result = Nothing /\ ~Stuck
         /\ Shallow(calls) /\ Top.left \in Tree /\ Top.left.to = offset
         /\ Start(Top) = Top.left.from
<1>1. Running /\ Top.at = "expression" /\ result = Nothing /\ Top.left # Nothing
  BY DEF AtOperator
<1>2. ~Stuck
  BY <1>1 DEF Stuck, AtOperand
<1>3. Top.left \in Tree /\ Top.left.to = offset
  BY <1>1, TopType DEF TopOK, LeftEnds, Call
<1> QED
  BY <1>1, <1>2, <1>3 DEF IInv, Running, Start

\* The loop of parseExpression.
LEMMA OperatorStep ==
  ASSUME IInv,
         KeywordFollows \/ Stop \/ Postfix \/ InfixOperator \/ OpenAfter \/ NoMember
  PROVE  IInv'
<1>1. CASE KeywordFollows \/ NoMember
  <2>1. End("aborted") \/ End("exited")
    BY <1>1 DEF KeywordFollows, NoMember
  <2> QED
    BY <2>1, EndKeeps DEF Ending
<1>2. CASE Stop
  <2>1. AtOperator /\ Return(Top.left, offset)
    BY <1>2 DEF Stop
  <2>2. Top.mark <= offset /\ offset \in Nat /\ offset < Len(ts) /\ Running
    BY <2>1, AtOperatorType, TopType DEF TopOK
  <2> DEFINE t == Top.left
  <2>3. t \in Tree /\ t.to = offset /\ t.from = Start(Top) /\ Shallow(calls)
    BY <2>1, AtOperatorType
  <2>4. Return(t, offset)
    BY <2>1
  <2> HIDE DEF t
  <2> QED
    BY <2>2, <2>3, <2>4, MarkBelowType, ReturnKeeps
<1>3. CASE Postfix
  <2>1. /\ AtOperator
        /\ \/ Current \in {"?", ".."} /\ Extend("postfix", 1)
           \/ TokenAt(1) \in {"1", "x"} /\ Extend("postfix", 2)
           \/ TokenAt(1) = ")" /\ Extend("bracket", 2)
           \/ TokenAt(3) = ")" /\ Extend("bracket", 4)
    BY <1>3 DEF Postfix, Binds
  <2>2. CASE Current \in {"?", ".."} /\ Extend("postfix", 1)
    BY <2>1, <2>2, AtOperatorType, Eaten, ExtendKeeps DEF Role
  <2>3. CASE TokenAt(1) \in {"1", "x"} /\ Extend("postfix", 2)
    BY <2>1, <2>3, AtOperatorType, Eaten, ExtendKeeps DEF Role
  <2>4. CASE TokenAt(1) = ")" /\ Extend("bracket", 2)
    BY <2>1, <2>4, AtOperatorType, Eaten, ExtendKeeps DEF Role
  <2>5. CASE TokenAt(3) = ")" /\ Extend("bracket", 4)
    BY <2>1, <2>5, AtOperatorType, Eaten, ExtendKeeps DEF Role
  <2> QED
    BY <2>1, <2>2, <2>3, <2>4, <2>5
<1>4. CASE InfixOperator
  <2>1. /\ AtOperator /\ Current \in Infix
        /\ CallExpression(Calling("operand"), InfixPower(Current), offset + 1)
    BY <1>4 DEF InfixOperator, Binds
  <2>2. offset + 1 \in Nat /\ offset < offset + 1 /\ offset + 1 < Len(ts)
    BY <2>1, Eaten DEF Infix
  <2> QED
    BY <2>1, <2>2, AtOperatorType, HandlerKeeps, Powers DEF Handler
<1>5. CASE OpenAfter
  <2>1. AtOperator
    BY <1>5 DEF OpenAfter, Binds
  <2>2. PICK h \in {"params", "index"}, n \in {1, 3} :
          /\ \/ Current \in {"(", "["} /\ n = 1
             \/ TokenAt(2) = "(" /\ n = 3
          /\ CallExpression(Calling(h), 0, offset + n)
    BY <1>5 DEF OpenAfter
  <2>3. offset + n \in Nat /\ offset < offset + n /\ offset + n < Len(ts)
    BY <2>2, Eaten
  <2> QED
    BY <2>1, <2>2, <2>3, AtOperatorType, HandlerKeeps DEF Handler
<1> QED
  BY <1>1, <1>2, <1>3, <1>4, <1>5

LEMMA ResumeStep ==
  ASSUME IInv, ExpressionResumes
  PROVE  IInv'
<1>1. /\ Running /\ Top.at = "expression" /\ result # Nothing
      /\ IF result # Failure THEN Continue([Top EXCEPT !.left = result], 0)
         ELSE Return(Failure, IF Top.left = Nothing THEN offset ELSE Top.mark)
  BY DEF ExpressionResumes, Returned
<1>2. /\ Top \in Call /\ Top.mark \in Nat /\ Top.mark <= offset
      /\ offset \in Nat /\ offset < Len(ts) /\ Len(ts) \in Nat /\ Shallow(calls)
  BY <1>1, TopType DEF TopOK, IInv, Running, Stuck, AtOperand
<1>3. CASE result # Failure
  <2> DEFINE c == [Top EXCEPT !.left = result]
  <2>1. result \in Tree
    BY <1>1, <1>3 DEF IInv, TypeOK
  <2>2. result.from = Start(Top) /\ result.to = offset
    BY <1>1, <2>1, TopType DEF TopOK, IInv
  <2>3. c \in Call /\ c.at = "expression" /\ c.mark = Top.mark /\ c.left = result
    BY <1>1, <1>2, <2>1, LeftType
  <2>4. Continue(c, 0)
    BY <1>1, <1>3
  <2>5. offset + 0 = offset
    BY <1>2
  <2> HIDE DEF c
  <2> QED
    BY <1>1, <1>2, <2>1, <2>2, <2>3, <2>4, <2>5, ContinueKeeps
<1>4. CASE result = Failure
  <2>1. PICK off \in {offset, Top.mark} : Return(Failure, off)
    BY <1>1, <1>4
  <2>2. off \in Nat /\ Top.mark <= off /\ off < Len(ts)
    BY <1>2
  <2> QED
    BY <1>1, <2>1, <2>2, HandlerFails
<1> QED
  BY <1>3, <1>4

\* What a handler knows when its callee has returned.
LEMMA ReturnedType ==
  ASSUME IInv, NEW h \in Handler \ {"expression"}, Returned(h)
  PROVE  /\ Running /\ Top.at # "expression" /\ result # Nothing
         /\ Top \in Call /\ Top.mark \in Nat /\ Top.mark <= offset
         /\ Top.mark + 1 < Len(ts)
         /\ offset \in Nat /\ offset < Len(ts) /\ Len(ts) \in Nat
         /\ result # Failure => result \in Tree /\ result.nodes \in SUBSET Node
<1>1. Running /\ Top.at # "expression" /\ result # Nothing
  BY DEF Returned
<1>2. /\ Top \in Call /\ Top.mark \in Nat /\ Top.mark <= offset
      /\ Top.mark + 1 < Len(ts)
      /\ offset \in Nat /\ offset < Len(ts) /\ Len(ts) \in Nat
  BY <1>1, TopType DEF TopOK, Frame
<1>3. result # Failure => result \in Tree
  BY <1>1 DEF IInv, TypeOK
<1>4. result \in Tree => result.nodes \in SUBSET Node
  BY DEF Tree
<1> QED
  BY <1>1, <1>2, <1>3, <1>4

LEMMA ClosesKeeps ==
  ASSUME IInv, NEW h \in Handler \ {"expression"}, Returned(h), result # Failure,
         NEW bracket \in {")", "]"}, Closes(bracket)
  PROVE  IInv'
<1>1. CASE Current = bracket
  <2>1. /\ Return(Made(Top, "bracket", result.nodes, offset + 1), offset + 1)
        /\ offset <= offset + 1 /\ offset + 1 < Len(ts) /\ offset + 1 \in Nat
    BY <1>1, Eaten DEF Closes
  <2> QED
    BY <2>1, ReturnedType, HandlerReturns DEF Role
<1>2. CASE Current # bracket
  <2>1. Return(Failure, offset)
    BY <1>2 DEF Closes
  <2> QED
    BY <2>1, ReturnedType, HandlerFails
<1> QED
  BY <1>1, <1>2

\* Handlers of one operand.
LEMMA HandlerStep ==
  ASSUME IInv, OperandParsed \/ GroupedOrTuple \/ Grouped \/ Index \/ ArrayCount
  PROVE  IInv'
<1>1. CASE OperandParsed
  <2>1. Returned("operand")
    BY <1>1 DEF OperandParsed
  <2>2. \/ /\ result # Failure
           /\ \/ Return(Made(Top, "prefix", result.nodes, offset), offset)
              \/ Return(Made(Top, "infix", result.nodes, offset), offset)
        \/ End("exited") \/ Return(Failure, offset)
    BY <1>1 DEF OperandParsed
  <2>3. CASE result # Failure /\ Return(Made(Top, "prefix", result.nodes, offset), offset)
    BY <2>1, <2>3, ReturnedType, HandlerReturns DEF Role, Handler
  <2>4. CASE result # Failure /\ Return(Made(Top, "infix", result.nodes, offset), offset)
    BY <2>1, <2>4, ReturnedType, HandlerReturns DEF Role, Handler
  <2>5. CASE End("exited")
    BY <2>5, EndKeeps DEF Ending
  <2>6. CASE Return(Failure, offset)
    BY <2>1, <2>6, ReturnedType, HandlerFails DEF Handler
  <2> QED
    BY <2>2, <2>3, <2>4, <2>5, <2>6
<1>2. CASE GroupedOrTuple
  <2>1. Returned("probe")
    BY <1>2 DEF GroupedOrTuple
  <2>2. CASE result = Failure
    BY <1>2, <2>1, <2>2, ReturnedType, HandlerFails DEF GroupedOrTuple, Handler
  <2>3. CASE result # Failure
    <3>1. PICK h \in {"grouped", "tuple"} :
            CallExpression(Append(Below, [Top EXCEPT !.at = h]), 0, Top.mark + 1)
      BY <1>2, <2>3 DEF GroupedOrTuple
    <3> DEFINE c == [Top EXCEPT !.at = h]
    <3>2. c \in Call /\ c.at # "expression" /\ c.mark = Top.mark /\ c.left = Top.left
      BY <2>1, ReturnedType DEF Call, Handler
    <3>3. CallExpression(Append(Below, c), 0, Top.mark + 1)
      BY <3>1
    <3>4. Top.mark + 1 \in Nat /\ Top.mark < Top.mark + 1 /\ Top.mark + 1 < Len(ts)
      BY <2>1, ReturnedType DEF Handler
    <3> HIDE DEF c
    <3> QED
      BY <2>1, <3>2, <3>3, <3>4, ReturnedType, AgainKeeps DEF Handler
  <2> QED
    BY <2>2, <2>3
<1>3. CASE Grouped \/ Index \/ ArrayCount
  <2>1. PICK h \in {"grouped", "index", "count"}, bracket \in {")", "]"} :
          /\ Returned(h)
          /\ \/ End("exited")
             \/ result = Failure /\ Return(Failure, offset)
             \/ result # Failure /\ Closes(bracket)
    BY <1>3 DEF Grouped, Index, ArrayCount
  <2>2. h \in Handler \ {"expression"}
    BY DEF Handler
  <2>3. CASE End("exited")
    BY <2>3, EndKeeps DEF Ending
  <2>4. CASE Return(Failure, offset)
    BY <2>1, <2>2, <2>4, ReturnedType, HandlerFails
  <2>5. CASE result # Failure /\ Closes(bracket)
    BY <2>1, <2>2, <2>5, ClosesKeeps
  <2> QED
    BY <2>1, <2>3, <2>4, <2>5
<1> QED
  BY <1>1, <1>2, <1>3

\* A handler that goes on as c, with other elements or in another loop.
SameHandler(c) ==
  /\ c \in Call /\ c.at # "expression" /\ c.mark = Top.mark /\ c.left = Top.left

LEMMA CollectedType ==
  ASSUME Top \in Call, Top.at # "expression",
         NEW nodes \in SUBSET Node, NEW h \in Handler \ {"expression"}
  PROVE  /\ SameHandler([Top EXCEPT !.nodes = @ \cup nodes])
         /\ SameHandler([[Top EXCEPT !.nodes = @ \cup nodes] EXCEPT !.at = h])
         /\ SameHandler([Top EXCEPT !.at = h])
<1> DEFINE c == [Top EXCEPT !.nodes = Top.nodes \cup nodes]
<1>1. Top.nodes \cup nodes \in SUBSET Node
  BY DEF Call
<1>2. SameHandler(c)
  BY <1>1 DEF SameHandler, Call
<1>3. SameHandler([c EXCEPT !.at = h])
  <2> HIDE DEF c
  <2> QED
    BY <1>2 DEF SameHandler, Call
<1>4. SameHandler([Top EXCEPT !.at = h])
  BY DEF SameHandler, Call
<1> QED
  BY <1>2, <1>3, <1>4

\* One more element.
LEMMA AnotherKeeps ==
  ASSUME IInv, NEW h \in Handler \ {"expression"}, Returned(h),
         Current \in {",", ";"}, NEW c, SameHandler(c), Another(c)
  PROVE  IInv'
<1>1. Running /\ Top.at # "expression" /\ result # Nothing
  BY ReturnedType
<1>2. offset + 1 < Len(ts)
  BY Eaten
<1>3. offset + 1 \in Nat /\ Top.mark < offset + 1
  <2>1. Top.mark \in Nat /\ Top.mark <= offset /\ offset \in Nat
    BY ReturnedType
  <2> QED
    BY <2>1, Later
<1>4. /\ c \in Call /\ c.at # "expression" /\ c.mark = Top.mark /\ c.left = Top.left
      /\ CallExpression(Append(Below, c), 0, offset + 1)
  BY DEF SameHandler, Another
<1> QED
  BY <1>1, <1>2, <1>3, <1>4, AgainKeeps

LEMMA TrailingCommaKeeps ==
  ASSUME IInv, NEW h \in Handler \ {"expression"}, Returned(h), result # Failure,
         TokenAt(1) \in {")", "]"}, TrailingComma
  PROVE  IInv'
<1>1. /\ Return(Made(Top, "bracket", result.nodes, offset + 2), offset + 2)
      /\ offset <= offset + 2 /\ offset + 2 < Len(ts) /\ offset + 2 \in Nat
  BY Eaten DEF TrailingComma
<1> QED
  BY <1>1, ReturnedType, HandlerReturns DEF Role

LEMMA ArrayListKeeps ==
  ASSUME IInv, NEW h \in Handler \ {"expression"}, Returned(h),
         NEW c, SameHandler(c), ArrayList(c)
  PROVE  IInv'
<1>1. Start(c) = Start(Top) /\ c \in Call /\ Running /\ result # Nothing
  BY ReturnedType DEF SameHandler, Start
<1>2. \/ End("exited") \/ End("hung")
      \/ /\ TokenAt(1) = "]"
         /\ Return(Made(c, "bracket", {}, offset + 2), offset + 2)
      \/ /\ Current = "]"
         /\ Return(Made(c, "bracket", {}, offset + 1), offset + 1)
      \/ Current = "," /\ Another(c)
  BY DEF ArrayList
<1>3. CASE End("exited") \/ End("hung")
  BY <1>3, EndKeeps DEF Ending
<1>4. CASE /\ TokenAt(1) = "]"
           /\ Return(Made(c, "bracket", {}, offset + 2), offset + 2)
  <2>1. offset <= offset + 2 /\ offset + 2 < Len(ts) /\ offset + 2 \in Nat
    BY <1>4, Eaten
  <2> QED
    BY <1>1, <1>4, <2>1, HandlerReturns DEF Role
<1>5. CASE /\ Current = "]"
           /\ Return(Made(c, "bracket", {}, offset + 1), offset + 1)
  <2>1. offset <= offset + 1 /\ offset + 1 < Len(ts) /\ offset + 1 \in Nat
    BY <1>5, Eaten
  <2> QED
    BY <1>1, <1>5, <2>1, HandlerReturns DEF Role
<1>6. CASE Current = "," /\ Another(c)
  BY <1>6, AnotherKeeps
<1> QED
  BY <1>2, <1>3, <1>4, <1>5, <1>6

LEMMA ElementType ==
  ASSUME IInv, NEW h \in Handler \ {"expression"}, Returned(h), result # Failure
  PROVE  /\ SameHandler(Collected) /\ SameHandler(ListBegins)
         /\ SameHandler([Collected EXCEPT !.at = "count"])
<1>1. Top \in Call /\ Top.at # "expression" /\ result.nodes \in SUBSET Node
  BY ReturnedType
<1>2. {"list", "count"} \subseteq Handler \ {"expression"}
  BY DEF Handler
<1> QED
  BY <1>1, <1>2, CollectedType DEF Collected, ListBegins

\* Tuples.
LEMMA TupleStep ==
  ASSUME IInv, Tuple
  PROVE  IInv'
<1>1. Returned("tuple") /\ "tuple" \in Handler \ {"expression"}
  BY DEF Tuple, Handler
<1>2. /\ offset \in Nat /\ Len(ts) \in Nat /\ offset < Len(ts)
      /\ Running /\ Top.mark \in Nat /\ Top.mark <= offset /\ Top \in Call
      /\ Top.at # "expression" /\ result # Nothing
      /\ result # Failure => result.nodes \in SUBSET Node
  BY <1>1, ReturnedType
<1>3. \/ End("exited")
      \/ result # Failure /\ Current = "," /\ Another(Collected)
      \/ /\ result # Failure /\ Current = ","
         /\ Return(Made(Top, "tuple", result.nodes, offset + 1), offset + 1)
      \/ Current = "," /\ Return(Failure, offset + 1)
      \/ /\ result # Failure
         /\ Return(Made(Top, "tuple", result.nodes, offset), offset)
      \/ Return(Failure, offset)
  BY DEF Tuple
<1>4. CASE End("exited")
  BY <1>4, EndKeeps DEF Ending
<1>5. CASE result # Failure /\ Current = "," /\ Another(Collected)
  BY <1>1, <1>5, ElementType, AnotherKeeps
<1>6. CASE /\ result # Failure /\ Current = ","
           /\ Return(Made(Top, "tuple", result.nodes, offset + 1), offset + 1)
  <2>1. Current = ","
    BY <1>6
  <2>2. offset + 1 < Len(ts)
    BY <2>1, Eaten
  <2>3. offset <= offset + 1 /\ offset + 1 \in Nat
    BY <1>2, Later
  <2> QED
    BY <1>2, <1>6, <2>2, <2>3, HandlerReturns DEF Role
<1>7. CASE Current = "," /\ Return(Failure, offset + 1)
  <2>1. Current = ","
    BY <1>7
  <2>2. offset + 1 < Len(ts)
    BY <2>1, Eaten
  <2>3. Top.mark <= offset + 1 /\ offset + 1 \in Nat
    BY <1>2, Later
  <2> QED
    BY <1>2, <1>7, <2>2, <2>3, HandlerFails
<1>8. CASE /\ result # Failure
           /\ Return(Made(Top, "tuple", result.nodes, offset), offset)
  BY <1>2, <1>8, HandlerReturns DEF Role
<1>9. CASE Return(Failure, offset)
  BY <1>2, <1>9, HandlerFails
<1> QED
  BY <1>3, <1>4, <1>5, <1>6, <1>7, <1>8, <1>9

\* Parameters and arrays.
LEMMA ListStep ==
  ASSUME IInv, Params \/ ArrayFirst \/ ArrayNext
  PROVE  IInv'
<1>1. PICK h \in {"params", "first", "list"} :
        /\ Returned(h)
        /\ \/ End("exited")
           \/ /\ result # Failure
              /\ \/ Closes(")")
                 \/ TokenAt(1) \in {")", "]"} /\ TrailingComma
                 \/ Current \in {",", ";"} /\ Another(Collected)
                 \/ Current = ";" /\ Another([Collected EXCEPT !.at = "count"])
                 \/ ArrayList(ListBegins) \/ ArrayList(Collected)
  BY DEF Params, ArrayFirst, ArrayNext
<1>2. h \in Handler \ {"expression"}
  BY DEF Handler
<1>3. CASE End("exited")
  BY <1>3, EndKeeps DEF Ending
<1>4. CASE result # Failure /\ Closes(")")
  BY <1>1, <1>2, <1>4, ClosesKeeps
<1>5. CASE result # Failure /\ TokenAt(1) \in {")", "]"} /\ TrailingComma
  BY <1>1, <1>2, <1>5, TrailingCommaKeeps
<1>6. CASE result # Failure /\ Current \in {",", ";"} /\ Another(Collected)
  BY <1>1, <1>2, <1>6, ElementType, AnotherKeeps
<1>7. CASE /\ result # Failure /\ Current = ";"
           /\ Another([Collected EXCEPT !.at = "count"])
  BY <1>1, <1>2, <1>7, ElementType, AnotherKeeps
<1>8. CASE result # Failure /\ (ArrayList(ListBegins) \/ ArrayList(Collected))
  BY <1>1, <1>2, <1>8, ElementType, ArrayListKeeps
<1> QED
  BY <1>1, <1>3, <1>4, <1>5, <1>6, <1>7, <1>8

-----------------------------------------------------------------------------

LEMMA InitKeeps == Init => IInv
<1> SUFFICES ASSUME Init PROVE IInv
  OBVIOUS
<1> DEFINE e == Expression(0, 0)
<1>1. PICK text \in Texts : ts = Append(text, "eof")
  BY DEF Init
<1> DEFINE n == Len(text)
<1>2. text \in Seq(KnownTokens) /\ n <= MaxTokens
  BY ExpressionsAssumption
<1>3. n \in Nat /\ \A i \in 1..n : text[i] \in KnownTokens
  BY <1>2, LenProperties, ElementOfSeq
<1>4. /\ ts \in Seq(KnownTokens \cup {"eof"}) /\ Len(ts) = n + 1
      /\ \A i \in 1..n : ts[i] = text[i] /\ ts[i] \in KnownTokens
      /\ ts[n + 1] = "eof"
  BY <1>1, <1>2, <1>3
<1> HIDE DEF n
<1>5. n \in Nat /\ n <= MaxTokens
  BY <1>2, <1>3
<1>6. "eof" \notin KnownTokens
  BY DEF KnownTokens
<1>7. Text
  BY <1>4, <1>5, <1>6, ExpressionsAssumption DEF Text
<1>8. /\ calls = <<e>> /\ offset = 0 /\ result = Nothing /\ outcome = "running"
  BY DEF Init
<1>9. e \in Call /\ e.at = "expression" /\ e.mark = 0 /\ e.left = Nothing
  BY ExpressionType
<1> HIDE DEF e
<1>10. calls \in Seq(Call) /\ Len(calls) = 1 /\ calls # <<>> /\ calls[1] = e /\ Top = e
  BY <1>8, <1>9 DEF Top
<1>11. Start(e) = 1 /\ DepthBound(e) = 1
  BY <1>9 DEF Start, DepthBound
<1>12. WellStacked(calls, Len(ts))
  BY <1>4, <1>5, <1>9, <1>10, <1>11 DEF WellStacked, Frame, Root
<1>13. TopOK(Top)
  BY <1>8, <1>9, <1>10, NoTree DEF TopOK, LeftEnds
<1>14. Shallow(calls)
  BY <1>10, <1>11 DEF Shallow
<1>15. TypeOK
  BY <1>4, <1>5, <1>8, <1>10 DEF TypeOK, Ending
<1>16. result \notin Tree /\ DeepOnlyAtUneaten
  BY <1>8, NoTree DEF DeepOnlyAtUneaten
<1> QED
  BY <1>7, <1>10, <1>12, <1>13, <1>14, <1>15, <1>16 DEF IInv

LEMMA StutterKeeps ==
  ASSUME IInv, UNCHANGED vars
  PROVE  IInv'
<1>1. /\ ts' = ts /\ offset' = offset /\ calls' = calls /\ result' = result
      /\ outcome' = outcome
  BY DEF vars
<1>2. TypeOK' /\ Text' /\ WellStacked(calls, Len(ts))'
  BY <1>1 DEF IInv, TypeOK, Text, WellStacked
<1>3. (IF calls = <<>> THEN Done ELSE TopOK(Top))'
  BY <1>1 DEF IInv, Done, TopOK, Top
<1>4. (result \in Tree => result.to = offset)'
  BY <1>1 DEF IInv
<1>5. Current' = Current /\ (AtOperand' <=> AtOperand)
  BY <1>1 DEF Current, TokenAt, AtOperand, Running, Top
<1>6. (outcome = "running" => Stuck \/ Shallow(calls))'
  BY <1>1, <1>5 DEF IInv, Stuck, Shallow
<1>7. DeepOnlyAtUneaten'
  BY <1>1, <1>5 DEF IInv, DeepOnlyAtUneaten
<1> QED
  BY <1>2, <1>3, <1>4, <1>6, <1>7 DEF IInv

LEMMA NextKeeps ==
  ASSUME IInv, Next
  PROVE  IInv'
BY OperandStep, BorrowStep, UneatenStep, OperatorStep, ResumeStep, HandlerStep,
   TupleStep, ListStep DEF Next

LEMMA Invariance == Spec => []IInv
<1>1. IInv /\ [Next]_vars => IInv'
  BY NextKeeps, StutterKeeps
<1> QED
  BY InitKeeps, <1>1, PTL DEF Spec

\* The variables have their types in every reachable state: whatever text is
\* parsed, the parser never eats the end of file nor reads a token beyond it.
THEOREM TypeCorrect == Spec => []TypeOK
<1>1. IInv => TypeOK
  BY DEF IInv
<1> QED
  BY Invariance, <1>1, PTL

\* A tree spans the tokens eaten for it: what a handler takes as its left
\* operand ends at its own check point, also after tokens were parsed twice or a
\* check point was restored, and a tree of the whole text starts at its start.
THEOREM TreesSpanWhatWasEaten == Spec => []SpansWhatWasEaten
<1>1. IInv => SpansWhatWasEaten
  <2> SUFFICES ASSUME IInv PROVE SpansWhatWasEaten
    OBVIOUS
  <2>1. result \in Tree => result.to = offset
    BY DEF IInv
  <2>2. calls = <<>> /\ result # Failure => result.from = 1
    BY DEF IInv, Done
  <2>3. calls \in Seq(Call)
    BY DEF IInv, TypeOK
  <2>4. ASSUME NEW i \in 1..Len(calls), calls[i].left # Nothing
        PROVE  calls[i].left.to = IF i = Len(calls) /\ result = Nothing THEN offset
                                  ELSE calls[i].mark
    <3>1. Len(calls) \in Nat /\ calls # <<>>
      BY <2>3, EmptySeq, LenProperties
    <3>2. CASE i = Len(calls)
      <4>1. TopOK(calls[i])
        BY <3>1, <3>2 DEF IInv, Top
      <4> QED
        BY <2>4, <3>2, <4>1 DEF TopOK, LeftEnds
    <3>3. CASE i < Len(calls)
      <4>1. i + 1 \in 1..Len(calls) /\ i + 1 > 1 /\ (i + 1) - 1 = i
        BY <3>1, <3>3
      <4>2. Linked(calls[i], calls[i + 1])
        BY <4>1 DEF IInv, WellStacked
      <4> QED
        BY <2>4, <3>3, <4>2 DEF Linked, LeftEnds
    <3> QED
      BY <3>1, <3>2, <3>3
  <2> QED
    BY <2>1, <2>2, <2>4 DEF SpansWhatWasEaten
<1> QED
  BY Invariance, <1>1, PTL

\* With a stack of more than twice as many activations as the text has tokens,
\* and two, the recursion ends the stack only at - and &&, which are not eaten.
THEOREM RecursionBounded == Spec => []DeepOnlyAtUneaten
<1>1. IInv => DeepOnlyAtUneaten
  BY DEF IInv
<1> QED
  BY Invariance, <1>1, PTL


-----------------------------------------------------------------------------
(* Binding powers                                                          *)
(*                                                                         *)
(* The text and the left binding powers of its positions are parameters,   *)
(* w and L, so that what is shown of them holds before and after a step.   *)

Lefts == [i \in Nat |-> LeftBindingPower(i)]
Right(w, n) == IF n.role = "prefix" THEN PrefixPower(w[n.at]) ELSE InfixPower(w[n.at])

\* BindingPowersDecide, of a set of nodes.
Decided(w, L, S) ==
  \A m, n \in S :
    /\ InRightOperand(m, n) => L[m.at] > Right(w, n)
    /\ InLeftOperand(m, n) => Right(w, m) >= L[n.at]

InSpan(n) == n.from <= n.at /\ n.at <= n.to
Spanned(t) ==
  /\ t.from <= t.to
  /\ \A n \in t.nodes : t.from <= n.from /\ InSpan(n) /\ n.to <= t.to

\* The operators at the left edge of a tree bind more tightly than p; those at
\* its right edge were parsed with at least the power of what follows.
LeftEdge(L, t, p) == \A m \in t.nodes : HasLeft(m) /\ m.from = t.from => L[m.at] > p
RightEdge(w, L, t) ==
  \A m \in t.nodes : TakesRight(m) /\ m.to = t.to => Right(w, m) >= L[t.to + 1]
Whole(w, L, t, p) ==
  Spanned(t) /\ Decided(w, L, t.nodes) /\ LeftEdge(L, t, p) /\ RightEdge(w, L, t)

\* The power a handler passes on; a handler that has not eaten its operator.
Given(w, c) ==
  IF c.at # "operand" THEN 0
  ELSE IF c.left = Nothing THEN PrefixPower(w[c.mark + 1]) ELSE InfixPower(w[c.mark + 1])
Unfed(w, c) == c.at = "operand" /\ c.left = Nothing /\ w[c.mark + 1] \in {"-", "&&"}

Behind(S, i) == \A m \in S : m.to + 1 < i

\* The elements a handler has come after its own token.
Elements(w, L, c) ==
  /\ Decided(w, L, c.nodes)
  /\ \A n \in c.nodes : c.mark + 1 < n.from /\ InSpan(n)
  /\ c.at \in {"operand", "probe"} => c.nodes = {}

\* An activation; one and its callee; one and the tree t its callee has given it.
Framed(w, L, c) ==
  IF c.at = "expression"
  THEN c.nodes = {} /\ (c.left # Nothing => Whole(w, L, c.left, c.power))
  ELSE Elements(w, L, c)
Bound(w, L, c, d) ==
  IF c.at = "expression"
  THEN d.left = c.left /\ d.mark = c.mark /\ (c.left # Nothing => L[c.mark + 1] > c.power)
  ELSE /\ d.power = Given(w, c) /\ Behind(c.nodes, Start(d))
       /\ Unfed(w, c) \/ c.mark + 1 < Start(d)
Fits(w, L, c, t, off) ==
  IF c.at = "expression" THEN Whole(w, L, t, c.power)
  ELSE /\ Whole(w, L, t, Given(w, c)) /\ L[off + 1] <= Given(w, c)
       /\ Behind(c.nodes, t.from)
       /\ Unfed(w, c) \/ c.mark + 1 < t.from

Woven(w, L, s) ==
  /\ \A i \in 1..Len(s) : Framed(w, L, s[i])
  /\ \A i \in 1..Len(s) : i > 1 => Bound(w, L, s[i - 1], s[i])
NoneUnfed(w, s) == \A i \in 1..Len(s) : ~Unfed(w, s[i])

BInv ==
  /\ Woven(ts, Lefts, calls)
  /\ result \in Tree => IF calls = <<>> THEN Decided(ts, Lefts, result.nodes)
                        ELSE Fits(ts, Lefts, Top, result, offset)
  /\ outcome = "running" => Stuck \/ NoneUnfed(ts, calls)

LEMMA LeftsType == Lefts \in [Nat -> Nat]
<1>1. ASSUME NEW i \in Nat
      PROVE  LeftBindingPower(i) \in Nat
  BY DEF LeftBindingPower
<1> QED
  BY <1>1 DEF Lefts

LEMMA RightType ==
  ASSUME NEW w, NEW n
  PROVE  Right(w, n) \in Nat
BY Powers DEF Right

LEMMA GivenType ==
  ASSUME NEW w, NEW c
  PROVE  Given(w, c) \in Nat
BY Powers DEF Given

LEMMA LeftsStay ==
  ASSUME ts' = ts
  PROVE  Lefts' = Lefts
BY DEF Lefts, LeftBindingPower

LEMMA DecidedHere ==
  ASSUME NEW S \in SUBSET Node, Decided(ts, Lefts, S), NEW m \in S, NEW n \in S
  PROVE  /\ InRightOperand(m, n) => LeftBindingPower(m.at) > OperandPower(n)
         /\ InLeftOperand(m, n) => OperandPower(m) >= LeftBindingPower(n.at)
<1>1. m.at \in Nat /\ n.at \in Nat
  BY DEF Node
<1>2. Lefts[m.at] = LeftBindingPower(m.at) /\ Lefts[n.at] = LeftBindingPower(n.at)
  <2> HIDE DEF Lefts
  <2>1. \A i \in Nat : Lefts[i] = LeftBindingPower(i)
    BY DEF Lefts
  <2> QED
    BY <1>1, <2>1
<1>3. Right(ts, m) = OperandPower(m) /\ Right(ts, n) = OperandPower(n)
  BY DEF Right, OperandPower
<1>4. /\ InRightOperand(m, n) => Lefts[m.at] > Right(ts, n)
      /\ InLeftOperand(m, n) => Right(ts, m) >= Lefts[n.at]
  BY DEF Decided
<1> QED
  BY <1>2, <1>3, <1>4, Zenon

LEMMA NodeType ==
  ASSUME NEW S \in SUBSET Node, NEW n \in S
  PROVE  n.at \in Nat /\ n.from \in Nat /\ n.to \in Nat /\ n.role \in Role
BY DEF Node

\* Trees side by side, with a token between them.
LEMMA JoinDecided ==
  ASSUME NEW w, NEW L, NEW S \in SUBSET Node, NEW T \in SUBSET Node, NEW k \in Nat,
         Decided(w, L, S), Decided(w, L, T), \A n \in S \cup T : InSpan(n),
         Behind(S, k), \A n \in T : k <= n.from
  PROVE  Decided(w, L, S \cup T)
<1> SUFFICES ASSUME NEW m \in S \cup T, NEW n \in S \cup T
             PROVE  /\ InRightOperand(m, n) => L[m.at] > Right(w, n)
                    /\ InLeftOperand(m, n) => Right(w, m) >= L[n.at]
  BY DEF Decided
<1>1. CASE m \in S /\ n \in S
  BY <1>1 DEF Decided
<1>2. CASE m \in T /\ n \in T
  BY <1>2 DEF Decided
<1>3. ASSUME NEW a \in S, NEW b \in T
      PROVE  /\ ~InRightOperand(a, b) /\ ~InLeftOperand(a, b)
             /\ ~InRightOperand(b, a) /\ ~InLeftOperand(b, a)
  <2>1. /\ a.at \in Nat /\ a.from \in Nat /\ a.to \in Nat
        /\ b.at \in Nat /\ b.from \in Nat /\ b.to \in Nat
    BY NodeType
  <2>2. /\ a.from <= a.at /\ a.at <= a.to /\ b.from <= b.at /\ b.at <= b.to
        /\ a.to + 1 < k /\ k <= b.from
    BY DEF InSpan, Behind
  <2>3. b.from # a.at + 1 /\ ~(b.to <= a.to) /\ a.from # b.at + 1 /\ ~(b.from <= a.from)
        /\ a.to # b.at - 1 /\ b.to # a.at - 1
    BY <2>1, <2>2
  <2> QED
    BY <2>3 DEF InRightOperand, InLeftOperand
<1> QED
  BY <1>1, <1>2, <1>3

\* An operator or a bracket between its left operand and what follows it.
LEMMA MadeNodes ==
  ASSUME NEW c \in Call, NEW role \in Role, NEW to \in Nat
  PROVE  \E n \in Node :
           /\ n.role = role /\ n.at = c.mark + 1 /\ n.from = Start(c) /\ n.to = to
           /\ Made(c, role, {}, to).nodes = c.left.nodes \cup c.nodes \cup {n}
           /\ Made(c, role, {}, to).from = Start(c) /\ Made(c, role, {}, to).to = to
<1> DEFINE n == [role |-> role, at |-> c.mark + 1, from |-> Start(c), to |-> to]
<1>1. /\ c.mark \in Nat /\ c.left \in Tree \cup {Nothing}
  BY DEF Call
<1>2. Start(c) \in Nat
  BY <1>1 DEF Start, Tree
<1>3. n \in Node
  BY <1>1, <1>2 DEF Node
<1>4. Made(c, role, {}, to) =
        [from |-> Start(c), to |-> to, nodes |-> c.left.nodes \cup c.nodes \cup {} \cup {n}]
  BY DEF Made, Start
<1> DEFINE all == c.left.nodes \cup c.nodes \cup {} \cup {n}
<1>5. all = c.left.nodes \cup c.nodes \cup {n}
  OBVIOUS
<1>6. n.role = role /\ n.at = c.mark + 1 /\ n.from = Start(c) /\ n.to = to
  OBVIOUS
<1> HIDE DEF n
<1>7. Made(c, role, {}, to).nodes = all
  <2> HIDE DEF all
  <2>1. Made(c, role, {}, to) = [from |-> Start(c), to |-> to, nodes |-> all]
    BY <1>4 DEF all
  <2> QED
    BY <2>1
<1>8. Made(c, role, {}, to).from = Start(c) /\ Made(c, role, {}, to).to = to
  BY <1>4
<1> QED
  BY <1>3, <1>5, <1>6, <1>7, <1>8

LEMMA MadeWhole ==
  ASSUME NEW w, NEW L \in [Nat -> Nat], NEW c \in Call, NEW role \in Role,
         NEW to \in Nat, NEW p \in Nat, c.mark + 1 <= to,
         c.left # Nothing =>
           Whole(w, L, c.left, p) /\ c.left.to = c.mark /\ L[c.mark + 1] > p,
         Decided(w, L, c.nodes),
         \A n \in c.nodes : c.mark + 1 < n.from /\ InSpan(n) /\ n.to <= to,
         \A n \in c.nodes : TakesRight(n) /\ n.to = to => Right(w, n) >= L[to + 1],
         NEW power \in Nat,
         role \in {"prefix", "infix"} =>
           /\ \A n \in Node : n.role = role /\ n.at = c.mark + 1 => Right(w, n) = power
           /\ power >= L[to + 1]
           /\ \A n \in c.nodes : HasLeft(n) /\ n.from = c.mark + 2 => L[n.at] > power
  PROVE  Whole(w, L, Made(c, role, {}, to), p)
<1> DEFINE t == Made(c, role, {}, to)
           left == c.left.nodes
           k == c.mark
<1>1. PICK o \in Node :
        /\ o.role = role /\ o.at = k + 1 /\ o.from = Start(c) /\ o.to = to
        /\ t.nodes = left \cup c.nodes \cup {o} /\ t.from = Start(c) /\ t.to = to
  BY MadeNodes
<1>2. /\ k \in Nat /\ c.left \in Tree \cup {Nothing} /\ c.nodes \in SUBSET Node
  BY DEF Call
<1>3. c.left = Nothing => left = {} /\ Start(c) = k + 1
  BY NoTree DEF Start
<1>4. c.left # Nothing => /\ left \in SUBSET Node /\ c.left.from = Start(c)
                          /\ c.left.from \in Nat
  BY <1>2 DEF Tree, Start
<1>5. left \in SUBSET Node /\ Start(c) \in Nat /\ Start(c) <= k + 1
  <2>1. c.left # Nothing => Start(c) <= k
    BY <1>4 DEF Whole, Spanned
  <2> QED
    BY <1>2, <1>3, <1>4, <2>1
<1>6. \A n \in left : Start(c) <= n.from /\ n.from <= n.at /\ n.at <= n.to /\ n.to <= k
  BY <1>3, <1>4 DEF Whole, Spanned, InSpan
<1>7. \A n \in c.nodes : k + 1 < n.from /\ n.from <= n.at /\ n.at <= n.to /\ n.to <= to
  BY DEF InSpan
<1>8. \A m, n \in left : /\ InRightOperand(m, n) => L[m.at] > Right(w, n)
                         /\ InLeftOperand(m, n) => Right(w, m) >= L[n.at]
  BY <1>3 DEF Whole, Decided
<1>9. \A m, n \in c.nodes : /\ InRightOperand(m, n) => L[m.at] > Right(w, n)
                            /\ InLeftOperand(m, n) => Right(w, m) >= L[n.at]
  BY DEF Decided
<1>10. \A m \in left : TakesRight(m) /\ m.to = k => Right(w, m) >= L[k + 1]
  BY <1>3 DEF Whole, RightEdge
<1>11. \A m \in left : HasLeft(m) /\ m.from = Start(c) => L[m.at] > p
  BY <1>3, <1>4 DEF Whole, LeftEdge
<1>12. HasLeft(o) => L[o.at] > p
  BY <1>1, <1>2, <1>3 DEF HasLeft
<1>13. TakesRight(o) =>
         /\ Right(w, o) = power /\ power >= L[to + 1]
         /\ \A n \in c.nodes : HasLeft(n) /\ n.from = k + 2 => L[n.at] > power
  BY <1>1 DEF TakesRight
<1>14. \A n \in c.nodes : TakesRight(n) /\ n.to = to => Right(w, n) >= L[to + 1]
  OBVIOUS
<1>15. /\ \A n \in left : n.at \in Nat /\ n.from \in Nat /\ n.to \in Nat
       /\ \A n \in c.nodes : n.at \in Nat /\ n.from \in Nat /\ n.to \in Nat
  BY <1>2, <1>5, NodeType
<1>16. k + 1 <= to /\ (c.left # Nothing => L[k + 1] > p)
  OBVIOUS
<1> DEFINE inner == c.nodes
<1> HIDE DEF t, left, k, inner
<1>17. t.nodes = left \cup inner \cup {o}
  BY <1>1 DEF inner
<1>18. Spanned(t)
  BY <1>1, <1>2, <1>5, <1>6, <1>7, <1>15, <1>16, <1>17 DEF Spanned, InSpan, inner
<1>19. LeftEdge(L, t, p)
  BY <1>1, <1>2, <1>5, <1>7, <1>11, <1>12, <1>15, <1>17 DEF LeftEdge, inner
<1>20. RightEdge(w, L, t)
  BY <1>1, <1>2, <1>6, <1>13, <1>14, <1>15, <1>16, <1>17 DEF RightEdge, inner
<1>21. ASSUME NEW m \in t.nodes, NEW n \in t.nodes
       PROVE  InRightOperand(m, n) => L[m.at] > Right(w, n)
  <2> SUFFICES ASSUME InRightOperand(m, n) PROVE L[m.at] > Right(w, n)
    OBVIOUS
  <2>1. TakesRight(n) /\ HasLeft(m) /\ m.from = n.at + 1 /\ m.to <= n.to
    BY DEF InRightOperand
  <2>2. CASE n \in left
    BY <1>1, <1>2, <1>5, <1>6, <1>7, <1>8, <1>15, <1>16, <1>17, <2>1, <2>2 DEF inner
  <2>3. CASE n \in inner
    BY <1>1, <1>2, <1>5, <1>6, <1>7, <1>9, <1>15, <1>16, <1>17, <2>1, <2>3 DEF inner
  <2>4. CASE n = o
    BY <1>1, <1>2, <1>5, <1>6, <1>13, <1>15, <1>16, <1>17, <2>1, <2>4 DEF inner
  <2> QED
    BY <1>17, <2>2, <2>3, <2>4
<1>22. ASSUME NEW m \in t.nodes, NEW n \in t.nodes
       PROVE  InLeftOperand(m, n) => Right(w, m) >= L[n.at]
  <2> SUFFICES ASSUME InLeftOperand(m, n) PROVE Right(w, m) >= L[n.at]
    OBVIOUS
  <2>1. HasLeft(n) /\ TakesRight(m) /\ m.to = n.at - 1 /\ m.from >= n.from
    BY DEF InLeftOperand
  <2>2. CASE n \in left
    BY <1>1, <1>2, <1>5, <1>6, <1>7, <1>8, <1>15, <1>16, <1>17, <2>1, <2>2 DEF inner
  <2>3. CASE n \in inner
    BY <1>1, <1>2, <1>5, <1>6, <1>7, <1>9, <1>15, <1>16, <1>17, <2>1, <2>3 DEF inner
  <2>4. CASE n = o
    BY <1>1, <1>2, <1>5, <1>7, <1>10, <1>15, <1>16, <1>17, <2>1, <2>4 DEF inner
  <2> QED
    BY <1>17, <2>2, <2>3, <2>4
<1>23. Decided(w, L, t.nodes)
  BY <1>21, <1>22 DEF Decided
<1> QED
  BY <1>18, <1>19, <1>20, <1>23 DEF Whole, t

-----------------------------------------------------------------------------
(* What the stack of activations keeps of the binding powers *)

LEMMA WovenPopped ==
  ASSUME NEW w, NEW L, NEW s \in Seq(Call), s # <<>>, Woven(w, L, s)
  PROVE  Woven(w, L, SubSeq(s, 1, Len(s) - 1))
BY FrontOf DEF Woven

LEMMA NonePopped ==
  ASSUME NEW w, NEW s \in Seq(Call), s # <<>>, NoneUnfed(w, s)
  PROVE  NoneUnfed(w, SubSeq(s, 1, Len(s) - 1))
BY FrontOf DEF NoneUnfed

LEMMA WovenPushed ==
  ASSUME NEW w, NEW L, NEW s \in Seq(Call), NEW c \in Call, Woven(w, L, s),
         Framed(w, L, c), s # <<>> => Bound(w, L, s[Len(s)], c)
  PROVE  Woven(w, L, Append(s, c))
<1>1. Len(s) = 0 <=> s = <<>>
  BY EmptySeq
<1> QED
  BY <1>1, BackOf DEF Woven

LEMMA NonePushed ==
  ASSUME NEW w, NEW s \in Seq(Call), NEW c \in Call, NoneUnfed(w, s), ~Unfed(w, c)
  PROVE  NoneUnfed(w, Append(s, c))
BY BackOf DEF NoneUnfed

\* The activation that called the innermost one.
LEMMA CallerOf ==
  ASSUME NEW w, NEW L, NEW n, NEW s, WellStacked(s, n), Woven(w, L, s), Len(s) > 1
  PROVE  /\ s[Len(s) - 1] \in Call /\ Framed(w, L, s[Len(s) - 1])
         /\ Bound(w, L, s[Len(s) - 1], s[Len(s)])
         /\ s[Len(s) - 1].at = "expression" <=> s[Len(s)].at # "expression"
<1>1. s \in Seq(Call)
  BY DEF WellStacked
<1>2. Len(s) \in Nat
  BY <1>1
<1>3. Len(s) \in 1..Len(s) /\ Len(s) - 1 \in 1..Len(s)
  BY <1>2
<1>4. Linked(s[Len(s) - 1], s[Len(s)])
  BY <1>3 DEF WellStacked
<1> QED
  BY <1>1, <1>3, <1>4, ElementOfSeq DEF Woven, Linked

LEMMA WovenReplaced ==
  ASSUME NEW w, NEW L, NEW n, NEW s, WellStacked(s, n), s # <<>>, Woven(w, L, s),
         NEW c \in Call, Framed(w, L, c),
         c.at = "expression" <=> s[Len(s)].at = "expression",
         IF c.at = "expression"
         THEN c.power = s[Len(s)].power /\ Start(c) = Start(s[Len(s)])
         ELSE c.left = s[Len(s)].left /\ c.mark = s[Len(s)].mark
  PROVE  Woven(w, L, Append(SubSeq(s, 1, Len(s) - 1), c))
<1> DEFINE front == SubSeq(s, 1, Len(s) - 1)
           last == s[Len(s)]
           prev == s[Len(s) - 1]
<1>1. s \in Seq(Call) /\ Len(s) \in Nat /\ Len(s) >= 1
  BY FrontOf DEF WellStacked
<1>2. /\ front \in Seq(Call) /\ Len(front) = Len(s) - 1
      /\ \A i \in 1..(Len(s) - 1) : front[i] = s[i]
  BY <1>1, FrontOf
<1>3. Woven(w, L, front)
  BY <1>1, WovenPopped
<1>4. ASSUME front # <<>>
      PROVE  Bound(w, L, front[Len(front)], c)
  <2>1. Len(s) > 1
    BY <1>1, <1>2, <1>4, EmptySeq
  <2>2. front[Len(front)] = prev
    BY <1>1, <1>2, <2>1
  <2>3. /\ Bound(w, L, prev, last)
        /\ prev.at = "expression" <=> last.at # "expression"
    BY <2>1, CallerOf
  <2>4. /\ c.at = "expression" <=> last.at = "expression"
        /\ IF c.at = "expression" THEN c.power = last.power /\ Start(c) = Start(last)
           ELSE c.left = last.left /\ c.mark = last.mark
    OBVIOUS
  <2> HIDE DEF prev, last
  <2>5. Bound(w, L, prev, c)
    BY <2>3, <2>4 DEF Bound
  <2> QED
    BY <2>2, <2>5
<1> HIDE DEF front
<1>5. Woven(w, L, Append(front, c))
  BY <1>2, <1>3, <1>4, WovenPushed
<1> QED
  BY <1>5 DEF front

LEMMA NoneReplaced ==
  ASSUME NEW w, NEW s \in Seq(Call), s # <<>>, NEW c \in Call,
         NoneUnfed(w, s), ~Unfed(w, c)
  PROVE  NoneUnfed(w, Append(SubSeq(s, 1, Len(s) - 1), c))
<1>1. SubSeq(s, 1, Len(s) - 1) \in Seq(Call)
  BY FrontOf
<1>2. NoneUnfed(w, SubSeq(s, 1, Len(s) - 1))
  BY NonePopped
<1> QED
  BY <1>1, <1>2, NonePushed

\* What holds of the innermost activation.
LEMMA TopWoven ==
  ASSUME IInv, BInv, Running
  PROVE  /\ Framed(ts, Lefts, Top)
         /\ result \in Tree => Fits(ts, Lefts, Top, result, offset)
         /\ ~Stuck => NoneUnfed(ts, calls) /\ ~Unfed(ts, Top)
<1>1. /\ calls \in Seq(Call) /\ calls # <<>> /\ Top = calls[Len(calls)]
      /\ Len(calls) \in Nat /\ Len(calls) >= 1
  BY TopType
<1>2. Len(calls) \in 1..Len(calls)
  BY <1>1
<1> QED
  BY <1>1, <1>2 DEF BInv, Woven, NoneUnfed, Running

LEMMA EndWoven ==
  ASSUME BInv, NEW how \in Ending \ {"running"}, End(how)
  PROVE  BInv'
<1>1. ts' = ts /\ offset' = offset /\ calls' = calls /\ result' = result
      /\ outcome' # "running"
  BY DEF End
<1>2. Lefts' = Lefts
  BY <1>1, LeftsStay
<1>3. Woven(ts, Lefts, calls)'
  BY <1>1, <1>2 DEF BInv
<1>4. Top' = Top
  BY <1>1 DEF Top
<1>5. (result \in Tree => IF calls = <<>> THEN Decided(ts, Lefts, result.nodes)
                          ELSE Fits(ts, Lefts, Top, result, offset))'
  BY <1>1, <1>2, <1>4 DEF BInv
<1> QED
  BY <1>1, <1>3, <1>5 DEF BInv

\* parseExpression goes on with a tree.
LEMMA ContinueWoven ==
  ASSUME IInv, BInv, Running, ~Stuck, Top.at = "expression",
         NEW c \in Call, NEW n \in Nat, c.at = "expression", c.nodes = {},
         c.power = Top.power, Start(c) = Start(Top),
         Whole(ts, Lefts, c.left, Top.power), Continue(c, n)
  PROVE  BInv'
<1>1. /\ calls \in Seq(Call) /\ calls # <<>>
      /\ Top = calls[Len(calls)] /\ Below = SubSeq(calls, 1, Len(calls) - 1)
  BY TopType
<1>2. /\ calls' = Append(Below, c) /\ result' = Nothing /\ ts' = ts
  BY DEF Continue
<1>3. Lefts' = Lefts
  BY <1>2, LeftsStay
<1>4. Framed(ts, Lefts, c) /\ ~Unfed(ts, c)
  BY DEF Framed, Unfed
<1>5. Woven(ts, Lefts, calls')
  BY <1>1, <1>2, <1>4, WovenReplaced DEF IInv, BInv
<1>6. NoneUnfed(ts, calls')
  BY <1>1, <1>2, <1>4, TopWoven, NoneReplaced
<1>7. Woven(ts, Lefts, calls)' /\ NoneUnfed(ts, calls)'
  BY <1>2, <1>3, <1>5, <1>6
<1>8. result' \notin Tree
  BY <1>2, NoTree
<1> QED
  BY <1>7, <1>8 DEF BInv

\* An activation fails, or returns the tree t that its caller can use.
LEMMA ReturnWoven ==
  ASSUME IInv, BInv, Running, ~Stuck, NEW t \in Tree \cup {Failure}, NEW off \in Nat,
         t # Failure =>
           IF Len(calls) = 1 THEN Decided(ts, Lefts, t.nodes)
           ELSE Fits(ts, Lefts, calls[Len(calls) - 1], t, off),
         Return(t, off)
  PROVE  BInv'
<1>1. /\ calls \in Seq(Call) /\ calls # <<>>
      /\ Len(calls) \in Nat /\ Len(calls) >= 1
      /\ Below = SubSeq(calls, 1, Len(calls) - 1)
  BY TopType
<1>2. /\ calls' = Below /\ result' = t /\ ts' = ts /\ offset' = off
  BY DEF Return
<1>3. Lefts' = Lefts
  BY <1>2, LeftsStay
<1>4. Woven(ts, Lefts, calls)'
  <2>1. Woven(ts, Lefts, Below)
    BY <1>1, WovenPopped DEF BInv
  <2> QED
    BY <1>2, <1>3, <2>1
<1>5. NoneUnfed(ts, calls)'
  <2>1. NoneUnfed(ts, Below)
    BY <1>1, TopWoven, NonePopped
  <2> QED
    BY <1>2, <2>1
<1>6. /\ Below \in Seq(Call) /\ Len(Below) = Len(calls) - 1
      /\ \A i \in 1..(Len(calls) - 1) : Below[i] = calls[i]
  BY <1>1, FrontOf
<1>7. ASSUME t # Failure
      PROVE  IF Below = <<>> THEN Decided(ts, Lefts, t.nodes)
             ELSE Fits(ts, Lefts, Below[Len(Below)], t, off)
  <2>1. CASE Len(calls) = 1
    <3>1. Below = <<>>
      BY <1>6, <2>1, EmptySeq
    <3> QED
      BY <1>7, <2>1, <3>1
  <2>2. CASE Len(calls) # 1
    <3> DEFINE k == Len(calls) - 1
    <3>1. k \in Nat /\ k >= 1
      <4> DEFINE l == Len(calls)
      <4>1. l \in Nat /\ l >= 1 /\ l # 1
        BY <1>1, <2>2
      <4> HIDE DEF l
      <4>2. l - 1 \in Nat /\ l - 1 >= 1
        BY <4>1
      <4> QED
        BY <4>2 DEF l
    <3> HIDE DEF k
    <3>2. k \in 1..k
      BY <3>1
    <3>3. Below # <<>> /\ Below[Len(Below)] = calls[Len(calls) - 1]
      <4>1. Len(Below) = k /\ \A i \in 1..k : Below[i] = calls[i]
        BY <1>6 DEF k
      <4>2. Below[k] = calls[k] /\ Below # <<>>
        BY <1>6, <3>1, <3>2, <4>1, EmptySeq
      <4> QED
        BY <4>1, <4>2 DEF k
    <3> QED
      BY <1>7, <2>2, <3>3
  <2> QED
    BY <2>1, <2>2
<1>8. (result \in Tree => IF calls = <<>> THEN Decided(ts, Lefts, result.nodes)
                          ELSE Fits(ts, Lefts, Top, result, offset))'
  <2>1. t \in Tree => t # Failure
    BY NoTree
  <2>2. Top' = Below[Len(Below)]
    BY <1>2 DEF Top
  <2> QED
    BY <1>2, <1>3, <1>7, <2>1, <2>2
<1> QED
  BY <1>4, <1>5, <1>8 DEF BInv

\* The innermost activation of stack s calls parseExpression.
LEMMA CallWoven ==
  ASSUME IInv, BInv, Running, NEW s \in Seq(Call), s # <<>>, Woven(ts, Lefts, s),
         NEW power \in Nat, NEW off \in Nat,
         s[Len(s)].at # "expression", power = Given(ts, s[Len(s)]),
         Behind(s[Len(s)].nodes, off + 1),
         \/ s[Len(s)].mark < off /\ NoneUnfed(ts, s)
         \/ Unfed(ts, s[Len(s)]) /\ off = offset /\ Current \in {"-", "&&"},
         CallExpression(s, power, off)
  PROVE  BInv'
<1> DEFINE e == Expression(power, off)
           last == s[Len(s)]
<1>1. CASE Len(s) >= MaxCalls
  BY <1>1, EndWoven DEF CallExpression, Ending
<1>2. CASE ~(Len(s) >= MaxCalls)
  <2>1. /\ calls' = Append(s, e) /\ offset' = off /\ result' = Nothing
        /\ ts' = ts /\ outcome' = outcome
    BY <1>2 DEF CallExpression
  <2>2. /\ e \in Call /\ e.at = "expression" /\ e.left = Nothing /\ e.mark = off
        /\ e.power = power /\ e.nodes = {}
    BY ExpressionType DEF Expression
  <2>3. last \in Call /\ last.at # "expression" /\ last.mark \in Nat
    <3>1. last \in Call
      BY FrontOf
    <3>2. last.at # "expression"
      OBVIOUS
    <3> HIDE DEF last
    <3> QED
      BY <3>1, <3>2 DEF Call
  <2> HIDE DEF e
  <2>4. Framed(ts, Lefts, e) /\ ~Unfed(ts, e)
    BY <2>2 DEF Framed, Unfed
  <2>5. /\ power = Given(ts, last) /\ Behind(last.nodes, off + 1)
        /\ Unfed(ts, last) \/ last.mark < off
    OBVIOUS
  <2>6. Start(e) = off + 1
    BY <2>2 DEF Start
  <2>7. Bound(ts, Lefts, last, e)
    <3> HIDE DEF last
    <3>1. Unfed(ts, last) \/ last.mark + 1 < off + 1
      BY <2>3, <2>5
    <3> QED
      BY <2>2, <2>3, <2>5, <2>6, <3>1 DEF Bound
  <2>8. Woven(ts, Lefts, Append(s, e))
    BY <2>2, <2>4, <2>7, WovenPushed
  <2>9. Lefts' = Lefts
    BY <2>1, LeftsStay
  <2>10. Woven(ts, Lefts, calls)'
    BY <2>1, <2>8, <2>9
  <2>11. Stuck' \/ NoneUnfed(ts, calls)'
    <3>1. CASE NoneUnfed(ts, s)
      <4>1. NoneUnfed(ts, Append(s, e))
        BY <2>2, <2>4, <3>1, NonePushed
      <4> QED
        BY <2>1, <4>1
    <3>2. CASE off = offset /\ Current \in {"-", "&&"}
      <4>1. Current' = Current
        BY <2>1, <3>2 DEF Current, TokenAt
      <4>2. calls' # <<>> /\ Top' = e
        BY <2>1, <2>2, BackOf DEF Top
      <4>3. AtOperand'
        BY <2>1, <2>2, <4>2 DEF AtOperand, Running
      <4> QED
        BY <3>2, <4>1, <4>3 DEF Stuck
    <3> QED
      BY <3>1, <3>2
  <2>12. result' \notin Tree
    BY <2>1, NoTree
  <2> QED
    BY <2>10, <2>11, <2>12 DEF BInv
<1> QED
  BY <1>1, <1>2

LEMMA CurrentIs ==
  ASSUME IInv
  PROVE  /\ Current = ts[offset + 1] /\ offset + 1 \in Nat
         /\ Lefts[offset + 1] = LeftBindingPower(offset + 1)
<1>1. offset \in Nat /\ Len(ts) \in Nat /\ offset < Len(ts)
  BY DEF IInv, TypeOK, Text
<1>2. offset + 0 = offset /\ offset + 0 + 1 = offset + 1 /\ offset + 1 \in Nat
  BY <1>1
<1>3. \A i \in Nat : Lefts[i] = LeftBindingPower(i)
  BY DEF Lefts
<1> HIDE DEF Lefts
<1>4. Current = ts[offset + 1]
  BY <1>1, <1>2 DEF Current, TokenAt
<1> QED
  BY <1>2, <1>3, <1>4

\* parseExpression calls a handler that calls nobody.
LEMMA ExtendWoven ==
  ASSUME IInv, BInv, Running, Top.at = "expression", result = Nothing, ~Stuck,
         NEW role \in Role \ {"prefix", "infix"}, NEW n \in Nat \ {0},
         Top.left # Nothing => Lefts[offset + 1] > Top.power, Extend(role, n)
  PROVE  BInv'
<1> DEFINE to == offset + n
           t == Made(Here, role, {}, to)
           c == [Here EXCEPT !.left = t]
           w == ts
<1>1. /\ Here \in Call /\ Here.at = "expression" /\ Here.mark = offset
      /\ Here.left = Top.left /\ Start(Here) = Start(Top) /\ LeftEnds(Here, offset)
  BY HereType
<1>2. Top \in Call /\ Framed(w, Lefts, Top) /\ offset \in Nat
  BY TopType, TopWoven
<1>3. Here.nodes = {} /\ Here.power = Top.power /\ Top.power \in Nat
  BY <1>1, <1>2 DEF Here, Call, Framed
<1>4. Here.left # Nothing =>
        /\ Whole(w, Lefts, Here.left, Top.power) /\ Here.left.to = Here.mark
        /\ Lefts[Here.mark + 1] > Top.power
  BY <1>1, <1>2 DEF Framed, LeftEnds
<1>5. to \in Nat /\ Here.mark + 1 <= to
  BY <1>1, <1>2
<1>6. Decided(w, Lefts, Here.nodes)
  BY <1>3 DEF Decided
<1>7. Whole(w, Lefts, t, Top.power)
  <2>1. \A m \in Here.nodes : FALSE
    BY <1>3
  <2>2. role \in Role /\ role \notin {"prefix", "infix"} /\ 0 \in Nat
    OBVIOUS
  <2> HIDE DEF to, w
  <2>3. /\ \A m \in Here.nodes : Here.mark + 1 < m.from /\ InSpan(m) /\ m.to <= to
        /\ \A m \in Here.nodes : TakesRight(m) /\ m.to = to => Right(w, m) >= Lefts[to + 1]
    BY <2>1
  <2> QED
    BY <1>1, <1>3, <1>4, <1>5, <1>6, <2>2, <2>3, LeftsType, MadeWhole
<1>8. t \in Tree /\ t.from = Start(Top)
  BY <1>1, <1>5, MadeType
<1>9. Continue(c, n)
  BY DEF Extend
<1> HIDE DEF t, to
<1>10. c \in Call /\ c.at = "expression" /\ c.left = t /\ c.nodes = {} /\ c.power = Top.power
  BY <1>1, <1>3, <1>8 DEF Call
<1> HIDE DEF c
<1>11. Start(c) = Start(Top)
  BY <1>8, <1>10, NoTree DEF Start
<1>12. Whole(ts, Lefts, c.left, Top.power)
  BY <1>7, <1>10
<1> QED
  BY <1>9, <1>10, <1>11, <1>12, ContinueWoven

\* parseExpression calls handler h.
LEMMA CallingWoven ==
  ASSUME IInv, BInv, Running, Top.at = "expression", result = Nothing,
         NEW h \in Handler \ {"expression"},
         Top.left # Nothing => Lefts[offset + 1] > Top.power
  PROVE  \E c \in Call :
           /\ c.at = h /\ c.mark = offset /\ c.left = Top.left /\ c.nodes = {}
           /\ Calling(h) \in Seq(Call) /\ Calling(h) # <<>>
           /\ Calling(h)[Len(Calling(h))] = c
           /\ Woven(ts, Lefts, Calling(h))
           /\ NoneUnfed(ts, calls) /\ ~Unfed(ts, c) => NoneUnfed(ts, Calling(h))
<1> DEFINE c == [at |-> h, mark |-> offset, power |-> 0, left |-> Top.left, nodes |-> {}]
           s == Append(Below, Here)
<1>1. /\ calls \in Seq(Call) /\ calls # <<>> /\ Top \in Call
      /\ Top = calls[Len(calls)] /\ Below = SubSeq(calls, 1, Len(calls) - 1)
      /\ offset \in Nat
  BY TopType
<1>2. /\ Here \in Call /\ Here.at = "expression" /\ Here.mark = offset
      /\ Here.left = Top.left /\ Start(Here) = Start(Top)
  BY HereType
<1>3. Here.nodes = Top.nodes /\ Here.power = Top.power
  BY <1>1 DEF Here, Call
<1>4. Framed(ts, Lefts, Here) /\ ~Unfed(ts, Here)
  BY <1>1, <1>2, <1>3, TopWoven DEF Framed, Unfed
<1>5. c \in Call /\ c.at = h /\ c.mark = offset /\ c.left = Top.left /\ c.nodes = {}
  BY <1>1 DEF Call
<1>6. Calling(h) = Append(s, c)
  BY DEF Calling
<1>7. Below \in Seq(Call)
  BY <1>1, FrontOf
<1>8. s \in Seq(Call) /\ s # <<>> /\ s[Len(s)] = Here
  BY <1>2, <1>7, BackOf
<1> HIDE DEF c
<1>9. Woven(ts, Lefts, s)
  BY <1>1, <1>2, <1>3, <1>4, WovenReplaced DEF IInv, BInv
<1>10. NoneUnfed(ts, calls) => NoneUnfed(ts, s)
  BY <1>1, <1>2, <1>4, NoneReplaced
<1> HIDE DEF s
<1>11. Framed(ts, Lefts, c)
  BY <1>5 DEF Framed, Elements, Decided
<1>12. Bound(ts, Lefts, Here, c)
  BY <1>2, <1>3, <1>5 DEF Bound
<1>13. Woven(ts, Lefts, Append(s, c))
  BY <1>5, <1>8, <1>9, <1>11, <1>12, WovenPushed
<1>14. NoneUnfed(ts, calls) /\ ~Unfed(ts, c) => NoneUnfed(ts, Append(s, c))
  BY <1>5, <1>8, <1>10, NonePushed
<1>15. /\ Append(s, c) \in Seq(Call) /\ Append(s, c) # <<>>
       /\ Append(s, c)[Len(Append(s, c))] = c
  BY <1>5, <1>8, BackOf
<1> QED
  BY <1>5, <1>6, <1>13, <1>14, <1>15

\* Nothing is behind a handler that has just been called.
LEMMA HandlerWoven ==
  ASSUME IInv, BInv, Running, Top.at = "expression", result = Nothing,
         NEW h \in Handler \ {"expression"}, NEW power \in Nat, NEW off \in Nat,
         Top.left # Nothing => Lefts[offset + 1] > Top.power,
         power = IF h # "operand" THEN 0
                 ELSE IF Top.left = Nothing THEN PrefixPower(Current)
                 ELSE InfixPower(Current),
         \/ ~Stuck /\ offset < off
            /\ (h = "operand" /\ Top.left = Nothing => Current \notin {"-", "&&"})
         \/ h = "operand" /\ Top.left = Nothing /\ off = offset /\ Current \in {"-", "&&"},
         CallExpression(Calling(h), power, off)
  PROVE  BInv'
<1>1. PICK c \in Call :
        /\ c.at = h /\ c.mark = offset /\ c.left = Top.left /\ c.nodes = {}
        /\ Calling(h) \in Seq(Call) /\ Calling(h) # <<>>
        /\ Calling(h)[Len(Calling(h))] = c
        /\ Woven(ts, Lefts, Calling(h))
        /\ NoneUnfed(ts, calls) /\ ~Unfed(ts, c) => NoneUnfed(ts, Calling(h))
  BY CallingWoven
<1>2. Current = ts[c.mark + 1]
  BY <1>1, CurrentIs
<1>3. power = Given(ts, c)
  BY <1>1, <1>2 DEF Given
<1>4. Behind(c.nodes, off + 1)
  BY <1>1 DEF Behind
<1>5. \/ c.mark < off /\ NoneUnfed(ts, Calling(h))
      \/ Unfed(ts, c) /\ off = offset /\ Current \in {"-", "&&"}
  BY <1>1, <1>2, TopWoven DEF Unfed
<1> DEFINE s == Calling(h)
<1>6. /\ s \in Seq(Call) /\ s # <<>> /\ s[Len(s)] = c /\ Woven(ts, Lefts, s)
      /\ CallExpression(s, power, off)
      /\ \/ c.mark < off /\ NoneUnfed(ts, s)
         \/ Unfed(ts, c) /\ off = offset /\ Current \in {"-", "&&"}
  BY <1>1, <1>5
<1> HIDE DEF s
<1> QED
  BY <1>1, <1>3, <1>4, <1>6, CallWoven

\* What a handler knows of the tree its callee has given it.
LEMMA ReturnedWoven ==
  ASSUME IInv, BInv, NEW h \in Handler \ {"expression"}, Returned(h)
  PROVE  /\ ~Stuck /\ Elements(ts, Lefts, Top)
         /\ result # Failure =>
              /\ Whole(ts, Lefts, result, Given(ts, Top)) /\ result.to = offset
              /\ Lefts[offset + 1] <= Given(ts, Top)
              /\ Behind(Top.nodes, result.from) /\ Top.mark + 1 < result.from
              /\ result.from \in Nat
<1>1. /\ Running /\ Top.at # "expression" /\ result # Nothing
      /\ result # Failure => result \in Tree
  BY ReturnedType
<1>2. ~Stuck
  BY <1>1 DEF Stuck, AtOperand
<1>3. /\ Framed(ts, Lefts, Top) /\ ~Unfed(ts, Top)
      /\ result \in Tree => Fits(ts, Lefts, Top, result, offset)
  BY <1>1, <1>2, TopWoven
<1>4. result \in Tree => result.to = offset /\ result.from \in Nat
  BY DEF IInv, Tree
<1> QED
  BY <1>1, <1>2, <1>3, <1>4 DEF Framed, Fits

\* Handler c has its own left operand, and elements that have been eaten.
Gathered(c) ==
  /\ c \in Call /\ c.mark = Top.mark /\ c.left = Top.left
  /\ Decided(ts, Lefts, c.nodes)
  /\ \A n \in c.nodes : c.mark + 1 < n.from /\ InSpan(n) /\ n.to <= offset

LEMMA AllGathered ==
  ASSUME IInv, BInv, NEW h \in Handler \ {"expression"}, Returned(h), result # Failure
  PROVE  /\ Gathered(Collected) /\ Collected.at = h
         /\ Collected.nodes = Top.nodes \cup result.nodes
         /\ \A n \in Collected.nodes :
              TakesRight(n) /\ n.to = offset => Right(ts, n) >= Lefts[offset + 1]
<1>1. /\ Running /\ Top \in Call /\ result \in Tree /\ result.nodes \in SUBSET Node
      /\ offset \in Nat /\ Top.mark \in Nat
  BY ReturnedType
<1>2. /\ Elements(ts, Lefts, Top) /\ Whole(ts, Lefts, result, Given(ts, Top))
      /\ result.to = offset /\ Behind(Top.nodes, result.from) /\ result.from \in Nat
      /\ Top.mark + 1 < result.from
  BY ReturnedWoven
<1>3. Top.nodes \in SUBSET Node /\ Top.at = h
  BY <1>1 DEF Call, Returned
<1>4. /\ Collected \in Call /\ Collected.nodes = Top.nodes \cup result.nodes
      /\ Collected.mark = Top.mark /\ Collected.left = Top.left /\ Collected.at = h
  BY <1>1, <1>3 DEF Collected, Call
<1>5. ASSUME NEW n \in Top.nodes
      PROVE  Top.mark + 1 < n.from /\ InSpan(n) /\ n.to < offset
  <2>1. Top.mark + 1 < n.from /\ InSpan(n) /\ n.to + 1 < result.from
    BY <1>2 DEF Elements, Behind
  <2>2. result.from <= offset
    BY <1>2 DEF Whole, Spanned
  <2>3. n.to \in Nat
    BY <1>3, NodeType
  <2> QED
    BY <1>1, <1>2, <2>1, <2>2, <2>3
<1>6. ASSUME NEW n \in result.nodes
      PROVE  Top.mark + 1 < n.from /\ InSpan(n) /\ n.to <= offset /\ result.from <= n.from
  <2>1. result.from <= n.from /\ InSpan(n) /\ n.to <= offset
    BY <1>2 DEF Whole, Spanned
  <2>2. n.from \in Nat
    BY <1>1, NodeType
  <2> QED
    BY <1>1, <1>2, <2>1, <2>2
<1>7. Decided(ts, Lefts, Top.nodes \cup result.nodes)
  <2>1. Decided(ts, Lefts, Top.nodes) /\ Decided(ts, Lefts, result.nodes)
    BY <1>2 DEF Elements, Whole
  <2> DEFINE w == ts
             S == Top.nodes
             T == result.nodes
             k == result.from
  <2>2. /\ S \in SUBSET Node /\ T \in SUBSET Node /\ k \in Nat
        /\ Decided(w, Lefts, S) /\ Decided(w, Lefts, T)
        /\ \A n \in S \cup T : InSpan(n)
        /\ Behind(S, k) /\ \A n \in T : k <= n.from
    BY <1>1, <1>2, <1>3, <1>5, <1>6, <2>1
  <2> HIDE DEF S, T, k, w
  <2>3. Decided(w, Lefts, S \cup T)
    BY <2>2, JoinDecided
  <2> QED
    BY <2>3 DEF S, T, w
<1>8. Gathered(Collected)
  <2>1. ASSUME NEW n \in Collected.nodes
        PROVE  Collected.mark + 1 < n.from /\ InSpan(n) /\ n.to <= offset
    <3>1. n \in Top.nodes \/ n \in result.nodes
      BY <1>4
    <3>2. CASE n \in Top.nodes
      <4>1. n.to \in Nat
        BY <1>3, <3>2, NodeType
      <4> QED
        BY <1>1, <1>4, <1>5, <3>2, <4>1
    <3> QED
      BY <1>4, <1>6, <3>1, <3>2
  <2> QED
    BY <1>4, <1>7, <2>1 DEF Gathered
<1>9. ASSUME NEW n \in Collected.nodes, TakesRight(n), n.to = offset
      PROVE  Right(ts, n) >= Lefts[offset + 1]
  <2>1. n \notin Top.nodes
    BY <1>1, <1>5, <1>9
  <2>2. n \in result.nodes
    BY <1>4, <2>1
  <2>3. RightEdge(ts, Lefts, result)
    BY <1>2 DEF Whole
  <2> QED
    BY <1>2, <1>9, <2>2, <2>3 DEF RightEdge
<1> QED
  BY <1>4, <1>8, <1>9

\* The elements a handler had before its callee returned.
LEMMA SomeGathered ==
  ASSUME IInv, BInv, NEW h \in Handler \ {"expression"}, Returned(h), result # Failure,
         NEW c \in Call, c.mark = Top.mark, c.left = Top.left,
         c.nodes \in {Top.nodes, Collected.nodes}
  PROVE  Gathered(c) /\ \A n \in c.nodes : n \in Collected.nodes
<1>1. Gathered(Collected) /\ Collected.nodes = Top.nodes \cup result.nodes
  BY AllGathered
<1>2. \A n \in c.nodes : n \in Collected.nodes
  BY <1>1
<1>3. Decided(ts, Lefts, c.nodes)
  BY <1>1, <1>2 DEF Gathered, Decided
<1> QED
  BY <1>1, <1>2, <1>3 DEF Gathered

\* A handler returns what it makes of its left operand and its elements.
LEMMA MakesWoven ==
  ASSUME IInv, BInv, NEW h \in Handler \ {"expression"}, Returned(h),
         NEW c, Gathered(c), NEW role \in Role, NEW to \in Nat,
         offset <= to, Top.mark + 1 <= to,
         to = offset => \A n \in c.nodes :
           TakesRight(n) /\ n.to = to => Right(ts, n) >= Lefts[to + 1],
         NEW power \in Nat,
         role \in {"prefix", "infix"} =>
           /\ \A n \in Node : n.role = role /\ n.at = c.mark + 1 => Right(ts, n) = power
           /\ power >= Lefts[to + 1]
           /\ \A n \in c.nodes : HasLeft(n) /\ n.from = c.mark + 2 => Lefts[n.at] > power,
         Return(Made(c, role, {}, to), to)
  PROVE  BInv'
<1>1. /\ Running /\ Top \in Call /\ Top.at # "expression" /\ result # Nothing
      /\ offset \in Nat /\ ~Stuck
  BY ReturnedType, ReturnedWoven
<1>2. /\ calls \in Seq(Call) /\ Len(calls) \in Nat /\ Len(calls) >= 1
      /\ Top = calls[Len(calls)] /\ TopOK(Top)
  BY <1>1, TopType
<1>3. WellStacked(calls, Len(ts)) /\ Woven(ts, Lefts, calls)
  BY DEF IInv, BInv
<1>4. Len(calls) > 1
  <2>1. Len(calls) # 1
    BY <1>1, <1>2, <1>3 DEF WellStacked, Root
  <2> DEFINE l == Len(calls)
  <2>2. l \in Nat /\ l >= 1 /\ l # 1
    BY <1>2, <2>1
  <2> HIDE DEF l
  <2>3. l > 1
    BY <2>2
  <2> QED
    BY <2>3 DEF l
<1> DEFINE d == calls[Len(calls) - 1]
<1>5. /\ d \in Call /\ Framed(ts, Lefts, d) /\ Bound(ts, Lefts, d, Top)
      /\ d.at = "expression"
  BY <1>1, <1>2, <1>3, <1>4, CallerOf
<1> DEFINE p == d.power
<1>6. /\ Top.left = d.left /\ Top.mark = d.mark /\ p \in Nat
      /\ d.left # Nothing => Whole(ts, Lefts, d.left, p) /\ Lefts[d.mark + 1] > p
  <2> HIDE DEF d
  <2> QED
    BY <1>5 DEF Framed, Bound, Call
<1>7. Top.left # Nothing => Top.left.to = Top.mark
  BY <1>1, <1>2 DEF TopOK, LeftEnds
<1>8. /\ c \in Call /\ c.mark = Top.mark /\ c.left = Top.left
      /\ Decided(ts, Lefts, c.nodes) /\ c.nodes \in SUBSET Node
      /\ \A n \in c.nodes : c.mark + 1 < n.from /\ InSpan(n) /\ n.to <= offset
  BY DEF Gathered, Call
<1> HIDE DEF p
<1>9. c.left # Nothing =>
        Whole(ts, Lefts, c.left, p) /\ c.left.to = c.mark /\ Lefts[c.mark + 1] > p
  BY <1>6, <1>7, <1>8
<1>10. ASSUME NEW n \in c.nodes
       PROVE  /\ c.mark + 1 < n.from /\ InSpan(n) /\ n.to <= to
              /\ TakesRight(n) /\ n.to = to => Right(ts, n) >= Lefts[to + 1]
  <2>1. n.to \in Nat /\ n.to <= offset
    BY <1>8, NodeType
  <2>2. n.to <= to /\ (n.to = to => to = offset)
    BY <1>1, <2>1
  <2> QED
    BY <1>8, <2>2
<1> DEFINE w == ts
           t == Made(c, role, {}, to)
<1>11. /\ \A n \in c.nodes : c.mark + 1 < n.from /\ InSpan(n) /\ n.to <= to
       /\ \A n \in c.nodes : TakesRight(n) /\ n.to = to => Right(w, n) >= Lefts[to + 1]
       /\ role \in {"prefix", "infix"} =>
           /\ \A n \in Node : n.role = role /\ n.at = c.mark + 1 => Right(w, n) = power
           /\ power >= Lefts[to + 1]
           /\ \A n \in c.nodes : HasLeft(n) /\ n.from = c.mark + 2 => Lefts[n.at] > power
       /\ Decided(w, Lefts, c.nodes) /\ c.mark + 1 <= to
       /\ c.left # Nothing =>
            Whole(w, Lefts, c.left, p) /\ c.left.to = c.mark /\ Lefts[c.mark + 1] > p
  BY <1>8, <1>9, <1>10
<1>12. Whole(w, Lefts, t, p)
  <2> HIDE DEF w
  <2> QED
    BY <1>6, <1>8, <1>11, LeftsType, MadeWhole
<1>13. t \in Tree /\ Return(t, to)
  BY <1>8, MadeType
<1> HIDE DEF t
<1>14. Fits(ts, Lefts, d, t, to)
  BY <1>5, <1>12 DEF Fits, p
<1>15. Len(calls) # 1
  BY <1>2, <1>4
<1> QED
  BY <1>1, <1>13, <1>14, <1>15, ReturnWoven

\* A handler goes on as c and calls parseExpression again.
LEMMA AgainWoven ==
  ASSUME IInv, BInv, NEW h \in Handler \ {"expression"}, Returned(h),
         NEW c \in Call, c.at \notin {"expression", "operand"},
         c.mark = Top.mark, c.left = Top.left, Elements(ts, Lefts, c),
         NEW off \in Nat, Top.mark < off, Behind(c.nodes, off + 1),
         CallExpression(Append(Below, c), 0, off)
  PROVE  BInv'
<1> DEFINE s == Append(Below, c)
<1>1. /\ Running /\ Top.at # "expression" /\ ~Stuck
      /\ calls \in Seq(Call) /\ calls # <<>>
      /\ Top = calls[Len(calls)] /\ Below = SubSeq(calls, 1, Len(calls) - 1)
  BY ReturnedType, ReturnedWoven, TopType
<1>2. Framed(ts, Lefts, c) /\ ~Unfed(ts, c) /\ Given(ts, c) = 0
  BY DEF Framed, Unfed, Given
<1>3. Woven(ts, Lefts, s)
  BY <1>1, <1>2, WovenReplaced DEF IInv, BInv
<1>4. NoneUnfed(ts, s)
  BY <1>1, <1>2, TopWoven, NoneReplaced
<1>5. s \in Seq(Call) /\ s # <<>> /\ s[Len(s)] = c
  <2>1. Below \in Seq(Call)
    BY <1>1, FrontOf
  <2> QED
    BY <2>1, BackOf
<1>6. CallExpression(s, 0, off)
  OBVIOUS
<1>7. 0 = Given(ts, c) /\ 0 \in Nat /\ c.at # "expression" /\ c.mark < off
  BY <1>2
<1>8. Behind(c.nodes, off + 1)
  OBVIOUS
<1> HIDE DEF s
<1>9. /\ s[Len(s)].at # "expression" /\ 0 = Given(ts, s[Len(s)])
      /\ Behind(s[Len(s)].nodes, off + 1) /\ s[Len(s)].mark < off
  BY <1>5, <1>7, <1>8
<1> QED
  BY <1>1, <1>3, <1>4, <1>5, <1>6, <1>7, <1>9, CallWoven

\* One more element: handlers of lists, and the count of an array.
LEMMA AnotherWoven ==
  ASSUME IInv, BInv, NEW h \in Handler \ {"expression"}, Returned(h), result # Failure,
         NEW c \in Call, c.at \notin {"expression", "operand", "probe"},
         c.mark = Top.mark, c.left = Top.left,
         c.nodes \in {Top.nodes, Collected.nodes}, Another(c)
  PROVE  BInv'
<1>1. /\ offset \in Nat /\ Top.mark \in Nat /\ Top.mark <= offset
  BY ReturnedType
<1>2. Gathered(c)
  BY SomeGathered
<1>3. Elements(ts, Lefts, c)
  BY <1>2 DEF Elements, Gathered
<1>4. offset + 1 \in Nat /\ Top.mark < offset + 1
  BY <1>1, Later
<1>5. Behind(c.nodes, offset + 1 + 1)
  <2>1. \A n \in c.nodes : n.to <= offset /\ n.to \in Nat
    BY <1>2, NodeType DEF Gathered, Call
  <2> QED
    BY <1>1, <2>1 DEF Behind
<1>6. CallExpression(Append(Below, c), 0, offset + 1)
  BY DEF Another
<1> QED
  BY <1>3, <1>4, <1>5, <1>6, AgainWoven

\* A handler returns its tree.
LEMMA BracketWoven ==
  ASSUME IInv, BInv, NEW h \in Handler \ {"expression"}, Returned(h), result # Failure,
         NEW c, Gathered(c), NEW to \in Nat, offset < to,
         Return(Made(c, "bracket", {}, to), to)
  PROVE  BInv'
<1>1. offset \in Nat /\ Top.mark \in Nat /\ Top.mark <= offset
  BY ReturnedType
<1>2. offset <= to /\ Top.mark + 1 <= to /\ to # offset
  BY <1>1
<1>3. "bracket" \in Role /\ "bracket" \notin {"prefix", "infix"} /\ 0 \in Nat
  BY DEF Role
<1> QED
  BY <1>2, <1>3, MakesWoven

LEMMA CollectedMade ==
  ASSUME IInv, BInv, NEW h \in Handler \ {"expression"}, Returned(h), result # Failure,
         NEW role, NEW to
  PROVE  Made(Top, role, result.nodes, to) = Made(Collected, role, {}, to)
<1>1. Collected.nodes = Top.nodes \cup result.nodes
  BY AllGathered
<1>2. Collected.left = Top.left /\ Collected.mark = Top.mark
  BY AllGathered DEF Gathered
<1>3. Top.left.nodes \cup Top.nodes \cup result.nodes
        = Top.left.nodes \cup Collected.nodes \cup {}
  BY <1>1
<1> QED
  BY <1>2, <1>3, Zenon DEF Made

\* The tree of a handler that does not eat a closing bracket.
LEMMA OpenWoven ==
  ASSUME IInv, BInv, NEW h \in Handler \ {"expression"}, Returned(h), result # Failure,
         NEW to \in Nat, offset <= to, Return(Made(Top, "tuple", result.nodes, to), to)
  PROVE  BInv'
<1>1. /\ Gathered(Collected)
      /\ \A n \in Collected.nodes :
           TakesRight(n) /\ n.to = offset => Right(ts, n) >= Lefts[offset + 1]
  BY AllGathered
<1>2. Return(Made(Collected, "tuple", {}, to), to)
  BY CollectedMade
<1>3. "tuple" \in Role /\ "tuple" \notin {"prefix", "infix"} /\ 0 \in Nat
  BY DEF Role
<1>4. Top.mark + 1 <= to
  <2>1. /\ offset \in Nat /\ Top.mark \in Nat /\ Top.mark + 1 < result.from
        /\ result.from \in Nat /\ result.from <= offset
    BY ReturnedType, ReturnedWoven DEF Whole, Spanned
  <2> QED
    BY <2>1
<1> QED
  BY <1>1, <1>2, <1>3, <1>4, MakesWoven

LEMMA FailsWoven ==
  ASSUME IInv, BInv, Running, ~Stuck, NEW off \in Nat, Return(Failure, off)
  PROVE  BInv'
BY ReturnWoven

LEMMA ClosesWoven ==
  ASSUME IInv, BInv, NEW h \in Handler \ {"expression"}, Returned(h), result # Failure,
         NEW bracket, Closes(bracket)
  PROVE  BInv'
<1>1. offset \in Nat /\ offset + 1 \in Nat /\ offset < offset + 1 /\ Running /\ ~Stuck
  BY ReturnedType, ReturnedWoven
<1>2. CASE Return(Made(Top, "bracket", result.nodes, offset + 1), offset + 1)
  <2>1. Return(Made(Collected, "bracket", {}, offset + 1), offset + 1)
    BY <1>2, CollectedMade
  <2> QED
    BY <1>1, <2>1, AllGathered, BracketWoven
<1>3. CASE Return(Failure, offset)
  BY <1>1, <1>3, FailsWoven
<1> QED
  BY <1>2, <1>3 DEF Closes

LEMMA TrailingWoven ==
  ASSUME IInv, BInv, NEW h \in Handler \ {"expression"}, Returned(h), result # Failure,
         TrailingComma
  PROVE  BInv'
<1>1. offset \in Nat /\ offset + 2 \in Nat /\ offset < offset + 2
  BY ReturnedType
<1>2. Return(Made(Collected, "bracket", {}, offset + 2), offset + 2)
  BY CollectedMade DEF TrailingComma
<1> QED
  BY <1>1, <1>2, AllGathered, BracketWoven

\* An operator and its operand.
LEMMA OperandWoven ==
  ASSUME IInv, BInv, OperandParsed
  PROVE  BInv'
<1>1. Returned("operand") /\ "operand" \in Handler \ {"expression"} /\ Top.at = "operand"
  BY DEF OperandParsed, Returned, Handler
<1>2. /\ Running /\ ~Stuck /\ offset \in Nat /\ result # Nothing
      /\ Top \in Call /\ Top.mark \in Nat
  BY <1>1, ReturnedType, ReturnedWoven
<1> DEFINE role == IF Top.left = Nothing THEN "prefix" ELSE "infix"
<1>3. \/ result # Failure /\ Return(Made(Top, role, result.nodes, offset), offset)
      \/ End("exited") \/ Return(Failure, offset)
  BY DEF OperandParsed
<1>4. CASE result # Failure /\ Return(Made(Top, role, result.nodes, offset), offset)
  <2> DEFINE power == Given(ts, Top)
  <2>1. /\ Gathered(Collected) /\ Collected.nodes = Top.nodes \cup result.nodes
        /\ \A n \in Collected.nodes :
             TakesRight(n) /\ n.to = offset => Right(ts, n) >= Lefts[offset + 1]
    BY <1>1, <1>4, AllGathered
  <2>2. /\ Elements(ts, Lefts, Top) /\ Whole(ts, Lefts, result, power)
        /\ result.to = offset /\ Lefts[offset + 1] <= power
        /\ Top.mark + 1 < result.from /\ result.from \in Nat
    BY <1>1, <1>4, ReturnedWoven
  <2>3. Collected.nodes = result.nodes /\ Collected.mark = Top.mark
    BY <1>1, <2>1, <2>2 DEF Elements, Gathered
  <2>4. Return(Made(Collected, role, {}, offset), offset)
    BY <1>1, <1>4, CollectedMade
  <2>5. role \in Role
    BY DEF Role
  <2>6. Top.mark + 1 <= offset /\ offset <= offset
    <3>1. result.from <= offset
      BY <2>2 DEF Whole, Spanned
    <3> QED
      BY <1>2, <2>2, <3>1
  <2>7. \A n \in Node : n.role = role /\ n.at = Top.mark + 1 => Right(ts, n) = power
    BY <1>1 DEF Right, Given
  <2>8. power \in Nat /\ power >= Lefts[offset + 1]
    <3>1. power \in Nat
      BY GivenType
    <3>2. Lefts[offset + 1] \in Nat
      BY <1>2, LeftsType
    <3> HIDE DEF power
    <3> QED
      BY <2>2, <3>1, <3>2
  <2>9. ASSUME NEW n \in result.nodes, HasLeft(n), n.from = Top.mark + 2
        PROVE  Lefts[n.at] > power
    <3>1. result.from <= n.from /\ LeftEdge(Lefts, result, power)
      BY <2>2 DEF Whole, Spanned
    <3>2. n.from = result.from
      BY <1>2, <2>2, <2>9, <3>1
    <3> QED
      BY <2>9, <3>1, <3>2 DEF LeftEdge
  <2> DEFINE c == Collected
  <2> HIDE DEF power, role
  <2>10. /\ \A n \in Node : n.role = role /\ n.at = c.mark + 1 => Right(ts, n) = power
         /\ \A n \in c.nodes : HasLeft(n) /\ n.from = c.mark + 2 => Lefts[n.at] > power
         /\ \A n \in c.nodes :
              TakesRight(n) /\ n.to = offset => Right(ts, n) >= Lefts[offset + 1]
         /\ Gathered(c) /\ Return(Made(c, role, {}, offset), offset)
    BY <2>1, <2>3, <2>4, <2>7, <2>9
  <2> HIDE DEF c
  <2> QED
    BY <1>1, <1>2, <2>5, <2>6, <2>8, <2>10, MakesWoven
<1>5. CASE End("exited")
  BY <1>5, EndWoven DEF Ending
<1>6. CASE Return(Failure, offset)
  BY <1>2, <1>6, FailsWoven
<1> QED
  BY <1>3, <1>4, <1>5, <1>6

\* The contents of parentheses are parsed again.
LEMMA ReparsedWoven ==
  ASSUME IInv, BInv, GroupedOrTuple
  PROVE  BInv'
<1>1. Returned("probe") /\ "probe" \in Handler \ {"expression"}
  BY DEF GroupedOrTuple, Handler
<1>2. /\ Running /\ ~Stuck /\ offset \in Nat /\ Top \in Call /\ Top.mark \in Nat
      /\ Elements(ts, Lefts, Top) /\ Top.at = "probe"
  BY <1>1, ReturnedType, ReturnedWoven DEF Returned
<1>3. CASE result = Failure
  BY <1>2, <1>3, FailsWoven DEF GroupedOrTuple
<1>4. CASE result # Failure
  <2>1. PICK h \in {"grouped", "tuple"} :
          CallExpression(Append(Below, [Top EXCEPT !.at = h]), 0, Top.mark + 1)
    BY <1>4 DEF GroupedOrTuple
  <2> DEFINE c == [Top EXCEPT !.at = h]
  <2>2. /\ c \in Call /\ c.at = h /\ c.mark = Top.mark /\ c.left = Top.left
        /\ c.nodes = Top.nodes
    BY <1>2 DEF Call, Handler
  <2>3. CallExpression(Append(Below, c), 0, Top.mark + 1)
    BY <2>1
  <2> HIDE DEF c
  <2>4. c.nodes = {}
    BY <1>2, <2>2 DEF Elements
  <2>5. Elements(ts, Lefts, c) /\ Behind(c.nodes, Top.mark + 1 + 1)
    BY <2>4 DEF Elements, Decided, Behind
  <2>6. Top.mark + 1 \in Nat /\ Top.mark < Top.mark + 1
    BY <1>2
  <2> QED
    BY <1>1, <2>2, <2>3, <2>5, <2>6, AgainWoven
<1> QED
  BY <1>3, <1>4

\* Groups, indices and counts.
LEMMA ClosedWoven ==
  ASSUME IInv, BInv, Grouped \/ Index \/ ArrayCount
  PROVE  BInv'
<1>1. PICK h \in {"grouped", "index", "count"}, bracket \in {")", "]"} :
        /\ Returned(h)
        /\ \/ End("exited")
           \/ Return(Failure, offset)
           \/ result # Failure /\ Closes(bracket)
  BY DEF Grouped, Index, ArrayCount
<1>2. h \in Handler \ {"expression"}
  BY DEF Handler
<1>3. Running /\ ~Stuck /\ offset \in Nat
  BY <1>1, <1>2, ReturnedType, ReturnedWoven
<1> QED
  BY <1>1, <1>2, <1>3, EndWoven, FailsWoven, ClosesWoven DEF Ending

LEMMA TupleWoven ==
  ASSUME IInv, BInv, Tuple
  PROVE  BInv'
<1>1. Returned("tuple") /\ "tuple" \in Handler \ {"expression"} /\ Top.at = "tuple"
  BY DEF Tuple, Handler, Returned
<1>2. /\ Running /\ ~Stuck /\ offset \in Nat /\ offset + 1 \in Nat
      /\ offset <= offset /\ offset <= offset + 1
  BY <1>1, ReturnedType, ReturnedWoven
<1>3. \/ End("exited")
      \/ result # Failure /\ Another(Collected)
      \/ /\ result # Failure
         /\ Return(Made(Top, "tuple", result.nodes, offset + 1), offset + 1)
      \/ Return(Failure, offset + 1)
      \/ /\ result # Failure
         /\ Return(Made(Top, "tuple", result.nodes, offset), offset)
      \/ Return(Failure, offset)
  BY DEF Tuple
<1>4. CASE End("exited")
  BY <1>4, EndWoven DEF Ending
<1>5. CASE result # Failure /\ Another(Collected)
  <2>1. /\ Collected \in Call /\ Collected.at \notin {"expression", "operand", "probe"}
        /\ Collected.mark = Top.mark /\ Collected.left = Top.left
    BY <1>1, <1>5, AllGathered DEF Gathered
  <2> QED
    BY <1>1, <1>5, <2>1, AnotherWoven
<1>6. CASE /\ result # Failure
           /\ Return(Made(Top, "tuple", result.nodes, offset + 1), offset + 1)
  BY <1>1, <1>2, <1>6, OpenWoven
<1>7. CASE /\ result # Failure
           /\ Return(Made(Top, "tuple", result.nodes, offset), offset)
  BY <1>1, <1>2, <1>7, OpenWoven
<1>8. CASE Return(Failure, offset) \/ Return(Failure, offset + 1)
  BY <1>2, <1>8, FailsWoven
<1> QED
  BY <1>3, <1>4, <1>5, <1>6, <1>7, <1>8

\* The handlers of lists and what they go on as.
LEMMA ElementWoven ==
  ASSUME IInv, BInv, NEW h \in {"params", "first", "list"}, Returned(h), result # Failure,
         NEW c \in {Collected, ListBegins, [Collected EXCEPT !.at = "count"]}
  PROVE  /\ c \in Call /\ c.at \notin {"expression", "operand", "probe"}
         /\ c.mark = Top.mark /\ c.left = Top.left
         /\ c.nodes \in {Top.nodes, Collected.nodes} /\ Gathered(c)
<1>1. h \in Handler \ {"expression"}
  BY DEF Handler
<1>2. /\ Collected \in Call /\ Collected.at = h
      /\ Collected.mark = Top.mark /\ Collected.left = Top.left /\ Top \in Call
  BY <1>1, AllGathered, ReturnedType DEF Gathered
<1>3. /\ c \in Call /\ c.at \notin {"expression", "operand", "probe"}
      /\ c.mark = Top.mark /\ c.left = Top.left
      /\ c.nodes \in {Top.nodes, Collected.nodes}
  <2>1. CASE c = Collected
    BY <1>2, <2>1
  <2>2. CASE c = ListBegins
    BY <1>2, <2>2 DEF ListBegins, Call, Handler
  <2>3. CASE c = [Collected EXCEPT !.at = "count"]
    BY <1>2, <2>3 DEF Call, Handler
  <2> QED
    BY <2>1, <2>2, <2>3
<1> QED
  BY <1>1, <1>3, SomeGathered

LEMMA ListWoven ==
  ASSUME IInv, BInv, Params \/ ArrayFirst \/ ArrayNext
  PROVE  BInv'
<1>1. PICK h \in {"params", "first", "list"} :
        /\ Returned(h)
        /\ \/ End("exited")
           \/ /\ result # Failure
              /\ \/ Closes(")") \/ TrailingComma \/ End("hung")
                 \/ \E c \in {Collected, ListBegins, [Collected EXCEPT !.at = "count"]} :
                      \/ Another(c)
                      \/ \E n \in {1, 2} :
                           Return(Made(c, "bracket", {}, offset + n), offset + n)
  BY DEF Params, ArrayFirst, ArrayNext, ArrayList
<1>2. h \in Handler \ {"expression"}
  BY DEF Handler
<1>3. CASE End("exited") \/ End("hung")
  BY <1>3, EndWoven DEF Ending
<1>4. CASE result # Failure /\ (Closes(")") \/ TrailingComma)
  BY <1>1, <1>2, <1>4, ClosesWoven, TrailingWoven
<1>5. ASSUME NEW c \in {Collected, ListBegins, [Collected EXCEPT !.at = "count"]},
             result # Failure, Another(c)
      PROVE  BInv'
  BY <1>1, <1>2, <1>5, ElementWoven, AnotherWoven
<1>6. ASSUME NEW c \in {Collected, ListBegins, [Collected EXCEPT !.at = "count"]},
             result # Failure,
             NEW n \in {1, 2}, Return(Made(c, "bracket", {}, offset + n), offset + n)
      PROVE  BInv'
  <2>1. offset + n \in Nat /\ offset < offset + n
    BY <1>1, <1>2, ReturnedType
  <2>2. Gathered(c)
    BY <1>1, <1>6, ElementWoven
  <2> DEFINE to == offset + n
  <2>3. to \in Nat /\ offset < to /\ Return(Made(c, "bracket", {}, to), to)
    BY <1>6, <2>1
  <2> HIDE DEF to
  <2> QED
    BY <1>1, <1>2, <1>6, <2>2, <2>3, BracketWoven
<1> QED
  BY <1>1, <1>3, <1>4, <1>5, <1>6

\* parseUnaryExpression.
LEMMA UnaryWoven ==
  ASSUME IInv, BInv,
         Literal \/ EmptyBrackets \/ Alone \/ Prefix \/ Borrow \/ Uneaten \/ Open \/ NoOperand
  PROVE  BInv'
<1>1. AtOperand
  BY DEF Literal, EmptyBrackets, Alone, Prefix, Borrow, Uneaten, Open, NoOperand
<1>2. /\ Running /\ Top.at = "expression" /\ result = Nothing /\ Top.left = Nothing
      /\ Stuck <=> Current \in {"-", "&&"}
      /\ offset \in Nat /\ offset + 1 \in Nat /\ offset + 2 \in Nat
      /\ offset < offset + 1 /\ offset < offset + 2
  BY <1>1, AtOperandType, Eaten DEF AtOperand
<1>3. CASE Literal \/ EmptyBrackets \/ Alone
  <2>1. PICK role \in {"leaf", "bracket"}, n \in {1, 2} : Extend(role, n)
    BY <1>3 DEF Literal, EmptyBrackets, Alone
  <2>2. role \in Role \ {"prefix", "infix"} /\ n \in Nat \ {0}
    BY DEF Role
  <2>3. ~Stuck
    BY <1>2, <1>3 DEF Literal, EmptyBrackets, Alone, Terminators
  <2> QED
    BY <1>2, <2>1, <2>2, <2>3, ExtendWoven
<1>4. CASE Prefix
  <2>1. /\ Current \in {"*", "..", "..=", "return", "break"}
        /\ CallExpression(Calling("operand"), PrefixPower(Current), offset + 1)
    BY <1>4 DEF Prefix
  <2> QED
    BY <1>2, <2>1, HandlerWoven, Powers DEF Handler
<1>5. CASE Borrow
  <2>1. /\ Current = "&"
        /\ \/ End("aborted")
           \/ \E off \in {offset + 1, offset + 2} :
                CallExpression(Calling("operand"), PrefixPower(Current), off)
    BY <1>5 DEF Borrow
  <2>2. CASE End("aborted")
    BY <2>2, EndWoven DEF Ending
  <2>3. ASSUME NEW off \in {offset + 1, offset + 2},
               CallExpression(Calling("operand"), PrefixPower(Current), off)
        PROVE  BInv'
    <3>1. off \in Nat /\ offset < off
      BY <1>2
    <3> QED
      BY <1>2, <2>1, <2>3, <3>1, HandlerWoven, Powers DEF Handler
  <2> QED
    BY <2>1, <2>2, <2>3
<1>6. CASE Uneaten
  <2>1. /\ Current \in {"-", "&&"}
        /\ \/ End("aborted")
           \/ CallExpression(Calling("operand"), PrefixPower(Current), offset)
    BY <1>6 DEF Uneaten
  <2>2. CASE End("aborted")
    BY <2>2, EndWoven DEF Ending
  <2>3. CASE CallExpression(Calling("operand"), PrefixPower(Current), offset)
    BY <1>2, <2>1, <2>3, HandlerWoven, Powers DEF Handler
  <2> QED
    BY <2>1, <2>2, <2>3
<1>7. CASE Open
  <2>1. PICK h \in {"probe", "first"} :
          Current \in {"(", "["} /\ CallExpression(Calling(h), 0, offset + 1)
    BY <1>7 DEF Open
  <2>2. h \in Handler \ {"expression"} /\ h # "operand" /\ 0 \in Nat
    BY DEF Handler
  <2> QED
    BY <1>2, <2>1, <2>2, HandlerWoven
<1>8. CASE NoOperand
  <2>1. Return(Failure, offset) /\ ~Stuck
    BY <1>2, <1>8 DEF NoOperand, OperandStarts
  <2> QED
    BY <1>2, <2>1, FailsWoven
<1> QED
  BY <1>3, <1>4, <1>5, <1>6, <1>7, <1>8

\* The loop of parseExpression takes an operator that binds.
LEMMA BindsType ==
  ASSUME IInv, BInv, Binds
  PROVE  /\ Running /\ Top.at = "expression" /\ result = Nothing /\ ~Stuck
         /\ Top.left # Nothing /\ Lefts[offset + 1] > Top.power
         /\ offset \in Nat
<1>1. AtOperator /\ LeftBindingPower(offset + 1) > Top.power
  BY DEF Binds
<1> QED
  BY <1>1, AtOperatorType, CurrentIs, Eaten DEF AtOperator

LEMMA BindingWoven ==
  ASSUME IInv, BInv, Postfix \/ InfixOperator \/ OpenAfter
  PROVE  BInv'
<1>1. /\ Running /\ Top.at = "expression" /\ result = Nothing /\ ~Stuck
      /\ Top.left # Nothing /\ Lefts[offset + 1] > Top.power /\ offset \in Nat
  BY BindsType DEF Postfix, InfixOperator, OpenAfter
<1>2. CASE Postfix
  <2>1. PICK role \in {"postfix", "bracket"}, n \in {1, 2, 4} : Extend(role, n)
    BY <1>2 DEF Postfix
  <2>2. role \in Role \ {"prefix", "infix"} /\ n \in Nat \ {0}
    BY DEF Role
  <2> QED
    BY <1>1, <2>1, <2>2, ExtendWoven
<1>3. CASE InfixOperator
  <2>1. CallExpression(Calling("operand"), InfixPower(Current), offset + 1)
    BY <1>3 DEF InfixOperator
  <2>2. offset + 1 \in Nat /\ offset < offset + 1
    BY <1>1
  <2> QED
    BY <1>1, <2>1, <2>2, HandlerWoven, Powers DEF Handler
<1>4. CASE OpenAfter
  <2>1. PICK h \in {"params", "index"}, n \in {1, 3} :
          CallExpression(Calling(h), 0, offset + n)
    BY <1>4 DEF OpenAfter
  <2>2. h \in Handler \ {"expression"} /\ h # "operand" /\ 0 \in Nat
    BY DEF Handler
  <2>3. offset + n \in Nat /\ offset < offset + n
    BY <1>1
  <2> QED
    BY <1>1, <2>1, <2>2, <2>3, HandlerWoven
<1> QED
  BY <1>2, <1>3, <1>4

\* It stops at one that does not bind: whoever called parseExpression gets a
\* tree whose operators bind more tightly than the power it gave.
LEMMA StopWoven ==
  ASSUME IInv, BInv, Stop
  PROVE  BInv'
<1>1. /\ AtOperator /\ ~(LeftBindingPower(offset + 1) > Top.power)
      /\ Return(Top.left, offset)
  BY DEF Stop, Binds
<1>2. /\ Running /\ Top.at = "expression" /\ ~Stuck /\ Top.left \in Tree
      /\ Start(Top) = Top.left.from
  BY <1>1, AtOperatorType
<1>3. /\ calls \in Seq(Call) /\ Len(calls) \in Nat /\ Len(calls) >= 1
      /\ Top = calls[Len(calls)] /\ Top \in Call /\ offset \in Nat
  BY <1>2, TopType
<1>4. Framed(ts, Lefts, Top) /\ Top.left # Nothing
  BY <1>2, TopWoven, NoTree
<1>5. Whole(ts, Lefts, Top.left, Top.power)
  BY <1>2, <1>4 DEF Framed
<1>6. Lefts[offset + 1] <= Top.power
  <2>1. Lefts[offset + 1] = LeftBindingPower(offset + 1) /\ offset + 1 \in Nat
    BY CurrentIs
  <2>2. Lefts[offset + 1] \in Nat
    BY <2>1, LeftsType
  <2>3. Top.power \in Nat
    BY <1>3 DEF Call
  <2> QED
    BY <1>1, <2>1, <2>2, <2>3
<1> DEFINE t == Top.left
           d == calls[Len(calls) - 1]
<1>7. CASE Len(calls) = 1
  <2>1. Decided(ts, Lefts, t.nodes)
    BY <1>5 DEF Whole
  <2>2. t \in Tree /\ Return(t, offset)
    BY <1>1, <1>2
  <2> HIDE DEF t
  <2> QED
    BY <1>2, <1>3, <1>7, <2>1, <2>2, ReturnWoven
<1>8. CASE Len(calls) # 1
  <2>1. Len(calls) > 1
    <3> DEFINE l == Len(calls)
    <3>1. l \in Nat /\ l >= 1 /\ l # 1
      BY <1>3, <1>8
    <3> HIDE DEF l
    <3>2. l > 1
      BY <3>1
    <3> QED
      BY <3>2 DEF l
  <2>2. Bound(ts, Lefts, d, Top) /\ d.at # "expression"
    BY <1>2, <1>3, <2>1, CallerOf DEF IInv, BInv
  <2>3. t \in Tree /\ Return(t, offset)
    BY <1>1, <1>2
  <2> HIDE DEF t, d
  <2>4. /\ Top.power = Given(ts, d) /\ Behind(d.nodes, Start(Top))
        /\ Unfed(ts, d) \/ d.mark + 1 < Start(Top)
    BY <2>2 DEF Bound
  <2>5. Start(Top) = t.from /\ Whole(ts, Lefts, t, Top.power)
    BY <1>2, <1>5 DEF t
  <2>6. Fits(ts, Lefts, d, t, offset)
    BY <1>6, <2>2, <2>4, <2>5 DEF Fits
  <2>7. Fits(ts, Lefts, calls[Len(calls) - 1], t, offset)
    BY <2>6 DEF d
  <2> QED
    BY <1>2, <1>3, <1>8, <2>3, <2>7, ReturnWoven
<1> QED
  BY <1>7, <1>8

LEMMA ResumeWoven ==
  ASSUME IInv, BInv, ExpressionResumes
  PROVE  BInv'
<1>1. /\ Running /\ Top.at = "expression" /\ result # Nothing
      /\ IF result # Failure THEN Continue([Top EXCEPT !.left = result], 0)
         ELSE Return(Failure, IF Top.left = Nothing THEN offset ELSE Top.mark)
  BY DEF ExpressionResumes, Returned
<1>2. /\ Top \in Call /\ Top.mark \in Nat /\ offset \in Nat /\ ~Stuck /\ TopOK(Top)
  BY <1>1, TopType DEF Stuck, AtOperand
<1>3. CASE result # Failure
  <2> DEFINE c == [Top EXCEPT !.left = result]
  <2>1. result \in Tree
    BY <1>1, <1>3 DEF IInv, TypeOK
  <2>2. result.from = Start(Top)
    BY <1>1, <1>2, <2>1 DEF TopOK
  <2>3. Framed(ts, Lefts, Top) /\ Fits(ts, Lefts, Top, result, offset)
    BY <1>1, <2>1, TopWoven
  <2>4. Whole(ts, Lefts, result, Top.power) /\ Top.nodes = {}
    BY <1>1, <2>3 DEF Fits, Framed
  <2>5. /\ c \in Call /\ c.at = "expression" /\ c.left = result
        /\ c.nodes = {} /\ c.power = Top.power
    BY <1>1, <1>2, <2>1, <2>4 DEF Call
  <2>6. Continue(c, 0) /\ 0 \in Nat
    BY <1>1, <1>3
  <2> HIDE DEF c
  <2>7. Start(c) = Start(Top)
    BY <2>1, <2>2, <2>5, NoTree DEF Start
  <2>8. Whole(ts, Lefts, c.left, Top.power)
    BY <2>4, <2>5
  <2> QED
    BY <1>1, <1>2, <2>5, <2>6, <2>7, <2>8, ContinueWoven
<1>4. CASE result = Failure
  <2>1. PICK off \in {offset, Top.mark} : Return(Failure, off)
    BY <1>1, <1>4
  <2> QED
    BY <1>1, <1>2, <2>1, FailsWoven
<1> QED
  BY <1>3, <1>4

LEMMA InitWoven == Init => BInv
<1> SUFFICES ASSUME Init PROVE BInv
  OBVIOUS
<1> DEFINE e == Expression(0, 0)
<1>1. calls = <<e>> /\ result = Nothing
  BY DEF Init
<1>2. /\ e \in Call /\ e.at = "expression" /\ e.left = Nothing /\ e.nodes = {}
  BY ExpressionType DEF Expression
<1> HIDE DEF e
<1>3. Framed(ts, Lefts, e) /\ ~Unfed(ts, e)
  BY <1>2 DEF Framed, Unfed
<1>4. Len(calls) = 1 /\ calls[1] = e
  BY <1>1
<1>5. Woven(ts, Lefts, calls) /\ NoneUnfed(ts, calls)
  BY <1>3, <1>4 DEF Woven, NoneUnfed
<1> QED
  BY <1>1, <1>5, NoTree DEF BInv

LEMMA StutterWoven ==
  ASSUME BInv, UNCHANGED vars
  PROVE  BInv'
<1>1. /\ ts' = ts /\ offset' = offset /\ calls' = calls /\ result' = result
      /\ outcome' = outcome
  BY DEF vars
<1>2. Lefts' = Lefts /\ Top' = Top
  BY <1>1, LeftsStay DEF Top
<1>3. Woven(ts, Lefts, calls)' /\ (NoneUnfed(ts, calls)' <=> NoneUnfed(ts, calls))
  BY <1>1, <1>2 DEF BInv
<1>4. (result \in Tree => IF calls = <<>> THEN Decided(ts, Lefts, result.nodes)
                          ELSE Fits(ts, Lefts, Top, result, offset))'
  BY <1>1, <1>2 DEF BInv
<1>5. Stuck' <=> Stuck
  BY <1>1, <1>2 DEF Stuck, AtOperand, Running, Current, TokenAt
<1> QED
  BY <1>1, <1>3, <1>4, <1>5 DEF BInv

LEMMA NextWoven ==
  ASSUME IInv, BInv, Next
  PROVE  BInv'
<1>1. CASE KeywordFollows \/ NoMember
  <2>1. End("aborted") \/ End("exited")
    BY <1>1 DEF KeywordFollows, NoMember
  <2> QED
    BY <2>1, EndWoven DEF Ending
<1> QED
  BY <1>1, UnaryWoven, BindingWoven, StopWoven, ResumeWoven, OperandWoven,
     ReparsedWoven, ClosedWoven, TupleWoven, ListWoven DEF Next

\* Of the trees a text of any length could have, parseExpression returns the one
\* its binding powers determine: each operator at the left edge of a right
\* operand binds more tightly than the power its handler passed on, and each
\* operator that ends a left operand was given at least the power of the next.
THEOREM TreesFollowBindingPowers == Spec => []BindingPowersDecide
<1>1. IInv /\ BInv /\ [Next]_vars => BInv'
  BY NextWoven, StutterWoven
<1>2. IInv /\ BInv => BindingPowersDecide
  <2> SUFFICES ASSUME IInv, BInv PROVE BindingPowersDecide
    OBVIOUS
  <2>1. result.nodes \in SUBSET Node /\ Decided(ts, Lefts, result.nodes)
    <3>1. CASE result \in Tree
      <4>1. result.nodes \in SUBSET Node
        BY <3>1 DEF Tree
      <4>2. CASE calls = <<>>
        BY <3>1, <4>1, <4>2 DEF BInv
      <4>3. CASE calls # <<>>
        <5>1. Fits(ts, Lefts, Top, result, offset)
          BY <3>1, <4>3 DEF BInv
        <5> QED
          BY <4>1, <5>1 DEF Fits, Whole
      <4> QED
        BY <4>2, <4>3
    <3>2. CASE result \in {Nothing, Failure}
      BY <3>2 DEF Nothing, Failure, Decided
    <3> QED
      BY <3>1, <3>2 DEF IInv, TypeOK
  <2>2. ASSUME NEW m \in result.nodes, NEW n \in result.nodes
        PROVE  /\ InRightOperand(m, n) => LeftBindingPower(m.at) > OperandPower(n)
               /\ InLeftOperand(m, n) => OperandPower(m) >= LeftBindingPower(n.at)
    <3> DEFINE S == result.nodes
    <3>1. S \in SUBSET Node /\ Decided(ts, Lefts, S) /\ m \in S /\ n \in S
      BY <2>1
    <3> HIDE DEF S
    <3> QED
      BY <3>1, DecidedHere
  <2> QED
    BY <2>2 DEF BindingPowersDecide
<1> QED
  BY Invariance, InitWoven, <1>1, <1>2, PTL DEF Spec

-----------------------------------------------------------------------------
(* Brackets                                                                *)
(*                                                                         *)
(* The text and the positions of the tokens that make nodes are the        *)
(* parameters w and K.                                                     *)

Makers == {i \in Nat : MakesNode(i)}

Opened(w, a, b) == {i \in a..b : w[i] \in {"(", "["}}
Closed(w, a, b) == {i \in a..b : w[i] \in {")", "]"}}
Tuples(S) == {n \in S : n.role = "tuple"}

\* How many brackets positions a to b leave open.
Balance(w, a, b) == Cardinality(Opened(w, a, b)) - Cardinality(Closed(w, a, b))

\* If S has a node for each token that makes one from a to b, its tuples and d
\* brackets more are open there.
Covered(K, a, b, S) == \A i \in a..b : i \in K => \E n \in S : n.at = i
Even(w, K, a, b, S, d) ==
  Covered(K, a, b, S) => Balance(w, a, b) = Cardinality(Tuples(S)) + d

\* A tuple begins with a parenthesis that makes a node.
Sited(K, S) == IsFiniteSet(S) /\ \A n \in S : n.role = "tuple" => n.at \in K

EvenTree(w, K, t) == Sited(K, t.nodes) /\ Even(w, K, t.from, t.to, t.nodes, 0)

\* The token a handler begins with, and what it has opened behind that token.
Begun(w, K, c) ==
  CASE c.at \in {"probe", "grouped", "tuple"} ->
         w[c.mark + 1] = "(" /\ c.mark + 1 \in K
    [] c.at \in {"first", "list", "count", "index"} -> w[c.mark + 1] = "["
    [] c.at = "params" -> w[c.mark + 1] \in {"(", "."}
    [] OTHER -> w[c.mark + 1] \notin {"(", ")", "[", "]"}
Extra(w, c) == IF c.at = "params" /\ w[c.mark + 1] = "." THEN 1 ELSE 0

\* The elements of handler c are those of what it has eaten before position i.
Kept(w, K, c, i) == Unfed(w, c) \/ Even(w, K, c.mark + 2, i - 1, c.nodes, Extra(w, c))

EvenFrame(w, K, c) ==
  IF c.at # "expression" THEN Sited(K, c.nodes) /\ Begun(w, K, c)
  ELSE IF c.left # Nothing THEN EvenTree(w, K, c.left)
  ELSE c.mark = 0 \/ w[c.mark] # "x"
EvenBound(w, K, c, d) == c.at # "expression" => Kept(w, K, c, Start(d))
EvenFits(w, K, c, t) ==
  EvenTree(w, K, t) /\ (c.at # "expression" => Kept(w, K, c, t.from))

EvenStack(w, K, s) ==
  /\ \A i \in 1..Len(s) : EvenFrame(w, K, s[i])
  /\ \A i \in 1..Len(s) : i > 1 => EvenBound(w, K, s[i - 1], s[i])

EInv ==
  /\ EvenStack(ts, Makers, calls)
  /\ result \in Tree => IF calls = <<>> THEN EvenTree(ts, Makers, result)
                        ELSE EvenFits(ts, Makers, Top, result)

LEMMA BracketsFinite ==
  ASSUME NEW w, NEW a \in Int, NEW b \in Int
  PROVE  /\ IsFiniteSet(Opened(w, a, b)) /\ IsFiniteSet(Closed(w, a, b))
         /\ Cardinality(Opened(w, a, b)) \in Nat /\ Cardinality(Closed(w, a, b)) \in Nat
         /\ Balance(w, a, b) \in Int
<1>1. IsFiniteSet(a..b)
  BY FS_Interval
<1>2. Opened(w, a, b) \in SUBSET (a..b) /\ Closed(w, a, b) \in SUBSET (a..b)
  BY DEF Opened, Closed
<1>3. IsFiniteSet(Opened(w, a, b)) /\ IsFiniteSet(Closed(w, a, b))
  BY <1>1, <1>2, FS_Subset
<1>4. Cardinality(Opened(w, a, b)) \in Nat /\ Cardinality(Closed(w, a, b)) \in Nat
  BY <1>3, FS_CardinalityType
<1> QED
  BY <1>3, <1>4 DEF Balance

LEMMA DisjointUnion ==
  ASSUME NEW S, NEW T, IsFiniteSet(S), IsFiniteSet(T), S \cap T = {}
  PROVE  /\ IsFiniteSet(S \cup T) /\ Cardinality(S) \in Nat /\ Cardinality(T) \in Nat
         /\ Cardinality(S \cup T) = Cardinality(S) + Cardinality(T)
<1>1. /\ IsFiniteSet(S \cup T)
      /\ Cardinality(S \cup T) = Cardinality(S) + Cardinality(T) - Cardinality(S \cap T)
  BY FS_Union
<1>2. Cardinality(S \cap T) = 0 /\ Cardinality(S) \in Nat /\ Cardinality(T) \in Nat
  BY FS_EmptySet, FS_CardinalityType
<1> QED
  BY <1>1, <1>2

LEMMA BalanceJoins ==
  ASSUME NEW w, NEW a \in Int, NEW b \in Int, NEW c \in Int, a <= b + 1, b <= c
  PROVE  Balance(w, a, c) = Balance(w, a, b) + Balance(w, b + 1, c)
<1>1. \A i : i \in a..c <=> i \in a..b \/ i \in (b + 1)..c
  OBVIOUS
<1>2. (a..b) \cap ((b + 1)..c) = {} /\ b + 1 \in Int
  OBVIOUS
<1>3. Cardinality(Opened(w, a, c))
        = Cardinality(Opened(w, a, b)) + Cardinality(Opened(w, b + 1, c))
  <2>1. Opened(w, a, c) = Opened(w, a, b) \cup Opened(w, b + 1, c)
    BY <1>1 DEF Opened
  <2>2. Opened(w, a, b) \cap Opened(w, b + 1, c) = {}
    BY <1>2 DEF Opened
  <2> QED
    BY <1>2, <2>1, <2>2, BracketsFinite, DisjointUnion
<1>4. Cardinality(Closed(w, a, c))
        = Cardinality(Closed(w, a, b)) + Cardinality(Closed(w, b + 1, c))
  <2>1. Closed(w, a, c) = Closed(w, a, b) \cup Closed(w, b + 1, c)
    BY <1>1 DEF Closed
  <2>2. Closed(w, a, b) \cap Closed(w, b + 1, c) = {}
    BY <1>2 DEF Closed
  <2> QED
    BY <1>2, <2>1, <2>2, BracketsFinite, DisjointUnion
<1>5. /\ Cardinality(Opened(w, a, b)) \in Nat /\ Cardinality(Opened(w, b + 1, c)) \in Nat
      /\ Cardinality(Closed(w, a, b)) \in Nat /\ Cardinality(Closed(w, b + 1, c)) \in Nat
  BY <1>2, BracketsFinite
<1> QED
  BY <1>3, <1>4, <1>5 DEF Balance

\* One token.
Weight(t) == IF t \in {"(", "["} THEN 1 ELSE IF t \in {")", "]"} THEN -1 ELSE 0

LEMMA BalanceOfOne ==
  ASSUME NEW w, NEW i \in Int
  PROVE  Balance(w, i, i) = Weight(w[i])
<1>1. i..i = {i}
  OBVIOUS
<1>2. Opened(w, i, i) = IF w[i] \in {"(", "["} THEN {i} ELSE {}
  BY <1>1 DEF Opened
<1>3. Closed(w, i, i) = IF w[i] \in {")", "]"} THEN {i} ELSE {}
  BY <1>1 DEF Closed
<1>4. Cardinality({i}) = 1 /\ Cardinality({}) = 0
  BY FS_Singleton, FS_EmptySet
<1>5. Cardinality(Opened(w, i, i)) = IF w[i] \in {"(", "["} THEN 1 ELSE 0
  BY <1>2, <1>4
<1>6. Cardinality(Closed(w, i, i)) = IF w[i] \in {")", "]"} THEN 1 ELSE 0
  BY <1>3, <1>4
<1> QED
  BY <1>5, <1>6 DEF Balance, Weight

LEMMA BalanceOfNone ==
  ASSUME NEW w, NEW i \in Int
  PROVE  Balance(w, i + 1, i) = 0
<1>1. Opened(w, i + 1, i) = {} /\ Closed(w, i + 1, i) = {}
  BY DEF Opened, Closed
<1> QED
  BY <1>1, FS_EmptySet DEF Balance

\* Nodes side by side.
LEMMA EvenJoins ==
  ASSUME NEW w, NEW K, NEW a \in Int, NEW b \in Int, NEW c \in Int, a <= b + 1, b <= c,
         NEW S, NEW T, IsFiniteSet(S), IsFiniteSet(T), NEW d \in Int, NEW e \in Int,
         \A n \in S : n.at \in Int /\ n.at <= b, \A n \in T : n.at \in Int /\ b < n.at,
         Even(w, K, a, b, S, d), Even(w, K, b + 1, c, T, e)
  PROVE  Even(w, K, a, c, S \cup T, d + e)
<1> SUFFICES ASSUME Covered(K, a, c, S \cup T)
             PROVE  Balance(w, a, c) = Cardinality(Tuples(S \cup T)) + (d + e)
  BY DEF Even
<1>1. Covered(K, a, b, S)
  <2> SUFFICES ASSUME NEW i \in a..b, i \in K PROVE \E n \in S : n.at = i
    BY DEF Covered
  <2>1. i \in a..c /\ i <= b
    OBVIOUS
  <2>2. PICK n \in S \cup T : n.at = i
    BY <2>1 DEF Covered
  <2> QED
    BY <2>1, <2>2
<1>2. Covered(K, b + 1, c, T)
  <2> SUFFICES ASSUME NEW i \in (b + 1)..c, i \in K PROVE \E n \in T : n.at = i
    BY DEF Covered
  <2>1. i \in a..c /\ b < i
    OBVIOUS
  <2>2. PICK n \in S \cup T : n.at = i
    BY <2>1 DEF Covered
  <2> QED
    BY <2>1, <2>2
<1>3. /\ Balance(w, a, b) = Cardinality(Tuples(S)) + d
      /\ Balance(w, b + 1, c) = Cardinality(Tuples(T)) + e
  BY <1>1, <1>2 DEF Even
<1>4. /\ Cardinality(Tuples(S)) \in Nat /\ Cardinality(Tuples(T)) \in Nat
      /\ Cardinality(Tuples(S \cup T)) = Cardinality(Tuples(S)) + Cardinality(Tuples(T))
  <2>1. S \cap T = {}
    <3> SUFFICES ASSUME NEW n, n \in S, n \in T PROVE FALSE
      OBVIOUS
    <3>1. n.at \in Int /\ n.at <= b /\ b < n.at
      OBVIOUS
    <3> QED
      BY <3>1
  <2>2. Tuples(S \cup T) = Tuples(S) \cup Tuples(T) /\ Tuples(S) \cap Tuples(T) = {}
    BY <2>1 DEF Tuples
  <2>3. Tuples(S) \in SUBSET S /\ Tuples(T) \in SUBSET T
    BY DEF Tuples
  <2>4. IsFiniteSet(Tuples(S)) /\ IsFiniteSet(Tuples(T))
    BY <2>3, FS_Subset
  <2> QED
    BY <2>2, <2>4, DisjointUnion
<1>5. Balance(w, a, c) = Balance(w, a, b) + Balance(w, b + 1, c)
  BY BalanceJoins
<1> QED
  BY <1>3, <1>4, <1>5

\* No nodes for no tokens; one token more that makes no node; one that has one.
LEMMA EvenNone ==
  ASSUME NEW w, NEW K, NEW i \in Int
  PROVE  Even(w, K, i + 1, i, {}, 0)
<1>1. Cardinality(Tuples({})) = 0
  BY FS_EmptySet DEF Tuples
<1> QED
  BY <1>1, BalanceOfNone DEF Even

LEMMA EvenMore ==
  ASSUME NEW w, NEW K, NEW a \in Int, NEW b \in Int, a <= b + 1,
         NEW S, IsFiniteSet(S), NEW d \in Int,
         \A n \in S : n.at \in Int /\ n.at <= b, Even(w, K, a, b, S, d)
  PROVE  Even(w, K, a, b + 1, S, d + Weight(w[b + 1]))
<1>1. b + 1 \in Int /\ b <= b + 1 /\ Weight(w[b + 1]) \in Int
  BY DEF Weight
<1>2. Cardinality(Tuples({})) = 0 /\ IsFiniteSet({})
  BY FS_EmptySet DEF Tuples
<1> DEFINE e == Weight(w[b + 1])
<1>3. Balance(w, b + 1, b + 1) = e
  BY <1>1, BalanceOfOne
<1>4. Even(w, K, b + 1, b + 1, {}, e)
  BY <1>1, <1>2, <1>3 DEF Even
<1>5. Even(w, K, a, b + 1, S \cup {}, d + e)
  <2>1. e \in Int
    BY <1>1
  <2> HIDE DEF e
  <2> QED
    BY <1>1, <1>2, <1>4, <2>1, EvenJoins
<1>6. S \cup {} = S
  OBVIOUS
<1> QED
  BY <1>5, <1>6

\* A node and its own token.
LEMMA EvenOwn ==
  ASSUME NEW w, NEW K, NEW o, NEW i \in Int, o.at = i
  PROVE  Even(w, K, i, i, {o}, Weight(w[i]) - (IF o.role = "tuple" THEN 1 ELSE 0))
<1>1. Balance(w, i, i) = Weight(w[i]) /\ Weight(w[i]) \in Int
  BY BalanceOfOne DEF Weight
<1>2. Cardinality(Tuples({o})) = IF o.role = "tuple" THEN 1 ELSE 0
  <2>1. Tuples({o}) = IF o.role = "tuple" THEN {o} ELSE {}
    BY DEF Tuples
  <2> QED
    BY <2>1, FS_Singleton, FS_EmptySet
<1> QED
  BY <1>1, <1>2 DEF Even

\* Where no token makes a node, there is no tuple.
LEMMA EvenLost ==
  ASSUME NEW w, NEW K, NEW t \in Tree, EvenTree(w, K, t), Spanned(t)
  PROVE  Even(w, K, t.from, t.to, {}, 0)
<1> SUFFICES ASSUME Covered(K, t.from, t.to, {})
             PROVE  Balance(w, t.from, t.to) = Cardinality(Tuples({})) + 0
  BY DEF Even
<1>1. Tuples({}) = {} /\ Cardinality(Tuples({})) = 0
  BY FS_EmptySet DEF Tuples
<1>2. Covered(K, t.from, t.to, t.nodes)
  BY DEF Covered
<1>3. Tuples(t.nodes) = {}
  <2> SUFFICES ASSUME NEW n \in t.nodes, n.role = "tuple" PROVE FALSE
    BY DEF Tuples
  <2>1. n.at \in K /\ n \in Node /\ t.from \in Nat /\ t.to \in Nat
    BY DEF EvenTree, Sited, Tree
  <2>2. t.from <= n.from /\ n.from <= n.at /\ n.at <= n.to /\ n.to <= t.to
    BY DEF Spanned, InSpan
  <2>3. n.at \in t.from..t.to
    BY <2>1, <2>2 DEF Node
  <2> QED
    BY <2>1, <2>3 DEF Covered
<1> QED
  BY <1>1, <1>2, <1>3 DEF EvenTree, Even

\* A tree of a left operand, a token, and what comes behind it.
LEMMA MadeEven ==
  ASSUME NEW w, NEW K, NEW c \in Call, NEW role \in Role, NEW to \in Nat,
         c.mark + 1 <= to,
         c.left # Nothing => EvenTree(w, K, c.left) /\ Spanned(c.left) /\ c.left.to = c.mark,
         Sited(K, c.nodes), \A n \in c.nodes : c.mark + 1 < n.at,
         NEW e \in Int, Even(w, K, c.mark + 2, to, c.nodes, e),
         Weight(w[c.mark + 1]) + e = (IF role = "tuple" THEN 1 ELSE 0),
         role = "tuple" => c.mark + 1 \in K
  PROVE  EvenTree(w, K, Made(c, role, {}, to))
<1> DEFINE t == Made(c, role, {}, to)
           k == c.mark
           S == c.left.nodes
           T == c.nodes
<1>1. PICK o \in Node :
        /\ o.role = role /\ o.at = k + 1 /\ o.from = Start(c) /\ o.to = to
        /\ t.nodes = S \cup T \cup {o} /\ t.from = Start(c) /\ t.to = to
  BY MadeNodes
<1>2. /\ k \in Nat /\ c.left \in Tree \cup {Nothing} /\ T \in SUBSET Node
      /\ k + 1 \in Int /\ k + 2 \in Int /\ k + 1 + 1 = k + 2
  BY DEF Call
<1>3. /\ S \in SUBSET Node /\ Sited(K, S) /\ Start(c) \in Nat /\ Start(c) <= k + 1
      /\ \A n \in S : n.at <= k
      /\ Even(w, K, Start(c), k, S, 0)
  <2>1. CASE c.left = Nothing
    <3>1. S = {} /\ Start(c) = k + 1
      BY <2>1, NoTree DEF Start
    <3>2. Even(w, K, k + 1, k, {}, 0) /\ IsFiniteSet({})
      BY <1>2, EvenNone, FS_EmptySet
    <3> QED
      BY <1>2, <3>1, <3>2 DEF Sited
  <2>2. CASE c.left # Nothing
    <3>1. /\ Start(c) = c.left.from /\ S \in SUBSET Node /\ c.left.from \in Nat
          /\ EvenTree(w, K, c.left) /\ c.left.to = k /\ Spanned(c.left)
      BY <1>2, <2>2 DEF Start, Tree
    <3>2. c.left.from <= k /\ \A n \in S : n.at <= n.to /\ n.to <= k
      BY <3>1 DEF Spanned, InSpan
    <3>3. \A n \in S : n.at <= k
      BY <1>2, <3>1, <3>2, NodeType
    <3>4. Sited(K, S) /\ Even(w, K, Start(c), k, S, 0)
      BY <3>1 DEF EvenTree
    <3>5. Start(c) <= k + 1
      BY <1>2, <3>1, <3>2
    <3> QED
      BY <3>1, <3>3, <3>4, <3>5
  <2> QED
    BY <2>1, <2>2
<1>4. /\ \A n \in S : n.at \in Nat
      /\ \A n \in T : n.at \in Nat /\ k + 1 < n.at
  BY <1>2, <1>3, NodeType
<1> DEFINE r == IF role = "tuple" THEN 1 ELSE 0
           d == Weight(w[k + 1]) - r
<1>5. Even(w, K, k + 1, k + 1, {o}, d)
  BY <1>1, <1>2, EvenOwn
<1>6. d \in Int /\ d + e = 0 /\ 0 + d = d
  <2>1. Weight(w[k + 1]) \in Int /\ r \in Int
    BY DEF Weight
  <2>2. Weight(w[k + 1]) + e = r
    OBVIOUS
  <2> DEFINE v == Weight(w[k + 1])
  <2> HIDE DEF v, r
  <2> QED
    BY <2>1, <2>2 DEF v
<1>7. IsFiniteSet({o}) /\ IsFiniteSet(S) /\ IsFiniteSet(T)
  BY <1>3, FS_Singleton DEF Sited
<1>8. Even(w, K, k + 2, to, T, e)
  OBVIOUS
<1>9. k + 1 <= to /\ e \in Int /\ to \in Int
  OBVIOUS
<1>10. /\ \A n \in S : n.role = "tuple" => n.at \in K
       /\ \A n \in T : n.role = "tuple" => n.at \in K
       /\ role = "tuple" => k + 1 \in K
  BY <1>3 DEF Sited
<1> HIDE DEF t, k, S, T, d, r
<1>11. Even(w, K, Start(c), k + 1, S \cup {o}, d)
  <2>1. Even(w, K, Start(c), k + 1, S \cup {o}, 0 + d)
    <3>1. /\ Start(c) \in Int /\ k \in Int /\ k <= k + 1
          /\ \A n \in S : n.at \in Int /\ n.at <= k
          /\ \A n \in {o} : n.at \in Int /\ k < n.at
      BY <1>1, <1>2, <1>3, <1>4
    <3> QED
      BY <1>2, <1>3, <1>5, <1>6, <1>7, <3>1, EvenJoins
  <2> QED
    BY <1>6, <2>1
<1>12. IsFiniteSet(S \cup {o}) /\ IsFiniteSet(S \cup {o} \cup T)
  BY <1>7, FS_Union
<1>13. Even(w, K, Start(c), to, S \cup {o} \cup T, d + e)
  <2>1. /\ \A n \in S \cup {o} : n.at \in Int /\ n.at <= k + 1
        /\ \A n \in T : n.at \in Int /\ k + 1 < n.at
        /\ Start(c) \in Int /\ Start(c) <= k + 1 + 1
        /\ Even(w, K, k + 1 + 1, to, T, e)
    BY <1>1, <1>2, <1>3, <1>4, <1>8
  <2> QED
    BY <1>2, <1>6, <1>7, <1>9, <1>11, <1>12, <2>1, EvenJoins
<1>14. S \cup {o} \cup T = t.nodes
  BY <1>1
<1>15. Sited(K, t.nodes)
  <2>1. \A n \in t.nodes : n.role = "tuple" => n.at \in K
    BY <1>1, <1>10
  <2> QED
    BY <1>12, <1>14, <2>1 DEF Sited
<1> QED
  BY <1>1, <1>6, <1>13, <1>14, <1>15 DEF EvenTree, t

-----------------------------------------------------------------------------
(* What the stack of activations keeps of the brackets *)

LEMMA MakersStay ==
  ASSUME ts' = ts
  PROVE  Makers' = Makers
BY DEF Makers, MakesNode, Member

LEMMA EvenPopped ==
  ASSUME NEW w, NEW K, NEW s \in Seq(Call), s # <<>>, EvenStack(w, K, s)
  PROVE  EvenStack(w, K, SubSeq(s, 1, Len(s) - 1))
BY FrontOf DEF EvenStack

LEMMA EvenPushed ==
  ASSUME NEW w, NEW K, NEW s \in Seq(Call), NEW c \in Call, EvenStack(w, K, s),
         EvenFrame(w, K, c), s # <<>> => EvenBound(w, K, s[Len(s)], c)
  PROVE  EvenStack(w, K, Append(s, c))
<1>1. Len(s) = 0 <=> s = <<>>
  BY EmptySeq
<1> QED
  BY <1>1, BackOf DEF EvenStack

LEMMA EvenCaller ==
  ASSUME NEW w, NEW K, NEW n, NEW s, WellStacked(s, n), EvenStack(w, K, s), Len(s) > 1
  PROVE  /\ s[Len(s) - 1] \in Call /\ EvenFrame(w, K, s[Len(s) - 1])
         /\ EvenBound(w, K, s[Len(s) - 1], s[Len(s)])
         /\ s[Len(s) - 1].at = "expression" <=> s[Len(s)].at # "expression"
<1>1. s \in Seq(Call)
  BY DEF WellStacked
<1>2. Len(s) \in Nat
  BY <1>1
<1>3. Len(s) \in 1..Len(s) /\ Len(s) - 1 \in 1..Len(s)
  BY <1>2
<1>4. Linked(s[Len(s) - 1], s[Len(s)])
  BY <1>3 DEF WellStacked
<1> QED
  BY <1>1, <1>3, <1>4, ElementOfSeq DEF EvenStack, Linked

LEMMA EvenReplaced ==
  ASSUME NEW w, NEW K, NEW n, NEW s, WellStacked(s, n), s # <<>>, EvenStack(w, K, s),
         NEW c \in Call, EvenFrame(w, K, c),
         c.at = "expression" <=> s[Len(s)].at = "expression",
         c.at = "expression" => Start(c) = Start(s[Len(s)])
  PROVE  EvenStack(w, K, Append(SubSeq(s, 1, Len(s) - 1), c))
<1> DEFINE front == SubSeq(s, 1, Len(s) - 1)
           last == s[Len(s)]
           prev == s[Len(s) - 1]
<1>1. s \in Seq(Call) /\ Len(s) \in Nat /\ Len(s) >= 1
  BY FrontOf DEF WellStacked
<1>2. /\ front \in Seq(Call) /\ Len(front) = Len(s) - 1
      /\ \A i \in 1..(Len(s) - 1) : front[i] = s[i]
  BY <1>1, FrontOf
<1>3. EvenStack(w, K, front)
  BY <1>1, EvenPopped
<1>4. ASSUME front # <<>>
      PROVE  EvenBound(w, K, front[Len(front)], c)
  <2>1. Len(s) > 1
    BY <1>1, <1>2, <1>4, EmptySeq
  <2>2. front[Len(front)] = prev
    BY <1>1, <1>2, <2>1
  <2>3. /\ EvenBound(w, K, prev, last)
        /\ prev.at = "expression" <=> last.at # "expression"
    BY <2>1, EvenCaller
  <2>4. /\ c.at = "expression" <=> last.at = "expression"
        /\ c.at = "expression" => Start(c) = Start(last)
    OBVIOUS
  <2> HIDE DEF prev, last
  <2>5. EvenBound(w, K, prev, c)
    BY <2>3, <2>4 DEF EvenBound
  <2> QED
    BY <2>2, <2>5
<1> HIDE DEF front
<1>5. EvenStack(w, K, Append(front, c))
  BY <1>2, <1>3, <1>4, EvenPushed
<1> QED
  BY <1>5 DEF front

\* What holds of the innermost activation, and of the one that called it.
LEMMA TopEven ==
  ASSUME IInv, EInv, Running
  PROVE  /\ EvenFrame(ts, Makers, Top)
         /\ result \in Tree => EvenFits(ts, Makers, Top, result)
<1>1. /\ calls \in Seq(Call) /\ calls # <<>> /\ Top = calls[Len(calls)]
      /\ Len(calls) \in Nat /\ Len(calls) >= 1
  BY TopType
<1>2. Len(calls) \in 1..Len(calls)
  BY <1>1
<1> QED
  BY <1>1, <1>2 DEF EInv, EvenStack

LEMMA BelowIs ==
  ASSUME IInv, Running
  PROVE  /\ Below \in Seq(Call)
         /\ Len(calls) = 1 => Below = <<>>
         /\ Len(calls) # 1 => /\ Below # <<>> /\ Below[Len(Below)] = calls[Len(calls) - 1]
                              /\ Len(calls) > 1
<1>1. /\ calls \in Seq(Call) /\ calls # <<>>
      /\ Len(calls) \in Nat /\ Len(calls) >= 1
      /\ Below = SubSeq(calls, 1, Len(calls) - 1)
  BY TopType
<1> DEFINE l == Len(calls)
           k == l - 1
<1>2. /\ Below \in Seq(Call) /\ Len(Below) = k
      /\ \A i \in 1..k : Below[i] = calls[i]
  BY <1>1, FrontOf
<1>3. l \in Nat /\ l >= 1
  BY <1>1
<1> HIDE DEF l
<1>4. CASE l = 1
  <2>1. k = 0
    BY <1>4
  <2>2. Below = <<>>
    BY <1>2, <2>1, EmptySeq
  <2> QED
    BY <1>2, <1>4, <2>2 DEF l
<1>5. CASE l # 1
  <2>1. k \in Nat /\ k >= 1 /\ l > 1 /\ k \in 1..k
    BY <1>3, <1>5
  <2>2. Below # <<>>
    BY <1>2, <2>1, EmptySeq
  <2>3. Below[k] = calls[k]
    BY <1>2, <2>1
  <2> QED
    BY <1>2, <1>5, <2>1, <2>2, <2>3 DEF l
<1> QED
  BY <1>4, <1>5

LEMMA EndEven ==
  ASSUME EInv, NEW how, End(how)
  PROVE  EInv'
<1>1. ts' = ts /\ calls' = calls /\ result' = result
  BY DEF End
<1>2. Makers' = Makers /\ Top' = Top
  BY <1>1, MakersStay DEF Top
<1>3. EvenStack(ts, Makers, calls)'
  BY <1>1, <1>2 DEF EInv
<1>4. (result \in Tree => IF calls = <<>> THEN EvenTree(ts, Makers, result)
                          ELSE EvenFits(ts, Makers, Top, result))'
  BY <1>1, <1>2 DEF EInv
<1> QED
  BY <1>3, <1>4 DEF EInv

\* parseExpression goes on with a tree.
LEMMA ContinueEven ==
  ASSUME IInv, EInv, Running, Top.at = "expression",
         NEW c \in Call, NEW n \in Nat, c.at = "expression", Start(c) = Start(Top),
         EvenFrame(ts, Makers, c), Continue(c, n)
  PROVE  EInv'
<1>1. /\ calls \in Seq(Call) /\ calls # <<>>
      /\ Top = calls[Len(calls)] /\ Below = SubSeq(calls, 1, Len(calls) - 1)
  BY TopType
<1>2. /\ calls' = Append(Below, c) /\ result' = Nothing /\ ts' = ts
  BY DEF Continue
<1>3. Makers' = Makers
  BY <1>2, MakersStay
<1>4. EvenStack(ts, Makers, calls')
  BY <1>1, <1>2, EvenReplaced DEF IInv, EInv
<1>5. EvenStack(ts, Makers, calls)'
  BY <1>2, <1>3, <1>4
<1>6. result' \notin Tree
  BY <1>2, NoTree
<1> QED
  BY <1>5, <1>6 DEF EInv

\* An activation fails, or returns the tree t that its caller can use.
LEMMA ReturnEven ==
  ASSUME IInv, EInv, Running, NEW t \in Tree \cup {Failure}, NEW off,
         t # Failure =>
           IF Len(calls) = 1 THEN EvenTree(ts, Makers, t)
           ELSE EvenFits(ts, Makers, calls[Len(calls) - 1], t),
         Return(t, off)
  PROVE  EInv'
<1>1. /\ calls \in Seq(Call) /\ calls # <<>>
      /\ Below = SubSeq(calls, 1, Len(calls) - 1)
  BY TopType
<1>2. /\ calls' = Below /\ result' = t /\ ts' = ts
  BY DEF Return
<1>3. Makers' = Makers
  BY <1>2, MakersStay
<1>4. EvenStack(ts, Makers, Below)
  BY <1>1, EvenPopped DEF EInv
<1>5. EvenStack(ts, Makers, calls)'
  BY <1>2, <1>3, <1>4
<1>6. t # Failure => IF Below = <<>> THEN EvenTree(ts, Makers, t)
                     ELSE EvenFits(ts, Makers, Below[Len(Below)], t)
  BY BelowIs
<1>7. Top' = Below[Len(Below)] /\ (t \in Tree => t # Failure)
  BY <1>2, NoTree DEF Top
<1>8. (result \in Tree => IF calls = <<>> THEN EvenTree(ts, Makers, result)
                          ELSE EvenFits(ts, Makers, Top, result))'
  BY <1>2, <1>3, <1>6, <1>7
<1> QED
  BY <1>5, <1>8 DEF EInv

LEMMA FailsEven ==
  ASSUME IInv, EInv, Running, NEW off, Return(Failure, off)
  PROVE  EInv'
BY ReturnEven

\* The innermost activation of stack s calls parseExpression.
LEMMA CallEven ==
  ASSUME EInv, NEW s \in Seq(Call), s # <<>>, EvenStack(ts, Makers, s),
         NEW power \in Nat, NEW off \in Nat,
         Kept(ts, Makers, s[Len(s)], off + 1), off = 0 \/ ts[off] # "x",
         CallExpression(s, power, off)
  PROVE  EInv'
<1> DEFINE e == Expression(power, off)
           last == s[Len(s)]
<1>1. CASE Len(s) >= MaxCalls
  BY <1>1, EndEven DEF CallExpression
<1>2. CASE ~(Len(s) >= MaxCalls)
  <2>1. calls' = Append(s, e) /\ result' = Nothing /\ ts' = ts
    BY <1>2 DEF CallExpression
  <2>2. e \in Call /\ e.at = "expression" /\ e.left = Nothing /\ e.mark = off
    BY ExpressionType
  <2> HIDE DEF e
  <2>3. Start(e) = off + 1
    BY <2>2 DEF Start
  <2>4. EvenFrame(ts, Makers, e)
    BY <2>2 DEF EvenFrame
  <2>5. EvenBound(ts, Makers, last, e)
    <3>1. Kept(ts, Makers, last, off + 1)
      OBVIOUS
    <3> HIDE DEF last
    <3> QED
      BY <2>3, <3>1 DEF EvenBound
  <2>6. EvenStack(ts, Makers, Append(s, e))
    BY <2>2, <2>4, <2>5, EvenPushed
  <2>7. Makers' = Makers
    BY <2>1, MakersStay
  <2>8. EvenStack(ts, Makers, calls)'
    BY <2>1, <2>6, <2>7
  <2>9. result' \notin Tree
    BY <2>1, NoTree
  <2> QED
    BY <2>8, <2>9 DEF EInv
<1> QED
  BY <1>1, <1>2

-----------------------------------------------------------------------------
(* What the steps keep of the brackets *)

LEMMA BalanceOfTwo ==
  ASSUME NEW w, NEW i \in Int
  PROVE  Balance(w, i, i + 1) = Weight(w[i]) + Weight(w[i + 1])
<1>1. i + 1 \in Int /\ i <= i + 1
  OBVIOUS
<1>2. Balance(w, i, i + 1) = Balance(w, i, i) + Balance(w, i + 1, i + 1)
  BY <1>1, BalanceJoins
<1> QED
  BY <1>1, <1>2, BalanceOfOne

\* The tokens of an expression that is made at once balance.
LEMMA ExtendEven ==
  ASSUME IInv, BInv, EInv, Running, Top.at = "expression", result = Nothing,
         NEW role \in Role \ {"tuple"}, NEW n \in Nat \ {0},
         Balance(ts, offset + 1, offset + n) = 0, Extend(role, n)
  PROVE  EInv'
<1> DEFINE to == offset + n
           t == Made(Here, role, {}, to)
           c == [Here EXCEPT !.left = t]
           e == Balance(ts, offset + 2, to)
           w == ts
           K == Makers
<1>1. /\ Here \in Call /\ Here.at = "expression" /\ Here.mark = offset
      /\ Here.left = Top.left /\ Start(Here) = Start(Top) /\ LeftEnds(Here, offset)
  BY HereType
<1>2. /\ Top \in Call /\ Framed(ts, Lefts, Top) /\ offset \in Nat
      /\ EvenFrame(w, K, Top)
  BY TopType, TopWoven, TopEven
<1>3. Here.nodes = {}
  BY <1>1, <1>2 DEF Here, Call, Framed
<1>4. Here.left # Nothing =>
        EvenTree(w, K, Here.left) /\ Spanned(Here.left) /\ Here.left.to = Here.mark
  BY <1>1, <1>2 DEF Framed, LeftEnds, EvenFrame, Whole
<1>5. to \in Nat /\ Here.mark + 1 <= to
  BY <1>1, <1>2
<1>6. e \in Int /\ Weight(w[offset + 1]) + e = 0
  <2>1. e \in Int
    BY <1>2, <1>5, BracketsFinite
  <2>2. offset + 1 \in Int /\ offset + 1 <= to /\ offset + 1 + 1 = offset + 2 /\ to \in Int
    BY <1>2, <1>5
  <2>3. Balance(w, offset + 1, to)
          = Balance(w, offset + 1, offset + 1) + Balance(w, offset + 2, to)
    <3>1. Balance(w, offset + 1, to)
            = Balance(w, offset + 1, offset + 1) + Balance(w, offset + 1 + 1, to)
      BY <2>2, BalanceJoins
    <3> QED
      BY <2>2, <3>1
  <2>4. Balance(w, offset + 1, offset + 1) = Weight(w[offset + 1])
    BY <2>2, BalanceOfOne
  <2> QED
    BY <2>1, <2>3, <2>4
<1>7. Even(w, K, Here.mark + 2, to, Here.nodes, e)
  <2>1. Cardinality(Tuples({})) = 0
    BY FS_EmptySet DEF Tuples
  <2> HIDE DEF to
  <2> QED
    BY <1>1, <1>3, <1>6, <2>1 DEF Even
<1>8. Sited(K, Here.nodes) /\ \A m \in Here.nodes : Here.mark + 1 < m.at
  BY <1>3, FS_EmptySet DEF Sited
<1>9. role \in Role /\ role # "tuple" /\ Weight(w[Here.mark + 1]) + e = 0
  BY <1>1, <1>6
<1>10. EvenTree(w, K, t)
  <2> HIDE DEF e, to, K, w
  <2> QED
    BY <1>1, <1>4, <1>5, <1>6, <1>7, <1>8, <1>9, MadeEven
<1>11. t \in Tree /\ t.from = Start(Top)
  BY <1>1, <1>5, MadeType
<1>12. Continue(c, n)
  BY DEF Extend
<1> HIDE DEF t, to
<1>13. c \in Call /\ c.at = "expression" /\ c.left = t
  BY <1>1, <1>11, LeftType
<1> HIDE DEF c
<1>14. Start(c) = Start(Top) /\ c.left # Nothing
  BY <1>11, <1>13, NoTree DEF Start
<1>15. EvenFrame(ts, Makers, c)
  BY <1>10, <1>13, <1>14 DEF EvenFrame
<1> QED
  BY <1>12, <1>13, <1>14, <1>15, ContinueEven

Handling(h) ==
  [at |-> h, mark |-> offset, power |-> 0, left |-> Top.left, nodes |-> {}]

\* parseExpression calls handler h.
LEMMA HandlerEven ==
  ASSUME IInv, EInv, Running, Top.at = "expression", result = Nothing,
         NEW h \in Handler \ {"expression"}, NEW power \in Nat, NEW off \in Nat,
         Begun(ts, Makers, Handling(h)), Kept(ts, Makers, Handling(h), off + 1),
         off = 0 \/ ts[off] # "x", CallExpression(Calling(h), power, off)
  PROVE  EInv'
<1> DEFINE c == Handling(h)
           s == Append(Below, Here)
           r == Append(s, c)
<1>1. /\ calls \in Seq(Call) /\ calls # <<>> /\ Top \in Call /\ TopOK(Top)
      /\ Top = calls[Len(calls)] /\ Below = SubSeq(calls, 1, Len(calls) - 1)
      /\ offset \in Nat /\ EvenFrame(ts, Makers, Top)
  BY TopType, TopEven
<1>2. /\ Here \in Call /\ Here.at = "expression" /\ Here.mark = offset
      /\ Here.left = Top.left /\ Start(Here) = Start(Top)
  BY HereType
<1>3. EvenFrame(ts, Makers, Here)
  BY <1>1, <1>2 DEF EvenFrame, TopOK
<1>4. c \in Call /\ c.at = h /\ c.nodes = {}
  BY <1>1 DEF Call, Handling
<1>5. Calling(h) = r
  BY DEF Calling, Handling
<1>6. Below \in Seq(Call)
  BY BelowIs
<1>7. s \in Seq(Call) /\ s # <<>> /\ s[Len(s)] = Here
  BY <1>2, <1>6, BackOf
<1>8. EvenStack(ts, Makers, s)
  BY <1>1, <1>2, <1>3, EvenReplaced DEF IInv, EInv
<1>9. Begun(ts, Makers, c) /\ Kept(ts, Makers, c, off + 1)
  OBVIOUS
<1> HIDE DEF c, s
<1>10. EvenFrame(ts, Makers, c)
  BY <1>4, <1>9, FS_EmptySet DEF EvenFrame, Sited
<1>11. EvenBound(ts, Makers, Here, c)
  BY <1>2 DEF EvenBound
<1>12. EvenStack(ts, Makers, r)
  BY <1>4, <1>7, <1>8, <1>10, <1>11, EvenPushed
<1>13. r \in Seq(Call) /\ r # <<>> /\ r[Len(r)] = c
  BY <1>4, <1>7, BackOf
<1>14. CallExpression(r, power, off)
  BY <1>5
<1> HIDE DEF r
<1> QED
  BY <1>9, <1>12, <1>13, <1>14, CallEven

\* A handler whose first element follows its token.
LEMMA FollowedEven ==
  ASSUME IInv, NEW h, h # "params" \/ Current # "."
  PROVE  Kept(ts, Makers, Handling(h), offset + 1 + 1)
<1>1. Current = ts[offset + 1] /\ offset \in Nat
  BY CurrentIs DEF IInv, TypeOK
<1> DEFINE c == Handling(h)
<1>2. c.at = h /\ c.mark = offset /\ c.nodes = {}
  BY DEF Handling
<1> HIDE DEF c
<1>3. Extra(ts, c) = 0
  BY <1>1, <1>2 DEF Extra
<1>4. offset + 1 \in Int /\ offset + 1 + 1 = offset + 2 /\ offset + 1 + 1 - 1 = offset + 1
  BY <1>1
<1>5. Even(ts, Makers, offset + 1 + 1, offset + 1, {}, 0)
  BY <1>4, EvenNone
<1>6. Even(ts, Makers, c.mark + 2, offset + 1 + 1 - 1, c.nodes, Extra(ts, c))
  BY <1>2, <1>3, <1>4, <1>5
<1>7. Kept(ts, Makers, c, offset + 1 + 1)
  BY <1>4, <1>6 DEF Kept
<1> QED
  BY <1>7 DEF c

\* The elements of a handler and what its callee has given it, which may be lost.
LEMMA ReturnedEven ==
  ASSUME IInv, BInv, EInv, NEW h \in Handler \ {"expression"}, Returned(h), result # Failure,
         NEW S \in {Top.nodes, Top.nodes \cup result.nodes}
  PROVE  /\ Sited(Makers, S) /\ Begun(ts, Makers, Top)
         /\ Even(ts, Makers, Top.mark + 2, offset, S, Extra(ts, Top))
<1>1. /\ Running /\ Top.at # "expression" /\ Top \in Call /\ Top.mark \in Nat
      /\ offset \in Nat /\ result \in Tree
  BY ReturnedType
<1>2. /\ ~Unfed(ts, Top) /\ Elements(ts, Lefts, Top) /\ Spanned(result)
      /\ result.to = offset /\ Behind(Top.nodes, result.from)
      /\ Top.mark + 1 < result.from /\ result.from \in Nat
  BY <1>1, ReturnedWoven, TopWoven DEF Whole
<1>3. /\ Sited(Makers, Top.nodes) /\ Begun(ts, Makers, Top)
      /\ EvenTree(ts, Makers, result) /\ Kept(ts, Makers, Top, result.from)
  BY <1>1, TopEven DEF EvenFrame, EvenFits
<1> DEFINE x == Extra(ts, Top)
           a == Top.mark + 2
           b == result.from - 1
           w == ts
           K == Makers
           N == Top.nodes
<1>4. Even(w, K, a, b, N, x)
  BY <1>2, <1>3 DEF Kept
<1>5. x \in Int /\ a \in Int /\ b \in Int /\ a <= b + 1 /\ b <= offset /\ b + 1 = result.from
  <2>1. result.from <= offset
    BY <1>2 DEF Spanned
  <2> QED
    BY <1>1, <1>2, <2>1 DEF Extra
<1>6. IsFiniteSet(N) /\ IsFiniteSet(result.nodes) /\ IsFiniteSet({})
  BY <1>3, FS_EmptySet DEF Sited, EvenTree
<1>7. \A n \in N : n.at \in Int /\ n.at <= b
  <2> SUFFICES ASSUME NEW n \in N PROVE n.at \in Int /\ n.at <= b
    OBVIOUS
  <2>1. n.at \in Nat /\ n.to \in Nat
    BY <1>1, NodeType DEF Call
  <2>2. n.at <= n.to /\ n.to + 1 < result.from
    BY <1>2 DEF Elements, InSpan, Behind
  <2> QED
    BY <1>2, <2>1, <2>2
<1>8. \A n \in result.nodes : n.at \in Int /\ b < n.at
  <2> SUFFICES ASSUME NEW n \in result.nodes PROVE n.at \in Int /\ b < n.at
    OBVIOUS
  <2>1. n.at \in Nat /\ n.from \in Nat
    BY <1>1, NodeType DEF Tree
  <2>2. result.from <= n.from /\ n.from <= n.at
    BY <1>2 DEF Spanned, InSpan
  <2> QED
    BY <1>2, <2>1, <2>2
<1>9. /\ Even(w, K, b + 1, offset, result.nodes, 0)
      /\ Even(w, K, b + 1, offset, {}, 0)
  <2>1. Even(w, K, result.from, result.to, {}, 0)
    BY <1>1, <1>2, <1>3, EvenLost
  <2> QED
    BY <1>2, <1>3, <1>5, <2>1 DEF EvenTree
<1>10. offset \in Int /\ x + 0 = x /\ 0 \in Int
  BY <1>1, <1>5
<1> HIDE DEF x, a, b, w, K, N
<1>11. CASE S = Top.nodes
  <2>1. Even(w, K, a, offset, N \cup {}, x + 0)
    BY <1>4, <1>5, <1>6, <1>7, <1>9, <1>10, EvenJoins
  <2>2. N \cup {} = S
    BY <1>11 DEF N
  <2> QED
    BY <1>3, <1>10, <1>11, <2>1, <2>2 DEF x, a, w, K
<1>12. CASE S = Top.nodes \cup result.nodes
  <2>1. Even(w, K, a, offset, N \cup result.nodes, x + 0)
    BY <1>4, <1>5, <1>6, <1>7, <1>8, <1>9, <1>10, EvenJoins
  <2>2. N \cup result.nodes = S
    BY <1>12 DEF N
  <2>3. Sited(K, N \cup result.nodes)
    <3>1. Sited(K, N) /\ Sited(K, result.nodes)
      BY <1>3 DEF EvenTree, K, N
    <3> QED
      BY <1>6, <3>1, FS_Union DEF Sited
  <2> QED
    BY <1>3, <1>10, <2>1, <2>2, <2>3 DEF x, a, w, K
<1> QED
  BY <1>11, <1>12

\* A handler returns the tree it makes of its left operand and its elements.
LEMMA MakesEven ==
  ASSUME IInv, BInv, EInv, NEW h \in Handler \ {"expression"}, Returned(h), result # Failure,
         NEW c, Gathered(c), c.nodes \in {Top.nodes, Top.nodes \cup result.nodes},
         NEW role \in Role, role = "tuple" => h = "tuple", NEW to \in Nat, offset <= to,
         NEW e \in Int, Even(ts, Makers, c.mark + 2, to, c.nodes, e),
         Weight(ts[c.mark + 1]) + e = (IF role = "tuple" THEN 1 ELSE 0),
         Return(Made(c, role, {}, to), to)
  PROVE  EInv'
<1>1. /\ Running /\ Top \in Call /\ Top.at # "expression" /\ Top.at = h
      /\ offset \in Nat /\ Top.mark \in Nat /\ result \in Tree
  BY ReturnedType DEF Returned
<1>2. /\ calls \in Seq(Call) /\ Top = calls[Len(calls)] /\ TopOK(Top)
      /\ WellStacked(calls, Len(ts)) /\ Woven(ts, Lefts, calls)
      /\ EvenStack(ts, Makers, calls) /\ Len(calls) \in Nat /\ Len(calls) >= 1
  BY <1>1, TopType DEF IInv, BInv, EInv
<1>3. Len(calls) > 1 /\ Len(calls) # 1
  <2>1. Len(calls) # 1
    BY <1>1, <1>2 DEF WellStacked, Root
  <2> QED
    BY <1>1, <2>1, BelowIs
<1> DEFINE d == calls[Len(calls) - 1]
<1>4. /\ d \in Call /\ Framed(ts, Lefts, d) /\ Bound(ts, Lefts, d, Top)
      /\ d.at = "expression" /\ EvenFrame(ts, Makers, d)
  BY <1>1, <1>2, <1>3, CallerOf, EvenCaller
<1> HIDE DEF d
<1>5. Top.left = d.left /\ (d.left # Nothing => Spanned(d.left) /\ EvenTree(ts, Makers, d.left))
  BY <1>4 DEF Framed, Bound, EvenFrame, Whole
<1>6. Top.left # Nothing => Top.left.to = Top.mark
  BY <1>1, <1>2 DEF TopOK, LeftEnds
<1>7. /\ c \in Call /\ c.mark = Top.mark /\ c.left = Top.left /\ c.nodes \in SUBSET Node
      /\ \A n \in c.nodes : c.mark + 1 < n.from /\ InSpan(n)
  BY DEF Gathered, Call
<1>8. /\ Sited(Makers, c.nodes) /\ Begun(ts, Makers, Top)
      /\ Top.mark + 1 < result.from /\ result.from \in Nat /\ result.from <= offset
  BY ReturnedEven, ReturnedWoven DEF Whole, Spanned
<1>9. c.mark + 1 <= to
  BY <1>1, <1>7, <1>8
<1>10. \A n \in c.nodes : c.mark + 1 < n.at
  <2> SUFFICES ASSUME NEW n \in c.nodes PROVE c.mark + 1 < n.at
    OBVIOUS
  <2>1. n.at \in Nat /\ n.from \in Nat
    BY <1>7, NodeType
  <2> QED
    BY <1>1, <1>7, <2>1 DEF InSpan
<1>11. role = "tuple" => c.mark + 1 \in Makers
  BY <1>1, <1>7, <1>8 DEF Begun
<1>12. c.left # Nothing =>
         EvenTree(ts, Makers, c.left) /\ Spanned(c.left) /\ c.left.to = c.mark
  BY <1>5, <1>6, <1>7
<1> DEFINE w == ts
           K == Makers
           t == Made(c, role, {}, to)
<1>13. /\ Even(w, K, c.mark + 2, to, c.nodes, e)
       /\ Weight(w[c.mark + 1]) + e = (IF role = "tuple" THEN 1 ELSE 0)
       /\ Sited(K, c.nodes)
       /\ c.left # Nothing => EvenTree(w, K, c.left) /\ Spanned(c.left) /\ c.left.to = c.mark
       /\ role = "tuple" => c.mark + 1 \in K
  BY <1>8, <1>11, <1>12
<1>14. EvenTree(w, K, t)
  <2> HIDE DEF w, K
  <2> QED
    BY <1>7, <1>9, <1>10, <1>13, MadeEven
<1>15. t \in Tree /\ Return(t, to)
  BY <1>7, MadeType
<1> HIDE DEF t
<1>16. EvenFits(ts, Makers, d, t)
  BY <1>4, <1>14 DEF EvenFits
<1> QED
  BY <1>1, <1>3, <1>15, <1>16, ReturnEven DEF d

LEMMA TokensAre ==
  ASSUME IInv
  PROVE  /\ offset \in Nat /\ Current = ts[offset + 1]
         /\ TokenAt(1) # "none" => TokenAt(1) = ts[offset + 2]
         /\ TokenAt(2) # "none" => TokenAt(2) = ts[offset + 3]
         /\ TokenAt(3) # "none" => TokenAt(3) = ts[offset + 4]
<1>1. offset \in Nat /\ Current = ts[offset + 1]
  BY CurrentIs DEF IInv, TypeOK
<1>2. /\ offset + 1 + 1 = offset + 2 /\ offset + 2 + 1 = offset + 3
      /\ offset + 3 + 1 = offset + 4
  BY <1>1
<1> QED
  BY <1>1, <1>2 DEF TokenAt

\* The closing bracket, and the comma that may stand before it.
BracketEnds(n) ==
  /\ ts[offset + n] \in {")", "]"}
  /\ n = 2 => ts[offset + 1] = ","

LEMMA Behinds ==
  ASSUME NEW a \in Nat, NEW b \in Nat, a <= b + 1
  PROVE  a \in Int /\ b \in Int /\ b + 1 \in Int /\ a <= b + 1 + 1 /\ b + 1 + 1 = b + 2
OBVIOUS

LEMMA Adding ==
  ASSUME NEW x \in Int
  PROVE  x + 0 = x
OBVIOUS

LEMMA Within ==
  ASSUME NEW S \in SUBSET Node, NEW b \in Nat, \A m \in S : m.to <= b /\ InSpan(m)
  PROVE  \A m \in S : m.at \in Int /\ m.at <= b /\ m.at <= b + 1
<1> SUFFICES ASSUME NEW m \in S PROVE m.at \in Int /\ m.at <= b /\ m.at <= b + 1
  OBVIOUS
<1>1. m.at \in Nat /\ m.to \in Nat /\ m.at <= m.to /\ m.to <= b
  BY NodeType DEF InSpan
<1> QED
  BY <1>1

LEMMA ClosingEven ==
  ASSUME NEW w, NEW K, NEW a \in Nat, NEW b \in Nat, a <= b + 1, NEW S \in SUBSET Node,
         IsFiniteSet(S), \A m \in S : m.to <= b /\ InSpan(m), NEW x \in Int,
         Even(w, K, a, b, S, x), NEW n \in {1, 2}, w[b + n] \in {")", "]"},
         n = 2 => w[b + 1] = ","
  PROVE  Even(w, K, a, b + n, S, x - 1)
<1>1. \A m \in S : m.at \in Int /\ m.at <= b /\ m.at <= b + 1
  BY Within
<1>2. a \in Int /\ b \in Int /\ b + 1 \in Int /\ a <= b + 1 + 1 /\ b + 1 + 1 = b + 2
  BY Behinds
<1>3. Even(w, K, a, b + 1, S, x + Weight(w[b + 1]))
  BY <1>1, <1>2, EvenMore
<1>4. CASE n = 1
  <2>1. Weight(w[b + 1]) = -1
    BY <1>4 DEF Weight
  <2>2. x + Weight(w[b + 1]) = x - 1
    BY <2>1
  <2> QED
    BY <1>3, <1>4, <2>2
<1>5. CASE n = 2
  <2>1. x + Weight(w[b + 1]) = x /\ Weight(w[b + 2]) = -1
    <3>1. w[b + 1] = "," /\ w[b + 2] \in {")", "]"}
      BY <1>5
    <3>2. Weight(w[b + 1]) = 0 /\ Weight(w[b + 2]) = -1
      BY <3>1 DEF Weight
    <3> QED
      BY <3>2, Adding, Zenon
  <2>2. Even(w, K, a, b + 1 + 1, S, x + Weight(w[b + 1 + 1]))
    <3>1. Even(w, K, a, b + 1, S, x)
      BY <1>3, <2>1
    <3> QED
      BY <1>1, <1>2, <3>1, EvenMore
  <2>3. x + Weight(w[b + 1 + 1]) = x - 1 /\ b + 1 + 1 = b + n
    BY <1>2, <1>5, <2>1
  <2> QED
    BY <2>2, <2>3
<1> QED
  BY <1>4, <1>5

LEMMA BracketEven ==
  ASSUME IInv, BInv, EInv, NEW h \in {"grouped", "params", "index", "first", "count", "list"},
         Returned(h), result # Failure,
         NEW c, Gathered(c), c.nodes \in {Top.nodes, Top.nodes \cup result.nodes},
         NEW n \in {1, 2}, BracketEnds(n), Return(Made(c, "bracket", {}, offset + n), offset + n)
  PROVE  EInv'
<1>1. h \in Handler \ {"expression"} /\ "bracket" \in Role /\ "bracket" # "tuple"
  BY DEF Handler, Role
<1>2. /\ offset \in Nat /\ Top.mark \in Nat /\ Top.at = h
      /\ offset + n \in Nat /\ offset <= offset + n
  BY <1>1, ReturnedType DEF Returned
<1>3. /\ c \in Call /\ c.mark = Top.mark /\ c.nodes \in SUBSET Node
      /\ \A m \in c.nodes : InSpan(m) /\ m.to <= offset
  BY DEF Gathered, Call
<1> DEFINE x == Extra(ts, Top)
<1>4. /\ Sited(Makers, c.nodes) /\ Begun(ts, Makers, Top)
      /\ Even(ts, Makers, Top.mark + 2, offset, c.nodes, x)
  BY <1>1, ReturnedEven
<1>5. x \in Int /\ Weight(ts[c.mark + 1]) + (x - 1) = 0
  <2>1. CASE h = "params" /\ ts[Top.mark + 1] = "."
    BY <1>2, <1>3, <2>1 DEF Extra, Weight
  <2>2. CASE ~(h = "params" /\ ts[Top.mark + 1] = ".")
    <3>1. ts[Top.mark + 1] \in {"(", "["}
      BY <1>2, <1>4, <2>2 DEF Begun
    <3> QED
      BY <1>2, <1>3, <2>2, <3>1 DEF Extra, Weight
  <2> QED
    BY <2>1, <2>2
<1>6. Top.mark + 2 \in Nat /\ Top.mark + 2 <= offset + 1
  <2>1. Top.mark + 1 < result.from /\ result.from <= offset /\ result.from \in Nat
    BY <1>1, ReturnedWoven DEF Whole, Spanned
  <2> QED
    BY <1>2, <2>1
<1> HIDE DEF x
<1>7. Even(ts, Makers, c.mark + 2, offset + n, c.nodes, x - 1)
  <2> DEFINE w == ts
             K == Makers
             a == Top.mark + 2
             b == offset
             S == c.nodes
  <2>1. /\ a \in Nat /\ b \in Nat /\ a <= b + 1 /\ S \in SUBSET Node /\ IsFiniteSet(S)
        /\ \A m \in S : m.to <= b /\ InSpan(m)
        /\ Even(w, K, a, b, S, x) /\ w[b + n] \in {")", "]"} /\ (n = 2 => w[b + 1] = ",")
    BY <1>2, <1>3, <1>4, <1>6 DEF Sited, BracketEnds
  <2> HIDE DEF w, K, a, b, S
  <2>2. Even(w, K, a, b + n, S, x - 1)
    BY <1>5, <2>1, ClosingEven
  <2> QED
    BY <1>3, <2>2 DEF w, K, a, b, S
<1>8. x - 1 \in Int
  BY <1>5
<1> QED
  BY <1>1, <1>2, <1>5, <1>7, <1>8, MakesEven

\* Elements are what the handler has or that and what it has got.
LEMMA CollectedIs ==
  ASSUME IInv, BInv, NEW h \in Handler \ {"expression"}, Returned(h), result # Failure
  PROVE  /\ Gathered(Collected) /\ Collected.nodes = Top.nodes \cup result.nodes
         /\ Collected.mark = Top.mark
BY AllGathered DEF Gathered

\* An operator and its operand.
LEMMA OperandEven ==
  ASSUME IInv, BInv, EInv, OperandParsed
  PROVE  EInv'
<1>1. Returned("operand") /\ "operand" \in Handler \ {"expression"} /\ Top.at = "operand"
  BY DEF OperandParsed, Returned, Handler
<1>2. Running /\ offset \in Nat /\ Top.mark \in Nat
  BY <1>1, ReturnedType
<1> DEFINE role == IF Top.left = Nothing THEN "prefix" ELSE "infix"
<1>3. \/ result # Failure /\ Return(Made(Top, role, result.nodes, offset), offset)
      \/ End("exited") \/ Return(Failure, offset)
  BY DEF OperandParsed
<1>4. CASE result # Failure /\ Return(Made(Top, role, result.nodes, offset), offset)
  <2>1. /\ Gathered(Collected) /\ Collected.nodes = Top.nodes \cup result.nodes
        /\ Collected.mark = Top.mark
    BY <1>1, <1>4, CollectedIs
  <2> DEFINE c == Collected
  <2>2. Return(Made(c, role, {}, offset), offset)
    BY <1>1, <1>4, CollectedMade
  <2>3. role \in Role /\ role # "tuple"
    BY DEF Role
  <2>4. /\ Begun(ts, Makers, Top)
        /\ Even(ts, Makers, Top.mark + 2, offset, Top.nodes \cup result.nodes, Extra(ts, Top))
    BY <1>1, <1>4, ReturnedEven
  <2>5. Extra(ts, Top) = 0 /\ Weight(ts[Top.mark + 1]) = 0
    BY <1>1, <2>4 DEF Begun, Extra, Weight
  <2>6. Even(ts, Makers, c.mark + 2, offset, c.nodes, 0) /\ Weight(ts[c.mark + 1]) + 0 = 0
    BY <2>1, <2>4, <2>5
  <2> HIDE DEF c, role
  <2>7. offset <= offset /\ 0 \in Int /\ Gathered(c)
        /\ c.nodes \in {Top.nodes, Top.nodes \cup result.nodes}
    BY <1>2, <2>1 DEF c
  <2> QED
    BY <1>1, <1>2, <1>4, <2>2, <2>3, <2>6, <2>7, MakesEven
<1>5. CASE End("exited")
  BY <1>5, EndEven
<1>6. CASE Return(Failure, offset)
  BY <1>2, <1>6, FailsEven
<1> QED
  BY <1>3, <1>4, <1>5, <1>6

\* A handler goes on as c and calls parseExpression again.
LEMMA AgainEven ==
  ASSUME IInv, EInv, Running, Top.at # "expression",
         NEW c \in Call, c.at # "expression", EvenFrame(ts, Makers, c),
         NEW off \in Nat, Kept(ts, Makers, c, off + 1), off = 0 \/ ts[off] # "x",
         CallExpression(Append(Below, c), 0, off)
  PROVE  EInv'
<1> DEFINE s == Append(Below, c)
<1>1. /\ calls \in Seq(Call) /\ calls # <<>>
      /\ Top = calls[Len(calls)] /\ Below = SubSeq(calls, 1, Len(calls) - 1)
  BY TopType
<1>2. EvenStack(ts, Makers, s)
  BY <1>1, EvenReplaced DEF IInv, EInv
<1>3. s \in Seq(Call) /\ s # <<>> /\ s[Len(s)] = c
  BY BelowIs, BackOf
<1>4. CallExpression(s, 0, off) /\ 0 \in Nat
  OBVIOUS
<1> HIDE DEF s
<1>5. Kept(ts, Makers, s[Len(s)], off + 1)
  BY <1>3
<1> QED
  BY <1>2, <1>3, <1>4, <1>5, CallEven

\* What a handler becomes begins with the same token.
Becomes(h, k) ==
  \/ h = k
  \/ h = "first" /\ k \in {"list", "count"}
  \/ h = "probe" /\ k \in {"grouped", "tuple"}

LEMMA BegunAgain ==
  ASSUME NEW w, NEW K, NEW c, NEW d, Begun(w, K, c), d.mark = c.mark, Becomes(c.at, d.at)
  PROVE  Begun(w, K, d) /\ Extra(w, d) = Extra(w, c)
<1>1. CASE d.at = c.at
  BY <1>1 DEF Begun, Extra
<1>2. CASE c.at = "first" /\ d.at \in {"list", "count"}
  BY <1>2 DEF Begun, Extra
<1>3. CASE c.at = "probe" /\ d.at \in {"grouped", "tuple"}
  BY <1>3 DEF Begun, Extra
<1> QED
  BY <1>1, <1>2, <1>3 DEF Becomes

LEMMA Numbers ==
  /\ \A i \in Nat : i + 1 \in Nat /\ i + 2 \in Nat /\ i + 1 + 1 = i + 2
  /\ \A i, b, f \in Nat : i + 1 < f /\ f <= b => i + 2 <= b + 1
  /\ \A i \in Nat : i \in Int /\ i + 1 - 1 = i /\ i <= i /\ i <= i + 1
  /\ 0 \in Nat /\ 0 \in Int /\ 1 \in Int
OBVIOUS

LEMMA KeptBefore ==
  ASSUME NEW w, NEW K, NEW c, NEW i \in Nat,
         Even(w, K, c.mark + 2, i, c.nodes, Extra(w, c))
  PROVE  Kept(w, K, c, i + 1)
<1> DEFINE k == i + 1
<1>1. k - 1 = i
  OBVIOUS
<1> HIDE DEF k
<1>2. Even(w, K, c.mark + 2, k - 1, c.nodes, Extra(w, c))
  BY <1>1
<1>3. Kept(w, K, c, k)
  BY <1>2, Zenon DEF Kept
<1> QED
  BY <1>3 DEF k

\* A token between elements.
LEMMA SeparatedEven ==
  ASSUME NEW w, NEW K, NEW a \in Nat, NEW b \in Nat, a <= b + 1, NEW S \in SUBSET Node,
         IsFiniteSet(S), \A m \in S : m.to <= b /\ InSpan(m), NEW x \in Int,
         Even(w, K, a, b, S, x), w[b + 1] \in {",", ";"}
  PROVE  Even(w, K, a, b + 1, S, x)
<1>1. \A m \in S : m.at \in Int /\ m.at <= b
  BY Within
<1>2. a \in Int /\ b \in Int
  BY Numbers, Zenon
<1>3. Even(w, K, a, b + 1, S, x + Weight(w[b + 1]))
  BY <1>1, <1>2, EvenMore
<1>4. Weight(w[b + 1]) = 0
  BY DEF Weight
<1>5. x + Weight(w[b + 1]) = x
  BY <1>4, Adding, Zenon
<1> QED
  BY <1>3, <1>5, Zenon

\* A handler's elements, when its callee has returned and a separator follows.
LEMMA ElementsEven ==
  ASSUME IInv, BInv, EInv, NEW h \in Handler \ {"expression"}, Returned(h), result # Failure,
         NEW c, Gathered(c), c.nodes \in {Top.nodes, Top.nodes \cup result.nodes},
         Current \in {",", ";"}
  PROVE  Even(ts, Makers, c.mark + 2, offset + 1, c.nodes, Extra(ts, Top))
<1>1. offset \in Nat /\ Top.mark \in Nat
  BY ReturnedType
<1>2. /\ c.mark = Top.mark /\ c.nodes \in SUBSET Node
      /\ \A m \in c.nodes : InSpan(m) /\ m.to <= offset
  BY DEF Gathered, Call
<1>3. /\ Sited(Makers, c.nodes)
      /\ Even(ts, Makers, Top.mark + 2, offset, c.nodes, Extra(ts, Top))
  BY ReturnedEven
<1>4. Top.mark + 1 < result.from /\ result.from <= offset /\ result.from \in Nat
  BY ReturnedWoven DEF Whole, Spanned
<1>5. Top.mark + 2 \in Nat /\ Top.mark + 2 <= offset + 1
  BY <1>1, <1>4, Numbers
<1>6. Extra(ts, Top) \in Int
  BY Numbers, Zenon DEF Extra
<1>7. ts[offset + 1] \in {",", ";"}
  BY TokensAre, Zenon
<1> DEFINE w == ts
           K == Makers
           a == Top.mark + 2
           b == offset
           S == c.nodes
           x == Extra(ts, Top)
<1>8. /\ a \in Nat /\ b \in Nat /\ a <= b + 1 /\ S \in SUBSET Node /\ IsFiniteSet(S)
      /\ \A m \in S : m.to <= b /\ InSpan(m)
      /\ x \in Int /\ Even(w, K, a, b, S, x) /\ w[b + 1] \in {",", ";"}
  BY <1>1, <1>2, <1>3, <1>5, <1>6, <1>7, Zenon DEF Sited
<1> HIDE DEF w, K, a, b, S, x
<1>9. Even(w, K, a, b + 1, S, x)
  BY <1>8, SeparatedEven
<1> QED
  BY <1>2, <1>9, Zenon DEF w, K, a, b, S, x

\* One more element.
LEMMA AnotherEven ==
  ASSUME IInv, BInv, EInv, NEW h \in Handler \ {"expression"}, Returned(h), result # Failure,
         NEW c \in Call, c.at # "expression", Becomes(h, c.at), c.mark = Top.mark,
         c.left = Top.left, c.nodes \in {Top.nodes, Top.nodes \cup result.nodes},
         Current \in {",", ";"}, Another(c)
  PROVE  EInv'
<1>1. /\ Running /\ Top.at # "expression" /\ Top.at = h /\ offset \in Nat
  BY ReturnedType DEF Returned
<1>2. Sited(Makers, c.nodes) /\ Begun(ts, Makers, Top)
  BY ReturnedEven
<1>3. Begun(ts, Makers, c) /\ Extra(ts, c) = Extra(ts, Top)
  BY <1>1, <1>2, BegunAgain
<1>4. EvenFrame(ts, Makers, c)
  BY <1>2, <1>3 DEF EvenFrame
<1>5. Gathered(c)
  BY SomeGathered, CollectedIs
<1>6. Even(ts, Makers, c.mark + 2, offset + 1, c.nodes, Extra(ts, c))
  BY <1>3, <1>5, ElementsEven
<1>7. offset + 1 \in Nat
  BY <1>1, Numbers
<1>8. Kept(ts, Makers, c, offset + 1 + 1)
  BY <1>6, <1>7, KeptBefore
<1>9. ts[offset + 1] # "x"
  <2>1. ts[offset + 1] \in {",", ";"}
    BY TokensAre, Zenon
  <2> QED
    BY <2>1
<1>10. CallExpression(Append(Below, c), 0, offset + 1)
  BY DEF Another
<1> QED
  BY <1>1, <1>4, <1>7, <1>8, <1>9, <1>10, AgainEven

\* The contents of parentheses are parsed again.
LEMMA ReparsedEven ==
  ASSUME IInv, BInv, EInv, GroupedOrTuple
  PROVE  EInv'
<1>1. Returned("probe") /\ "probe" \in Handler \ {"expression"} /\ Top.at = "probe"
  BY DEF GroupedOrTuple, Handler, Returned
<1>2. /\ Running /\ offset \in Nat /\ Top \in Call /\ Top.mark \in Nat
      /\ Elements(ts, Lefts, Top) /\ EvenFrame(ts, Makers, Top)
  BY <1>1, ReturnedType, ReturnedWoven, TopEven
<1>3. CASE result = Failure
  BY <1>2, <1>3, FailsEven DEF GroupedOrTuple
<1>4. CASE result # Failure
  <2>1. PICK h \in {"grouped", "tuple"} :
          CallExpression(Append(Below, [Top EXCEPT !.at = h]), 0, Top.mark + 1)
    BY <1>4 DEF GroupedOrTuple
  <2> DEFINE c == [Top EXCEPT !.at = h]
  <2>2. /\ c \in Call /\ c.at = h /\ c.mark = Top.mark /\ c.nodes = {}
    BY <1>1, <1>2 DEF Call, Handler, Elements
  <2>3. CallExpression(Append(Below, c), 0, Top.mark + 1)
    BY <2>1
  <2> HIDE DEF c
  <2>4. Begun(ts, Makers, Top) /\ Becomes(Top.at, c.at)
    BY <1>1, <1>2, <2>2 DEF EvenFrame, Becomes
  <2>5. Begun(ts, Makers, c) /\ Extra(ts, c) = 0
    BY <1>1, <2>2, <2>4, BegunAgain DEF Extra
  <2>6. EvenFrame(ts, Makers, c)
    BY <2>2, <2>5, FS_EmptySet DEF EvenFrame, Sited
  <2>7. Top.mark + 1 \in Nat /\ Top.mark + 1 + 1 = Top.mark + 2
    BY <1>2, Numbers
  <2>8. Even(ts, Makers, Top.mark + 1 + 1, Top.mark + 1, {}, 0)
    BY <2>7, EvenNone
  <2>9. Even(ts, Makers, c.mark + 2, Top.mark + 1, c.nodes, Extra(ts, c))
    BY <2>2, <2>5, <2>7, <2>8
  <2>10. Kept(ts, Makers, c, Top.mark + 1 + 1)
    BY <2>7, <2>9, KeptBefore
  <2>11. ts[Top.mark + 1] # "x"
    BY <1>1, <2>4 DEF Begun
  <2> QED
    BY <1>1, <1>2, <2>2, <2>3, <2>6, <2>7, <2>10, <2>11, AgainEven
<1> QED
  BY <1>3, <1>4

LEMMA ClosesEven ==
  ASSUME IInv, BInv, EInv, NEW h \in {"grouped", "params", "index", "count"},
         Returned(h), result # Failure, NEW bracket \in {")", "]"}, Closes(bracket)
  PROVE  EInv'
<1>1. h \in Handler \ {"expression"}
  BY DEF Handler
<1>2. CASE Current = bracket /\ Return(Made(Top, "bracket", result.nodes, offset + 1), offset + 1)
  <2>1. Return(Made(Collected, "bracket", {}, offset + 1), offset + 1)
    BY <1>1, <1>2, CollectedMade
  <2>2. BracketEnds(1) /\ 1 \in {1, 2}
    BY <1>2, TokensAre DEF BracketEnds
  <2>3. /\ Gathered(Collected)
        /\ Collected.nodes \in {Top.nodes, Top.nodes \cup result.nodes}
    BY <1>1, CollectedIs
  <2> QED
    BY <2>1, <2>2, <2>3, BracketEven
<1>3. CASE Return(Failure, offset)
  BY <1>1, <1>3, ReturnedType, FailsEven
<1> QED
  BY <1>2, <1>3 DEF Closes

LEMMA TrailingEven ==
  ASSUME IInv, BInv, EInv, NEW h \in {"params", "first"}, Returned(h), result # Failure,
         Current = ",", TokenAt(1) \in {")", "]"}, TrailingComma
  PROVE  EInv'
<1>1. h \in Handler \ {"expression"}
  BY DEF Handler
<1>2. Return(Made(Collected, "bracket", {}, offset + 2), offset + 2)
  BY <1>1, CollectedMade DEF TrailingComma
<1>3. BracketEnds(2) /\ 2 \in {1, 2}
  BY TokensAre DEF BracketEnds
<1>4. /\ Gathered(Collected)
      /\ Collected.nodes \in {Top.nodes, Top.nodes \cup result.nodes}
  BY <1>1, CollectedIs
<1> QED
  BY <1>2, <1>3, <1>4, BracketEven

\* Groups, indices and counts.
LEMMA ClosedEven ==
  ASSUME IInv, BInv, EInv, Grouped \/ Index \/ ArrayCount
  PROVE  EInv'
<1>1. PICK h \in {"grouped", "index", "count"}, bracket \in {")", "]"} :
        /\ Returned(h)
        /\ \/ End("exited")
           \/ Return(Failure, offset)
           \/ result # Failure /\ Closes(bracket)
  BY DEF Grouped, Index, ArrayCount
<1>2. h \in Handler \ {"expression"}
  BY DEF Handler
<1>3. Running
  BY <1>1, <1>2, ReturnedType
<1> QED
  BY <1>1, <1>3, EndEven, FailsEven, ClosesEven

\* A tuple leaves its parenthesis, whether or not it has eaten a comma.
LEMMA OpenEven ==
  ASSUME IInv, BInv, EInv, Returned("tuple"), result # Failure, NEW to,
         to = offset \/ (to = offset + 1 /\ Current = ","),
         Return(Made(Top, "tuple", result.nodes, to), to)
  PROVE  EInv'
<1>1. "tuple" \in Handler \ {"expression"} /\ "tuple" \in Role /\ Top.at = "tuple"
  BY DEF Handler, Role, Returned
<1> DEFINE c == Collected
<1>2. /\ Gathered(c) /\ c.nodes = Top.nodes \cup result.nodes /\ c.mark = Top.mark
  BY <1>1, CollectedIs
<1>3. Return(Made(c, "tuple", {}, to), to)
  BY <1>1, CollectedMade
<1> HIDE DEF c
<1>4. c.nodes \in {Top.nodes, Top.nodes \cup result.nodes}
  BY <1>2
<1>5. /\ Begun(ts, Makers, Top)
      /\ Even(ts, Makers, c.mark + 2, offset, c.nodes, Extra(ts, Top))
  BY <1>1, <1>2, ReturnedEven
<1>6. Extra(ts, Top) = 0
  BY <1>1 DEF Extra
<1>7. Weight(ts[c.mark + 1]) + 0 = 1
  <2>1. ts[c.mark + 1] = "("
    BY <1>1, <1>2, <1>5 DEF Begun
  <2>2. Weight(ts[c.mark + 1]) = 1
    BY <2>1 DEF Weight
  <2> QED
    BY <2>2, Numbers, Adding, Zenon
<1>8. Even(ts, Makers, c.mark + 2, to, c.nodes, 0)
  <2>1. CASE to = offset
    BY <1>5, <1>6, <2>1
  <2>2. CASE to = offset + 1 /\ Current = ","
    <3>1. Current \in {",", ";"}
      BY <2>2
    <3>2. Even(ts, Makers, c.mark + 2, offset + 1, c.nodes, Extra(ts, Top))
      BY <1>1, <1>2, <1>4, <3>1, ElementsEven
    <3> QED
      BY <1>6, <2>2, <3>2
  <2> QED
    BY <2>1, <2>2
<1>9. to \in Nat /\ offset <= to
  <2>1. offset \in Nat
    BY <1>1, ReturnedType
  <2>2. offset + 1 \in Nat /\ offset <= offset /\ offset <= offset + 1
    BY <2>1, Numbers
  <2> QED
    BY <2>1, <2>2, Zenon
<1>10. 0 \in Int
  BY Numbers, Zenon
<1> QED
  BY <1>1, <1>2, <1>3, <1>4, <1>7, <1>8, <1>9, <1>10, MakesEven

LEMMA TupleEven ==
  ASSUME IInv, BInv, EInv, Tuple
  PROVE  EInv'
<1>1. Returned("tuple") /\ "tuple" \in Handler \ {"expression"} /\ Top.at = "tuple"
  BY DEF Tuple, Handler, Returned
<1>2. Running /\ offset \in Nat
  BY <1>1, ReturnedType
<1>3. \/ End("exited")
      \/ result # Failure /\ Current = "," /\ Another(Collected)
      \/ /\ result # Failure /\ Current = ","
         /\ Return(Made(Top, "tuple", result.nodes, offset + 1), offset + 1)
      \/ \E off \in {offset, offset + 1} : Return(Failure, off)
      \/ /\ result # Failure
         /\ Return(Made(Top, "tuple", result.nodes, offset), offset)
  BY DEF Tuple
<1>4. CASE End("exited")
  BY <1>4, EndEven
<1>5. CASE result # Failure /\ Current = "," /\ Another(Collected)
  <2> DEFINE c == Collected
  <2>1. /\ c \in Call /\ c.at = "tuple" /\ c.mark = Top.mark /\ c.left = Top.left
        /\ c.nodes = Top.nodes \cup result.nodes
    BY <1>1, <1>5, AllGathered DEF Gathered
  <2>2. Another(c)
    BY <1>5
  <2> HIDE DEF c
  <2> QED
    BY <1>1, <1>5, <2>1, <2>2, AnotherEven DEF Becomes
<1>6. CASE /\ result # Failure /\ Current = ","
           /\ Return(Made(Top, "tuple", result.nodes, offset + 1), offset + 1)
  BY <1>1, <1>6, OpenEven
<1>7. CASE /\ result # Failure
           /\ Return(Made(Top, "tuple", result.nodes, offset), offset)
  BY <1>1, <1>7, OpenEven
<1>8. CASE \E off \in {offset, offset + 1} : Return(Failure, off)
  BY <1>2, <1>8, FailsEven
<1> QED
  BY <1>3, <1>4, <1>5, <1>6, <1>7, <1>8

\* The handlers of lists and what they go on as.
LEMMA ElementEven ==
  ASSUME IInv, BInv, NEW h \in {"params", "first", "list"}, Returned(h), result # Failure,
         NEW c \in {Collected, ListBegins, [Collected EXCEPT !.at = "count"]}
  PROVE  /\ c \in Call /\ c.at # "expression" /\ c.mark = Top.mark /\ c.left = Top.left
         /\ c.nodes \in {Top.nodes, Top.nodes \cup result.nodes} /\ Gathered(c)
<1>1. h \in Handler \ {"expression"}
  BY DEF Handler
<1>2. Collected.nodes = Top.nodes \cup result.nodes
  BY <1>1, CollectedIs
<1> QED
  BY <1>2, ElementWoven

LEMMA ArrayEven ==
  ASSUME IInv, BInv, EInv, NEW h \in {"first", "list"}, Returned(h), result # Failure,
         NEW c \in {Collected, ListBegins}, c.at = "list", ArrayList(c)
  PROVE  EInv'
<1>1. h \in Handler \ {"expression"} /\ h \in {"params", "first", "list"}
  BY DEF Handler
<1>2. /\ c \in Call /\ c.at # "expression" /\ c.mark = Top.mark /\ c.left = Top.left
      /\ c.nodes \in {Top.nodes, Top.nodes \cup result.nodes} /\ Gathered(c)
  BY <1>1, ElementEven
<1>3. \/ End("exited") \/ End("hung")
      \/ Current = "," /\ Another(c)
      \/ /\ Current = "," /\ TokenAt(1) = "]"
         /\ Return(Made(c, "bracket", {}, offset + 2), offset + 2)
      \/ Current = "]" /\ Return(Made(c, "bracket", {}, offset + 1), offset + 1)
  BY DEF ArrayList
<1>4. CASE End("exited") \/ End("hung")
  BY <1>4, EndEven
<1>5. CASE Current = "," /\ Another(c)
  <2>1. Becomes(h, c.at)
    BY DEF Becomes
  <2> QED
    BY <1>1, <1>2, <1>5, <2>1, AnotherEven
<1>6. CASE /\ Current = "," /\ TokenAt(1) = "]"
           /\ Return(Made(c, "bracket", {}, offset + 2), offset + 2)
  <2>1. BracketEnds(2) /\ 2 \in {1, 2}
    BY <1>6, TokensAre DEF BracketEnds
  <2> QED
    BY <1>2, <1>6, <2>1, BracketEven
<1>7. CASE Current = "]" /\ Return(Made(c, "bracket", {}, offset + 1), offset + 1)
  <2>1. BracketEnds(1) /\ 1 \in {1, 2}
    BY <1>7, TokensAre DEF BracketEnds
  <2> QED
    BY <1>2, <1>7, <2>1, BracketEven
<1> QED
  BY <1>3, <1>4, <1>5, <1>6, <1>7

LEMMA ParamsEven ==
  ASSUME IInv, BInv, EInv, Params
  PROVE  EInv'
<1>1. Returned("params") /\ "params" \in Handler \ {"expression"} /\ Top.at = "params"
  BY DEF Params, Handler, Returned
<1>2. \/ End("exited")
      \/ result # Failure /\ Closes(")")
      \/ result # Failure /\ Current = "," /\ TokenAt(1) = ")" /\ TrailingComma
      \/ result # Failure /\ Current = "," /\ Another(Collected)
  BY DEF Params
<1>3. CASE End("exited")
  BY <1>3, EndEven
<1>4. CASE result # Failure /\ Closes(")")
  BY <1>1, <1>4, ClosesEven
<1>5. CASE result # Failure /\ Current = "," /\ TokenAt(1) = ")" /\ TrailingComma
  BY <1>1, <1>5, TrailingEven
<1>6. CASE result # Failure /\ Current = "," /\ Another(Collected)
  <2> DEFINE c == Collected
  <2>1. /\ c \in Call /\ c.at # "expression" /\ c.mark = Top.mark /\ c.left = Top.left
        /\ c.nodes \in {Top.nodes, Top.nodes \cup result.nodes}
    BY <1>1, <1>6, ElementEven
  <2>2. c.at = "params"
    BY <1>1, <1>6, AllGathered
  <2>3. Another(c) /\ Becomes("params", c.at)
    BY <1>6, <2>2 DEF Becomes
  <2> HIDE DEF c
  <2> QED
    BY <1>1, <1>6, <2>1, <2>3, AnotherEven
<1> QED
  BY <1>2, <1>3, <1>4, <1>5, <1>6

LEMMA FirstEven ==
  ASSUME IInv, BInv, EInv, ArrayFirst
  PROVE  EInv'
<1>1. Returned("first") /\ "first" \in Handler \ {"expression"}
  BY DEF ArrayFirst, Handler
<1>2. \/ End("exited")
      \/ /\ result # Failure /\ Current = ";"
         /\ Another([Collected EXCEPT !.at = "count"])
      \/ result # Failure /\ Current = "," /\ TokenAt(1) = "]" /\ TrailingComma
      \/ result # Failure /\ ArrayList(ListBegins)
  BY DEF ArrayFirst
<1>3. CASE End("exited")
  BY <1>3, EndEven
<1>4. CASE /\ result # Failure /\ Current = ";"
           /\ Another([Collected EXCEPT !.at = "count"])
  <2> DEFINE c == [Collected EXCEPT !.at = "count"]
  <2>1. /\ c \in Call /\ c.at # "expression" /\ c.mark = Top.mark /\ c.left = Top.left
        /\ c.nodes \in {Top.nodes, Top.nodes \cup result.nodes}
    BY <1>1, <1>4, ElementEven
  <2>2. c.at = "count"
    BY <1>1, <1>4, AllGathered DEF Gathered, Call
  <2>3. Another(c) /\ Becomes("first", c.at)
    BY <1>4, <2>2 DEF Becomes
  <2> HIDE DEF c
  <2> QED
    BY <1>1, <1>4, <2>1, <2>3, AnotherEven
<1>5. CASE result # Failure /\ Current = "," /\ TokenAt(1) = "]" /\ TrailingComma
  BY <1>1, <1>5, TrailingEven
<1>6. CASE result # Failure /\ ArrayList(ListBegins)
  <2>1. ListBegins.at = "list"
    BY <1>1, <1>6, ReturnedType DEF ListBegins, Call
  <2> QED
    BY <1>1, <1>6, <2>1, ArrayEven
<1> QED
  BY <1>2, <1>3, <1>4, <1>5, <1>6

LEMMA ListEven ==
  ASSUME IInv, BInv, EInv, ArrayNext
  PROVE  EInv'
<1>1. Returned("list") /\ "list" \in Handler \ {"expression"}
  BY DEF ArrayNext, Handler
<1>2. End("exited") \/ (result # Failure /\ ArrayList(Collected))
  BY DEF ArrayNext
<1>3. CASE End("exited")
  BY <1>3, EndEven
<1>4. CASE result # Failure /\ ArrayList(Collected)
  <2>1. Collected.at = "list"
    BY <1>1, <1>4, AllGathered
  <2> QED
    BY <1>1, <1>4, <2>1, ArrayEven
<1> QED
  BY <1>2, <1>3, <1>4

LEMMA OperandBegins ==
  ASSUME IInv, EInv, AtOperand
  PROVE  /\ Running /\ Top.at = "expression" /\ result = Nothing /\ Top.left = Nothing
         /\ offset \in Nat /\ offset + 1 \in Nat /\ offset + 2 \in Nat
         /\ offset = 0 \/ ts[offset] # "x"
<1>1. /\ Running /\ Top.at = "expression" /\ result = Nothing /\ Top.left = Nothing
  BY DEF AtOperand
<1>2. TopOK(Top) /\ EvenFrame(ts, Makers, Top)
  BY <1>1, TopType, TopEven
<1>3. Top.mark = offset
  BY <1>1, <1>2 DEF TopOK
<1>4. Top.mark = 0 \/ ts[Top.mark] # "x"
  BY <1>1, <1>2 DEF EvenFrame
<1>5. offset \in Nat
  BY TokensAre
<1> QED
  BY <1>1, <1>3, <1>4, <1>5, Numbers

\* An expression of one token, or of two.
LEMMA ExtendOne ==
  ASSUME IInv, BInv, EInv, Running, Top.at = "expression", result = Nothing,
         NEW role \in Role \ {"tuple"}, Weight(ts[offset + 1]) = 0, Extend(role, 1)
  PROVE  EInv'
<1>1. offset + 1 \in Int
  BY TokensAre
<1>2. Balance(ts, offset + 1, offset + 1) = 0
  BY <1>1, BalanceOfOne
<1>3. 1 \in Nat \ {0}
  OBVIOUS
<1> QED
  BY <1>2, <1>3, ExtendEven

LEMMA ExtendTwo ==
  ASSUME IInv, BInv, EInv, Running, Top.at = "expression", result = Nothing,
         NEW role \in Role \ {"tuple"},
         Weight(ts[offset + 1]) + Weight(ts[offset + 2]) = 0, Extend(role, 2)
  PROVE  EInv'
<1>1. offset + 1 \in Int /\ offset + 1 + 1 = offset + 2
  BY TokensAre
<1>2. Balance(ts, offset + 1, offset + 1 + 1) = Weight(ts[offset + 1]) + Weight(ts[offset + 1 + 1])
  BY <1>1, BalanceOfTwo
<1>3. Balance(ts, offset + 1, offset + 2) = 0
  BY <1>1, <1>2
<1>4. 2 \in Nat \ {0}
  OBVIOUS
<1> QED
  BY <1>3, <1>4, ExtendEven

LEMMA LeavesEven ==
  ASSUME IInv, BInv, EInv, Literal \/ EmptyBrackets \/ Alone
  PROVE  EInv'
<1>1. AtOperand
  BY DEF Literal, EmptyBrackets, Alone
<1>2. Running /\ Top.at = "expression" /\ result = Nothing
  BY <1>1, OperandBegins
<1>3. "leaf" \in Role \ {"tuple"} /\ "bracket" \in Role \ {"tuple"}
  BY DEF Role
<1>4. CASE Literal \/ Alone
  <2>1. Current \in {"x", "1", "..", "return", "break"} /\ Extend("leaf", 1)
    BY <1>4 DEF Literal, Alone, Terminators
  <2>2. Weight(ts[offset + 1]) = 0
    BY <2>1, TokensAre DEF Weight
  <2> QED
    BY <1>2, <1>3, <2>1, <2>2, ExtendOne
<1>5. CASE EmptyBrackets
  <2>1. /\ Current \in {"(", "["} /\ TokenAt(1) \in {")", "]"} /\ Extend("bracket", 2)
    BY <1>5 DEF EmptyBrackets
  <2>2. ts[offset + 1] \in {"(", "["} /\ ts[offset + 2] \in {")", "]"}
    BY <2>1, TokensAre
  <2>3. Weight(ts[offset + 1]) + Weight(ts[offset + 2]) = 0
    BY <2>2 DEF Weight
  <2> QED
    BY <1>2, <1>3, <2>1, <2>3, ExtendTwo
<1> QED
  BY <1>4, <1>5

\* An operator and the operand behind it.
LEMMA OperatorEven ==
  ASSUME IInv, EInv, Running, Top.at = "expression", result = Nothing,
         Current \notin {"(", ")", "[", "]", "x"}, NEW power \in Nat,
         CallExpression(Calling("operand"), power, offset + 1)
  PROVE  EInv'
<1> DEFINE h == "operand"
<1>1. h \in Handler \ {"expression"} /\ h # "params"
  BY DEF Handler
<1>2. ts[offset + 1] \notin {"(", ")", "[", "]", "x"} /\ offset + 1 \in Nat
  BY TokensAre
<1>3. Handling(h).at = "operand" /\ Handling(h).mark = offset
  BY DEF Handling
<1>4. Begun(ts, Makers, Handling(h))
  BY <1>2, <1>3 DEF Begun
<1>5. Kept(ts, Makers, Handling(h), offset + 1 + 1)
  BY <1>1, FollowedEven
<1>6. CallExpression(Calling(h), power, offset + 1)
  OBVIOUS
<1> HIDE DEF h
<1> QED
  BY <1>1, <1>2, <1>4, <1>5, <1>6, HandlerEven

LEMMA UneatenEven ==
  ASSUME IInv, EInv, Uneaten
  PROVE  EInv'
<1>1. AtOperand /\ Current \in {"-", "&&"}
  BY DEF Uneaten
<1>2. /\ Running /\ Top.at = "expression" /\ result = Nothing /\ Top.left = Nothing
      /\ offset \in Nat /\ (offset = 0 \/ ts[offset] # "x")
  BY <1>1, OperandBegins
<1>3. CASE End("aborted")
  BY <1>3, EndEven
<1>4. CASE CallExpression(Calling("operand"), PrefixPower(Current), offset)
  <2> DEFINE h == "operand"
             p == PrefixPower(Current)
  <2>1. h \in Handler \ {"expression"} /\ p \in Nat
    BY Powers DEF Handler
  <2>2. ts[offset + 1] \in {"-", "&&"}
    BY <1>1, TokensAre
  <2>3. Handling(h).at = "operand" /\ Handling(h).mark = offset /\ Handling(h).left = Nothing
    BY <1>2 DEF Handling
  <2>4. Begun(ts, Makers, Handling(h))
    BY <2>2, <2>3 DEF Begun
  <2>5. Kept(ts, Makers, Handling(h), offset + 1)
    BY <2>2, <2>3 DEF Kept, Unfed
  <2>6. CallExpression(Calling(h), p, offset)
    BY <1>4
  <2> HIDE DEF h, p
  <2> QED
    BY <1>2, <2>1, <2>4, <2>5, <2>6, HandlerEven
<1> QED
  BY <1>3, <1>4 DEF Uneaten

\* What stands between a handler's first token and its operand.
LEMMA SkippedEven ==
  ASSUME IInv, NEW i \in {offset + 2, offset + 3}, NEW d,
         Balance(ts, offset + 2, i) = d, d \in Int
  PROVE  Even(ts, Makers, offset + 2, i, {}, d)
<1>1. Cardinality(Tuples({})) = 0
  BY FS_EmptySet DEF Tuples
<1> QED
  BY <1>1 DEF Even

LEMMA BorrowEven ==
  ASSUME IInv, EInv, Borrow
  PROVE  EInv'
<1>1. AtOperand /\ Current = "&"
  BY DEF Borrow
<1>2. /\ Running /\ Top.at = "expression" /\ result = Nothing
      /\ offset \in Nat /\ offset + 2 \in Nat
  BY <1>1, OperandBegins
<1> DEFINE h == "operand"
           p == PrefixPower("&")
<1>3. h \in Handler \ {"expression"} /\ p \in Nat
  BY Powers DEF Handler
<1>4. \/ End("aborted")
      \/ TokenAt(1) \in Keyword /\ CallExpression(Calling(h), p, offset + 2)
      \/ CallExpression(Calling(h), p, offset + 1)
  BY DEF Borrow
<1>5. CASE End("aborted")
  BY <1>5, EndEven
<1>6. CASE TokenAt(1) \in Keyword /\ CallExpression(Calling(h), p, offset + 2)
  <2>1. ts[offset + 1] = "&" /\ ts[offset + 2] \in Keyword
    BY <1>1, <1>6, TokensAre DEF Keyword
  <2>2. Weight(ts[offset + 2]) = 0 /\ ts[offset + 2] # "x"
    BY <2>1 DEF Weight, Keyword
  <2> DEFINE c == Handling(h)
  <2>3. c.at = "operand" /\ c.mark = offset /\ c.nodes = {}
    BY DEF Handling
  <2>4. CallExpression(Calling(h), p, offset + 2)
    BY <1>6
  <2> HIDE DEF c
  <2>5. Begun(ts, Makers, c) /\ Extra(ts, c) = 0
    BY <2>1, <2>3 DEF Begun, Extra
  <2>6. Balance(ts, offset + 2, offset + 2) = 0
    BY <1>2, <2>2, BalanceOfOne
  <2>7. Even(ts, Makers, c.mark + 2, offset + 2, c.nodes, Extra(ts, c))
    BY <2>3, <2>5, <2>6, SkippedEven
  <2>8. Kept(ts, Makers, c, offset + 2 + 1)
    BY <1>2, <2>7, KeptBefore
  <2>9. Begun(ts, Makers, Handling(h)) /\ Kept(ts, Makers, Handling(h), offset + 2 + 1)
    BY <2>5, <2>8 DEF c
  <2> HIDE DEF h, p
  <2> QED
    BY <1>2, <1>3, <2>2, <2>4, <2>9, HandlerEven
<1>7. CASE CallExpression(Calling(h), p, offset + 1)
  BY <1>1, <1>2, <1>3, <1>7, OperatorEven
<1> QED
  BY <1>4, <1>5, <1>6, <1>7

\* A handler that begins with a bracket.
LEMMA BracketBegins ==
  ASSUME IInv, EInv, Running, Top.at = "expression", result = Nothing,
         NEW h \in {"probe", "first", "params", "index"}, Current \in {"(", "["},
         Begun(ts, Makers, Handling(h)), CallExpression(Calling(h), 0, offset + 1)
  PROVE  EInv'
<1>1. h \in Handler \ {"expression"} /\ 0 \in Nat
  BY DEF Handler
<1>2. offset + 1 \in Nat /\ ts[offset + 1] \in {"(", "["}
  BY TokensAre
<1>3. Kept(ts, Makers, Handling(h), offset + 1 + 1)
  BY FollowedEven
<1>4. ts[offset + 1] # "x"
  BY <1>2
<1> QED
  BY <1>1, <1>2, <1>3, <1>4, HandlerEven

LEMMA OpenBegins ==
  ASSUME IInv, EInv, Open
  PROVE  EInv'
<1>1. AtOperand
  BY DEF Open
<1>2. /\ Running /\ Top.at = "expression" /\ result = Nothing
      /\ offset \in Nat /\ offset + 1 \in Nat
      /\ (offset = 0 \/ ts[offset] # "x")
  BY <1>1, OperandBegins
<1>3. CASE Current = "(" /\ CallExpression(Calling("probe"), 0, offset + 1)
  <2>1. ts[offset + 1] = "("
    BY <1>3, TokensAre
  <2>2. ~(Member(offset + 1 - 1) /\ ts[offset + 1 - 1] = "x")
    <3>1. offset + 1 - 1 = offset /\ (offset > 1 => offset # 0)
      BY <1>2
    <3> QED
      BY <1>2, <3>1 DEF Member
  <2>3. offset + 1 \in Makers
    BY <1>2, <2>1, <2>2 DEF Makers, MakesNode
  <2>4. Handling("probe").at = "probe" /\ Handling("probe").mark = offset
    BY DEF Handling
  <2>5. Begun(ts, Makers, Handling("probe"))
    BY <2>1, <2>3, <2>4 DEF Begun
  <2> QED
    BY <1>2, <1>3, <2>5, BracketBegins
<1>4. CASE Current = "[" /\ CallExpression(Calling("first"), 0, offset + 1)
  <2>1. ts[offset + 1] = "["
    BY <1>4, TokensAre
  <2>2. Handling("first").at = "first" /\ Handling("first").mark = offset
    BY DEF Handling
  <2>3. Begun(ts, Makers, Handling("first"))
    BY <2>1, <2>2 DEF Begun
  <2> QED
    BY <1>2, <1>4, <2>3, BracketBegins
<1> QED
  BY <1>3, <1>4 DEF Open

LEMMA UnaryEven ==
  ASSUME IInv, BInv, EInv,
         Literal \/ EmptyBrackets \/ Alone \/ Prefix \/ Borrow \/ Uneaten \/ Open \/ NoOperand
  PROVE  EInv'
<1>1. CASE Prefix
  <2>1. /\ AtOperand /\ Current \in {"*", "..", "..=", "return", "break"}
        /\ CallExpression(Calling("operand"), PrefixPower(Current), offset + 1)
    BY <1>1 DEF Prefix
  <2>2. Running /\ Top.at = "expression" /\ result = Nothing
    BY <2>1, OperandBegins
  <2>3. Current \notin {"(", ")", "[", "]", "x"}
    BY <2>1
  <2>4. PrefixPower(Current) \in Nat
    BY Powers
  <2> QED
    BY <2>1, <2>2, <2>3, <2>4, OperatorEven
<1>2. CASE NoOperand
  <2>1. AtOperand /\ Return(Failure, offset)
    BY <1>2 DEF NoOperand
  <2> QED
    BY <2>1, OperandBegins, FailsEven
<1> QED
  BY <1>1, <1>2, LeavesEven, BorrowEven, UneatenEven, OpenBegins

\* Operators that call nobody.
LEMMA PostfixEven ==
  ASSUME IInv, BInv, EInv, Postfix
  PROVE  EInv'
<1>1. /\ Running /\ Top.at = "expression" /\ result = Nothing /\ offset \in Nat
  BY BindsType DEF Postfix
<1>2. "postfix" \in Role \ {"tuple"} /\ "bracket" \in Role \ {"tuple"}
  BY DEF Role
<1>3. CASE Current \in {"?", ".."} /\ Extend("postfix", 1)
  <2>1. Weight(ts[offset + 1]) = 0
    BY <1>3, TokensAre DEF Weight
  <2> QED
    BY <1>1, <1>2, <1>3, <2>1, ExtendOne
<1>4. CASE Current = "." /\ TokenAt(1) \in {"x", "1"} /\ Extend("postfix", 2)
  <2>1. ts[offset + 1] = "." /\ ts[offset + 2] \in {"x", "1"}
    BY <1>4, TokensAre
  <2>2. Weight(ts[offset + 1]) + Weight(ts[offset + 2]) = 0
    BY <2>1 DEF Weight
  <2> QED
    BY <1>1, <1>2, <1>4, <2>2, ExtendTwo
<1>5. CASE Current = "(" /\ TokenAt(1) = ")" /\ Extend("bracket", 2)
  <2>1. ts[offset + 1] = "(" /\ ts[offset + 2] = ")"
    BY <1>5, TokensAre
  <2>2. Weight(ts[offset + 1]) + Weight(ts[offset + 2]) = 0
    BY <2>1 DEF Weight
  <2> QED
    BY <1>1, <1>2, <1>5, <2>2, ExtendTwo
<1>6. CASE /\ Current = "." /\ TokenAt(1) = "x" /\ TokenAt(2) = "(" /\ TokenAt(3) = ")"
           /\ Extend("bracket", 4)
  <2>1. /\ ts[offset + 1] = "." /\ ts[offset + 2] = "x"
        /\ ts[offset + 3] = "(" /\ ts[offset + 4] = ")"
    BY <1>6, TokensAre
  <2>2. /\ Weight(ts[offset + 1]) + Weight(ts[offset + 2]) = 0
        /\ Weight(ts[offset + 3]) + Weight(ts[offset + 4]) = 0
    BY <2>1 DEF Weight
  <2> DEFINE a == offset + 1
             b == offset + 2
             c == offset + 4
             k == offset + 3
  <2>3. /\ a \in Int /\ b \in Int /\ c \in Int /\ k \in Int
        /\ a + 1 = b /\ b + 1 = k /\ k + 1 = c /\ a <= b + 1 /\ b <= c
    BY <1>1
  <2>4. /\ Weight(ts[a]) + Weight(ts[b]) = 0
        /\ Weight(ts[k]) + Weight(ts[c]) = 0
    BY <2>2
  <2> HIDE DEF a, b, c, k
  <2>5. Balance(ts, a, b) = 0 /\ Balance(ts, k, c) = 0
    BY <2>3, <2>4, BalanceOfTwo
  <2>6. Balance(ts, a, c) = Balance(ts, a, b) + Balance(ts, b + 1, c)
    BY <2>3, BalanceJoins
  <2>7. Balance(ts, a, c) = 0
    BY <2>3, <2>5, <2>6
  <2>8. Balance(ts, offset + 1, offset + 4) = 0 /\ 4 \in Nat \ {0}
    BY <2>7 DEF a, c
  <2> QED
    BY <1>1, <1>2, <1>6, <2>8, ExtendEven
<1> QED
  BY <1>3, <1>4, <1>5, <1>6 DEF Postfix

\* Calls, method calls and indexing.
LEMMA CallsEven ==
  ASSUME IInv, BInv, EInv, OpenAfter
  PROVE  EInv'
<1>1. /\ Running /\ Top.at = "expression" /\ result = Nothing /\ offset \in Nat
  BY BindsType DEF OpenAfter
<1>2. CASE Current = "(" /\ CallExpression(Calling("params"), 0, offset + 1)
  <2>1. ts[offset + 1] = "("
    BY <1>2, TokensAre
  <2>2. Handling("params").at = "params" /\ Handling("params").mark = offset
    BY DEF Handling
  <2>3. Begun(ts, Makers, Handling("params"))
    BY <2>1, <2>2 DEF Begun
  <2> QED
    BY <1>1, <1>2, <2>3, BracketBegins
<1>3. CASE Current = "[" /\ CallExpression(Calling("index"), 0, offset + 1)
  <2>1. ts[offset + 1] = "["
    BY <1>3, TokensAre
  <2>2. Handling("index").at = "index" /\ Handling("index").mark = offset
    BY DEF Handling
  <2>3. Begun(ts, Makers, Handling("index"))
    BY <2>1, <2>2 DEF Begun
  <2> QED
    BY <1>1, <1>3, <2>3, BracketBegins
<1>4. CASE /\ Current = "." /\ TokenAt(1) = "x" /\ TokenAt(2) = "("
           /\ CallExpression(Calling("params"), 0, offset + 3)
  <2>1. ts[offset + 1] = "." /\ ts[offset + 2] = "x" /\ ts[offset + 3] = "("
    BY <1>4, TokensAre
  <2> DEFINE h == "params"
             c == Handling(h)
             k == offset + 3
  <2>2. /\ h \in Handler \ {"expression"} /\ k \in Nat /\ 0 \in Nat
        /\ offset + 2 \in Int /\ offset + 2 + 1 = k
    BY <1>1 DEF Handler
  <2>3. c.at = "params" /\ c.mark = offset /\ c.nodes = {}
    BY DEF Handling
  <2>4. CallExpression(Calling(h), 0, k)
    BY <1>4
  <2>5. k \in {offset + 2, offset + 3} /\ ts[k] = "("
    BY <2>1
  <2> HIDE DEF c, k
  <2>6. Begun(ts, Makers, c) /\ Extra(ts, c) = 1
    BY <2>1, <2>3 DEF Begun, Extra
  <2>7. Balance(ts, offset + 2, k) = 1
    <3>1. Balance(ts, offset + 2, k) = Weight(ts[offset + 2]) + Weight(ts[k])
      BY <2>2, BalanceOfTwo
    <3>2. Weight(ts[offset + 2]) + Weight(ts[k]) = 1
      BY <2>1, <2>5 DEF Weight
    <3> QED
      BY <3>1, <3>2
  <2>8. Even(ts, Makers, c.mark + 2, k, c.nodes, Extra(ts, c))
    <3>1. 1 \in Int
      BY Numbers
    <3>2. Even(ts, Makers, offset + 2, k, {}, 1)
      BY <2>5, <2>7, <3>1, SkippedEven
    <3> QED
      BY <2>3, <2>6, <3>2
  <2>9. Kept(ts, Makers, c, k + 1)
    BY <2>2, <2>8, KeptBefore
  <2>10. /\ Begun(ts, Makers, Handling(h)) /\ Kept(ts, Makers, Handling(h), k + 1)
         /\ ts[k] # "x"
    BY <2>5, <2>6, <2>9 DEF c
  <2> HIDE DEF h
  <2> QED
    BY <1>1, <2>2, <2>4, <2>10, HandlerEven
<1> QED
  BY <1>2, <1>3, <1>4 DEF OpenAfter

LEMMA BindingEven ==
  ASSUME IInv, BInv, EInv, Postfix \/ InfixOperator \/ OpenAfter
  PROVE  EInv'
<1>1. CASE InfixOperator
  <2>1. /\ Binds /\ Current \in Infix
        /\ CallExpression(Calling("operand"), InfixPower(Current), offset + 1)
    BY <1>1 DEF InfixOperator
  <2>2. Running /\ Top.at = "expression" /\ result = Nothing
    BY <2>1, BindsType
  <2>3. Current \notin {"(", ")", "[", "]", "x"}
    BY <2>1 DEF Infix
  <2>4. InfixPower(Current) \in Nat
    BY Powers
  <2> QED
    BY <2>1, <2>2, <2>3, <2>4, OperatorEven
<1> QED
  BY <1>1, PostfixEven, CallsEven

\* parseExpression returns its tree.
LEMMA StopEven ==
  ASSUME IInv, EInv, Stop
  PROVE  EInv'
<1>1. AtOperator /\ Return(Top.left, offset)
  BY DEF Stop
<1>2. /\ Running /\ Top.at = "expression" /\ Top.left \in Tree
      /\ Start(Top) = Top.left.from
  BY <1>1, AtOperatorType
<1>3. /\ calls \in Seq(Call) /\ Top = calls[Len(calls)]
      /\ WellStacked(calls, Len(ts)) /\ EvenStack(ts, Makers, calls)
  BY <1>2, TopType DEF IInv, EInv
<1> DEFINE t == Top.left
           d == calls[Len(calls) - 1]
<1>4. EvenTree(ts, Makers, t)
  BY <1>2, NoTree, TopEven DEF EvenFrame
<1>5. ASSUME Len(calls) # 1
      PROVE  EvenFits(ts, Makers, d, t)
  <2>1. Len(calls) > 1
    BY <1>2, <1>5, BelowIs
  <2>2. EvenBound(ts, Makers, d, Top)
    BY <1>3, <2>1, EvenCaller
  <2>3. Start(Top) = t.from
    BY <1>2
  <2> HIDE DEF t, d
  <2> QED
    BY <1>4, <2>2, <2>3 DEF EvenFits, EvenBound
<1>6. t \in Tree /\ Return(t, offset)
  BY <1>1, <1>2
<1> HIDE DEF t
<1> QED
  BY <1>2, <1>4, <1>5, <1>6, ReturnEven

LEMMA ResumeEven ==
  ASSUME IInv, EInv, ExpressionResumes
  PROVE  EInv'
<1>1. /\ Running /\ Top.at = "expression" /\ result # Nothing
      /\ IF result # Failure THEN Continue([Top EXCEPT !.left = result], 0)
         ELSE Return(Failure, IF Top.left = Nothing THEN offset ELSE Top.mark)
  BY DEF ExpressionResumes, Returned
<1>2. Top \in Call /\ TopOK(Top)
  BY <1>1, TopType
<1>3. CASE result # Failure
  <2> DEFINE c == [Top EXCEPT !.left = result]
  <2>1. result \in Tree
    BY <1>1, <1>3 DEF IInv, TypeOK
  <2>2. result.from = Start(Top) /\ EvenTree(ts, Makers, result)
    BY <1>1, <1>2, <2>1, TopEven DEF TopOK, EvenFits
  <2>3. c \in Call /\ c.at = "expression" /\ c.left = result
    BY <1>1, <1>2, <2>1, LeftType
  <2>4. Continue(c, 0) /\ 0 \in Nat
    BY <1>1, <1>3
  <2> HIDE DEF c
  <2>5. Start(c) = Start(Top) /\ EvenFrame(ts, Makers, c)
    BY <2>1, <2>2, <2>3, NoTree DEF Start, EvenFrame
  <2> QED
    BY <1>1, <2>3, <2>4, <2>5, ContinueEven
<1>4. CASE result = Failure
  <2>1. PICK off \in {offset, Top.mark} : Return(Failure, off)
    BY <1>1, <1>4
  <2> QED
    BY <1>1, <2>1, FailsEven
<1> QED
  BY <1>3, <1>4

LEMMA InitEven == Init => EInv
<1> SUFFICES ASSUME Init PROVE EInv
  OBVIOUS
<1> DEFINE e == Expression(0, 0)
<1>1. calls = <<e>> /\ result = Nothing
  BY DEF Init
<1>2. e.at = "expression" /\ e.left = Nothing /\ e.mark = 0
  BY ExpressionType
<1> HIDE DEF e
<1>3. EvenFrame(ts, Makers, e)
  BY <1>2 DEF EvenFrame
<1>4. Len(calls) = 1 /\ calls[1] = e
  BY <1>1
<1>5. EvenStack(ts, Makers, calls)
  BY <1>3, <1>4 DEF EvenStack
<1> QED
  BY <1>1, <1>5, NoTree DEF EInv

LEMMA StutterEven ==
  ASSUME EInv, UNCHANGED vars
  PROVE  EInv'
<1>1. ts' = ts /\ calls' = calls /\ result' = result
  BY DEF vars
<1>2. Makers' = Makers /\ Top' = Top
  BY <1>1, MakersStay DEF Top
<1>3. EvenStack(ts, Makers, calls)'
  BY <1>1, <1>2 DEF EInv
<1>4. (result \in Tree => IF calls = <<>> THEN EvenTree(ts, Makers, result)
                          ELSE EvenFits(ts, Makers, Top, result))'
  BY <1>1, <1>2 DEF EInv
<1> QED
  BY <1>3, <1>4 DEF EInv

LEMMA NextEven ==
  ASSUME IInv, BInv, EInv, Next
  PROVE  EInv'
<1>1. CASE KeywordFollows \/ NoMember
  <2>1. End("aborted") \/ End("exited")
    BY <1>1 DEF KeywordFollows, NoMember
  <2> QED
    BY <2>1, EndEven
<1> QED
  BY <1>1, UnaryEven, BindingEven, StopEven, ResumeEven, OperandEven, ReparsedEven,
     ClosedEven, TupleEven, ParamsEven, FirstEven, ListEven DEF Next

\* In a text of any length and nested however deeply, a tree that has a node for
\* each of its tokens that makes one leaves open the parentheses of its tuples
\* and no other bracket: parseTupleExpression is the one handler that does not
\* eat what it has opened.
THEOREM TuplesLeaveTheirs == Spec => []TuplesStayOpen
<1>1. IInv /\ BInv /\ EInv /\ [Next]_vars => EInv'
  BY NextEven, StutterEven
<1>2. IInv /\ BInv /\ [Next]_vars => BInv'
  BY NextWoven, StutterWoven
<1>3. EInv => TuplesStayOpen
  <2> SUFFICES ASSUME EInv, result \in Tree, Lost(result) = {}
               PROVE  Among(result, {"(", "["}) - Among(result, {")", "]"})
                        = Cardinality({n \in result.nodes : n.role = "tuple"})
    BY DEF TuplesStayOpen
  <2> DEFINE a == result.from
             b == result.to
             S == result.nodes
  <2>1. EvenTree(ts, Makers, result)
    BY DEF EInv, EvenFits
  <2>2. Covered(Makers, a, b, S)
    <3> SUFFICES ASSUME NEW i \in a..b, i \in Makers PROVE \E n \in S : n.at = i
      BY DEF Covered
    <3>1. MakesNode(i)
      BY DEF Makers
    <3>2. i \notin Lost(result)
      OBVIOUS
    <3> QED
      BY <3>1, <3>2 DEF Lost
  <2>3. Balance(ts, a, b) = Cardinality(Tuples(S)) + 0
    BY <2>1, <2>2 DEF EvenTree, Even
  <2>4. Cardinality(Tuples(S)) \in Nat
    <3>1. IsFiniteSet(S) /\ Tuples(S) \in SUBSET S
      BY <2>1 DEF EvenTree, Sited, Tuples
    <3> QED
      BY <3>1, FS_Subset, FS_CardinalityType
  <2>5. /\ Among(result, {"(", "["}) = Cardinality(Opened(ts, a, b))
        /\ Among(result, {")", "]"}) = Cardinality(Closed(ts, a, b))
        /\ Cardinality({n \in S : n.role = "tuple"}) = Cardinality(Tuples(S))
    BY DEF Among, Opened, Closed, Tuples
  <2> QED
    BY <2>3, <2>4, <2>5 DEF Balance
<1> QED
  BY <1>1, <1>2, <1>3, Invariance, InitWoven, InitEven, PTL DEF Spec
=============================================================================
