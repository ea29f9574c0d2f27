------------------------------- MODULE Types -------------------------------
(***************************************************************************)
(* A receiver and another type meet (sema/TypeChecking/PathProbing.cpp,    *)
(* TypeBoundsProbe.cpp, Path.cpp, Coercion.cpp): probing looks for the     *)
(* implementations of a receiver by comparing it with the type of each     *)
(* implementation, one way and then the other, and what it finds is then   *)
(* unified; or the type of an expression is coerced to the expected one.   *)
(***************************************************************************)
EXTENDS Comparison, Unification

CONSTANTS Receivers, Others     \* the types that meet

ASSUME TypesAssumption == Receivers \subseteq Term /\ Others \subseteq Term

VARIABLES
  receiver,  \* the receiver, or the type that is expected
  other,     \* the type of an implementation, or of an expression
  found,     \* "unknown", or what probing answered, or "coerced"
  result     \* None, the type both have become, Abort or Overflow

\* Not a type.
None == Leaf("None")

vars == <<receiver, other, found, result>>

Init == receiver \in Receivers /\ other \in Others /\ found = "unknown" /\ result = None

\* Mutant of processImplItemCandidate: the receiver is not compared in its turn.
ComparedOneWay(a, b) == canEqual(a, b)
\* The comparison of an implementation's type with the receiver.
processImplItemCandidate(a, b) ==
  LET first == canEqual(a, b)
  IN (first \ {"no"}) \cup (IF "no" \in first THEN canEqual(b, a) ELSE {})

Probe ==
  /\ found = "unknown"
  /\ found' \in processImplItemCandidate(receiver, other)
  /\ UNCHANGED <<receiver, other, result>>

\* The receiver and the type of the implementation that was found.
UnifyFound ==
  /\ found = "yes" /\ result = None
  /\ result' = unifyWithSite(receiver, other)
  /\ UNCHANGED <<receiver, other, found>>

\* An expression that never has a value coerces to an integer only.
coercion(r, l) == IF r.kind = "Never" /\ l.kind # "Int" THEN Abort ELSE unifyWithSite(l, r)

\* What the coercion made is unified with the expected type once more.
coercionWithSite(l, r) ==
  IF Error \in {l, r} THEN r
  ELSE LET t == coercion(r, l) IN IF t \in Fails THEN t ELSE unifyWithSite(l, t)

Coerce ==
  /\ found = "unknown"
  /\ found' = "coerced" /\ result' = coercionWithSite(receiver, other)
  /\ UNCHANGED <<receiver, other>>

Next == Probe \/ UnifyFound \/ Coerce
Spec == Init /\ [][Next]_vars

-----------------------------------------------------------------------------
\* Kinds of types that probing compares without looking at what they are, and
\* types without one of them, the fields of structures included.
Opaque == {"PlaceHolder", "Projection", "Error", "Dynamic"}
KindsOf(t) == {x.kind : x \in Walked(t)}
Closed(t) == KindsOf(t) \cap Opaque = {}

\* A variable is compared with a string or a function on its right and
\* says no, which a string or a function does not say to a variable.
facing[h \in Nat] ==
  IF h = 0 THEN <<>>
  ELSE [a \in TermUpTo[h] |-> [b \in TermUpTo[h] |->
          \/ Inferred(a, {"General"}) /\ b.kind \in {"Str"} \cup FunctionKinds
          \/ \E i \in DOMAIN a.args \cap DOMAIN b.args : facing[h - 1][a.args[i]][b.args[i]]]]
Facing(a, b) == facing[Height][a][b]

\* Probing misses no implementation: when some type is an instance of the
\* receiver and of the type of the implementation, the comparison of one or of
\* the other direction (processImplItemCandidate) says so.  Unless each of the
\* two has a variable where the other has a string or a function.
ProbeMissesNothing ==
  (found = "no" /\ Closed(receiver) /\ Closed(other) /\ Compatible(receiver, other)) =>
    Facing(receiver, other) /\ Facing(other, receiver)

\* Types that probing cannot tell apart: it does not see the module of a
\* structure without fields and the arguments of any, the capacity of an array,
\* the fields of a tuple after its first, the difference of a function and a
\* pointer to one, that a variable is that of a float; and a type that stands
\* for others is any type.
AnyType(t) == t.kind \in {"Parameter", "Never"} \/ Inferred(t, {"Float"})
SameFields(a, b) ==
  a.tag = b.tag \/ (AllFields(a) = {} /\ AllFields(b) = {} /\ Adts[a.tag].name = Adts[b.tag].name)
SameShape(a, b) ==
  /\ a.kind = b.kind \/ {a.kind, b.kind} = FunctionKinds
  /\ a.tag = b.tag \/ a.kind = "Array"
  /\ a.kind # "ADT" /\ Len(a.args) = Len(b.args)
Seen(t) == IF t.kind = "Tuple" THEN DOMAIN t.args \cap {1} ELSE DOMAIN t.args
alike[h \in Nat] ==
  IF h = 0 THEN <<>>
  ELSE [a \in TermUpTo[h] |-> [b \in TermUpTo[h] |->
          \/ AnyType(a) \/ AnyType(b) \/ Assigned(a, b)
          \/ a.kind = "ADT" /\ b.kind = "ADT" /\ SameFields(a, b)
          \/ SameShape(a, b) /\ \A i \in Seen(a) : alike[h - 1][a.args[i]][b.args[i]]]]
Alike(a, b) == alike[Height][a][b]

\* Probing finds nothing else: what it accepts differs from the receiver only
\* in what the classes of Compare.h do not look at.
ProbeBlindSpots ==
  (found = "yes" /\ Closed(receiver) /\ Closed(other)) =>
    Alike(receiver, other)

\* Kinds of types that the switch of UnificationRules::expect has no case for,
\* and raw pointers, whose unification is an error even when it succeeds.
Unsupported == {"Bool", "Char", "Float", "Closure", "Function", "FunctionPointer", "Parameter",
                "Projection", "Dynamic", "PlaceHolder", "RawPointer", "Error"}

\* Two types that some type is an instance of unify: the compiler does not end
\* in an assertion where a program is well typed, outside the kinds above, an
\* expression that never has a value, which coerces to an integer only, and
\* instances of a generic structure without fields, whose parameters are unified.
Excused(t) == t.kind \in Unsupported \/ (Generic(t) /\ isUnit(t))
CompatibleTypesMeet ==
  (result = Abort /\ Compatible(receiver, other)) =>
    \/ \E t \in Walked(receiver) \cup Walked(other) : Excused(t)
    \/ other.kind = "Never"

\* A type may be used as another: a variable as what it stands for, a mutable
\* reference as one that is not, a type without values as any; and what
\* unification does not look at, the capacity of an array, the module and the
\* arguments of a structure, of which it compares the fields, and which of two
\* variables was that of a number.
UsableTag(t, as) ==
  CASE t.kind = "Array"     -> TRUE
    [] t.kind = "ADT"       -> Adts[t.tag].name = Adts[as.tag].name
    [] t.kind = "Reference" -> t.tag = "mut" \/ as.tag = "const"
    [] OTHER                -> t.tag = as.tag
usable[h \in Nat] ==
  IF h = 0 THEN <<>>
  ELSE [t \in TermUpTo[h] |-> [as \in TermUpTo[h] |->
          \/ t.kind = "Never" \/ (Variable(t) /\ Admits(t.tag, as))
          \/ /\ t.kind = as.kind /\ UsableTag(t, as)
             /\ t.kind # "ADT" =>
                  /\ Len(t.args) = Len(as.args)
                  /\ \A i \in DOMAIN t.args : usable[h - 1][t.args[i]][as.args[i]]]]
Usable(t, as) == usable[Height][t][as]

\* What two types become can stand for either, both when an implementation that
\* was probed is unified with its receiver and when an expression is coerced:
\* no element, base or variable of one is given another type by the other.
MeetingIsUsable ==
  (result \notin {None} \cup Fails /\ Error \notin {receiver, other}) =>
    Usable(receiver, result) /\ Usable(other, result)
=============================================================================
