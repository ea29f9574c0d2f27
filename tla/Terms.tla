------------------------------- MODULE Terms -------------------------------
(***************************************************************************)
(* Types as terms (TyCtx/TyTy.h).  A type is its kind, a tag (the width of *)
(* a number, the kind of an inference variable, the mutability of a        *)
(* pointer, the capacity of an array, the name of a parameter, the number  *)
(* of bounds of a trait object, the definition of a structure) and the     *)
(* types it is built from; the last one of a function is what it returns.  *)
(* An inference variable occurs once: what the places that share one learn *)
(* of each other is the subject of module Inference.                       *)
(*                                                                         *)
(* What is defined by recursion is a function of a number: of the height   *)
(* of the types, where it follows them, and of the calls that the stack of *)
(* the process still has room for, where it also follows the fields of     *)
(* structures, which may come back to the structure.                       *)
(***************************************************************************)
EXTENDS Naturals, Sequences

CONSTANTS
  Adts,      \* structures and enumerations: name, kind, variants, each a
             \* sequence of field types, and the names of their parameters
  Height,    \* bound on the height of types
  MaxCalls   \* the size of the process stack, in calls of one function

IntegerKinds == {"Int", "Uint", "USize", "ISize"}
PlainKinds == {"Bool", "Char", "USize", "ISize", "Str", "Never", "PlaceHolder", "Error"}
TaggedKinds == {"Int", "Uint", "Float", "Parameter", "Dynamic"}
PointerKinds == {"Reference", "RawPointer"}
FunctionKinds == {"Function", "FunctionPointer"}
Kinds == PlainKinds \cup TaggedKinds \cup PointerKinds \cup FunctionKinds
           \cup {"Inferred", "Array", "Slice", "Projection", "Tuple", "Closure", "ADT"}

\* What the classes of types hold.
WellFormed(t) ==
  /\ t.kind \in PlainKinds    => t.tag = "" /\ t.args = <<>>
  /\ t.kind \in TaggedKinds   => t.args = <<>>
  /\ t.kind = "Inferred"      => t.tag \in {"General", "Integral", "Float"} /\ t.args = <<>>
  /\ t.kind \in PointerKinds  => t.tag \in {"mut", "const"}
  /\ t.kind \in PointerKinds \cup {"Array", "Slice", "Projection"}            => Len(t.args) = 1
  /\ t.kind \in FunctionKinds \cup {"Tuple", "Slice", "Projection"} => t.tag = ""
  /\ t.kind \in FunctionKinds \cup {"Closure"}                      => t.args # <<>>
  /\ t.kind = "ADT" => t.tag \in DOMAIN Adts /\ Len(t.args) = Len(Adts[t.tag].parameters)

TermUpTo[h \in Nat] ==
  IF h = 0 THEN {}
  ELSE {t \in [kind : Kinds, tag : STRING, args : Seq(TermUpTo[h - 1])] : WellFormed(t)}
Term == TermUpTo[Height]

ASSUME TermsAssumption ==
  /\ Height \in Nat /\ MaxCalls \in Nat
  /\ \A d \in DOMAIN Adts : /\ Adts[d].variants \in Seq(Seq(Term))
                            /\ Adts[d].parameters \in Seq(STRING)

Type(kind, tag, args) == [kind |-> kind, tag |-> tag, args |-> args]
Leaf(kind)  == Type(kind, "", <<>>)
Error       == Leaf("Error")
Param(name) == Type("Parameter", name, <<>>)

Inferred(t, kinds) == t.kind = "Inferred" /\ t.tag \in kinds
Variable(t) == t.kind = "Inferred"

Fields(t)   == Adts[t.tag].variants
IsEnum(t)   == Adts[t.tag].kind = "Enum"
Generic(t)  == t.kind = "ADT" /\ Adts[t.tag].parameters # <<>>

\* The fields of every variant of a structure.
AllFields(t) == UNION {{Fields(t)[v][f] : f \in DOMAIN Fields(t)[v]} : v \in DOMAIN Fields(t)}

isUnit(t) ==
  CASE t.kind = "Never" -> TRUE
    [] t.kind = "Tuple" -> t.args = <<>>
    [] t.kind = "ADT"   -> ~IsEnum(t) /\ AllFields(t) = {}
    [] OTHER            -> FALSE

\* The type itself, what it is built from and the types of its fields, as far
\* as calls on each can go.
Parts(t)  == {t.args[i] : i \in DOMAIN t.args}
Inside(t) == Parts(t) \cup (IF t.kind = "ADT" THEN AllFields(t) ELSE {})
walked[n \in Nat] ==
  IF n = 0 THEN [t \in Term |-> {}]
  ELSE [t \in Term |-> {t} \cup UNION {walked[n - 1][s] : s \in Inside(t)}]
Walked(t) == walked[MaxCalls][t]

-----------------------------------------------------------------------------
(* A reference definition: some type is an instance of both. *)

\* What an inference variable may stand for.
Admits(kind, t) ==
  \/ kind = "General"
  \/ kind = "Integral" /\ (t.kind \in IntegerKinds \/ Inferred(t, {"General", "Integral"}))
  \/ kind = "Float"    /\ (t.kind = "Float" \/ Inferred(t, {"General", "Float"}))

\* One of the two is a variable that may stand for the other.
Assigned(a, b) == (Variable(a) /\ Admits(a.tag, b)) \/ (Variable(b) /\ Admits(b.tag, a))

compatible[h \in Nat] ==
  IF h = 0 THEN <<>>
  ELSE [a \in TermUpTo[h] |-> [b \in TermUpTo[h] |->
          \/ Assigned(a, b)
          \/ /\ a.kind = b.kind /\ a.tag = b.tag /\ Len(a.args) = Len(b.args)
             /\ \A i \in DOMAIN a.args : compatible[h - 1][a.args[i]][b.args[i]]]]
Compatible(a, b) == compatible[Height][a][b]
=============================================================================
