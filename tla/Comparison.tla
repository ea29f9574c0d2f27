---------------------------- MODULE Comparison ----------------------------
(***************************************************************************)
(* Whether two types can be equal (TyCtx/Compare.h): what probing asks     *)
(* about a receiver and the type of an implementation.  The answer is the  *)
(* set of outcomes the build can produce: "yes", "no", "abort" where an    *)
(* assertion fails, or "overflow" where the stack of the process is full,  *)
(* as the fields of a structure are compared in their turn.                *)
(*                                                                         *)
(* deeper[a][b] is what a call of canEqual answers from within.            *)
(***************************************************************************)
EXTENDS Terms

Answer(b)  == {IF b THEN "yes" ELSE "no"}
Unordered  == {"yes", "no"}     \* a field of one class read as one of another

\* The outcomes of a conjunction, the second part only after a "yes".
AndThen(first, second) ==
  (first \ {"yes"}) \cup (IF "yes" \in first THEN second ELSE {})

\* Comparisons made in turn, until one does not say yes.
Outcomes == {"yes", "no", "abort", "overflow"}
InTurn(outcomes) ==
  {x \in Outcomes :
     IF x = "yes" THEN \A i \in DOMAIN outcomes : x \in outcomes[i]
     ELSE \E i \in DOMAIN outcomes : x \in outcomes[i] /\ \A j \in 1..(i - 1) : "yes" \in outcomes[j]}

CanEqualAll(deeper, as, bs) ==
  AndThen(Answer(Len(as) = Len(bs)), InTurn([i \in DOMAIN as |-> deeper[as[i]][bs[i]]]))

\* A type of one kind, or an inference variable of one of the given kinds.
OfKind(a, b, inferred) ==
  Answer((b.kind = a.kind /\ b.tag = a.tag) \/ Inferred(b, inferred))

BoolCmp(a, b)  == OfKind(a, b, {"General"})
CharCmp(a, b)  == OfKind(a, b, {"General"})
StrCmp(a, b)   == OfKind(a, b, {"General"})
NeverCmp(a, b) == OfKind(a, b, {"General"})
IntCmp(a, b)   == OfKind(a, b, {"General", "Integral"})
UintCmp(a, b)  == OfKind(a, b, {"General", "Integral"})
USizeCmp(a, b) == OfKind(a, b, {"General", "Integral"})
ISizeCmp(a, b) == OfKind(a, b, {"General", "Integral"})
FloatCmp(a, b) == OfKind(a, b, {"General", "Float"})

\* Only the first pair of fields is compared: the loop returns.
visitTuple(deeper, a, b) ==
  IF Len(a.args) # Len(b.args) \/ a.args = <<>> THEN Answer(Len(a.args) = Len(b.args))
  ELSE deeper[a.args[1]][b.args[1]]
TupleCmp(deeper, a, b) ==
  IF b.kind = "Tuple" THEN visitTuple(deeper, a, b)
  ELSE Answer(Inferred(b, {"General", "Float"}))

ReferencesWithoutMutability(deeper, a, b) == deeper[a.args[1]][b.args[1]]
visitReference(deeper, a, b) ==
  AndThen(Answer(a.tag = b.tag), deeper[a.args[1]][b.args[1]])
ReferenceCmp(deeper, a, b) ==
  IF b.kind = "Reference" THEN visitReference(deeper, a, b) ELSE Answer(Inferred(b, {"General"}))

visitRawPointer(deeper, a, b) ==
  AndThen(Answer(a.tag = b.tag), deeper[a.args[1]][b.args[1]])
RawPointerCmp(deeper, a, b) ==
  IF b.kind = "RawPointer" THEN visitRawPointer(deeper, a, b) ELSE Answer(Inferred(b, {"General"}))

\* The capacity is not compared.
visitArray(deeper, a, b) == deeper[a.args[1]][b.args[1]]
ArrayCmp(deeper, a, b) ==
  IF b.kind = "Array" THEN visitArray(deeper, a, b) ELSE Answer(Inferred(b, {"General"}))

visitSlice(deeper, a, b) == deeper[a.args[1]][b.args[1]]
SliceCmp(deeper, a, b) ==
  IF b.kind = "Slice" THEN visitSlice(deeper, a, b) ELSE Answer(Inferred(b, {"General"}))

\* Parameters in order, then the type that is returned.
visitFunction(deeper, a, b) == CanEqualAll(deeper, a.args, b.args)
FunctionCmp(deeper, a, b) ==
  IF b.kind = "Function" THEN visitFunction(deeper, a, b) ELSE Answer(Inferred(b, {"General"}))

visitFunctionPointer(deeper, a, b) == CanEqualAll(deeper, a.args, b.args)
FunctionPointerCmp(deeper, a, b) ==
  IF b.kind \in {"Function", "FunctionPointer"} THEN visitFunctionPointer(deeper, a, b)
  ELSE Answer(Inferred(b, {"General"}))

visitClosure(deeper, a, b) == AndThen(Answer(a.tag = b.tag), CanEqualAll(deeper, a.args, b.args))
ClosureCmp(deeper, a, b) ==
  IF b.kind = "Closure" THEN visitClosure(deeper, a, b) ELSE Answer(Inferred(b, {"General"}))

\* The vectors of two variants hold the same fields: those of one definition,
\* which all its instances share, or none.
SameFieldObjects(a, b, v) ==
  a.tag = b.tag \/ (Fields(a)[v] = <<>> /\ Fields(b)[v] = <<>>)

VariantCanEqual(deeper, a, b, v) ==
  LET x == Fields(a)[v]
      y == Fields(b)[v]
  IN  AndThen(Answer(SameFieldObjects(a, b, v)), InTurn([f \in DOMAIN x |-> deeper[x[f]][y[f]]]))

visitADT(deeper, a, b) ==
  LET x == Adts[a.tag]
      y == Adts[b.tag]
  IN AndThen(Answer(x.kind = y.kind /\ x.name = y.name /\ Len(x.variants) = Len(y.variants)),
             InTurn([v \in DOMAIN x.variants |-> VariantCanEqual(deeper, a, b, v)]))
ADTCmp(deeper, a, b) ==
  IF b.kind = "ADT" THEN visitADT(deeper, a, b) ELSE Answer(Inferred(b, {"General"}))

\* Every bound is asked for, and satisfiesBound asserts; without one, the
\* answer asks for exactly one unsatisfied bound.
boundsCompatible(a) == IF a.tag = "" THEN Answer(FALSE) ELSE {"abort"}
\* A trait object says that it has no bounds, whatever it was made from.
visitDynamic(a) == boundsCompatible(a)
DynamicCmp(a, b) == IF b.kind = "Dynamic" THEN visitDynamic(a) ELSE Answer(FALSE)

\* A placeholder is read as a parameter, or as an inference variable.
ParamCmp(a, b) == IF b.kind = "PlaceHolder" THEN Unordered ELSE Answer(TRUE)
PlaceholderCmp(a, b) ==
  IF b.kind = "PlaceHolder" THEN Unordered
  ELSE Answer(b.kind # "Inferred" \/ Inferred(b, {"General"}))

InferCmp(a, b) ==
  Answer(CASE b.kind \in IntegerKinds -> a.tag \in {"General", "Integral"}
           [] b.kind = "Float" -> a.tag \in {"General", "Float"}
           [] b.kind \in {"Str", "Error", "FunctionPointer", "Projection", "Function"} -> FALSE
           [] b.kind \in {"PlaceHolder", "Inferred", "Parameter", "Never"} -> TRUE
           [] OTHER -> a.tag = "General")

compare(deeper, a, b) ==
  CASE a.kind = "Bool"            -> BoolCmp(a, b)
    [] a.kind = "Char"            -> CharCmp(a, b)
    [] a.kind = "Str"             -> StrCmp(a, b)
    [] a.kind = "Never"           -> NeverCmp(a, b)
    [] a.kind = "Int"             -> IntCmp(a, b)
    [] a.kind = "Uint"            -> UintCmp(a, b)
    [] a.kind = "USize"           -> USizeCmp(a, b)
    [] a.kind = "ISize"           -> ISizeCmp(a, b)
    [] a.kind = "Float"           -> FloatCmp(a, b)
    [] a.kind = "Tuple"           -> TupleCmp(deeper, a, b)
    [] a.kind = "Reference"       -> ReferenceCmp(deeper, a, b)
    [] a.kind = "RawPointer"      -> RawPointerCmp(deeper, a, b)
    [] a.kind = "Array"           -> ArrayCmp(deeper, a, b)
    [] a.kind = "Slice"           -> SliceCmp(deeper, a, b)
    [] a.kind = "Function"        -> FunctionCmp(deeper, a, b)
    [] a.kind = "FunctionPointer" -> FunctionPointerCmp(deeper, a, b)
    [] a.kind = "Closure"         -> ClosureCmp(deeper, a, b)
    [] a.kind = "ADT"             -> ADTCmp(deeper, a, b)
    [] a.kind = "Dynamic"         -> DynamicCmp(a, b)
    [] a.kind = "Parameter"       -> ParamCmp(a, b)
    [] a.kind = "PlaceHolder"     -> PlaceholderCmp(a, b)
    [] a.kind = "Inferred"        -> InferCmp(a, b)
    [] a.kind = "Projection"      -> deeper[a.args[1]][b]
    [] a.kind = "Error"           -> Answer(b.kind = "Error")

canEqualWithin[n \in Nat] ==
  IF n = 0 THEN [a \in Term |-> [b \in Term |-> {"overflow"}]]
  ELSE [a \in Term |-> [b \in Term |-> compare(canEqualWithin[n - 1], a, b)]]
canEqual(a, b) == canEqualWithin[MaxCalls][a][b]
=============================================================================
