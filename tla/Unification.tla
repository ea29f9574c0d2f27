---------------------------- MODULE Unification ----------------------------
(***************************************************************************)
(* Unification of two types (TyCtx/Unification.cpp): the type both become, *)
(* or Abort.  unifyWithSite asks for errors to be emitted, which asserts,  *)
(* so that a failure anywhere inside two types ends the compiler.  So does *)
(* a stack that is full (Overflow): the fields of structures are unified   *)
(* in their turn, which never ends for a structure that refers to itself.  *)
(*                                                                         *)
(* deeper[l][r] is what a call of unifyWithSite returns within.            *)
(***************************************************************************)
EXTENDS Terms

\* Not types: what ends the process, and what does not.
Abort    == Leaf("Abort")
Overflow == Leaf("Overflow")
Fine     == Leaf("Fine")
Fails    == {Abort, Overflow}

\* What comes of unifications made in turn.
FirstFailure(results) ==
  LET failed == {i \in DOMAIN results : results[i] \in Fails}
  IN  IF failed = {} THEN Fine
      ELSE results[CHOOSE i \in failed : \A j \in failed : i <= j]

\* A type made of the unified parts of two.  The code wraps a part in a
\* TypeVariable of its reference, which stands for the part itself.
WithParts(t, parts) ==
  IF FirstFailure(parts) = Fine THEN [t EXCEPT !.args = parts] ELSE FirstFailure(parts)
PartsUnified(deeper, l, r)  == [i \in DOMAIN l.args |-> deeper[l.args[i]][r.args[i]]]
UnifyParts(deeper, t, l, r) == WithParts(t, PartsUnified(deeper, l, r))

expectIntType(l, r) ==
  IF r.kind = "Int" /\ r.tag = l.tag THEN r
  ELSE IF Inferred(r, {"General", "Integral"}) THEN l ELSE Error

expectUint(l, r) ==
  IF r.kind = "Uint" /\ r.tag = l.tag THEN r
  ELSE IF Inferred(r, {"General", "Integral"}) THEN l ELSE Error

\* The sizes assert where the others return an error.
expectUSizeType(l, r) ==
  CASE Inferred(r, {"General", "Integral"}) -> l
    [] Inferred(r, {"Float"})               -> Abort
    [] r.kind = "USize"                     -> r
    [] OTHER                                -> Error

expectISizeType(l, r) ==
  CASE Inferred(r, {"General", "Integral"}) -> l
    [] Inferred(r, {"Float"})               -> Abort
    [] r.kind = "ISize"                     -> r
    [] OTHER                                -> Error

StrWithoutVariables(l, r) == IF r.kind = "Str" THEN r ELSE Error
expectStr(l, r) ==
  CASE Inferred(r, {"General"}) -> l
    [] r.kind = "Str"           -> r
    [] OTHER                    -> Error

expectTuple(deeper, l, r) ==
  CASE Inferred(r, {"General"})                           -> l
    [] r.kind = "Tuple" /\ Len(r.args) = Len(l.args)      -> UnifyParts(deeper, r, l, r)
    [] OTHER                                              -> Error

\* Two pointers are unified for their bases only: the result is an error.
expectRawPointer(deeper, l, r) ==
  CASE Inferred(r, {"General"})  -> l
    [] r.kind = "RawPointer"     -> IF deeper[l.args[1]][r.args[1]] \in Fails THEN deeper[l.args[1]][r.args[1]] ELSE Error
    [] OTHER                     -> Error

expectSlice(deeper, l, r) ==
  CASE Inferred(r, {"General"}) -> l
    [] r.kind = "Slice"         -> UnifyParts(deeper, r, l, r)
    [] OTHER                    -> Error

\* The capacity is that of the right one.
expectArray(deeper, l, r) ==
  CASE Inferred(r, {"General"}) -> l
    [] r.kind = "Array"         -> UnifyParts(deeper, r, l, r)
    [] OTHER                    -> Error

MutabilityTheOtherWay(l, r) == r.tag = "mut" => l.tag = "mut"
acceptableMutability(l, r) == l.tag = "mut" => r.tag = "mut"
expectReference(deeper, l, r) ==
  CASE Inferred(r, {"General"}) -> l
    [] r.kind = "Reference"     ->
         LET t == UnifyParts(deeper, l, l, r)
         IN IF t \in Fails \/ acceptableMutability(l, r) THEN t ELSE Error
    [] OTHER                    -> Error

\* The fields of the two in turn.
VariantsUnify(deeper, x, y) ==
  IF Len(x) # Len(y) THEN Abort
  ELSE FirstFailure([f \in DOMAIN x |-> deeper[x[f]][y[f]]])
FieldsUnify(deeper, l, r) ==
  FirstFailure([v \in DOMAIN Fields(l) |-> VariantsUnify(deeper, Fields(l)[v], Fields(r)[v])])

\* The parameters of two units, which are not substituted.
SubstitutionsUnify(deeper, l, r) ==
  LET x == Adts[l.tag].parameters
      y == Adts[r.tag].parameters
  IN  IF ~isUnit(l) \/ ~isUnit(r) THEN Fine
      ELSE IF Len(x) # Len(y) THEN Abort
      ELSE FirstFailure([i \in DOMAIN x |-> deeper[Param(x[i])][Param(y[i])]])

expectADT(deeper, l, r) ==
  LET fields == FieldsUnify(deeper, l, r)
      params == SubstitutionsUnify(deeper, l, r)
  IN  IF Inferred(r, {"General"}) THEN l
      ELSE IF \/ r.kind # "ADT" \/ Adts[l.tag].kind # Adts[r.tag].kind
              \/ Adts[l.tag].name # Adts[r.tag].name \/ Len(Fields(l)) # Len(Fields(r)) THEN Error
      ELSE IF fields # Fine THEN fields
      ELSE IF params # Fine THEN params ELSE l

\* A type that never has a value becomes what it is unified with.
expectNever(l, r) ==
  CASE Inferred(r, {"General"}) -> l
    [] r.kind \in {"USize", "ADT", "Bool", "Char", "Int", "ISize", "Float", "Closure",
                   "Function", "Never"} -> r
    [] OTHER -> Error

expectInferenceVariable(l, r) ==
  CASE r.kind = "Inferred" ->
         IF \/ l.tag = "General" \/ r.tag \in {l.tag, "General"} THEN r ELSE Error
    [] r.kind \in IntegerKinds -> IF l.tag \in {"General", "Integral"} THEN r ELSE Error
    [] r.kind = "Float" -> IF l.tag \in {"General", "Float"} THEN r ELSE Error
    [] r.kind = "Error" -> Error
    [] OTHER -> IF l.tag = "General" THEN r ELSE Error

expect(deeper, l, r) ==
  CASE l.kind = "Int"        -> expectIntType(l, r)
    [] l.kind = "Uint"       -> expectUint(l, r)
    [] l.kind = "USize"      -> expectUSizeType(l, r)
    [] l.kind = "ISize"      -> expectISizeType(l, r)
    [] l.kind = "Str"        -> expectStr(l, r)
    [] l.kind = "Never"      -> expectNever(l, r)
    [] l.kind = "Tuple"      -> expectTuple(deeper, l, r)
    [] l.kind = "ADT"        -> expectADT(deeper, l, r)
    [] l.kind = "Array"      -> expectArray(deeper, l, r)
    [] l.kind = "Slice"      -> expectSlice(deeper, l, r)
    [] l.kind = "RawPointer" -> expectRawPointer(deeper, l, r)
    [] l.kind = "Reference"  -> expectReference(deeper, l, r)
    [] l.kind = "Inferred"   -> expectInferenceVariable(l, r)
    [] OTHER                 -> Abort

\* Both ends of a failure: the assertion of a missing case, and that of
\* emitFailedUnification.
Emitted(t) == IF t = Error THEN Abort ELSE t
unifyWithin[n \in Nat] ==
  IF n = 0 THEN [l \in Term |-> [r \in Term |-> Overflow]]
  ELSE [l \in Term |-> [r \in Term |-> Emitted(expect(unifyWithin[n - 1], l, r))]]
unifyWithSite(l, r) == unifyWithin[MaxCalls][l][r]
=============================================================================
