----------------------------- MODULE ParseTypes -----------------------------
(* The parse functions of types, their bounds, generic arguments and bare    *)
(* function types.                                                           *)
EXTENDS Grammar

parseSliceType ==
  <<Expect({"["}), Call("parseType"), Expect({"]"}), Return>>

parseArrayType ==
  <<Expect({"["}), Call("parseType"), Expect({";"}), Call("parseExpression"),
    Expect({"]"}), Return>>

NegativeLiteral == Ahead(<<{"-"}, Literals>>)

parseGenericArgsConst ==
  <<To({"{"}, "parseBlockExpression"),
    When(checkLiteral(0), Tail1("parseLiteralExpression")),
    When(NegativeLiteral,
         <<Eat({"-"}), Call("parseLiteralExpression"), Return>>),
    When(checkSimplePathSegment, Tail1("parseSimplePathSegment")),
    Fail>>

parseGenericArgsBinding ==
  <<ExpectName, Expect({"="}), Call("parseType"), Return>>

(* The lifetime is read and not eaten.                                       *)
parseLifetimeAsTypeParamBound ==
  <<If(At(Lifetimes), <<Return>>, <<Fail>>)>>

parseImplTraitType ==
  <<Expect({"impl"}), Call("parseTypeParamBounds"), Return>>

parseMacroInvocationType ==
  <<Call("parseSimplePath"), Expect({"!"}), Call("parseDelimTokenTree"),
    Return>>

parseTraitObjectTypeOneBound ==
  <<When(At({"dyn"}), <<Eat({"dyn"})>>), Call("parseTraitBound"), Return>>

parseParenthesizedType ==
  <<Expect({"("}), Call("parseType"), Expect({")"}), Return>>

parseTupleOrParensType ==
  <<Mark, Expect({"("}),
    When(At({")"}), <<Eat({")"}), Recover>> \o Tail1("parseTupleType")),
    Peek("parseType"),
    When(At({")"}), <<Recover>> \o Tail1("parseParenthesizedType")),
    Recover, Call("parseTupleType"), Return>>

parseImplTraitTypeOneBound ==
  <<Expect({"impl"}), Call("parseTraitBound"), Return>>

parseForLifetimes ==
  <<Expect({"for"}), Call("parseGenericParams"), Return>>

BoundStarts == At({"?", "for", "::"}) \o checkPathIdentSegment(0)

(* Looks for the first bound; on any other token the loop looks again.       *)
Bounds(several, one) ==
  Loop(<<When(At({"'label", "'_"}), <<Recover>> \o Tail1(several)),
         When(BoundStarts,
              <<Peek("parseTraitBound"),
                When(At({"+"}), <<Recover>> \o Tail1(several)),
                Recover>> \o Tail1(one))>>)

parseImplType ==
  <<Mark, Expect({"impl"}),
    Bounds("parseImplTraitType", "parseImplTraitTypeOneBound")>>

(* Several bounds are left to this function itself, from where it started.   *)
parseTraitObjectType ==
  <<Mark, When(At({"dyn"}), <<Eat({"dyn"})>>),
    Bounds("parseTraitObjectType", "parseTraitObjectTypeOneBound")>>

parseArrayOrSliceType ==
  <<Expect({"["}), Call("parseType"),
    When(At({"]"}), <<Eat({"]"}), Return>>),
    Expect({";"}), Call("parseExpression"), Expect({"]"}), Return>>

parseInferredType == <<Expect({"_"}), Return>>
parseNeverType == <<Expect({"!"}), Return>>

parseGenericArgs ==
  <<Expect({"<"}),
    When(At({">"}), <<Eat({">"}), Return>>),
    Loop(<<When(At({"eof"}), <<Fail>>),
           When(At({">"}), <<Eat({">"}), Return>>),
           When(Ahead(<<{","}, {">"}>>), <<Eat({","}), Eat({">"}), Return>>),
           If(At({","}), <<Eat({","})>>, <<Call("parseGenericArg")>>)>>)>>

parseGenericArg ==
  <<When(checkLifetime(0), Tail1("parseLifetimeAsLifetime")),
    When(Ahead(<<{"identifier"}, {"="}>>), Tail1("parseGenericArgsBinding")),
    When(checkLiteral(0) \o NegativeLiteral \o At({"{"}),
         Tail1("parseGenericArgsConst")),
    To(canTokenStartType, "parseType"),
    When(checkSimplePathSegment,
         <<If(AtOffset(1, {",", "<"}), Tail1("parseGenericArgsConst"),
              <<Fail>>)>>),
    Fail>>

parseTypeParamBound ==
  <<When(At({"("}) \o BoundStarts, Tail1("parseTraitBound")),
    Call("parseLifetimeAsTypeParamBound"), Return>>

(* A trailing plus is left to the caller, except in front of `where`.        *)
parseTypeParamBounds ==
  LET Ends == {";", ",", "{", ">"}
  IN <<Call("parseTypeParamBound"),
       Loop(<<When(At({"eof"}), <<Fail>>),
              When(At(Ends), <<Return>>),
              When(Ahead(<<{"+"}, Ends>>), <<Return>>),
              When(Ahead(<<{"+"}, {"where"}>>), <<Eat({"+"}), Return>>),
              When(At({"where"}), <<Return>>),
              If(At({"+"}), <<Eat({"+"}), Call("parseTypeParamBound")>>,
                 <<Fail>>)>>)>>

parseType ==
  <<To({"impl"}, "parseImplType"), To({"dyn"}, "parseTraitObjectType"),
    To({"*"}, "parseRawPointerType"), To({"["}, "parseArrayOrSliceType"),
    To({"!"}, "parseNeverType"), To({"&"}, "parseReferenceType"),
    To({"_"}, "parseInferredType"), To({"<"}, "parseQualifiedPathInType"),
    When(Ahead(<<{"("}, {")"}>>), Tail1("parseTupleType")),
    To({"unsafe", "extern", "fn"}, "parseBareFunctionType"),
    Call("parseTypeByLookingOn"), Return>>

parseTraitBound ==
  LET Bound == <<When(At({"?"}), <<Eat({"?"})>>),
                 When(At({"for"}), <<Call("parseForLifetimes")>>),
                 Call("parseTypePath")>>
  IN <<If(At({"("}), <<Eat({"("})>> \o Bound \o <<Expect({")"})>>, Bound),
       Return>>

parseTypeNoBounds ==
  <<To({"impl"}, "parseImplType"), To({"!"}, "parseNeverType"),
    To({"["}, "parseArrayOrSliceType"), To({"*"}, "parseRawPointerType"),
    To({"_"}, "parseInferredType"), To({"dyn"}, "parseTraitObjectType"),
    To({"&"}, "parseReferenceType"),
    To({"unsafe", "extern", "fn"}, "parseBareFunctionType"),
    To({"<"}, "parseQualifiedPathInType"),
    Call("parseTypeByLookingOn"), Return>>

(* Ten tokens are looked at; the eleventh ends the program.                  *)
parseTraitObjectTypeOrTypePathOrMacroInvocation ==
  LET Is(S, r) == When(At(S), <<Recover>> \o Tail1(r))
  IN <<Mark,
       Loop(<<When(At({"eof"}), <<Fail>>),
              If(At({"::"}), <<Eat({"::"})>>,
              <<Is({"?", "for"}, "parseTraitObjectType"),
                Is({"!"}, "parseMacroInvocationType"),
                Is({")", "<", ">", "+"}, "parseTypePath"),
                If(checkSimplePathSegment, <<eatSimplePathSegment>>,
                <<When(checkLifetime(0),
                       <<Recover>> \o Tail1("parseTraitObjectType")),
                  If(checkPathIdentSegment(0), <<eatPathIdentSegment>>,
                  <<Is({"{", ",", ";", "=", "}", "where", "as", "]", ":",
                        "|"}, "parseTypePath"),
                    Fail>>)>>)>>),
              Either(<<>>, <<Fail>>)>>)>>

(* parseTupleOrParensTypeOrTypePathOrMacroInvocationOrTraitObjectTypeOrBare- *)
(* FunctionType.                                                             *)
parseTypeByLookingOn ==
  <<Mark,
    To({"dyn"}, "parseTraitObjectType"),
    When(Ahead(<<{"("}, {")"}>>), Tail1("parseTupleType")),
    To({"("}, "parseTupleOrParensType"), To({"?"}, "parseTraitObjectType"),
    To({"fn", "unsafe", "extern"}, "parseBareFunctionType"),
    To({"::"}, "parseTraitObjectTypeOrTypePathOrMacroInvocation"),
    When(At({"for"}),
         <<Peek("parseForLifetimes"),
           When(At({"unsafe", "extern", "fn"}),
                <<Recover>> \o Tail1("parseBareFunctionType")),
           Recover, Call("parseTraitObjectType"), Return>>),
    When(checkLifetime(0), <<Recover>> \o Tail1("parseTraitObjectType")),
    Call("parseTraitObjectTypeOrTypePathOrMacroInvocation"), Return>>

parseRawPointerType ==
  <<Expect({"*"}), Expect({"mut", "const"}), Call("parseTypeNoBounds"),
    Return>>

parseReferenceType ==
  <<Expect({"&"}),
    When(At(Lifetimes), <<Call("parseLifetimeAsLifetime")>>),
    When(At({"mut"}), <<Eat({"mut"})>>),
    Call("parseTypeNoBounds"), Return>>

parseTupleType ==
  LET Close == <<Eat({")"}), Return>>
  IN <<When(Ahead(<<{"("}, {")"}>>), <<Eat({"("})>> \o Close),
       Expect({"("}), Call("parseType"),
       When(Ahead(<<{","}, {")"}>>), <<Eat({","})>> \o Close),
       When(At({")"}), Close),
       Expect({","}),
       Loop(<<Call("parseType"),
              When(Ahead(<<{","}, {")"}>>), <<Eat({","})>> \o Close),
              When(At({"eof"}), <<Fail>>),
              When(At({")"}), Close),
              When(At({","}), <<Eat({","})>>)>>)>>

-----------------------------------------------------------------------------
(* Bare function types.                                                      *)

MaybeNamed ==
  Ahead(<<{"identifier", "_"}, {":"}>>) \o At(canTokenStartType)

(* checkMaybeNamedParamLeadingComma: the comma is eaten whatever the answer, *)
(* and the attributes are thrown away.                                       *)
checkLeadingComma(yes, no) ==
  If(At({","}),
     <<Eat({","}),
       When(checkOuterAttribute(0), <<Peek("parseOuterAttributes")>>),
       If(MaybeNamed, yes, no)>>, no)

parseMaybeNamedParam ==
  <<When(checkOuterAttribute(0), <<Call("parseOuterAttributes")>>),
    When(Ahead(<<{"identifier", "_"}, {":"}>>),
         <<Eat({"identifier", "_"}), Eat({":"})>>),
    Call("parseType"), Return>>

parseMaybeNamedFunctionParameters ==
  <<Call("parseMaybeNamedParam"),
    Loop(<<When(At({"eof"}), <<Fail>>),
           When(At({")"}), <<Return>>),
           When(Ahead(<<{","}, {")"}>>), <<Eat({","}), Return>>),
           Expect({","}), Call("parseMaybeNamedParam")>>)>>

parseMaybeNamedFunctionParametersVariadic ==
  <<Call("parseMaybeNamedParam"),
    Loop(<<When(At({"eof"}), <<Fail>>),
           When(Ahead(<<{"..."}, {")"}>>), <<Eat({"..."}), Return>>),
           If(<< <<Look(1, {","}), Look(2, {"#"}), Look(3, {"["})>> >>,
              <<Eat({","}), Put("parseOuterAttributes", "attributes")>>,
              <<Expect({","}), Call("parseMaybeNamedParam")>>)>>)>>

parseFunctionParametersMaybeNamedVariadic ==
  LET Variadic ==
        <<Recover>> \o Tail1("parseMaybeNamedFunctionParametersVariadic")
      Plain == <<Recover>> \o Tail1("parseMaybeNamedFunctionParameters")
  IN <<Mark, Peek("parseMaybeNamedParam"),
       Loop(<<When(At({"eof"}), <<Fail>>),
              When(Ahead(<<{","}, {")"}>>) \o At({")"}), Plain),
              checkLeadingComma(<<Peek("parseMaybeNamedParam")>>,
                <<When(<< <<Look(1, {","}), Look(2, {"#"}),
                            Look(3, {"["})>> >>, Variadic),
                  When(Ahead(<<{","}, {"..."}>>), Variadic)>>)>>)>>

parseBareFunctionReturnType ==
  <<Expect({"->"}), Call("parseTypeNoBounds"), Return>>

parseFunctionTypeQualifiers ==
  <<When(At({"unsafe"}), <<Eat({"unsafe"})>>),
    When(At({"extern"}), <<Eat({"extern"}), Call("parseAbi")>>), Return>>

parseBareFunctionType ==
  <<When(At({"for"}), <<Call("parseForLifetimes")>>),
    Call("parseFunctionTypeQualifiers"), Expect({"fn"}), Expect({"("}),
    If(At({")"}), <<Eat({")"})>>,
       <<Call("parseFunctionParametersMaybeNamedVariadic"), Expect({")"})>>),
    When(At({"->"}), <<Call("parseBareFunctionReturnType")>>),
    Return>>

TypeRules ==
  [parseSliceType |-> parseSliceType, parseArrayType |-> parseArrayType,
   parseGenericArgsConst |-> parseGenericArgsConst,
   parseGenericArgsBinding |-> parseGenericArgsBinding,
   parseLifetimeAsTypeParamBound |-> parseLifetimeAsTypeParamBound,
   parseImplTraitType |-> parseImplTraitType,
   parseMacroInvocationType |-> parseMacroInvocationType,
   parseTraitObjectTypeOneBound |-> parseTraitObjectTypeOneBound,
   parseParenthesizedType |-> parseParenthesizedType,
   parseTupleOrParensType |-> parseTupleOrParensType,
   parseImplTraitTypeOneBound |-> parseImplTraitTypeOneBound,
   parseForLifetimes |-> parseForLifetimes, parseImplType |-> parseImplType,
   parseTraitObjectType |-> parseTraitObjectType,
   parseArrayOrSliceType |-> parseArrayOrSliceType,
   parseInferredType |-> parseInferredType, parseNeverType |-> parseNeverType,
   parseGenericArgs |-> parseGenericArgs, parseGenericArg |-> parseGenericArg,
   parseTypeParamBound |-> parseTypeParamBound,
   parseTypeParamBounds |-> parseTypeParamBounds, parseType |-> parseType,
   parseTraitBound |-> parseTraitBound, parseTypeNoBounds |-> parseTypeNoBounds,
   parseTraitObjectTypeOrTypePathOrMacroInvocation |->
     parseTraitObjectTypeOrTypePathOrMacroInvocation,
   parseTypeByLookingOn |-> parseTypeByLookingOn,
   parseRawPointerType |-> parseRawPointerType,
   parseReferenceType |-> parseReferenceType, parseTupleType |-> parseTupleType,
   parseMaybeNamedParam |-> parseMaybeNamedParam,
   parseMaybeNamedFunctionParameters |-> parseMaybeNamedFunctionParameters,
   parseMaybeNamedFunctionParametersVariadic |->
     parseMaybeNamedFunctionParametersVariadic,
   parseFunctionParametersMaybeNamedVariadic |->
     parseFunctionParametersMaybeNamedVariadic,
   parseBareFunctionReturnType |-> parseBareFunctionReturnType,
   parseFunctionTypeQualifiers |-> parseFunctionTypeQualifiers,
   parseBareFunctionType |-> parseBareFunctionType]
=============================================================================
