--------------------------- MODULE ParseFunctions ---------------------------
(* The parse functions of functions, closures, loops, matches and of the     *)
(* values and declarations of structs.                                       *)
EXTENDS Grammar

parseShorthandSelf ==
  <<When(At({"&"}), <<Eat({"&"})>>), When(At({"mut"}), <<Eat({"mut"})>>),
    Expect({"self"}), Return>>

(* `mut` is noted, not eaten.                                                *)
parseTypedSelf ==
  <<Expect({"self"}), Expect({":"}), Call("parseType"), Return>>

parseSelfParam ==
  <<When(checkOuterAttribute(0), <<Call("parseOuterAttributes")>>),
    To({"&"}, "parseShorthandSelf"),
    When(Ahead(<<{"mut"}, {"self"}, {":"}>>)
           \o Ahead(<<{"self"}, {":"}>>), Tail1("parseTypedSelf")),
    When(Ahead(<<{"mut"}, {"self"}>>) \o At({"self"}),
         Tail1("parseShorthandSelf")),
    Fail>>

(* A failure of the attributes answers no, from behind them.                 *)
checkSelfParam(yes, no) ==
  <<Mark,
    When(checkOuterAttribute(0),
         <<[CallElse("parseOuterAttributes", no) EXCEPT !.into = "nothing"]>>),
    If(At({"&", "mut", "self"}), <<Recover>> \o yes, <<Recover>> \o no)>>

parseFunctionParameters ==
  LET Others ==
        <<Loop(<<When(At({"eof"}), <<Fail>>),
                 When(At({")"}), <<Return>>),
                 When(Ahead(<<{","}, {")"}>>), <<Eat({","}), Return>>),
                 If(At({","}), <<Eat({","})>>,
                    <<Call("parseFunctionParam")>>)>>)>>
  IN checkSelfParam(<<Call("parseSelfParam")>> \o Others, Others)

parseFunctionParamPattern ==
  <<Call("parsePatternNoTopAlt"), Expect({":"}),
    When(At({"..."}), <<Eat({"..."}), Return>>),
    Call("parseType"), Return>>

parseFunctionParam ==
  <<When(checkOuterAttribute(0), <<Call("parseOuterAttributes")>>),
    When(At({"..."}), <<Eat({"..."}), Return>>),
    Call("parseFunctionParamPattern"), Return>>

parseAbi ==
  <<When(At({"string"}), <<Take({"string"}), Return>>),
    When(At({"raw string"}), <<Abort>>),
    Fail>>

parseFunctionQualifiers ==
  LET Optional(S) == When(At(S), <<Eat(S)>>)
  IN <<Optional({"const"}), Optional({"async"}), Optional({"unsafe"}),
       When(At({"extern"}),
            <<Eat({"extern"}), Unless(At({"fn"}), <<Call("parseAbi")>>)>>),
       Return>>

parseFunctionReturnType == <<Expect({"->"}), Call("parseType"), Return>>

(* A missing name is reported, and asserted of the next token.               *)
parseFunction ==
  <<When(At({"const", "async", "unsafe", "extern"}),
         <<Call("parseFunctionQualifiers")>>),
    Expect({"fn"}), Take({"identifier"}),
    When(At({"<"}), <<Call("parseGenericParams")>>),
    Expect({"("}),
    Unless(At({")"}), <<Call("parseFunctionParameters")>>), Eat({")"}),
    When(At({"->"}), <<Call("parseFunctionReturnType")>>),
    When(At({"where"}), <<Call("parseWhereClause")>>),
    When(At({";"}), <<Eat({";"}), Return>>),
    Need(At({"{"})), Call("parseBlockExpression"), Return>>

parseClosureExpression ==
  <<When(At({"move"}), <<Eat({"move"})>>),
    If(At({"||"}), <<Eat({"||"})>>,
    <<If(Ahead(<<{"|"}, {"|"}>>), <<Eat({"|"}), Eat({"|"})>>,
      <<If(At({"|"}),
           <<Eat({"|"}), Call("parseClosureParameters"), Expect({"|"})>>,
           <<Abort>>)>>)>>),
    When(At({"->"}),
         <<Eat({"->"}), Call("parseTypeNoBounds"),
           Call("parseBlockExpression"), Return>>),
    Call("parseExpression"), Return>>

(* On a token that neither ends nor separates, the loop looks again.         *)
parseClosureParameters ==
  <<Call("parseClosureParam"),
    Loop(<<When(At({"eof"}), <<Fail>>),
           When(Ahead(<<{","}, {"|"}>>), <<Eat({","}), Return>>),
           When(At({"|"}), <<Return>>),
           When(At({","}), <<Eat({","}), Call("parseClosureParam")>>)>>)>>

parseClosureParam ==
  <<When(checkOuterAttribute(0), <<Call("parseOuterAttributes")>>),
    Call("parsePatternNoTopAlt"),
    When(At({":"}), <<Eat({":"}), Call("parseType")>>), Return>>

-----------------------------------------------------------------------------
(* Loops and matches.                                                        *)

checkLoopLabel == Ahead(<<{"'label"}, {":"}>>)

parseLabelBlockExpression == <<Call("parseBlockExpression"), Return>>

(* The label does not reach the loop.                                        *)
parseLoopExpression ==
  <<When(checkLoopLabel, <<Lose({"'label"}), Eat({":"})>>),
    To({"loop"}, "parseInfiniteLoopExpression"),
    When(Ahead(<<{"while"}, {"let"}>>),
         Tail1("parsePredicatePatternLoopExpression")),
    To({"while"}, "parsePredicateLoopExpression"),
    To({"for"}, "parseIteratorLoopExpression"),
    Call("parseLabelBlockExpression"), Return>>

parseIteratorLoopExpression ==
  <<Expect({"for"}), Call("parsePattern"), Expect({"in"}),
    Call("parseExpression"), Call("parseBlockExpression"), Return>>

parsePredicatePatternLoopExpression ==
  <<Expect({"while"}), Expect({"let"}), Call("parsePattern"),
    Call("parseScrutinee"), Call("parseBlockExpression"), Return>>

parseInfiniteLoopExpression ==
  <<Expect({"loop"}), Call("parseBlockExpression"), Return>>

parsePredicateLoopExpression ==
  <<Expect({"while"}), Call("parseExpression"), Call("parseBlockExpression"),
    Return>>

(* `if` is asserted to be there, and left to the expression.                 *)
parseMatchArmGuard ==
  <<Need(At({"if"})), Require({"if"}), Call("parseExpression"), Return>>

parseMatchArm ==
  <<When(checkOuterAttribute(0), <<Call("parseOuterAttributes")>>),
    Call("parsePattern"),
    When(At({"if"}), <<Call("parseMatchArmGuard")>>), Return>>

parseMatchArms ==
  LET Arm == <<Call("parseMatchArm"), Expect({"=>"}), Call("parseExpression"),
               Either(<<Expect({","})>>, <<When(At({","}), <<Eat({","})>>)>>)>>
  IN Arm \o
     <<Loop(<<When(At({"eof"}), <<Fail>>),
              When(At({"}"}), <<Return>>),
              When(Ahead(<<{","}, {"}"}>>), <<Eat({","}), Return>>)>>
            \o Arm)>>

parseMatchExpression ==
  <<Expect({"match"}), Call("parseScrutinee"), Expect({"{"}),
    When(checkInnerAttribute, <<Call("parseInnerAttributes")>>),
    When(At({"}"}), <<Eat({"}"}), Return>>),
    Call("parseMatchArms"), Expect({"}"}), Return>>

-----------------------------------------------------------------------------
(* Structs.                                                                  *)

(* A field given by its name alone is not eaten.                             *)
parseStructExprField ==
  <<Call("parseOuterAttributes"),
    When(Ahead(<<{"identifier", "integer"}, {":"}>>),
         <<Take({"identifier", "integer"}), Expect({":"}),
           Call("parseExpression"), Return>>),
    If(At({"identifier"}), <<Return>>, <<Fail>>)>>

parseStructExprFields ==
  <<Call("parseStructExprField"),
    Loop(<<When(At({"eof"}), <<Fail>>),
           When(At({"}"}), <<Return>>),
           When(Ahead(<<{","}, {"}"}>>), <<Eat({","}), Return>>),
           When(Ahead(<<{","}, {".."}>>),
                <<Eat({","}), Call("parseStructBase"), Return>>),
           Eat({","}), Call("parseStructExprField")>>)>>

(* `..` is not eaten: the path is looked for on it.                          *)
parseStructBase ==
  <<Need(At({".."})), Call("parsePathInExpression"), Return>>

parseStructExprUnit == <<Call("parsePathInExpression"), Return>>

parseStructExprTuple ==
  <<Call("parsePathInExpression"), Expect({"("}),
    When(At({")"}), <<Eat({")"}), Return>>),
    Loop(<<Call("parseExpression"),
           When(At({"eof"}), <<Fail>>),
           When(At({")"}), <<Eat({")"}), Return>>),
           When(Ahead(<<{","}, {")"}>>), <<Eat({","}), Eat({")"}), Return>>),
           Expect({","}), Call("parseExpression")>>)>>

(* The closing brace is not eaten.                                           *)
parseStructExprStruct ==
  <<Call("parsePathInExpression"), Expect({"{"}),
    If(At({".."}), <<Call("parseStructBase")>>,
       <<Call("parseStructExprFields")>>),
    Return>>

parseStructStruct ==
  <<Expect({"struct"}), ExpectName,
    When(At({"<"}), <<Call("parseGenericParams")>>),
    When(At({"where"}), <<Call("parseWhereClause")>>),
    When(At({";"}), <<Eat({";"}), Return>>),
    Expect({"{"}), When(At({"}"}), <<Eat({"}"}), Return>>),
    Call("parseStructFields"), Expect({"}"}), Return>>

parseStructExpression ==
  <<Mark, Need(At({"::"}) \o checkPathIdentSegment(0)),
    Peek("parsePathInExpression"),
    When(At({"{"}), <<Recover>> \o Tail1("parseStructExprStruct")),
    When(At({"("}), <<Recover>> \o Tail1("parseStructExprTuple")),
    Recover, Call("parseStructExprUnit"), Return>>

(* A field may follow a field without a comma.                               *)
parseStructFields ==
  <<Call("parseStructField"),
    Loop(<<When(At({"}"}), <<Return>>),
           When(Ahead(<<{","}, {"}"}>>), <<Eat({","}), Return>>),
           If(At({","}), <<Eat({","})>>, <<When(At({"eof"}), <<Fail>>)>>),
           Call("parseStructField")>>)>>

parseStructField ==
  <<Call("parseOuterAttributes"),
    When(At({"pub"}), <<Call("parseVisibility")>>),
    ExpectName, Expect({":"}), Call("parseType"), Return>>

parseStructExpressionStructPratt ==
  <<Expect({"{"}), When(At({"}"}), <<Eat({"}"}), Return>>),
    Call("parseStructExprFields"), Expect({"}"}), Return>>

parseStructExpressionTuplePratt ==
  LET Close == <<Eat({")"}), Return>>
  IN <<Expect({"("}), When(At({")"}), Close), Call("parseExpression"),
       When(At({")"}), Close),
       When(Ahead(<<{","}, {")"}>>), <<Eat({","})>> \o Close),
       When(At({","}), <<Eat({","})>>),
       Loop(<<When(At({")"}), Close),
              When(Ahead(<<{","}, {")"}>>), <<Eat({","})>> \o Close),
              If(At({","}), <<Eat({","})>>, <<When(At({"eof"}), <<Fail>>)>>),
              Call("parseExpression")>>)>>

parseTupleStruct ==
  <<Expect({"struct"}), ExpectName,
    When(At({"<"}), <<Call("parseGenericParams")>>), Expect({"("}),
    Unless(At({")"}), <<Call("parseTupleFields")>>), Expect({")"}),
    When(At({"where"}), <<Call("parseWhereClause")>>),
    Expect({";"}), Return>>

parseTupleField ==
  <<When(checkOuterAttribute(0), <<Call("parseOuterAttributes")>>),
    When(At({"pub"}), <<Call("parseVisibility")>>),
    Call("parseType"), Return>>

parseTupleFields ==
  <<Call("parseTupleField"),
    Loop(<<When(At({"eof"}), <<Fail>>),
           When(At({")"}), <<Return>>),
           When(Ahead(<<{","}, {")"}>>), <<Eat({","}), Return>>),
           If(At({","}), <<Eat({","}), Call("parseTupleField")>>,
              <<Return>>)>>)>>

FunctionRules ==
  [parseShorthandSelf |-> parseShorthandSelf, parseTypedSelf |-> parseTypedSelf,
   parseSelfParam |-> parseSelfParam,
   parseFunctionParameters |-> parseFunctionParameters,
   parseFunctionParamPattern |-> parseFunctionParamPattern,
   parseFunctionParam |-> parseFunctionParam, parseAbi |-> parseAbi,
   parseFunctionQualifiers |-> parseFunctionQualifiers,
   parseFunctionReturnType |-> parseFunctionReturnType,
   parseFunction |-> parseFunction,
   parseClosureExpression |-> parseClosureExpression,
   parseClosureParameters |-> parseClosureParameters,
   parseClosureParam |-> parseClosureParam,
   parseLabelBlockExpression |-> parseLabelBlockExpression,
   parseLoopExpression |-> parseLoopExpression,
   parseIteratorLoopExpression |-> parseIteratorLoopExpression,
   parsePredicatePatternLoopExpression |-> parsePredicatePatternLoopExpression,
   parseInfiniteLoopExpression |-> parseInfiniteLoopExpression,
   parsePredicateLoopExpression |-> parsePredicateLoopExpression,
   parseMatchArmGuard |-> parseMatchArmGuard, parseMatchArm |-> parseMatchArm,
   parseMatchArms |-> parseMatchArms,
   parseMatchExpression |-> parseMatchExpression,
   parseStructExprField |-> parseStructExprField,
   parseStructExprFields |-> parseStructExprFields,
   parseStructBase |-> parseStructBase,
   parseStructExprUnit |-> parseStructExprUnit,
   parseStructExprTuple |-> parseStructExprTuple,
   parseStructExprStruct |-> parseStructExprStruct,
   parseStructStruct |-> parseStructStruct,
   parseStructExpression |-> parseStructExpression,
   parseStructFields |-> parseStructFields,
   parseStructField |-> parseStructField,
   parseStructExpressionStructPratt |-> parseStructExpressionStructPratt,
   parseStructExpressionTuplePratt |-> parseStructExpressionTuplePratt,
   parseTupleStruct |-> parseTupleStruct, parseTupleField |-> parseTupleField,
   parseTupleFields |-> parseTupleFields]
=============================================================================
