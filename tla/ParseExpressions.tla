-------------------------- MODULE ParseExpressions -------------------------
(* The parse functions of expressions.  Which operator binds tighter is data *)
(* here (module Expressions is about it): the loop of parseExpression goes   *)
(* on or ends.                                                               *)
EXTENDS Grammar

Binding ==
  {"::", "+", "-", "<", ">>", "=", "..", "..=", "(", "+=", "==", "*", "[",
   ">", "?", ".", "as"}

parseExpression ==
  <<Call("parseUnaryExpression"),
    Loop(<<When(At(Keywords \ {"as"}), <<Abort>>),
           Unless(At(Binding), <<Return>>),
           When(Ahead(<<{"."}, {"identifier"}, {"("}>>), <<>>),
           Either(<<Return>>, <<Call("parseInfixExpression")>>)>>)>>

parseInfixExpression ==
  <<When(At({"?"}), <<Eat({"?"}), Return>>),
    To({"+", "-", "*", ">>", "<<"}, "parseArithmeticOrLogicalExpression"),
    To({"<", ">", "=="}, "parseComparisonExpression"),
    To({"="}, "parseAssignmentExpression"),
    To({"..", "..="}, "parseRangeFrom"),
    To({"["}, "parseIndexExpression"),
    To({"("}, "parseCallExpression"),
    To({"+="}, "parseCompoundAssignmentExpression"),
    To({"as"}, "parseTypeCastExpression"),
    When(At(Keywords), <<Abort>>),
    When(At({"."}),
         <<When(AtOffset(1, {"await"}), Tail1("parseAwaitExpression")),
           When(AtOffset(1, {"integer"}), Tail1("parseTupleIndexingExpression")),
           When(Ahead(<<{"."}, {"identifier"}, Tokens \ {"(", "::"}>>),
                Tail1("parseFieldExpression")),
           Call("parseMethodCallExpression"), Return>>),
    Fail>>

-----------------------------------------------------------------------------
(* Unary expressions.                                                        *)

(* What follows a path decides what it is the path of; structs tells a block *)
(* from the fields of a struct, where a struct may not stand.                *)
AfterPath(structs, tuple) ==
  LET Restricted == Either(<<Return>>, <<>>)
  IN <<To({"!"}, "parseMacroInvocationExpressionPratt"),
       When(At({"{"}),
            <<Unless(structs, <<Restricted>>),
              Call("parseStructExpressionStructPratt"), Return>>),
       When(At({"("}), <<Restricted, Call(tuple), Return>>),
       Return>>

NameBeforeField ==
  LET name == Look(2, {"identifier"})
  IN << <<name, Look(3, {","})>>,
        <<name, Look(3, {":"}), Look(5, {","})>>,
        <<name, Look(3, {":"}), Look(4, Tokens \ canTokenStartType)>> >>

FieldOrNoType ==
  << <<Look(2, {"identifier"}), Look(3, {","})>>,
     <<Look(3, {":"}), Look(5, {","})>>,
     <<Look(4, Tokens \ canTokenStartType)>> >>

(* After `&` and `&&`, `mut` is looked for one token too far on; `&&` itself *)
(* is not eaten.                                                             *)
Borrowed ==
  <<If(AtOffset(1, {"mut"}), <<Eat(Keywords), Call("parseExpression")>>,
       <<Call("parseExpression")>>),
    Return>>

(* `-` and `!` are left for the operand.                                     *)
parseUnaryExpression ==
  <<When(At({"identifier"}),
         <<Call("parsePathInExpressionPratt")>>
         \o AfterPath(NameBeforeField, "parseCallExpression")),
    To({"<"}, "parseQualifiedPathInExpression"),
    To(LiteralTokens, "parseLiteralExpression"),
    To({"("}, "parseGroupedOrTupleExpression"),
    To({"-", "!"}, "parseExpression"),
    When(At({"*"}), <<Eat({"*"}), Call("parseExpression"), Return>>),
    When(At({"&"}), <<Eat({"&"})>> \o Borrowed),
    When(At({"&&"}), Borrowed),
    When(At({"::"}), <<Fail>>),
    To({"..", "..="}, "parseRangeTo"),
    To({"|", "||"}, "parseClosureExpression"),
    To({"["}, "parseArrayExpression"),
    To({"{"}, "parseBlockExpression"),
    When(At({"$"}),
         <<Unless(AtOffset(1, {"crate"}), <<Fail>>),
           Call("parsePathInExpressionPratt")>>
         \o AfterPath(FieldOrNoType, "parseStructExpressionTuplePratt")),
    When(At({"self"}),
         <<Call("parsePathInExpressionPratt"), Either(<<Return>>, <<>>)>>
         \o AfterPath(FieldOrNoType, "parseStructExpressionTuplePratt")),
    When(At({"Self", "crate", "super"}),
         <<Call("parsePathInExpressionPratt")>>
         \o AfterPath(FieldOrNoType, "parseStructExpressionTuplePratt")),
    To({"move"}, "parseClosureExpression"),
    To({"return"}, "parseReturnExpression"),
    To({"break"}, "parseBreakExpression"),
    To({"continue"}, "parseContinueExpression"),
    When(At({"if"}),
         <<When(AtOffset(1, {"let"}), Tail1("parseIfLetExpression")),
           Call("parseIfExpression"), Return>>),
    To({"loop"}, "parseLoopExpression"),
    When(At({"while"}),
         <<When(AtOffset(1, {"let"}),
                Tail1("parsePredicatePatternLoopExpression")),
           Call("parsePredicateLoopExpression"), Return>>),
    To({"match"}, "parseMatchExpression"),
    To({"unsafe"}, "parseUnsafeBlockExpression"),
    To({"true", "false"}, "parseLiteralExpression"),
    Fail>>

(* `$crate` is noted, not eaten; a failure of generic arguments is ignored.  *)
parsePathInExpressionPratt ==
  LET Segments ==
        <<Loop(<<Unless(At({"::"}), <<Return>>),
                 Eat({"::"}), Call("parsePathExprSegment")>>)>>
  IN <<If(At({"identifier"}), <<Take({"identifier"})>>,
       <<Unless(DollarCrate(0),
                <<Need(At({"super", "self", "Self", "crate"})), Eat(Keywords)>>)>>),
       When(Ahead(<<{"::"}, {"<"}>>),
            <<Eat({"::"}), CallElse("parseGenericArgs", <<>>)>>)>>
     \o Segments

parseLiteralExpression == <<Need(checkLiteral(0)), Take(Literals), Return>>

parseMacroInvocationExpression ==
  <<Call("parseSimplePath"), Expect({"!"}), Call("parseDelimTokenTree"), Return>>

parseMacroInvocationExpressionPratt ==
  <<Expect({"!"}), Call("parseDelimTokenTree"), Return>>

-----------------------------------------------------------------------------
(* Arrays, tuples, calls and fields.                                         *)

(* The first of several elements is not put in the list; on a token that     *)
(* neither ends nor separates, the loop looks again.                         *)
parseArrayElements ==
  <<Call("parseExpression"),
    When(At({";"}), <<Eat({";"}), Call("parseExpression"), Return>>),
    When(Ahead(<<{","}, {"]"}>>), <<Eat({","}), Return>>),
    Discard,
    Loop(<<When(At({"eof"}), <<Fail>>),
           When(Ahead(<<{","}, {"]"}>>), <<Eat({","}), Return>>),
           When(At({"]"}), <<Return>>),
           When(At({","}), <<Eat({","}), Call("parseExpression")>>)>>)>>

parseArrayExpression ==
  <<Expect({"["}), When(At({"]"}), <<Eat({"]"}), Return>>),
    Call("parseArrayElements"), Expect({"]"}), Return>>

UnderScoreUneaten == <<Need(At({"_"})), Return>>

parseUnderScoreExpression == <<Expect({"_"}), Return>>

parseCallExpression ==
  <<Expect({"("}), When(At({")"}), <<Eat({")"}), Return>>),
    Call("parseCallParams"), Expect({")"}), Return>>

parseTupleIndexingExpression ==
  <<Expect({"."}), Need(At({"integer"})), Take({"integer"}), Return>>

parseFieldExpression == <<Expect({"."}), ExpectName, Return>>

IndexUnchecked ==
  <<Expect({"["}), Call("parseExpression"), Eat({"]"}), Return>>

parseIndexExpression ==
  <<Expect({"["}), Call("parseExpression"), Expect({"]"}), Return>>

parseTypeCastExpression ==
  <<Expect({"as"}), Call("parseTypeNoBounds"), Return>>

parseAssignmentExpression ==
  <<Expect({"="}), Call("parseExpression"), Return>>

ParamsWaiting ==
  <<Call("parseExpression"),
    Loop(<<When(At({"eof"}), <<Fail>>),
           When(At({")"}), <<Return>>),
           When(At({","}), <<Eat({","}), Call("parseExpression")>>)>>)>>

parseCallParams ==
  <<Call("parseExpression"),
    Loop(<<When(At({"eof"}), <<Fail>>),
           When(At({")"}), <<Return>>),
           When(Ahead(<<{","}, {")"}>>), <<Eat({","}), Return>>),
           Expect({","}), Call("parseExpression")>>)>>

parseMethodCallExpression ==
  <<Expect({"."}), Call("parsePathExprSegment"), Expect({"("}),
    When(At({")"}), <<Eat({")"}), Return>>),
    Call("parseCallParams"), Expect({")"}), Return>>

(* The operator is left for the operand.                                     *)
parseLazyBooleanExpression ==
  <<Need(At({"||"})), Call("parseExpression"), Return>>

parseComparisonExpression ==
  <<Expect({"==", "!=", ">", "<", ">=", "<="}), Call("parseExpression"),
    Return>>

parseArithmeticOrLogicalExpression ==
  <<Expect({"+", "-", "*", "/", "%", "&", "|", "^", "<<", ">>"}),
    Call("parseExpression"), Return>>

parseTupleElements ==
  <<Call("parseExpression"), Expect({","}),
    Loop(<<When(At({"eof"}), <<Fail>>),
           When(At({")"}), <<Return>>),
           Call("parseExpression"),
           Unless(At({")"}), <<Expect({","})>>)>>)>>

(* The parenthesis that closes the tuple is not eaten.                       *)
parseTupleExpression ==
  <<Expect({"("}), When(At({")"}), <<Eat({")"}), Return>>),
    Call("parseTupleElements"), Need(At({")"})), Return>>

parseGroupedExpression ==
  <<Expect({"("}), Call("parseExpression"), Expect({")"}), Return>>

parseGroupedOrTupleExpression ==
  <<Mark, Expect({"("}),
    When(At({")"}), <<Eat({")"}), Recover, Call("parseTupleExpression"), Return>>),
    Call("parseExpression"),
    When(At({")"}), <<Recover, Call("parseGroupedExpression"), Return>>),
    Recover, Call("parseTupleExpression"), Return>>

parseCompoundAssignmentExpression ==
  <<Expect({"+=", "-=", "*=", "/=", "%=", "^=", "&=", "|=", "<<=", ">>="}),
    Call("parseExpression"), Return>>

parseErrorPropagationExpression == <<Expect({"?"}), Return>>

parseAwaitExpression == <<Expect({"."}), Expect({"await"}), Return>>

(* Ranges without and with a start.                                          *)
checkRangeTerminator == At({":", ";", ")", "]", "}"})

parseRangeTo ==
  <<When(At({".."}),
         <<Eat({".."}), When(checkRangeTerminator, <<Return>>),
           Call("parseExpression"), Return>>),
    Expect({"..="}), Call("parseExpression"), Return>>

parseRangeFrom == parseRangeTo

-----------------------------------------------------------------------------
(* Blocks, conditionals and jumps.                                           *)

parseScrutinee == <<Call("parseExpression"), Return>>

parseUnsafeBlockExpression ==
  <<Expect({"unsafe"}), Call("parseBlockExpression"), Return>>

parseAsyncBlockExpression ==
  <<Expect({"async"}), When(At({"move"}), <<Eat({"move"})>>),
    Call("parseBlockExpression"), Return>>

(* The label is read after it was eaten.                                     *)
parseBreakExpression ==
  <<Expect({"break"}),
    When(At({"'label"}), <<Eat({"'label"}), Read({"'label"})>>),
    When(At({";"}), <<Return>>),
    Call("parseExpression"), Return>>

Else ==
  <<Unless(At({"else"}), <<Return>>), Eat({"else"}),
    When(Ahead(<<{"if"}, {"let"}>>), Tail1("parseIfLetExpression")),
    To({"if"}, "parseIfExpression"),
    Call("parseBlockExpression"), Return>>

parseIfLetExpression ==
  <<Expect({"if"}), Expect({"let"}), Call("parsePattern"), Expect({"="}),
    Call("parseScrutinee"), Call("parseBlockExpression")>> \o Else

parseIfExpression ==
  <<Expect({"if"}), Call("parseExpression"), Call("parseBlockExpression")>>
  \o Else

parseDereferenceExpression ==
  <<Expect({"*"}), Call("parseExpression"), Return>>

parseBorrowExpression ==
  <<When(At({"&", "&&"}), <<Eat({"&", "&&"})>>),
    When(At({"mut"}), <<Eat({"mut"})>>), Call("parseExpression"), Return>>

parseNegationExpression ==
  <<Expect({"-", "!"}), Call("parseExpression"), Return>>

ContinueReadingLate ==
  <<Expect({"continue"}),
    When(At({"'label"}), <<Eat({"'label"}), Read({"'label"})>>), Return>>

parseContinueExpression ==
  <<Expect({"continue"}), When(At({"'label"}), <<Take({"'label"})>>), Return>>

parseReturnExpression ==
  <<Expect({"return"}), When(At({";"}) \o At({"eof"}), <<Return>>),
    Call("parseExpression"), Return>>

(* Every `while` is taken for `while let`.                                   *)
parseExpressionWithBlock ==
  <<To({"{"}, "parseBlockExpression"),
    To({"unsafe"}, "parseUnsafeBlockExpression"),
    When(Ahead(<<{"if"}, {"let"}>>), Tail1("parseIfLetExpression")),
    To({"if"}, "parseIfExpression"),
    To({"match"}, "parseMatchExpression"),
    To({"'label"}, "parseLoopExpression"),
    To({"loop"}, "parseInfiniteLoopExpression"),
    When(Ahead(<<{"while"}, {"let"}>>) \o At({"while"}),
         Tail1("parsePredicatePatternLoopExpression")),
    To({"for"}, "parseIteratorLoopExpression"),
    Fail>>

-----------------------------------------------------------------------------
ExpressionRules ==
  [parseExpression |-> parseExpression,
   parseInfixExpression |-> parseInfixExpression,
   parseUnaryExpression |-> parseUnaryExpression,
   parsePathInExpressionPratt |-> parsePathInExpressionPratt,
   parseLiteralExpression |-> parseLiteralExpression,
   parseMacroInvocationExpression |-> parseMacroInvocationExpression,
   parseMacroInvocationExpressionPratt |-> parseMacroInvocationExpressionPratt,
   parseArrayElements |-> parseArrayElements,
   parseArrayExpression |-> parseArrayExpression,
   parseUnderScoreExpression |-> parseUnderScoreExpression,
   parseCallExpression |-> parseCallExpression,
   parseTupleIndexingExpression |-> parseTupleIndexingExpression,
   parseFieldExpression |-> parseFieldExpression,
   parseIndexExpression |-> parseIndexExpression,
   parseTypeCastExpression |-> parseTypeCastExpression,
   parseAssignmentExpression |-> parseAssignmentExpression,
   parseCallParams |-> parseCallParams,
   parseMethodCallExpression |-> parseMethodCallExpression,
   parseLazyBooleanExpression |-> parseLazyBooleanExpression,
   parseComparisonExpression |-> parseComparisonExpression,
   parseArithmeticOrLogicalExpression |-> parseArithmeticOrLogicalExpression,
   parseTupleElements |-> parseTupleElements,
   parseTupleExpression |-> parseTupleExpression,
   parseGroupedExpression |-> parseGroupedExpression,
   parseGroupedOrTupleExpression |-> parseGroupedOrTupleExpression,
   parseCompoundAssignmentExpression |-> parseCompoundAssignmentExpression,
   parseErrorPropagationExpression |-> parseErrorPropagationExpression,
   parseAwaitExpression |-> parseAwaitExpression,
   parseRangeTo |-> parseRangeTo, parseRangeFrom |-> parseRangeFrom,
   parseScrutinee |-> parseScrutinee,
   parseUnsafeBlockExpression |-> parseUnsafeBlockExpression,
   parseAsyncBlockExpression |-> parseAsyncBlockExpression,
   parseBreakExpression |-> parseBreakExpression,
   parseIfLetExpression |-> parseIfLetExpression,
   parseIfExpression |-> parseIfExpression,
   parseDereferenceExpression |-> parseDereferenceExpression,
   parseBorrowExpression |-> parseBorrowExpression,
   parseNegationExpression |-> parseNegationExpression,
   parseContinueExpression |-> parseContinueExpression,
   parseReturnExpression |-> parseReturnExpression,
   parseExpressionWithBlock |-> parseExpressionWithBlock]
=============================================================================
