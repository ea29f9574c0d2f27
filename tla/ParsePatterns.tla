---------------------------- MODULE ParsePatterns ---------------------------
(* The parse functions of paths and patterns.                                *)
EXTENDS Grammar

(* The name of a segment is read from the token behind it.                   *)
parseSimplePathSegment ==
  <<When(At({"super", "self", "crate"}),
         <<Eat({"super", "self", "crate"}), Return>>),
    When(DollarCrate(0), <<Eat({"$"}), Eat({"crate"}), Return>>),
    When(At({"identifier"}),
         <<Eat({"identifier"}), Read({"identifier"}), Return>>),
    Fail>>

parsePathExpression ==
  <<To({"<"}, "parseQualifiedPathInExpression"),
    Call("parsePathInExpression"), Return>>

parseQualifiedPathInExpression ==
  <<Call("parseQualifiedPathType"),
    Loop(<<If(At({"::"}), <<Eat({"::"}), Call("parsePathExprSegment")>>,
              <<When(At({"eof"}), <<Fail>>), Return>>)>>)>>

parsePathExprSegment ==
  <<Call("parsePathIdentSegment"),
    When(Ahead(<<{"::"}, {"<"}>>), <<Eat({"::"}), Call("parseGenericArgs")>>),
    Return>>

parsePathInExpression ==
  <<When(At({"::"}), <<Eat({"::"})>>), Call("parsePathExprSegment"),
    Loop(<<When(At({"eof"}), <<Return>>),
           If(At({"::"}), <<Eat({"::"}), Call("parsePathExprSegment")>>,
              <<Return>>)>>)>>

parsePathIdentSegment ==
  <<When(At(IdentSegments), <<Take(IdentSegments), Return>>),
    When(DollarCrate(0), <<Eat({"$"}), Eat({"crate"}), Return>>),
    Fail>>

parseTypePathFn ==
  <<Expect({"("}),
    Unless(At({")"}), <<Call("parseTypePathFnInputs")>>),
    Eat({")"}),
    When(At({"->"}), <<Eat({"->"}), Call("parseType")>>),
    Return>>

(* The loop does not eat the comma between two types.                        *)
parseTypePathFnInputs ==
  <<Call("parseType"),
    When(NotAt({","}), <<Return>>),
    When(Ahead(<<{","}, {")"}>>), <<Eat({","}), Return>>),
    Eat({","}),
    Loop(<<Call("parseType"),
           Unless(At({"eof"}),
                  <<When(<< <<Look(1, {","}), Look(1, {")"})>> >>,
                         <<Eat({","}), Return>>),
                    When(At({")"}), <<Return>>)>>)>>)>>

parseTypePathSegment ==
  <<Call("parsePathIdentSegment"),
    When(At({"<"}), Tail1("parseGenericArgs")),
    When(At({"("}), Tail1("parseTypePathFn")),
    Return>>

parseTypePath ==
  <<When(At({"::"}), <<Eat({"::"})>>), Call("parseTypePathSegment"),
    Loop(<<When(At({"eof"}), <<Fail>>),
           If(At({"::"}), <<Eat({"::"}), Call("parseTypePathSegment")>>,
              <<Return>>)>>)>>

(* Behind the first separator the loop expects another one.                  *)
parseSimplePath ==
  LET Segment == If(At(SimpleSegments), <<Take(SimpleSegments)>>,
                    <<If(DollarCrate(0), <<Eat({"$"}), Eat({"crate"})>>,
                         <<Fail>>)>>)
  IN <<When(At({"::"}), <<Eat({"::"})>>), Segment,
       Unless(At({"::"}), <<Return>>), Eat({"::"}),
       Loop(<<When(At({"eof"}), <<Return>>),
              If(At({"::"}), <<Eat({"::"}), Segment>>, <<Return>>)>>)>>

parseQualifiedPathType ==
  <<Expect({"<"}), Call("parseType"),
    When(At({"as"}), <<Eat({"as"}), Call("parseTypePath")>>),
    Expect({">"}), Return>>

parseQualifiedPathInType ==
  <<Call("parseQualifiedPathType"), Unless(At({"::"}), <<Return>>),
    Loop(<<If(At({"::"}), <<Eat({"::"}), Call("parseTypePathSegment")>>,
              <<When(At({"eof"}), <<Fail>>), Return>>)>>)>>

-----------------------------------------------------------------------------
(* Patterns.                                                                 *)

parseMacroInvocationPattern ==
  <<Call("parseSimplePath"), Expect({"!"}), Call("parseDelimTokenTree"),
    Return>>

parseWildCardPattern == <<Expect({"_"}), Return>>
parseRestPattern == <<Expect({".."}), Return>>

parseTupleOrTupleStructPattern ==
  <<To({"("}, "parseTuplePattern"), Call("parseTupleStructPattern"), Return>>

parseGroupedPattern ==
  <<Expect({"("}), Call("parsePattern"), Expect({")"}), Return>>

(* A macro is looked for behind `|`.                                         *)
parseMacroInvocationOrPathOrStructOrTupleStructPattern ==
  <<Mark, Peek("parsePathExpression"),
    When(At({"|"}), <<Recover>> \o Tail1("parseMacroInvocationPattern")),
    When(At({"("}), <<Recover>> \o Tail1("parseTupleStructPattern")),
    When(At({"{"}), <<Recover>> \o Tail1("parseStructPattern")),
    Recover, Call("parsePathPattern"), Return>>

(* The tuple pattern is parsed behind its first element.                     *)
parseGroupedOrTuplePattern ==
  <<Mark, Expect({"("}),
    When(At({".."}), <<Recover>> \o Tail1("parseTuplePattern")),
    Peek("parsePattern"),
    When(At({")"}), <<Recover>> \o Tail1("parseGroupedPattern")),
    Call("parseTuplePattern"), Return>>

parsePatternWithoutRange ==
  <<When(checkLiteral(0), Tail1("parseLiteralPattern")),
    To({"_"}, "parseWildCardPattern"), To({".."}, "parseRestPattern"),
    To({"&", "&&"}, "parseReferencePattern"),
    To({"["}, "parseSlicePattern"), To({"("}, "parseGroupedOrTuplePattern"),
    Call("parseMacroInvocationOrPathOrStructOrTupleStructPattern"), Return>>

parsePathOrStructOrTupleStructPattern ==
  <<Mark, To({"<"}, "parsePathPattern"),
    Put("parsePathInExpression", "path"),
    When(At({"("}), <<Recover>> \o Tail1("parseTupleStructPattern")),
    When(At({"{"}), <<Recover>> \o Tail1("parseStructPattern")),
    Return>>

parsePathPattern == <<Call("parsePathExpression"), Return>>

parseTupleStructItems ==
  <<Call("parsePattern"),
    Loop(<<When(At({"eof"}), <<Fail>>),
           When(At({")"}), <<Return>>),
           When(<< <<Look(1, {","}), Look(1, {")"})>> >>,
                <<Eat({","}), Return>>),
           Expect({","}), Call("parsePattern")>>)>>

parseTupleStructPattern ==
  <<Call("parsePathInExpression"), Expect({"("}),
    When(At({")"}), <<Eat({")"}), Return>>),
    Call("parseTupleStructItems"), Expect({")"}), Return>>

ReferenceUneaten ==
  <<Need(At({"&", "&&"})), When(At({"mut"}), <<Eat({"mut"})>>),
    Call("parsePatternWithoutRange"), Return>>

parseReferencePattern ==
  <<Expect({"&", "&&"}), When(At({"mut"}), <<Eat({"mut"})>>),
    Call("parsePatternWithoutRange"), Return>>

parseRangeOrIdentifierOrStructOrTupleStructOrMacroInvocationPattern ==
  LET Is(S, r) == When(At(S), <<Recover>> \o Tail1(r))
  IN <<Mark,
       When(<< <<Look(1, {"identifier"}), Look(2, {"@"})>> >>
              \o At({"ref", "mut"})
              \o << <<Look(1, {"identifier"}),
                     Look(2, {",", ";", ":", "=", ")", "|"} \cup Keywords)>>
                 >>,
            Tail1("parseIdentifierPattern")),
       Loop(<<When(At({"eof"}), <<Fail>>),
              If(At({"::"}), <<Eat({"::"})>>,
              <<If(checkPathIdentSegment(0), <<eatPathIdentSegment>>,
                <<Is({"{"}, "parseStructPattern"),
                  Is({"("}, "parseTupleStructPattern"),
                  Is({"!"}, "parseMacroInvocationPattern"),
                  Is({"..", "...", "..="}, "parseRangePattern"),
                  Is({"string"}, "parseLiteralPattern"),
                  Is({"<", ",", "=", ":", ";", "integer", ")", "]", "}", ">=",
                      "=>", "|"} \cup Keywords,
                     "parsePathOrStructOrTupleStructPattern"),
                  Fail>>)>>)>>)>>

parsePatternNoTopAlt ==
  LET Bounded == {"char", "byte", "integer", "float"}
  IN <<To({"&", "&&"}, "parseReferencePattern"),
       To({"("}, "parseTupleOrGroupedPattern"),
       To({"["}, "parseSlicePattern"),
       To({"mut", "ref"}, "parseIdentifierPattern"),
       When(Ahead(<<{"_"}, {"integer", "float"}>>),
            Tail1("parseLiteralPattern")),
       To({"true", "false"}, "parseLiteralPattern"),
       To({"_"}, "parseWildCardPattern"),
       When(Ahead(<<{"identifier"}, Keywords>>),
            Tail1("parseIdentifierPattern")),
       To({".."}, "parseRestPattern"),
       When(Ahead(<<Bounded, {"..", "...", "..="}>>),
            Tail1("parseRangePattern")),
       When(checkLiteral(0), Tail1("parseLiteralPattern")),
       Call("parseRangeOrIdentifierOrStructOrTupleStructOrMacroInvocationPattern"),
       Return>>

parseIdentifierOrPathPattern ==
  <<When(Ahead(<<{"identifier"}, {"::"}>>), Tail1("parsePathPattern")),
    Call("parseIdentifierPattern"), Return>>

parseIdentifierPattern ==
  <<When(At({"ref"}), <<Eat({"ref"})>>), When(At({"mut"}), <<Eat({"mut"})>>),
    ExpectName,
    When(At({"@"}), <<Eat({"@"}), Call("parsePatternNoTopAlt")>>),
    Return>>

parseLiteralPattern ==
  <<When(checkLiteral(0), <<Take(Literals), Return>>),
    When(Ahead(<<{"-"}, {"integer", "float"}>>),
         <<Read({"integer", "float"}), Eat({"-"}), Eat({"integer", "float"}),
           Return>>),
    Fail>>

parsePattern ==
  <<When(At({"|"}), <<Eat({"|"})>>), Call("parsePatternNoTopAlt"),
    When(At({"|"}),
         <<Eat({"|"}),
           Loop(<<Call("parsePatternNoTopAlt"),
                  If(At({"|"}), <<Eat({"|"})>>,
                     <<When(At({"eof"}), <<Fail>>), Return>>)>>)>>),
    Return>>

parseTupleOrGroupedPattern ==
  <<Expect({"("}),
    When(Ahead(<<{".."}, {")"}>>), <<Eat({".."}), Eat({")"}), Return>>),
    Call("parsePattern"),
    When(At({")"}), <<Eat({")"}), Return>>),
    When(Ahead(<<{","}, {")"}>>), <<Eat({","}), Eat({")"}), Return>>),
    Expect({","}),
    Loop(<<Call("parsePattern"),
           When(At({")"}), <<Eat({")"}), Return>>),
           When(Ahead(<<{","}, {")"}>>), <<Eat({","}), Eat({")"}), Return>>),
           If(At({","}), <<Eat({","})>>, <<When(At({"eof"}), <<Fail>>)>>)>>)>>

parseStructPatternFields ==
  <<Call("parseStructPatternField"),
    Loop(<<When(At({"eof"}), <<Fail>>),
           When(Ahead(<<{","}, {"}"}>>), <<Eat({","}), Return>>),
           When(At({".."}), <<Return>>),
           If(At({","}),
              <<Eat({","}), Mark,
                When(checkOuterAttribute(0), <<Peek("parseOuterAttributes")>>),
                When(At({".."}), <<Return>>),
                Recover, Call("parseStructPatternField")>>,
              <<When(At({"}"}), <<Return>>), Fail>>)>>)>>

parseStructPatternField ==
  <<When(checkOuterAttribute(0), <<Call("parseOuterAttributes")>>),
    When(Ahead(<<{"integer", "identifier"}, {":"}>>),
         <<Take({"integer", "identifier"}), Eat({":"}), Call("parsePattern"),
           Return>>),
    When(At({"ref", "mut", "identifier"}),
         <<When(At({"ref"}), <<Eat({"ref"})>>),
           When(At({"mut"}), <<Eat({"mut"})>>), ExpectName, Return>>),
    Fail>>

parseStructPatternEtCetera ==
  <<When(checkOuterAttribute(0), <<Call("parseOuterAttributes")>>),
    Expect({".."}), Return>>

parseStructPatternElements ==
  <<Mark,
    When(checkOuterAttribute(0), <<Peek("parseOuterAttributes")>>),
    If(At({".."}), <<Recover, Call("parseStructPatternEtCetera"), Return>>,
       <<Recover, Call("parseStructPatternFields"),
         When(At({"}"}), <<Return>>),
         When(Ahead(<<{","}, {"}"}>>), <<Eat({","}), Return>>),
         Call("parseStructPatternEtCetera"), Return>>)>>

parseStructPattern ==
  <<Call("parsePathInExpression"), Expect({"{"}),
    When(At({"}"}), <<Eat({"}"}), Return>>),
    Call("parseStructPatternElements"), Expect({"}"}), Return>>

(* A negative bound reads the minus; a float eats two tokens.                *)
parseRangePatternBound ==
  <<When(At({"char", "byte", "integer"}),
         <<Take({"char", "byte", "integer"}), Return>>),
    When(Ahead(<<{"-"}, {"integer"}>>),
         <<Read({"integer"}), Drop, Drop, Return>>),
    When(At({"float"}), <<Drop, Read({"float"}), Drop, Return>>),
    When(Ahead(<<{"-"}, {"float"}>>),
         <<Read({"float"}), Drop, Drop, Return>>),
    Call("parsePathExpression"), Return>>

parseRangePattern ==
  <<When(At({"..="}), <<Eat({"..="}), Call("parseRangePatternBound"), Return>>),
    Call("parseRangePatternBound"),
    When(At({"..=", "..."}),
         <<Eat({"..=", "..."}), Call("parseRangePatternBound"), Return>>),
    Expect({".."}), Return>>

parseSlicePatternItems ==
  LET Item == <<Call("parsePattern"), When(At({","}), <<Eat({","})>>)>>
  IN Item \o
     <<Loop(<<When(At({"eof"}), <<Fail>>),
              When(At({"]"}), <<Return>>),
              When(Ahead(<<{","}, {"]"}>>), <<Eat({","}), Return>>)>>
            \o Item)>>

parseSlicePattern ==
  <<Expect({"["}), When(At({"]"}), <<Eat({"]"}), Return>>),
    Call("parseSlicePatternItems"), Expect({"]"}), Return>>

(* `..` is not eaten, and a first pattern has to be followed by a comma.     *)
parseTuplePatternItems ==
  <<When(At({".."}), <<Return>>), Call("parsePattern"),
    When(Ahead(<<{","}, {")"}>>), <<Eat({","}), Return>>),
    When(At({")"}), <<Return>>),
    Eat({","}),
    Loop(<<When(At({"eof"}), <<Fail>>),
           When(Ahead(<<{","}, {")"}>>), <<Eat({","}), Return>>),
           When(At({")"}), <<Return>>),
           If(At({","}), <<Eat({","})>>, <<Call("parsePattern")>>)>>)>>

parseTuplePattern ==
  <<Expect({"("}), Call("parseTuplePatternItems"), Expect({")"}), Return>>

PatternRules ==
  [parseSimplePathSegment |-> parseSimplePathSegment,
   parsePathExpression |-> parsePathExpression,
   parseQualifiedPathInExpression |-> parseQualifiedPathInExpression,
   parsePathExprSegment |-> parsePathExprSegment,
   parsePathInExpression |-> parsePathInExpression,
   parsePathIdentSegment |-> parsePathIdentSegment,
   parseTypePathFn |-> parseTypePathFn,
   parseTypePathFnInputs |-> parseTypePathFnInputs,
   parseTypePathSegment |-> parseTypePathSegment,
   parseTypePath |-> parseTypePath, parseSimplePath |-> parseSimplePath,
   parseQualifiedPathType |-> parseQualifiedPathType,
   parseQualifiedPathInType |-> parseQualifiedPathInType,
   parseMacroInvocationPattern |-> parseMacroInvocationPattern,
   parseWildCardPattern |-> parseWildCardPattern,
   parseRestPattern |-> parseRestPattern,
   parseTupleOrTupleStructPattern |-> parseTupleOrTupleStructPattern,
   parseGroupedPattern |-> parseGroupedPattern,
   parseMacroInvocationOrPathOrStructOrTupleStructPattern |->
     parseMacroInvocationOrPathOrStructOrTupleStructPattern,
   parseGroupedOrTuplePattern |-> parseGroupedOrTuplePattern,
   parsePatternWithoutRange |-> parsePatternWithoutRange,
   parsePathOrStructOrTupleStructPattern |->
     parsePathOrStructOrTupleStructPattern,
   parsePathPattern |-> parsePathPattern,
   parseTupleStructItems |-> parseTupleStructItems,
   parseTupleStructPattern |-> parseTupleStructPattern,
   parseReferencePattern |-> parseReferencePattern,
   parseRangeOrIdentifierOrStructOrTupleStructOrMacroInvocationPattern |->
     parseRangeOrIdentifierOrStructOrTupleStructOrMacroInvocationPattern,
   parsePatternNoTopAlt |-> parsePatternNoTopAlt,
   parseIdentifierOrPathPattern |-> parseIdentifierOrPathPattern,
   parseIdentifierPattern |-> parseIdentifierPattern,
   parseLiteralPattern |-> parseLiteralPattern, parsePattern |-> parsePattern,
   parseTupleOrGroupedPattern |-> parseTupleOrGroupedPattern,
   parseStructPatternFields |-> parseStructPatternFields,
   parseStructPatternField |-> parseStructPatternField,
   parseStructPatternEtCetera |-> parseStructPatternEtCetera,
   parseStructPatternElements |-> parseStructPatternElements,
   parseStructPattern |-> parseStructPattern,
   parseRangePatternBound |-> parseRangePatternBound,
   parseRangePattern |-> parseRangePattern,
   parseSlicePatternItems |-> parseSlicePatternItems,
   parseSlicePattern |-> parseSlicePattern,
   parseTuplePatternItems |-> parseTuplePatternItems,
   parseTuplePattern |-> parseTuplePattern]
=============================================================================
