----------------------------- MODULE ParseItems ----------------------------
(* The parse functions of crates, modules and items.                         *)
EXTENDS Grammar

parseCrateModule ==
  <<When(checkInnerAttribute, <<Call("parseInnerAttributes")>>),
    Loop(<<When(At({"eof"}), <<Return>>), Call("parseItem")>>)>>

parseMod ==
  <<When(At({"unsafe"}), <<Eat({"unsafe"})>>),
    When(Ahead(<<{"mod"}, {"identifier"}, {";"}>>),
         <<Eat({"mod"}), Take({"identifier"}), Eat({";"}), Return>>),
    Need(Ahead(<<{"mod"}, {"identifier"}, {"{"}>>)),
    Eat({"mod"}), Take({"identifier"}), Eat({"{"}),
    When(checkInnerAttribute, <<Call("parseInnerAttributes")>>),
    When(At({"}"}), <<Eat({"}"}), Return>>),
    Loop(<<When(At({"eof"}), <<Fail>>),
           When(At({"}"}), <<Eat({"}"}), Return>>),
           Call("parseItem")>>)>>

VisItemStarts ==
  {"mod", "extern", "use", "type", "struct", "enum", "union", "const",
   "static", "trait", "impl", "unsafe", "async", "fn"}

(* Asked of the tokens ahead, but a visibility is eaten on the way.          *)
checkVisItem(yes, no) ==
  <<When(At({"pub"}), <<Peek("parseVisibility")>>),
    If(At(VisItemStarts), yes, no)>>

(* Unknown tokens are reported, and looked at again.                         *)
checkMacroItem ==
  <<Mark,
    Loop(<<When(At({"macro_rules"}), <<Recover, Answer(TRUE), Break>>),
           When(At({"eof"}), <<Recover, Answer(FALSE), Break>>),
           If(checkSimplePathSegment, <<Drop>>,
           <<If(At({"::"}), <<Eat({"::"})>>,
           <<When(At({"!"}), <<Recover, Answer(TRUE), Break>>),
             When(At(Keywords \cup {"}", ";", "integer", "=", "[", "{", "..",
                                    "..=", "+"}),
                  <<Recover, Answer(FALSE), Break>>)>>)>>)>>)>>

parseItem ==
  <<When(checkOuterAttribute(0), <<Call("parseOuterAttributes")>>)>>
  \o checkVisItem(Tail1("parseVisItem"),
       checkMacroItem \o <<Asked(Tail1("parseMacroItem"), <<Fail>>)>>)

parseVisItem ==
  LET Is(S, r) == When(At(S), Tail1(r))
  IN <<When(At({"pub"}), <<Call("parseVisibility")>>),
       When(At({"const"}),
            <<If(AtOffset(1, {"async", "unsafe", "extern", "fn"}),
                 Tail1("parseFunction"), Tail1("parseConstantItem"))>>),
       Is({"async"}, "parseFunction"),
       When(At({"unsafe"}),
            <<When(AtOffset(1, {"trait"}), Tail1("parseTrait")),
              When(AtOffset(1, {"mod"}), Tail1("parseMod")),
              When(AtOffset(1, {"impl"}), Tail1("parseImplementation")),
              When(AtOffset(1, {"extern"}), Tail1("parseExternBlock")),
              Call("parseFunction"), Return>>),
       Is({"mod"}, "parseMod"),
       Is({"fn"}, "parseFunction"),
       Is({"use"}, "parseUseDeclaration"),
       Is({"type"}, "parseTypeAlias"),
       Is({"struct"}, "parseStruct"),
       Is({"enum"}, "parseEnumeration"),
       Is({"union"}, "parseUnion"),
       Is({"static"}, "parseStaticItem"),
       Is({"trait"}, "parseTrait"),
       Is({"impl"}, "parseImplementation"),
       Is({"extern"}, "parseExternBlock"),
       Fail>>

parseMacroItem ==
  <<When(At({"macro_rules"}), Tail1("parseMacroRulesDefinition")),
    Call("parseMacroInvocationSemiItem"), Return>>

(* The delimiter that closes has to be of the kind of the last that opened.  *)
parseMacroInvocationSemiItem ==
  LET Opened == Either(<<Fail>>, <<>>)
  IN <<Call("parseSimplePath"), Expect({"!"}),
       Loop(<<When(At({"eof"}), <<Fail>>),
              If(At({"("}), <<Eat({"("})>>,
              <<If(At({"["}), <<Eat({"["})>>,
              <<If(At({"{"}), <<Eat({"{"})>>,
              <<When(Ahead(<<{")"}, {";"}>>),
                     <<Opened, Eat({")"}), Eat({";"}), Return>>),
                When(Ahead(<<{"]"}, {";"}>>),
                     <<Opened, Eat({"]"}), Eat({";"}), Return>>),
                When(At({"}"}), <<Opened, Eat({"}"}), Return>>),
                Call("parseTokenTree")>>)>>)>>)>>)>>

FunctionStarts == {"const", "async", "unsafe", "extern", "fn"}

parseAssociatedItem ==
  LET Member ==
        <<When(At({"type"}), Tail1("parseTypeAlias")),
          When(<< <<Look(1, {"const"}), Look(3, {":"})>> >>,
               Tail1("parseConstantItem")),
          When(At(FunctionStarts), Tail1("parseFunction")),
          Fail>>
  IN <<When(checkOuterAttribute(0), <<Call("parseOuterAttributes")>>),
       When(At({"::"}) \o checkSimplePathSegment,
            Tail1("parseMacroInvocationSemiItem")),
       When(At({"pub"}), <<Call("parseVisibility")>>)>> \o Member

parseExternalItem ==
  <<When(checkOuterAttribute(0), <<Call("parseOuterAttributes")>>),
    When(At({"pub"}),
         <<Call("parseVisibility"),
           When(At({"static"}), Tail1("parseStaticItem")),
           When(At(FunctionStarts), Tail1("parseFunction")),
           Fail>>),
    When(At({"static"}), Tail1("parseStaticItem")),
    When(At(FunctionStarts), Tail1("parseFunction")),
    When(At({"::"}) \o checkSimplePathSegment,
         Tail1("parseMacroInvocationExpression")),
    Fail>>

(* At the end of the file the loop looks again.                              *)
parseExternBlock ==
  <<When(At({"unsafe"}), <<Eat({"unsafe"})>>),
    Expect({"extern"}), Call("parseAbi"), Expect({"{"}),
    When(checkInnerAttribute, <<Call("parseInnerAttributes")>>),
    Loop(<<Unless(At({"eof"}),
                  <<When(At({"}"}), <<Eat({"}"}), Return>>),
                    Call("parseExternalItem")>>)>>)>>

parseImplementation ==
  <<Mark,
    When(At({"unsafe"}), <<Recover, Call("parseTraitImpl"), Return>>),
    Expect({"impl"}),
    When(At({"<"}), <<Peek("parseGenericParams")>>),
    When(At({"!"}), <<Recover, Call("parseTraitImpl"), Return>>),
    Peek("parseType"),
    When(At({"for"}), <<Recover, Call("parseTraitImpl"), Return>>),
    Recover, Call("parseInherentImpl"), Return>>

(* A where clause behind the type leaves the semicolon to be asserted.       *)
parseTypeAlias ==
  <<Expect({"type"}), ExpectName,
    When(At({"<"}), <<Call("parseGenericParams")>>),
    When(At({";"}), <<Eat({";"}), Return>>),
    When(At({":"}), <<Eat({":"}), Call("parseTypeParamBounds")>>),
    When(At({";"}), <<Eat({";"}), Return>>),
    When(At({"where"}), <<Call("parseWhereClause")>>),
    When(At({";"}), <<Eat({";"}), Return>>),
    Expect({"="}), Call("parseType"),
    If(At({"where"}), <<Call("parseWhereClause")>>,
       <<Expect({";"}), Return>>),
    Eat({";"}), Return>>

(* The colon is asked for as a semicolon, and = is not eaten.                *)
parseStaticItem ==
  <<Expect({"static"}),
    When(At({"mut"}), <<Eat({"mut"})>>),
    ExpectName, Expect({";"}), Call("parseType"),
    When(At({";"}), <<Eat({";"}), Return>>),
    Need(At({"="})), Call("parseExpression"), Eat({";"}), Return>>

parseConstantItem ==
  <<Expect({"const"}),
    If(At({"_"}), <<Eat({"_"})>>, <<ExpectName>>),
    Expect({":"}), Call("parseType"),
    When(At({";"}), <<Eat({";"}), Return>>),
    Expect({"="}), Call("parseExpression"), Eat({";"}), Return>>

parseUnion ==
  <<Expect({"union"}), ExpectName,
    When(At({"<"}), <<Call("parseGenericParams")>>),
    When(At({"where"}), <<Call("parseWhereClause")>>),
    Need(At({"{"})), Call("parseStructFields"), Require({"}"}), Return>>

parseStruct ==
  <<Mark, Expect({"struct"}), Expect({"identifier"}),
    When(At({"<"}), <<Peek("parseGenericParams")>>),
    When(At({"where"}), <<Peek("parseWhereClause"), Recover,
                          Call("parseStructStruct"), Return>>),
    When(At({";", "{"}), <<Recover, Call("parseStructStruct"), Return>>),
    Recover, Call("parseTupleStruct"), Return>>

(* The members of a brace; not every one of them is kept, and not every      *)
(* delimiter eaten.                                                          *)
parseUseTree ==
  LET Members(member, done) ==
        Loop(<<member,
               When(At({"}"}), <<done[1], Return>>),
               When(Ahead(<<{","}, {"}"}>>), <<done[2], done[3], Return>>),
               When(At({","}), <<done[2]>>),
               When(At({"eof"}), <<Fail>>)>>)
      Eating == <<Eat({"}"}), Eat({","}), Eat({"}"})>>
      Asserting == <<Require({"}"}), Require({","}), Require({"}"})>>
  IN <<When(At({"*"}), <<Require({"*"}), Return>>),
       When(Ahead(<<{"::"}, {"*"}>>), <<Require({"::"}), Require({"*"}), Return>>),
       When(Ahead(<<{"::"}, {"{"}, {"}"}>>),
            <<Require({"::"}), Require({"{"}), Require({"}"}), Return>>),
       When(Ahead(<<{"::"}, {"{"}>>),
            <<Eat({"::"}), Eat({"{"}), Members(Call("parseUseTree"), Asserting)>>),
       When(Ahead(<<{"{"}, {"}"}>>), <<Require({"{"}), Require({"}"}), Return>>),
       When(At({"{"}), <<Require({"{"}), Members(Peek("parseUseTree"), Eating)>>),
       Call("parseSimplePath"),
       \* the star is looked for where the :: is
       When(<< <<Look(1, {"::"}), Look(1, {"*"})>> >>, <<Return>>),
       When(<< <<Look(1, {"::"}), Look(1, {"{"})>> >>,
            <<Eat({"::"}), Eat({"{"}), Members(Peek("parseUseTree"), Eating)>>),
       When(NotAt({"as"}), <<Return>>),
       Eat({"as"}),
       When(At({"identifier"}), <<Take({"identifier"}), Return>>),
       When(At({"_"}), <<Eat({"_"}), Return>>),
       Fail>>

parseUseDeclaration == <<Expect({"use"}), Call("parseUseTree"), Return>>

(* A brace, or a trait's, and its associated items.                          *)
Associated ==
  <<Expect({"{"}),
    When(checkInnerAttribute, <<Call("parseInnerAttributes")>>),
    Loop(<<When(At({"eof"}), <<Fail>>),
           When(At({"}"}), <<Eat({"}"}), Return>>),
           Call("parseAssociatedItem")>>)>>

parseInherentImpl ==
  <<Expect({"impl"}),
    When(At({"<"}), <<Call("parseGenericParams")>>),
    Call("parseType"),
    When(At({"where"}), <<Call("parseWhereClause")>>)>> \o Associated

parseTraitImpl ==
  <<When(At({"unsafe"}), <<Eat({"unsafe"})>>), Expect({"impl"}),
    When(At({"<"}), <<Call("parseGenericParams")>>),
    When(At({"!"}), <<Eat({"!"})>>),
    Call("parseTypePath"), Expect({"for"}), Call("parseType"),
    When(At({"where"}), <<Call("parseWhereClause")>>)>> \o Associated

parseTrait ==
  <<When(At({"unsafe"}), <<Eat({"unsafe"})>>), Expect({"trait"}), ExpectName,
    When(At({"<"}), <<Call("parseGenericParams")>>),
    When(At({":"}),
         <<If(AtOffset(1, {"where", "{"}), <<Eat({":"})>>,
              <<Eat({":"}), Call("parseTypeParamBounds")>>)>>),
    When(At({"where"}), <<Call("parseWhereClause")>>)>> \o Associated

parseEnumeration ==
  <<Expect({"enum"}), ExpectName,
    When(At({"<"}), <<Call("parseGenericParams")>>),
    When(At({"where"}), <<Call("parseWhereClause")>>),
    Expect({"{"}),
    Unless(At({"}"}), <<Call("parseEnumItems")>>),
    Expect({"}"}), Return>>

parseEnumItems ==
  <<Call("parseEnumItem"),
    Loop(<<When(At({"eof"}), <<Fail>>),
           When(At({"}"}), <<Return>>),
           When(Ahead(<<{","}, {"}"}>>), <<Eat({","}), Return>>),
           If(At({","}), <<Eat({","})>>, <<Call("parseEnumItem")>>)>>)>>

parseEnumItem ==
  <<When(checkOuterAttribute(0), <<Call("parseOuterAttributes")>>),
    When(At({"pub"}), <<Call("parseVisibility")>>),
    ExpectName,
    If(At({"{"}), <<Call("parseEnumItemStruct")>>,
       <<When(At({"("}), <<Call("parseEnumItemTuple")>>)>>),
    When(At({"="}), <<Call("parseEnumItemDiscriminant")>>),
    Return>>

parseEnumItemTuple ==
  <<Expect({"("}), When(At({")"}), <<Eat({")"}), Return>>),
    Call("parseTupleFields"), Expect({")"}), Return>>

parseEnumItemStruct ==
  <<Expect({"{"}), When(At({"}"}), <<Eat({"}"}), Return>>),
    Call("parseStructFields"), Expect({"}"}), Return>>

parseEnumItemDiscriminant == <<Expect({"="}), Call("parseExpression"), Return>>

ItemRules ==
  [parseCrateModule |-> parseCrateModule, parseMod |-> parseMod,
   parseItem |-> parseItem, parseVisItem |-> parseVisItem,
   parseMacroItem |-> parseMacroItem,
   parseMacroInvocationSemiItem |-> parseMacroInvocationSemiItem,
   parseAssociatedItem |-> parseAssociatedItem,
   parseExternalItem |-> parseExternalItem,
   parseExternBlock |-> parseExternBlock,
   parseImplementation |-> parseImplementation,
   parseTypeAlias |-> parseTypeAlias, parseStaticItem |-> parseStaticItem,
   parseConstantItem |-> parseConstantItem, parseUnion |-> parseUnion,
   parseStruct |-> parseStruct, parseUseTree |-> parseUseTree,
   parseUseDeclaration |-> parseUseDeclaration,
   parseInherentImpl |-> parseInherentImpl, parseTraitImpl |-> parseTraitImpl,
   parseTrait |-> parseTrait, parseEnumeration |-> parseEnumeration,
   parseEnumItems |-> parseEnumItems, parseEnumItem |-> parseEnumItem,
   parseEnumItemTuple |-> parseEnumItemTuple,
   parseEnumItemStruct |-> parseEnumItemStruct,
   parseEnumItemDiscriminant |-> parseEnumItemDiscriminant]
=============================================================================
