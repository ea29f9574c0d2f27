-------------------------- MODULE ParseStatements --------------------------
(* The parse functions of statements and blocks, and what they look at to    *)
(* tell an expression from an item.                                          *)
EXTENDS ParseItems

(* Asked of the tokens ahead; attributes are eaten on the way.               *)
checkExpressionWithBlock ==
  <<When(checkOuterAttribute(0), <<Peek("parseOuterAttributes")>>),
    If(Ahead(<<{"if"}, {"let"}>>) \o At({"if", "match"}), <<Answer(TRUE)>>,
    <<If(Ahead(<<{"unsafe"}, {"{"}>>), <<Answer(FALSE)>>,
    <<If(At({"{"}), <<Answer(TRUE)>>, <<Answer(FALSE)>>)>>)>>)>>

(* A token the scan does not know is looked at again.                        *)
checkPathOrStructOrMacro ==
  <<If(At({";", "eof"}), <<Answer(FALSE)>>,
    <<Mark,
      Loop(<<When(At({"eof"}), <<Recover, Answer(FALSE), Break>>),
             When(At({"!", "struct"}), <<Recover, Answer(TRUE), Break>>),
             When(At({"unsafe", "type"}), <<Recover, Answer(FALSE), Break>>),
             If(At({"::"}), <<Eat({"::"})>>,
             <<When(At({"{", "<"}), <<Recover, Answer(TRUE), Break>>),
               When(checkSimplePathSegment \o checkPathIdentSegment(0),
                    <<eatSimplePathSegment>>)>>)>>)>>)>>

InfixStarts ==
  Postfix \cup {"&", "<=", "=", "^=", "|=", "(", "<<=", ">>="}

(* Without a better answer an expression is parsed, to look behind it.       *)
checkExpressionWithoutBlock ==
  <<When(checkOuterAttribute(0), <<Peek("parseOuterAttributes")>>),
    If(At({"&", "&&", "*", "<", "!", "-", "::"}) \o checkLiteral(0)
         \o checkPathIdentSegment(0) \o At({"move"}) \o AtOffset(1, {"|", "||"})
         \o At({"|", "||", "async", "continue", "break", "return", "_", "(",
                "[", "..", "..="}),
       <<Answer(TRUE)>>,
       checkPathOrStructOrMacro \o
       <<Asked(<<Answer(TRUE)>>,
               <<[Insist("parseExpression") EXCEPT !.into = "nothing"],
                 If(At(InfixStarts), <<Answer(TRUE)>>, <<Answer(FALSE)>>)>>)>>)>>

parseExpressionStatement ==
  checkExpressionWithBlock \o
  <<Asked(<<Call("parseExpressionWithBlock"),
            When(At({";"}), <<Eat({";"})>>), Return>>,
          checkExpressionWithoutBlock \o
          <<Asked(<<Call("parseExpressionWithoutBlock"), Expect({";"}),
                    Return>>,
                  <<Fail>>)>>)>>

parseMacroInvocationSemiStatement == parseMacroInvocationSemiItem

LetWithoutElse ==
  <<Expect({"let"}), Call("parsePatternNoTopAlt"),
    When(At({":"}), <<Eat({":"}), Call("parseType")>>),
    When(At({"="}), <<Eat({"="}), Call("parseExpression")>>),
    When(At({"else"}), <<Eat({"else"}), Peek("parseBlockExpression")>>),
    Expect({";"}), Return>>

parseLetStatement ==
  <<Expect({"let"}), Call("parsePatternNoTopAlt"),
    When(At({":"}), <<Eat({":"}), Call("parseType")>>),
    When(At({"="}), <<Eat({"="}), Call("parseExpression")>>),
    When(At({"else"}), <<Eat({"else"}), Call("parseBlockExpression")>>),
    Expect({";"}), Return>>

(* After attributes, the let statement is looked for before them; no scan    *)
(* for a macro takes `let` for one.                                          *)
parseStatement ==
  LET Attributed ==
        checkVisItem(Tail1("parseVisItem"),
          <<When(At({"let"}), <<Recover>> \o Tail1("parseLetStatement"))>>
          \o checkMacroItem \o <<Asked(Tail1("parseMacroItem"), <<Fail>>)>>)
      Plain ==
        checkVisItem(Tail1("parseVisItem"),
          checkMacroItem \o
          <<Asked(Tail1("parseMacroItem"),
              <<To({"let"}, "parseLetStatement")>> \o checkExpressionWithBlock
              \o <<Asked(Tail1("parseExpressionStatement"),
                     checkExpressionWithoutBlock \o
                     <<Asked(Tail1("parseExpressionStatement"),
                         <<When(At({"::"}) \o checkSimplePathSegment,
                                Tail1("parseMacroInvocationSemiStatement")),
                           Fail>>)>>)>>)>>)
  IN <<Mark,
       If(checkOuterAttribute(0), <<Call("parseOuterAttributes")>> \o Attributed,
          Plain)>>

-----------------------------------------------------------------------------
(* Blocks.                                                                   *)

parseStatementOrExpressionWithBlock ==
  <<Call("parseExpressionWithBlock"),
    When(At({"}"}), <<Return>>),
    When(At({";"}), <<Eat({";"})>>), Return>>

(* The value of a failed unsafe function, unsafe implementation or path is   *)
(* asked for; `$` is an expression only if it is the keyword `crate`.        *)
parseStatementOrExpressionWithoutBlock ==
  LET After(call) == <<call, When(At({";"}), <<Eat({";"})>>), Return>>
      MaySemi(r)  == After(Call(r))
  IN <<When(At({";"}), <<Eat({";"}), Return>>),
       When(checkOuterAttribute(0), <<Call("parseOuterAttributes")>>),
       To({"let"}, "parseLetStatement"),
       To({"pub", "mod", "extern", "use", "fn", "type", "struct", "enum",
           "const", "static", "trait", "union", "impl"}, "parseVisItem"),
       When(At({"unsafe"}),
            <<When(AtOffset(1, {"{"}),
                   Tail1("parseStatementOrExpressionWithBlock")),
              When(AtOffset(1, {"trait"}), Tail1("parseVisItem")),
              When(AtOffset(1, {"fn", "impl"}), <<Insist("parseVisItem"), Return>>),
              Fail>>),
       When(At({"super", "self", "Self"}),
            After(Insist("parseExpressionWithoutBlock"))),
       To({"loop", "while", "for", "if", "match", "async"},
          "parseStatementOrExpressionWithBlock"),
       To({"macro_rules"}, "parseMacroRulesDefinition"),
       When(At(Keywords),
            <<Call("parseExpressionWithoutBlock"),
              When(At({";"}), <<Eat({";"}), Return>>), Abort>>),
       When(At({"$"}),
            <<Unless(At({"crate"}), <<Abort>>)>>
            \o After(Insist("parseExpressionWithoutBlock"))),
       When(At({"{"}),
            <<Mark, Call("parseBlockExpression"),
              When(At({"}"}) \o At({";"}), <<Return>>),
              Recover, Call("parseExpression"), Return>>),
       When(At({"("}), MaySemi("parseGroupedOrTupleExpression"))>>
     \o MaySemi("parseExpressionWithoutBlock")

(* An expression takes the place of the trailing expression before it.       *)
parseBlockExpression ==
  LET Statement == Call("parseStatementOrExpressionWithoutBlock")
      Trailing  == Put("parseStatementOrExpressionWithoutBlock", "trailing")
  IN <<Expect({"{"}),
       When(checkInnerAttribute, <<Call("parseInnerAttributes")>>),
       When(At({"}"}), <<Eat({"}"}), Return>>),
       Loop(<<When(At({"}"}), <<Break>>),
              Either(<<Statement>>, <<Trailing>>)>>),
       Expect({"}"}), Return>>

(* A value with a block is an error.                                         *)
parseExpressionWithoutBlock ==
  <<To({"return", "break"}, "parseReturnExpression"),
    To({"continue"}, "parseContinueExpression"),
    To({"move"}, "parseClosureExpression"),
    Call("parseExpression"), Either(<<Return>>, <<Fail>>)>>

StatementRules ==
  [parseExpressionStatement |-> parseExpressionStatement,
   parseMacroInvocationSemiStatement |-> parseMacroInvocationSemiStatement,
   parseLetStatement |-> parseLetStatement,
   parseStatement |-> parseStatement,
   parseStatementOrExpressionWithBlock |-> parseStatementOrExpressionWithBlock,
   parseStatementOrExpressionWithoutBlock |->
     parseStatementOrExpressionWithoutBlock,
   parseBlockExpression |-> parseBlockExpression,
   parseExpressionWithoutBlock |-> parseExpressionWithoutBlock]
=============================================================================
