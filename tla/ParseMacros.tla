---------------------------- MODULE ParseMacros ----------------------------
(* The parse functions of attributes, token trees and macro definitions.     *)
EXTENDS Grammar

parseOuterAttribute ==
  <<Expect({"#"}), Expect({"["}), Call("parseAttr"), Expect({"]"}), Return>>

parseInnerAttribute ==
  <<Expect({"#"}), Expect({"!"}), Expect({"["}), Call("parseAttr"),
    Expect({"]"}), Return>>

parseAttr ==
  <<Call("parseSimplePath"),
    Unless(At({"]"}), <<Call("parseAttrInput")>>), Return>>

parseAttrInput ==
  <<When(At({"="}), <<Eat({"="}), Call("parseExpression"), Return>>),
    Call("parseDelimTokenTree"), Return>>

parseOuterAttributes ==
  <<Loop(<<When(At({"eof"}), <<Fail>>),
           If(checkOuterAttribute(0), <<Call("parseOuterAttribute")>>,
              <<Return>>)>>)>>

parseInnerAttributes ==
  <<Loop(<<When(At({"eof"}), <<Fail>>),
           If(checkInnerAttribute, <<Call("parseInnerAttribute")>>,
              <<Return>>)>>)>>

parseTokenTree ==
  <<When(At(Delimiters), Tail1("parseDelimTokenTree")),
    Take(Tokens), Return>>

parseDelimTokenTree ==
  LET Between(open, close) ==
        When(At({open}),
             <<Eat({open}),
               Loop(<<When(At({"eof"}), <<Fail>>),
                      When(At({close}), <<Eat({close}), Return>>),
                      Call("parseTokenTree")>>)>>)
  IN <<Between("(", ")"), Between("[", "]"), Between("{", "}"), Fail>>

-----------------------------------------------------------------------------
(* Many of these functions return at the token they describe.                *)
parseMacroMatch ==
  LET Fragment(S) ==
        When(Ahead(<<{"$"}, S>>),
             <<Eat({"$"}), Eat(S), Eat({":"}), Insist("parseMacroFragSpec"),
               Return>>)
  IN <<When(Ahead(<<{"$"}, {"("}>>),
            <<Drop, Drop,
              Loop(<<When(At({")"}), <<Eat({")"}), Break>>),
                     Insist("parseMacroMatch")>>),
              Insist("parseMacroRepSep"),
              When(At({"*", "+", "?"}), <<Insist("parseMacroRepOp")>>),
              Return>>),
       Fragment({"_"}), Fragment({"identifier"}), Fragment(Keywords),
       When(At(Delimiters), <<Insist("parseMacroMatcher"), Return>>),
       Read(Tokens), Return>>

parseMacroRepSep ==
  <<When(At(Delimiters \cup {"*", "+", "?"}), <<Fail>>), Return>>

parseMacroRepOp == <<Need(At({"*", "+", "?"})), Return>>

parseMacroFragSpec == <<Need(At({"identifier"})), Return>>

parseMacroTranscriber == Tail1("parseDelimTokenTree")

parseMacroMatcher ==
  LET Until(open, close) ==
        When(At({open}),
             <<Loop(<<When(At({"eof"}), <<Fail>>),
                      When(At({close}), <<Eat({close}), Return>>),
                      Call("parseMacroMatch")>>)>>)
  IN <<Until("(", ")"), Until("[", "]"), Until("{", "}"), Fail>>

parseMacroRule ==
  <<Call("parseMacroMatcher"), Expect({"=>"}), Call("parseMacroTranscriber"),
    Return>>

parseMacroRules ==
  <<Call("parseMacroRule"),
    Loop(<<When(At({"eof"}), <<Fail>>),
           When(At({")", "]", "}"}), <<Return>>),
           When(Ahead(<<{";"}, {")", "]", "}"}>>), <<Eat({";"}), Return>>),
           Expect({";"}), Call("parseMacroRule")>>)>>

(* Every kind is closed by a parenthesis, and no opening one is eaten.       *)
parseMacroRulesDef ==
  <<When(At({"(", "["}),
         <<Call("parseMacroRules"), Expect({")"}), Expect({";"}), Return>>),
    When(At({"{"}), <<Call("parseMacroRules"), Expect({")"}), Return>>),
    Fail>>

parseMacroRulesDefinition ==
  <<Expect({"macro_rules"}), Expect({"!"}), ExpectName,
    Call("parseMacroRulesDef"), Return>>

MacroRules ==
  [parseOuterAttribute |-> parseOuterAttribute,
   parseInnerAttribute |-> parseInnerAttribute, parseAttr |-> parseAttr,
   parseAttrInput |-> parseAttrInput,
   parseOuterAttributes |-> parseOuterAttributes,
   parseInnerAttributes |-> parseInnerAttributes,
   parseTokenTree |-> parseTokenTree,
   parseDelimTokenTree |-> parseDelimTokenTree,
   parseMacroMatch |-> parseMacroMatch, parseMacroRepSep |-> parseMacroRepSep,
   parseMacroRepOp |-> parseMacroRepOp,
   parseMacroFragSpec |-> parseMacroFragSpec,
   parseMacroTranscriber |-> parseMacroTranscriber,
   parseMacroMatcher |-> parseMacroMatcher, parseMacroRule |-> parseMacroRule,
   parseMacroRules |-> parseMacroRules,
   parseMacroRulesDef |-> parseMacroRulesDef,
   parseMacroRulesDefinition |-> parseMacroRulesDefinition]
=============================================================================
