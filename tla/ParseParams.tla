---------------------------- MODULE ParseParams ----------------------------
(* The parse functions of visibilities, lifetimes, generic parameters and    *)
(* where clauses.                                                            *)
EXTENDS Grammar

parseVisibility ==
  LET Restricted(k) == Ahead(<<{"pub"}, {"("}, {k}, {")"}>>)
      Eats(k) == <<Eat({"pub"}), Eat({"("}), Eat({k}), Eat({")"}), Return>>
  IN <<When(Restricted("crate"), Eats("crate")),
       When(Restricted("self"), <<Return>>),
       When(Restricted("super"), Eats("super")),
       When(Ahead(<<{"pub"}, {"("}, {"in"}>>),
            <<Eat({"pub"}), Eat({"("}), Eat({"in"}), Call("parseSimplePath"),
              Unless(At({")"}), <<Eat({")"})>>), Return>>),
       When(At({"pub"}), <<Eat({"pub"})>>),
       Return>>

(* The name of a label is read from the token behind it.                     *)
parseLifetimeAsLifetime ==
  <<If(At({"'label"}), <<Eat({"'label"}), Read({"'label"})>>,
    <<If(At({"'static"}), <<Take({"'static"})>>,
      <<If(At({"'_"}), <<Eat({"'_"}), Read({"'_"})>>, <<Fail>>)>>)>>),
    Return>>

parseLifetimeBounds ==
  <<Unless(checkLifetime(0), <<Return>>),
    Loop(<<When(At({"eof"}), <<Fail>>),
           Unless(checkLifetime(0),
                  <<Call("parseLifetimeAsLifetime"),
                    When(At({"+"}), <<Eat({"+"})>>)>>)>>)>>

parseLifetimeParam ==
  <<Call("parseLifetimeAsLifetime"), Expect({":"}),
    Call("parseLifetimeBounds"), Return>>

parseConstParam ==
  <<Expect({"const"}), ExpectName, Expect({":"}), Call("parseType"),
    When(At({"="}),
         <<Eat({"="}),
           If(At({"{"}), <<Call("parseBlockExpression")>>,
           <<If(At({"identifier"}), <<Read({"identifier"})>>,
                <<Call("parseLiteralExpression")>>)>>)>>),
    Return>>

parseTypeParam ==
  <<ExpectName,
    When(Ahead(<<{":"}, {"="}>>),
         <<Eat({":"}), Eat({"="}), Call("parseType"), Return>>),
    When(At({"="}), <<Eat({"="}), Call("parseType"), Return>>),
    When(Ahead(<<{":"}, Tokens \ {"="}>>),
         <<Eat({":"}), Call("parseTypeParamBounds"),
           When(At({"="}), <<Eat({"="}), Call("parseType")>>)>>),
    Return>>

parseGenericParam ==
  <<When(checkOuterAttribute(0), <<Call("parseOuterAttributes")>>),
    If(At({"const"}), <<Call("parseConstParam")>>,
    <<If(At({"'label"}), <<Call("parseLifetimeParam")>>,
      <<If(At({"identifier"}), <<Call("parseTypeParam")>>, <<Fail>>)>>)>>),
    Return>>

parseGenericParams ==
  <<When(Ahead(<<{"<"}, {">"}>>), <<Eat({"<"}), Eat({">"}), Return>>),
    Expect({"<"}),
    Loop(<<When(At({"eof"}), <<Fail>>),
           When(At({">"}), <<Eat({">"}), Return>>),
           When(Ahead(<<{","}, {">"}>>), <<Eat({","}), Eat({">"}), Return>>),
           If(At({","}), <<Eat({","})>>, <<Call("parseGenericParam")>>)>>)>>

parseLifetimeWhereClauseItem ==
  <<Call("parseLifetimeAsLifetime"), Expect({":"}),
    Call("parseLifetimeBounds"), Return>>

parseTypeBoundWhereClauseItem ==
  <<When(At({"for"}), <<Call("parseForLifetimes")>>),
    Call("parseType"), Expect({":"}), Call("parseTypeParamBounds"), Return>>

parseWhereClauseItem ==
  <<When(At({"for"}), Tail1("parseTypeBoundWhereClauseItem")),
    When(checkLifetime(0), Tail1("parseLifetimeWhereClauseItem")),
    Call("parseTypeBoundWhereClauseItem"), Return>>

parseWhereClause ==
  <<Expect({"where"}),
    Loop(<<When(At({"eof"}), <<Fail>>),
           When(At({"{", ";"}), <<Return>>),
           When(Ahead(<<{","}, {"{", ";"}>>), <<Eat({","}), Return>>),
           If(At({","}), <<Eat({","})>>, <<Call("parseWhereClauseItem")>>)>>)>>

ParamRules ==
  [parseVisibility |-> parseVisibility,
   parseLifetimeAsLifetime |-> parseLifetimeAsLifetime,
   parseLifetimeBounds |-> parseLifetimeBounds,
   parseLifetimeParam |-> parseLifetimeParam,
   parseConstParam |-> parseConstParam, parseTypeParam |-> parseTypeParam,
   parseGenericParam |-> parseGenericParam,
   parseGenericParams |-> parseGenericParams,
   parseLifetimeWhereClauseItem |-> parseLifetimeWhereClauseItem,
   parseTypeBoundWhereClauseItem |-> parseTypeBoundWhereClauseItem,
   parseWhereClauseItem |-> parseWhereClauseItem,
   parseWhereClause |-> parseWhereClause]
=============================================================================
