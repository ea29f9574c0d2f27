------------------------------ MODULE Parser -------------------------------
(* Executes the parse functions of src/code/parser on every token stream.    *)
(*                                                                           *)
(* One activation of one function is watched at a time.  At a call the       *)
(* watch either moves into the callee, the caller left behind (Enters), or   *)
(* stays and takes the callee by its contract (StepsOver): it has returned   *)
(* a value and eaten tokens, or none on a token of EmptyAt.  So every pair of *)
(* a program point and of what is known there about the tokens ahead is      *)
(* reached that is reached in a run of the parser, and the contracts are     *)
(* themselves invariants (ReturnsMeanProgress).                              *)
(*                                                                           *)
(* The stream is chosen as it is looked at: look[i] is the set of the tokens *)
(* that the i-th one ahead can still be.  A test splits it, so two streams   *)
(* that the code does not tell apart are one behaviour.                      *)
EXTENDS ParseItems, ParseMacros, ParseParams, ParseTypes, ParsePatterns,
  ParseFunctions, ParseStatements, ParseExpressions, TLC

VARIABLES
  rule,      \* the function watched
  todo,      \* the statements it has still to execute
  look,      \* what is known about the tokens ahead
  ate,       \* it has eaten a token since it was entered
  mark,      \* its check point and what was eaten since
  filled,    \* slots of its tree that hold a value
  dropped,   \* it threw a parsed value away
  verdict,   \* the answer of its last check
  status,    \* "parsing", or how the activation has ended
  progress   \* the last step began an activation or an iteration further on

vars == <<rule, todo, look, ate, mark, filled, dropped, verdict, status,
          progress>>

CONSTANTS Memory  \* tokens remembered behind a check point

ASSUME MemoryAssumption == Memory \in Nat

Program == ItemRules @@ MacroRules @@ ParamRules @@ TypeRules @@ PatternRules
           @@ FunctionRules @@ StatementRules @@ ExpressionRules
Rules == DOMAIN Program

(* The next tokens on which a function may return a value and eat nothing.   *)
EmptyAt(r) ==
  CASE r \in {"parseOuterAttributes", "parseInnerAttributes",
              "parseFunctionTypeQualifiers", "parseLifetimeBounds"} -> Tokens
    [] r = "parseCrateModule" -> {"eof"}
    [] r = "parseVisibility" -> {"pub"}
    [] r = "parseUseTree" -> {"*"}
    [] r \in {"parseLifetimeAsTypeParamBound", "parseTypeParamBound"} -> Lifetimes
    [] r = "parseTuplePatternItems" -> {".."}
    [] r \in {"parsePathInExpressionPratt", "parseUnaryExpression",
              "parseExpression", "parseExpressionWithoutBlock",
              "parseScrutinee", "parseBorrowExpression"} -> {"$"}
    [] r = "parseStructExprField" -> {"identifier"}
    [] r \in {"parseMacroMatch", "parseMacroRepSep"} ->
         Tokens \ {"(", "[", "{"}
    [] r = "parseMacroRepOp" -> {"*", "+", "?"}
    [] r = "parseMacroFragSpec" -> {"identifier"}
    [] OTHER -> {}

(* The functions nobody calls are called from outside.                       *)
Roots ==
  {"parseCrateModule", "parseWhereClause", "parseGenericParams",
   "parseSliceType", "parseArrayType", "parseTupleOrTupleStructPattern",
   "parseIdentifierOrPathPattern", "parseStatement",
   "parseUnderScoreExpression", "parseLazyBooleanExpression",
   "parseErrorPropagationExpression", "parseAsyncBlockExpression",
   "parseDereferenceExpression", "parseBorrowExpression",
   "parseNegationExpression"}

LeavesOf ==
  [parseWhereClause |-> {"{", ";"}, parseFunctionParameters |-> {")"}]

(* What may follow the value of a function; any token, for most.             *)
Leaves(r) == IF r \in DOMAIN LeavesOf THEN LeavesOf[r] ELSE Tokens

NoMark == [on |-> FALSE, past |-> <<>>, exact |-> TRUE, ate |-> FALSE,
           dropped |-> FALSE]

Known(k) == IF k <= Len(look) THEN look[k] ELSE Tokens

(* The tokens ahead when the k-th is one of S and those before it exist.     *)
Learn(k, S) ==
  [i \in 1..(IF k > Len(look) THEN k ELSE Len(look)) |->
     IF i = k THEN S ELSE IF i < k THEN Known(i) \ {"eof"} ELSE look[i]]

CanRead(k) == \A j \in 1..(k - 1) : Known(j) \ {"eof"} # {}
MayOverrun(k) == \E j \in 1..(k - 1) : "eof" \in Known(j)

Moved(p) ==
  [i \in DOMAIN p |-> IF p[i].op = "again" THEN Again(p[i].body, TRUE) ELSE p[i]]

(* The check point after tokens known to be in the sets of ts were eaten.    *)
Passed(ts, exact) ==
  IF ~mark.on \/ ~mark.exact THEN mark
  ELSE [mark EXCEPT !.past = SubSeq(@ \o ts, 1, IF Len(@) + Len(ts) > Memory
                                               THEN Memory ELSE Len(@) + Len(ts)),
                    !.exact = exact /\ Len(mark.past) + Len(ts) <= Memory]

Enter(r, known, further) ==
  /\ rule' = r
  /\ todo' = Program[r]
  /\ look' = known
  /\ ate' = FALSE
  /\ mark' = NoMark
  /\ filled' = {}
  /\ dropped' = FALSE
  /\ verdict' = FALSE
  /\ status' = "parsing"
  /\ progress' = further

Init ==
  \E r \in Roots :
    /\ rule = r /\ todo = Program[r] /\ look = <<>> /\ ate = FALSE
    /\ mark = NoMark /\ filled = {} /\ dropped = FALSE /\ verdict = FALSE
    /\ status = "parsing" /\ progress = TRUE

Executes(op) == status = "parsing" /\ todo # <<>> /\ Head(todo).op = op

Ends(s) ==
  /\ status' = s
  /\ progress' = FALSE
  /\ UNCHANGED <<rule, todo, look, ate, mark, filled, dropped, verdict>>

(* The parser is past one token of S.                                        *)
Advance(S) ==
  /\ todo' = Moved(Tail(todo))
  /\ look' = IF look = <<>> THEN <<>> ELSE Tail(look)
  /\ ate' = TRUE
  /\ mark' = Passed(<<S>>, TRUE)
  /\ dropped' = (dropped \/ Executes("lose"))
  /\ progress' = FALSE
  /\ UNCHANGED <<rule, filled, verdict, status>>

Eats ==
  /\ Executes("eat") \/ Executes("take") \/ Executes("lose")
  /\ Known(1) \cap Head(todo).set # {}
  /\ Advance(Known(1) \cap Head(todo).set)

(* eat moves on before its result is looked at; the assertion then fails.    *)
EatFails ==
  /\ Executes("eat") \/ Executes("take") \/ Executes("lose")
     \/ Executes("require")
  /\ Known(1) \ Head(todo).set # {}
  /\ Ends("asserted")

Drops ==
  /\ Executes("drop")
  /\ Known(1) \ {"eof"} # {}
  /\ Advance(Known(1) \ {"eof"})

Misreads ==
  /\ Executes("read")
  /\ Known(1) \ Head(todo).set # {}
  /\ Ends("misread")

Goes(next) ==
  /\ todo' = next
  /\ progress' = FALSE
  /\ UNCHANGED <<rule, ate, mark, filled, dropped, status>>

Reads ==
  /\ Executes("read") \/ Executes("require")
  /\ Known(1) \cap Head(todo).set # {}
  /\ Goes(Tail(todo))
  /\ look' = Learn(1, Known(1) \cap Head(todo).set)
  /\ UNCHANGED verdict

Test == Head(todo).test
Tested == Head(Head(Test))

PastTheEnd ==
  IF Executes("if") THEN MayOverrun(Tested.off)
  ELSE Executes("drop") /\ "eof" \in Known(1)

Overruns == PastTheEnd /\ Ends("overrun")

Matches ==
  /\ Executes("if")
  /\ CanRead(Tested.off)
  /\ LET S == Known(Tested.off) \cap Tested.set
         alt == Tail(Head(Test))
     IN /\ S # {}
        /\ look' = Learn(Tested.off, S)
        /\ Goes((IF alt = <<>> THEN Head(todo).yes
                 ELSE <<[Head(todo) EXCEPT !.test = <<alt>> \o Tail(Test)]>>)
                \o Tail(todo))
  /\ UNCHANGED verdict

Mismatches ==
  /\ Executes("if")
  /\ CanRead(Tested.off)
  /\ LET S == Known(Tested.off) \ Tested.set
     IN /\ S # {}
        /\ look' = Learn(Tested.off, S)
        /\ Goes((IF Len(Test) = 1 THEN Head(todo).no
                 ELSE <<[Head(todo) EXCEPT !.test = Tail(Test)]>>)
                \o Tail(todo))
  /\ UNCHANGED verdict

Chooses ==
  /\ Executes("either")
  /\ \E p \in {Head(todo).yes, Head(todo).no} : Goes(p \o Tail(todo))
  /\ UNCHANGED <<look, verdict>>

Loops ==
  /\ Executes("loop")
  /\ LET p == Head(todo).body IN Goes(p \o <<Again(p, FALSE)>> \o Tail(todo))
  /\ UNCHANGED <<look, verdict>>

Repeats ==
  /\ Executes("again")
  /\ Head(todo).moved
  /\ LET p == Head(todo).body IN todo' = p \o <<Again(p, FALSE)>> \o Tail(todo)
  /\ progress' = TRUE
  /\ UNCHANGED <<rule, look, ate, mark, filled, dropped, verdict, status>>

Stalls ==
  /\ Executes("again")
  /\ ~Head(todo).moved
  /\ Ends("stalled")

Breaks ==
  /\ Executes("break")
  /\ LET end == CHOOSE i \in DOMAIN todo :
                  /\ todo[i].op = "again"
                  /\ \A j \in 1..(i - 1) : todo[j].op # "again"
     IN Goes(SubSeq(todo, end + 1, Len(todo)))
  /\ UNCHANGED <<look, verdict>>

Marks ==
  /\ Executes("mark")
  /\ mark' = [on |-> TRUE, past |-> <<>>, exact |-> TRUE, ate |-> ate,
              dropped |-> dropped]
  /\ todo' = Tail(todo)
  /\ progress' = FALSE
  /\ UNCHANGED <<rule, look, ate, filled, dropped, verdict, status>>

Recovers ==
  /\ Executes("recover")
  /\ look' = IF mark.exact THEN mark.past \o look ELSE mark.past
  /\ ate' = mark.ate
  /\ dropped' = mark.dropped
  /\ mark' = NoMark
  /\ todo' = Tail(todo)
  /\ progress' = FALSE
  /\ UNCHANGED <<rule, filled, verdict, status>>

Answers ==
  /\ Executes("answer")
  /\ verdict' = Head(todo).value
  /\ Goes(Tail(todo))
  /\ UNCHANGED look

Discards ==
  /\ Executes("discard")
  /\ dropped' = TRUE
  /\ todo' = Tail(todo)
  /\ progress' = FALSE
  /\ UNCHANGED <<rule, look, ate, mark, filled, verdict, status>>

Decides ==
  /\ Executes("asked")
  /\ verdict' = FALSE
  /\ Goes((IF verdict THEN Head(todo).yes ELSE Head(todo).no) \o Tail(todo))
  /\ UNCHANGED look

Enters ==
  /\ Executes("call")
  /\ Head(todo).rule \in Rules
  /\ Enter(Head(todo).rule, look, ate)

(* The callee's value replaces what its slot held, or is not used.           *)
Loses(into) == into = "nothing" \/ into \in filled

StepsOver ==
  /\ Executes("call")
  /\ \/ /\ look' = IF Leaves(Head(todo).rule) = Tokens THEN <<>>
                   ELSE <<Leaves(Head(todo).rule)>>
        /\ ate' = TRUE
        /\ mark' = Passed(look, FALSE)
        /\ todo' = Moved(Tail(todo))
        /\ dropped' = (dropped \/ Loses(Head(todo).into))
     \/ /\ Known(1) \cap EmptyAt(Head(todo).rule) # {}
        /\ look' = Learn(1, Known(1) \cap EmptyAt(Head(todo).rule))
        /\ todo' = Tail(todo)
        /\ UNCHANGED <<ate, mark, dropped>>
  /\ filled' = filled \cup ({Head(todo).into} \ {"", "nothing"})
  /\ progress' = FALSE
  /\ UNCHANGED <<rule, verdict, status>>

CalleeFails ==
  /\ Executes("call")
  /\ todo' = Moved(Head(todo).else \o Tail(todo))
  /\ look' = <<>>
  /\ ate' = TRUE
  /\ mark' = Passed(look, FALSE)
  /\ progress' = FALSE
  /\ UNCHANGED <<rule, filled, dropped, verdict, status>>

Returns == Executes("return") /\ Ends("returned")
Rejects == Executes("fail") /\ Ends("rejected")
Aborts  == Executes("abort") /\ Ends("asserted")

Done == status # "parsing" /\ UNCHANGED vars

Next ==
  \/ Eats \/ EatFails \/ Drops \/ Reads \/ Misreads
  \/ Matches \/ Mismatches \/ Overruns \/ Chooses
  \/ Loops \/ Repeats \/ Stalls \/ Breaks
  \/ Marks \/ Recovers \/ Answers \/ Discards \/ Decides
  \/ Enters \/ StepsOver \/ CalleeFails
  \/ Returns \/ Rejects \/ Aborts
  \/ Done

Spec == Init /\ [][Next]_vars
FairSpec == Spec /\ WF_vars(Next)

-----------------------------------------------------------------------------
(* What the parse functions promise each other and their callers.  The sets  *)
(* name the functions known to break the promise that follows them.          *)

Asserting ==
  {"parseAbi", "parseClosureExpression", "parseConstantItem", "parseExpression",
   "parseFunction", "parseMacroMatch", "parseStatement",
   "parseStatementOrExpressionWithoutBlock", "parseStaticItem",
   "parseStructExprFields", "parseTuplePatternItems", "parseTypeAlias",
   "parseTypePathFn", "parseUnaryExpression", "parseUnion", "parseUseTree",
   "parseVisibility"}

Overrunning == {"parseAssociatedItem", "parseStatement", "parseUnaryExpression"}

(* Every token a function asserts to be next has been looked at before, and  *)
(* no function looks behind the end of the token stream: an ill-formed       *)
(* program is answered with an error, except in those.                       *)
AssertionsHold == /\ status = "asserted" => rule \in Asserting
                  /\ status = "overrun" => rule \in Overrunning

Stalling ==
  {"parseArrayElements", "parseClosureParameters", "parseExpressionStatement",
   "parseExternBlock", "parseFunctionParametersMaybeNamedVariadic",
   "parseImplType", "parseItem", "parseLifetimeBounds", "parseMacroMatch",
   "parseMacroMatcher", "parseStatement", "parseStructExpressionTuplePratt",
   "parseTraitObjectType", "parseUseTree"}

(* An iteration of a loop eats a token or leaves the loop.                   *)
LoopsAdvance == status = "stalled" => rule \in Stalling

Misreading ==
  {"parseBreakExpression", "parseLifetimeAsLifetime", "parseRangePatternBound"}

(* The payload of a token is read while that token is next, not after it was *)
(* eaten or before it is reached.                                            *)
PayloadsMatch == status = "misread" => rule \in Misreading

Dropping ==
  {"parseArrayElements", "parseBlockExpression", "parseGroupedOrTuplePattern",
   "parseItem", "parseLoopExpression",
   "parseMaybeNamedFunctionParametersVariadic", "parseStatement",
   "parseStructPatternFields", "parseUseTree"}

(* What was parsed ends up in the tree: a function that returns a value has  *)
(* thrown none away and overwritten none.                                    *)
NothingDropped == status = "returned" /\ dropped => rule \in Dropping

(* A function that returns a value has eaten a token, or is at one of those  *)
(* its callers know it may leave; and what it leaves next is what they count *)
(* on.                                                                       *)
ReturnsMeanProgress ==
  status = "returned" =>
    /\ ~ate => Known(1) \subseteq EmptyAt(rule)
    /\ Known(1) \subseteq Leaves(rule)

LeftRecursive ==
  {"parseMacroMatcher", "parseTraitObjectType", "parseUnaryExpression",
   "parseUseTree"}

(* The parser comes to an end: calls and iterations do not go on for ever    *)
(* unless tokens are eaten.  A function that comes back to itself where it   *)
(* was entered does so through one of those.                                 *)
CallsAdvance == []<>(status # "parsing" \/ progress \/ rule \in LeftRecursive)
=============================================================================
