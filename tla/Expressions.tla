---------------------------- MODULE Expressions ----------------------------
(***************************************************************************)
(* The operator-precedence parser of expressions (parser/).                *)
(*                                                                         *)
(* parseExpression parses an operand, then infix and postfix operators     *)
(* while they bind more tightly than its right binding power.  Its         *)
(* handlers call it back for their operands, so the C++ call stack is      *)
(* `calls`: an activation of parseExpression, then the handler it is in,   *)
(* then the parseExpression of that handler's operand, and so on.  The     *)
(* text is chosen in the initial state.                                    *)
(*                                                                         *)
(* Token kinds that the handlers treat alike are one token here: "x" is    *)
(* a path, "1" a literal, "/" an operator getLeftBindingPower does not     *)
(* know, "mut" a keyword no handler of an operand or operator knows.       *)
(* Blocks, control flow, closures, macros, casts, struct expressions and   *)
(* qualified paths are left out, and with them Restrictions, which only    *)
(* struct expressions depend on.                                           *)
(*                                                                         *)
(* A tree is the set of its nodes: a node is the position of the token     *)
(* that makes it and the positions it spans.                               *)
(***************************************************************************)
EXTENDS Integers, Sequences, FiniteSets

CONSTANTS Texts,       \* the texts that are parsed, as sequences of tokens
          MaxTokens,   \* bound on the length of a text
          MaxCalls     \* activations the process stack holds

KnownTokens == {"x", "1", "(", ")", "[", "]", ",", ";", ".", "?", "+", "-", "*",
                ">>", "==", ">", "=", "+=", "..", "..=", "&", "&&", "/", "mut",
                "return", "break"}

ASSUME ExpressionsAssumption ==
  /\ MaxTokens \in Nat
  /\ MaxCalls \in Nat /\ MaxCalls > 2 * MaxTokens + 2
  /\ \A text \in Texts : text \in Seq(KnownTokens) /\ Len(text) <= MaxTokens

VARIABLES
  ts,        \* Parser::ts
  offset,    \* Parser::offset: how many tokens have been eaten
  calls,     \* the activations, outermost first
  result,    \* what the activation that has just returned gave
  outcome    \* "running", or how the process has ended

vars == <<ts, offset, calls, result, outcome>>

Role == {"leaf", "prefix", "infix", "postfix", "bracket", "tuple"}
Node == [role : Role, at : Nat, from : Nat, to : Nat]
Tree == [from : Nat \ {0}, to : Nat, nodes : SUBSET Node]

\* No tree yet, and the error of a StringResult.
Nothing == [from |-> 0, to |-> 0, nodes |-> {}]
Failure == [from |-> 0, to |-> 1, nodes |-> {}]

Handler == {"expression", "operand", "probe", "grouped", "tuple", "params",
            "index", "first", "count", "list"}

\* For parseExpression, mark is the check point of the operator it is at; for a
\* handler, the offset of the token it begins with.
Call == [at : Handler, mark : Nat, power : Nat, left : Tree \cup {Nothing},
         nodes : SUBSET Node]

Keyword == {"mut", "return", "break"}
Ending  == {"running", "exited", "aborted", "overflowed", "hung"}

\* The variables have their types. There is always a current token: eat never
\* takes the end of file.
TypeOK ==
  /\ ts \in Seq(KnownTokens \cup {"eof"})
  /\ offset \in 0..(Len(ts) - 1)
  /\ calls \in Seq(Call)
  /\ result \in Tree \cup {Nothing, Failure}
  /\ outcome \in Ending

-----------------------------------------------------------------------------
(* Tokens and precedence *)

\* Beyond the end there is nothing: reading it is an assertion failure.
TokenAt(k) == IF offset + k < Len(ts) THEN ts[offset + k + 1] ELSE "none"
Current == TokenAt(0)

LeftBindingPower(i) ==
  CASE ts[i] = "." -> IF ts[i + 1] = "x" /\ ts[i + 2] = "(" THEN 85 ELSE 90
    [] ts[i] \in {"(", "["} -> 80
    [] ts[i] = "?" -> 75
    [] ts[i] = "*" -> 60
    [] ts[i] \in {"+", "-"} -> 55
    [] ts[i] = ">>" -> 50
    [] ts[i] \in {"=", "==", ">"} -> 30
    [] ts[i] \in {"..", "..="} -> 15
    [] ts[i] = "+=" -> 10
    [] OTHER -> 0

\* The right binding power a handler gives the expression after its operator.
PrefixPower(t) ==
  CASE t \in {"*", "&", "&&", "-"} -> 70
    [] t \in {"..", "..="} -> 15
    [] OTHER -> 0

InfixPower(t) ==
  CASE t \in {"==", ">"} -> 30
    [] t \in {"=", "+="} -> 10
    [] OTHER -> 0

\* Handlers that end the process when their operand cannot be parsed.
FatalPrefix == {"..", "..=", "break"}
FatalInfix  == {"+", "-", "*", ">>", "=", "+="}

Infix == {"+", "-", "*", ">>", "==", ">", "=", "+=", "..", "..="}

\* Tokens after which `..`, return and break stand alone.
Terminators(t) ==
  CASE t = ".." -> {";", ")", "]"}
    [] t = "return" -> {";", "eof"}
    [] t = "break" -> {";"}
    [] OTHER -> {}

-----------------------------------------------------------------------------
(* Calls and returns *)

Top   == calls[Len(calls)]
Below == SubSeq(calls, 1, Len(calls) - 1)

Running == outcome = "running" /\ calls # <<>>

\* parseExpression has no operand yet; it has one and looks for an operator;
\* handler h gets its callee's result.
AtOperand  == Running /\ Top.at = "expression" /\ result = Nothing /\ Top.left = Nothing
AtOperator == Running /\ Top.at = "expression" /\ result = Nothing /\ Top.left # Nothing
Returned(h) == Running /\ Top.at = h /\ result # Nothing

\* The tree handler c makes of its left operand, its elements and `nodes`.
Made(c, role, nodes, to) ==
  LET from == IF c.left = Nothing THEN c.mark + 1 ELSE c.left.from
  IN  [from |-> from, to |-> to,
       nodes |-> c.left.nodes \cup c.nodes \cup nodes
                   \cup {[role |-> role, at |-> c.mark + 1, from |-> from, to |-> to]}]

Continue(c, eaten) ==
  /\ calls' = Append(Below, c) /\ offset' = offset + eaten /\ result' = Nothing
  /\ UNCHANGED <<ts, outcome>>

Return(value, off) ==
  /\ calls' = Below /\ offset' = off /\ result' = value
  /\ UNCHANGED <<ts, outcome>>

End(how) == outcome' = how /\ UNCHANGED <<ts, offset, calls, result>>

Expression(power, off) ==
  [at |-> "expression", mark |-> off, power |-> power, left |-> Nothing, nodes |-> {}]

\* The process stack ends, or a handler in `stack` calls parseExpression.
CallExpression(stack, power, off) ==
  IF Len(stack) >= MaxCalls THEN End("overflowed")
  ELSE /\ calls' = Append(stack, Expression(power, off))
       /\ offset' = off /\ result' = Nothing
       /\ UNCHANGED <<ts, outcome>>

\* parseExpression at a check point, and calling handler h from there.
Here == [Top EXCEPT !.mark = offset]
Calling(h) ==
  Append(Append(Below, Here),
         [at |-> h, mark |-> offset, power |-> 0, left |-> Top.left, nodes |-> {}])

\* Mutant of Extend: one token too many is eaten.
ExtendTooFar(role, n) ==
  Continue([Here EXCEPT !.left = Made(Here, role, {}, offset + n + 1)], n + 1)

\* A handler that calls nobody: it eats n tokens and its tree is the new left.
Extend(role, n) ==
  Continue([Here EXCEPT !.left = Made(Here, role, {}, offset + n)], n)

-----------------------------------------------------------------------------
(* parseUnaryExpression *)

Literal == AtOperand /\ Current \in {"x", "1"} /\ Extend("leaf", 1)

EmptyBrackets ==
  /\ AtOperand /\ <<Current, TokenAt(1)>> \in {<<"(", ")">>, <<"[", "]">>}
  /\ Extend("bracket", 2)

\* `..`, return and break without an operand.
Alone == AtOperand /\ TokenAt(1) \in Terminators(Current) /\ Extend("leaf", 1)

\* Mutant of Prefix: the operator is not eaten.
PrefixUneaten ==
  /\ AtOperand /\ Current \in {"*", "..", "..=", "return", "break"}
  /\ TokenAt(1) \notin Terminators(Current)
  /\ CallExpression(Calling("operand"), PrefixPower(Current), offset)

Prefix ==
  /\ AtOperand /\ Current \in {"*", "..", "..=", "return", "break"}
  /\ TokenAt(1) \notin Terminators(Current)
  /\ CallExpression(Calling("operand"), PrefixPower(Current), offset + 1)

\* The token after & is looked at only to see whether the one after that is
\* mut, and then it is the token after & that is eaten as a keyword.
Borrow ==
  /\ AtOperand /\ Current = "&"
  /\ \/ TokenAt(2) = "none" /\ End("aborted")
     \/ /\ TokenAt(2) = "mut" /\ TokenAt(1) \notin Keyword /\ End("aborted")
     \/ /\ TokenAt(2) = "mut" /\ TokenAt(1) \in Keyword
        /\ CallExpression(Calling("operand"), PrefixPower("&"), offset + 2)
     \/ /\ TokenAt(2) \notin {"mut", "none"}
        /\ CallExpression(Calling("operand"), PrefixPower("&"), offset + 1)

\* - and && are not eaten: their operand begins with them again.
Uneaten ==
  /\ AtOperand /\ Current \in {"-", "&&"}
  /\ IF Current = "&&" /\ TokenAt(1) = "mut" THEN End("aborted")
     ELSE CallExpression(Calling("operand"), PrefixPower(Current), offset)

\* parseGroupedOrTupleExpression tries the contents first; parseArrayExpression.
Open ==
  /\ AtOperand
  /\ \/ Current = "(" /\ TokenAt(1) # ")"
        /\ CallExpression(Calling("probe"), 0, offset + 1)
     \/ Current = "[" /\ TokenAt(1) # "]"
        /\ CallExpression(Calling("first"), 0, offset + 1)

OperandStarts == {"x", "1", "(", "[", "*", "..", "..=", "return", "break", "&",
                  "-", "&&"}

NoOperand == AtOperand /\ Current \notin OperandStarts /\ Return(Failure, offset)

-----------------------------------------------------------------------------
(* parseExpression and parseInfixExpression *)

\* getLeftBindingPower asserts that a keyword is `as`.
KeywordFollows == AtOperator /\ Current \in Keyword /\ End("aborted")

\* Mutant of Binds: an operator of the same power is taken as well.
BindsEqually ==
  AtOperator /\ Current \notin Keyword
  /\ LeftBindingPower(offset + 1) # 0 /\ LeftBindingPower(offset + 1) >= Top.power

\* The condition of the loop.
Binds ==
  AtOperator /\ Current \notin Keyword /\ LeftBindingPower(offset + 1) > Top.power

Stop == AtOperator /\ Current \notin Keyword /\ ~Binds /\ Return(Top.left, offset)

\* Operators whose handlers call nobody: ?, a range without an end, tuple
\* indices and fields, and calls without parameters.
Postfix ==
  /\ Binds
  /\ \/ Current = "?" /\ Extend("postfix", 1)
     \/ Current = ".." /\ TokenAt(1) \in Terminators("..") /\ Extend("postfix", 1)
     \/ Current = "." /\ TokenAt(1) = "1" /\ Extend("postfix", 2)
     \/ Current = "." /\ TokenAt(1) = "x" /\ TokenAt(2) # "(" /\ Extend("postfix", 2)
     \/ Current = "(" /\ TokenAt(1) = ")" /\ Extend("bracket", 2)
     \/ /\ Current = "." /\ TokenAt(1) = "x" /\ TokenAt(2) = "(" /\ TokenAt(3) = ")"
        /\ Extend("bracket", 4)

InfixOperator ==
  /\ Binds /\ Current \in Infix /\ TokenAt(1) \notin Terminators(Current)
  /\ CallExpression(Calling("operand"), InfixPower(Current), offset + 1)

\* Calls, method calls and indexing.
OpenAfter ==
  /\ Binds
  /\ \/ Current = "(" /\ TokenAt(1) # ")"
        /\ CallExpression(Calling("params"), 0, offset + 1)
     \/ /\ Current = "." /\ TokenAt(1) = "x" /\ TokenAt(2) = "(" /\ TokenAt(3) # ")"
        /\ CallExpression(Calling("params"), 0, offset + 3)
     \/ Current = "[" /\ CallExpression(Calling("index"), 0, offset + 1)

\* A method call whose name is no path segment ends the process.
NoMember ==
  Binds /\ Current = "." /\ TokenAt(1) \notin {"1", "x"} /\ End("exited")

\* The loop after parseUnaryExpression or a handler has returned; recover, when
\* it was the handler of an operator and failed.
ExpressionResumes ==
  /\ Returned("expression")
  /\ IF result # Failure THEN Continue([Top EXCEPT !.left = result], 0)
     ELSE Return(Failure, IF Top.left = Nothing THEN offset ELSE Top.mark)

-----------------------------------------------------------------------------
(* Handlers that wait for an operand *)

OperatorOf(c) == ts[c.mark + 1]

OperandParsed ==
  /\ Returned("operand")
  /\ LET prefix == Top.left = Nothing
     IN  IF result # Failure
         THEN Return(Made(Top, IF prefix THEN "prefix" ELSE "infix",
                          result.nodes, offset), offset)
         ELSE IF OperatorOf(Top) \in (IF prefix THEN FatalPrefix ELSE FatalInfix)
         THEN End("exited")
         ELSE Return(Failure, offset)

\* Mutant of GroupedOrTuple: the contents are tried again and again.
Reprobe ==
  /\ Returned("probe")
  /\ IF result = Failure THEN Return(Failure, offset)
     ELSE CallExpression(Append(Below, Top), 0, Top.mark + 1)

\* parseGroupedOrTupleExpression: the contents have been parsed once; the check
\* point is restored and they are parsed again.
GroupedOrTuple ==
  /\ Returned("probe")
  /\ IF result = Failure THEN Return(Failure, offset)
     ELSE CallExpression(
            Append(Below, [Top EXCEPT !.at = IF Current = ")" THEN "grouped" ELSE "tuple"]),
            0, Top.mark + 1)

\* Mutant of Closes: the tree spans a bracket that is not eaten.
ClosesLater(bracket) ==
  IF Current = bracket
  THEN Return(Made(Top, "bracket", result.nodes, offset + 1), offset)
  ELSE Return(Failure, offset)

Closes(bracket) ==
  IF Current = bracket
  THEN Return(Made(Top, "bracket", result.nodes, offset + 1), offset + 1)
  ELSE Return(Failure, offset)

Grouped ==
  /\ Returned("grouped")
  /\ IF result = Failure THEN End("exited") ELSE Closes(")")

Index ==
  /\ Returned("index")
  /\ IF result = Failure THEN Return(Failure, offset) ELSE Closes("]")

-----------------------------------------------------------------------------
(* Lists *)

\* Mutant of TrailingComma: the bracket after the comma is left.
TrailingCommaOnly == Return(Made(Top, "bracket", result.nodes, offset + 1), offset + 1)

\* A comma before the closing bracket.
TrailingComma == Return(Made(Top, "bracket", result.nodes, offset + 2), offset + 2)

Collected == [Top EXCEPT !.nodes = @ \cup result.nodes]
Another(c) == CallExpression(Append(Below, c), 0, offset + 1)

\* parseTupleElements and parseTupleExpression, which leaves the closing
\* parenthesis where it is.
Tuple ==
  /\ Returned("tuple")
  /\ IF result = Failure THEN End("exited")
     ELSE \/ /\ Current = "," /\ TokenAt(1) \notin {"eof", ")"} /\ Another(Collected)
          \/ /\ Current = "," /\ TokenAt(1) = ")"
             /\ Return(Made(Top, "tuple", result.nodes, offset + 1), offset + 1)
          \/ Current = "," /\ TokenAt(1) = "eof" /\ Return(Failure, offset + 1)
          \/ /\ Current = ")" /\ Top.nodes # {}
             /\ Return(Made(Top, "tuple", result.nodes, offset), offset)
          \/ /\ Current # "," /\ (Current # ")" \/ Top.nodes = {})
             /\ Return(Failure, offset)

\* parseCallParams, parseCallExpression and parseMethodCallExpression.
Params ==
  /\ Returned("params")
  /\ \/ (result = Failure \/ Current \notin {")", ","}) /\ End("exited")
     \/ result # Failure /\ Current = ")" /\ Closes(")")
     \/ /\ result # Failure /\ Current = "," /\ TokenAt(1) = ")" /\ TrailingComma
     \/ /\ result # Failure /\ Current = "," /\ TokenAt(1) # ")"
        /\ Another(Collected)

\* The loop of parseArrayElements; c.nodes are those of the elements it has.
ArrayList(c) ==
  \/ Current = "eof" /\ End("exited")
  \/ /\ Current = "," /\ TokenAt(1) = "]"
     /\ Return(Made(c, "bracket", {}, offset + 2), offset + 2)
  \/ Current = "]" /\ Return(Made(c, "bracket", {}, offset + 1), offset + 1)
  \/ Current = "," /\ TokenAt(1) # "]" /\ Another(c)
  \/ Current \notin {"eof", ",", "]"} /\ End("hung")

\* Mutant of ListBegins: the first element is one of the list.
ListBeginsWithFirst == [Collected EXCEPT !.at = "list"]

\* The elements a list begins with: the first is not added.
ListBegins == [Top EXCEPT !.at = "list"]

ArrayFirst ==
  /\ Returned("first")
  /\ \/ result = Failure /\ End("exited")
     \/ result # Failure /\ Current = ";" /\ Another([Collected EXCEPT !.at = "count"])
     \/ /\ result # Failure /\ Current = "," /\ TokenAt(1) = "]" /\ TrailingComma
     \/ /\ result # Failure /\ Current # ";" /\ ~(Current = "," /\ TokenAt(1) = "]")
        /\ ArrayList(ListBegins)

ArrayNext ==
  /\ Returned("list")
  /\ IF result = Failure THEN End("exited") ELSE ArrayList(Collected)

ArrayCount ==
  /\ Returned("count")
  /\ IF result = Failure THEN End("exited") ELSE Closes("]")

-----------------------------------------------------------------------------

\* The lexer appends the end of file.
Init ==
  /\ ts \in {Append(text, "eof") : text \in Texts}
  /\ offset = 0
  /\ calls = <<Expression(0, 0)>>
  /\ result = Nothing
  /\ outcome = "running"

Next ==
  \/ Literal \/ EmptyBrackets \/ Alone \/ Prefix \/ Borrow \/ Uneaten \/ Open
  \/ NoOperand
  \/ KeywordFollows \/ Stop \/ Postfix \/ InfixOperator \/ OpenAfter \/ NoMember
  \/ ExpressionResumes
  \/ OperandParsed \/ GroupedOrTuple \/ Grouped \/ Index
  \/ Tuple \/ Params \/ ArrayFirst \/ ArrayNext \/ ArrayCount

\* A sequential program: it goes on as long as it can.
Spec == Init /\ [][Next]_vars /\ WF_vars(Next)

-----------------------------------------------------------------------------
(* Properties *)

HasLeft(n) == n.from < n.at
TakesRight(n) == n.role \in {"prefix", "infix"}
OperandPower(n) == IF n.role = "prefix" THEN PrefixPower(ts[n.at]) ELSE InfixPower(ts[n.at])

\* m is an operator at the left edge of n's right operand, n one whose left
\* operand m ends.
InRightOperand(m, n) == TakesRight(n) /\ HasLeft(m) /\ m.from = n.at + 1 /\ m.to <= n.to
InLeftOperand(m, n)  == HasLeft(n) /\ TakesRight(m) /\ m.to = n.at - 1 /\ m.from >= n.from

\* Of the trees a text could have, parseExpression returns the one its binding
\* powers determine: an operator in a right operand binds more tightly than the
\* power that operand was parsed with, and an operator that ends a left operand
\* was parsed with a power the operator after it does not exceed.
BindingPowersDecide ==
  \A m, n \in result.nodes :
    /\ InRightOperand(m, n) => LeftBindingPower(m.at) > OperandPower(n)
    /\ InLeftOperand(m, n) => OperandPower(m) >= LeftBindingPower(n.at)

\* A tree spans the tokens that were eaten for it, also when they were parsed
\* twice or a check point was restored: what a handler has starts where
\* it was called and ends where the parser is or was when it called on.
SpansWhatWasEaten ==
  /\ result \in Tree => result.to = offset
  /\ \A i \in 1..Len(calls) :
       calls[i].left # Nothing =>
         calls[i].left.to = IF i = Len(calls) /\ result = Nothing THEN offset
                            ELSE calls[i].mark
  /\ calls = <<>> /\ result # Failure => result.from = 1

\* The tokens that make a node of their own: operands and opening brackets,
\* but for what belongs to a dot.
Member(i) == i > 1 /\ ts[i - 1] = "."
MakesNode(i) ==
  \/ ts[i] \in {"x", "1"} /\ ~Member(i)
  \/ ts[i] = "(" /\ ~(Member(i - 1) /\ ts[i - 1] = "x")
  \/ ts[i] = "["
Lost(t) == {i \in t.from..t.to : MakesNode(i) /\ \A n \in t.nodes : n.at # i}

\* How many positions of tree t hold one of the tokens S.
Among(t, S) == Cardinality({i \in t.from..t.to : ts[i] \in S})

\* Brackets are closed within the tree they open, but for the parenthesis of a
\* tuple: each tuple leaves its own to whoever comes next.  Not so where the nodes
\* of the first element of an array are lost, and those of tuples with them.
TuplesStayOpen ==
  result \in Tree /\ Lost(result) = {} =>
    Among(result, {"(", "["}) - Among(result, {")", "]"})
      = Cardinality({n \in result.nodes : n.role = "tuple"})

\* The recursion is as deep as the text is long, but at - and &&.
DeepOnlyAtUneaten == outcome = "overflowed" => Current \in {"-", "&&"}

\* The parser returns, ends the process, or is in the one loop that does not
\* advance: parsing contents twice and restoring check points comes to an end.
Ends == <>(calls = <<>> \/ outcome # "running")

\* "stop parsing if find lower priority token - parse higher priority first"
\* (ParseExpression.cpp:49).
HigherPriorityFirst ==
  \A m, n \in result.nodes :
    InRightOperand(m, n) /\ HasLeft(n) => LeftBindingPower(m.at) >= LeftBindingPower(n.at)
=============================================================================
