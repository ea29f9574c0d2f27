------------------------------ MODULE Grammar ------------------------------
(* The vocabulary of the recursive descent parser: its tokens, the tests its *)
(* functions make on the tokens ahead, and the statements their bodies are   *)
(* made of.  A parse function of src/code/parser is a sequence of statements *)
(* (modules ParseTypes, ParsePatterns, ...); module Parser executes them.    *)
(*                                                                           *)
(* A value that a parse function returns is kept by its caller unless the    *)
(* statement says otherwise (Peek); errors that end in exit() and errors     *)
(* handed to the caller are one statement, Fail, as no caller goes on after  *)
(* an error except where CallElse says so.                                   *)
EXTENDS Naturals, Sequences

Keywords ==
  {"as", "break", "const", "continue", "crate", "else", "enum", "extern",
   "false", "fn", "for", "if", "impl", "in", "let", "loop", "match", "mod",
   "move", "mut", "pub", "ref", "return", "self", "Self", "static", "struct",
   "super", "trait", "true", "type", "unsafe", "use", "where", "while",
   "async", "await", "dyn", "abstract", "become", "box", "do", "final",
   "macro", "override", "priv", "typeof", "unsized", "virtual", "yield",
   "try", "union", "'static", "macro_rules"}

LiteralTokens ==
  {"char", "string", "raw string", "byte", "byte string", "raw byte string",
   "integer", "float"}

(* "'_" is the lifetime token spelt so, "'lifetime" any other one.           *)
Tokens ==
  Keywords \cup LiteralTokens \cup
  {"identifier", "'_", "'lifetime", "'label", "eof", "_",
   ":", "->", "=>", "=", ".", "?", "#", "[", "]", ",", "(", ")", ";", "{",
   "}", "*", "+", "!", "-", "/", "%", "&", "&&", "|", "||", "::", "^", "<<",
   ">>", "..", "...", "..=", "<", "==", "!=", ">", ">=", "<=", "@", "*=",
   "+=", "-=", "/=", "%=", "&=", "<<=", "^=", ">>=", "|=", "$", "~"}

-----------------------------------------------------------------------------
(* Tests.  A test is a sequence of alternatives, tried in order; an          *)
(* alternative is a sequence of looks, each at one offset (1 is the next     *)
(* token), made in order until one fails.  c \o d is c || d.                 *)
Look(off, S)  == [off |-> off, set |-> S]
AtOffset(k, S) == << <<Look(k + 1, S)>> >>
At(S)         == AtOffset(0, S)
Ahead(sets)   == << [i \in DOMAIN sets |-> Look(i, sets[i])] >>
NotAt(S)      == At(Tokens \ S)

Lifetimes == {"'label", "'static", "'_"}
StaticOrUnderscore == {"'static", "'_"}
Literals == LiteralTokens \cup {"true", "false"}
IdentSegments  == {"identifier", "super", "self", "Self", "crate"}
SimpleSegments == {"identifier", "super", "self", "crate"}

checkOuterAttribute(k) == << <<Look(k + 1, {"#"}), Look(k + 2, {"["})>> >>
checkInnerAttribute == Ahead(<<{"#"}, {"!"}, {"["}>>)
DollarCrate(k) == << <<Look(k + 1, {"$"}), Look(k + 2, {"crate"})>> >>
checkPathIdentSegment(k) == AtOffset(k, IdentSegments) \o DollarCrate(k)
checkSimplePathSegment == At(SimpleSegments) \o DollarCrate(0)
checkLifetime(k) == AtOffset(k, Lifetimes)
checkLiteral(k) == AtOffset(k, Literals)
checkIsKeyword(k) == AtOffset(k, Keywords)

Delimiters == {"{", "}", "[", "]", "(", ")"}

Postfix ==
  {"?", "+", "-", "*", "/", "%", "|", "^", "<<", ">>", "==", "!=", ">", "<",
   ">=", "<=", "||", "&&", "as", "+=", "-=", "*=", "/=", "%=", "&=", "|=",
   "<<=", ".", "[", "..", "..=", ">>="}

canTokenStartType ==
  {"super", "self", "Self", "crate", "for", "async", "const", "unsafe",
   "extern", "fn", "impl", "dyn", "!", "[", "<", "_", "*", "&", "identifier",
   "::", "(", "?", "'_", "'lifetime", "'label", "$"}

-----------------------------------------------------------------------------
(* Statements.                                                               *)
Eat(S)    == [op |-> "eat", set |-> S]       \* assert(eat(..))
Take(S)   == [op |-> "take", set |-> S]      \* its payload, then assert(eat)
Lose(S)   == [op |-> "lose", set |-> S]      \* its payload goes nowhere
Require(S) == [op |-> "require", set |-> S]  \* assert(check(..))
Read(S)   == [op |-> "read", set |-> S]      \* a payload, expected of one of S
Discard   == [op |-> "discard"]              \* the value parsed before is lost
Drop      == [op |-> "drop"]                 \* eat(..), its result ignored
If(c, p, q) == [op |-> "if", test |-> c, yes |-> p, no |-> q]
Loop(p)   == [op |-> "loop", body |-> p]     \* while (true)
Again(p, m) == [op |-> "again", body |-> p, moved |-> m]
Break     == [op |-> "break"]
Mark      == [op |-> "mark"]                 \* getCheckPoint()
Recover   == [op |-> "recover"]              \* recover(cp)
Answer(b) == [op |-> "answer", value |-> b]  \* the bool a check settles on
Asked(p, q) == [op |-> "asked", yes |-> p, no |-> q]
Either(p, q) == [op |-> "either", yes |-> p, no |-> q]  \* data decides
CallElse(r, p) == [op |-> "call", rule |-> r, into |-> "", else |-> p]
Return    == [op |-> "return"]
Fail      == [op |-> "fail"]
Abort     == [op |-> "abort"]                \* assert(false)

Call(r)    == CallElse(r, <<Fail>>)                     \* r's value is kept
Peek(r)    == [Call(r) EXCEPT !.into = "nothing"]       \* and here it is not
Insist(r)  == CallElse(r, <<Abort>>)   \* getValue() whether it failed or not
Put(r, slot) == [Call(r) EXCEPT !.into = slot]          \* replaces the slot's
When(c, p) == If(c, p, <<>>)
Unless(c, p) == If(c, <<>>, p)
Need(c)    == Unless(c, <<Fail>>)
Expect(S)  == If(At(S), <<Eat(S)>>, <<Fail>>)
ExpectName == If(At({"identifier"}), <<Take({"identifier"})>>, <<Fail>>)
Tail1(r)   == <<Call(r), Return>>                       \* return r()
To(S, r)   == When(At(S), Tail1(r))

(* if (..) .. else if (..) .. else ..                                        *)
Switch(arms, otherwise) ==
  LET from[i \in 1..(Len(arms) + 1)] ==
        IF i > Len(arms) THEN otherwise
        ELSE <<If(arms[i][1], arms[i][2], from[i + 1])>>
  IN from[1][1]

eatSimplePathSegment ==
  If(At(IdentSegments), <<Eat(IdentSegments)>>,
     <<If(DollarCrate(0), <<Eat({"$"}), Eat({"crate"})>>, <<Abort>>)>>)
eatPathIdentSegment == eatSimplePathSegment
=============================================================================
