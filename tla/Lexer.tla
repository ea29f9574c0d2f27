------------------------------- MODULE Lexer -------------------------------
(***************************************************************************)
(* The lexer (lexer/Lexer.cpp, lex): one pass over the text of a file that *)
(* appends tokens to a stream, with the line and column of each.           *)
(*                                                                         *)
(* A text is a sequence of units: single characters, and three words whose *)
(* letters make no difference ("fn" for any keyword, "$crate", "'static"). *)
(* "a" is any letter that is no keyword, "0" any digit and "other" any     *)
(* character the lexer never mentions.                                     *)
(***************************************************************************)
EXTENDS Naturals, Sequences, FiniteSetsExt

CONSTANT Texts     \* the texts that are read

ASSUME TextsAssumption == Texts \subseteq Seq(STRING)

VARIABLES
  text,
  at,       \* the first unit that is left
  line, column,
  tokens,   \* `from` and `size` say which units a token was made from
  outcome   \* "lexing", "done" or "exit"

vars == <<text, at, line, column, tokens, outcome>>

Digit   == {"0"}
Letter  == {"a", "fn"}
Keyword == {<<"fn">>}
Blank   == {" ", "\t"}
InComment == Letter \cup Digit \cup
  {"/", " ", "_", "-", "?", "\\", "*", "[", "]", "!", "+", ":", ".", "(", ")", "{", "}", ",",
   "=", "\"", ";", "&", "<", "`", ">", "'", "'static"}
InString == Letter \cup Digit \cup {"_", "-", "/", "{", "}", ":", ".", " ", "?"}

Width(unit) == CASE unit = "fn" -> 2 [] unit = "$crate" -> 6 [] unit = "'static" -> 7 [] OTHER -> 1
Wide(unit, from, to) == Cardinality({i \in from..to : text[i] = unit}) * (Width(unit) - 1)
WidthOf(from, to) ==
  (to + 1 - from) + Wide("fn", from, to) + Wide("$crate", from, to) + Wide("'static", from, to)

\* The text is a std::string: behind its end there is a NUL.
View(i) == IF i \in DOMAIN text THEN text[i] ELSE "NUL"
StartsWith(i, units) == View(i) = units[1] /\ \A k \in 2..Len(units) : View(i + k - 1) = units[k]

\* The first unit from i on that is none of these, or the end.
Behind(i, units) == Min({j \in i..Len(text) : text[j] \notin units} \cup {Len(text) + 1})

\* Both calls of tryLexWhiteSpace have been made.
Start == Behind(at, Blank)
Column == column + (Start - at)

-----------------------------------------------------------------------------
\* The lengths of tokens at the start; 0 when there is none.

\* Up to four digits; more only at the end of the text.
tryLexDecLiteral ==
  LET n == Behind(Start, Digit) - Start
  IN IF n <= 4 \/ Start + n > Len(text) THEN n ELSE 0

tryLexString ==
  LET end == Behind(Start + 1, InString)
  IN IF View(Start) = "\"" /\ View(end) = "\"" THEN end + 1 - Start ELSE 0

IdentifierWithoutDigits ==
  IF View(Start) \in Digit \/ (View(Start) = "_" /\ View(Start + 1) \notin Letter) THEN 0
  ELSE Behind(Start, Letter \cup {"_"}) - Start
tryLexIdentifier ==
  IF View(Start) \in Digit \/ (View(Start) = "_" /\ View(Start + 1) \notin Letter) THEN 0
  ELSE Behind(Start, Letter \cup Digit \cup {"_"}) - Start

AtComment == StartsWith(Start, <<"/", "/">>)
\* A comment ends with its line, or at a character it cannot have.
CommentEnd == Behind(Start, InComment)

\* What is tested in this order: the units, the token and how many are removed.
P(units, kind) == [units |-> units, kind |-> kind, removed |-> Len(units)]
Operators ==
  << P(<<"!">>, "Not"), P(<<"$crate">>, "Identifier"), P(<<"@">>, "At"),
     P(<<"-", ">">>, "RArrow"), P(<<"+", "=">>, "PlusEq"), P(<<"+">>, "Plus"),
     P(<<".", ".", "=">>, "DotDotEq"), P(<<".", ".", ".">>, "DotDotDot"),
     P(<<".", ".">>, "DotDot"), P(<<".">>, "Dot"), P(<<"_">>, "Underscore"),
     P(<<"?">>, "QMark"), P(<<"*">>, "Star"), P(<<"=", "=">>, "EqEq"), P(<<"!", "=">>, "Ne"),
     P(<<"=", ">">>, "FatArrow"), P(<<"=">>, "Eq"), P(<<"-">>, "Minus"),
     P(<<">", ">">>, "Shr"), P(<<">">>, "Gt"), P(<<"<", "<">>, "Shl") >>
LessOrEqualOfNothing == << [units |-> <<"<", "=">>, kind |-> "Le", removed |-> 0] >>
\* One of the two characters is removed.
LessOrEqual == << [units |-> <<"<", "=">>, kind |-> "Le", removed |-> 1] >>
Delimiters ==
  << P(<<":", ":">>, "PathSep"), P(<<":">>, "Colon"), P(<<"&", "&">>, "AndAnd"), P(<<"&">>, "And"),
     P(<<"#">>, "Hash"), P(<<"{">>, "BraceOpen"), P(<<"}">>, "BraceClose"),
     P(<<"[">>, "SquareOpen"), P(<<"]">>, "SquareClose"), P(<<",">>, "Comma"),
     P(<<"(">>, "ParenOpen"), P(<<")">>, "ParenClose"), P(<<";">>, "Semi"), P(<<"|">>, "Or"),
     P(<<"^">>, "Caret"), P(<<"%">>, "Percent"), P(<<"/">>, "Slash"), P(<<">", "=">>, "Ge"),
     P(<<"<", "=">>, "Le"), P(<<"<">>, "Lt"), P(<<".", ".">>, "DotDot") >>
Punctuation == Operators \o LessOrEqual \o Delimiters

Matching == {i \in DOMAIN Punctuation : StartsWith(Start, Punctuation[i].units)}

-----------------------------------------------------------------------------
Token(kind, size, c) == [kind |-> kind, line |-> line, column |-> c, from |-> Start, size |-> size]

Advance(n) == at' = Start + n /\ column' = Column + WidthOf(Start, Start + n - 1)
EmitRemovingOne(kind, size, removed) ==
  /\ tokens' = Append(tokens, Token(kind, size, Column))
  /\ Advance(1)
  /\ UNCHANGED <<text, line, outcome>>
Emit(kind, size, removed) ==
  /\ tokens' = Append(tokens, Token(kind, size, Column))
  /\ Advance(removed)
  /\ UNCHANGED <<text, line, outcome>>

Lexing == outcome = "lexing" /\ Start <= Len(text)

\* The new line at the end of a comment is removed with it and not counted.
Comment ==
  /\ Lexing /\ AtComment
  /\ \/ View(CommentEnd) = "\n" /\ Advance(CommentEnd + 1 - Start) /\ UNCHANGED outcome
     \/ CommentEnd > Len(text)  /\ Advance(CommentEnd - Start) /\ UNCHANGED outcome
     \/ View(CommentEnd) \notin {"\n", "NUL"} /\ outcome' = "exit" /\ UNCHANGED <<at, column>>
  /\ UNCHANGED <<text, line, tokens>>

Number ==
  /\ Lexing /\ ~AtComment /\ tryLexDecLiteral > 0
  /\ Emit("INTEGER_LITERAL", tryLexDecLiteral, tryLexDecLiteral)

String ==
  /\ Lexing /\ tryLexString > 0
  /\ Emit("STRING_LITERAL", tryLexString, tryLexString)

Identifier ==
  /\ Lexing /\ tryLexIdentifier > 0
  /\ LET n == tryLexIdentifier
         id == SubSeq(text, Start, Start + n - 1)
     IN Emit(IF id \in Keyword THEN "Keyword" ELSE "Identifier", n, n)

Punctuate ==
  /\ Lexing /\ ~AtComment /\ tryLexIdentifier = 0 /\ Matching # {}
  /\ LET p == Punctuation[Min(Matching)] IN Emit(p.kind, Len(p.units), p.removed)

NewLineInColumn ==
  /\ Lexing /\ View(Start) = "\n"
  /\ at' = Start + 1 /\ line' = line + 1 /\ column' = Column
  /\ UNCHANGED <<text, tokens, outcome>>
NewLine ==
  /\ Lexing /\ View(Start) = "\n"
  /\ at' = Start + 1 /\ line' = line + 1 /\ column' = 0
  /\ UNCHANGED <<text, tokens, outcome>>

\* Its location is the one behind it.
StaticLifetime ==
  /\ Lexing /\ View(Start) = "'static"
  /\ Advance(1)
  /\ tokens' = Append(tokens, Token("Keyword", 1, Column + Width("'static")))
  /\ UNCHANGED <<text, line, outcome>>

\* A number of more than four digits, a string with another character or
\* without an end, or a character that begins nothing.
UnknownToken ==
  /\ Lexing /\ ~AtComment /\ tryLexDecLiteral = 0 /\ tryLexString = 0 /\ tryLexIdentifier = 0
  /\ Matching = {} /\ View(Start) \notin {"\n", "'static"}
  /\ outcome' = "exit"
  /\ UNCHANGED <<text, at, line, column, tokens>>

End ==
  /\ outcome = "lexing" /\ Start > Len(text)
  /\ tokens' = Append(tokens, Token("Eof", 0, Column))
  /\ at' = Start /\ column' = Column
  /\ outcome' = "done"
  /\ UNCHANGED <<text, line>>

Init ==
  /\ text \in Texts
  /\ at = 1 /\ line = 1 /\ column = 0 /\ tokens = <<>> /\ outcome = "lexing"

\* Only here may nothing happen: a round that does nothing is a deadlock.
Stopped == outcome # "lexing" /\ UNCHANGED vars

Next == Comment \/ Number \/ String \/ Identifier \/ Punctuate \/ NewLine \/ StaticLifetime
          \/ UnknownToken \/ End \/ Stopped
Spec == Init /\ [][Next]_vars

-----------------------------------------------------------------------------
\* The token that was made last; every other one has been it.
Last == {Len(tokens)} \ {0}

\* The units between a token and the one before it.
Before(i) == IF i = 1 THEN [kind |-> "", line |-> 1, column |-> 0, from |-> 1, size |-> 0] ELSE tokens[i - 1]
Gap(i) == (Before(i).from + Before(i).size)..(tokens[i].from - 1)
NewLines(i) == {j \in Gap(i) : text[j] = "\n"}

\* Every unit is in one token, or in none when it is blank or part of a
\* comment: nothing is dropped, and nothing is read twice but the = of <=,
\* of which only one character is removed (Lexer.cpp:612).
TokensTile ==
  \A i \in Last :
    /\ \A j \in Gap(i) : text[j] \in Blank \cup {"\n"} \/ \E k \in Gap(i) : k <= j /\ text[k] = "/"
    /\ tokens[i].from < Before(i).from + Before(i).size => Before(i).kind = "Le"

\* The tokens are the longest the text has: an order of the tests in which a
\* shorter one comes first makes the longer one unreachable, which is what
\* happens to != and >=.
Hidden == {<<"!", "=">>, <<">", "=">>}
LongestToken ==
  \A i \in Last :
    LET t == tokens[i]
        next == View(t.from + t.size)
    IN /\ t.kind \in {"Identifier", "Keyword"} /\ text[t.from] \in Letter \cup {"_"}
            => next \notin Letter \cup Digit \cup {"_"}
       /\ t.kind = "INTEGER_LITERAL" => next \notin Digit
       /\ \A p \in DOMAIN Punctuation :
            (StartsWith(t.from, Punctuation[p].units) /\ Punctuation[p].units \notin Hidden
               /\ t.kind \notin {"Identifier", "Eof"}) => Len(Punctuation[p].units) <= t.size

\* Lines and columns are those of the text, counted from the token before,
\* where no comment is between the two and 'static is neither.
LocationsExact ==
  \A i \in Last :
    LET s == Before(i)
        t == tokens[i]
    IN ((\A j \in Gap(i) : text[j] # "/") /\ ~(i > 1 /\ text[s.from] = "'static")
          /\ View(t.from) # "'static") =>
         /\ t.line = s.line + Cardinality(NewLines(i))
         /\ t.column = IF NewLines(i) = {} THEN s.column + WidthOf(s.from, t.from - 1)
                       ELSE WidthOf(Max(NewLines(i)) + 1, t.from - 1)

\* Each round of the loop takes something away, so that the lexer ends, with a
\* stream or by leaving the compiler.
RoundsEat == [][at' > at \/ outcome' # "lexing"]_vars
=============================================================================
