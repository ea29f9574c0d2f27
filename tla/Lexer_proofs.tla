---------------------------- MODULE Lexer_proofs ----------------------------
(***************************************************************************)
(* Proofs about the lexer, for texts of any length and of any units: each  *)
(* step advances, what it removes from the text is in the tokens or        *)
(* skipped, tokens are the longest there are but for those that are named, *)
(* and locations are exact until a comment has been passed.                *)
(***************************************************************************)
EXTENDS Lexer, FiniteSetTheorems, SequenceTheorems, WellFoundedInduction, TLAPS

TokenKind ==
  {"INTEGER_LITERAL", "STRING_LITERAL", "Identifier", "Keyword", "Eof"}
    \cup {Punctuation[i].kind : i \in DOMAIN Punctuation}
TokenType == [kind : TokenKind, line : Nat, column : Nat, from : Nat, size : Nat]

TypeOK ==
  /\ text \in Seq(STRING)
  /\ at \in 1..(Len(text) + 1)
  /\ line \in Nat /\ column \in Nat
  /\ tokens \in Seq(TokenType)
  /\ outcome \in {"lexing", "done", "exit"}

\* The unit behind the token that was made last.
Ended == Before(Len(tokens) + 1).from + Before(Len(tokens) + 1).size

\* A unit that is in no token may be there: the units from `from` on are skipped.
Skippable(j, from) ==
  \/ text[j] \in Blank \cup {"\n"}
  \/ \E k \in from..j : text[k] = "/"

\* The last token ends where the lexer is or before it, but for a <= whose =
\* is still to be read; what is between them has been skipped.
Tiled ==
  /\ \/ Ended <= at
     \/ /\ Before(Len(tokens) + 1).kind = "Le" /\ Ended = at + 1
        /\ at <= Len(text) /\ text[at] = "="
  /\ \A j \in Ended..(at - 1) : Skippable(j, Ended)

IInv == TypeOK /\ TokensTile /\ Tiled

-----------------------------------------------------------------------------
(* Minima, and the end of a run of units *)

LEMMA MinIsLeast ==
  ASSUME NEW S \in SUBSET Nat, S # {}
  PROVE  Min(S) \in S /\ \A y \in S : Min(S) <= y
<1>1. IsWellFoundedOn(OpToRel(<, Nat), Nat)
  BY NatLessThanWellFounded
<1>2. PICK x \in S : \A y \in S : ~(<<y, x>> \in OpToRel(<, Nat))
  BY <1>1, WFMin
<1>3. \A y \in S : x <= y
  <2> SUFFICES ASSUME NEW y \in S PROVE x <= y
    OBVIOUS
  <2>1. ~(y < x)
    BY <1>2 DEF OpToRel
  <2> QED BY <2>1
<1> QED BY <1>3 DEF Min

LEMMA BehindEnds ==
  ASSUME text \in Seq(STRING), NEW i \in 1..(Len(text) + 1), NEW units
  PROVE  /\ Behind(i, units) \in i..(Len(text) + 1)
         /\ \A j \in i..(Behind(i, units) - 1) : text[j] \in units
         /\ Behind(i, units) <= Len(text) => text[Behind(i, units)] \notin units
<1> DEFINE S == {j \in i..Len(text) : text[j] \notin units} \cup {Len(text) + 1}
<1>1. Len(text) \in Nat
  BY LenProperties
<1>2. S \in SUBSET Nat /\ S # {}
  BY <1>1
<1>3. Min(S) \in S /\ \A y \in S : Min(S) <= y
  BY <1>2, MinIsLeast
<1>4. Behind(i, units) = Min(S)
  BY DEF Behind
<1> HIDE DEF S
<1>5. Min(S) \in i..(Len(text) + 1) /\ (Min(S) <= Len(text) => text[Min(S)] \notin units)
  BY <1>1, <1>3 DEF S
<1>6. ASSUME NEW j \in i..(Min(S) - 1) PROVE text[j] \in units
  <2>1. j \notin S
    BY <1>3, <1>5
  <2> QED BY <1>1, <1>5, <2>1 DEF S
<1> QED BY <1>4, <1>5, <1>6

LEMMA StartIsBehindBlanks ==
  ASSUME TypeOK
  PROVE  /\ Start \in at..(Len(text) + 1) /\ Start \in Nat /\ Len(text) \in Nat
         /\ \A j \in at..(Start - 1) : text[j] \in Blank
         /\ Start <= Len(text) => text[Start] \notin Blank
         /\ Column \in Nat
<1>1. Len(text) \in Nat
  BY LenProperties DEF TypeOK
<1> QED BY <1>1, BehindEnds DEF TypeOK, Start, Column

LEMMA LastTokenType ==
  ASSUME TypeOK
  PROVE  /\ Before(Len(tokens) + 1).from \in Nat /\ Before(Len(tokens) + 1).size \in Nat
         /\ Ended \in Nat
<1>1. Len(tokens) \in Nat
  BY LenProperties DEF TypeOK
<1>2. PICK m \in Nat : m = Len(tokens) + 1
  BY <1>1
<1>3. CASE m = 1
  BY <1>2, <1>3 DEF Before, Ended
<1>4. CASE m # 1
  <2>1. m - 1 \in 1..Len(tokens)
    BY <1>1, <1>2, <1>4
  <2>2. tokens[m - 1] \in TokenType
    BY <2>1, ElementOfSeq DEF TypeOK
  <2>3. Before(m) = tokens[m - 1]
    BY <1>4, Zenon DEF Before
  <2>4. Before(m) \in TokenType
    BY <2>2, <2>3, Zenon
  <2>5. Before(m).from \in Nat /\ Before(m).size \in Nat
    BY <2>4 DEF TokenType
  <2> QED BY <1>2, <2>5 DEF Ended
<1> QED BY <1>3, <1>4

-----------------------------------------------------------------------------
(* Steps that make a token, and steps that skip units *)

\* Every step that makes a token does this.
LEMMA Appending ==
  ASSUME IInv, outcome = "lexing", NEW t \in TokenType, NEW n \in Nat,
         Start + n <= Len(text) + 1,
         t.from = Start,
         \/ t.size = n
         \/ t.kind = "Le" /\ n = 1 /\ t.size = 2 /\ Start < Len(text) /\ text[Start + 1] = "=",
         tokens' = Append(tokens, t), at' = Start + n, column' \in Nat,
         text' = text, line' = line, outcome' \in {"lexing", "done", "exit"}
  PROVE  IInv'
<1>0. TypeOK
  BY DEF IInv
<1>1. Len(text) \in Nat /\ Start \in at..(Len(text) + 1) /\ Start \in Nat /\ Len(tokens) \in Nat
  BY <1>0, StartIsBehindBlanks, LenProperties DEF TypeOK
<1>m. PICK m \in Nat : m = Len(tokens) + 1
  BY <1>1
<1>e. Ended = Before(m).from + Before(m).size
  BY <1>m DEF Ended
<1>2. /\ tokens' \in Seq(TokenType) /\ Len(tokens') = m /\ tokens'[m] = t
      /\ \A i \in 1..Len(tokens) : tokens'[i] = tokens[i]
  <2>1. tokens \in Seq(TokenType)
    BY <1>0 DEF TypeOK
  <2>2. /\ Append(tokens, t) \in Seq(TokenType) /\ Len(Append(tokens, t)) = Len(tokens) + 1
        /\ \A i \in 1..Len(tokens) : Append(tokens, t)[i] = tokens[i]
        /\ Append(tokens, t)[Len(tokens) + 1] = t
    BY <2>1, AppendProperties
  <2> QED BY <1>m, <2>2
<1>3. TypeOK'
  BY <1>0, <1>1, <1>2 DEF TypeOK
<1>4. Before(m)' = Before(m)
  <2>1. CASE m = 1
    BY <2>1 DEF Before
  <2>2. CASE m # 1
    <3>1. m - 1 \in 1..Len(tokens)
      BY <1>1, <1>m, <2>2
    <3>2. tokens'[m - 1] = tokens[m - 1]
      BY <1>2, <3>1
    <3> QED BY <2>2, <3>2, Zenon DEF Before
  <2> QED BY <2>1, <2>2
<1>5. Before(m + 1)' = t
  <2>1. m + 1 # 1 /\ (m + 1) - 1 = m
    BY <1>1, <1>m
  <2>2. Before(m + 1)' = tokens'[(m + 1) - 1]
    BY <2>1, Zenon DEF Before
  <2> QED BY <1>2, <2>1, <2>2, Zenon
<1>6. Before(m).from \in Nat /\ Before(m).size \in Nat /\ Ended \in Nat
  BY <1>0, <1>m, LastTokenType
<1>7. TokensTile'
  <2>1. Last' = {m}
    BY <1>m, <1>1, <1>2 DEF Last
  <2>2. Gap(m)' = Ended..(Start - 1)
    BY <1>m, <1>e, <1>1, <1>2, <1>4 DEF Gap, Ended
  <2>3. ASSUME NEW j \in Ended..(Start - 1)
        PROVE text[j] \in Blank \cup {"\n"} \/ \E k \in Ended..(Start - 1) : k <= j /\ text[k] = "/"
    <3>1. CASE j >= at
      BY <1>m, <1>e, <1>0, <1>1, <1>6, <2>3, <3>1, StartIsBehindBlanks
    <3>2. CASE j < at
      <4>1. j \in Ended..(at - 1)
        BY <1>0, <1>6, <2>3, <3>2 DEF TypeOK
      <4>2. Skippable(j, Ended)
        BY <4>1 DEF IInv, Tiled
      <4> QED BY <1>m, <1>1, <1>6, <2>3, <4>1, <4>2 DEF Skippable
    <3> QED BY <1>m, <1>e, <1>0, <1>1, <1>6, <2>3, <3>1, <3>2 DEF TypeOK
  <2>4. Start < Ended => Before(m).kind = "Le"
    BY <1>m, <1>e, <1>0, <1>1, <1>6 DEF IInv, Tiled, TypeOK
  <2> QED BY <1>m, <1>e, <1>1, <1>2, <1>4, <2>1, <2>2, <2>3, <2>4 DEF TokensTile, Ended
<1>8. Tiled'
  <2>1. Ended' = Start + t.size
    BY <1>m, <1>e, <1>1, <1>2, <1>5 DEF Ended
  <2>2. Before(Len(tokens) + 1)' = t
    BY <1>m, <1>e, <1>1, <1>2, <1>5
  <2>3. CASE t.size = n
    BY <1>m, <1>1, <2>1, <2>3 DEF Tiled
  <2>4. CASE t.kind = "Le" /\ n = 1 /\ t.size = 2 /\ Start < Len(text) /\ text[Start + 1] = "="
    BY <1>m, <1>1, <2>1, <2>2, <2>4 DEF Tiled
  <2> QED BY <2>3, <2>4
<1> QED BY <1>3, <1>7, <1>8 DEF IInv

\* Every step that makes none does this: it removes blanks, and what follows them
\* is a new line or a comment.
LEMMA Skipping ==
  ASSUME IInv, NEW n \in Nat, Start + n <= Len(text) + 1,
         \A j \in Start..(Start + n - 1) : text[j] = "\n" \/ text[Start] = "/",
         Start <= Len(text), text[Start] # "=",
         tokens' = tokens, at' = Start + n, column' \in Nat,
         text' = text, line' \in Nat, outcome' = outcome
  PROVE  IInv'
<1>0. TypeOK
  BY DEF IInv
<1>1. Len(text) \in Nat /\ Start \in at..(Len(text) + 1) /\ Start \in Nat
  BY <1>0, StartIsBehindBlanks
<1>2. TypeOK'
  BY <1>0, <1>1 DEF TypeOK
<1>3. TokensTile'
  BY DEF IInv, TokensTile, Last, Gap, Before
<1>4. Ended' = Ended /\ Before(Len(tokens) + 1)' = Before(Len(tokens) + 1)
  BY DEF Ended, Before
<1>5. Ended \in Nat
  BY <1>0, LastTokenType
<1>6. Ended <= Start
  <2>1. CASE Ended <= at
    BY <1>0, <1>1, <1>5, <2>1 DEF TypeOK
  <2>2. CASE Ended = at + 1 /\ text[at] = "="
    <3>1. Start # at
      BY <2>2
    <3> QED BY <1>0, <1>1, <2>2, <3>1 DEF TypeOK
  <2> QED BY <2>1, <2>2 DEF IInv, Tiled
<1>7. ASSUME NEW j \in Ended..(Start + n - 1) PROVE Skippable(j, Ended)
  <2>1. CASE j < at
    BY <1>0, <1>5, <1>7, <2>1 DEF IInv, Tiled, TypeOK
  <2>2. CASE j >= at /\ j < Start
    <3>1. j \in at..(Start - 1)
      BY <1>0, <1>1, <1>5, <1>7, <2>2 DEF TypeOK
    <3> QED BY <1>0, <3>1, StartIsBehindBlanks DEF Skippable
  <2>3. CASE j >= Start
    <3>1. j \in Start..(Start + n - 1) /\ Start \in Ended..j
      BY <1>1, <1>5, <1>6, <1>7, <2>3
    <3> QED BY <3>1 DEF Skippable
  <2> QED BY <1>0, <1>1, <1>5, <1>7, <2>1, <2>2, <2>3 DEF TypeOK
<1>8. Tiled'
  <2>1. ASSUME NEW j \in Ended..(Start + n - 1) 
        PROVE  text'[j] \in Blank \cup {"\n"} \/ \E k \in Ended'..j : text'[k] = "/"
    BY <1>4, <1>7 DEF Skippable
  <2>2. Ended <= Start + n
    BY <1>1, <1>5, <1>6
  <2> QED BY <1>1, <1>4, <1>5, <2>1, <2>2 DEF Tiled, Skippable
<1> QED BY <1>2, <1>3, <1>8 DEF IInv

-----------------------------------------------------------------------------
(* The lengths of tokens *)

LEMMA WidthOfType ==
  ASSUME NEW from \in Nat, NEW n \in Nat
  PROVE  WidthOf(from, from + n - 1) \in Nat
<1>1. ASSUME NEW unit PROVE Wide(unit, from, from + n - 1) \in Nat
  <2> DEFINE S == {i \in from..(from + n - 1) : text[i] = unit}
  <2>1. IsFiniteSet(from..(from + n - 1))
    BY FS_Interval
  <2>2. Cardinality(S) \in Nat
    BY <2>1, FS_Subset, FS_CardinalityType
  <2>3. Width(unit) - 1 \in Nat
    BY DEF Width
  <2> HIDE DEF S
  <2>4. Cardinality(S) * (Width(unit) - 1) \in Nat
    BY <2>2, <2>3
  <2> QED BY <2>4 DEF Wide, S
<1>2. (from + n - 1) + 1 - from = n
  OBVIOUS
<1> QED BY <1>1, <1>2 DEF WidthOf

\* No punctuation is empty, and all of it is removed but the = of <=.
Removable(p) ==
  /\ Len(p.units) \in 1..3 /\ p.units[1] # "NUL" /\ p.units[Len(p.units)] # "NUL"
  /\ \/ p.removed = Len(p.units)
     \/ p.kind = "Le" /\ p.removed = 1 /\ Len(p.units) = 2 /\ p.units[2] = "="

LEMMA OneRemovable == \A a, kind : a # "NUL" => Removable(P(<<a>>, kind))
BY DEF Removable, P
LEMMA TwoRemovable == \A a, b, kind : a # "NUL" /\ b # "NUL" => Removable(P(<<a, b>>, kind))
BY DEF Removable, P
LEMMA ThreeRemovable == \A a, b, c, kind : a # "NUL" /\ c # "NUL" => Removable(P(<<a, b, c>>, kind))
BY DEF Removable, P

LEMMA PunctuationIsRemoved ==
  \A i \in DOMAIN Punctuation : Removable(Punctuation[i])
<1>1. Len(Operators) = 21 /\ Len(LessOrEqual) = 1 /\ Len(Delimiters) = 21
  BY DEF Operators, LessOrEqual, Delimiters
<1>2. /\ Removable(Operators[1]) /\ Removable(Operators[2]) /\ Removable(Operators[3])
      /\ Removable(Operators[4]) /\ Removable(Operators[5]) /\ Removable(Operators[6])
      /\ Removable(Operators[7]) /\ Removable(Operators[8]) /\ Removable(Operators[9])
      /\ Removable(Operators[10]) /\ Removable(Operators[11]) /\ Removable(Operators[12])
      /\ Removable(Operators[13]) /\ Removable(Operators[14]) /\ Removable(Operators[15])
      /\ Removable(Operators[16]) /\ Removable(Operators[17]) /\ Removable(Operators[18])
      /\ Removable(Operators[19]) /\ Removable(Operators[20]) /\ Removable(Operators[21])
  BY OneRemovable, TwoRemovable, ThreeRemovable DEF Operators
<1>3. Removable(LessOrEqual[1])
  BY DEF LessOrEqual, Removable
<1>4. /\ Removable(Delimiters[1]) /\ Removable(Delimiters[2]) /\ Removable(Delimiters[3])
      /\ Removable(Delimiters[4]) /\ Removable(Delimiters[5]) /\ Removable(Delimiters[6])
      /\ Removable(Delimiters[7]) /\ Removable(Delimiters[8]) /\ Removable(Delimiters[9])
      /\ Removable(Delimiters[10]) /\ Removable(Delimiters[11]) /\ Removable(Delimiters[12])
      /\ Removable(Delimiters[13]) /\ Removable(Delimiters[14]) /\ Removable(Delimiters[15])
      /\ Removable(Delimiters[16]) /\ Removable(Delimiters[17]) /\ Removable(Delimiters[18])
      /\ Removable(Delimiters[19]) /\ Removable(Delimiters[20]) /\ Removable(Delimiters[21])
  BY OneRemovable, TwoRemovable, ThreeRemovable DEF Delimiters
<1> DEFINE All == {Operators[i] : i \in 1..21} \cup {LessOrEqual[1]} \cup {Delimiters[i] : i \in 1..21}
<1>5. Operators \in Seq(All) /\ LessOrEqual \in Seq(All) /\ Delimiters \in Seq(All)
  <2>1. \A i \in 1..21 : Operators[i] \in All /\ Delimiters[i] \in All
    OBVIOUS
  <2>2. LessOrEqual[1] \in All
    OBVIOUS
  <2> HIDE DEF All
  <2>3. Operators = [i \in 1..21 |-> Operators[i]]
    BY DEF Operators
  <2>4. Delimiters = [i \in 1..21 |-> Delimiters[i]]
    BY DEF Delimiters
  <2>5. LessOrEqual \in Seq(All)
    BY <2>2 DEF LessOrEqual
  <2> QED BY <2>1, <2>3, <2>4, <2>5, SeqDef
<1> HIDE DEF All
<1>6. Punctuation \in Seq(All)
  BY <1>5, ConcatProperties DEF Punctuation
<1>7. \A p \in All : Removable(p)
  <2>1. \A i \in 1..21 : Removable(Operators[i])
    BY <1>2
  <2>2. \A i \in 1..21 : Removable(Delimiters[i])
    BY <1>4
  <2> QED BY <2>1, <2>2, <1>3 DEF All
<1> QED BY <1>6, <1>7, ElementOfSeq

\* What the helpers of lex find lies within the text.
Fits(n) == n \in Nat /\ Start + n <= Len(text) + 1

LEMMA LengthsFit ==
  ASSUME TypeOK, Lexing
  PROVE  Fits(tryLexDecLiteral) /\ Fits(tryLexString) /\ Fits(tryLexIdentifier)
<1>1. Len(text) \in Nat /\ Start \in 1..Len(text) /\ text \in Seq(STRING)
  BY StartIsBehindBlanks DEF Lexing, TypeOK
<1>2. \A units : Behind(Start, units) \in Start..(Len(text) + 1)
  BY <1>1, BehindEnds
<1>3. \A units : Fits(Behind(Start, units) - Start)
  BY <1>1, <1>2 DEF Fits
<1>4. Fits(0)
  BY <1>1 DEF Fits
<1>5. Fits(tryLexDecLiteral) /\ Fits(tryLexIdentifier)
  BY <1>3, <1>4, Zenon DEF tryLexDecLiteral, tryLexIdentifier
<1>6. Fits(tryLexString)
  <2>1. PICK end : end = Behind(Start + 1, InString)
    OBVIOUS
  <2>2. end \in (Start + 1)..(Len(text) + 1)
    BY <1>1, <2>1, BehindEnds
  <2>3. CASE View(end) = "\""
    <3>1. end \in DOMAIN text
      BY <2>3 DEF View
    <3>2. end <= Len(text)
      BY <1>1, <3>1, LenProperties
    <3>3. Fits(end + 1 - Start)
      BY <1>1, <2>2, <3>2 DEF Fits
    <3> QED BY <1>4, <2>1, <3>3, Zenon DEF tryLexString
  <2>4. CASE View(end) # "\""
    BY <1>4, <2>1, <2>4, Zenon DEF tryLexString
  <2> QED BY <2>3, <2>4
<1> QED BY <1>5, <1>6

\* A punctuation that the text starts with lies within it.
LEMMA MatchingFits ==
  ASSUME TypeOK, Lexing, NEW i \in Matching
  PROVE  /\ i \in DOMAIN Punctuation /\ Removable(Punctuation[i])
         /\ Fits(Len(Punctuation[i].units))
         /\ Len(Punctuation[i].units) = 2 =>
              Start < Len(text) /\ text[Start + 1] = Punctuation[i].units[2]
<1> DEFINE n == Len(Punctuation[i].units)
<1>1. Len(text) \in Nat /\ Start \in 1..Len(text) /\ text \in Seq(STRING) /\ DOMAIN text = 1..Len(text)
  BY StartIsBehindBlanks, LenProperties DEF Lexing, TypeOK
<1>2. i \in DOMAIN Punctuation /\ StartsWith(Start, Punctuation[i].units)
  BY DEF Matching
<1>3. Removable(Punctuation[i])
  BY <1>2, PunctuationIsRemoved
<1>4. n \in 1..3 /\ Punctuation[i].units[n] # "NUL"
  BY <1>3 DEF Removable
<1> HIDE DEF n
<1>5. View(Start + n - 1) = Punctuation[i].units[n]
  <2>1. CASE n = 1
    BY <1>1, <1>2, <2>1 DEF StartsWith
  <2>2. CASE n # 1
    <3>1. n \in 2..n
      BY <1>4, <2>2
    <3> QED BY <1>2, <3>1 DEF StartsWith, n
  <2> QED BY <2>1, <2>2
<1>6. Start + n - 1 \in DOMAIN text
  BY <1>4, <1>5 DEF View
<1>7. Fits(n)
  BY <1>1, <1>4, <1>6 DEF Fits
<1>8. n = 2 => Start < Len(text) /\ text[Start + 1] = Punctuation[i].units[2]
  <2> SUFFICES ASSUME n = 2 PROVE Start < Len(text) /\ text[Start + 1] = Punctuation[i].units[2]
    OBVIOUS
  <2>1. Start + 1 \in DOMAIN text /\ Start + n - 1 = Start + 1
    BY <1>1, <1>6
  <2>2. View(Start + 1) = Punctuation[i].units[2]
    BY <1>5, <2>1
  <2> QED BY <1>1, <2>1, <2>2 DEF View
<1> QED BY <1>2, <1>3, <1>7, <1>8 DEF n

-----------------------------------------------------------------------------
(* The steps *)

Progress == at' > at \/ outcome' # "lexing"

LEMMA Emits ==
  ASSUME IInv, Lexing, NEW kind \in TokenKind, NEW size \in Nat, NEW removed \in Nat \ {0},
         Emit(kind, size, removed), Fits(removed),
         \/ size = removed
         \/ kind = "Le" /\ removed = 1 /\ size = 2 /\ Start < Len(text) /\ text[Start + 1] = "="
  PROVE  IInv' /\ Progress
<1>1. TypeOK
  BY DEF IInv
<1>2. Start \in Nat /\ Start >= at /\ at \in Nat /\ line \in Nat /\ Column \in Nat
  BY <1>1, StartIsBehindBlanks DEF TypeOK
<1>3. PICK t : t = Token(kind, size, Column)
  OBVIOUS
<1>4. t \in TokenType /\ t.from = Start /\ t.size = size /\ t.kind = kind
  BY <1>2, <1>3 DEF Token, TokenType
<1>5. tokens' = Append(tokens, t) /\ at' = Start + removed /\ UNCHANGED <<text, line, outcome>>
  BY <1>3 DEF Emit, Advance
<1>6. column' \in Nat
  <2>1. WidthOf(Start, Start + removed - 1) \in Nat
    BY <1>2, WidthOfType, Zenon
  <2> QED BY <1>2, <2>1 DEF Emit, Advance
<1>7. IInv'
  BY <1>1, <1>4, <1>5, <1>6, Appending DEF Lexing, Fits, TypeOK
<1>8. at' > at
  BY <1>2, <1>5
<1> QED BY <1>7, <1>8 DEF Progress

LEMMA CommentStep ==
  ASSUME IInv, Comment
  PROVE  IInv' /\ Progress
<1>1. TypeOK /\ Lexing
  BY DEF IInv, Comment
<1>2. /\ Len(text) \in Nat /\ Start \in at..(Len(text) + 1) /\ Start \in Nat /\ Column \in Nat
      /\ at \in Nat /\ Start <= Len(text) /\ DOMAIN text = 1..Len(text)
  BY <1>1, StartIsBehindBlanks, LenProperties DEF Lexing, TypeOK
<1>3. View(Start) = "/"
  BY DEF Comment, AtComment, StartsWith
<1>4. text[Start] = "/"
  BY <1>2, <1>3 DEF View
<1>5. CommentEnd \in Start..(Len(text) + 1)
  BY <1>1, <1>2, BehindEnds DEF CommentEnd, TypeOK
<1>6. CommentEnd > Start
  <2>1. CommentEnd <= Len(text) => text[CommentEnd] \notin InComment
    BY <1>1, <1>2, BehindEnds DEF CommentEnd, TypeOK
  <2>2. "/" \in InComment
    BY DEF InComment
  <2> QED BY <1>2, <1>4, <1>5, <2>1, <2>2
<1>7. ASSUME NEW n \in Nat, Fits(n), n > 0, Advance(n), UNCHANGED <<outcome, text, line, tokens>>
      PROVE  IInv' /\ Progress
  <2>0. WidthOf(Start, Start + n - 1) \in Nat
    BY <1>2, WidthOfType, Zenon
  <2>1. column' \in Nat /\ at' = Start + n
    BY <1>2, <1>7, <2>0 DEF Advance
  <2>2. IInv'
    BY <1>1, <1>2, <1>4, <1>7, <2>1, Skipping DEF Fits, TypeOK
  <2> QED BY <1>2, <1>7, <2>1, <2>2 DEF Progress
<1>8. CASE View(CommentEnd) = "\n" /\ Advance(CommentEnd + 1 - Start) /\ UNCHANGED outcome
  <2>1. CommentEnd \in DOMAIN text
    BY <1>8 DEF View
  <2>2. CommentEnd + 1 - Start \in Nat /\ CommentEnd + 1 - Start > 0 /\ Fits(CommentEnd + 1 - Start)
    BY <1>2, <1>5, <2>1 DEF Fits
  <2> QED BY <1>7, <1>8, <2>2 DEF Comment
<1>9. CASE CommentEnd > Len(text) /\ Advance(CommentEnd - Start) /\ UNCHANGED outcome
  <2>1. CommentEnd - Start \in Nat /\ CommentEnd - Start > 0 /\ Fits(CommentEnd - Start)
    BY <1>2, <1>5, <1>6 DEF Fits
  <2> QED BY <1>7, <1>9, <2>1 DEF Comment
<1>10. CASE outcome' = "exit" /\ UNCHANGED <<at, column>>
  BY <1>10 DEF Comment, Progress, IInv, TypeOK, TokensTile, Last, Gap, Before, Tiled, Ended, Skippable
<1> QED BY <1>8, <1>9, <1>10 DEF Comment

LEMMA TokenSteps ==
  ASSUME IInv, Number \/ String \/ Identifier
  PROVE  IInv' /\ Progress
<1>1. TypeOK /\ Lexing
  BY DEF IInv, Number, String, Identifier
<1>2. Fits(tryLexDecLiteral) /\ Fits(tryLexString) /\ Fits(tryLexIdentifier)
  BY <1>1, LengthsFit
<1>3. {"INTEGER_LITERAL", "STRING_LITERAL", "Identifier", "Keyword"} \subseteq TokenKind
  BY DEF TokenKind
<1>4. CASE Number
  BY <1>1, <1>2, <1>3, <1>4, Emits DEF Number, Fits
<1>5. CASE String
  BY <1>1, <1>2, <1>3, <1>5, Emits DEF String, Fits
<1>6. CASE Identifier
  <2>1. PICK kind \in {"Identifier", "Keyword"} : Emit(kind, tryLexIdentifier, tryLexIdentifier)
    BY <1>6 DEF Identifier
  <2> QED BY <1>1, <1>2, <1>3, <1>6, <2>1, Emits DEF Identifier, Fits
<1> QED BY <1>4, <1>5, <1>6

LEMMA PunctuateStep ==
  ASSUME IInv, Punctuate
  PROVE  IInv' /\ Progress
<1>1. TypeOK /\ Lexing /\ Matching # {}
  BY DEF IInv, Punctuate
<1>2. DOMAIN Punctuation \subseteq Nat
  BY DEF Punctuation
<1>3. PICK i : i = Min(Matching)
  OBVIOUS
<1>4. i \in Matching
  <2>1. Matching \in SUBSET Nat
    BY <1>2 DEF Matching
  <2> QED BY <1>1, <1>3, <2>1, MinIsLeast
<1>5. PICK p : p = Punctuation[i]
  OBVIOUS
<1>6. /\ Removable(p) /\ Fits(Len(p.units)) /\ p.kind \in TokenKind
      /\ Len(p.units) = 2 => Start < Len(text) /\ text[Start + 1] = p.units[2]
  BY <1>1, <1>4, <1>5, MatchingFits DEF TokenKind
<1>7. Emit(p.kind, Len(p.units), p.removed)
  BY <1>3, <1>5 DEF Punctuate
<1>8. Len(p.units) \in Nat /\ p.removed \in Nat \ {0} /\ Fits(p.removed)
  BY <1>1, <1>6, StartIsBehindBlanks DEF Removable, Fits
<1> QED BY <1>1, <1>6, <1>7, <1>8, Emits DEF Removable

LEMMA NewLineStep ==
  ASSUME IInv, NewLine
  PROVE  IInv' /\ Progress
<1>1. TypeOK /\ Lexing
  BY DEF IInv, NewLine
<1>2. /\ Len(text) \in Nat /\ Start \in Nat /\ Start >= at /\ at \in Nat /\ line \in Nat
      /\ Start <= Len(text)
  BY <1>1, StartIsBehindBlanks DEF Lexing, TypeOK
<1>3. text[Start] = "\n"
  BY DEF NewLine, View
<1>4. /\ at' = Start + 1 /\ line' \in Nat /\ column' \in Nat
      /\ UNCHANGED <<text, tokens, outcome>>
  BY <1>2 DEF NewLine
<1>5. IInv'
  BY <1>2, <1>3, <1>4, Skipping
<1> QED BY <1>2, <1>4, <1>5 DEF Progress

LEMMA StaticLifetimeStep ==
  ASSUME IInv, StaticLifetime
  PROVE  IInv' /\ Progress
<1>1. TypeOK /\ Lexing
  BY DEF IInv, StaticLifetime
<1>2. /\ Len(text) \in Nat /\ Start \in Nat /\ Start >= at /\ at \in Nat /\ line \in Nat
      /\ Start <= Len(text) /\ Column \in Nat
  BY <1>1, StartIsBehindBlanks DEF Lexing, TypeOK
<1>3. Column + Width("'static") \in Nat
  BY <1>2 DEF Width
<1>4. PICK t : t = Token("Keyword", 1, Column + Width("'static"))
  OBVIOUS
<1>5. t \in TokenType /\ t.from = Start /\ t.size = 1
  BY <1>2, <1>3, <1>4 DEF Token, TokenType, TokenKind
<1>6. WidthOf(Start, Start + 1 - 1) \in Nat
  BY <1>2, WidthOfType, Zenon
<1>7. /\ at' = Start + 1 /\ column' \in Nat /\ tokens' = Append(tokens, t)
      /\ UNCHANGED <<text, line, outcome>>
  BY <1>2, <1>4, <1>6 DEF StaticLifetime, Advance
<1>8. IInv'
  BY <1>1, <1>2, <1>5, <1>7, Appending DEF Lexing
<1> QED BY <1>2, <1>7, <1>8 DEF Progress

LEMMA EndStep ==
  ASSUME IInv, End
  PROVE  IInv' /\ Progress
<1>1. TypeOK
  BY DEF IInv
<1>2. /\ Len(text) \in Nat /\ Start \in Nat /\ at \in Nat /\ line \in Nat
      /\ Start <= Len(text) + 1 /\ Column \in Nat
  BY <1>1, StartIsBehindBlanks DEF TypeOK
<1>3. PICK t : t = Token("Eof", 0, Column)
  OBVIOUS
<1>4. t \in TokenType /\ t.from = Start /\ t.size = 0
  BY <1>2, <1>3 DEF Token, TokenType, TokenKind
<1>5. /\ outcome = "lexing" /\ at' = Start + 0 /\ column' \in Nat /\ tokens' = Append(tokens, t)
      /\ UNCHANGED <<text, line>> /\ outcome' = "done"
  BY <1>2, <1>3 DEF End
<1>6. IInv'
  BY <1>2, <1>4, <1>5, Appending
<1> QED BY <1>5, <1>6 DEF Progress

\* Nothing is moved when the compiler ends, or when it has ended.
LEMMA Unmoved ==
  ASSUME IInv, UNCHANGED <<text, at, line, column, tokens>>, outcome' \in {outcome, "exit"}
  PROVE  IInv'
BY DEF IInv, TypeOK, TokensTile, Last, Gap, Before, Tiled, Ended, Skippable

LEMMA InitIInv == Init => IInv
<1> SUFFICES ASSUME Init PROVE IInv
  OBVIOUS
<1>1. text \in Seq(STRING) /\ Len(text) \in Nat
  BY TextsAssumption, LenProperties DEF Init
<1>2. tokens = <<>> /\ Len(tokens) = 0 /\ at = 1
  BY DEF Init
<1>3. TypeOK
  BY <1>1, <1>2 DEF Init, TypeOK
<1>4. TokensTile
  BY <1>2 DEF TokensTile, Last
<1>5. Before(1).from = 1 /\ Before(1).size = 0
  BY DEF Before
<1>6. Ended = 1
  BY <1>2, <1>5 DEF Ended
<1> QED BY <1>2, <1>3, <1>4, <1>6 DEF IInv, Tiled

LEMMA NextIInv == IInv /\ [Next]_vars => IInv' /\ (Next => Progress \/ UNCHANGED vars)
<1> SUFFICES ASSUME IInv, [Next]_vars PROVE IInv' /\ (Next => Progress \/ UNCHANGED vars)
  OBVIOUS
<1>1. CASE Comment
  BY <1>1, CommentStep
<1>2. CASE Number \/ String \/ Identifier
  BY <1>2, TokenSteps
<1>3. CASE Punctuate
  BY <1>3, PunctuateStep
<1>4. CASE NewLine
  BY <1>4, NewLineStep
<1>5. CASE StaticLifetime
  BY <1>5, StaticLifetimeStep
<1>6. CASE UnknownToken
  BY <1>6, Unmoved DEF UnknownToken, Progress
<1>7. CASE End
  BY <1>7, EndStep
<1>8. CASE Stopped \/ UNCHANGED vars
  BY <1>8, Unmoved DEF Stopped, vars
<1> QED BY <1>1, <1>2, <1>3, <1>4, <1>5, <1>6, <1>7, <1>8 DEF Next

LEMMA Invariance == Spec => []IInv
<1>1. IInv /\ [Next]_vars => IInv'
  BY NextIInv
<1> QED BY <1>1, InitIInv, PTL DEF Spec

\* Whatever the text, the lexer stays inside it and makes tokens of its units.
THEOREM TypeCorrect == Spec => []TypeOK
<1>1. IInv => TypeOK
  BY DEF IInv
<1> QED BY <1>1, Invariance, PTL

\* Whatever the text, each unit between two tokens was skipped as a blank, a new
\* line or part of a comment, and no token begins inside the one before it,
\* unless that is a <=, of which lex removes one character only.
THEOREM NothingLost == Spec => []TokensTile
<1>1. IInv => TokensTile
  BY DEF IInv
<1> QED BY <1>1, Invariance, PTL

\* Whatever the text, each round of the loop of lex removes a unit of it or ends
\* the lexer, so that there are at most as many rounds as units and one more.
THEOREM AlwaysEats == Spec => RoundsEat
<1>1. IInv /\ [Next]_vars => [Progress]_vars
  BY NextIInv
<1>2. [Progress]_vars <=> [at' > at \/ outcome' # "lexing"]_vars
  BY DEF Progress
<1> QED BY <1>1, <1>2, Invariance, PTL DEF Spec, RoundsEat

-----------------------------------------------------------------------------
(* The order of the tests: LongestToken *)

LEMMA JoinedAt ==
  ASSUME NEW S, NEW a \in Seq(S), NEW b \in Seq(S)
  PROVE  /\ a \o b \in Seq(S) /\ Len(a \o b) = Len(a) + Len(b)
         /\ \A i \in 1..Len(a) : (a \o b)[i] = a[i]
         /\ \A i \in 1..Len(b) : (a \o b)[Len(a) + i] = b[i]
<1>1. /\ a \o b \in Seq(S) /\ Len(a \o b) = Len(a) + Len(b)
      /\ \A i \in 1..(Len(a) + Len(b)) : (a \o b)[i] = IF i <= Len(a) THEN a[i] ELSE b[i - Len(a)]
  BY ConcatProperties
<1>2. PICK m \in Nat : m = Len(a)
  BY LenProperties
<1>3. PICK n \in Nat : n = Len(b)
  BY LenProperties
<1>4. \A i \in 1..m : i \in 1..(m + n) /\ i <= m
  OBVIOUS
<1>5. \A i \in 1..n : m + i \in 1..(m + n) /\ ~(m + i <= m) /\ (m + i) - m = i
  OBVIOUS
<1> QED BY <1>1, <1>2, <1>3, <1>4, <1>5

LEMMA PunctuationIs ==
  /\ DOMAIN Punctuation = 1..43
  /\ \A i \in 1..21 : Punctuation[i] = Operators[i]
  /\ Punctuation[22] = LessOrEqual[1]
  /\ \A i \in 1..21 : Punctuation[22 + i] = Delimiters[i]
<1>1. Len(Operators) = 21 /\ Len(LessOrEqual) = 1 /\ Len(Delimiters) = 21
  BY DEF Operators, LessOrEqual, Delimiters
<1> DEFINE All == {Operators[i] : i \in 1..21} \cup {LessOrEqual[1]} \cup {Delimiters[i] : i \in 1..21}
<1>2. Operators \in Seq(All) /\ LessOrEqual \in Seq(All) /\ Delimiters \in Seq(All)
  <2>1. \A i \in 1..21 : Operators[i] \in All /\ Delimiters[i] \in All
    OBVIOUS
  <2>2. LessOrEqual[1] \in All
    OBVIOUS
  <2> HIDE DEF All
  <2>3. Operators = [i \in 1..21 |-> Operators[i]]
    BY DEF Operators
  <2>4. Delimiters = [i \in 1..21 |-> Delimiters[i]]
    BY DEF Delimiters
  <2>5. LessOrEqual \in Seq(All)
    BY <2>2 DEF LessOrEqual
  <2> QED BY <2>1, <2>3, <2>4, <2>5, SeqDef
<1> HIDE DEF All
<1>3. PICK a \in Seq(All) : a = Operators
  BY <1>2
<1>4. PICK b \in Seq(All) : b = LessOrEqual
  BY <1>2
<1>5. PICK c \in Seq(All) : c = Delimiters
  BY <1>2
<1>6. Len(a) = 21 /\ Len(b) = 1 /\ Len(c) = 21
  BY <1>1, <1>3, <1>4, <1>5
<1>7. /\ a \o b \in Seq(All) /\ Len(a \o b) = 21 + 1
      /\ \A i \in 1..21 : (a \o b)[i] = a[i]
      /\ \A i \in 1..1 : (a \o b)[21 + i] = b[i]
  <2>1. /\ a \o b \in Seq(All) /\ Len(a \o b) = Len(a) + Len(b)
        /\ \A i \in 1..Len(a) : (a \o b)[i] = a[i]
        /\ \A i \in 1..Len(b) : (a \o b)[Len(a) + i] = b[i]
    BY JoinedAt
  <2> QED BY <1>6, <2>1
<1>8. PICK front \in Seq(All) : front = a \o b
  BY <1>7
<1>9. Len(front) = 22
  BY <1>7, <1>8
<1>10. /\ front \o c \in Seq(All) /\ Len(front \o c) = 22 + 21
       /\ \A i \in 1..22 : (front \o c)[i] = front[i]
       /\ \A i \in 1..21 : (front \o c)[22 + i] = c[i]
  <2>1. /\ front \o c \in Seq(All) /\ Len(front \o c) = Len(front) + Len(c)
        /\ \A i \in 1..Len(front) : (front \o c)[i] = front[i]
        /\ \A i \in 1..Len(c) : (front \o c)[Len(front) + i] = c[i]
    BY JoinedAt
  <2> QED BY <1>6, <1>9, <2>1
<1>11. Punctuation = front \o c
  BY <1>3, <1>4, <1>5, <1>8, Zenon DEF Punctuation
<1>12. DOMAIN (front \o c) = 1..43
  <2>1. Len(front \o c) = 43
    BY <1>10
  <2>2. PICK t \in Seq(All) : t = front \o c
    BY <1>10
  <2>3. DOMAIN t = 1..Len(t)
    OBVIOUS
  <2> QED BY <2>1, <2>2, <2>3
<1>13. \A i \in 1..21 : (front \o c)[i] = a[i]
  <2>1. \A i \in 1..21 : i \in 1..22
    OBVIOUS
  <2> QED BY <1>7, <1>8, <1>10, <2>1
<1>14. (front \o c)[22] = b[1]
  <2>1. (a \o b)[22] = b[1]
    <3>1. PICK i \in 1..1 : i = 1
      OBVIOUS
    <3>2. (a \o b)[21 + i] = b[i]
      BY <1>7
    <3>3. 21 + i = 22
      BY <3>1
    <3> QED BY <3>1, <3>2, <3>3, Zenon
  <2>2. 22 \in 1..22
    OBVIOUS
  <2>3. (front \o c)[22] = front[22]
    BY <1>10, <2>2, Zenon
  <2> QED BY <1>8, <2>1, <2>3, Zenon
<1>15. \A i \in 1..21 : Punctuation[i] = Operators[i]
  BY <1>3, <1>11, <1>13, Zenon
<1>16. Punctuation[22] = LessOrEqual[1]
  BY <1>4, <1>11, <1>14, Zenon
<1>17. \A i \in 1..21 : Punctuation[22 + i] = Delimiters[i]
  BY <1>5, <1>10, <1>11, Zenon
<1> QED BY <1>11, <1>12, <1>15, <1>16, <1>17, Zenon

\* The last punctuation of several units that begins with this one, but for !=
\* and >=, and .. when it is repeated at the end.
LastLong(unit) ==
  CASE unit = "-" -> 4 [] unit = "+" -> 5 [] unit = "." -> 9 [] unit = "=" -> 16
    [] unit = ">" -> 19 [] unit = "<" -> 41 [] unit = ":" -> 23 [] unit = "&" -> 25
    [] OTHER -> 0

\* What another branch of the loop reads.
Otherwise == {"0", "a", "fn", "\"", "'static", "NUL"}

\* Those of one unit come behind them, those of two behind those of three. None
\* begins with what another branch of the loop reads.
Ordered(i, p) ==
  /\ Len(p.units) \in 1..3
  /\ Len(p.units) = 1 => i > LastLong(p.units[1])
  /\ Len(p.units) = 2 =>
       /\ p.units \in Hidden \/ p.units = <<".", ".">> \/ i <= LastLong(p.units[1])
       /\ i > 8 \/ p.units[1] # "."
  /\ Len(p.units) = 3 => i <= 8 /\ p.units[1] = "."
  /\ p.units[1] \notin Otherwise

LEMMA OneOrdered ==
  \A i, a, kind : i > LastLong(a) /\ a \notin Otherwise => Ordered(i, P(<<a>>, kind))
BY DEF Ordered, P
LEMMA TwoOrdered ==
  \A i, a, b, kind :
    (<<a, b>> \in Hidden \/ <<a, b>> = <<".", ".">> \/ i <= LastLong(a))
      /\ (i > 8 \/ a # ".") /\ a \notin Otherwise => Ordered(i, P(<<a, b>>, kind))
BY DEF Ordered, P
LEMMA ThreeOrdered == \A i, b, c, kind : i <= 8 => Ordered(i, P(<<".", b, c>>, kind))
BY DEF Ordered, P, Otherwise

LEMMA LastLongIs ==
  /\ LastLong("!") = 0 /\ LastLong("$crate") = 0 /\ LastLong("@") = 0 /\ LastLong("-") = 4
  /\ LastLong("+") = 5 /\ LastLong(".") = 9 /\ LastLong("_") = 0 /\ LastLong("?") = 0
  /\ LastLong("*") = 0 /\ LastLong("=") = 16 /\ LastLong(">") = 19 /\ LastLong("<") = 41
  /\ LastLong(":") = 23 /\ LastLong("&") = 25 /\ LastLong("#") = 0 /\ LastLong("{") = 0
  /\ LastLong("}") = 0 /\ LastLong("[") = 0 /\ LastLong("]") = 0 /\ LastLong(",") = 0
  /\ LastLong("(") = 0 /\ LastLong(")") = 0 /\ LastLong(";") = 0 /\ LastLong("|") = 0
  /\ LastLong("^") = 0 /\ LastLong("%") = 0 /\ LastLong("/") = 0
BY Zenon DEF LastLong

LEMMA NotOtherwise ==
  /\ "!" \notin Otherwise /\ "$crate" \notin Otherwise /\ "@" \notin Otherwise
  /\ "-" \notin Otherwise /\ "+" \notin Otherwise /\ "." \notin Otherwise
  /\ "_" \notin Otherwise /\ "?" \notin Otherwise /\ "*" \notin Otherwise
  /\ "=" \notin Otherwise /\ ">" \notin Otherwise /\ "<" \notin Otherwise
  /\ ":" \notin Otherwise /\ "&" \notin Otherwise /\ "#" \notin Otherwise
  /\ "{" \notin Otherwise /\ "}" \notin Otherwise /\ "[" \notin Otherwise
  /\ "]" \notin Otherwise /\ "," \notin Otherwise /\ "(" \notin Otherwise
  /\ ")" \notin Otherwise /\ ";" \notin Otherwise /\ "|" \notin Otherwise
  /\ "^" \notin Otherwise /\ "%" \notin Otherwise /\ "/" \notin Otherwise
BY Zenon DEF Otherwise

LEMMA LastLongBetween ==
  /\ 1 > LastLong("!") /\ 2 > LastLong("$crate") /\ 3 > LastLong("@") /\ 4 <= LastLong("-")
  /\ 5 <= LastLong("+") /\ 6 > LastLong("+") /\ 9 <= LastLong(".") /\ 10 > LastLong(".")
  /\ 11 > LastLong("_") /\ 12 > LastLong("?") /\ 13 > LastLong("*") /\ 14 <= LastLong("=")
  /\ 16 <= LastLong("=") /\ 17 > LastLong("=") /\ 18 > LastLong("-") /\ 19 <= LastLong(">")
  /\ 20 > LastLong(">") /\ 21 <= LastLong("<") /\ 22 <= LastLong("<") /\ 23 <= LastLong(":")
  /\ 24 > LastLong(":") /\ 25 <= LastLong("&") /\ 26 > LastLong("&") /\ 27 > LastLong("#")
  /\ 28 > LastLong("{") /\ 29 > LastLong("}") /\ 30 > LastLong("[") /\ 31 > LastLong("]")
  /\ 32 > LastLong(",") /\ 33 > LastLong("(") /\ 34 > LastLong(")") /\ 35 > LastLong(";")
  /\ 36 > LastLong("|") /\ 37 > LastLong("^") /\ 38 > LastLong("%") /\ 39 > LastLong("/")
  /\ 41 <= LastLong("<") /\ 42 > LastLong("<")
<1>1.
      /\ 1 > 0 /\ 2 > 0 /\ 3 > 0 /\ 4 <= 4 /\ 5 <= 5 /\ 6 > 5 /\ 9 <= 9 /\ 10 > 9 /\ 11 > 0
      /\ 12 > 0 /\ 13 > 0 /\ 14 <= 16 /\ 16 <= 16 /\ 17 > 16 /\ 18 > 4 /\ 19 <= 19 /\ 20 > 19
      /\ 21 <= 41 /\ 22 <= 41 /\ 23 <= 23 /\ 24 > 23 /\ 25 <= 25 /\ 26 > 25 /\ 27 > 0 /\ 28 > 0
      /\ 29 > 0 /\ 30 > 0 /\ 31 > 0 /\ 32 > 0 /\ 33 > 0 /\ 34 > 0 /\ 35 > 0 /\ 36 > 0 /\ 37 > 0
      /\ 38 > 0 /\ 39 > 0 /\ 41 <= 41 /\ 42 > 41
  OBVIOUS
<1>2. \A n, u, v : n > v /\ LastLong(u) = v => n > LastLong(u)
  BY Zenon
<1>3. \A n, u, v : n <= v /\ LastLong(u) = v => n <= LastLong(u)
  BY Zenon
<1>4.
      /\ 1 > LastLong("!") /\ 2 > LastLong("$crate") /\ 3 > LastLong("@") /\ 4 <= LastLong("-")
      /\ 5 <= LastLong("+")
  BY <1>1, <1>2, <1>3, LastLongIs, ZenonT(60)
<1>5.
      /\ 6 > LastLong("+") /\ 9 <= LastLong(".") /\ 10 > LastLong(".") /\ 11 > LastLong("_")
      /\ 12 > LastLong("?")
  BY <1>1, <1>2, <1>3, LastLongIs, ZenonT(60)
<1>6.
      /\ 13 > LastLong("*") /\ 14 <= LastLong("=") /\ 16 <= LastLong("=") /\ 17 > LastLong("=")
      /\ 18 > LastLong("-")
  BY <1>1, <1>2, <1>3, LastLongIs, ZenonT(60)
<1>7.
      /\ 19 <= LastLong(">") /\ 20 > LastLong(">") /\ 21 <= LastLong("<") /\ 22 <= LastLong("<")
      /\ 23 <= LastLong(":")
  BY <1>1, <1>2, <1>3, LastLongIs, ZenonT(60)
<1>8.
      /\ 24 > LastLong(":") /\ 25 <= LastLong("&") /\ 26 > LastLong("&") /\ 27 > LastLong("#")
      /\ 28 > LastLong("{")
  BY <1>1, <1>2, <1>3, LastLongIs, ZenonT(60)
<1>9.
      /\ 29 > LastLong("}") /\ 30 > LastLong("[") /\ 31 > LastLong("]") /\ 32 > LastLong(",")
      /\ 33 > LastLong("(")
  BY <1>1, <1>2, <1>3, LastLongIs, ZenonT(60)
<1>10.
      /\ 34 > LastLong(")") /\ 35 > LastLong(";") /\ 36 > LastLong("|") /\ 37 > LastLong("^")
      /\ 38 > LastLong("%")
  BY <1>1, <1>2, <1>3, LastLongIs, ZenonT(60)
<1>11.
      /\ 39 > LastLong("/") /\ 41 <= LastLong("<") /\ 42 > LastLong("<")
  BY <1>1, <1>2, <1>3, LastLongIs, ZenonT(60)
<1> QED BY <1>4, <1>5, <1>6, <1>7, <1>8, <1>9, <1>10, <1>11, Zenon

LEMMA PunctuationOrdered == \A i \in 1..43 : Ordered(i, Punctuation[i])
<1>1. /\ <<"!", "=">> \in Hidden /\ <<">", "=">> \in Hidden
      /\ "!" # "." /\ ">" # "." /\ "-" # "." /\ "+" # "."
  BY Zenon DEF Hidden
<1>2. /\ 7 <= 8 /\ 8 <= 8 /\ 9 > 8 /\ 14 > 8 /\ 15 > 8 /\ 16 > 8 /\ 19 > 8
      /\ 21 > 8 /\ 22 > 8 /\ 23 > 8 /\ 25 > 8 /\ 40 > 8 /\ 41 > 8 /\ 43 > 8
  OBVIOUS
<1>3.
      /\ Ordered(1, P(<<"!">>, "Not")) /\ Ordered(2, P(<<"$crate">>, "Identifier"))
      /\ Ordered(3, P(<<"@">>, "At")) /\ Ordered(4, P(<<"-", ">">>, "RArrow"))
      /\ Ordered(5, P(<<"+", "=">>, "PlusEq")) /\ Ordered(6, P(<<"+">>, "Plus"))
      /\ Ordered(7, P(<<".", ".", "=">>, "DotDotEq"))
      /\ Ordered(8, P(<<".", ".", ".">>, "DotDotDot")) /\ Ordered(9, P(<<".", ".">>, "DotDot"))
      /\ Ordered(10, P(<<".">>, "Dot")) /\ Ordered(11, P(<<"_">>, "Underscore"))
      /\ Ordered(12, P(<<"?">>, "QMark")) /\ Ordered(13, P(<<"*">>, "Star"))
      /\ Ordered(14, P(<<"=", "=">>, "EqEq")) /\ Ordered(15, P(<<"!", "=">>, "Ne"))
      /\ Ordered(16, P(<<"=", ">">>, "FatArrow")) /\ Ordered(17, P(<<"=">>, "Eq"))
      /\ Ordered(18, P(<<"-">>, "Minus")) /\ Ordered(19, P(<<">", ">">>, "Shr"))
      /\ Ordered(20, P(<<">">>, "Gt")) /\ Ordered(21, P(<<"<", "<">>, "Shl"))
  BY <1>1, <1>2, OneOrdered, TwoOrdered, ThreeOrdered, LastLongBetween, NotOtherwise, Zenon
<1>4.
      /\ Ordered(23, P(<<":", ":">>, "PathSep")) /\ Ordered(24, P(<<":">>, "Colon"))
      /\ Ordered(25, P(<<"&", "&">>, "AndAnd")) /\ Ordered(26, P(<<"&">>, "And"))
      /\ Ordered(27, P(<<"#">>, "Hash")) /\ Ordered(28, P(<<"{">>, "BraceOpen"))
      /\ Ordered(29, P(<<"}">>, "BraceClose")) /\ Ordered(30, P(<<"[">>, "SquareOpen"))
      /\ Ordered(31, P(<<"]">>, "SquareClose")) /\ Ordered(32, P(<<",">>, "Comma"))
      /\ Ordered(33, P(<<"(">>, "ParenOpen")) /\ Ordered(34, P(<<")">>, "ParenClose"))
      /\ Ordered(35, P(<<";">>, "Semi")) /\ Ordered(36, P(<<"|">>, "Or"))
      /\ Ordered(37, P(<<"^">>, "Caret")) /\ Ordered(38, P(<<"%">>, "Percent"))
      /\ Ordered(39, P(<<"/">>, "Slash")) /\ Ordered(40, P(<<">", "=">>, "Ge"))
      /\ Ordered(41, P(<<"<", "=">>, "Le")) /\ Ordered(42, P(<<"<">>, "Lt"))
      /\ Ordered(43, P(<<".", ".">>, "DotDot"))
  BY <1>1, <1>2, OneOrdered, TwoOrdered, ThreeOrdered, LastLongBetween, NotOtherwise, Zenon
<1>6.
      /\ Ordered(1, Operators[1]) /\ Ordered(2, Operators[2]) /\ Ordered(3, Operators[3])
      /\ Ordered(4, Operators[4]) /\ Ordered(5, Operators[5]) /\ Ordered(6, Operators[6])
      /\ Ordered(7, Operators[7]) /\ Ordered(8, Operators[8]) /\ Ordered(9, Operators[9])
      /\ Ordered(10, Operators[10]) /\ Ordered(11, Operators[11]) /\ Ordered(12, Operators[12])
      /\ Ordered(13, Operators[13]) /\ Ordered(14, Operators[14]) /\ Ordered(15, Operators[15])
      /\ Ordered(16, Operators[16]) /\ Ordered(17, Operators[17]) /\ Ordered(18, Operators[18])
      /\ Ordered(19, Operators[19]) /\ Ordered(20, Operators[20]) /\ Ordered(21, Operators[21])
  BY <1>3 DEF Operators
<1>7.
      /\ Ordered(22 + 1, Delimiters[1]) /\ Ordered(22 + 2, Delimiters[2])
      /\ Ordered(22 + 3, Delimiters[3]) /\ Ordered(22 + 4, Delimiters[4])
      /\ Ordered(22 + 5, Delimiters[5]) /\ Ordered(22 + 6, Delimiters[6])
      /\ Ordered(22 + 7, Delimiters[7]) /\ Ordered(22 + 8, Delimiters[8])
      /\ Ordered(22 + 9, Delimiters[9]) /\ Ordered(22 + 10, Delimiters[10])
      /\ Ordered(22 + 11, Delimiters[11]) /\ Ordered(22 + 12, Delimiters[12])
      /\ Ordered(22 + 13, Delimiters[13]) /\ Ordered(22 + 14, Delimiters[14])
      /\ Ordered(22 + 15, Delimiters[15]) /\ Ordered(22 + 16, Delimiters[16])
      /\ Ordered(22 + 17, Delimiters[17]) /\ Ordered(22 + 18, Delimiters[18])
      /\ Ordered(22 + 19, Delimiters[19]) /\ Ordered(22 + 20, Delimiters[20])
      /\ Ordered(22 + 21, Delimiters[21])
  <2>1.
      /\ Ordered(23, Delimiters[1]) /\ Ordered(24, Delimiters[2]) /\ Ordered(25, Delimiters[3])
      /\ Ordered(26, Delimiters[4]) /\ Ordered(27, Delimiters[5]) /\ Ordered(28, Delimiters[6])
      /\ Ordered(29, Delimiters[7]) /\ Ordered(30, Delimiters[8]) /\ Ordered(31, Delimiters[9])
      /\ Ordered(32, Delimiters[10]) /\ Ordered(33, Delimiters[11])
      /\ Ordered(34, Delimiters[12]) /\ Ordered(35, Delimiters[13])
      /\ Ordered(36, Delimiters[14]) /\ Ordered(37, Delimiters[15])
      /\ Ordered(38, Delimiters[16]) /\ Ordered(39, Delimiters[17])
      /\ Ordered(40, Delimiters[18]) /\ Ordered(41, Delimiters[19])
      /\ Ordered(42, Delimiters[20]) /\ Ordered(43, Delimiters[21])
    BY <1>4 DEF Delimiters
  <2> QED BY <2>1
<1>8. Ordered(22, LessOrEqual[1])
  <2>1. LessOrEqual[1].units = <<"<", "=">>
    BY DEF LessOrEqual
  <2>2. Len(LessOrEqual[1].units) = 2 /\ LessOrEqual[1].units[1] = "<"
    BY <2>1
  <2>3. 22 <= LastLong("<") /\ "<" \notin Otherwise
    BY LastLongBetween, NotOtherwise, Zenon
  <2> QED BY <2>2, <2>3 DEF Ordered
<1>9. \A i \in 1..21 : Ordered(i, Operators[i])
  BY <1>6
<1>10. \A i \in 1..21 : Ordered(22 + i, Delimiters[i])
  BY <1>7
<1>11. ASSUME NEW i \in 1..43 PROVE Ordered(i, Punctuation[i])
  <2>1. CASE i \in 1..21
    BY <1>9, <2>1, PunctuationIs, Zenon
  <2>2. CASE i = 22
    BY <1>8, <2>2, PunctuationIs, Zenon
  <2>3. CASE i \in 23..43
    <3>1. PICK k \in 1..21 : 22 + k = i
      <4>1. i - 22 \in 1..21 /\ 22 + (i - 22) = i
        BY <2>3
      <4> QED BY <4>1
    <3>2. Ordered(22 + k, Punctuation[22 + k])
      BY <1>10, PunctuationIs, Zenon
    <3> QED BY <3>1, <3>2, Zenon
  <2> QED BY <2>1, <2>2, <2>3
<1> QED BY <1>11

\* Of the tokens that other branches make, only $crate is a punctuation.
Plain(p) ==
  /\ p.kind \notin {"Keyword", "INTEGER_LITERAL"}
  /\ p.kind = "Identifier" => p.units[1] = "$crate"

LEMMA PlainKind ==
  \A units, kind : kind \notin {"Identifier", "Keyword", "INTEGER_LITERAL"} => Plain(P(units, kind))
BY DEF Plain, P

LEMMA PunctuationPlain == \A i \in 1..43 : Plain(Punctuation[i])
<1>1. Plain(P(<<"$crate">>, "Identifier"))
  BY DEF Plain, P
<1>2.
      /\ Plain(P(<<"!">>, "Not")) /\ Plain(P(<<"$crate">>, "Identifier"))
      /\ Plain(P(<<"@">>, "At")) /\ Plain(P(<<"-", ">">>, "RArrow"))
      /\ Plain(P(<<"+", "=">>, "PlusEq")) /\ Plain(P(<<"+">>, "Plus"))
      /\ Plain(P(<<".", ".", "=">>, "DotDotEq")) /\ Plain(P(<<".", ".", ".">>, "DotDotDot"))
      /\ Plain(P(<<".", ".">>, "DotDot")) /\ Plain(P(<<".">>, "Dot"))
      /\ Plain(P(<<"_">>, "Underscore")) /\ Plain(P(<<"?">>, "QMark"))
      /\ Plain(P(<<"*">>, "Star")) /\ Plain(P(<<"=", "=">>, "EqEq"))
      /\ Plain(P(<<"!", "=">>, "Ne")) /\ Plain(P(<<"=", ">">>, "FatArrow"))
      /\ Plain(P(<<"=">>, "Eq")) /\ Plain(P(<<"-">>, "Minus")) /\ Plain(P(<<">", ">">>, "Shr"))
      /\ Plain(P(<<">">>, "Gt")) /\ Plain(P(<<"<", "<">>, "Shl"))
  BY <1>1, PlainKind, Zenon
<1>3.
      /\ Plain(P(<<":", ":">>, "PathSep")) /\ Plain(P(<<":">>, "Colon"))
      /\ Plain(P(<<"&", "&">>, "AndAnd")) /\ Plain(P(<<"&">>, "And"))
      /\ Plain(P(<<"#">>, "Hash")) /\ Plain(P(<<"{">>, "BraceOpen"))
      /\ Plain(P(<<"}">>, "BraceClose")) /\ Plain(P(<<"[">>, "SquareOpen"))
      /\ Plain(P(<<"]">>, "SquareClose")) /\ Plain(P(<<",">>, "Comma"))
      /\ Plain(P(<<"(">>, "ParenOpen")) /\ Plain(P(<<")">>, "ParenClose"))
      /\ Plain(P(<<";">>, "Semi")) /\ Plain(P(<<"|">>, "Or")) /\ Plain(P(<<"^">>, "Caret"))
      /\ Plain(P(<<"%">>, "Percent")) /\ Plain(P(<<"/">>, "Slash"))
      /\ Plain(P(<<">", "=">>, "Ge")) /\ Plain(P(<<"<", "=">>, "Le")) /\ Plain(P(<<"<">>, "Lt"))
      /\ Plain(P(<<".", ".">>, "DotDot"))
  BY PlainKind, Zenon
<1>4.
      /\ Plain(Operators[1]) /\ Plain(Operators[2]) /\ Plain(Operators[3])
      /\ Plain(Operators[4]) /\ Plain(Operators[5]) /\ Plain(Operators[6])
      /\ Plain(Operators[7]) /\ Plain(Operators[8]) /\ Plain(Operators[9])
      /\ Plain(Operators[10]) /\ Plain(Operators[11]) /\ Plain(Operators[12])
      /\ Plain(Operators[13]) /\ Plain(Operators[14]) /\ Plain(Operators[15])
      /\ Plain(Operators[16]) /\ Plain(Operators[17]) /\ Plain(Operators[18])
      /\ Plain(Operators[19]) /\ Plain(Operators[20]) /\ Plain(Operators[21])
  BY <1>2 DEF Operators
<1>5.
      /\ Plain(Delimiters[1]) /\ Plain(Delimiters[2]) /\ Plain(Delimiters[3])
      /\ Plain(Delimiters[4]) /\ Plain(Delimiters[5]) /\ Plain(Delimiters[6])
      /\ Plain(Delimiters[7]) /\ Plain(Delimiters[8]) /\ Plain(Delimiters[9])
      /\ Plain(Delimiters[10]) /\ Plain(Delimiters[11]) /\ Plain(Delimiters[12])
      /\ Plain(Delimiters[13]) /\ Plain(Delimiters[14]) /\ Plain(Delimiters[15])
      /\ Plain(Delimiters[16]) /\ Plain(Delimiters[17]) /\ Plain(Delimiters[18])
      /\ Plain(Delimiters[19]) /\ Plain(Delimiters[20]) /\ Plain(Delimiters[21])
  BY <1>3 DEF Delimiters
<1>6. Plain(LessOrEqual[1])
  BY DEF LessOrEqual, Plain
<1>7. \A i \in 1..21 : Plain(Operators[i])
  BY <1>4
<1>8. \A i \in 1..21 : Plain(Delimiters[i])
  BY <1>5
<1>9. ASSUME NEW i \in 1..43 PROVE Plain(Punctuation[i])
  <2>1. CASE i \in 1..21
    BY <1>7, <2>1, PunctuationIs, Zenon
  <2>2. CASE i = 22
    BY <1>6, <2>2, PunctuationIs, Zenon
  <2>3. CASE i \in 23..43
    <3>1. PICK k \in 1..21 : 22 + k = i
      <4>1. i - 22 \in 1..21 /\ 22 + (i - 22) = i
        BY <2>3
      <4> QED BY <4>1
    <3>2. Plain(Punctuation[22 + k])
      BY <1>8, PunctuationIs, Zenon
    <3> QED BY <3>1, <3>2, Zenon
  <2> QED BY <2>1, <2>2, <2>3
<1> QED BY <1>9

\* The first punctuation that matches is the longest that does.
LEMMA FirstIsLongest ==
  ASSUME NEW m \in DOMAIN Punctuation, m = Min(Matching), NEW j \in Matching,
         Punctuation[j].units \notin Hidden
  PROVE  Len(Punctuation[j].units) <= Len(Punctuation[m].units)
<1>1. Matching \in SUBSET Nat /\ Matching \subseteq 1..43
  <2>1. DOMAIN Punctuation = 1..43
    BY PunctuationIs, Zenon
  <2>2. Matching \subseteq DOMAIN Punctuation
    BY DEF Matching
  <2> QED BY <2>1, <2>2
<1>2. m \in Matching /\ \A k \in Matching : m <= k
  BY <1>1, MinIsLeast
<1>3. \A k \in Matching : Ordered(k, Punctuation[k]) /\ View(Start) = Punctuation[k].units[1]
  BY <1>1, PunctuationOrdered DEF Matching, StartsWith
<1>4. PICK u : u = View(Start)
  OBVIOUS
<1>5. LastLong(u) \in Nat
  BY DEF LastLong
<1>6. ASSUME Punctuation[j].units = <<".", ".">> PROVE m <= 9
  <2>1. Punctuation[9].units = <<".", ".">> /\ 9 \in 1..43
    <3>1. 9 \in 1..21 /\ 9 \in 1..43
      OBVIOUS
    <3>2. Punctuation[9] = Operators[9]
      BY <3>1, PunctuationIs, Zenon
    <3>3. Operators[9].units = <<".", ".">>
      BY DEF Operators, P
    <3> QED BY <3>1, <3>2, <3>3
  <2>2. 9 \in Matching
    BY <1>6, <2>1, PunctuationIs, Zenon DEF Matching
  <2> QED BY <1>2, <2>2
<1>a. PICK a : a = Len(Punctuation[j].units)
  OBVIOUS
<1>b. PICK b : b = Len(Punctuation[m].units)
  OBVIOUS
<1>7. a \in 1..3 /\ b \in 1..3 /\ m \in Nat /\ j \in Nat /\ m <= j
  BY <1>1, <1>2, <1>3, <1>a, <1>b DEF Ordered
<1>8. ASSUME a = 1 PROVE a <= b
  BY <1>7, <1>8
<1>9. ASSUME a = 2 PROVE a <= b
  <2>1. m <= LastLong(u)
    <3>1. CASE Punctuation[j].units = <<".", ".">>
      <4>1. u = "."
        BY <1>3, <1>4, <3>1
      <4> QED BY <1>6, <3>1, <4>1, LastLongIs
    <3>2. CASE Punctuation[j].units # <<".", ".">>
      <4>1. j <= LastLong(u)
        BY <1>3, <1>4, <1>9, <1>a, <3>2 DEF Ordered
      <4> QED BY <1>5, <1>7, <4>1
    <3> QED BY <3>1, <3>2
  <2>2. b # 1
    BY <1>2, <1>3, <1>4, <1>5, <1>7, <1>b, <2>1 DEF Ordered
  <2> QED BY <1>7, <1>9, <2>2
<1>10. ASSUME a = 3 PROVE a <= b
  <2>1. j <= 8 /\ u = "."
    BY <1>3, <1>4, <1>10, <1>a DEF Ordered
  <2>2. m <= 8 /\ m <= LastLong(u)
    <3>1. LastLong(".") = 9
      BY LastLongIs, Zenon
    <3> QED BY <1>7, <2>1, <3>1
  <2>3. b # 1 /\ b # 2
    BY <1>2, <1>3, <1>4, <1>5, <1>7, <1>b, <2>1, <2>2 DEF Ordered
  <2> QED BY <1>7, <1>10, <2>3
<1>11. a <= b
  BY <1>7, <1>8, <1>9, <1>10
<1> QED BY <1>11, <1>a, <1>b, Zenon

\* What LongestToken says of the last token.
Longest(t) ==
  /\ t.kind \in {"Identifier", "Keyword"} /\ text[t.from] \in Letter \cup {"_"}
       => View(t.from + t.size) \notin Letter \cup Digit \cup {"_"}
  /\ t.kind = "INTEGER_LITERAL" => View(t.from + t.size) \notin Digit
  /\ \A p \in DOMAIN Punctuation :
       (StartsWith(t.from, Punctuation[p].units) /\ Punctuation[p].units \notin Hidden
          /\ t.kind \notin {"Identifier", "Eof"}) => Len(Punctuation[p].units) <= t.size

LEMMA Lengthening ==
  ASSUME TypeOK, NEW t \in TokenType, Longest(t), tokens' = Append(tokens, t), text' = text
  PROVE  LongestToken'
<1>1. PICK m \in Nat : m = Len(tokens) + 1
  BY LenProperties DEF TypeOK
<1>2. Len(tokens') = m /\ tokens'[m] = t
  <2>1. tokens \in Seq(TokenType)
    BY DEF TypeOK
  <2> QED BY <1>1, <2>1, AppendProperties
<1>3. Last' = {m} \ {0}
  BY <1>2 DEF Last
<1>4. Longest(t)'
  BY DEF Longest, View, StartsWith
<1>5. ASSUME NEW i \in Last' PROVE Longest(tokens[i])'
  <2>1. tokens'[i] = t
    BY <1>2, <1>3
  <2> QED BY <1>4, <2>1, Zenon DEF Longest
<1> QED BY <1>5, Zenon DEF LongestToken, Longest

LEMMA NotLengthening ==
  ASSUME LongestToken, UNCHANGED <<tokens, text>>
  PROVE  LongestToken'
BY ZenonT(60) DEF LongestToken, Last, View, StartsWith

\* No punctuation begins with what another branch reads.
LEMMA Otherwises ==
  ASSUME NEW p \in DOMAIN Punctuation, NEW i, StartsWith(i, Punctuation[p].units)
  PROVE  View(i) \notin Otherwise
<1>1. Ordered(p, Punctuation[p])
  BY PunctuationIs, PunctuationOrdered
<1> QED BY <1>1, Zenon DEF Ordered, StartsWith

\* The end of a run of units, seen as the code does.
LEMMA BehindView ==
  ASSUME TypeOK, Lexing, NEW units, "NUL" \notin units, NEW n, n = Behind(Start, units) - Start
  PROVE  /\ View(Start + n) \notin units
         /\ n > 0 => View(Start) \in units /\ text[Start] = View(Start)
<1>1. /\ Len(text) \in Nat /\ Start \in 1..Len(text) /\ text \in Seq(STRING)
      /\ DOMAIN text = 1..Len(text)
  BY StartIsBehindBlanks, LenProperties DEF Lexing, TypeOK
<1>2. /\ Behind(Start, units) \in Start..(Len(text) + 1)
      /\ \A j \in Start..(Behind(Start, units) - 1) : text[j] \in units
      /\ Behind(Start, units) <= Len(text) => text[Behind(Start, units)] \notin units
  BY <1>1, BehindEnds
<1>3. PICK b : b = Behind(Start, units)
  OBVIOUS
<1>4. Start + n = b
  BY <1>1, <1>2, <1>3
<1>5. View(b) \notin units
  BY <1>1, <1>2, <1>3 DEF View
<1>6. n > 0 => Start \in Start..(b - 1)
  BY <1>1, <1>2, <1>3
<1> QED BY <1>1, <1>2, <1>3, <1>4, <1>5, <1>6 DEF View

LEMMA TokensAreLongest ==
  ASSUME IInv, LongestToken, Number \/ String \/ Identifier \/ StaticLifetime \/ End
  PROVE  LongestToken'
<1>1. TypeOK /\ "NUL" \notin Digit /\ "NUL" \notin Letter \cup Digit \cup {"_"}
  BY DEF IInv, Digit, Letter
<1>2. Start \in Nat /\ line \in Nat /\ Column \in Nat
  BY <1>1, StartIsBehindBlanks DEF TypeOK
<1>3. ASSUME NEW kind \in TokenKind, NEW size \in Nat, NEW c \in Nat,
             Longest(Token(kind, size, c)), tokens' = Append(tokens, Token(kind, size, c)),
             text' = text
      PROVE  LongestToken'
  <2>1. PICK t : t = Token(kind, size, c)
    OBVIOUS
  <2>2. t \in TokenType
    BY <1>2, <2>1 DEF Token, TokenType
  <2> QED BY <1>1, <1>3, <2>1, <2>2, Lengthening
<1>4. {"INTEGER_LITERAL", "STRING_LITERAL", "Identifier", "Keyword", "Eof"} \subseteq TokenKind
  BY DEF TokenKind
<1>5. ASSUME NEW p \in DOMAIN Punctuation, StartsWith(Start, Punctuation[p].units)
      PROVE  View(Start) \notin Otherwise
  BY <1>5, Otherwises
<1>6. CASE Number
  <2>1. PICK n \in Nat : n = tryLexDecLiteral
    BY <1>1, <1>6, LengthsFit DEF Number, Fits
  <2>2. n > 0 /\ n = Behind(Start, Digit) - Start
    BY <1>6, <2>1 DEF Number, tryLexDecLiteral
  <2>3. View(Start + n) \notin Digit /\ View(Start) \in Digit
    BY <1>1, <1>6, <2>2, BehindView DEF Number
  <2>4. View(Start) \in Otherwise
    BY <2>3 DEF Otherwise, Digit
  <2>5. Longest(Token("INTEGER_LITERAL", n, Column))
    BY <1>5, <2>3, <2>4 DEF Longest, Token
  <2> QED BY <1>2, <1>3, <1>4, <1>6, <2>1, <2>5 DEF Number, Emit
<1>7. CASE String
  <2>1. PICK n \in Nat : n = tryLexString
    BY <1>1, <1>7, LengthsFit DEF String, Fits
  <2>2. View(Start) = "\""
    <3>1. View(Start) # "\"" => tryLexString = 0
      BY Zenon DEF tryLexString
    <3>2. n # 0
      BY <1>7, <2>1 DEF String
    <3> QED BY <2>1, <3>1, <3>2, Zenon
  <2>4. View(Start) \in Otherwise
    BY <2>2 DEF Otherwise
  <2>5. Longest(Token("STRING_LITERAL", n, Column))
    BY <1>5, <2>4 DEF Longest, Token
  <2> QED BY <1>2, <1>3, <1>4, <1>7, <2>1, <2>5 DEF String, Emit
<1>8. CASE Identifier
  <2>0. Lexing /\ tryLexIdentifier > 0
    BY <1>8 DEF Identifier
  <2>1. PICK n \in Nat : n = tryLexIdentifier
    BY <1>1, <2>0, LengthsFit DEF Fits
  <2>2. n > 0 /\ n = Behind(Start, Letter \cup Digit \cup {"_"}) - Start
    <3>1. n = 0 \/ n = Behind(Start, Letter \cup Digit \cup {"_"}) - Start
      BY <2>1, Zenon DEF tryLexIdentifier
    <3>2. n > 0
      BY <2>0, <2>1
    <3>3. n # 0
      BY <3>2
    <3> QED BY <3>1, <3>2, <3>3, Zenon
  <2>3. View(Start + n) \notin Letter \cup Digit \cup {"_"} /\ text[Start] = View(Start)
    BY <1>1, <2>0, <2>2, BehindView
  <2>4. Longest(Token("Identifier", n, Column))
    BY <2>3 DEF Longest, Token
  <2>5. ASSUME SubSeq(text, Start, Start + n - 1) \in Keyword
        PROVE  Longest(Token("Keyword", n, Column))
    <3>1. SubSeq(text, Start, Start + n - 1) = <<"fn">>
      BY <2>5 DEF Keyword
    <3>2. SubSeq(text, Start, Start + n - 1)[1] = text[Start]
      <4>1. Start + n - 1 <= Len(text) /\ Start \in 1..Len(text) /\ Len(text) \in Nat
        <5>1. Fits(n)
          BY <1>1, <2>0, <2>1, LengthsFit
        <5>2. Len(text) \in Nat /\ Start \in at..(Len(text) + 1) /\ Start <= Len(text) /\ at \in Nat
          BY <1>1, <2>0, StartIsBehindBlanks DEF Lexing, TypeOK
        <5>3. at >= 1
          BY <1>1 DEF TypeOK
        <5> QED BY <1>2, <5>1, <5>2, <5>3 DEF Fits
      <4>2. text \in Seq(STRING)
        BY <1>1 DEF TypeOK
      <4>3. PICK e \in Int : e = Start + n - 1
        BY <1>2
      <4>4. \A i \in Start..e : text[i] \in STRING
        BY <1>2, <4>1, <4>2, <4>3, ElementOfSeq
      <4>5. \A i \in 1..(e - Start + 1) : SubSeq(text, Start, e)[i] = text[Start + i - 1]
        BY <1>2, <4>4, SubSeqProperties
      <4>6. 1 \in 1..(e - Start + 1) /\ Start + 1 - 1 = Start
        <5>1. n > 0
          BY <2>2
        <5>2. e - Start + 1 = n /\ Start + 1 - 1 = Start
          BY <1>2, <4>3
        <5> QED BY <5>1, <5>2
      <4>7. SubSeq(text, Start, e)[1] = text[Start + 1 - 1]
        BY <4>5, <4>6, Zenon
      <4> QED BY <4>3, <4>6, <4>7, Zenon
    <3>3. View(Start) \in Otherwise
      <4>1. "fn" \in Otherwise
        BY Zenon DEF Otherwise
      <4>2. text[Start] = "fn"
        <5>1. <<"fn">>[1] = "fn"
          OBVIOUS
        <5> QED BY <3>1, <3>2, <5>1, Zenon
      <4> QED BY <2>3, <4>1, <4>2, Zenon
    <3> QED BY <1>5, <2>3, <3>3 DEF Longest, Token
  <2>6. PICK kind \in {"Identifier", "Keyword"} :
          Emit(kind, n, n) /\ Longest(Token(kind, n, Column))
    BY <1>8, <2>1, <2>4, <2>5 DEF Identifier
  <2> QED BY <1>2, <1>3, <1>4, <2>6 DEF Emit
<1>9. CASE StaticLifetime
  <2>1. View(Start) = "'static" /\ text[Start] = View(Start)
    BY <1>9 DEF StaticLifetime, View
  <2>2. View(Start) \in Otherwise /\ View(Start) \notin Letter \cup {"_"}
    BY <2>1 DEF Otherwise, Letter
  <2>3. Column + Width("'static") \in Nat
    BY <1>2 DEF Width
  <2>4. PICK c \in Nat : c = Column + Width("'static")
    BY <2>3
  <2>5. Longest(Token("Keyword", 1, c))
    BY <1>5, <2>1, <2>2 DEF Longest, Token
  <2> QED BY <1>2, <1>3, <1>4, <1>9, <2>4, <2>5 DEF StaticLifetime
<1>10. CASE End
  <2>1. Longest(Token("Eof", 0, Column))
    BY DEF Longest, Token
  <2> QED BY <1>2, <1>3, <1>4, <1>10, <2>1 DEF End
<1> QED BY <1>6, <1>7, <1>8, <1>9, <1>10

LEMMA PunctuationIsLongest ==
  ASSUME IInv, LongestToken, Punctuate
  PROVE  LongestToken'
<1>1. TypeOK /\ Lexing /\ Matching # {}
  BY DEF IInv, Punctuate
<1>2. Start \in Nat /\ line \in Nat /\ Column \in Nat
  BY <1>1, StartIsBehindBlanks DEF TypeOK
<1>3. PICK m : m = Min(Matching)
  OBVIOUS
<1>4. m \in Matching /\ m \in DOMAIN Punctuation
  <2>1. Matching \in SUBSET Nat
    BY PunctuationIs DEF Matching
  <2> QED BY <1>1, <1>3, <2>1, MinIsLeast DEF Matching
<1>5. PICK p : p = Punctuation[m]
  OBVIOUS
<1>6. Len(p.units) \in Nat /\ p.kind \in TokenKind
  BY <1>4, <1>5, PunctuationIsRemoved DEF TokenKind, Removable
<1>7. PICK t : t = Token(p.kind, Len(p.units), Column)
  OBVIOUS
<1>8. t \in TokenType /\ t.from = Start /\ t.size = Len(p.units) /\ t.kind = p.kind
  BY <1>2, <1>6, <1>7 DEF Token, TokenType
<1>9. tokens' = Append(tokens, t) /\ text' = text
  BY <1>3, <1>5, <1>7 DEF Punctuate, Emit
<1>10. \A j \in Matching : Punctuation[j].units \notin Hidden => Len(Punctuation[j].units) <= t.size
  BY <1>3, <1>4, <1>5, <1>8, FirstIsLongest
<1>11. /\ p.kind \notin {"Keyword", "INTEGER_LITERAL"}
       /\ p.kind = "Identifier" => text[Start] \notin Letter \cup {"_"}
  <2>1. m \in 1..43
    BY <1>4, PunctuationIs
  <2>2. Plain(p)
    BY <1>5, <2>1, PunctuationPlain
  <2>3. View(Start) = p.units[1]
    BY <1>4, <1>5 DEF Matching, StartsWith
  <2>4. View(Start) = "$crate" => text[Start] = "$crate"
    BY DEF View
  <2>5. "$crate" \notin Letter \cup {"_"}
    BY DEF Letter
  <2> QED BY <2>2, <2>3, <2>4, <2>5, Zenon DEF Plain
<1>12. Longest(t)
  <2>1. t.kind \in {"Identifier", "Keyword"} /\ text[t.from] \in Letter \cup {"_"}
          => View(t.from + t.size) \notin Letter \cup Digit \cup {"_"}
    BY <1>8, <1>11
  <2>2. t.kind = "INTEGER_LITERAL" => View(t.from + t.size) \notin Digit
    BY <1>8, <1>11
  <2>3. ASSUME NEW j \in DOMAIN Punctuation, StartsWith(t.from, Punctuation[j].units),
               Punctuation[j].units \notin Hidden
        PROVE  Len(Punctuation[j].units) <= t.size
    BY <1>8, <1>10, <2>3 DEF Matching
  <2> QED BY <2>1, <2>2, <2>3 DEF Longest
<1> QED BY <1>1, <1>8, <1>9, <1>12, Lengthening

LEMMA NextLongest == IInv /\ LongestToken /\ [Next]_vars => LongestToken'
<1> SUFFICES ASSUME IInv, LongestToken, [Next]_vars PROVE LongestToken'
  OBVIOUS
<1>1. CASE Number \/ String \/ Identifier \/ StaticLifetime \/ End
  BY <1>1, TokensAreLongest
<1>2. CASE Punctuate
  BY <1>2, PunctuationIsLongest
<1>3. CASE Comment \/ NewLine \/ UnknownToken \/ Stopped \/ UNCHANGED vars
  BY <1>3, NotLengthening DEF Comment, NewLine, UnknownToken, Stopped, vars
<1> QED BY <1>1, <1>2, <1>3 DEF Next

\* Whatever the text, no token is shorter than the text allows: the order of the
\* forty tests of lex hides no punctuation but != and >=, and identifiers and
\* numbers go on as far as their characters do.
THEOREM AlwaysLongest == Spec => []LongestToken
<1>1. Init => LongestToken
  BY DEF Init, LongestToken, Last
<1>2. LongestToken /\ IInv /\ [Next]_vars => LongestToken'
  BY NextLongest
<1> QED BY <1>1, <1>2, Invariance, PTL DEF Spec

-----------------------------------------------------------------------------
(* Lines and columns: LocationsExact *)

\* The width of units a to b - 1, and the new lines among them.
Span(a, b) == WidthOf(a, b - 1)
Breaks(a, b) == {j \in a..(b - 1) : text[j] = "\n"}

\* Where the unit b is, counted from the token s made before it.
EndOf(s) == s.from + s.size
ColumnFrom(s, b) ==
  IF Breaks(EndOf(s), b) = {} THEN s.column + Span(s.from, b)
  ELSE Span(Max(Breaks(EndOf(s), b)) + 1, b)

\* There is no comment between the two, and s, the n-th token, is not 'static.
Plainly(n, s, b) == /\ \A j \in EndOf(s)..(b - 1) : text[j] # "/"
                    /\ ~(n > 0 /\ text[s.from] = "'static")

LocatedAt(n, s, b, l, c) ==
  Plainly(n, s, b) => /\ l = s.line + Cardinality(Breaks(EndOf(s), b))
                      /\ c = ColumnFrom(s, b)

\* The lexer knows where it is, behind the last token.
Recent == Before(Len(tokens) + 1)
Located == Recent.from <= at /\ LocatedAt(Len(tokens), Recent, at, line, column)

\* What LocationsExact says of the i-th token t, made behind s.
Placed(i, s, t) ==
  View(t.from) # "'static" => LocatedAt(i - 1, s, t.from, t.line, t.column)

\* A run of units of one character each is as wide as it is long.
LEMMA SpanOfBlanks ==
  ASSUME TypeOK, NEW a \in Nat, NEW b \in Nat, NEW c \in Nat, a <= b, b <= c, 1 <= b,
         \A j \in b..(c - 1) : text[j] \in Blank
  PROVE  Span(a, c) = Span(a, b) + (c - b)
<1>1. ASSUME NEW unit \in {"fn", "$crate", "'static"} PROVE Wide(unit, a, c - 1) = Wide(unit, a, b - 1)
  <2>1. unit \notin Blank
    BY DEF Blank
  <2>2. {i \in a..(c - 1) : text[i] = unit} = {i \in a..(b - 1) : text[i] = unit}
    BY <2>1
  <2> QED BY <2>2, Zenon DEF Wide
<1>2. ASSUME NEW unit \in {"fn", "$crate", "'static"} PROVE Wide(unit, a, b - 1) \in Nat
  <2> DEFINE S == {i \in a..(b - 1) : text[i] = unit}
  <2>1. IsFiniteSet(a..(b - 1))
    BY FS_Interval
  <2>2. Cardinality(S) \in Nat
    BY <2>1, FS_Subset, FS_CardinalityType
  <2>3. Width(unit) - 1 \in Nat
    BY DEF Width
  <2> HIDE DEF S
  <2>4. Cardinality(S) * (Width(unit) - 1) \in Nat
    BY <2>2, <2>3
  <2> QED BY <2>4 DEF Wide, S
<1>3. PICK x \in Nat : x = Wide("fn", a, b - 1)
  BY <1>2
<1>4. PICK y \in Nat : y = Wide("$crate", a, b - 1)
  BY <1>2
<1>5. PICK z \in Nat : z = Wide("'static", a, b - 1)
  BY <1>2
<1>6. x = Wide("fn", a, c - 1) /\ y = Wide("$crate", a, c - 1) /\ z = Wide("'static", a, c - 1)
  BY <1>1, <1>3, <1>4, <1>5
<1>7. Span(a, b) = ((b - 1) + 1 - a) + x + y + z
  BY <1>3, <1>4, <1>5, Zenon DEF Span, WidthOf
<1>8. Span(a, c) = ((c - 1) + 1 - a) + x + y + z
  BY <1>6, Zenon DEF Span, WidthOf
<1> QED BY <1>7, <1>8

LEMMA SpanOfNothing ==
  ASSUME NEW a \in Nat
  PROVE  Span(a, a) = 0 /\ Breaks(a, a) = {}
<1>1. a..(a - 1) = {}
  OBVIOUS
<1>2. ASSUME NEW unit PROVE Wide(unit, a, a - 1) = 0
  <2>1. {i \in a..(a - 1) : text[i] = unit} = {}
    BY <1>1
  <2>2. Cardinality({i \in a..(a - 1) : text[i] = unit}) = 0
    BY <2>1, FS_EmptySet
  <2>3. Width(unit) - 1 \in Nat
    BY DEF Width
  <2>4. 0 * (Width(unit) - 1) = 0
    BY <2>3
  <2> QED BY <2>2, <2>4, Zenon DEF Wide
<1>3. PICK z : z = 0
  OBVIOUS
<1>4. z = Wide("fn", a, a - 1) /\ z = Wide("$crate", a, a - 1) /\ z = Wide("'static", a, a - 1)
  BY <1>2, <1>3, Zenon
<1>5. Span(a, a) = ((a - 1) + 1 - a) + z + z + z
  BY <1>4, Zenon DEF Span, WidthOf
<1> QED BY <1>1, <1>3, <1>5 DEF Breaks

LEMMA BreaksAreFinite ==
  ASSUME NEW a \in Nat, NEW b \in Nat
  PROVE  IsFiniteSet(Breaks(a, b)) /\ Cardinality(Breaks(a, b)) \in Nat
<1>1. IsFiniteSet(a..(b - 1))
  BY FS_Interval
<1> QED BY <1>1, FS_Subset, FS_CardinalityType DEF Breaks

LEMMA MaxIsGreatest ==
  ASSUME NEW n \in Nat, NEW S \in SUBSET 0..n, S # {}
  PROVE  Max(S) \in S /\ \A y \in S : Max(S) >= y
<1> DEFINE T == {n - x : x \in S}
<1>1. T \in SUBSET Nat /\ T # {}
  <2>1. \A x \in S : n - x \in Nat
    OBVIOUS
  <2> QED BY <2>1
<1>2. PICK u : u = Min(T)
  OBVIOUS
<1>3. u \in T /\ \A y \in T : u <= y
  BY <1>1, <1>2, MinIsLeast
<1>4. PICK x \in S : u = n - x
  BY <1>3
<1>5. \A y \in S : n - y \in T
  OBVIOUS
<1>6. \A y \in S : x >= y
  BY <1>3, <1>4, <1>5
<1> QED BY <1>6 DEF Max

LEMMA GreatestIsMax ==
  ASSUME NEW S \in SUBSET Nat, NEW x \in S, \A y \in S : x >= y
  PROVE  Max(S) = x
<1>1. \A z \in S : (\A y \in S : z >= y) => z = x
  BY SMT
<1> QED BY <1>1 DEF Max

LEMMA RecentType ==
  ASSUME TypeOK
  PROVE  /\ Recent.from \in Nat /\ Recent.size \in Nat /\ EndOf(Recent) \in Nat
         /\ EndOf(Recent) = Ended /\ Recent.line \in Nat /\ Recent.column \in Nat
<1>1. EndOf(Recent) = Ended
  BY DEF EndOf, Recent, Ended
<1>2. PICK m \in Nat : m = Len(tokens) + 1
  BY LenProperties DEF TypeOK
<1>3. Before(m).line \in Nat /\ Before(m).column \in Nat
  <2>1. CASE m = 1
    BY <2>1 DEF Before
  <2>2. CASE m # 1
    <3>1. m - 1 \in 1..Len(tokens)
      BY <1>2, <2>2, LenProperties DEF TypeOK
    <3>2. tokens[m - 1] \in TokenType
      BY <3>1, ElementOfSeq DEF TypeOK
    <3>3. Before(m) = tokens[m - 1]
      BY <2>2, Zenon DEF Before
    <3> QED BY <3>2, <3>3 DEF TokenType
  <2> QED BY <2>1, <2>2
<1> QED BY <1>1, <1>2, <1>3, LastTokenType DEF Recent

\* Behind the blanks, the lexer knows it too.
LEMMA LocatedAtStart ==
  ASSUME TypeOK, Located
  PROVE  LocatedAt(Len(tokens), Recent, Start, line, Column)
<1>1. /\ at \in Nat /\ at >= 1 /\ Start \in Nat /\ at <= Start /\ column \in Nat
      /\ \A j \in at..(Start - 1) : text[j] \in Blank
      /\ Column = column + (Start - at)
  BY StartIsBehindBlanks DEF TypeOK, Column
<1>2. PICK s : s = Recent
  OBVIOUS
<1>3. PICK e \in Nat : e = EndOf(s)
  BY <1>2, RecentType
<1>4. s.from \in Nat /\ s.from <= at /\ s.column \in Nat
  BY <1>2, RecentType DEF Located
<1> SUFFICES ASSUME Plainly(Len(tokens), s, Start)
             PROVE  /\ line = s.line + Cardinality(Breaks(e, Start))
                    /\ Column = ColumnFrom(s, Start)
  BY <1>2, <1>3 DEF LocatedAt
<1>5. Plainly(Len(tokens), s, at)
  BY <1>1, <1>3 DEF Plainly
<1>6. line = s.line + Cardinality(Breaks(e, at)) /\ column = ColumnFrom(s, at)
  BY <1>2, <1>3, <1>5 DEF Located, LocatedAt
<1>7. Breaks(e, Start) = Breaks(e, at)
  <2>1. "\n" \notin Blank
    BY DEF Blank
  <2> QED BY <1>1, <2>1 DEF Breaks
<1>8. ASSUME NEW a \in Nat, a <= at PROVE Span(a, Start) = Span(a, at) + (Start - at)
  BY <1>1, <1>8, SpanOfBlanks
<1>9. ASSUME NEW a \in Nat, a <= at PROVE Span(a, at) \in Nat
  <2>1. at - a \in Nat /\ a + (at - a) - 1 = at - 1
    BY <1>1, <1>9
  <2>2. WidthOf(a, a + (at - a) - 1) \in Nat
    BY <2>1, WidthOfType, Zenon
  <2> QED BY <2>1, <2>2, Zenon DEF Span
<1>10. CASE Breaks(e, at) = {}
  <2>1. column = s.column + Span(s.from, at)
    BY <1>3, <1>6, <1>10, Zenon DEF ColumnFrom
  <2>2. ColumnFrom(s, Start) = s.column + Span(s.from, Start)
    BY <1>3, <1>7, <1>10, Zenon DEF ColumnFrom
  <2>3. Column = s.column + Span(s.from, Start)
    <3>1. PICK w \in Nat : w = Span(s.from, at)
      BY <1>4, <1>9
    <3>2. Span(s.from, Start) = w + (Start - at)
      BY <1>4, <1>8, <3>1
    <3>3. column = s.column + w
      BY <2>1, <3>1
    <3> QED BY <1>1, <1>4, <3>2, <3>3
  <2> QED BY <1>6, <1>7, <2>2, <2>3
<1>11. CASE Breaks(e, at) # {}
  <2>1. PICK x : x = Max(Breaks(e, at))
    OBVIOUS
  <2>2. Breaks(e, at) \in SUBSET (0..at)
    BY <1>1 DEF Breaks
  <2>3. x \in Breaks(e, at)
    BY <1>1, <1>11, <2>1, <2>2, MaxIsGreatest
  <2>4. x + 1 \in Nat /\ x + 1 <= at
    BY <1>1, <2>3 DEF Breaks
  <2>5. column = Span(x + 1, at)
    BY <1>3, <1>6, <1>11, <2>1, Zenon DEF ColumnFrom
  <2>6. ColumnFrom(s, Start) = Span(x + 1, Start)
    BY <1>3, <1>7, <1>11, <2>1, Zenon DEF ColumnFrom
  <2>7. Column = Span(x + 1, Start)
    BY <1>1, <1>8, <2>4, <2>5
  <2> QED BY <1>6, <1>7, <2>6, <2>7
<1> QED BY <1>10, <1>11

\* Every step that makes a token does this.
LEMMA Placing ==
  ASSUME TypeOK, Located, NEW t \in TokenType, NEW n \in Nat, t.from = Start, n <= t.size,
         t.line = line, t.column = Column \/ View(Start) = "'static",
         tokens' = Append(tokens, t), at' = Start + n, text' = text, line' = line,
         column' = Column + Span(Start, Start + n)
  PROVE  LocationsExact' /\ Located'
<1>1. PICK m \in Nat : m = Len(tokens) + 1
  BY LenProperties DEF TypeOK
<1>2. /\ Len(tokens') = m /\ tokens'[m] = t /\ Len(tokens) \in Nat /\ Len(tokens) = m - 1
      /\ \A i \in 1..Len(tokens) : tokens'[i] = tokens[i]
  <2>1. tokens \in Seq(TokenType)
    BY DEF TypeOK
  <2> QED BY <1>1, <2>1, AppendProperties, LenProperties
<1>3. Start \in Nat /\ line \in Nat /\ Column \in Nat
  BY StartIsBehindBlanks DEF TypeOK
<1>4. PICK s : s = Recent
  OBVIOUS
<1>5. s = Before(m)
  BY <1>1, <1>4, Zenon DEF Recent
<1>6. Before(m)' = s
  <2>1. CASE m = 1
    BY <1>5, <2>1 DEF Before
  <2>2. CASE m # 1
    <3>1. m - 1 \in 1..Len(tokens)
      BY <1>1, <1>2, <2>2
    <3>2. tokens'[m - 1] = tokens[m - 1]
      BY <1>2, <3>1
    <3> QED BY <1>5, <2>2, <3>2, Zenon DEF Before
  <2> QED BY <2>1, <2>2
<1>7. Recent' = t
  <2>1. m + 1 # 1 /\ (m + 1) - 1 = m
    BY <1>1
  <2>2. Before(m + 1)' = tokens'[(m + 1) - 1]
    BY <2>1, Zenon DEF Before
  <2>3. Recent' = Before(m + 1)'
    BY <1>2, Zenon DEF Recent
  <2> QED BY <1>2, <2>1, <2>2, <2>3, Zenon
<1>8. Placed(m, s, t)
  <2>1. LocatedAt(m - 1, s, Start, line, Column)
    BY <1>2, <1>4, LocatedAtStart
  <2> QED BY <2>1, Zenon DEF Placed
<1>9. LocationsExact'
  <2>1. Last' = {m} \ {0}
    BY <1>2 DEF Last
  <2>2. Placed(m, s, t)'
    BY <1>8 DEF Placed, View, LocatedAt, Plainly, Breaks, ColumnFrom, Span, WidthOf, Wide
  <2>3. \A i \in Last' : i = m /\ Before(i)' = s /\ tokens'[i] = t /\ (i > 1 <=> i - 1 > 0)
    BY <1>2, <1>6, <2>1
  <2> QED BY <2>2, <2>3
       DEF LocationsExact, Placed, LocatedAt, Plainly, ColumnFrom, Breaks, Span, EndOf, Gap, NewLines
<1>10. Located'
  <2>1. Recent'.from <= at'
    BY <1>3, <1>7
  <2>2. EndOf(t) \in Nat /\ at' <= EndOf(t) /\ at' \in Nat
    BY <1>3 DEF EndOf, TokenType
  <2>3. EndOf(t)..(at' - 1) = {}
    BY <2>2
  <2>4. Breaks(EndOf(t), at') = {} /\ Cardinality(Breaks(EndOf(t), at')) = 0
    BY <2>3, FS_EmptySet DEF Breaks
  <2>5. ColumnFrom(t, at') = t.column + Span(Start, at')
    BY <2>4, Zenon DEF ColumnFrom
  <2>6. ASSUME NEW k, k > 0 PROVE LocatedAt(k, t, at', line', column')
    <3>1. t.line = t.line + 0
      BY DEF TokenType
    <3>2. CASE t.column = Column
      BY <2>4, <2>5, <3>1, <3>2 DEF LocatedAt
    <3>3. CASE View(Start) = "'static"
      <4>1. text[Start] = "'static"
        BY <3>3 DEF View
      <4> QED BY <2>6, <4>1 DEF LocatedAt, Plainly
    <3> QED BY <3>2, <3>3
  <2>7. m > 0 /\ Len(tokens)' = m
    BY <1>1, <1>2
  <2>8. PICK b, l, c : b = at' /\ l = line' /\ c = column'
    OBVIOUS
  <2>9. LocatedAt(m, t, b, l, c)
    BY <2>6, <2>7, <2>8
  <2>10. LocatedAt(m, t, b, l, c)'
    BY <2>9 DEF LocatedAt, Plainly, Breaks, ColumnFrom, Span, WidthOf, Wide
  <2> QED BY <1>7, <2>1, <2>7, <2>8, <2>10, Zenon DEF Located
<1> QED BY <1>9, <1>10

LEMMA NotPlacing ==
  ASSUME TypeOK, LocationsExact, UNCHANGED <<text, tokens>>
  PROVE  LocationsExact'
<1>1. Last' = Last /\ Len(tokens) \in Nat
  BY LenProperties DEF Last, TypeOK
<1>2. ASSUME NEW i \in Last
      PROVE  Placed(i, Before(i), tokens[i])'
  <2>1. PICK s, t : s = Before(i) /\ t = tokens[i]
    OBVIOUS
  <2>2. i > 1 <=> i - 1 > 0
    BY <1>1 DEF Last
  <2>3. Placed(i, s, t)
    BY <2>1, <2>2, Zenon DEF LocationsExact, Placed, LocatedAt, Plainly, EndOf, Breaks, ColumnFrom, Span, Gap, NewLines
  <2>4. Placed(i, s, t)'
    BY <2>3 DEF Placed, LocatedAt, Plainly, Breaks, ColumnFrom, Span, WidthOf, Wide, View
  <2>5. Before(i)' = s /\ tokens'[i] = t
    BY <2>1 DEF Before
  <2> QED BY <2>4, <2>5
<1>3. \A i \in Last' : i > 1 <=> i - 1 > 0
  BY <1>1 DEF Last
<1> QED
  BY <1>1, <1>2, <1>3, Zenon DEF LocationsExact, Placed, LocatedAt, Plainly, EndOf, Breaks, ColumnFrom, Span, Gap, NewLines

LEMMA Standing ==
  ASSUME Located, UNCHANGED <<text, at, line, column, tokens>>
  PROVE  Located'
BY ZenonT(60) DEF Located, LocatedAt, Plainly, Breaks, ColumnFrom, Span, WidthOf, Wide, Recent, Before

\* A <= whose = is left is followed by that =.
LEMMA EndedAtStart ==
  ASSUME IInv, Start <= Len(text), text[Start] # "="
  PROVE  Ended <= Start
<1>1. TypeOK
  BY DEF IInv
<1>2. Start \in at..(Len(text) + 1) /\ Ended \in Nat /\ at \in Nat /\ Len(text) \in Nat
  BY <1>1, StartIsBehindBlanks, LastTokenType DEF TypeOK
<1>3. CASE Ended <= at
  BY <1>2, <1>3
<1>4. CASE Ended = at + 1 /\ text[at] = "="
  <2>1. Start # at
    BY <1>4
  <2> QED BY <1>2, <1>4, <2>1
<1> QED BY <1>3, <1>4 DEF IInv, Tiled

LEMMA NewLineLocated ==
  ASSUME IInv, Located, NewLine
  PROVE  Located'
<1>1. TypeOK /\ Lexing
  BY DEF IInv, NewLine
<1>2. /\ Len(text) \in Nat /\ Start \in Nat /\ Start >= at /\ at \in Nat /\ line \in Nat
      /\ Start <= Len(text) /\ text[Start] = "\n"
      /\ \A j \in at..(Start - 1) : text[j] \in Blank
  BY <1>1, StartIsBehindBlanks DEF Lexing, TypeOK, NewLine, View
<1>3. Ended <= Start
  BY <1>2, EndedAtStart
<1>4. PICK s : s = Recent
  OBVIOUS
<1>5. PICK e \in Nat : e = EndOf(s)
  BY <1>1, <1>4, RecentType
<1>6. e <= Start /\ s.from <= at /\ s.from \in Nat /\ s.line \in Nat
  BY <1>1, <1>3, <1>4, <1>5, RecentType DEF Located
<1>7. PICK k : k = Len(tokens)
  OBVIOUS
<1>8. at' = Start + 1 /\ line' = line + 1 /\ column' = 0 /\ tokens' = tokens /\ text' = text
  BY DEF NewLine
<1>9. Recent' = s /\ Len(tokens)' = k
  BY <1>4, <1>7, <1>8 DEF Recent, Before
<1>10. ASSUME Plainly(k, s, Start + 1)
       PROVE  /\ line + 1 = s.line + Cardinality(Breaks(e, Start + 1))
              /\ 0 = ColumnFrom(s, Start + 1)
  <2>1. Plainly(k, s, at)
    BY <1>2, <1>5, <1>10 DEF Plainly
  <2>2. line = s.line + Cardinality(Breaks(e, at))
    BY <1>4, <1>5, <1>7, <2>1 DEF Located, LocatedAt
  <2>3. Breaks(e, Start + 1) = Breaks(e, at) \cup {Start} /\ Start \notin Breaks(e, at)
    <3>1. "\n" \notin Blank
      BY DEF Blank
    <3>2. Start \notin Breaks(e, at)
      BY <1>2 DEF Breaks
    <3>3. ASSUME NEW j PROVE j \in Breaks(e, Start + 1) <=> j \in Breaks(e, at) \cup {Start}
      BY <1>2, <1>6, <3>1 DEF Breaks
    <3> QED BY <3>2, <3>3
  <2>4. /\ IsFiniteSet(Breaks(e, at)) /\ Cardinality(Breaks(e, at)) \in Nat
    BY <1>2, BreaksAreFinite
  <2>5. Cardinality(Breaks(e, Start + 1)) = Cardinality(Breaks(e, at)) + 1
    BY <2>3, <2>4, FS_AddElement
  <2>6. Max(Breaks(e, Start + 1)) = Start
    <3>1. Breaks(e, Start + 1) \in SUBSET Nat /\ \A y \in Breaks(e, Start + 1) : Start >= y
      BY <1>2 DEF Breaks
    <3>2. Start \in Breaks(e, Start + 1)
      BY <2>3
    <3> QED BY <3>1, <3>2, GreatestIsMax
  <2>7. ColumnFrom(s, Start + 1) = Span(Start + 1, Start + 1)
    <3>1. Breaks(e, Start + 1) # {}
      BY <2>3
    <3> QED BY <1>5, <2>6, <3>1, Zenon DEF ColumnFrom
  <2>8. Span(Start + 1, Start + 1) = 0
    BY <1>2, SpanOfNothing
  <2> QED BY <1>2, <1>6, <2>2, <2>4, <2>5, <2>7, <2>8
<1>11. PICK b, l : b = Start + 1 /\ l = line + 1
  OBVIOUS
<1>12. LocatedAt(k, s, b, l, 0)
  BY <1>5, <1>10, <1>11, Zenon DEF LocatedAt
<1>13. LocatedAt(k, s, b, l, 0)'
  BY <1>8, <1>12 DEF LocatedAt, Plainly, Breaks, ColumnFrom, Span, WidthOf, Wide
<1>14. Recent'.from <= at'
  BY <1>2, <1>6, <1>8, <1>9
<1>15. b = at' /\ l = line' /\ column' = 0
  BY <1>8, <1>11
<1> QED BY <1>9, <1>13, <1>14, <1>15, Zenon DEF Located

LEMMA CommentLocated ==
  ASSUME IInv, Located, Comment
  PROVE  Located'
<1>1. TypeOK /\ Lexing
  BY DEF IInv, Comment
<1>2. /\ Len(text) \in Nat /\ Start \in Nat /\ Start >= at /\ at \in Nat
      /\ Start <= Len(text)
  BY <1>1, StartIsBehindBlanks DEF Lexing, TypeOK
<1>3. text[Start] = "/" /\ text' = text /\ tokens' = tokens /\ line' = line
  BY DEF Comment, AtComment, StartsWith, View
<1>4. CASE at' > Start
  <2>1. PICK s : s = Recent
    OBVIOUS
  <2>2. PICK e \in Nat : e = EndOf(s)
    BY <1>1, <2>1, RecentType
  <2>3. e <= Start /\ s.from <= at /\ s.from \in Nat
    BY <1>1, <1>2, <1>3, <2>1, <2>2, RecentType, EndedAtStart DEF Located
  <2>4. Recent' = s
    BY <1>3, <2>1 DEF Recent, Before
  <2>5. at' \in Nat
    BY <1>1, CommentStep DEF IInv, TypeOK
  <2>6. PICK b \in Nat : b = at'
    BY <2>5
  <2>7. ASSUME NEW k PROVE ~Plainly(k, s, b)
    <3>0. b > Start
      BY <1>4, <2>6
    <3>2. PICK x \in Nat : x = Start
      BY <1>2
    <3>3. x \in e..(b - 1)
      BY <2>3, <3>0, <3>2
    <3>1. Start \in e..(b - 1)
      BY <3>2, <3>3
    <3> QED BY <1>3, <2>2, <3>1 DEF Plainly
  <2>8. PICK k, l, c : k = Len(tokens)' /\ l = line' /\ c = column'
    OBVIOUS
  <2>9. (~Plainly(k, s, b))'
    BY <1>3, <2>7 DEF Plainly
  <2>10. LocatedAt(k, s, b, l, c)'
    BY <2>9 DEF LocatedAt
  <2>11. Recent'.from <= at'
    BY <1>2, <1>4, <2>3, <2>4, <2>5
  <2> QED BY <2>4, <2>6, <2>8, <2>10, <2>11, Zenon DEF Located
<1>5. CASE UNCHANGED <<at, column>>
  BY <1>3, <1>5, Standing
<1>6. at' > Start \/ UNCHANGED <<at, column>>
  <2>1. IInv'
    BY CommentStep
  <2>2. CommentEnd \in Start..(Len(text) + 1) /\ CommentEnd # Start
    <3>1. text \in Seq(STRING) /\ Start \in 1..(Len(text) + 1)
      BY <1>1, <1>2, StartIsBehindBlanks DEF TypeOK
    <3>2. /\ CommentEnd \in Start..(Len(text) + 1)
          /\ CommentEnd <= Len(text) => text[CommentEnd] \notin InComment
      BY <3>1, BehindEnds DEF CommentEnd
    <3>3. "/" \in InComment
      BY Zenon DEF InComment
    <3> QED BY <1>2, <1>3, <3>2, <3>3
  <2>3. CASE Advance(CommentEnd + 1 - Start)
    BY <1>2, <2>2, <2>3 DEF Advance
  <2>4. CASE Advance(CommentEnd - Start)
    BY <1>2, <2>2, <2>4 DEF Advance
  <2> QED BY <2>3, <2>4 DEF Comment
<1> QED BY <1>4, <1>5, <1>6

LEMMA MatchingPlaces == Matching \in SUBSET Nat
<1>1. DOMAIN Punctuation \subseteq Nat
  BY PunctuationIs
<1> QED BY <1>1 DEF Matching

LEMMA TokensLocated ==
  ASSUME IInv, Located, Number \/ String \/ Identifier \/ Punctuate \/ StaticLifetime \/ End
  PROVE  LocationsExact' /\ Located'
<1>1. TypeOK
  BY DEF IInv
<1>2. /\ Start \in Nat /\ line \in Nat /\ Column \in Nat
      /\ \A n \in Nat : WidthOf(Start, Start + n - 1) = Span(Start, Start + n)
  <2>1. Start \in Nat /\ line \in Nat /\ Column \in Nat
    BY <1>1, StartIsBehindBlanks DEF TypeOK
  <2>2. ASSUME NEW n \in Nat PROVE WidthOf(Start, Start + n - 1) = Span(Start, Start + n)
    <3>1. Start + n - 1 = (Start + n) - 1
      BY <2>1
    <3> QED BY <3>1, Zenon DEF Span
  <2> QED BY <2>1, <2>2, Zenon
<1>3. ASSUME NEW kind \in TokenKind, NEW size \in Nat, NEW n \in Nat, NEW c \in Nat,
             n <= size, c = Column \/ View(Start) = "'static",
             tokens' = Append(tokens, Token(kind, size, c)), at' = Start + n,
             column' = Column + Span(Start, Start + n), text' = text, line' = line
      PROVE  LocationsExact' /\ Located'
  <2>1. PICK t : t = Token(kind, size, c)
    OBVIOUS
  <2>2. t \in TokenType /\ t.from = Start /\ t.size = size /\ t.line = line /\ t.column = c
    BY <1>2, <2>1 DEF Token, TokenType
  <2> QED BY <1>1, <1>3, <2>1, <2>2, Placing
<1>4. ASSUME NEW kind \in TokenKind, NEW size \in Nat, NEW n \in Nat, n <= size,
             Emit(kind, size, n)
      PROVE  LocationsExact' /\ Located'
  BY <1>2, <1>3, <1>4 DEF Emit, Advance
<1>5. {"INTEGER_LITERAL", "STRING_LITERAL", "Identifier", "Keyword", "Eof"} \subseteq TokenKind
  BY DEF TokenKind
<1>6. CASE Number
  <2>1. tryLexDecLiteral \in Nat
    BY <1>1, <1>6, LengthsFit DEF Number, Fits
  <2> QED BY <1>4, <1>5, <1>6, <2>1 DEF Number
<1>7. CASE String
  <2>1. tryLexString \in Nat
    BY <1>1, <1>7, LengthsFit DEF String, Fits
  <2> QED BY <1>4, <1>5, <1>7, <2>1 DEF String
<1>8. CASE Identifier
  <2>1. tryLexIdentifier \in Nat
    BY <1>1, <1>8, LengthsFit DEF Identifier, Fits
  <2>2. PICK kind \in {"Identifier", "Keyword"} : Emit(kind, tryLexIdentifier, tryLexIdentifier)
    BY <1>8 DEF Identifier
  <2> QED BY <1>4, <1>5, <2>1, <2>2
<1>9. CASE Punctuate
  <2>1. PICK m : m = Min(Matching)
    OBVIOUS
  <2>2. m \in DOMAIN Punctuation
    <3>0. Matching # {}
      BY <1>9 DEF Punctuate
    <3>1. Matching \in SUBSET Nat /\ Matching # {}
      BY <3>0, MatchingPlaces
    <3> QED BY <2>1, <3>1, MinIsLeast DEF Matching
  <2>3. PICK p : p = Punctuation[m]
    OBVIOUS
  <2>4. Removable(p) /\ p.kind \in TokenKind
    BY <2>2, <2>3, PunctuationIsRemoved DEF TokenKind
  <2>5. Len(p.units) \in Nat /\ p.removed \in Nat /\ p.removed <= Len(p.units)
    BY <2>4 DEF Removable
  <2>6. Emit(p.kind, Len(p.units), p.removed)
    BY <1>9, <2>1, <2>3 DEF Punctuate
  <2> QED BY <1>4, <2>4, <2>5, <2>6
<1>10. CASE StaticLifetime
  <2>1. Column + Width("'static") \in Nat
    BY <1>2 DEF Width
  <2>2. PICK c \in Nat : c = Column + Width("'static")
    BY <2>1
  <2>3. /\ tokens' = Append(tokens, Token("Keyword", 1, c)) /\ at' = Start + 1
        /\ View(Start) = "'static" /\ text' = text /\ line' = line
        /\ column' = Column + WidthOf(Start, Start + 1 - 1)
    BY <1>10, <2>2 DEF StaticLifetime, Advance
  <2>4. column' = Column + Span(Start, Start + 1)
    BY <1>2, <2>3
  <2> QED BY <1>3, <1>5, <2>3, <2>4
<1>11. CASE End
  <2>1. Span(Start, Start) = 0 /\ Start + 0 = Start
    BY <1>2, SpanOfNothing
  <2>2. column' = Column + Span(Start, Start + 0) /\ at' = Start + 0
    BY <1>2, <1>11, <2>1 DEF End
  <2> QED BY <1>2, <1>3, <1>5, <1>11, <2>2 DEF End
<1> QED BY <1>6, <1>7, <1>8, <1>9, <1>10, <1>11

LEMMA InitLocated == Init => Located /\ LocationsExact
<1> SUFFICES ASSUME Init PROVE Located /\ LocationsExact
  OBVIOUS
<1>1. tokens = <<>> /\ Len(tokens) = 0 /\ at = 1 /\ line = 1 /\ column = 0
  BY DEF Init
<1>2. PICK s : s = Recent
  OBVIOUS
<1>3. s.from = 1 /\ s.size = 0 /\ s.line = 1 /\ s.column = 0
  <2>1. Len(tokens) + 1 = 1
    BY <1>1
  <2>2. s = [kind |-> "", line |-> 1, column |-> 0, from |-> 1, size |-> 0]
    BY <1>2, <2>1, Zenon DEF Recent, Before
  <2> QED BY <2>2
<1>4. EndOf(s) = 1
  BY <1>3 DEF EndOf
<1>5. Breaks(1, 1) = {} /\ Span(1, 1) = 0 /\ Cardinality(Breaks(1, 1)) = 0
  BY SpanOfNothing, FS_EmptySet
<1>6. ColumnFrom(s, 1) = 0 + 0
  BY <1>3, <1>4, <1>5, Zenon DEF ColumnFrom
<1>7. Located
  BY <1>1, <1>2, <1>3, <1>4, <1>5, <1>6 DEF Located, LocatedAt
<1> QED BY <1>1, <1>7 DEF LocationsExact, Last

LEMMA NextLocated ==
  IInv /\ Located /\ LocationsExact /\ [Next]_vars => Located' /\ LocationsExact'
<1> SUFFICES ASSUME IInv, Located, LocationsExact, [Next]_vars
             PROVE  Located' /\ LocationsExact'
  OBVIOUS
<1>1. CASE Number \/ String \/ Identifier \/ Punctuate \/ StaticLifetime \/ End
  BY <1>1, TokensLocated
<1>2. CASE Comment
  BY <1>2, CommentLocated, NotPlacing DEF Comment, IInv
<1>3. CASE NewLine
  BY <1>3, NewLineLocated, NotPlacing DEF NewLine, IInv
<1>4. CASE UnknownToken \/ Stopped \/ UNCHANGED vars
  BY <1>4, Standing, NotPlacing DEF UnknownToken, Stopped, vars, IInv
<1> QED BY <1>1, <1>2, <1>3, <1>4 DEF Next

\* Whatever the text, the line and the column of a token are those the text has
\* them in, counted from the token before it, unless a comment or 'static stands
\* between them: the two places where lex loses count are the only ones.
THEOREM AlwaysLocated == Spec => []LocationsExact
<1>1. IInv /\ Located /\ LocationsExact /\ [Next]_vars => Located' /\ LocationsExact'
  BY NextLocated
<1> QED BY <1>1, InitLocated, Invariance, PTL DEF Spec
=============================================================================
