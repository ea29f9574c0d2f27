------------------------------ MODULE MCLexer ------------------------------
(***************************************************************************)
(* Short texts of all units, longer ones of those whose tokens are long.   *)
(***************************************************************************)
EXTENDS Lexer

Units == InComment \cup {"\n", "\t", "$crate", "@", "#", "|", "^", "%", "other"}
Mixed == {" ", "\n", "/", "*", "a", "fn", "_", "0", "\"", "'static", "#", "<", "="}
Joined == {".", "=", "<", ">", "!", "&", ":", "-", "+", " "}
Words == {"0", "a", " ", "\""}
TextsOf(units, lengths) == UNION {[1..n -> units] : n \in lengths}
MCTexts == TextsOf(Units, 0..2) \cup TextsOf(Mixed, {4}) \cup TextsOf(Mixed \cup {"-", ":"}, {3}) \cup TextsOf(Joined, {3, 4}) \cup TextsOf(Words, 5..7)
=============================================================================
