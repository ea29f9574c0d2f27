--------------------------- MODULE MCExpressions ---------------------------
EXTENDS Expressions

Words(tokens, n) == UNION {[1..k -> tokens] : k \in 0..n}

\* Four operands and three infix operators.
Chain(f) == [i \in 1..7 |-> IF i % 2 = 1 THEN "x" ELSE f[i \div 2]]

\* The first element of an array is lost, and the operand of the tuple in it.
Array == <<"[", "(", "(", "(", ")", ",", ")", ",", "x", "]">>

MCTexts ==
  {Array}
    \cup {Chain(f) : f \in [1..3 -> Infix]}
    \cup Words({"x", "*", "=", ".."}, 6)
    \cup Words({"x", "(", ")", "[", "]", ",", ";"}, 6)
    \cup Words({"x", "1", ".", "(", ")", ","}, 6)
    \cup Words({"x", "1", "-", "&&", "&", "mut", "*", "return", "..", "?", ".", "(", ")"}, 4)
=============================================================================
