---------------------------- MODULE MCInference ----------------------------
(***************************************************************************)
(* Every function of at most two statements over integers of two kinds,    *)
(* booleans and the unit type; and of three statements where each that     *)
(* follows the first mentions a variable.                                  *)
(***************************************************************************)
EXTENDS Inference

\* The variables a body declares, and the atoms over them.
Variables(body) == {i \in DOMAIN body : body[i].op = "let"}
Uses(body)  == [form : {"variable"}, of : Variables(body)]
Literals    == {[form |-> "integer", of |-> 0], [form |-> "boolean", of |-> 0]}
Atoms(body) == Literals \cup Uses(body)

\* Initialisers or operands over atoms, a variable first in an operation
\* and in a branch. Conditions are true, or a variable.
Simple(op, types, args) ==
  [op : {op}, type : types, operator : {"none"}, args : args]
Operation(op, operators, args) ==
  [op : {op}, type : {"none"}, operator : operators, args : args]

Declarable == {"none", "i32", "i64", "usize", "bool"}

True == {[form |-> "boolean", of |-> 0]}

\* The statements over atoms that may follow a body.
Following(body, atoms) ==
  Simple("let", Declarable, {<<a>> : a \in atoms})
    \cup [op : {"let"}, type : {"none", "i64"}, operator : {"+", "=="},
          args : Uses(body) \X atoms]
    \cup Operation("expression", {"+", "=", "+=", "=="}, Uses(body) \X atoms)
    \cup [op : {"let"}, type : {"none", "i64"}, operator : {"if"},
          args : True \X Uses(body) \X atoms]
    \cup Operation("expression", {"if"}, Uses(body) \X Uses(body) \X Literals)
    \cup Simple("return", {"none"}, {<<a>> : a \in atoms})

Declarations == Simple("let", Declarable, {<<>>})

Longer(bodies) ==
  UNION {{Append(b, s) : s \in Declarations \cup Following(b, Atoms(b))} : b \in bodies}
Using(bodies) ==
  UNION {{Append(b, s) : s \in Following(b, Uses(b))} : b \in bodies}

One == Longer({<<>>})
Bodies == {<<>>} \cup One \cup Longer(One) \cup Using(Using(One))

\* With and without a trailing expression.
MCFunctions ==
  UNION {[body : {b}, trailing : {<<>>}, returns : {"()", "i32"}]
           \cup [body : {b}, trailing : {<<a>> : a \in Uses(b)}, returns : {"i32"}]
         : b \in Bodies}
=============================================================================
