----------------------------- MODULE Inference -----------------------------
(***************************************************************************)
(* Inference of the types of a function body (sema/TypeChecking/ and       *)
(* TyCtx/Unification.cpp).                                                 *)
(*                                                                         *)
(* A type is an object on the heap.  The typing context maps the nodes of  *)
(* the syntax tree to such objects; several nodes may share one, and       *)
(* checkExpression and applyScalarTypeHint change it in place.  Unifying   *)
(* two types makes a third one and gives it to every node that one of the  *)
(* two is known to stand for and whose type is still an inference          *)
(* variable.  A block checks every statement twice.                        *)
(*                                                                         *)
(* The function is chosen in the initial state: let statements,            *)
(* assignments, comparisons, sums, if expressions and returns over integer *)
(* and boolean literals and the variables declared so far.  A parameter is *)
(* a let with a type and no initialiser.  Types are scalars and the unit   *)
(* type: there are no TypeVariables, generics or floats here, no nested    *)
(* blocks but those that are one operand, and neither are the default      *)
(* hints of inference variables, which nothing reads, nor type objects no  *)
(* node ever stands for.                                                   *)
(***************************************************************************)
EXTENDS Naturals, Sequences, SequencesExt, FiniteSets

CONSTANT Functions     \* the functions that are checked

Integer == {"i32", "i64", "usize"}
Ground  == Integer \cup {"bool"}
Builtin == Ground \cup {"()"}

Atom == [form : {"integer", "boolean"}, of : {0}]
          \cup [form : {"variable"}, of : Nat \ {0}]
Statement ==
  [op : {"let"}, type : Ground \cup {"none"}, operator : {"none", "+", "==", "if"},
   args : Seq(Atom)]
  \cup [op : {"expression"}, type : {"none"}, operator : {"+", "==", "=", "+=", "if"},
        args : Seq(Atom)]
  \cup [op : {"return"}, type : {"none"}, operator : {"none"}, args : Seq(Atom)]
Function == [body : Seq(Statement), trailing : Seq(Atom), returns : Builtin]

\* The numbers of operands s may have: a let statement may have no initialiser.
Arity(s) == CASE s.operator = "none" -> IF s.op = "let" THEN {0, 1} ELSE {1}
              [] s.operator = "if" -> {3}
              [] OTHER -> {2}

\* The variables among atoms are declared by the first statements of a body.
Declared(atoms, body, first) ==
  \A k \in DOMAIN atoms : atoms[k].form = "variable" =>
    atoms[k].of \in 1..first /\ body[atoms[k].of].op = "let"

\* Operators have their operands, and names are resolved.
WellFormed(f) ==
  /\ \A i \in DOMAIN f.body :
       Len(f.body[i].args) \in Arity(f.body[i]) /\ Declared(f.body[i].args, f.body, i - 1)
  /\ Len(f.trailing) <= 1 /\ Declared(f.trailing, f.body, Len(f.body))

ASSUME InferenceAssumption ==
  Functions \subseteq Function /\ \A f \in Functions : WellFormed(f)

VARIABLES
  function,  \* the function that is checked
  heap,      \* the type objects, in the order of their allocation
  resolved,  \* TyCtx::resolved: node -> type object
  phase,     \* the loop of checkBlockExpression, or how far it is after them
  at,        \* the statement it is at
  values,    \* the types of the operands checked so far, and of their operation
  outcome    \* "running", "done" or "aborted"

vars == <<function, heap, resolved, phase, at, values, outcome>>

Body == function.body
Args == IF at \in DOMAIN Body THEN Body[at].args ELSE function.trailing
Operator == IF at \in DOMAIN Body THEN Body[at].operator ELSE "none"

\* A type object is [kind, ref, combined]: a builtin type, "General", "Integral" or
\* "Error"; the node it refers to and those combined with it.  Nodes of the syntax
\* tree are pairs of a statement and a role in it, those of copies of an object
\* and "copy".

-----------------------------------------------------------------------------
(* Type objects and the typing context *)

Inferred(t) == t.kind \in {"General", "Integral"}

\* A type no unification has seen yet.
Fresh(kind, node) == [kind |-> kind, ref |-> node, combined |-> {}]

Insert(ctx, node, object) ==
  [n \in DOMAIN ctx \cup {node} |-> IF n = node THEN object ELSE ctx[n]]

Builtins == <<"i32", "i64", "usize", "bool">>

\* TyCtx::lookupBuiltin. The builtin types come first.
BuiltinType(kind) == CHOOSE o \in 1..Len(Builtins) : Builtins[o] = kind

\* The copy of t, as object o. That of an inference variable is one more
\* variable, with a node of its own.
Clone(t, o) ==
  IF Inferred(t)
  THEN [t EXCEPT !.ref = <<o, "copy">>, !.combined = @ \cup {t.ref}]
  ELSE t

-----------------------------------------------------------------------------
(* Unification *)

\* Mutant: an integer type takes no variable of which nothing is known.
UnifiableIntegral(left, right) ==
  \/ Inferred(left) /\ (Inferred(right) \/ right.kind \in Integer)
  \/ left.kind = "General" /\ right.kind \in {"bool", "()"}
  \/ left.kind \in Integer /\ right.kind \in {"Integral", left.kind}
  \/ left.kind = "()" /\ right.kind \in {"General", "()"}

\* The pairs for which expect returns no error type and meets no assertion.
Unifiable(left, right) ==
  \/ Inferred(left) /\ (Inferred(right) \/ right.kind \in Integer)
  \/ left.kind = "General" /\ right.kind \in {"bool", "()"}
  \/ left.kind \in Integer /\ (Inferred(right) \/ right.kind = left.kind)
  \/ left.kind = "()" /\ right.kind \in {"General", "()"}

\* Mutant: no default case.
HintedAlways(left, right) ==
  IF Inferred(left) /\ ~Inferred(right)
  THEN [left EXCEPT !.kind = "Integral"] ELSE left

\* applyScalarTypeHint
Hinted(left, right) ==
  IF Inferred(left) /\ right.kind \in Integer
  THEN [left EXCEPT !.kind = "Integral"] ELSE left

\* What expect makes, as object o.
Expected(left, right, o) ==
  LET known == IF Inferred(right) /\ ~Inferred(left) THEN left ELSE right
  IN  IF left.kind = right.kind /\ left.kind \in {"i32", "i64", "()"}
      THEN Fresh(right.kind, right.ref)
      ELSE Clone(known, o)

\* The references commit gives the result, as object o, of unifying l and r.
Combined(left, right) ==
  {left.ref, right.ref} \cup left.combined \cup right.combined

\* Mutant: whatever type they had.
StaleAll(h, refs, kind) ==
  IF kind = "General" THEN {} ELSE refs \cap DOMAIN resolved

\* The nodes of refs that commit gives a new type, when objects are as in h and
\* the result is of the kind given.
Stale(h, refs, kind) ==
  IF kind = "General" THEN {}
  ELSE {n \in refs \cap DOMAIN resolved : Inferred(h[resolved[n]])}

\* unifyWithSite: the heap and the context it leaves, and the object it returns.
Unify(l, r) ==
  LET left  == Hinted(heap[l], heap[r])
      right == Hinted(heap[r], heap[l])
      o     == Len(heap) + 1
      made  == Expected(left, right, o)
      type  == [made EXCEPT !.combined = @ \cup Combined(left, right)]
      Seen(p) == (IF p = l THEN {made.ref, right.ref} ELSE {})
                   \cup (IF p = r THEN {made.ref, left.ref} ELSE {})
      known == [p \in 1..o |->
                  IF p = o THEN type
                  ELSE [heap[p] EXCEPT !.kind = IF p = l THEN left.kind
                                                ELSE IF p = r THEN right.kind
                                                ELSE @,
                                       !.combined = @ \cup Seen(p)]]
      stale == SetToSeq(Stale(known, type.combined, type.kind))
      last  == o + Len(stale)
      copies == IF Inferred(type) THEN {<<p, "copy">> : p \in o..last} ELSE {}
  IN  [type |-> o,
       heap |-> [p \in 1..last |-> IF p <= o THEN known[p] ELSE Clone(type, p)],
       resolved |->
         [n \in DOMAIN resolved \cup copies |->
            IF n \in Range(stale) THEN o + CHOOSE i \in DOMAIN stale : stale[i] = n
            ELSE IF n \in DOMAIN resolved THEN resolved[n]
            ELSE n[1]]]

\* The assertions of expect, emitFailedUnification and Coercion::coercion.
Fails(l, r) ==
  /\ ~Unifiable(heap[l], heap[r])
  /\ outcome' = "aborted"
  /\ UNCHANGED <<function, heap, resolved, phase, at, values>>

Unifies(l, r) ==
  /\ Unifiable(heap[l], heap[r])
  /\ heap' = Unify(l, r).heap /\ resolved' = Unify(l, r).resolved
  /\ UNCHANGED <<function, outcome>>

-----------------------------------------------------------------------------
(* Expressions *)

Argument == Args[Len(values) + 1]

\* The nodes the type of the next operand is that of, in the order they get it: a
\* branch is a block, with the operand at its end.
OperandNodes ==
  LET n == Len(values) + 1
  IN  CASE Operator = "none" -> <<<<at, "value">>>>
        [] Operator = "if" ->
             IF n = 1 THEN <<<<at, "condition">>>>
             ELSE <<<<at, <<"then", "else">>[n - 1]>>,
                    <<at, <<"thenBlock", "elseBlock">>[n - 1]>>>>
        [] OTHER -> <<<<at, <<"left", "right">>[n]>>>>

Pending(form) ==
  outcome = "running" /\ Len(values) < Len(Args) /\ Argument.form = form

\* The end of checkExpression, for an expression and the blocks that are no more
\* than it: object o of h is what nodes get, and it refers to the last of them.
Typed(h, ctx, nodes, o) ==
  /\ heap' = [h EXCEPT ![o].ref = Last(nodes)]
  /\ resolved' = [n \in DOMAIN ctx \cup Range(nodes) |->
                   IF n \in Range(nodes) THEN o ELSE ctx[n]]
  /\ values' = Append(values, o)
  /\ UNCHANGED <<function, phase, at, outcome>>

IntegerLiteral ==
  /\ Pending("integer")
  /\ Typed(Append(heap, Fresh("Integral", OperandNodes[1])), resolved,
           OperandNodes, Len(heap) + 1)

BooleanLiteral ==
  /\ Pending("boolean")
  /\ Typed(heap, resolved, OperandNodes, BuiltinType("bool"))

\* checkPathInExpression of a variable: its use shares its type.
Variable ==
  /\ Pending("variable")
  /\ LET pattern == <<Argument.of, "pattern">>
     IN  \/ /\ pattern \in DOMAIN resolved
            /\ Typed(heap, resolved, OperandNodes, resolved[pattern])
         \/ /\ pattern \notin DOMAIN resolved /\ outcome' = "aborted"
            /\ UNCHANGED <<function, heap, resolved, phase, at, values>>

Operands(operator) ==
  outcome = "running" /\ Operator = operator /\ Len(values) = Len(Args)

\* The statement after this one; after the last, the second loop or the
\* trailing expression.
NextStatement ==
  /\ values' = <<>>
  /\ \/ at < Len(Body) /\ at' = at + 1 /\ UNCHANGED phase
     \/ at = Len(Body) /\ phase = "first" /\ phase' = "second" /\ at' = 1
     \/ at = Len(Body) /\ phase = "second" /\ phase' = "trailing" /\ at' = at + 1

\* An operator expression of type o: the initialiser of a let statement, or a
\* statement of its own, whose node gets no type.
Evaluates(h, ctx, o) ==
  IF Body[at].op = "let" THEN Typed(h, ctx, <<<<at, "value">>>>, o)
  ELSE heap' = h /\ resolved' = ctx /\ NextStatement /\ UNCHANGED <<function, outcome>>

\* checkArithmeticOrLogicalExpression unifies the left operand with itself.
Arithmetic(t) == t.kind \in Integer \cup {"Integral"}

Sum ==
  /\ Operands("+")
  /\ LET l == values[1]
         u == Unify(l, l)
     IN  IF Arithmetic(heap[l]) /\ Arithmetic(heap[values[2]])
         THEN Evaluates(u.heap, u.resolved, u.type)
         ELSE Evaluates(Append(heap, Fresh("Error", <<at, "value">>)), resolved,
                        Len(heap) + 1)

Comparison ==
  /\ Operands("==")
  /\ LET u == Unify(values[1], values[2])
     IN  \/ /\ Unifiable(heap[values[1]], heap[values[2]])
            /\ Evaluates(u.heap, u.resolved, BuiltinType("bool"))
         \/ Fails(values[1], values[2])

\* The condition may have any type; the branches are unified.
If ==
  /\ Operands("if")
  /\ LET u == Unify(values[2], values[3])
     IN  \/ /\ Unifiable(heap[values[2]], heap[values[3]])
            /\ Evaluates(u.heap, u.resolved, u.type)
         \/ Fails(values[2], values[3])

\* coercionWithSite unifies twice, the second time with the first result: see
\* CoercionIsRepeatable.  For operands that are no numbers a compound assignment
\* has an error type, which a statement has no use for.
Assigns == {"=", "+="}

Assignment ==
  /\ \E operator \in Assigns : Operands(operator)
  /\ \/ /\ Unifies(values[1], values[2])
        /\ values' = Append(values, Unify(values[1], values[2]).type)
        /\ UNCHANGED <<phase, at>>
     \/ Fails(values[1], values[2])

AssignmentAgain ==
  /\ outcome = "running" /\ Operator \in Assigns /\ Len(values) = 3
  /\ Unifies(values[1], values[3]) /\ NextStatement

-----------------------------------------------------------------------------
(* Statements *)

\* The type object of the function's return type.
ReturnType == IF function.returns = "()" THEN Len(Builtins) + 1
              ELSE BuiltinType(function.returns)

Return ==
  /\ outcome = "running" /\ at <= Len(Body) /\ Body[at].op = "return"
  /\ Len(values) = 1
  /\ \/ Unifies(ReturnType, values[1]) /\ NextStatement
     \/ Fails(ReturnType, values[1])

\* checkLetStatement, with or without an initialiser.
AtLet(initialised) ==
  /\ outcome = "running" /\ at <= Len(Body) /\ Body[at].op = "let"
  /\ initialised = (Args # <<>>)
  /\ Len(values) = IF Operator = "none" THEN Len(Args) ELSE Len(Args) + 1

\* Mutant: the first operand.
FirstOperand == values[1]

\* The let node is noted on it too (Statement.cpp:72), a node that has no type.
Initialiser == values[Len(values)]
Specified == Body[at].type # "none"

\* checkPattern of the identifier: it shares the type as well.
Declares(h, ctx, o) ==
  /\ heap' = h /\ resolved' = Insert(ctx, <<at, "pattern">>, o)
  /\ NextStatement /\ UNCHANGED <<function, outcome>>

\* The second loop ends at a statement without a type, and the function is
\* taken for checked.
LetError ==
  /\ AtLet(TRUE) /\ heap[Initialiser].kind = "Error"
  /\ \/ phase = "first" /\ NextStatement /\ UNCHANGED <<function, heap, resolved, outcome>>
     \/ /\ phase = "second" /\ outcome' = "done"
        /\ UNCHANGED <<function, heap, resolved, phase, at, values>>

LetCoerced ==
  /\ AtLet(TRUE) /\ heap[Initialiser].kind # "Error" /\ Specified
  /\ LET expected == BuiltinType(Body[at].type)
         u == Unify(expected, Initialiser)
     IN  \/ /\ Unifiable(heap[expected], heap[Initialiser])
            /\ Declares(u.heap, u.resolved, expected)
         \/ Fails(expected, Initialiser)

LetInferred ==
  /\ AtLet(TRUE) /\ heap[Initialiser].kind # "Error" /\ ~Specified
  /\ Declares(heap, resolved, Initialiser)

LetDeclared ==
  /\ AtLet(FALSE)
  /\ IF Specified THEN Declares(heap, resolved, BuiltinType(Body[at].type))
     ELSE Declares(Append(heap, Fresh("General", <<at, "let">>)), resolved,
                   Len(heap) + 1)

-----------------------------------------------------------------------------
(* The function *)

HasReturn == \E i \in DOMAIN Body : Body[i].op = "return"

\* The end of checkBlockExpression and checkExpression of the block.  A block
\* that returns and has no trailing expression has type !, which no return type
\* can be unified with.
Block ==
  /\ outcome = "running" /\ phase = "trailing" /\ Len(values) = Len(Args)
  /\ LET node == <<at, "block">>
         unit == Append(heap, Fresh("()", node))
     IN  \/ /\ Args # <<>> /\ phase' = "body"
            /\ heap' = [heap EXCEPT ![values[1]].ref = node]
            /\ resolved' = Insert(resolved, node, values[1])
            /\ UNCHANGED <<function, at, values, outcome>>
         \/ /\ Args = <<>> /\ ~HasReturn /\ phase' = "body"
            /\ heap' = unit /\ resolved' = Insert(resolved, node, Len(unit))
            /\ values' = <<Len(unit)>>
            /\ UNCHANGED <<function, at, outcome>>
         \/ /\ Args = <<>> /\ HasReturn /\ outcome' = "aborted"
            /\ UNCHANGED <<function, heap, resolved, phase, at, values>>

\* The end of checkFunction: coercionWithSite again.
Coerce ==
  /\ outcome = "running" /\ phase = "body" /\ Len(values) = 1
  /\ \/ /\ Unifies(ReturnType, values[1])
        /\ values' = Append(values, Unify(ReturnType, values[1]).type)
        /\ UNCHANGED <<phase, at>>
     \/ Fails(ReturnType, values[1])

CoerceAgain ==
  /\ outcome = "running" /\ phase = "body" /\ Len(values) = 2
  /\ Unifiable(heap[ReturnType], heap[values[2]]) /\ outcome' = "done"
  /\ heap' = Unify(ReturnType, values[2]).heap
  /\ resolved' = Unify(ReturnType, values[2]).resolved
  /\ UNCHANGED <<function, phase, at, values>>

\* checkFunction up to its body. The builtin types are shared: the return type
\* of a function that has one stands for the node of that type from now on.
Init ==
  /\ function \in Functions
  /\ LET scalars == [o \in DOMAIN Builtins |->
                       Fresh(Builtins[o],
                             IF Builtins[o] = function.returns THEN <<0, "function">>
                             ELSE <<o, "builtin">>)]
     IN  heap = IF function.returns = "()"
                THEN Append(scalars, Fresh("()", <<0, "function">>)) ELSE scalars
  /\ resolved = [n \in {<<o, "builtin">> : o \in DOMAIN Builtins}
                         \cup (IF function.returns = "()" THEN {} ELSE {<<0, "function">>}) |->
                   IF n[2] = "builtin" THEN n[1] ELSE BuiltinType(function.returns)]
  /\ phase = (IF Body = <<>> THEN "trailing" ELSE "first")
  /\ at = 1
  /\ values = <<>>
  /\ outcome = "running"

Next ==
  \/ IntegerLiteral \/ BooleanLiteral \/ Variable
  \/ Sum \/ Comparison \/ If \/ Assignment \/ AssignmentAgain
  \/ Return \/ LetError \/ LetCoerced \/ LetInferred \/ LetDeclared
  \/ Block \/ Coerce \/ CoerceAgain

Spec == Init /\ [][Next]_vars

-----------------------------------------------------------------------------
(* Properties *)

\* What the language says of a function: typing gives every variable its type.
HasType(typing, atom, t) ==
  \/ atom.form = "integer" /\ t \in Integer
  \/ atom.form = "boolean" /\ t = "bool"
  \/ atom.form = "variable" /\ t = typing[atom.of]

OperandTypes(typing, args) ==
  {t \in Ground : \A i \in DOMAIN args : HasType(typing, args[i], t)}

Types(typing, s) ==
  CASE s.operator = "none" -> OperandTypes(typing, s.args)
    [] s.operator = "+"    -> OperandTypes(typing, s.args) \cap Integer
    [] s.operator = "if" -> IF HasType(typing, s.args[1], "bool")
                            THEN OperandTypes(typing, Tail(s.args)) ELSE {}
    [] s.operator = "+=" -> IF OperandTypes(typing, s.args) \cap Integer = {} THEN {}
                            ELSE {"()"}
    [] OTHER -> IF OperandTypes(typing, s.args) = {} THEN {}
                ELSE IF s.operator = "==" THEN {"bool"} ELSE {"()"}

IsTyping(typing) ==
  /\ \A i \in DOMAIN Body :
       LET s == Body[i] IN
       CASE s.op = "let" -> /\ s.args # <<>> => typing[i] \in Types(typing, s)
                            /\ s.type # "none" => typing[i] = s.type
         [] s.op = "return" -> function.returns \in Types(typing, s)
         [] OTHER -> Types(typing, s) # {}
  /\ IF function.trailing = <<>> THEN function.returns = "()" \/ HasReturn
     ELSE function.returns \in OperandTypes(typing, function.trailing)

Lets == {i \in DOMAIN Body : Body[i].op = "let"}
Typings == {typing \in [Lets -> Ground] : IsTyping(typing)}

Admits(t, kind) == \/ t.kind \in {kind, "General", "Error"}
                   \/ t.kind = "Integral" /\ kind \in Integer

\* The types a node of the function has in a typing.
NodeTypes(typing, n) ==
  CASE n[2] = "pattern" -> {typing[n[1]]}
    [] n[2] = "value" /\ n[1] \in Lets -> {typing[n[1]]}
    [] n[2] \in {"value", "block"} /\ n[1] \notin Lets -> {function.returns}
    [] n[2] \in {"left", "right"} ->
         LET s == Body[n[1]]
         IN  {t \in OperandTypes(typing, s.args) :
                /\ s.operator = "+" => t \in (IF s.op = "let" THEN {typing[n[1]]} ELSE Integer)
                /\ s.operator = "+=" => t \in Integer}
    [] n[2] = "condition" -> {"bool"}
    [] n[2] \in {"then", "else", "thenBlock", "elseBlock"} ->
         LET s == Body[n[1]]
         IN  IF s.op = "let" THEN {typing[n[1]]} ELSE OperandTypes(typing, Tail(s.args))
    [] OTHER -> {}

\* checkBlockExpression, unify and commit never give a variable or an operand a
\* type that the function forbids, in either loop and however the types are
\* shared: in every typing of the function its type is still possible.
AgreesWithTypings ==
  \A typing \in Typings : \A n \in DOMAIN resolved :
    n[2] \in {"pattern", "value", "left", "right", "condition", "then", "else",
              "thenBlock", "elseBlock"} =>
      \E t \in NodeTypes(typing, n) : Admits(heap[resolved[n]], t)

\* Where the checker gives up on a function that has types.
UnifiesWithBool(typing) ==
  \/ function.returns = "bool"
  \/ \E i \in DOMAIN Body :
       \/ Body[i].op = "let" /\ Body[i].type = "bool" /\ Body[i].args # <<>>
       \/ Body[i].operator \in {"==", "="} /\ OperandTypes(typing, Body[i].args) = {"bool"}
       \/ Body[i].operator = "if" /\ OperandTypes(typing, Tail(Body[i].args)) = {"bool"}
OnlyReturns == HasReturn /\ function.trailing = <<>>
AddsUndeclared ==
  /\ \E i \in DOMAIN Body : Body[i].operator = "+"
  /\ \E i \in Lets : Body[i].type = "none" /\ Body[i].args = <<>>

\* An assertion of unify, coercion or a query fails only for a function without a
\* typing, or where the code is not finished: bool on the left of expect, a block
\* that returns and has no trailing expression, sums of a variable declared
\* without type and initialiser.
AbortsOnlyIfIllTyped ==
  outcome = "aborted" =>
    \A typing \in Typings :
      UnifiesWithBool(typing) \/ OnlyReturns \/ AddsUndeclared

\* The type a let statement or a function declares is the type of the
\* initialiser or of what a return returns when the function has been checked, so
\* that emitLiteralExpression does not meet a variable.  Only a let statement with an
\* error, where the check of the body was given up, has none.  The same does not hold
\* of a trailing expression, whose type stands for the block when it is coerced.
DeclaredTypesReach ==
  outcome = "done" =>
    \A i \in DOMAIN Body :
      LET s == Body[i]
          declared == IF s.op = "return" THEN function.returns ELSE s.type
          node == <<i, "value">>
      IN  s.op \in {"let", "return"} /\ s.args # <<>> /\ declared # "none"
            => \/ heap[resolved[node]].kind = declared
               \/ phase = "second" /\ heap[resolved[node]].kind = "Error"

\* What coercionWithSite has unified once unifies with the left type again.
CoercionIsRepeatable ==
  outcome = "running" =>
    /\ phase = "body" /\ Len(values) = 2
         => Unifiable(heap[ReturnType], heap[values[2]])
    /\ Operator \in Assigns /\ Len(values) = 3
         => Unifiable(heap[values[1]], heap[values[3]])

=============================================================================
