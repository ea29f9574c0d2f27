---------------------------- MODULE VisibleScope ----------------------------
(***************************************************************************)
(* What the name resolver promises about values, whatever the constructs   *)
(* of the language are: declarations live in nested scopes, disappear with *)
(* the scope they were made in, and a reference denotes one of those that  *)
(* are visible under its name at the moment it is resolved, for ever.      *)
(***************************************************************************)
EXTENDS Naturals, Sequences

CONSTANTS Name, Decl, Ref, None

VARIABLES env,      \* the open scopes, outermost first: Name -> Decl or None
          denotes   \* Ref -> Decl or None

vars == <<env, denotes>>

Empty == [n \in Name |-> None]

Init == env = <<Empty>> /\ denotes = [r \in Ref |-> None]

Open == env' = Append(env, Empty) /\ UNCHANGED denotes

Close ==
  /\ Len(env) > 1
  /\ env' = SubSeq(env, 1, Len(env) - 1)
  /\ UNCHANGED denotes

\* A declaration is made once, in the innermost scope.
Declare(n, d) ==
  /\ \A i \in 1..Len(env) : \A m \in Name : env[i][m] # d
  /\ env' = [env EXCEPT ![Len(env)] = [@ EXCEPT ![n] = d]]
  /\ UNCHANGED denotes

Refer(n, r) ==
  /\ denotes[r] = None
  /\ \E i \in 1..Len(env) :
       /\ env[i][n] # None
       /\ denotes' = [denotes EXCEPT ![r] = env[i][n]]
  /\ UNCHANGED env

Next ==
  \/ Open \/ Close
  \/ \E n \in Name : (\E d \in Decl : Declare(n, d)) \/ (\E r \in Ref : Refer(n, r))

Spec == Init /\ [][Next]_vars
=============================================================================
