-------------------------- MODULE MCContextManager --------------------------
(* Instances of ContextManager for TLC. *)
EXTENDS ContextManager, TLC

CONSTANTS t1, t2, t3

\* A shared constant prefix "c"; t1 and t2 share the longer prefix c, a; t3
\* consumes what t1 generates.
SharedChain == t1 :> <<"c", "a", "g1">> @@ t2 :> <<"c", "a", "g2">>
               @@ t3 :> <<"c", "g1", "g3">>
SharedVars == {"c", "a", "g1", "g2", "g3"}

ContextSymmetry == Permutations(ContextIds)
=============================================================================
