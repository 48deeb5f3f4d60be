--------------------------- MODULE MCGraphExecutor ---------------------------
(* Instances of GraphExecutor for TLC. *)
EXTENDS GraphExecutor, TLC

CONSTANTS t1, t2, t3

\* t1 and t2 share the prompt "c", "a", which begins with a constant
\* prefix; t3 consumes what t1 generates.
ExecChain == t1 :> <<"c", "a", "g1">> @@ t2 :> <<"c", "a", "g2">>
             @@ t3 :> <<"g1", "g3">>
ExecVars == {"c", "a", "g1", "g2", "g3"}

\* Two tasks that share their whole prompt.
WaitChain == t1 :> <<"c", "g1">> @@ t2 :> <<"c", "g2">>
=============================================================================
