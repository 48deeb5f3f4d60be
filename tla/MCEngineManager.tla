-------------------------- MODULE MCEngineManager --------------------------
(* An instance of EngineManager for TLC: two models share a tokenizer. *)
EXTENDS EngineManager, TLC

CONSTANTS p1, p2, m1, m2, shared

MCConfig == p1 :> m1 @@ p2 :> m2
MCTokenizer == m1 :> shared @@ m2 :> shared
=============================================================================
