--------------------------- MODULE MCBuiltinEngine ---------------------------
(* Instances of BuiltinEngine for TLC. *)
EXTENDS BuiltinEngine, TLC

\* Three tasks share the prompt "p", which two jobs fill with 3 tokens.  The
\* second fills 2 more before it generates.
SharedJobs == 1..6
SharedGens == {3, 5, 6}
SharedCtx == <<"p", "p", "g1", "q", "g2", "g3">>
SharedParent == <<None, None, "p", "p", "q", "p">>
SharedTask == <<1, 1, 1, 2, 2, 3>>
SharedFill == <<2, 1, 0, 2, 0, 0>>
SharedMax == <<0, 0, 4, 0, 1, 5>>

\* The prompts are those the theorems speak of.
ASSUME SharedPromptsFilled == PromptsFilled
=============================================================================
