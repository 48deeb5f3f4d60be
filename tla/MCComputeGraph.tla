--------------------------- MODULE MCComputeGraph ---------------------------
(* Requests of one chain over texts and variables, one with two outputs,   *)
(* and native functions with one and with two outputs.                     *)
EXTENDS ComputeGraph

MCShapes == {<<"text", "gen">>, <<"in", "in", "gen">>,
             <<"text", "gen", "text", "gen">>}
MCNativeShapes == {<<"in", "gen">>, <<"val", "gen", "gen">>}
=============================================================================
