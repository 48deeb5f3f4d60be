-------------------------- MODULE MCGlobalScheduler --------------------------
(* Instances of GlobalScheduler for TLC. *)
EXTENDS GlobalScheduler, TLC

CONSTANTS t1, t2, t3, t4, g1, g2

FourTasks == {t1, t2, t3, t4}

\* Two latency tasks, which go alone, and two throughput tasks.
Uppers == t1 :> 1 @@ t2 :> 99 @@ t3 :> 1 @@ t4 :> 99

\* t4 needs twice the tokens of the others.
Sizes == [t \in FourTasks |-> [e \in 1..2 |-> IF t = t4 THEN 2 ELSE 1]]

\* t2 and t4 name the model of the second engine.
Models == [t \in FourTasks |-> IF t \in {t2, t4} THEN {2} ELSE 1..2]

Depths == t1 :> 0 @@ t2 :> 1 @@ t3 :> 0 @@ t4 :> 1

\* t1 and t3 have a common consumer, and so have t2 and t4; t2, t3 and t4
\* start with the same prompt.
Groups == t1 :> g1 @@ t2 :> g2 @@ t3 :> g1 @@ t4 :> g2
Prompts == t1 :> "p" @@ t2 :> "q" @@ t3 :> "q" @@ t4 :> "q"

Config(fifo, graph, ctx, aware) ==
    [appFifo |-> fifo, graphGroup |-> graph, ctxGroup |-> ctx,
     ctxAware |-> aware]

\* First come first served with affinity, by depth, by graph, by prompt.
FourConfigs ==
    {Config(FALSE, FALSE, FALSE, TRUE), Config(TRUE, FALSE, FALSE, FALSE),
     Config(FALSE, TRUE, FALSE, FALSE), Config(FALSE, FALSE, TRUE, TRUE)}
==============================================================================
