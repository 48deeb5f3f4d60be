---------------------------- MODULE GraphExecutor ----------------------------
(***************************************************************************)
(* serve/session/graph_executor.py on top of the context manager: the      *)
(* coroutine of every completion task walks the contexts of its task.  A   *)
(* context that nobody has started is filled by a request to its engine;   *)
(* one that another coroutine has started is awaited; one that is ready is *)
(* skipped.  A request that fails marks an engine as bad, and the serve    *)
(* loop sweeps it.                                                         *)
(*                                                                         *)
(* The steps between two awaits are modelled one node at a time.  Requests *)
(* are those without fuse_fill, so that SetTaskContextsFails cannot happen *)
(* (CacheIsTree).  Scheduling is a free choice of a registered engine: one *)
(* that became bad after the schedule and before the coroutine woke up is  *)
(* still registered.  Faults happen to the engines in Mortal.              *)
(***************************************************************************)
EXTENDS ContextManager

CONSTANT Mortal

ASSUME ExecutorAssumption == Mortal \subseteq Engines

VARIABLES
    node,       \* [Tasks -> Nat]: index of the loop in execute
    step,       \* [Tasks -> Steps]: what the coroutine is doing
    started,    \* contexts whose start_event is set
    ready,      \* contexts whose ready_event is set
    generated,  \* variables with content
    bad,        \* engines with status BAD
    errors      \* tasks with status ERROR

Steps == {"none", "look", "post", "wait", "end"}

loopVars == <<node, step>>
eventVars == <<started, ready>>
errVars == <<bad, errors>>
execVars == <<loopVars, eventVars, generated, errVars>>
allVars == <<vars, execVars>>

ExecInit ==
    /\ Init
    /\ node = [t \in Tasks |-> 0]
    /\ step = [t \in Tasks |-> "none"]
    /\ started = {} /\ ready = {} /\ generated = {}
    /\ bad = {} /\ errors = {}

Outputs == {Chain[t][Last(t)] : t \in Tasks}

\* Every variable that the Fill nodes of t read has its content.
FillsReady(t) ==
    \A i \in 1..(Last(t) - 1) :
        Chain[t][i] \in Outputs => Chain[t][i] \in generated

\* The context of the node task t is at, and its engine.
Here(t) == taskContexts[t][node[t]]
EngineHere(t) == contexts[Here(t)].engine

-----------------------------------------------------------------------------
(* _execute_coroutine *)

\* The inputs are ready, the task is scheduled and gets its contexts.
Start(t, e, k) ==
    /\ FillsReady(t)
    /\ SetTaskContexts(t, e, k)
    /\ node' = [node EXCEPT ![t] = 1]
    /\ step' = [step EXCEPT ![t] = "look"]
    /\ UNCHANGED <<eventVars, generated, errVars>>

\* Back to the head of the loop, or out of it after the last node.
Advance(t) ==
    /\ node' = [node EXCEPT ![t] = @ + 1]
    /\ step' = [step EXCEPT ![t] = IF node[t] = Last(t) THEN "end" ELSE "look"]

\* The events of freed contexts go with the Context objects.
ForgetEvents ==
    /\ started' = started \cap DOMAIN contexts'
    /\ ready' = ready \cap DOMAIN contexts'

\* free_task and free_task_contexts.
Finish(t) ==
    /\ step[t] = "end"
    /\ FreeTaskContexts(t)
    /\ step' = [step EXCEPT ![t] = "none"]
    /\ ForgetEvents
    /\ UNCHANGED <<node, generated, errVars>>

FinishFails(t) ==
    /\ step[t] = "end"
    /\ FreeTaskContextsFails(t)
    /\ UNCHANGED execVars

-----------------------------------------------------------------------------
(* execute *)

SkipReady(t) ==
    /\ down = "no"
    /\ step[t] = "look"
    /\ Here(t) \in ready
    /\ Advance(t)
    /\ UNCHANGED <<vars, eventVars, generated, errVars>>

Await(t) ==
    /\ down = "no"
    /\ step[t] = "look"
    /\ Here(t) \in started \ ready
    /\ step' = [step EXCEPT ![t] = "wait"]
    /\ UNCHANGED <<vars, node, eventVars, generated, errVars>>

Wake(t) ==
    /\ down = "no"
    /\ step[t] = "wait"
    /\ Here(t) \in ready
    /\ Advance(t)
    /\ UNCHANGED <<vars, eventVars, generated, errVars>>

Post_Unmarked(t) ==
    /\ down = "no"
    /\ step[t] = "look"
    /\ Here(t) \notin started
    /\ step' = [step EXCEPT ![t] = "post"]
    /\ UNCHANGED <<vars, started, node, ready, generated, errVars>>

\* The Fill or Generate primitive is posted.
Post(t) ==
    /\ down = "no"
    /\ step[t] = "look"
    /\ Here(t) \notin started
    /\ started' = started \cup {Here(t)}
    /\ step' = [step EXCEPT ![t] = "post"]
    /\ UNCHANGED <<vars, node, ready, generated, errVars>>

Answered_NotReady(t) ==
    /\ down = "no"
    /\ step[t] = "post"
    /\ EngineHere(t) \in alive
    /\ generated' = generated \cup
          (IF node[t] = Last(t) THEN {Chain[t][Last(t)]} ELSE {})
    /\ Advance(t)
    /\ UNCHANGED <<vars, eventVars, errVars>>

\* The engine has run the primitive; a Generate sets its variable.
Answered(t) ==
    /\ down = "no"
    /\ step[t] = "post"
    /\ EngineHere(t) \in alive
    /\ ready' = ready \cup {Here(t)}
    /\ generated' = generated \cup
          (IF node[t] = Last(t) THEN {Chain[t][Last(t)]} ELSE {})
    /\ Advance(t)
    /\ UNCHANGED <<vars, started, errVars>>

\* The request fails: raise_exception looks the engine up by its id, which
\* by now may belong to another engine.
Failed(t) ==
    /\ down = "no"
    /\ step[t] = "post"
    /\ EngineHere(t) \in Mortal
    /\ \E f \in registered :
          /\ engineId[f] = engineId[EngineHere(t)]
          /\ bad' = bad \cup {f}
    /\ errors' = errors \cup {t}
    /\ step' = [step EXCEPT ![t] = "end"]
    /\ UNCHANGED <<vars, node, eventVars, generated>>

\* It fails after the engine was swept: raise_exception raises KeyError in
\* the exception handler, which ends the process.
FailedUnknown(t) ==
    /\ down = "no"
    /\ step[t] = "post"
    /\ EngineHere(t) \in Mortal
    /\ \A f \in registered : engineId[f] # engineId[EngineHere(t)]
    /\ down' = "engine gone"
    /\ UNCHANGED <<taskVars, ctxVars, cacheVars, constPVars, engVars, execVars>>

-----------------------------------------------------------------------------
(* The other callers of the context manager *)

Environment ==
    \/ \E t \in Tasks : SubmitRequest(t, FALSE)
    \/ \E e \in Engines, id \in EngineIds : RegisterEngine(e, id)
    \/ \E e \in Mortal : EngineDies(e)

\* The serve loop sweeps an engine that is bad or has not been heard of.
Sweep(e) ==
    /\ RemoveEngine(e)
    /\ bad' = bad \ {e}
    /\ UNCHANGED <<loopVars, eventVars, generated, errors>>

Expire(v) ==
    /\ ExpireConstVar(v)
    /\ ForgetEvents
    /\ UNCHANGED <<loopVars, generated, errVars>>

ExpireEnds(v) ==
    /\ ExpireConstVarAsserts(v) \/ ExpireConstVarFails(v)
    /\ UNCHANGED execVars

Coroutine(t) ==
    \/ Finish(t)
    \/ FinishFails(t)
    \/ SkipReady(t)
    \/ Await(t)
    \/ Wake(t)
    \/ Post(t)
    \/ Answered(t)
    \/ Failed(t)
    \/ FailedUnknown(t)

ExecNext ==
    \/ \E t \in Tasks, e \in Engines : \E k \in 0..Last(t) : Start(t, e, k)
    \/ \E t \in Tasks : Coroutine(t)
    \/ Environment /\ UNCHANGED execVars
    \/ \E e \in Mortal : Sweep(e)
    \/ \E v \in ConstVars : Expire(v) \/ ExpireEnds(v)

ExecSpec == ExecInit /\ [][ExecNext]_allVars

\* The event loop runs every coroutine that can go on.  A live engine answers
\* and the connection to a dead one breaks.
FairExecSpec == ExecSpec /\ \A t \in Tasks : WF_allVars(Coroutine(t))

-----------------------------------------------------------------------------
(* Properties *)

ExecTypeOK ==
    /\ step \in [Tasks -> Steps]
    /\ \A t \in Tasks : /\ node[t] \in 0..(Last(t) + 1)
                        /\ step[t] # "none" <=> phase[t] = "bound"
    /\ ready \subseteq started /\ started \subseteq DOMAIN contexts
    /\ generated \subseteq Outputs
    /\ bad \subseteq registered /\ errors \subseteq Tasks

\* A context is filled by one task only: no two requests for the same context
\* are in flight, and none for a context that is ready.
FilledOnce ==
    \A t \in Tasks : step[t] = "post" =>
        /\ Here(t) \in started \ ready
        /\ \A u \in Tasks : step[u] = "post" /\ Here(u) = Here(t) => u = t

\* When a primitive is in flight, all contexts before it on its path have been
\* filled, whoever filled them, and none of them has been freed.
PromptReady ==
    \A t \in Tasks : step[t] = "post" =>
        /\ contexts[Here(t)].parent # None => contexts[Here(t)].parent \in ready
        /\ \A j \in 1..(node[t] - 1) : taskContexts[t][j] \in ready

\* Contexts are filled once and in the order of the prompt, by whichever
\* coroutine comes first.
FilledInOrder == ExecTypeOK /\ FilledOnce /\ PromptReady

\* As long as no request fails, every task that has started ends, and its
\* contexts are given back.
TaskCompletes ==
    \A t \in Tasks :
        phase[t] = "bound" ~> phase[t] = "freed" \/ down # "no" \/ errors # {}

\* execute: "Wait for the context to be ready if the Context is started."
\* Every wait comes to an end.
WaitEnds ==
    \A t \in Tasks : step[t] = "wait" ~> step[t] # "wait" \/ down # "no"
==============================================================================
