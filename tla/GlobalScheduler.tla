--------------------------- MODULE GlobalScheduler ---------------------------
(***************************************************************************)
(* serve/scheduler/global_scheduler.py: the queue of completion tasks and  *)
(* their dispatch to engines, with the serve-layer accounting of           *)
(* serve/backend_repr/engine.py that the dispatch reads and the end of a   *)
(* task (task_creator.py, free_task) gives back.                           *)
(*                                                                         *)
(* schedule() has no await.  It is modelled one iteration of its loop at a *)
(* time: `cursor` is the loop index, 0 outside of the call, and every      *)
(* other action waits for 0.  The coroutines that schedule() wakes bind    *)
(* their contexts before the serve loop runs again.                        *)
(*                                                                         *)
(* Engines are numbered in the order of their registration, the order in   *)
(* which _find_engine meets them.  A chain is in at most one group:        *)
(* _traverse (graph_traverse.py) adds it when it is first reached and      *)
(* returns early afterwards.                                               *)
(***************************************************************************)
EXTENDS Naturals, Sequences, FiniteSets, FiniteSetsExt, Subsequences

CONSTANTS
    Tasks,
    NumEngines,
    Upper,       \* [Tasks -> Nat]: tasks_num_upperbound of the annotation
    Tokens,      \* [Tasks -> [Engines -> Nat]]: get_token_nums, 0 for text
                 \* models
    Compatible,  \* [Tasks -> SUBSET Engines]: model type and model name match
    Depth,       \* [Tasks -> Nat]: depth of the generated variable
    Group,       \* [Tasks -> group or None]: chain_groups
    FirstVar,    \* [Tasks -> variable]: variable of the first node
    ConstVars,   \* the constant prefixes among these variables
    TasksCap,    \* tasks_capacity of an engine
    TokensCap,   \* tokens_capacity of an engine
    MaxQueueSize,
    Configs,     \* the GlobalSchedulerConfigs the server may start with
    Mortal,      \* the engines that may be lost
    None

Engines == 1..NumEngines
Phases == {"new", "queued", "scheduled", "bound", "finished", "rejected"}
NoBound == 9999999  \* larger than every upper bound

ASSUME SchedulerAssumption ==
    /\ NumEngines \in Nat \ {0}
    /\ IsFiniteSet(Tasks)
    /\ Upper \in [Tasks -> 0..NoBound]
    /\ Tokens \in [Tasks -> [Engines -> Nat]]
    /\ Compatible \in [Tasks -> SUBSET Engines]
    /\ Depth \in [Tasks -> Nat]
    /\ TasksCap \in Nat /\ TokensCap \in Nat /\ MaxQueueSize \in Nat
    /\ Configs \subseteq [appFifo : BOOLEAN, graphGroup : BOOLEAN,
                          ctxGroup : BOOLEAN, ctxAware : BOOLEAN]
    /\ Mortal \subseteq Engines
    /\ None \notin Engines

VARIABLES
    config,    \* config, fixed when the server starts
    phase,     \* how far every task is, a member of Phases
    queue,     \* task_queue
    cursor,    \* loop index of schedule(), 0 when it is not running
    engineOf,  \* task.engine
    numTasks,  \* num_tasks of every engine
    tokensNum, \* tokens_num of every engine
    bounds,    \* keys of tasks_num_upperbounds; the value of key t is Upper[t]
    live,      \* get_live_engines
    warm,      \* [Engines -> first variables with a cached context]
    arrivals   \* history: the tasks that wait, in the order of submission

acct == <<numTasks, tokensNum, bounds>>
vars == <<config, phase, queue, cursor, engineOf, acct, live, warm, arrivals>>

Init ==
    /\ config \in Configs
    /\ phase = [t \in Tasks |-> "new"]
    /\ queue = <<>>
    /\ cursor = 0
    /\ engineOf = [t \in Tasks |-> None]
    /\ numTasks = [e \in Engines |-> 0]
    /\ tokensNum = [e \in Engines |-> 0]
    /\ bounds = [e \in Engines |-> {}]
    /\ live = Engines
    /\ warm = [e \in Engines |-> {}]
    /\ arrivals = <<>>

-----------------------------------------------------------------------------
(* submit_task *)

Submit(t) ==
    /\ cursor = 0
    /\ phase[t] = "new"
    /\ Len(queue) < MaxQueueSize
    /\ queue' = Append(queue, t)
    /\ arrivals' = Append(arrivals, t)
    /\ phase' = [phase EXCEPT ![t] = "queued"]
    /\ UNCHANGED <<config, cursor, engineOf, acct, live, warm>>

\* "Task queue is full": the session of the task becomes BAD.
SubmitRejected(t) ==
    /\ cursor = 0
    /\ phase[t] = "new"
    /\ Len(queue) >= MaxQueueSize
    /\ phase' = [phase EXCEPT ![t] = "rejected"]
    /\ UNCHANGED <<config, queue, cursor, engineOf, acct, live, warm, arrivals>>

-----------------------------------------------------------------------------
(* schedule *)

SortByDepth_Unstable(q) ==
    CHOOSE s \in [DOMAIN q -> Tasks] :
        /\ {s[i] : i \in DOMAIN q} = {q[i] : i \in DOMAIN q}
        /\ \A i, j \in DOMAIN q : i < j =>
              Depth[s[i]] > Depth[s[j]]
              \/ /\ Depth[s[i]] = Depth[s[j]]
                 /\ \E k, l \in DOMAIN q : k > l /\ q[k] = s[i] /\ q[l] = s[j]

\* list.sort(key=-depth) is stable.
SortByDepth(q) ==
    CHOOSE s \in [DOMAIN q -> Tasks] :
        /\ {s[i] : i \in DOMAIN q} = {q[i] : i \in DOMAIN q}
        /\ \A i, j \in DOMAIN q : i < j =>
              Depth[s[i]] > Depth[s[j]]
              \/ /\ Depth[s[i]] = Depth[s[j]]
                 /\ \E k, l \in DOMAIN q : k < l /\ q[k] = s[i] /\ q[l] = s[j]

BeginSchedule ==
    /\ cursor = 0
    /\ queue # <<>>
    /\ \A t \in Tasks : phase[t] # "scheduled"  \* woken coroutines ran first
    /\ queue' = IF config.appFifo THEN SortByDepth(queue) ELSE queue
    /\ cursor' = 1
    /\ UNCHANGED <<config, phase, engineOf, acct, live, warm, arrivals>>

\* The task the loop looks at.
Current == queue[cursor]

\* The later tasks grouped with the current one.  The first match decides the
\* kind of grouping for this round, and the graph is asked first.  Nothing
\* asks whether such a task has been scheduled already.
Grouped ==
    LET t == Current
        rest == {queue[j] : j \in (cursor + 1)..Len(queue)}
        sameGraph(u) == /\ config.graphGroup
                        /\ Group[t] # None /\ Group[u] = Group[t]
        sameCtx(u) == config.ctxGroup /\ FirstVar[u] = FirstVar[t]
        matches == {j \in (cursor + 1)..Len(queue) :
                      sameGraph(queue[j]) \/ sameCtx(queue[j])}
    IN  {t} \cup (IF matches = {} THEN {}
                  ELSE IF sameGraph(queue[Min(matches)])
                       THEN {u \in rest : sameGraph(u)}
                       ELSE {u \in rest : sameCtx(u)})

TokensOf(G, e) == MapThenSumSet(LAMBDA t : Tokens[t][e], G)

\* get_tasks_num_upperbound
EngineUpper(e) == Min({NoBound} \cup {Upper[t] : t \in bounds[e]})

RemainTokens(e) == TokensCap - tokensNum[e]

\* check_engine_available for the group G of the current task t.
Available(t, G, e) ==
    /\ e \in live /\ e \in Compatible[t]
    /\ \A u \in G : 1 + numTasks[e] <= Upper[u]   \* the group is one task
    /\ Cardinality(G) + numTasks[e] <= EngineUpper(e)
    /\ Cardinality(G) + numTasks[e] <= TasksCap
    /\ TokensOf(G, e) + tokensNum[e] <= TokensCap

\* _find_engine replaces the best engine b by a later engine e.
Prefers(t, e, b) ==
    \/ config.ctxAware /\ FirstVar[t] \in warm[e] \ warm[b]
    \/ EngineUpper(e) < EngineUpper(b)
    \/ RemainTokens(e) < RemainTokens(b)

\* The engine _find_engine ends up with, None if there is none.
BestEngine(t, G) ==
    LET best[n \in 0..NumEngines] ==
          IF n = 0 THEN None
          ELSE IF ~Available(t, G, n) THEN best[n - 1]
          ELSE IF best[n - 1] = None THEN n
          ELSE IF Prefers(t, n, best[n - 1]) THEN n ELSE best[n - 1]
    IN  best[NumEngines]

\* The current task is scheduled already, as a member of an earlier group.
SkipScheduled ==
    /\ cursor \in 1..Len(queue)
    /\ phase[Current] = "scheduled"
    /\ cursor' = cursor + 1
    /\ UNCHANGED <<config, phase, queue, engineOf, acct, live, warm, arrivals>>

\* No engine for the group: it stays in the queue.
SkipUnschedulable ==
    /\ cursor \in 1..Len(queue)
    /\ phase[Current] = "queued"
    /\ BestEngine(Current, Grouped) = None
    /\ cursor' = cursor + 1
    /\ UNCHANGED <<config, phase, queue, engineOf, acct, live, warm, arrivals>>

\* schedule_to for every task of the group.
Dispatch ==
    /\ cursor \in 1..Len(queue)
    /\ phase[Current] = "queued"
    /\ LET G == Grouped
           e == BestEngine(Current, G)
       IN  /\ e # None
           /\ engineOf' = [t \in Tasks |-> IF t \in G THEN e ELSE engineOf[t]]
           /\ phase' = [t \in Tasks |->
                          IF t \in G THEN "scheduled" ELSE phase[t]]
           /\ numTasks' = [numTasks EXCEPT ![e] = @ + Cardinality(G)]
           /\ tokensNum' = [tokensNum EXCEPT ![e] = @ + TokensOf(G, e)]
           /\ bounds' = [bounds EXCEPT ![e] = @ \cup G]
           /\ arrivals' = SelectAt(arrivals,
                           {i \in DOMAIN arrivals : arrivals[i] \notin G})
    /\ cursor' = cursor + 1
    /\ UNCHANGED <<config, queue, live, warm>>

EndSchedule ==
    /\ cursor = Len(queue) + 1
    /\ cursor' = 0
    /\ queue' = SelectAt(queue,
                        {i \in DOMAIN queue : phase[queue[i]] # "scheduled"})
    /\ UNCHANGED <<config, phase, engineOf, acct, live, warm, arrivals>>

-----------------------------------------------------------------------------
(* The life of a scheduled task, and of what it leaves behind. *)

\* set_task_contexts: the first variable gets a context on the engine.
Bind(t) ==
    /\ cursor = 0
    /\ phase[t] = "scheduled"
    /\ phase' = [phase EXCEPT ![t] = "bound"]
    /\ warm' = [warm EXCEPT ![engineOf[t]] = @ \cup {FirstVar[t]}]
    /\ UNCHANGED <<config, queue, cursor, engineOf, acct, live, arrivals>>

KeptWarm(t) ==
    \/ FirstVar[t] \in ConstVars
    \/ \E u \in Tasks \ {t} : /\ phase[u] = "bound" /\ engineOf[u] = engineOf[t]
                              /\ FirstVar[u] = FirstVar[t]

Leave_KeepsBound(t) ==
    LET e == engineOf[t] IN
    /\ numTasks' = [numTasks EXCEPT ![e] = @ - 1]
    /\ tokensNum' = [tokensNum EXCEPT ![e] = @ - Tokens[t][e]]
    /\ UNCHANGED bounds

Leave_KeepsTokens(t) ==
    LET e == engineOf[t] IN
    /\ numTasks' = [numTasks EXCEPT ![e] = @ - 1]
    /\ bounds' = [bounds EXCEPT ![e] = @ \ {t}]
    /\ UNCHANGED tokensNum

\* leave_scheduled: update_servelayer_runtime_info_remove_task.
Leave(t) ==
    LET e == engineOf[t] IN
    /\ numTasks' = [numTasks EXCEPT ![e] = @ - 1]
    /\ tokensNum' = [tokensNum EXCEPT ![e] = @ - Tokens[t][e]]
    /\ bounds' = [bounds EXCEPT ![e] = @ \ {t}]

\* free_task and free_task_contexts, when the task has run or failed.
Finish(t) ==
    /\ cursor = 0
    /\ phase[t] = "bound"
    /\ phase' = [phase EXCEPT ![t] = "finished"]
    /\ Leave(t)
    /\ warm' = IF KeptWarm(t) THEN warm
               ELSE [warm EXCEPT ![engineOf[t]] = @ \ {FirstVar[t]}]
    /\ UNCHANGED <<config, queue, cursor, engineOf, live, arrivals>>

\* A constant prefix expires: its contexts go unless a task holds them.
ExpirePrefix(v) ==
    /\ cursor = 0
    /\ \E e \in Engines : v \in warm[e]
    /\ warm' = [e \in Engines |->
          IF \E u \in Tasks : /\ phase[u] = "bound" /\ engineOf[u] = e
                              /\ FirstVar[u] = v
          THEN warm[e] ELSE warm[e] \ {v}]
    /\ UNCHANGED <<config, phase, queue, cursor, engineOf, acct, live,
                   arrivals>>

\* mark_bad or the heartbeat timeout, then the sweep.
LoseEngine(e) ==
    /\ cursor = 0
    /\ e \in live \cap Mortal
    /\ live' = live \ {e}
    /\ UNCHANGED <<config, phase, queue, cursor, engineOf, acct, warm,
                   arrivals>>

-----------------------------------------------------------------------------
Schedule == \/ BeginSchedule
            \/ SkipScheduled
            \/ SkipUnschedulable
            \/ Dispatch
            \/ EndSchedule

Next ==
    \/ \E t \in Tasks : Submit(t) \/ SubmitRejected(t) \/ Bind(t) \/ Finish(t)
    \/ Schedule
    \/ \E v \in ConstVars : ExpirePrefix(v)
    \/ \E e \in Engines : LoseEngine(e)

Spec == Init /\ [][Next]_vars

\* The serve loop calls schedule() every CORE_LOOP_INTERVAL, woken coroutines
\* run, and generation is bounded by max_gen_length.  Fairness of the
\* coroutines is strong because the model disables them during schedule(),
\* which in the code is a single step.
FairSpec ==
    /\ Spec
    /\ WF_vars(Schedule)
    /\ \A t \in Tasks : SF_vars(Bind(t) \/ Finish(t))

-----------------------------------------------------------------------------
(* Properties *)

InQueue == {queue[i] : i \in 1..Len(queue)}

TypeOK ==
    /\ config \in Configs
    /\ phase \in [Tasks -> Phases]
    /\ queue \in Seq(Tasks) /\ Len(queue) <= MaxQueueSize
    /\ cursor \in 0..(Len(queue) + 1)
    /\ engineOf \in [Tasks -> Engines \cup {None}]
    /\ numTasks \in [Engines -> Nat]
    /\ tokensNum \in [Engines -> Nat]
    /\ bounds \in [Engines -> SUBSET Tasks]
    /\ arrivals \in Seq(Tasks)
    /\ live \subseteq Engines

Residents(e) ==
    {t \in Tasks : phase[t] \in {"scheduled", "bound"} /\ engineOf[t] = e}

\* The accounting of an engine is exactly that of the tasks that were
\* dispatched to it and have not left, so no capacity is lost or invented.
AccountingExact ==
    \A e \in Engines :
        /\ numTasks[e] = Cardinality(Residents(e))
        /\ tokensNum[e] = TokensOf(Residents(e), e)
        /\ bounds[e] = Residents(e)

\* The capacities of the engine hold at all times.
WithinCapacity ==
    \A e \in Engines : numTasks[e] <= TasksCap /\ tokensNum[e] <= TokensCap

OneByOne == ~config.graphGroup /\ ~config.ctxGroup

\* Without grouping, a task never shares its engine with more tasks than its
\* annotation allows, whether it came first or last.
UpperBoundsRespected ==
    OneByOne => \A e \in Engines : \A t \in Residents(e) :
        Cardinality(Residents(e)) <= Upper[t]

\* The load of every engine while tasks are grouped, dispatched, leave and are
\* lost with an engine: exact, within its capacities and, where nothing is
\* grouped, within the upper bounds of the tasks on it.  A group counts as
\* one task against the upper bounds of its members.
LoadSound ==
    TypeOK /\ AccountingExact /\ WithinCapacity /\ UpperBoundsRespected

Before(t, u) ==
    \E i, j \in 1..Len(arrivals) : i < j /\ arrivals[i] = t /\ arrivals[j] = u

Alike(t, u) ==
    /\ Upper[t] = Upper[u] /\ Tokens[t] = Tokens[u]
    /\ Compatible[t] = Compatible[u] /\ Depth[t] = Depth[u]

\* Without grouping the queue is fair among tasks that ask for the same: one
\* is not scheduled while another, submitted earlier, still waits.
NoOvertaking ==
    [][\A t, u \in Tasks :
          OneByOne /\ Alike(t, u) /\ Before(t, u) /\ phase[u] = "queued"
          /\ phase'[u] = "scheduled" => phase'[t] = "scheduled"]_vars

\* A queued task is scheduled some day, when the engines stay: no group is so
\* large, and no upper bound so small, that it waits forever.
EventuallyScheduled ==
    \A t \in Tasks :
        phase[t] = "queued" ~> phase[t] = "scheduled" \/ live # Engines
=============================================================================
