--------------------------- MODULE ContextManager ---------------------------
(***************************************************************************)
(* serve/context_manager.py: which KV-cache contexts the serve layer       *)
(* believes exist, who keeps them alive, and which prompt prefix each of   *)
(* them holds.  Four kinds of callers share the tables:                    *)
(*                                                                         *)
(*   - the coroutine of a completion task binds contexts when the task has *)
(*     been scheduled, and frees them when it has run (graph_executor.py); *)
(*   - request submission registers constant-prefix variables, and the     *)
(*     serve loop expires them (variable_manager.py, core.py);             *)
(*   - engines register and are swept (engine_manager.py);                 *)
(*   - an engine process may die at any time.                              *)
(*                                                                         *)
(* Every method runs without an await, so each is one action.  An          *)
(* exception in one of them ends the process (utils/async_utils.py,        *)
(* fail fast): `down` then names it, and nothing happens afterwards.       *)
(*                                                                         *)
(* A chain is the sequence of the semantic variables of its nodes; its     *)
(* last node is the Gen node and the others are Fill nodes.  A prefix hash *)
(* is the concatenation of bracketed variable ids, which is injective, so  *)
(* it is the prefix of the chain itself.  Context ids come from an         *)
(* IdAllocator: any id that is not in use.                                 *)
(***************************************************************************)
EXTENDS Naturals, Sequences, FiniteSets

CONSTANTS
    Tasks,        \* completion tasks
    Engines,      \* engine objects: a process that registers is a new one
    EngineIds,    \* ids the engine manager hands out, and recycles
    ContextIds,   \* ids the context manager hands out, and recycles
    Vars,         \* semantic variables
    ConstVars,    \* those that are constant prefixes
    Chain,        \* [Tasks -> non-empty sequences of Vars]
    FuseFill,     \* the tasks whose request may have the fuse_fill option
    None          \* NONE_CONTEXT_ID, and "no engine id yet"

ASSUME ContextAssumption ==
    /\ ConstVars \subseteq Vars
    /\ Chain \in [Tasks -> Seq(Vars) \ {<<>>}]
    /\ FuseFill \subseteq Tasks
    /\ None \notin ContextIds /\ None \notin EngineIds

VARIABLES
    phase,        \* [Tasks -> {"new", "queued", "bound", "freed"}]
    fused,        \* the tasks whose request has it
    taskContexts, \* task.contexts: ids, one per node, once bound
    contexts,     \* contexts: id -> Context object, for the ids in use
    refCounter,   \* _context_ref_counter; entries are never removed
    prefixMap,    \* prefix_caches: engine id -> (prefix -> context id)
    prefixRev,    \* their _prefix_ctx_map_reversed
    constVars,    \* variables in the constant prefix namespace
    constContexts,\* constant_prefix_contexts: variable -> set of contexts
    engineId,     \* engine_id of every engine object
    registered,   \* engine objects in engine_mgr.engines
    alive,        \* engine processes that answer HTTP requests
    down          \* "no", or the exception that ended the process

taskVars   == <<phase, fused, taskContexts>>
ctxVars    == <<contexts, refCounter>>
cacheVars  == <<prefixMap, prefixRev>>
constPVars == <<constVars, constContexts>>
engVars    == <<engineId, registered, alive>>
vars == <<taskVars, ctxVars, cacheVars, constPVars, engVars, down>>

Last(t) == Len(Chain[t])                \* index of the Gen node of task t
Prefix(t, i) == SubSeq(Chain[t], 1, i)  \* prefix hash at node i of task t

RangeOf(f) == {f[x] : x \in DOMAIN f}

Held(t) == RangeOf(taskContexts[t])

Init ==
    /\ phase = [t \in Tasks |-> "new"]
    /\ fused = {}
    /\ taskContexts = [t \in Tasks |-> <<>>]
    /\ contexts = [c \in {} |-> None]
    /\ refCounter = [c \in ContextIds |-> 0]
    /\ prefixMap = [i \in {} |-> None]
    /\ prefixRev = [i \in {} |-> None]
    /\ constVars = {}
    /\ constContexts = [v \in {} |-> None]
    /\ engineId = [e \in Engines |-> None]
    /\ registered = {}
    /\ alive = Engines
    /\ down = "no"

-----------------------------------------------------------------------------
(* Engines *)

\* register_engine: a fresh id from the engine pool, and an empty PrefixCache.
RegisterEngine(e, id) ==
    /\ down = "no"
    /\ engineId[e] = None
    /\ \A f \in registered : engineId[f] # id
    /\ engineId' = [engineId EXCEPT ![e] = id]
    /\ registered' = registered \cup {e}
    /\ prefixMap' = [i \in DOMAIN prefixMap \cup {id} |->
                       IF i = id THEN [h \in {} |-> None] ELSE prefixMap[i]]
    /\ prefixRev' = [i \in DOMAIN prefixRev \cup {id} |->
                       IF i = id THEN [c \in {} |-> None] ELSE prefixRev[i]]
    /\ UNCHANGED <<taskVars, ctxVars, constPVars, alive, down>>

\* sweep_not_running_engines, _remove_engine: the PrefixCache goes, the
\* contexts of the engine stay in every other table.
RemoveEngine(e) ==
    /\ down = "no"
    /\ e \in registered
    /\ registered' = registered \ {e}
    /\ prefixMap' = [i \in DOMAIN prefixMap \ {engineId[e]} |-> prefixMap[i]]
    /\ prefixRev' = [i \in DOMAIN prefixRev \ {engineId[e]} |-> prefixRev[i]]
    /\ UNCHANGED <<taskVars, ctxVars, constPVars, engineId, alive, down>>

\* The engine process stops answering.
EngineDies(e) ==
    /\ down = "no"
    /\ e \in alive /\ engineId[e] # None
    /\ alive' = alive \ {e}
    /\ UNCHANGED <<taskVars, ctxVars, cacheVars, constPVars, engineId,
                   registered, down>>

-----------------------------------------------------------------------------
(* Requests *)

\* create_vars_for_semantic_request_chain: the constants at the head of the
\* request are looked up, or created, in the constant prefix namespace.
SubmitRequest(t, fuse) ==
    /\ down = "no"
    /\ phase[t] = "new"
    /\ fuse => t \in FuseFill
    /\ fused' = IF fuse THEN fused \cup {t} ELSE fused
    /\ phase' = [phase EXCEPT ![t] = "queued"]
    /\ constVars' = constVars \cup (RangeOf(Chain[t]) \cap ConstVars)
    /\ UNCHANGED <<taskContexts, ctxVars, cacheVars, constContexts, engVars,
                   down>>

\* The inputs of a task are ready before it is scheduled: a Fill node whose
\* variable another task generates waits for that task.
InputsReady(t) ==
    \A i \in 1..(Last(t) - 1), u \in Tasks :
        Chain[u][Last(u)] = Chain[t][i] => phase[u] \in {"bound", "freed"}

-----------------------------------------------------------------------------
(* set_task_contexts *)

\* The first k prefixes of task t are cached on engine id and the next is not.
HitLength(t, id, k) ==
    /\ \A i \in 1..k : Prefix(t, i) \in DOMAIN prefixMap[id]
    /\ k < Last(t) => Prefix(t, k + 1) \notin DOMAIN prefixMap[id]

\* Node i gets a context of its own: _new_context or _fork_context.  Under
\* fuse_fill a Fill node that is not the first shares the previous context.
OwnContext(t, k, i) ==
    /\ i > k
    /\ i = 1 \/ i = Last(t) \/ t \notin fused

\* cs assigns contexts to the nodes of t as the loop does, after k hits.
Assignment(t, id, k, cs) ==
    /\ \A i \in 1..k : cs[i] = prefixMap[id][Prefix(t, i)]
    /\ \A i \in (k + 1)..Last(t) :
          IF OwnContext(t, k, i) THEN cs[i] \notin DOMAIN contexts
                                 ELSE cs[i] = cs[i - 1]
    /\ \A i, j \in (k + 1)..Last(t) :
          OwnContext(t, k, i) /\ OwnContext(t, k, j) /\ cs[i] = cs[j] => i = j

\* The Fill nodes whose prefix is cached by this call, and their contexts.
CachedNow(t, k) == (k + 1)..(Last(t) - 1)

\* A first node that is a constant prefix pins its new context.
Pins(t, k) == k = 0 /\ Chain[t][1] \in ConstVars

AddedRefs_NoneForHits(t, k, cs, c) ==
    (IF \E i \in 1..Last(t) : OwnContext(t, k, i) /\ cs[i] = c THEN 1 ELSE 0)
    + (IF Pins(t, k) /\ cs[1] = c THEN 1 ELSE 0)

\* What the loop adds to the ref counter of context c: one for every node
\* that hits it, one if it is created, one if it is pinned.
AddedRefs(t, k, cs, c) ==
    Cardinality({i \in 1..k : cs[i] = c})
    + (IF \E i \in 1..Last(t) : OwnContext(t, k, i) /\ cs[i] = c THEN 1 ELSE 0)
    + (IF Pins(t, k) /\ cs[1] = c THEN 1 ELSE 0)

\* The tables after the loop.  A hash cached under a context overwrites the
\* reversed entry of that context, so the longest one remains.
BindContexts(t, e, k, cs) ==
    LET id == engineId[e]
        created == {cs[i] : i \in {j \in 1..Last(t) : OwnContext(t, k, j)}}
        labelled == {cs[i] : i \in CachedNow(t, k)}
        hashes == {Prefix(t, i) : i \in CachedNow(t, k)}
        v == Chain[t][1]
    IN
    /\ taskContexts' = [taskContexts EXCEPT ![t] = cs]
    /\ contexts' = [c \in DOMAIN contexts \cup created |->
          IF c \in DOMAIN contexts THEN contexts[c]
          ELSE LET i == CHOOSE j \in (k + 1)..Last(t) :
                          OwnContext(t, k, j) /\ cs[j] = c
               IN  [engine |-> e, parent |-> IF i = 1 THEN None ELSE cs[i - 1]]]
    /\ refCounter' =
          [c \in ContextIds |-> refCounter[c] + AddedRefs(t, k, cs, c)]
    /\ prefixMap' = [prefixMap EXCEPT ![id] =
          [h \in DOMAIN prefixMap[id] \cup hashes |->
             IF h \in hashes THEN cs[Len(h)] ELSE prefixMap[id][h]]]
    /\ prefixRev' = [prefixRev EXCEPT ![id] =
          [c \in DOMAIN prefixRev[id] \cup labelled |->
             IF c \in labelled
             THEN Prefix(t, CHOOSE i \in CachedNow(t, k) :
                              /\ cs[i] = c
                              /\ \A j \in CachedNow(t, k) : cs[j] = c => j <= i)
             ELSE prefixRev[id][c]]]
    /\ constContexts' =
          IF ~Pins(t, k) THEN constContexts
          ELSE [w \in DOMAIN constContexts \cup {v} |->
                  (IF w \in DOMAIN constContexts THEN constContexts[w] ELSE {})
                  \cup (IF w = v THEN {cs[1]} ELSE {})]

\* The assertion of cache_prefix_context, "Prefix should not be cached.", is
\* part of the invariant CacheIsTree: it never fails.
SetTaskContexts(t, e, k) ==
    /\ down = "no"
    /\ phase[t] = "queued" /\ InputsReady(t)
    /\ e \in registered
    /\ HitLength(t, engineId[e], k)
    /\ \A i \in 1..k : prefixMap[engineId[e]][Prefix(t, i)] \in DOMAIN contexts
    /\ \E cs \in [1..Last(t) -> ContextIds] :
          /\ Assignment(t, engineId[e], k, cs)
          /\ BindContexts(t, e, k, cs)
    /\ phase' = [phase EXCEPT ![t] = "bound"]
    /\ UNCHANGED <<fused, constVars, engVars, down>>

\* self.contexts[context_id] raises KeyError for a cached prefix.
SetTaskContextsFails(t, e, k) ==
    /\ down = "no"
    /\ phase[t] = "queued" /\ InputsReady(t)
    /\ e \in registered
    /\ HitLength(t, engineId[e], k)
    /\ \E i \in 1..k :
          prefixMap[engineId[e]][Prefix(t, i)] \notin DOMAIN contexts
    /\ down' = "stale prefix"
    /\ UNCHANGED <<taskVars, ctxVars, cacheVars, constPVars, engVars>>

-----------------------------------------------------------------------------
(* _free_context, for each context of S once *)

Released_BelowZero(S) == {c \in S : refCounter[c] <= 0}

\* The contexts whose ref counter drops to zero.
Released(S) == {c \in S : refCounter[c] <= 1}

\* free_context is posted to the engine of a released context and raises if
\* it is unreachable; then prefix_caches[engine_id] raises if it was swept.
FreeFails(S) ==
    \E c \in Released(S) :
        \/ contexts[c].engine \notin alive
        \/ engineId[contexts[c].engine] \notin DOMAIN prefixMap

FreeContexts_KeepsHashes(S) ==
    /\ refCounter' = [c \in ContextIds |->
                        IF c \in S THEN refCounter[c] - 1 ELSE refCounter[c]]
    /\ contexts' = [c \in DOMAIN contexts \ Released(S) |-> contexts[c]]
    /\ UNCHANGED <<prefixMap, prefixRev>>

FreeContexts(S) ==
    LET gone == Released(S)
        goneOn(i) == {c \in gone : engineId[contexts[c].engine] = i}
        unhashed(i) ==
          {prefixRev[i][c] : c \in goneOn(i) \cap DOMAIN prefixRev[i]}
    IN
    /\ refCounter' = [c \in ContextIds |->
                        IF c \in S THEN refCounter[c] - 1 ELSE refCounter[c]]
    /\ contexts' = [c \in DOMAIN contexts \ gone |-> contexts[c]]
    /\ prefixMap' = [i \in DOMAIN prefixMap |->
          [h \in DOMAIN prefixMap[i] \ unhashed(i) |-> prefixMap[i][h]]]
    /\ prefixRev' = [i \in DOMAIN prefixRev |->
          [c \in DOMAIN prefixRev[i] \ goneOn(i) |-> prefixRev[i][c]]]

FreedBefore_Forwards(t, c, d) ==
    \E i \in DOMAIN taskContexts[t] :
        /\ taskContexts[t][i] = c
        /\ \A j \in DOMAIN taskContexts[t] : taskContexts[t][j] = d => i < j

\* free_task_contexts walks task.contexts backwards and frees each once: c
\* is freed before d.
FreedBefore(t, c, d) ==
    \E i \in DOMAIN taskContexts[t] :
        /\ taskContexts[t][i] = c
        /\ \A j \in DOMAIN taskContexts[t] : taskContexts[t][j] = d => j < i

FreeTaskContexts(t) ==
    /\ down = "no"
    /\ phase[t] = "bound"
    /\ ~FreeFails(Held(t))
    /\ FreeContexts(Held(t))
    /\ phase' = [phase EXCEPT ![t] = "freed"]
    /\ taskContexts' = [taskContexts EXCEPT ![t] = <<>>]  \* the task is gone
    /\ UNCHANGED <<fused, constPVars, engVars, down>>

\* ParrotCoreInternalError or KeyError, outside of every handler.
FreeTaskContextsFails(t) ==
    /\ down = "no"
    /\ phase[t] = "bound"
    /\ FreeFails(Held(t))
    /\ down' = "engine gone"
    /\ UNCHANGED <<taskVars, ctxVars, cacheVars, constPVars, engVars>>

\* A constant prefix variable expires (free_expired_constant_prefix_vars) and
\* the serve loop calls free_constant_prefix_contexts.
ExpireConstVar(v) ==
    /\ down = "no"
    /\ v \in constVars
    /\ v \in DOMAIN constContexts
    /\ ~FreeFails(constContexts[v])
    /\ FreeContexts(constContexts[v])
    /\ constVars' = constVars \ {v}
    /\ constContexts' = [w \in DOMAIN constContexts \ {v} |-> constContexts[w]]
    /\ UNCHANGED <<taskVars, engVars, down>>

\* The assertion "Constant prefix variable should have contexts." fails.
ExpireConstVarAsserts(v) ==
    /\ down = "no"
    /\ v \in constVars
    /\ v \notin DOMAIN constContexts
    /\ down' = "no constant prefix contexts"
    /\ UNCHANGED <<taskVars, ctxVars, cacheVars, constPVars, engVars>>

ExpireConstVarFails(v) ==
    /\ down = "no"
    /\ v \in constVars
    /\ v \in DOMAIN constContexts
    /\ FreeFails(constContexts[v])
    /\ down' = "engine gone"
    /\ UNCHANGED <<taskVars, ctxVars, cacheVars, constPVars, engVars>>

-----------------------------------------------------------------------------
Next ==
    \/ \E e \in Engines :
          \/ \E id \in EngineIds : RegisterEngine(e, id)
          \/ RemoveEngine(e)
          \/ EngineDies(e)
    \/ \E t \in Tasks :
          \/ \E fuse \in BOOLEAN : SubmitRequest(t, fuse)
          \/ \E e \in Engines, k \in 0..Last(t) :
                SetTaskContexts(t, e, k) \/ SetTaskContextsFails(t, e, k)
          \/ FreeTaskContexts(t)
          \/ FreeTaskContextsFails(t)
    \/ \E v \in ConstVars :
          \/ ExpireConstVar(v)
          \/ ExpireConstVarAsserts(v)
          \/ ExpireConstVarFails(v)

Spec == Init /\ [][Next]_vars

-----------------------------------------------------------------------------
(* Properties *)

TypeOK ==
    /\ phase \in [Tasks -> {"new", "queued", "bound", "freed"}]
    /\ fused \subseteq FuseFill
    /\ \A t \in Tasks :
          IF phase[t] = "bound"
          THEN taskContexts[t] \in [1..Last(t) -> ContextIds]
          ELSE taskContexts[t] = <<>>
    /\ DOMAIN contexts \subseteq ContextIds
    /\ \A c \in DOMAIN contexts :
          contexts[c] \in [engine : Engines, parent : ContextIds \cup {None}]
    /\ refCounter \in [ContextIds -> Nat]
    /\ DOMAIN prefixMap = {engineId[e] : e \in registered}
    /\ DOMAIN prefixRev = DOMAIN prefixMap
    /\ \A i \in DOMAIN prefixMap :
          /\ DOMAIN prefixMap[i] \subseteq Seq(Vars)
          /\ \A h \in DOMAIN prefixMap[i] : prefixMap[i][h] \in ContextIds
          /\ DOMAIN prefixRev[i] \subseteq ContextIds
          /\ \A c \in DOMAIN prefixRev[i] : prefixRev[i][c] \in Seq(Vars)
    /\ constVars \subseteq ConstVars
    /\ DOMAIN constContexts \subseteq ConstVars
    /\ \A v \in DOMAIN constContexts : constContexts[v] \subseteq ContextIds
    /\ engineId \in [Engines -> EngineIds \cup {None}]
    /\ registered \subseteq Engines
    /\ \A e \in registered : engineId[e] \in EngineIds
    /\ alive \subseteq Engines
    /\ down \in {"no", "stale prefix", "engine gone",
                 "no constant prefix contexts"}

Users(c) == {t \in Tasks : c \in Held(t)}
Pinners(c) == {v \in DOMAIN constContexts : c \in constContexts[v]}

\* Without fuse_fill _context_ref_counter counts the tasks that use a context
\* and the constant prefixes that pin it, exactly, although a task adds its
\* references node by node and gives them back context by context, and several
\* tasks and engines interleave.
RefsCountHolders ==
    \A c \in ContextIds :
        refCounter[c] = Cardinality(Users(c)) + Cardinality(Pinners(c))

\* A context is in the manager as long as somebody holds it and no longer:
\* nothing that is held has been freed, and nothing is leaked.
LiveIffHeld ==
    DOMAIN contexts = {c \in ContextIds : Users(c) \cup Pinners(c) # {}}

\* Without fuse_fill, however tasks, constant prefixes and engines come and
\* go: the reference counts are exact, and a context lives as long as it is
\* held.
HeldExactly == fused = {} => RefsCountHolders /\ LiveIffHeld

\* With fuse_fill the counter may exceed the number of holders, never fall
\* short of it: a context is not freed under a task that uses it or a
\* constant prefix that pins it.
NeverFreedEarly ==
    \A c \in ContextIds :
        LET holders == Cardinality(Users(c)) + Cardinality(Pinners(c)) IN
        /\ refCounter[c] >= holders
        /\ holders > 0 => c \in DOMAIN contexts

\* Every cached prefix names a live context of that engine, and all shorter
\* prefixes are cached too, each by the parent of the next.  So a hit is a
\* hit for the whole prompt before it, the KeyError of set_task_contexts
\* cannot happen, and neither can the assertion of cache_prefix_context.
CacheIsTree ==
    \A e \in registered :
        LET map == prefixMap[engineId[e]] IN
        \A h \in DOMAIN map :
            /\ map[h] \in DOMAIN contexts
            /\ contexts[map[h]].engine = e
            /\ \A j \in 1..Len(h) : SubSeq(h, 1, j) \in DOMAIN map
            /\ contexts[map[h]].parent =
                 IF Len(h) = 1 THEN None ELSE map[SubSeq(h, 1, Len(h) - 1)]

\* A bound task runs on one path of contexts of one engine: each node extends
\* the context of the node before it, so what it generates continues its own
\* prompt.
TaskOnOnePath ==
    \A t \in Tasks : phase[t] = "bound" =>
        \A i \in 1..Last(t) :
            LET c == taskContexts[t][i] IN
            /\ c \in DOMAIN contexts
            /\ contexts[c].parent =
                 IF i = 1 THEN None ELSE taskContexts[t][i - 1]
            /\ contexts[c].engine = contexts[taskContexts[t][1]].engine

\* Without fuse_fill every cached prefix and every bound task has its contexts,
\* on one path of one engine.
PathsIntact == TypeOK /\ (fused = {} => CacheIsTree /\ TaskOnOnePath)

\* When a task frees its contexts, the engine meets every sub-context before
\* its parent, so the assertion "Sub-contexts ... should be deleted first" of
\* LowLevelContext.destruction holds.
ChildrenFreedFirst ==
    \A t \in Tasks : phase[t] = "bound" =>
        \A c \in Released(Held(t)), d \in DOMAIN contexts :
            contexts[d].parent = c =>
                d \in Released(Held(t)) /\ FreedBefore(t, d, c)

\* The same when a constant prefix expires: no context of a released one is
\* left behind.
ExpiryLeavesNoOrphan ==
    \A v \in DOMAIN constContexts :
        \A c \in Released(constContexts[v]), d \in DOMAIN contexts :
            contexts[d].parent # c

\* Contexts are given back bottom up, by tasks and by expiry.
BottomUp == fused = {} => ChildrenFreedFirst /\ ExpiryLeavesNoOrphan

\* free_constant_prefix_contexts asserts "Constant prefix variable should have
\* contexts."
ExpiredConstVarHasContexts == down # "no constant prefix contexts"
=============================================================================
