--------------------------- MODULE EngineManager ---------------------------
(***************************************************************************)
(* The engines of the cluster (serve/engine_manager.py), the models and    *)
(* tokenizers they need (serve/tokenizer_wrapper.py), and the engine       *)
(* processes with their heartbeat threads (engine/llm_engine.py).          *)
(*                                                                         *)
(* A process registers once, when it starts, and keeps the id it was       *)
(* given.  The serve core handles one request at a time; a request or its  *)
(* reply may be lost, and is sent again as often as layer_apis.py says.    *)
(* The prefix cache that comes and goes with an engine is modelled in      *)
(* ContextManager.  An exception outside of a handler ends the serve core  *)
(* (utils/async_utils.py), and with it the behaviour.                      *)
(***************************************************************************)
EXTENDS Naturals, Sequences, FiniteSets

CONSTANTS
    Processes,     \* engine processes
    Models,        \* model names
    Config,        \* Processes -> Models: what a process is started with
    Tokenizer,     \* Models -> tokenizer name, or TEXT
    Offline,       \* the models whose tokenizer may fail to load
    TEXT,          \* the model works on text and has no tokenizer
    Timeout,       \* engine_heartbeat_timeout, in heartbeat intervals
    Retries,       \* retry_times of engine_heartbeat
    MaxEngines,    \* bound: the engines registered in a behaviour
    MaxBusy        \* bound: the engines that have tasks at a time

ASSUME TimingAssumption ==
    Timeout \in Nat \ {0} /\ Retries \in Nat \ {0}

ASSUME ConfigAssumption == Config \in [Processes -> Models]

VARIABLES
    objs,         \* every ExecutionEngine ever made
    engines,      \* engine id -> engine
    lastSeen,     \* engine id -> intervals since the last heartbeat
    refs,         \* _models_ref_counter; the registered models are its
                  \* entries above zero
    tokenizers,   \* the tokenizers that are loaded
    proc,         \* the processes
    unloaded,     \* history: models whose tokenizer could not be loaded
    exit          \* "no", or why the serve core has ended

core == <<objs, engines, lastSeen, refs, tokenizers, unloaded>>
vars == <<core, proc, exit>>

Down == [up |-> FALSE, obj |-> 0, daemon |-> FALSE, tries |-> 0,
         sent |-> FALSE]

Init ==
    /\ objs = <<>>
    /\ engines = << >> /\ lastSeen = << >>
    /\ refs = [m \in Models |-> 0]
    /\ tokenizers = {} /\ unloaded = {}
    /\ proc = [p \in Processes |-> Down]
    /\ exit = "no"

With(f, k, x) == [i \in DOMAIN f \cup {k} |-> IF i = k THEN x ELSE f[i]]
Without(f, S) == [i \in DOMAIN f \ S |-> f[i]]
TokenizersOf(M) == {Tokenizer[m] : m \in M} \ {TEXT}
IdOf(p) == objs[proc[p].obj].id

(* ---------------------------- registration ------------------------------ *)

\* Mutant: a model that is known already is not counted again.
RegisterModel_Once(m) ==
    /\ refs' = [refs EXCEPT ![m] = 1]
    /\ tokenizers' = tokenizers \cup
          IF refs[m] = 0 THEN TokenizersOf({m}) ELSE {}

\* _register_model: the tokenizer is loaded with the first engine only.
RegisterModel(m) ==
    /\ refs' = [refs EXCEPT ![m] = @ + 1]
    /\ tokenizers' = tokenizers \cup
          IF refs[m] = 0 THEN TokenizersOf({m}) ELSE {}

\* The ids the pool may hand out: a free one, or else a new one.
FreeIds ==
    LET issued == {objs[o].id : o \in DOMAIN objs}
    IN  IF issued \subseteq DOMAIN engines THEN {Cardinality(issued)}
                                           ELSE issued \ DOMAIN engines

NewEngine(m, id) ==
    [id |-> id, model |-> m, status |-> "RUNNING", busy |-> FALSE]

\* register_engine.
Register(m, id) ==
    /\ RegisterModel(m)
    /\ objs' = Append(objs, NewEngine(m, id))
    /\ engines' = With(engines, id, Len(objs) + 1)
    /\ lastSeen' = With(lastSeen, id, 0)
    /\ UNCHANGED unloaded

\* What the process makes of the reply: it keeps the id and starts its
\* heartbeat thread; without a reply its constructor raises and it ends.
RegisterReply(p, lost) ==
    proc' = IF lost THEN proc
            ELSE [proc EXCEPT ![p].up = TRUE, ![p].daemon = TRUE,
                              ![p].obj = Len(objs) + 1]

\* A process starts and registers, with a request it sends once.
Start(p, lost) ==
    /\ exit = "no" /\ ~ proc[p].up /\ Len(objs) < MaxEngines
    /\ \E id \in FreeIds : Register(Config[p], id)
    /\ RegisterReply(p, lost)
    /\ UNCHANGED exit

\* from_pretrained raises: the model is registered already, the engine is
\* not, and the process ends.
StartWithoutTokenizer(p) ==
    LET m == Config[p]
    IN  /\ exit = "no" /\ ~ proc[p].up /\ Len(objs) < MaxEngines
        /\ m \in Offline
        /\ refs[m] = 0 /\ ~ TokenizersOf({m}) \subseteq tokenizers
        /\ refs' = [refs EXCEPT ![m] = 1]
        /\ unloaded' = unloaded \cup {m}
        /\ UNCHANGED <<objs, engines, lastSeen, tokenizers, proc, exit>>

ProcessEnds(p) ==
    /\ proc[p].up /\ exit = "no"
    /\ proc' = [proc EXCEPT ![p] = Down]
    /\ UNCHANGED <<core, exit>>

(* ----------------------------- heartbeats ------------------------------- *)

\* No answer, or an error: send_http_request tries again; after the last
\* attempt the exception leaves the loop of the thread, which ends.  The
\* engine goes on without it.
AttemptFails(p) ==
    IF proc[p].tries < Retries - 1
    THEN proc' = [proc EXCEPT ![p].tries = @ + 1]
    ELSE proc' = [proc EXCEPT ![p].tries = 0, ![p].daemon = FALSE]

\* engine_heartbeat: the id decides which engine was seen; an unknown one is
\* an error.
Seen(id) ==
    lastSeen' = IF id \in DOMAIN engines THEN [lastSeen EXCEPT ![id] = 0]
                                         ELSE lastSeen

HeartbeatReply(p, ok) ==
    IF ok THEN proc' = [proc EXCEPT ![p].sent = TRUE, ![p].tries = 0]
          ELSE AttemptFails(p)

\* One attempt of the heartbeat thread.
Heartbeat(p, reached, answered) ==
    /\ exit = "no"
    /\ proc[p].daemon /\ ~ proc[p].sent
    /\ answered => reached
    /\ IF reached THEN Seen(IdOf(p)) ELSE UNCHANGED lastSeen
    /\ HeartbeatReply(p, answered /\ IdOf(p) \in DOMAIN engines)
    /\ UNCHANGED <<objs, engines, refs, tokenizers, unloaded, exit>>

\* A heartbeat interval passes; every thread that lives has sent its own.
Tick ==
    /\ exit = "no"
    /\ \A p \in Processes : proc[p].daemon => proc[p].sent
    /\ \/ \E id \in DOMAIN lastSeen : lastSeen[id] <= Timeout
       \/ \E p \in Processes : proc[p].daemon
    /\ lastSeen' = [id \in DOMAIN lastSeen |->
                       IF lastSeen[id] <= Timeout THEN lastSeen[id] + 1
                                                  ELSE lastSeen[id]]
    /\ proc' = [p \in Processes |-> [proc[p] EXCEPT !.sent = FALSE]]
    /\ UNCHANGED <<objs, engines, refs, tokenizers, unloaded, exit>>

(* -------------------------------- tasks --------------------------------- *)

\* get_live_engines: the scheduler sends a task to an engine that runs.
Schedule(id) ==
    /\ exit = "no"
    /\ objs[engines[id]].status = "RUNNING"
    /\ Cardinality({o \in DOMAIN objs : objs[o].busy}) < MaxBusy
    /\ objs' = [objs EXCEPT ![engines[id]].busy = TRUE]
    /\ UNCHANGED <<engines, lastSeen, refs, tokenizers, unloaded, proc, exit>>

TaskEnds(p) ==
    LET o == proc[p].obj
    IN  /\ exit = "no" /\ proc[p].up /\ objs[o].busy
        /\ objs' = [objs EXCEPT ![o].busy = FALSE]
        /\ UNCHANGED <<engines, lastSeen, refs, tokenizers, unloaded, proc,
                       exit>>

\* raise_exception: the engine that has the id by now is marked as bad; when
\* there is none, KeyError leaves the exception handler of the executor.
TaskFails(o) ==
    LET id == objs[o].id
    IN  /\ exit = "no" /\ objs[o].busy
        /\ IF id \in DOMAIN engines
           THEN /\ objs' = [objs EXCEPT ![o].busy = FALSE,
                                        ![engines[id]].status = "BAD"]
                /\ UNCHANGED exit
           ELSE /\ objs' = [objs EXCEPT ![o].busy = FALSE]
                /\ exit' = "unknown engine"
        /\ UNCHANGED <<engines, lastSeen, refs, tokenizers, unloaded, proc>>

(* ------------------------------ serve loop ------------------------------ *)

\* Mutant: an engine is expired when the timeout is reached.
Expired_AtTimeout(id) == lastSeen[id] >= Timeout

Expired(id) == lastSeen[id] > Timeout

Bad(id) == objs[engines[id]].status = "BAD"

\* Mutant: only engines that failed are swept.
NotRunning_BadOnly == {id \in DOMAIN engines : Bad(id)}

NotRunning == {id \in DOMAIN engines : Expired(id) \/ Bad(id)}

EnginesOf(m, S) == {id \in S : objs[engines[id]].model = m}

\* Mutant: a model goes with the first of its engines.
Unused_AtOnce(S) == {m \in Models : EnginesOf(m, S) # {}}

\* The models whose reference count drops to zero when S is removed.
Unused(S) ==
    {m \in Models : EnginesOf(m, S) # {}
                    /\ refs[m] = Cardinality(EnginesOf(m, S))}

\* remove_tokenizer asserts that the tokenizer exists: it does not when
\* another model has taken it away, before or in the same sweep.
RemoveAsserts(M) ==
    \E m \in M : /\ Tokenizer[m] # TEXT
                 /\ \/ Tokenizer[m] \notin tokenizers
                    \/ \E n \in M \ {m} : Tokenizer[n] = Tokenizer[m]

\* One round of the serve loop: update_expired_engines, then
\* sweep_not_running_engines with _remove_engine and _remove_model.
ServeLoop ==
    LET S == NotRunning
    IN  /\ exit = "no" /\ S # {}
        /\ IF RemoveAsserts(Unused(S))
           THEN exit' = "no tokenizer" /\ UNCHANGED core
           ELSE /\ objs' = [o \in DOMAIN objs |->
                       IF \E id \in S : engines[id] = o
                       THEN [objs[o] EXCEPT !.status =
                               IF Expired(objs[o].id) THEN "DEAD" ELSE "BAD"]
                       ELSE objs[o]]
                /\ engines' = Without(engines, S)
                /\ lastSeen' = Without(lastSeen, S)
                /\ refs' = [m \in Models |->
                               refs[m] - Cardinality(EnginesOf(m, S))]
                /\ tokenizers' = tokenizers \ TokenizersOf(Unused(S))
                /\ UNCHANGED <<unloaded, exit>>
        /\ UNCHANGED proc

Next ==
    \/ ServeLoop
    \/ Tick
    \/ \E p \in Processes :
          \/ \E lost \in BOOLEAN : Start(p, lost)
          \/ StartWithoutTokenizer(p)
          \/ ProcessEnds(p)
          \/ \E reached, answered \in BOOLEAN : Heartbeat(p, reached, answered)
          \/ TaskEnds(p)
    \/ \E id \in DOMAIN engines : Schedule(id)
    \/ \E o \in DOMAIN objs : TaskFails(o)

\* The serve loop and the heartbeat threads run for ever, and time passes.
Fairness ==
    /\ WF_vars(ServeLoop) /\ WF_vars(Tick)
    /\ \A p \in Processes :
          WF_vars(\E reached, answered \in BOOLEAN :
                      Heartbeat(p, reached, answered))

Spec == Init /\ [][Next]_vars /\ Fairness

(* ------------------------------ properties ------------------------------ *)

Registered(o) == o \in DOMAIN objs /\ objs[o].id \in DOMAIN engines
                 /\ engines[objs[o].id] = o
BeatsId(id) == \E p \in Processes : proc[p].daemon /\ IdOf(p) = id
EverUsed == {objs[o].model : o \in DOMAIN objs}
Shares(m, M) == \E n \in M \ {m} : Tokenizer[n] = Tokenizer[m]

\* The reference count of a model is the number of its registered engines,
\* whatever the order of registrations, heartbeats, failures and sweeps; a
\* registration whose tokenizer did not load leaves one reference behind for
\* ever.
RefsExact ==
    exit = "no" => \A m \in Models :
        refs[m] = Cardinality(EnginesOf(m, DOMAIN engines))
                  + IF m \in unloaded THEN 1 ELSE 0

\* The tokenizer of a registered engine is loaded, and no other is, unless its
\* first load failed or a model that uses the same one has come and gone.
TokenizersServed ==
    exit = "no" =>
        /\ tokenizers \subseteq TokenizersOf({m \in Models : refs[m] > 0})
        /\ \A id \in DOMAIN engines :
              LET m == objs[engines[id]].model
              IN  \/ Tokenizer[m] \in tokenizers \cup {TEXT}
                  \/ m \in unloaded
                  \/ Shares(m, EverUsed)

\* The assertion of remove_tokenizer ends the serve core only if two models
\* with one tokenizer have both been registered.
AssertsOnlyIfShared ==
    exit = "no tokenizer" => \E m \in EverUsed : Shares(m, EverUsed)

\* An engine whose heartbeat thread lives is never given up for dead: it stays
\* in the table, under the id its process knows, until a task fails on it.
HealthyStays ==
    exit = "no" => \A p \in Processes :
        proc[p].daemon /\ objs[proc[p].obj].status # "BAD" =>
            Registered(proc[p].obj)

\* An engine that nobody sends heartbeats for is swept, unless its id is that
\* of a process that was swept before and still sends them.
SilentSwept ==
    \A o \in 1 .. MaxEngines :
        (Registered(o) /\ ~ BeatsId(objs[o].id))
            ~> (~ Registered(o) \/ BeatsId(objs[o].id) \/ exit # "no")
=============================================================================
