----------------------------- MODULE ServeCore -----------------------------
(***************************************************************************)
(* Sessions: the tables of the serve core (serve/core.py,                  *)
(* serve/session_manager.py, serve/session/session.py and the namespaces   *)
(* of serve/variable_manager.py) and the VirtualMachines of the clients    *)
(* (frontend/pfunc/vm.py), which talk to them over HTTP.                   *)
(*                                                                         *)
(* Handlers run to their next await without interruption.  A reply may be  *)
(* lost, a client may die and start again, an executor may fail.  A named  *)
(* bound: a session is given one piece of work, semantic or native.        *)
(***************************************************************************)
EXTENDS Naturals, Sequences, FiniteSets

CONSTANTS
    Clients,
    Ids,           \* the ids the pool hands out
    LifeSpan,      \* session_life_span, in ticks
    MaxSessions    \* bound: the sessions registered in a behaviour

ASSUME LifeSpanAssumption == LifeSpan \in Nat

NONE_SESSION_ID == "NONE"

VARIABLES
    objs,       \* every session object ever made
    sessions,   \* session id -> session object
    access,     \* session id -> ticks since the last access
    spaces,     \* session id -> the object its local namespace was made for
    vm          \* the VirtualMachine of every client

vars == <<objs, sessions, access, spaces, vm>>
tables == <<objs, sessions, access, spaces>>

\* session_id, the session it registered, and the two global environments.
NewVM == [phase |-> "idle", sid |-> NONE_SESSION_ID, mine |-> 0,
          funcEnv |-> FALSE, varEnv |-> FALSE]

Init ==
    /\ objs = <<>>
    /\ sessions = << >> /\ access = << >> /\ spaces = << >>
    /\ vm = [c \in Clients |-> NewVM]

With(f, id, x) == [k \in DOMAIN f \cup {id} |-> IF k = id THEN x ELSE f[k]]
Without(f, S) == [k \in DOMAIN f \ S |-> f[k]]

(* ---------------------------- session manager --------------------------- *)

NewSession(id) == [id |-> id, status |-> "RUNNING", work |-> "none",
                   native |-> FALSE, bad |-> {}]

\* Mutant: the id of an expired session is free before it is swept.
FreeIds_Expired ==
    {id \in Ids : id \in DOMAIN sessions => access[id] > LifeSpan}

\* The ids the pool may allocate (RecyclePool implements IdAllocator).
FreeIds == Ids \ DOMAIN sessions

\* _register_session_resources and free_session_resources: the namespaces.
RegisterLocalVarSpace(id) == spaces' = With(spaces, id, Len(objs) + 1)
FreeLocalVarSpaces(S) == spaces' = Without(spaces, S)

RegisterSession(id) ==
    /\ objs' = Append(objs, NewSession(id))
    /\ sessions' = With(sessions, id, Len(objs) + 1)
    /\ access' = With(access, id, 0)
    /\ RegisterLocalVarSpace(id)

\* Mutant: the local namespace of a removed session is kept.
RemoveSessions_KeepsSpace(S, status) ==
    /\ objs' = [o \in DOMAIN objs |->
                   IF \E id \in S : sessions[id] = o
                   THEN [objs[o] EXCEPT !.status = status[objs[o].id]]
                   ELSE objs[o]]
    /\ sessions' = Without(sessions, S)
    /\ access' = Without(access, S)
    /\ spaces' = spaces

\* _remove_session for every id of S: out of both tables, the namespace
\* freed, the id given back.  Nothing stops the coroutines of the session.
RemoveSessions(S, status) ==
    /\ objs' = [o \in DOMAIN objs |->
                   IF \E id \in S : sessions[id] = o
                   THEN [objs[o] EXCEPT !.status = status[objs[o].id]]
                   ELSE objs[o]]
    /\ sessions' = Without(sessions, S)
    /\ access' = Without(access, S)
    /\ FreeLocalVarSpaces(S)

\* check_session_status, which every handler begins with.
Valid(id) == id \in DOMAIN sessions /\ objs[sessions[id]].status = "RUNNING"

AccessUpdate(id) == access' = [access EXCEPT ![id] = 0]

\* remove_session; an error when the id is unknown.
RemoveSession(id) ==
    IF Valid(id) THEN RemoveSessions({id}, [i \in {id} |-> "REMOVED"])
                 ELSE UNCHANGED tables

\* add_request: the work of the session begins.
AddRequest(id, native) ==
    /\ AccessUpdate(id)
    /\ objs[sessions[id]].work = "none"
    /\ objs' = [objs EXCEPT ![sessions[id]].work = "running",
                            ![sessions[id]].native = native]
    /\ UNCHANGED <<sessions, spaces>>

\* Mutant: an age is compared with == and may be skipped.
Expired_Exactly(id) == access[id] = LifeSpan

Expired(id) == access[id] > LifeSpan

\* Mutant: only the native executor's exception is looked at.
Broken_NativeOnly(id) == "native" \in objs[sessions[id]].bad

\* check_running_sessions looks at the graph executor's exception only.
Broken(id) == "graph" \in objs[sessions[id]].bad

\* One round of the serve loop: mark, then sweep.
ServeLoop ==
    LET swept == {id \in DOMAIN sessions : Expired(id) \/ Broken(id)}
    IN  /\ swept # {}
        /\ RemoveSessions(swept, [id \in swept |->
                                     IF Expired(id) THEN "DEAD" ELSE "BAD"])
        /\ UNCHANGED vm

Tick ==
    /\ \E id \in DOMAIN access : access[id] <= LifeSpan
    /\ access' = [id \in DOMAIN access |->
                     IF access[id] <= LifeSpan THEN access[id] + 1
                                               ELSE access[id]]
    /\ UNCHANGED <<objs, sessions, spaces, vm>>

(* ------------------------------- executors ------------------------------ *)

\* The coroutines go on after the session is gone.
FinishWork(o) ==
    /\ objs[o].work = "running"
    /\ objs' = [objs EXCEPT ![o].work = "done"]
    /\ UNCHANGED <<sessions, access, spaces, vm>>

\* exception_interrupt of an executor: its bad_exception is set.
Interrupt(o, executor) ==
    /\ objs[o].work = "running"
    /\ objs' = [objs EXCEPT ![o].work = "failed", ![o].bad = @ \cup {executor}]
    /\ UNCHANGED <<sessions, access, spaces, vm>>

\* A chain cannot be scheduled, or a primitive fails.
FailGraph(o) == ~ objs[o].native /\ Interrupt(o, "graph")

\* A native function raises, or its timeout does.
FailNative(o) == objs[o].native /\ Interrupt(o, "native")

(* ------------------------- clients: the VM's scope ---------------------- *)

\* What the VM makes of the reply to its registration, which it sends once.
RegisterReply(c, id, lost) ==
    IF lost THEN [vm[c] EXCEPT !.phase = "idle"]
    ELSE [vm[c] EXCEPT !.phase = "running", !.sid = id,
                       !.mine = Len(objs) + 1]

\* running_scope: set_global_env sets both environments, then registers a
\* session.  When the reply is lost the error leaves the scope at once: the
\* environments stay set, and the VM does not know the session.
EnterScope(c, lost) ==
    /\ vm[c].phase = "idle"
    /\ Len(objs) < MaxSessions
    /\ \E id \in FreeIds :
        /\ RegisterSession(id)
        /\ vm' = [vm EXCEPT ![c] = [RegisterReply(c, id, lost) EXCEPT
                                       !.funcEnv = TRUE, !.varEnv = TRUE]]

\* The program ends, or an error of one of its calls is caught.
Leave(c) == vm' = [vm EXCEPT ![c].phase = "leaving"]

ProgramEnds(c) ==
    /\ vm[c].phase = "running"
    /\ Leave(c)
    /\ UNCHANGED tables

\* unset_global_env: the functions' environment is unset, the variables' one
\* is not; then the session is removed.  An error leaves session_id as it is.
UnsetGlobalEnv(c, lost) ==
    /\ vm[c].phase = "leaving"
    /\ vm' = [vm EXCEPT ![c].phase = "idle", ![c].funcEnv = FALSE,
                 ![c].sid = IF Valid(vm[c].sid) /\ ~ lost
                            THEN NONE_SESSION_ID ELSE @]
    /\ RemoveSession(vm[c].sid)

\* The process of the client ends without leaving the scope, and is started
\* again.
ClientDies(c) ==
    /\ vm[c].phase \in {"running", "waiting", "leaving"}
    /\ vm' = [vm EXCEPT ![c] = NewVM]
    /\ UNCHANGED tables

(* ------------------------- clients: API calls --------------------------- *)

\* What an error response does: the program ends when it is in the scope.
ErrorResponse(c) ==
    /\ vm[c].phase = "running"
    /\ Leave(c)
    /\ UNCHANGED tables

\* submit_semantic_call and submit_py_native_call, in the scope or with an
\* environment that was left behind.
Submit(c, native) ==
    /\ vm[c].phase \in {"running", "idle"} /\ vm[c].funcEnv
    /\ IF Valid(vm[c].sid)
       THEN AddRequest(vm[c].sid, native) /\ UNCHANGED vm
       ELSE ErrorResponse(c)

\* register_semantic_variable and set_semantic_variable.
AccessVar(c) ==
    /\ vm[c].phase \in {"running", "idle"} /\ vm[c].varEnv
    /\ IF Valid(vm[c].sid)
       THEN /\ AccessUpdate(vm[c].sid)
            /\ UNCHANGED <<objs, sessions, spaces, vm>>
       ELSE ErrorResponse(c)

\* get_semantic_variable: the session is checked and accessed, the variable
\* looked up in the namespace found there, then the handler waits for it.  A
\* variable of another namespace is unknown.
GetVar(c) ==
    LET sid == vm[c].sid
    IN  /\ vm[c].phase = "running"
        /\ objs[vm[c].mine].work # "none"
        /\ IF Valid(sid)
           THEN /\ AccessUpdate(sid)
                /\ IF spaces[sid] = vm[c].mine
                   THEN vm' = [vm EXCEPT ![c].phase = "waiting"]
                   ELSE Leave(c)
                /\ UNCHANGED <<objs, sessions, spaces>>
           ELSE ErrorResponse(c)


\* The variable is ready: the handler, which still holds it, returns.
GetReturns(c) ==
    /\ vm[c].phase = "waiting"
    /\ objs[vm[c].mine].work = "done"
    /\ vm' = [vm EXCEPT ![c].phase = "running"]
    /\ UNCHANGED tables

Next ==
    \/ ServeLoop
    \/ Tick
    \/ \E o \in DOMAIN objs : FinishWork(o) \/ FailGraph(o) \/ FailNative(o)
    \/ \E c \in Clients :
          \/ \E lost \in BOOLEAN :
                EnterScope(c, lost) \/ UnsetGlobalEnv(c, lost)
          \/ ProgramEnds(c)
          \/ ClientDies(c)
          \/ \E native \in BOOLEAN : Submit(c, native)
          \/ AccessVar(c)
          \/ GetVar(c)
          \/ GetReturns(c)

\* The serve loop runs for ever, time passes, and a handler whose variable is
\* ready is resumed.  Nothing is assumed of the executors: work may wait for
\* ever, for a variable that nobody sets, for a context whose filler has failed
\* (graph_executor.py:144) or for a native function that does not return.
Fairness ==
    /\ WF_vars(ServeLoop) /\ WF_vars(Tick)
    /\ \A c \in Clients : WF_vars(GetReturns(c))

Spec == Init /\ [][Next]_vars /\ Fairness

(* ------------------------------ properties ------------------------------ *)

Live(o) == o \in DOMAIN objs /\ objs[o].status = "RUNNING"
Holds(c, o) == o \in DOMAIN objs /\ vm[c].sid = objs[o].id

\* The session table, the access times and the namespaces name the same
\* sessions, whatever the order of registrations, removals, expiry and
\* errors: every id of a live session leads to that session and to the
\* namespace made for it, and to no session that is gone.
TablesAgree ==
    /\ DOMAIN sessions = DOMAIN access
    /\ spaces = sessions
    /\ \A id \in DOMAIN sessions :
           Live(sessions[id]) /\ objs[sessions[id]].id = id
    /\ \A o \in DOMAIN objs :
           Live(o) => /\ objs[o].id \in DOMAIN sessions
                      /\ sessions[objs[o].id] = o

\* While the session a client registered is alive the client's id leads to it:
\* ids are never reused too early.
OwnSessionReached ==
    \A c \in Clients :
        vm[c].phase # "idle" /\ Live(vm[c].mine) =>
            /\ vm[c].sid \in DOMAIN sessions
            /\ sessions[vm[c].sid] = vm[c].mine

\* A session that no client knows of (its client died, or never received the
\* id) is removed, unless its id becomes the stale id of some client.
AbandonedRemoved ==
    \A o \in 1 .. MaxSessions :
        (Live(o) /\ \A c \in Clients : ~ Holds(c, o))
            ~> (~ Live(o) \/ \E c \in Clients : Holds(c, o))

\* A session whose graph executor has failed is removed, however often its
\* client calls.
FailedRemoved ==
    \A o \in 1 .. MaxSessions :
        (Live(o) /\ "graph" \in objs[o].bad) ~> ~ Live(o)

=============================================================================
