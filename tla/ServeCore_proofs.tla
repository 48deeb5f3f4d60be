------------------------- MODULE ServeCore_proofs ---------------------------
(***************************************************************************)
(* The tables of the serve core agree, and a client whose session is alive *)
(* reaches it, for any clients, ids, life span and number of sessions.     *)
(*                                                                         *)
(* OwnSessionReached is not inductive: it follows from TablesAgree once we *)
(* know that the id a client keeps is the id of the session it registered  *)
(* (OwnId), and that depends on when a virtual machine forgets its id.     *)
(***************************************************************************)
EXTENDS ServeCore, TLAPS

Session ==
    [id : Ids, status : {"RUNNING", "REMOVED", "DEAD", "BAD"},
     work : {"none", "running", "done", "failed"}, native : BOOLEAN,
     bad : SUBSET {"native", "graph"}]

VirtualMachine ==
    [phase : {"idle", "running", "waiting", "leaving"},
     sid : Ids \cup {NONE_SESSION_ID}, mine : Nat,
     funcEnv : BOOLEAN, varEnv : BOOLEAN]

Types ==
    /\ objs \in Seq(Session)
    /\ vm \in [Clients -> VirtualMachine]

\* Inside its scope a client keeps the id of the session it registered.
OwnId ==
    \A c \in Clients : vm[c].phase # "idle" =>
        vm[c].mine \in DOMAIN objs /\ objs[vm[c].mine].id = vm[c].sid

\* The inductive invariant.
CoreInv == Types /\ TablesAgree /\ OwnId

\* At the start there is no session and every client is outside its scope.
LEMMA CoreInvInit == Init => CoreInv
<1> SUFFICES ASSUME Init PROVE CoreInv
  OBVIOUS
<1>1. Types
  BY DEF Init, Types, NewVM, VirtualMachine
<1>2. TablesAgree
  BY DEF Init, TablesAgree, Live
<1>3. OwnId
  BY DEF Init, OwnId, NewVM
<1> QED
  BY <1>1, <1>2, <1>3 DEF CoreInv

\* The steps that leave the tables alone, except for the access times and for
\* what the objects record of their work.
LEMMA SameTables ==
  ASSUME CoreInv,
         objs' \in Seq(Session), DOMAIN objs' = DOMAIN objs,
         \A o \in DOMAIN objs : /\ objs'[o].id = objs[o].id
                                /\ objs'[o].status = objs[o].status,
         sessions' = sessions, spaces' = spaces, DOMAIN access' = DOMAIN access
  PROVE  TablesAgree'
  BY DEF CoreInv, TablesAgree, Live

\* A registration appends an object and takes an id that no session has.
LEMMA RegisterSessionInv ==
  ASSUME CoreInv, NEW id \in FreeIds, RegisterSession(id)
  PROVE  /\ objs' \in Seq(Session)
         /\ DOMAIN objs' = DOMAIN objs \cup {Len(objs) + 1}
         /\ \A o \in DOMAIN objs : objs'[o] = objs[o]
         /\ Len(objs) + 1 \notin DOMAIN objs
         /\ objs'[Len(objs) + 1] = NewSession(id)
         /\ TablesAgree'
<1> DEFINE new == Len(objs) + 1
<1>1. NewSession(id) \in Session
  BY DEF NewSession, Session, FreeIds
<1>2. objs \in Seq(Session) /\ Len(objs) \in Nat /\ new \notin DOMAIN objs
  BY DEF CoreInv, Types
<1>3. /\ objs' \in Seq(Session)
      /\ DOMAIN objs' = DOMAIN objs \cup {new}
      /\ \A o \in DOMAIN objs : objs'[o] = objs[o]
      /\ objs'[new] = NewSession(id)
  BY <1>1, <1>2 DEF RegisterSession
<1>4. objs'[new].id = id /\ objs'[new].status = "RUNNING"
  BY <1>3 DEF NewSession
<1>5. /\ DOMAIN sessions' = DOMAIN sessions \cup {id}
      /\ DOMAIN access' = DOMAIN access \cup {id}
      /\ \A i \in DOMAIN sessions : i # id => sessions'[i] = sessions[i]
      /\ sessions'[id] = new
      /\ id \notin DOMAIN sessions
  BY DEF RegisterSession, With, FreeIds
<1>6. spaces' = sessions'
  BY DEF RegisterSession, RegisterLocalVarSpace, CoreInv, TablesAgree
<1>7. \A i \in DOMAIN sessions' :
          Live(sessions[i])' /\ objs'[sessions'[i]].id = i
  BY <1>3, <1>4, <1>5 DEF CoreInv, TablesAgree, Live
<1>8. \A o \in DOMAIN objs' : Live(o)' => /\ objs'[o].id \in DOMAIN sessions'
                                          /\ sessions'[objs'[o].id] = o
  BY <1>3, <1>4, <1>5 DEF CoreInv, TablesAgree, Live
<1>9. TablesAgree'
  BY <1>5, <1>6, <1>7, <1>8 DEF CoreInv, TablesAgree, Live
<1> QED
  BY <1>2, <1>3, <1>9

\* A removal takes the ids of S out of all tables and ends their sessions.
LEMMA RemoveSessionsInv ==
  ASSUME CoreInv, NEW S, S \subseteq DOMAIN sessions, NEW status,
         \A id \in S : status[id] \in {"REMOVED", "DEAD", "BAD"},
         RemoveSessions(S, status)
  PROVE  /\ objs' \in Seq(Session)
         /\ DOMAIN objs' = DOMAIN objs
         /\ \A o \in DOMAIN objs : objs'[o].id = objs[o].id
         /\ TablesAgree'
<1>1. objs \in Seq(Session) /\ \A o \in DOMAIN objs : objs[o] \in Session
  BY DEF CoreInv, Types
<1>2. \A id \in S : objs[sessions[id]].id = id
  BY DEF CoreInv, TablesAgree
<1>3. ASSUME NEW o \in DOMAIN objs
      PROVE  /\ objs'[o] \in Session
             /\ objs'[o].id = objs[o].id
             /\ IF \E id \in S : sessions[id] = o
                THEN objs'[o].status # "RUNNING"
                ELSE objs'[o].status = objs[o].status
  <2>1. CASE \E id \in S : sessions[id] = o
    <3>1. objs[o].id \in S
      BY <1>2, <2>1
    <3>2. objs'[o] = [objs[o] EXCEPT !.status = status[objs[o].id]]
      BY <2>1 DEF RemoveSessions
    <3> QED
      BY <1>1, <2>1, <3>1, <3>2 DEF Session
  <2>2. CASE ~ \E id \in S : sessions[id] = o
    BY <1>1, <2>2 DEF RemoveSessions
  <2> QED
    BY <2>1, <2>2
<1>4. DOMAIN objs' = DOMAIN objs /\ objs' \in Seq(Session)
  <2>1. objs' = [o \in 1 .. Len(objs) |-> objs'[o]] /\ Len(objs) \in Nat
    BY <1>1 DEF RemoveSessions
  <2> QED
    BY <1>1, <1>3, <2>1
<1>5. /\ DOMAIN sessions' = DOMAIN sessions \ S
      /\ DOMAIN access' = DOMAIN access \ S
      /\ \A i \in DOMAIN sessions' : sessions'[i] = sessions[i]
      /\ spaces' = sessions'
  BY DEF RemoveSessions, FreeLocalVarSpaces, Without, CoreInv, TablesAgree
<1>6. \A i \in DOMAIN sessions' :
          Live(sessions[i])' /\ objs'[sessions'[i]].id = i
  <2> SUFFICES ASSUME NEW i \in DOMAIN sessions'
               PROVE  Live(sessions[i])' /\ objs'[sessions'[i]].id = i
    OBVIOUS
  <2>1. Live(sessions[i]) /\ objs[sessions[i]].id = i /\ i \notin S
    BY <1>5 DEF CoreInv, TablesAgree
  <2>2. ~ \E id \in S : sessions[id] = sessions[i]
    BY <1>2, <2>1
  <2> QED
    BY <1>3, <1>4, <1>5, <2>1, <2>2 DEF Live
<1>7. \A o \in DOMAIN objs' : Live(o)' => /\ objs'[o].id \in DOMAIN sessions'
                                          /\ sessions'[objs'[o].id] = o
  <2> SUFFICES ASSUME NEW o \in DOMAIN objs', Live(o)'
               PROVE  /\ objs'[o].id \in DOMAIN sessions'
                      /\ sessions'[objs'[o].id] = o
    OBVIOUS
  <2>1. Live(o) /\ ~ \E id \in S : sessions[id] = o
    BY <1>3, <1>4 DEF Live
  <2>2. objs[o].id \in DOMAIN sessions /\ sessions[objs[o].id] = o
    BY <1>4, <2>1 DEF CoreInv, TablesAgree
  <2> QED
    BY <1>3, <1>4, <1>5, <2>1, <2>2
<1> QED
  BY <1>3, <1>4, <1>5, <1>6, <1>7 DEF CoreInv, TablesAgree, Live

\* The steps of the executors and of time, and the calls that only touch the
\* access times and the work of a session.
LEMMA QuietInv ==
  ASSUME CoreInv,
         objs' \in Seq(Session), DOMAIN objs' = DOMAIN objs,
         \A o \in DOMAIN objs : /\ objs'[o].id = objs[o].id
                                /\ objs'[o].status = objs[o].status,
         sessions' = sessions, spaces' = spaces, DOMAIN access' = DOMAIN access,
         vm' \in [Clients -> VirtualMachine],
         \A c \in Clients : \/ vm'[c].phase = "idle"
                            \/ /\ vm[c].phase # "idle"
                               /\ vm'[c].mine = vm[c].mine
                               /\ vm'[c].sid = vm[c].sid
  PROVE  CoreInv'
<1>1. Types'
  BY DEF Types
<1>2. TablesAgree'
  BY SameTables
<1>3. OwnId'
  BY DEF CoreInv, OwnId
<1> QED
  BY <1>1, <1>2, <1>3 DEF CoreInv

\* Work that begins, ends or fails changes neither the id nor the status.
LEMMA WorkInv ==
  ASSUME CoreInv, NEW o \in DOMAIN objs, NEW x \in Session,
         x.id = objs[o].id, x.status = objs[o].status,
         objs' = [objs EXCEPT ![o] = x]
  PROVE  /\ objs' \in Seq(Session)
         /\ DOMAIN objs' = DOMAIN objs
         /\ \A p \in DOMAIN objs : /\ objs'[p].id = objs[p].id
                                   /\ objs'[p].status = objs[p].status
  BY DEF CoreInv, Types

LEMMA ServeLoopInv == ASSUME CoreInv, ServeLoop PROVE CoreInv'
<1> DEFINE swept == {id \in DOMAIN sessions : Expired(id) \/ Broken(id)}
           status == [id \in swept |-> IF Expired(id) THEN "DEAD" ELSE "BAD"]
<1>1. RemoveSessions(swept, status) /\ vm' = vm
  BY DEF ServeLoop
<1>2. \A id \in swept : status[id] \in {"REMOVED", "DEAD", "BAD"}
  OBVIOUS
<1>3. swept \subseteq DOMAIN sessions
  OBVIOUS
<1> HIDE DEF swept, status
<1>4. /\ objs' \in Seq(Session) /\ DOMAIN objs' = DOMAIN objs
      /\ \A o \in DOMAIN objs : objs'[o].id = objs[o].id
      /\ TablesAgree'
  BY <1>1, <1>2, <1>3, RemoveSessionsInv
<1> QED
  BY <1>1, <1>4 DEF CoreInv, Types, OwnId

LEMMA TickInv == ASSUME CoreInv, Tick PROVE CoreInv'
  BY QuietInv DEF Tick, CoreInv, Types

LEMMA FinishWorkInv ==
  ASSUME CoreInv, NEW o \in DOMAIN objs, FinishWork(o)
  PROVE  CoreInv'
<1> DEFINE x == [objs[o] EXCEPT !.work = "done"]
<1>1. objs[o] \in Session
  BY DEF CoreInv, Types
<1>2. x \in Session /\ x.id = objs[o].id /\ x.status = objs[o].status
  BY <1>1 DEF Session
<1>3. objs' = [objs EXCEPT ![o] = x]
  BY DEF FinishWork
<1> HIDE DEF x
<1> QED
  BY <1>2, <1>3, WorkInv, QuietInv DEF FinishWork, CoreInv, Types

LEMMA InterruptInv ==
  ASSUME CoreInv, NEW o \in DOMAIN objs, NEW n \in {"graph", "native"},
         Interrupt(o, n)
  PROVE  CoreInv'
<1> DEFINE x == [objs[o] EXCEPT !.work = "failed", !.bad = @ \cup {n}]
<1>1. objs[o] \in Session
  BY DEF CoreInv, Types
<1>2. x \in Session /\ x.id = objs[o].id /\ x.status = objs[o].status
  BY <1>1 DEF Session
<1>3. objs' = [objs EXCEPT ![o] = x]
  BY DEF Interrupt
<1> HIDE DEF x
<1> QED
  BY <1>2, <1>3, WorkInv, QuietInv DEF Interrupt, CoreInv, Types

LEMMA FailWorkInv ==
  ASSUME CoreInv, NEW o \in DOMAIN objs, FailGraph(o) \/ FailNative(o)
  PROVE  CoreInv'
<1>1. CASE FailGraph(o)
  BY <1>1, InterruptInv DEF FailGraph
<1>2. CASE FailNative(o)
  BY <1>2, InterruptInv DEF FailNative
<1> QED
  BY <1>1, <1>2

\* The client either learns the id of the object it registered or stays idle.
LEMMA EnterScopeInv ==
  ASSUME CoreInv, NEW c \in Clients, NEW lost \in BOOLEAN, EnterScope(c, lost)
  PROVE  CoreInv'
<1>1. PICK id \in FreeIds :
        /\ RegisterSession(id)
        /\ vm' = [vm EXCEPT ![c] = [RegisterReply(c, id, lost) EXCEPT
                                       !.funcEnv = TRUE, !.varEnv = TRUE]]
  BY DEF EnterScope
<1> DEFINE new == Len(objs) + 1
           reply == [RegisterReply(c, id, lost) EXCEPT
                        !.funcEnv = TRUE, !.varEnv = TRUE]
<1>2. /\ objs' \in Seq(Session)
      /\ DOMAIN objs' = DOMAIN objs \cup {new}
      /\ \A o \in DOMAIN objs : objs'[o] = objs[o]
      /\ objs'[new] = NewSession(id)
      /\ TablesAgree'
  BY <1>1, RegisterSessionInv
<1>3. new \in Nat /\ id \in Ids /\ vm[c] \in VirtualMachine
  BY DEF CoreInv, Types, FreeIds
<1>4. /\ reply \in VirtualMachine
      /\ reply.phase = "idle" \/ (reply.mine = new /\ reply.sid = id)
  BY <1>3 DEF RegisterReply, VirtualMachine
<1> HIDE DEF reply
<1>5. /\ vm' \in [Clients -> VirtualMachine]
      /\ vm'[c] = reply
      /\ \A d \in Clients : d # c => vm'[d] = vm[d]
  BY <1>1, <1>4 DEF CoreInv, Types, reply
<1> HIDE DEF new
<1>6. objs'[new].id = id
  BY <1>2 DEF NewSession
<1>7. OwnId'
  BY <1>2, <1>4, <1>6, <1>5 DEF CoreInv, OwnId
<1> QED
  BY <1>2, <1>5, <1>7 DEF CoreInv, Types

\* The client leaves its scope, so that it has no claim on the session.
LEMMA UnsetGlobalEnvInv ==
  ASSUME CoreInv, NEW c \in Clients, NEW lost \in BOOLEAN,
         UnsetGlobalEnv(c, lost)
  PROVE  CoreInv'
<1>1. /\ vm' \in [Clients -> VirtualMachine]
      /\ vm'[c].phase = "idle"
      /\ \A d \in Clients : d # c => vm'[d] = vm[d]
  <2> DEFINE sid == IF Valid(vm[c].sid) /\ ~ lost
                    THEN NONE_SESSION_ID ELSE vm[c].sid
             x == [vm[c] EXCEPT !.phase = "idle", !.funcEnv = FALSE, !.sid = sid]
  <2>1. vm[c] \in VirtualMachine
    BY DEF CoreInv, Types
  <2>2. sid \in Ids \cup {NONE_SESSION_ID}
    BY <2>1 DEF VirtualMachine
  <2>3. vm' = [vm EXCEPT ![c] = x]
    BY DEF UnsetGlobalEnv
  <2> HIDE DEF sid
  <2>4. x \in VirtualMachine /\ x.phase = "idle"
    BY <2>1, <2>2 DEF VirtualMachine
  <2> HIDE DEF x
  <2> QED
    BY <2>3, <2>4 DEF CoreInv, Types
<1>2. CASE Valid(vm[c].sid)
  <2> DEFINE id == vm[c].sid
             status == [i \in {id} |-> "REMOVED"]
  <2>1. RemoveSessions({id}, status) /\ id \in DOMAIN sessions
    BY <1>2 DEF UnsetGlobalEnv, RemoveSession, Valid
  <2>2. \A i \in {id} : status[i] \in {"REMOVED", "DEAD", "BAD"}
    OBVIOUS
  <2> HIDE DEF id, status
  <2>3. /\ objs' \in Seq(Session) /\ DOMAIN objs' = DOMAIN objs
        /\ \A o \in DOMAIN objs : objs'[o].id = objs[o].id
        /\ TablesAgree'
    BY <2>1, <2>2, RemoveSessionsInv
  <2> QED
    BY <1>1, <2>3 DEF CoreInv, Types, OwnId
<1>3. CASE ~ Valid(vm[c].sid)
  <2>1. UNCHANGED <<objs, sessions, access, spaces>>
    BY <1>3 DEF UnsetGlobalEnv, RemoveSession, tables
  <2> QED
    BY <1>1, <2>1, QuietInv DEF CoreInv, Types
<1> QED
  BY <1>2, <1>3

\* A step of a client that changes no table and only the phase of its machine.
LEMMA PhaseInv ==
  ASSUME CoreInv, NEW c \in Clients, vm[c].phase # "idle",
         NEW p \in {"running", "waiting", "leaving"},
         vm' = [vm EXCEPT ![c].phase = p],
         UNCHANGED <<objs, sessions, spaces>>, DOMAIN access' = DOMAIN access
  PROVE  CoreInv'
<1>1. /\ vm' \in [Clients -> VirtualMachine]
      /\ vm'[c].mine = vm[c].mine /\ vm'[c].sid = vm[c].sid
      /\ \A d \in Clients : d # c => vm'[d] = vm[d]
  BY DEF CoreInv, Types, VirtualMachine
<1> QED
  BY <1>1, QuietInv DEF CoreInv, Types

LEMMA ErrorResponseInv ==
  ASSUME CoreInv, NEW c \in Clients, ErrorResponse(c)
  PROVE  CoreInv'
  BY PhaseInv DEF ErrorResponse, Leave, tables

LEMMA ProgramEndsInv ==
  ASSUME CoreInv, NEW c \in Clients, ProgramEnds(c)
  PROVE  CoreInv'
  BY PhaseInv DEF ProgramEnds, Leave, tables

LEMMA ClientDiesInv ==
  ASSUME CoreInv, NEW c \in Clients, ClientDies(c)
  PROVE  CoreInv'
<1>1. /\ vm' \in [Clients -> VirtualMachine]
      /\ vm'[c].phase = "idle"
      /\ \A d \in Clients : d # c => vm'[d] = vm[d]
  BY DEF ClientDies, CoreInv, Types, NewVM, VirtualMachine
<1> QED
  BY <1>1, QuietInv DEF ClientDies, CoreInv, Types, tables

\* A request reaches a session that the tables know.
LEMMA SubmitInv ==
  ASSUME CoreInv, NEW c \in Clients, NEW native \in BOOLEAN, Submit(c, native)
  PROVE  CoreInv'
<1>1. CASE Valid(vm[c].sid)
  <2> DEFINE id == vm[c].sid
             o == sessions[id]
  <2>1. AddRequest(id, native) /\ vm' = vm /\ id \in DOMAIN sessions
    BY <1>1 DEF Submit, Valid
  <2>2. o \in DOMAIN objs /\ objs[o] \in Session
    BY <2>1 DEF CoreInv, Types, TablesAgree, Live
  <2> DEFINE x == [objs[o] EXCEPT !.work = "running", !.native = native]
  <2>3. x \in Session /\ x.id = objs[o].id /\ x.status = objs[o].status
    BY <2>2 DEF Session
  <2>4. objs' = [objs EXCEPT ![o] = x]
    BY <2>1 DEF AddRequest
  <2> HIDE DEF x, o
  <2> QED
    BY <2>1, <2>2, <2>3, <2>4, WorkInv, QuietInv
       DEF AddRequest, AccessUpdate, CoreInv, Types
<1>2. CASE ~ Valid(vm[c].sid)
  BY <1>2, ErrorResponseInv DEF Submit
<1> QED
  BY <1>1, <1>2

LEMMA AccessVarInv ==
  ASSUME CoreInv, NEW c \in Clients, AccessVar(c)
  PROVE  CoreInv'
<1>1. CASE Valid(vm[c].sid)
  BY <1>1, QuietInv DEF AccessVar, AccessUpdate, CoreInv, Types
<1>2. CASE ~ Valid(vm[c].sid)
  BY <1>2, ErrorResponseInv DEF AccessVar
<1> QED
  BY <1>1, <1>2

LEMMA GetVarInv ==
  ASSUME CoreInv, NEW c \in Clients, GetVar(c)
  PROVE  CoreInv'
<1>1. CASE Valid(vm[c].sid)
  <2>1. UNCHANGED <<objs, sessions, spaces>> /\ DOMAIN access' = DOMAIN access
    BY <1>1 DEF GetVar, AccessUpdate
  <2>2. \E p \in {"running", "waiting", "leaving"} :
            vm' = [vm EXCEPT ![c].phase = p]
    BY <1>1 DEF GetVar, Leave
  <2> QED
    BY <2>1, <2>2, PhaseInv DEF GetVar
<1>2. CASE ~ Valid(vm[c].sid)
  BY <1>2, ErrorResponseInv DEF GetVar
<1> QED
  BY <1>1, <1>2

LEMMA GetReturnsInv ==
  ASSUME CoreInv, NEW c \in Clients, GetReturns(c)
  PROVE  CoreInv'
  BY PhaseInv DEF GetReturns, tables

LEMMA CoreInvNext == CoreInv /\ [Next]_vars => CoreInv'
<1> SUFFICES ASSUME CoreInv, [Next]_vars PROVE CoreInv'
  OBVIOUS
<1>1. CASE UNCHANGED vars
  BY <1>1, QuietInv DEF vars, CoreInv, Types
<1>2. CASE Next
  BY <1>2, ServeLoopInv, TickInv, FinishWorkInv, FailWorkInv, EnterScopeInv,
     UnsetGlobalEnvInv, ProgramEndsInv, ClientDiesInv, SubmitInv,
     AccessVarInv, GetVarInv, GetReturnsInv
     DEF Next
<1> QED
  BY <1>1, <1>2

\* CoreInv holds in every reachable state.
LEMMA CoreInvAlways == Spec => []CoreInv
  BY CoreInvInit, CoreInvNext, PTL DEF Spec

\* The session table, the access times and the namespaces name the same live
\* sessions at all times (session_manager.py, variable_manager.py).
THEOREM TablesAlwaysAgree == Spec => []TablesAgree
<1>1. CoreInv => TablesAgree
  BY DEF CoreInv
<1> QED
  BY <1>1, CoreInvAlways, PTL

\* A client in its scope whose session is alive reaches that session and no
\* other under the id it keeps, although ids are recycled.
THEOREM OwnSessionAlwaysReached == Spec => []OwnSessionReached
<1>1. CoreInv => OwnSessionReached
  <2> SUFFICES ASSUME CoreInv, NEW c \in Clients, vm[c].phase # "idle",
                      Live(vm[c].mine)
               PROVE  /\ vm[c].sid \in DOMAIN sessions
                      /\ sessions[vm[c].sid] = vm[c].mine
    BY DEF OwnSessionReached
  <2>1. vm[c].mine \in DOMAIN objs /\ objs[vm[c].mine].id = vm[c].sid
    BY DEF CoreInv, OwnId
  <2> QED
    BY <2>1 DEF CoreInv, TablesAgree
<1> QED
  BY <1>1, CoreInvAlways, PTL
=============================================================================
