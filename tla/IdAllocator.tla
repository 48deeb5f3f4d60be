---------------------------- MODULE IdAllocator ----------------------------
(***************************************************************************)
(* What the managers of the serve layer and of the engine expect of an id  *)
(* pool: an id that is handed out is not in use, and stays out of reach of *)
(* everybody else until its holder gives it back.  ContextManager allocates*)
(* its context ids by this specification; RecyclePool implements it.       *)
(***************************************************************************)
CONSTANTS Ids, Clients

VARIABLE inUse   \* the ids each client holds

InUse == UNION {inUse[c] : c \in Clients}

Init == inUse = [c \in Clients |-> {}]

Allocate(c) ==
    \E id \in Ids \ InUse : inUse' = [inUse EXCEPT ![c] = @ \cup {id}]

Free(c) ==
    \E id \in inUse[c] : inUse' = [inUse EXCEPT ![c] = @ \ {id}]

Next == \E c \in Clients : Allocate(c) \/ Free(c)

Spec == Init /\ [][Next]_inUse
=============================================================================
