---------------------------- MODULE RecyclePool ----------------------------
(***************************************************************************)
(* utils/recycle_pool.py: the id pool behind contexts, engines, sessions,  *)
(* tasks, semantic-variable seeds and KV-cache blocks.                     *)
(*                                                                         *)
(* The callers are part of the model: they only free ids they hold, which  *)
(* is what every caller in the repository does.  `held` is theirs, not the *)
(* pool's.  The pool counts an allocation before it knows whether it can   *)
(* serve it, so `failed` remembers how often it could not.                 *)
(***************************************************************************)
EXTENDS Integers, Sequences, FiniteSets

CONSTANTS
    PoolSize,     \* pool_size; 0 stands for None (no bound)
    DebugMode,    \* debug_mode: never reuse an id
    Clients,      \* the callers that hold ids
    MaxIds        \* bound of the model on cur_max_id

ASSUME PoolAssumption ==
    /\ PoolSize \in Nat
    /\ DebugMode \in BOOLEAN
    /\ MaxIds \in Nat

VARIABLES
    allocatedNum,   \* allocated_num
    curMaxId,       \* cur_max_id
    freeIds,        \* free_ids, a deque: popped left, appended right
    historyMax,     \* history_max
    held,           \* the ids each client holds
    failed          \* number of allocations that raised "No free ids in Pool"

Larger(a, b) == IF a > b THEN a ELSE b

poolVars == <<allocatedNum, curMaxId, freeIds, historyMax, held, failed>>

HeldIds == UNION {held[c] : c \in Clients}

FreeSet == {freeIds[i] : i \in 1..Len(freeIds)}

TypeOK ==
    /\ allocatedNum \in Nat
    /\ curMaxId \in 0..MaxIds
    /\ freeIds \in Seq(0..MaxIds)
    /\ historyMax \in Nat
    /\ held \in [Clients -> SUBSET (0..MaxIds)]
    /\ failed \in Nat

PoolInit ==
    /\ allocatedNum = 0
    /\ curMaxId = 0
    /\ freeIds = <<>>
    /\ historyMax = 0
    /\ held = [c \in Clients |-> {}]
    /\ failed = 0

-----------------------------------------------------------------------------
(* allocate() *)

\* There is nothing to reuse, or debug_mode forbids it.
NeedsNewId == freeIds = <<>> \/ DebugMode

\* The pool_size test, made after cur_max_id has been incremented.
ExhaustedUnchecked == FALSE
Exhausted == PoolSize # 0 /\ curMaxId + 1 >= PoolSize

AllocateNew_Uncounted(c) ==
    /\ NeedsNewId /\ ~Exhausted
    /\ curMaxId < MaxIds
    /\ curMaxId' = curMaxId + 1
    /\ held' = [held EXCEPT ![c] = @ \cup {curMaxId}]
    /\ UNCHANGED <<allocatedNum, freeIds, historyMax, failed>>

AllocateNew_NoAdvance(c) ==
    /\ NeedsNewId /\ ~Exhausted
    /\ curMaxId < MaxIds
    /\ allocatedNum' = allocatedNum + 1
    /\ held' = [held EXCEPT ![c] = @ \cup {curMaxId}]
    /\ UNCHANGED <<curMaxId, freeIds, historyMax, failed>>

AllocateNew(c) ==
    /\ NeedsNewId /\ ~Exhausted
    /\ curMaxId < MaxIds
    /\ allocatedNum' = allocatedNum + 1
    /\ curMaxId' = curMaxId + 1
    /\ held' = [held EXCEPT ![c] = @ \cup {curMaxId}]
    /\ UNCHANGED <<freeIds, historyMax, failed>>

\* allocate() raises ParrotError: both counters have already moved.
AllocateRaises ==
    /\ NeedsNewId /\ Exhausted
    /\ curMaxId < MaxIds
    /\ allocatedNum' = allocatedNum + 1
    /\ curMaxId' = curMaxId + 1
    /\ failed' = failed + 1
    /\ UNCHANGED <<freeIds, historyMax, held>>

AllocateReuse_PeekOnly(c) ==
    /\ ~NeedsNewId
    /\ allocatedNum' = allocatedNum + 1
    /\ historyMax' = Larger(historyMax, allocatedNum + 1)
    /\ held' = [held EXCEPT ![c] = @ \cup {Head(freeIds)}]
    /\ UNCHANGED <<freeIds, curMaxId, failed>>

\* The id that has been free for the longest time is handed out again.
AllocateReuse(c) ==
    /\ ~NeedsNewId
    /\ allocatedNum' = allocatedNum + 1
    /\ freeIds' = Tail(freeIds)
    /\ historyMax' = Larger(historyMax, allocatedNum + 1)
    /\ held' = [held EXCEPT ![c] = @ \cup {Head(freeIds)}]
    /\ UNCHANGED <<curMaxId, failed>>

-----------------------------------------------------------------------------
(* free(id), called by the holder of id *)

Free_Uncounted(c, id) ==
    /\ id \in held[c] /\ id \notin FreeSet
    /\ freeIds' = Append(freeIds, id)
    /\ held' = [held EXCEPT ![c] = @ \ {id}]
    /\ UNCHANGED <<allocatedNum, curMaxId, historyMax, failed>>

Free_Forgets(c, id) ==
    /\ id \in held[c] /\ id \notin FreeSet
    /\ allocatedNum' = allocatedNum - 1
    /\ held' = [held EXCEPT ![c] = @ \ {id}]
    /\ UNCHANGED <<freeIds, curMaxId, historyMax, failed>>

\* The error "The id is already free." is the negation of id \notin FreeSet;
\* Exclusive says that the holder of an id never meets it.
Free(c, id) ==
    /\ id \in held[c] /\ id \notin FreeSet
    /\ allocatedNum' = allocatedNum - 1
    /\ freeIds' = Append(freeIds, id)
    /\ held' = [held EXCEPT ![c] = @ \ {id}]
    /\ UNCHANGED <<curMaxId, historyMax, failed>>

PoolNext ==
    \/ AllocateRaises
    \/ \E c \in Clients : \/ AllocateNew(c)
                          \/ AllocateReuse(c)
                          \/ \E id \in held[c] : Free(c, id)

PoolSpec == PoolInit /\ [][PoolNext]_poolVars

-----------------------------------------------------------------------------
(* Properties *)

\* An id is never handed out to two holders: two clients hold different ids,
\* what they hold is not waiting in free_ids, no id waits there twice, and the
\* next fresh id has never been issued.  allocate() checks none of this.
Exclusive ==
    /\ \A c, d \in Clients : c # d => held[c] \cap held[d] = {}
    /\ HeldIds \cap FreeSet = {}
    /\ \A i, j \in 1..Len(freeIds) : freeIds[i] = freeIds[j] => i = j
    /\ \A id \in HeldIds \cup FreeSet : id < curMaxId

\* get_allocated_num() is the number of ids held plus the allocations that
\* raised, because allocate() counts before it tests pool_size.
CountMatches == allocatedNum = Cardinality(HeldIds) + failed

\* However allocations, failures and frees are interleaved, a pool with a
\* pool_size hands out ids below pool_size only: KV-cache block ids index
\* tensors with num_kv_cache_blocks rows.
WithinPoolSize ==
    PoolSize # 0 => \A id \in HeldIds \cup FreeSet : id < PoolSize

Allocator == INSTANCE IdAllocator WITH Ids <- 0..MaxIds, inUse <- held

\* The pool implements the allocator its callers rely on: an id handed out is
\* held by nobody else.
ImplementsAllocator == Allocator!Spec

\* allocate() gives up only when all ids but one are held: no sequence of
\* allocations, failures and frees loses an id.  (The one that is missing is
\* due to the test of pool_size after the increment.)
NoIdLost ==
    [][~DebugMode /\ failed' > failed =>
          Cardinality(HeldIds) >= PoolSize - 1]_poolVars
=============================================================================
