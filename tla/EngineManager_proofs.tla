----------------------- MODULE EngineManager_proofs -------------------------
(***************************************************************************)
(* The id pool and the table of engines that takes its ids from it.        *)
(*                                                                         *)
(* RecyclePool hands out every id to one holder at a time, for every       *)
(* pool_size, with and without debug_mode, for any callers and however     *)
(* long it runs.  Exclusive is inductive relative to the types.  TypeOK is *)
(* not inductive: that allocated_num stays a natural number needs          *)
(* CountMatches, and CountMatches needs to know that a reused id was not   *)
(* held.  An id it hands out is one of FreeIds, which is all that the      *)
(* engine manager assumes of it.                                           *)
(*                                                                         *)
(* The accounts of the engine manager, for any processes, models,          *)
(* tokenizers and timeout, and however many engines register:              *)
(*                                                                         *)
(*   - reference counts are exact, which needs that the id of a new engine *)
(*     is not in the table (IdsDense);                                     *)
(*   - tokenizers are served unless they are shared, which needs the exact *)
(*     counts;                                                             *)
(*   - an engine with a live heartbeat thread stays, which needs to know   *)
(*     how old its last heartbeat can be (DaemonsSeen).                    *)
(***************************************************************************)
EXTENDS EngineManager, RecyclePool, FiniteSetTheorems, TLAPS

-----------------------------------------------------------------------------
(* The pool *)

\* The inductive invariant of the pool.
PoolInv ==
    /\ TypeOK
    /\ Exclusive
    /\ CountMatches
    /\ WithinPoolSize
    /\ IsFiniteSet(HeldIds)

\* What waits in free_ids and what is held are ids.
LEMMA IdTypes ==
  ASSUME TypeOK
  PROVE  FreeSet \subseteq 0..MaxIds /\ HeldIds \subseteq 0..MaxIds
<1>1. ASSUME NEW i \in 1..Len(freeIds) PROVE freeIds[i] \in 0..MaxIds
  BY PoolAssumption DEF TypeOK
<1>2. HeldIds \subseteq 0..MaxIds
  BY DEF TypeOK, HeldIds
<1> QED
  BY <1>1, <1>2 DEF FreeSet

\* Giving an id to a client adds it to the ids held.
LEMMA HeldAfterGrant ==
  ASSUME TypeOK, NEW c \in Clients, NEW id,
         held' = [held EXCEPT ![c] = @ \cup {id}]
  PROVE  HeldIds' = HeldIds \cup {id}
  BY DEF TypeOK, HeldIds

\* Taking an id from its only holder removes it from the ids held.
LEMMA HeldAfterReturn ==
  ASSUME TypeOK, Exclusive, NEW c \in Clients, NEW id \in held[c],
         held' = [held EXCEPT ![c] = @ \ {id}]
  PROVE  HeldIds' = HeldIds \ {id}
<1>1. \A d \in Clients : d # c => id \notin held[d]
  BY DEF Exclusive
<1>2. \A d \in Clients : held'[d] = held[d] \ {id}
  BY <1>1 DEF TypeOK
<1> QED
  BY <1>2 DEF HeldIds

\* A new pool is empty, so nothing is held and nothing waits.
LEMMA PoolInvInit == PoolInit => PoolInv
<1> SUFFICES ASSUME PoolInit PROVE PoolInv
  OBVIOUS
<1>1. TypeOK
  BY PoolAssumption DEF PoolInit, TypeOK
<1>2. HeldIds = {} /\ FreeSet = {}
  BY DEF PoolInit, HeldIds, FreeSet
<1>3. Exclusive /\ WithinPoolSize
  BY <1>2 DEF PoolInit, Exclusive, WithinPoolSize
<1>4. CountMatches /\ IsFiniteSet(HeldIds)
  BY <1>2, FS_EmptySet DEF PoolInit, CountMatches
<1> QED
  BY <1>1, <1>3, <1>4 DEF PoolInv

\* A fresh id is larger than every id issued before.
LEMMA AllocateNewInv ==
  ASSUME PoolInv, NEW c \in Clients, AllocateNew(c)
  PROVE  PoolInv'
<1> USE PoolAssumption
<1>1. TypeOK'
  BY DEF PoolInv, AllocateNew, TypeOK
<1>2. /\ HeldIds' = HeldIds \cup {curMaxId}
      /\ FreeSet' = FreeSet
      /\ FreeSet \cup HeldIds \subseteq 0..MaxIds
      /\ curMaxId \notin HeldIds \cup FreeSet
      /\ curMaxId \in Nat /\ curMaxId' = curMaxId + 1
  <2>1. HeldIds' = HeldIds \cup {curMaxId}
    BY HeldAfterGrant DEF PoolInv, AllocateNew
  <2>2. FreeSet' = FreeSet
    BY DEF AllocateNew, FreeSet
  <2>3. FreeSet \cup HeldIds \subseteq 0..MaxIds
    BY IdTypes DEF PoolInv
  <2>4. curMaxId \in Nat /\ curMaxId' = curMaxId + 1
    BY DEF PoolInv, TypeOK, AllocateNew
  <2>5. curMaxId \notin HeldIds \cup FreeSet
    BY <2>4 DEF PoolInv, Exclusive
  <2> QED
    BY <2>1, <2>2, <2>3, <2>4, <2>5
<1>3. Exclusive'
  <2>1. \A d \in Clients : curMaxId \notin held[d]
    BY <1>2 DEF HeldIds
  <2>2. \A d, f \in Clients : d # f => held'[d] \cap held'[f] = {}
    BY <2>1 DEF PoolInv, TypeOK, Exclusive, AllocateNew
  <2>3. \A id \in HeldIds' \cup FreeSet' : id < curMaxId'
    BY <1>2 DEF PoolInv, Exclusive
  <2> QED
    BY <1>2, <2>2, <2>3 DEF PoolInv, Exclusive, AllocateNew
<1>4. WithinPoolSize'
  <2>1. PoolSize # 0 => curMaxId < PoolSize
    BY <1>2 DEF AllocateNew, Exhausted
  <2> QED
    BY <1>2, <2>1 DEF PoolInv, WithinPoolSize
<1>5. /\ IsFiniteSet(HeldIds')
      /\ Cardinality(HeldIds') = Cardinality(HeldIds) + 1
  BY <1>2, FS_AddElement DEF PoolInv
<1>6. CountMatches'
  BY <1>5, FS_CardinalityType DEF PoolInv, TypeOK, AllocateNew, CountMatches
<1> QED
  BY <1>1, <1>3, <1>4, <1>5, <1>6 DEF PoolInv

\* An allocation that raises moves the counters and nothing else.
LEMMA AllocateRaisesInv == ASSUME PoolInv, AllocateRaises PROVE PoolInv'
<1> USE PoolAssumption
<1>1. TypeOK'
  BY DEF PoolInv, AllocateRaises, TypeOK
<1>2. HeldIds' = HeldIds /\ FreeSet' = FreeSet
  BY DEF AllocateRaises, HeldIds, FreeSet
<1>3. HeldIds \cup FreeSet \subseteq 0..MaxIds
  BY IdTypes DEF PoolInv
<1>4. Exclusive' /\ WithinPoolSize'
  BY <1>2, <1>3
     DEF PoolInv, AllocateRaises, TypeOK, Exclusive, WithinPoolSize
<1>5. CountMatches' /\ IsFiniteSet(HeldIds')
  BY <1>2, FS_CardinalityType
     DEF PoolInv, TypeOK, AllocateRaises, CountMatches
<1> QED
  BY <1>1, <1>4, <1>5 DEF PoolInv

\* The head of free_ids is held by nobody, and occurs nowhere else in it.
LEMMA AllocateReuseInv ==
  ASSUME PoolInv, NEW c \in Clients, AllocateReuse(c)
  PROVE  PoolInv'
<1> USE PoolAssumption
<1> DEFINE id == Head(freeIds)
<1>1. /\ freeIds \in Seq(0..MaxIds)
      /\ Len(freeIds) \in Nat \ {0}
      /\ id = freeIds[1]
      /\ id \in FreeSet
      /\ id \in 0..MaxIds
  BY DEF PoolInv, AllocateReuse, NeedsNewId, TypeOK, FreeSet
<1>2. /\ freeIds' \in Seq(0..MaxIds)
      /\ Len(freeIds') = Len(freeIds) - 1
      /\ \A i \in 1..Len(freeIds') : freeIds'[i] = freeIds[i + 1]
  BY <1>1 DEF AllocateReuse
<1>3. TypeOK'
  <2>1. historyMax' \in Nat /\ allocatedNum' \in Nat
    BY DEF PoolInv, AllocateReuse, TypeOK, Larger
  <2> QED
    BY <1>1, <1>2, <2>1 DEF PoolInv, AllocateReuse, TypeOK
<1> HIDE DEF id
<1>4. HeldIds' = HeldIds \cup {id} /\ id \notin HeldIds
  BY <1>1, HeldAfterGrant DEF PoolInv, Exclusive, AllocateReuse, id
<1>5. FreeSet' \subseteq FreeSet /\ id \notin FreeSet'
  <2>1. ASSUME NEW i \in 1..Len(freeIds')
        PROVE  freeIds'[i] \in FreeSet /\ freeIds'[i] # id
    <3>1. i + 1 \in 1..Len(freeIds) /\ i + 1 # 1
      BY <1>1, <1>2
    <3>2. 1 \in 1..Len(freeIds)
      BY <1>1
    <3>3. freeIds[i + 1] # freeIds[1]
      BY <3>1, <3>2 DEF PoolInv, Exclusive
    <3> QED
      BY <1>1, <1>2, <3>1, <3>3 DEF FreeSet
  <2> QED
    BY <2>1 DEF FreeSet
<1>6. \A i, j \in 1..Len(freeIds') : freeIds'[i] = freeIds'[j] => i = j
  <2> SUFFICES ASSUME NEW i \in 1..Len(freeIds'), NEW j \in 1..Len(freeIds'),
                      freeIds'[i] = freeIds'[j]
               PROVE  i = j
    OBVIOUS
  <2>1. i + 1 \in 1..Len(freeIds) /\ j + 1 \in 1..Len(freeIds)
    BY <1>1, <1>2
  <2>2. freeIds[i + 1] = freeIds[j + 1]
    BY <1>2
  <2>3. i + 1 = j + 1
    BY <2>1, <2>2 DEF PoolInv, Exclusive
  <2> QED
    BY <1>1, <1>2, <2>3
<1>7. HeldIds' \cup FreeSet' \subseteq HeldIds \cup FreeSet
  BY <1>1, <1>4, <1>5
<1>8. Exclusive'
  <2>1. \A d \in Clients : id \notin held[d]
    BY <1>4 DEF HeldIds
  <2>2. \A d, f \in Clients : d # f => held'[d] \cap held'[f] = {}
    BY <2>1 DEF PoolInv, TypeOK, Exclusive, AllocateReuse, id
  <2>3. HeldIds' \cap FreeSet' = {}
    BY <1>4, <1>5 DEF PoolInv, Exclusive
  <2>4. \A x \in HeldIds' \cup FreeSet' : x < curMaxId'
    BY <1>7 DEF PoolInv, Exclusive, AllocateReuse
  <2> QED
    BY <1>6, <2>2, <2>3, <2>4 DEF Exclusive
<1>9. WithinPoolSize'
  BY <1>7 DEF PoolInv, WithinPoolSize
<1>10. /\ IsFiniteSet(HeldIds')
       /\ Cardinality(HeldIds') = Cardinality(HeldIds) + 1
  BY <1>4, FS_AddElement DEF PoolInv
<1>11. CountMatches'
  BY <1>10, FS_CardinalityType DEF PoolInv, TypeOK, AllocateReuse, CountMatches
<1> QED
  BY <1>3, <1>8, <1>9, <1>10, <1>11 DEF PoolInv

\* free() moves an id from its holder to the end of free_ids.
LEMMA FreeInv ==
  ASSUME PoolInv, NEW c \in Clients, NEW id \in held[c], Free(c, id)
  PROVE  PoolInv'
<1> USE PoolAssumption
<1>1. /\ freeIds \in Seq(0..MaxIds)
      /\ Len(freeIds) \in Nat
      /\ id \in HeldIds
      /\ id \in 0..MaxIds
      /\ id \notin FreeSet
  BY DEF PoolInv, TypeOK, Free, HeldIds
<1>2. /\ freeIds' \in Seq(0..MaxIds)
      /\ Len(freeIds') = Len(freeIds) + 1
      /\ \A i \in 1..Len(freeIds) : freeIds'[i] = freeIds[i]
      /\ freeIds'[Len(freeIds) + 1] = id
  BY <1>1 DEF Free
<1>3. HeldIds' = HeldIds \ {id}
  BY HeldAfterReturn DEF PoolInv, Free
<1>4. /\ IsFiniteSet(HeldIds')
      /\ Cardinality(HeldIds') = Cardinality(HeldIds) - 1
      /\ Cardinality(HeldIds) \in Nat
      /\ Cardinality(HeldIds') \in Nat
  BY <1>1, <1>3, FS_RemoveElement, FS_CardinalityType DEF PoolInv
<1>5. TypeOK'
  <2>1. held' \in [Clients -> SUBSET (0..MaxIds)]
    BY DEF PoolInv, TypeOK, Free
  <2>2. allocatedNum' \in Nat
    BY <1>4 DEF PoolInv, TypeOK, Free, CountMatches
  <2> QED
    BY <1>2, <2>1, <2>2 DEF PoolInv, TypeOK, Free
<1>6. FreeSet' = FreeSet \cup {id}
  <2>1. \A i \in 1..Len(freeIds') :
           i \in 1..Len(freeIds) \/ i = Len(freeIds) + 1
    BY <1>1, <1>2
  <2>2. 1..Len(freeIds) \subseteq 1..Len(freeIds')
    BY <1>1, <1>2
  <2>3. Len(freeIds) + 1 \in 1..Len(freeIds')
    BY <1>1, <1>2
  <2> QED
    BY <1>2, <2>1, <2>2, <2>3 DEF FreeSet
<1>7. \A i, j \in 1..Len(freeIds') : freeIds'[i] = freeIds'[j] => i = j
  <2> SUFFICES ASSUME NEW i \in 1..Len(freeIds'), NEW j \in 1..Len(freeIds'),
                      freeIds'[i] = freeIds'[j]
               PROVE  i = j
    OBVIOUS
  <2>1. \A n \in 1..Len(freeIds) : freeIds'[n] # id
    BY <1>1, <1>2 DEF FreeSet
  <2>2. /\ i \in 1..Len(freeIds) \/ i = Len(freeIds) + 1
        /\ j \in 1..Len(freeIds) \/ j = Len(freeIds) + 1
    BY <1>1, <1>2
  <2>3. CASE i \in 1..Len(freeIds) /\ j \in 1..Len(freeIds)
    <3>1. freeIds[i] = freeIds[j]
      BY <1>2, <2>3
    <3> QED
      BY <2>3, <3>1 DEF PoolInv, Exclusive
  <2> QED
    BY <1>2, <2>1, <2>2, <2>3
<1>8. HeldIds' \cup FreeSet' = HeldIds \cup FreeSet
  BY <1>1, <1>3, <1>6
<1>9. Exclusive'
  <2>1. \A d, f \in Clients : d # f => held'[d] \cap held'[f] = {}
    BY DEF PoolInv, TypeOK, Exclusive, Free
  <2>2. HeldIds' \cap FreeSet' = {}
    BY <1>3, <1>6 DEF PoolInv, Exclusive
  <2>3. \A x \in HeldIds' \cup FreeSet' : x < curMaxId'
    BY <1>8 DEF PoolInv, Exclusive, Free
  <2> QED
    BY <1>7, <2>1, <2>2, <2>3 DEF Exclusive
<1>10. WithinPoolSize'
  BY <1>8 DEF PoolInv, WithinPoolSize
<1>11. CountMatches'
  BY <1>4 DEF PoolInv, TypeOK, Free, CountMatches
<1> QED
  BY <1>4, <1>5, <1>9, <1>10, <1>11 DEF PoolInv

\* Every step of the pool keeps the invariant.
LEMMA PoolInvNext == PoolInv /\ [PoolNext]_poolVars => PoolInv'
<1> SUFFICES ASSUME PoolInv, [PoolNext]_poolVars PROVE PoolInv'
  OBVIOUS
<1>1. CASE AllocateRaises
  BY <1>1, AllocateRaisesInv
<1>2. ASSUME NEW c \in Clients, AllocateNew(c) PROVE PoolInv'
  BY <1>2, AllocateNewInv
<1>3. ASSUME NEW c \in Clients, AllocateReuse(c) PROVE PoolInv'
  BY <1>3, AllocateReuseInv
<1>4. ASSUME NEW c \in Clients, NEW id \in held[c], Free(c, id) PROVE PoolInv'
  BY <1>4, FreeInv
<1>5. CASE UNCHANGED poolVars
  BY <1>5 DEF poolVars, PoolInv, TypeOK, Exclusive, HeldIds, FreeSet,
              CountMatches, WithinPoolSize
<1> QED
  BY <1>1, <1>2, <1>3, <1>4, <1>5 DEF PoolNext

\* The invariant holds in every reachable state.
THEOREM PoolInvariant == PoolSpec => []PoolInv
<1> QED
  BY PoolInvInit, PoolInvNext, PTL DEF PoolSpec

\* The counters and the deque of the pool keep their types: in particular
\* allocated_num is never negative.
THEOREM PoolTypeOK == PoolSpec => []TypeOK
<1>1. PoolInv => TypeOK
  BY DEF PoolInv
<1> QED
  BY PoolInvariant, <1>1, PTL

\* allocate() never returns an id that somebody holds.
THEOREM PoolExclusive == PoolSpec => []Exclusive
<1>1. PoolInv => Exclusive
  BY DEF PoolInv
<1> QED
  BY PoolInvariant, <1>1, PTL

\* get_allocated_num() counts the ids held and the allocations that raised.
THEOREM PoolCount == PoolSpec => []CountMatches
<1>1. PoolInv => CountMatches
  BY DEF PoolInv
<1> QED
  BY PoolInvariant, <1>1, PTL

\* The ids of a bounded pool stay below pool_size.
THEOREM PoolWithinSize == PoolSpec => []WithinPoolSize
<1>1. PoolInv => WithinPoolSize
  BY DEF PoolInv
<1> QED
  BY PoolInvariant, <1>1, PTL

\* Each step of the pool is a step of the abstract allocator or a stutter.
LEMMA PoolStepRefines == PoolInv /\ [PoolNext]_poolVars => [Allocator!Next]_held
<1> SUFFICES ASSUME PoolInv, [PoolNext]_poolVars PROVE [Allocator!Next]_held
  OBVIOUS
<1> USE PoolAssumption
<1>1. ASSUME NEW c \in Clients, NEW id \in (0..MaxIds) \ HeldIds,
             held' = [held EXCEPT ![c] = @ \cup {id}]
      PROVE  Allocator!Next
  BY <1>1 DEF Allocator!Next, Allocator!Allocate, Allocator!InUse, HeldIds
<1>2. CASE AllocateRaises
  BY <1>2 DEF AllocateRaises
<1>3. ASSUME NEW c \in Clients, AllocateNew(c) PROVE Allocator!Next
  <2>1. curMaxId \in (0..MaxIds) \ HeldIds
    BY <1>3, IdTypes DEF PoolInv, TypeOK, Exclusive, AllocateNew
  <2> QED
    BY <1>1, <1>3, <2>1 DEF AllocateNew
<1>4. ASSUME NEW c \in Clients, AllocateReuse(c) PROVE Allocator!Next
  <2>1. Head(freeIds) \in FreeSet
    BY <1>4 DEF PoolInv, TypeOK, AllocateReuse, NeedsNewId, FreeSet
  <2>2. Head(freeIds) \in (0..MaxIds) \ HeldIds
    BY <2>1, IdTypes DEF PoolInv, Exclusive
  <2> QED
    BY <1>1, <1>4, <2>2 DEF AllocateReuse
<1>5. ASSUME NEW c \in Clients, NEW id \in held[c], Free(c, id)
      PROVE  Allocator!Next
  BY <1>5 DEF Free, Allocator!Next, Allocator!Free
<1>6. CASE UNCHANGED poolVars
  BY <1>6 DEF poolVars
<1> QED
  BY <1>2, <1>3, <1>4, <1>5, <1>6 DEF PoolNext

\* The pool implements the allocator that ContextManager is specified with.
THEOREM PoolRefinesAllocator == PoolSpec => ImplementsAllocator
<1>1. PoolInit => Allocator!Init
  BY DEF PoolInit, Allocator!Init
<1> QED
  BY <1>1, PoolInvariant, PoolStepRefines, PTL
     DEF PoolSpec, ImplementsAllocator, Allocator!Spec
-----------------------------------------------------------------------------
(* No id is lost. *)

\* Every id below cur_max_id that the pool was allowed to issue is held or
\* waits in free_ids; a failed allocation skips only ids it must not issue.
IssuedAccounted ==
    \A id \in 0..(curMaxId - 1) :
        (PoolSize # 0 => id < PoolSize - 1) => id \in HeldIds \cup FreeSet

\* Each operation keeps track of all ids issued.
LEMMA IssuedNext ==
  ASSUME PoolInv, IssuedAccounted, [PoolNext]_poolVars
  PROVE  IssuedAccounted'
<1> USE PoolAssumption
<1>1. curMaxId \in Nat /\ PoolSize \in Nat
  BY DEF PoolInv, TypeOK
<1>2. CASE AllocateRaises
  <2>1. /\ PoolSize # 0 /\ curMaxId + 1 >= PoolSize
        /\ curMaxId' = curMaxId + 1
        /\ HeldIds' = HeldIds /\ FreeSet' = FreeSet
    BY <1>2 DEF AllocateRaises, Exhausted, HeldIds, FreeSet
  <2> QED
    BY <1>1, <2>1 DEF IssuedAccounted
<1>3. ASSUME NEW c \in Clients, AllocateNew(c) PROVE IssuedAccounted'
  <2>1. HeldIds' = HeldIds \cup {curMaxId}
    BY <1>3, HeldAfterGrant DEF PoolInv, AllocateNew
  <2>2. FreeSet' = FreeSet /\ curMaxId' = curMaxId + 1
    BY <1>3 DEF AllocateNew, FreeSet
  <2> QED
    BY <1>1, <2>1, <2>2 DEF IssuedAccounted
<1>4. ASSUME NEW c \in Clients, AllocateReuse(c) PROVE IssuedAccounted'
  <2>1. HeldIds' = HeldIds \cup {Head(freeIds)}
    BY <1>4, HeldAfterGrant DEF PoolInv, AllocateReuse
  <2>2. FreeSet \subseteq FreeSet' \cup {Head(freeIds)}
    <3>1. /\ freeIds \in Seq(0..MaxIds)
          /\ freeIds # <<>> /\ freeIds' = Tail(freeIds)
      BY <1>4 DEF PoolInv, TypeOK, AllocateReuse, NeedsNewId
    <3>2. /\ Len(freeIds) \in Nat /\ Len(freeIds') = Len(freeIds) - 1
          /\ \A i \in 1..Len(freeIds') : freeIds'[i] = freeIds[i + 1]
      BY <3>1
    <3>3. ASSUME NEW i \in 1..Len(freeIds), i # 1
          PROVE  freeIds[i] \in FreeSet'
      <4>1. i - 1 \in 1..Len(freeIds') /\ (i - 1) + 1 = i
        BY <3>2, <3>3
      <4>2. freeIds'[i - 1] = freeIds[i]
        BY <3>2, <4>1
      <4> QED
        BY <4>1, <4>2 DEF FreeSet
    <3>4. Head(freeIds) = freeIds[1]
      BY <3>1
    <3>5. ASSUME NEW x \in FreeSet, x # Head(freeIds) PROVE x \in FreeSet'
      <4>1. PICK i \in 1..Len(freeIds) : x = freeIds[i]
        BY <3>5 DEF FreeSet
      <4> QED
        BY <3>3, <3>4, <3>5, <4>1
    <3> QED
      BY <3>5
  <2>3. curMaxId' = curMaxId
    BY <1>4 DEF AllocateReuse
  <2> QED
    BY <2>1, <2>2, <2>3 DEF IssuedAccounted
<1>5. ASSUME NEW c \in Clients, NEW id \in held[c], Free(c, id)
      PROVE  IssuedAccounted'
  <2>1. HeldIds' = HeldIds \ {id}
    BY <1>5, HeldAfterReturn DEF PoolInv, Free
  <2>2. FreeSet \cup {id} \subseteq FreeSet'
    <3>1. /\ freeIds \in Seq(0..MaxIds) /\ id \in 0..MaxIds
          /\ freeIds' = Append(freeIds, id)
      BY <1>5 DEF PoolInv, TypeOK, Free
    <3>2. /\ Len(freeIds) \in Nat /\ Len(freeIds') = Len(freeIds) + 1
          /\ \A i \in 1..Len(freeIds) : freeIds'[i] = freeIds[i]
          /\ freeIds'[Len(freeIds) + 1] = id
      BY <3>1
    <3>3. /\ 1..Len(freeIds) \subseteq 1..Len(freeIds')
          /\ Len(freeIds) + 1 \in 1..Len(freeIds')
      BY <3>2
    <3> QED
      BY <3>2, <3>3 DEF FreeSet
  <2>3. curMaxId' = curMaxId
    BY <1>5 DEF Free
  <2> QED
    BY <2>1, <2>2, <2>3 DEF IssuedAccounted
<1>6. CASE UNCHANGED poolVars
  BY <1>6 DEF poolVars, IssuedAccounted, HeldIds, FreeSet
<1> QED
  BY <1>2, <1>3, <1>4, <1>5, <1>6 DEF PoolNext

\* When allocate() raises, free_ids is empty, so all ids issued are held.
LEMMA RaisesWhenHeld ==
  ASSUME PoolInv, IssuedAccounted, AllocateRaises, ~DebugMode
  PROVE  Cardinality(HeldIds) >= PoolSize - 1
<1> USE PoolAssumption
<1>1. /\ PoolSize \in Nat \ {0} /\ curMaxId \in Nat
      /\ curMaxId + 1 >= PoolSize
  BY DEF PoolInv, TypeOK, AllocateRaises, Exhausted
<1>2. FreeSet = {}
  BY DEF AllocateRaises, NeedsNewId, FreeSet
<1>3. 0..(PoolSize - 2) \subseteq HeldIds
  BY <1>1, <1>2 DEF IssuedAccounted
<1>4. Cardinality(0..(PoolSize - 2)) = PoolSize - 1
  BY <1>1, FS_Interval
<1>5. /\ Cardinality(0..(PoolSize - 2)) <= Cardinality(HeldIds)
      /\ Cardinality(HeldIds) \in Nat
  BY <1>3, FS_Subset, FS_CardinalityType DEF PoolInv
<1> QED
  BY <1>1, <1>4, <1>5

\* Only AllocateRaises counts a failure.
LEMMA FailureIsRaise ==
  ASSUME PoolInv, [PoolNext]_poolVars, failed' > failed
  PROVE  AllocateRaises
<1>1. failed \in Nat /\ failed' # failed
  BY DEF PoolInv, TypeOK
<1> QED
  BY <1>1 DEF PoolNext, poolVars, AllocateNew, AllocateReuse, Free

\* allocate() raises only when all ids but one are held.
THEOREM PoolLosesNoId == PoolSpec => NoIdLost
<1>1. PoolInit => IssuedAccounted
  BY DEF PoolInit, IssuedAccounted
<1>2. PoolInv /\ IssuedAccounted /\ [PoolNext]_poolVars => IssuedAccounted'
  BY IssuedNext
<1>3. PoolInv /\ IssuedAccounted /\ [PoolNext]_poolVars =>
        [~DebugMode /\ failed' > failed =>
            Cardinality(HeldIds) >= PoolSize - 1]_poolVars
  BY FailureIsRaise, RaisesWhenHeld
<1> QED
  BY <1>1, <1>2, <1>3, PoolInvariant, PTL DEF PoolSpec, NoIdLost

\* The ids a pool that reuses ids may hand out: a free one, or else a new one.
HandsOut(issued, used) ==
    IF issued \subseteq used THEN {Cardinality(issued)} ELSE issued \ used

LEMMA AllIssued ==
  ASSUME PoolInv, IssuedAccounted, PoolSize = 0
  PROVE  /\ curMaxId \in Nat /\ HeldIds \cup FreeSet = 0 .. (curMaxId - 1)
         /\ HeldIds \cap FreeSet = {}
<1>1. curMaxId \in Nat /\ 0 .. (curMaxId - 1) \subseteq HeldIds \cup FreeSet
  BY PoolAssumption DEF PoolInv, TypeOK, IssuedAccounted
<1>2. HeldIds \cup FreeSet \subseteq 0 .. MaxIds
  BY IdTypes DEF PoolInv
<1>3. \A id \in HeldIds \cup FreeSet : id \in Nat /\ id < curMaxId
  BY <1>2, PoolAssumption DEF PoolInv, Exclusive
<1> QED
  BY <1>1, <1>3 DEF PoolInv, Exclusive

\* allocate() takes a new id, cur_max_id, only when no issued id is free: what
\* FreeIds says of the pool of the engine manager, of every pool without a
\* pool_size that reuses ids.
THEOREM PoolHandsOutFreeIds ==
  PoolSize = 0 /\ ~DebugMode =>
    (PoolSpec =>
        [][\A id \in HeldIds' \ HeldIds :
              id \in HandsOut(HeldIds \cup FreeSet, HeldIds)]_poolVars)
<1> DEFINE Granted == \A id \in HeldIds' \ HeldIds :
                         id \in HandsOut(HeldIds \cup FreeSet, HeldIds)
<1> SUFFICES ASSUME PoolSize = 0 /\ ~DebugMode PROVE PoolSpec => [][Granted]_poolVars
  OBVIOUS
<1>1. PoolInit => IssuedAccounted
  BY DEF PoolInit, IssuedAccounted
<1>2. PoolInv /\ IssuedAccounted /\ [PoolNext]_poolVars => IssuedAccounted'
  BY IssuedNext
<1>3. PoolInv /\ IssuedAccounted /\ [PoolNext]_poolVars => [Granted]_poolVars
  <2> SUFFICES ASSUME PoolInv, IssuedAccounted, PoolNext PROVE Granted
    OBVIOUS
  <2>1. /\ curMaxId \in Nat /\ HeldIds \cup FreeSet = 0 .. (curMaxId - 1)
        /\ HeldIds \cap FreeSet = {}
    BY AllIssued
  <2>2. ASSUME NEW c \in Clients, AllocateNew(c) PROVE Granted
    <3>1. HeldIds' = HeldIds \cup {curMaxId}
      BY <2>2, HeldAfterGrant DEF PoolInv, AllocateNew
    <3>2. FreeSet = {}
      BY <2>2 DEF AllocateNew, NeedsNewId, FreeSet
    <3>3. Cardinality(0 .. (curMaxId - 1)) = curMaxId
      BY <2>1, FS_Interval
    <3> QED
      BY <2>1, <3>1, <3>2, <3>3 DEF HandsOut
  <2>3. ASSUME NEW c \in Clients, AllocateReuse(c) PROVE Granted
    <3>1. HeldIds' = HeldIds \cup {Head(freeIds)}
      BY <2>3, HeldAfterGrant DEF PoolInv, AllocateReuse
    <3>2. Head(freeIds) \in FreeSet
      BY <2>3 DEF PoolInv, TypeOK, AllocateReuse, NeedsNewId, FreeSet
    <3>3. ~ (HeldIds \cup FreeSet \subseteq HeldIds)
      BY <2>1, <3>2
    <3> QED
      BY <2>1, <3>1, <3>2, <3>3 DEF HandsOut
  <2>4. CASE AllocateRaises
    BY <2>4 DEF AllocateRaises, HeldIds
  <2>5. ASSUME NEW c \in Clients, NEW id \in held[c], Free(c, id) PROVE Granted
    <3>1. HeldIds' = HeldIds \ {id}
      BY <2>5, HeldAfterReturn DEF PoolInv, Free
    <3> QED
      BY <3>1
  <2> HIDE DEF Granted
  <2> QED
    BY <2>2, <2>3, <2>4, <2>5 DEF PoolNext
<1> HIDE DEF Granted
<1> QED
  BY <1>1, <1>2, <1>3, PoolInvariant, PTL DEF PoolSpec

-----------------------------------------------------------------------------
(* The engine manager *)

Engine ==
    [id : Nat, model : Models, status : {"RUNNING", "BAD", "DEAD"},
     busy : BOOLEAN]

Process ==
    [up : BOOLEAN, obj : Nat, daemon : BOOLEAN, tries : Nat, sent : BOOLEAN]

Types ==
    /\ objs \in Seq(Engine)
    /\ lastSeen \in [DOMAIN engines -> Nat]
    /\ refs \in [Models -> Nat]
    /\ proc \in [Processes -> Process]

\* An id leads to the engine that has it.
TableSound ==
    /\ IsFiniteSet(DOMAIN engines)
    /\ \A id \in DOMAIN engines :
          engines[id] \in DOMAIN objs /\ objs[engines[id]].id = id

\* The ids that were ever handed out are those below some number.
Issued == {objs[o].id : o \in DOMAIN objs}
IdsDense == \E n \in Nat : Issued = 0 .. (n - 1)

\* A process that is down has forgotten everything.  The engine of a heartbeat
\* thread is registered unless it was marked as bad, and was seen in this
\* interval or, if the thread has not yet sent its heartbeat, in the last one.
DaemonsSeen ==
    \A p \in Processes :
        /\ ~ proc[p].up => proc[p] = Down
        /\ proc[p].up => proc[p].obj \in DOMAIN objs
        /\ proc[p].daemon /\ objs[proc[p].obj].status # "BAD" =>
              Registered(proc[p].obj)
        /\ proc[p].daemon /\ Registered(proc[p].obj) =>
              lastSeen[IdOf(p)] <= IF proc[p].sent THEN 0 ELSE 1

\* The inductive invariant.
ManagerInv ==
    /\ Types /\ TableSound /\ IdsDense
    /\ RefsExact /\ TokenizersServed /\ AssertsOnlyIfShared
    /\ DaemonsSeen

\* At the start nothing is registered and no process runs.
LEMMA ManagerInvInit == Init => ManagerInv
<1> SUFFICES ASSUME Init PROVE ManagerInv
  OBVIOUS
<1>1. objs = <<>> /\ DOMAIN objs = {} /\ DOMAIN engines = {}
  BY DEF Init
<1>2. Types
  BY DEF Init, Types, Down, Process
<1>3. TableSound
  BY <1>1, FS_EmptySet DEF TableSound
<1>4. IdsDense
  <2>1. Issued = 0 .. (0 - 1)
    BY <1>1 DEF Issued
  <2> QED
    BY <2>1 DEF IdsDense
<1>5. RefsExact
  <2>1. \A m \in Models : EnginesOf(m, DOMAIN engines) = {}
    BY <1>1 DEF EnginesOf
  <2> QED
    BY <2>1, FS_EmptySet DEF RefsExact, Init
<1>6. TokenizersServed /\ AssertsOnlyIfShared
  BY <1>1 DEF Init, TokenizersServed, AssertsOnlyIfShared
<1>7. DaemonsSeen
  BY DEF Init, DaemonsSeen, Down
<1> QED
  BY <1>2, <1>3, <1>4, <1>5, <1>6, <1>7 DEF ManagerInv

\* The facts about the registered engines and their models: what a heartbeat,
\* a tick or a task leaves alone.
Accounts ==
    TableSound /\ IdsDense /\ RefsExact /\ TokenizersServed
    /\ AssertsOnlyIfShared

LEMMA SameAccounts ==
  ASSUME ManagerInv,
         DOMAIN objs' = DOMAIN objs,
         \A o \in DOMAIN objs : /\ objs'[o].id = objs[o].id
                                /\ objs'[o].model = objs[o].model,
         UNCHANGED <<engines, refs, tokenizers, unloaded>>,
         exit' = exit \/ exit' = "unknown engine"
  PROVE  Accounts'
<1>1. TableSound'
  BY DEF ManagerInv, TableSound
<1>2. Issued' = Issued /\ EverUsed' = EverUsed
  BY DEF Issued, EverUsed
<1>3. IdsDense'
  BY <1>2 DEF ManagerInv, IdsDense
<1>4. \A id \in DOMAIN engines :
          objs'[engines'[id]].model = objs[engines[id]].model
  BY DEF ManagerInv, TableSound
<1>5. \A m \in Models : EnginesOf(m, DOMAIN engines)'
                        = EnginesOf(m, DOMAIN engines)
  BY <1>4 DEF EnginesOf
<1>6. RefsExact'
  BY <1>5 DEF ManagerInv, RefsExact
<1>7. TokenizersServed'
  BY <1>2, <1>4 DEF ManagerInv, TokenizersServed, TokenizersOf, Shares
<1>8. AssertsOnlyIfShared'
  BY <1>2 DEF ManagerInv, AssertsOnlyIfShared, Shares
<1> QED
  BY <1>1, <1>3, <1>6, <1>7, <1>8 DEF Accounts

(* ------------------------- the steps of a process ----------------------- *)

LEMMA ProcessEndsInv ==
  ASSUME ManagerInv, NEW p \in Processes, ProcessEnds(p)
  PROVE  ManagerInv'
<1>1. Accounts'
  BY SameAccounts DEF ProcessEnds, core
<1>2. Types'
  BY DEF ManagerInv, Types, ProcessEnds, core, Process, Down
<1>3. DaemonsSeen'
  <2> SUFFICES ASSUME NEW q \in Processes
               PROVE  /\ ~ proc'[q].up => proc'[q] = Down
                      /\ proc'[q].up => proc'[q].obj \in DOMAIN objs'
                      /\ proc'[q].daemon /\ objs'[proc'[q].obj].status # "BAD"
                            => Registered(proc[q].obj)'
                      /\ proc'[q].daemon /\ Registered(proc[q].obj)' =>
                            lastSeen'[IdOf(q)'] <= IF proc'[q].sent THEN 0 ELSE 1
    BY DEF DaemonsSeen
  <2>1. CASE q = p
    <3>1. proc'[q] = Down
      BY <2>1 DEF ProcessEnds, ManagerInv, Types
    <3> QED
      BY <3>1 DEF Down
  <2>2. CASE q # p
    <3>1. proc'[q] = proc[q]
      BY <2>2 DEF ProcessEnds, ManagerInv, Types
    <3>2. UNCHANGED <<objs, engines, lastSeen>>
      BY DEF ProcessEnds, core
    <3> QED
      BY <3>1, <3>2 DEF ManagerInv, DaemonsSeen, Registered, IdOf
  <2> QED
    BY <2>1, <2>2
<1> QED
  BY <1>1, <1>2, <1>3 DEF ManagerInv, Accounts

\* A heartbeat makes the engine that has the id younger, and no other older.
LEMMA HeartbeatInv ==
  ASSUME ManagerInv, NEW p \in Processes,
         NEW reached \in BOOLEAN, NEW answered \in BOOLEAN,
         Heartbeat(p, reached, answered)
  PROVE  ManagerInv'
<1> DEFINE ok == answered /\ IdOf(p) \in DOMAIN engines
<1>1. Accounts'
  BY SameAccounts DEF Heartbeat
<1>2. /\ lastSeen' \in [DOMAIN engines -> Nat]
      /\ \A id \in DOMAIN engines : lastSeen'[id] \in {lastSeen[id], 0}
      /\ ok => lastSeen'[IdOf(p)] = 0
  <2> DEFINE id == IdOf(p)
  <2>1. lastSeen \in [DOMAIN engines -> Nat]
    BY DEF ManagerInv, Types
  <2>2. CASE reached /\ id \in DOMAIN engines
    <3>1. lastSeen' = [lastSeen EXCEPT ![id] = 0]
      BY <2>2 DEF Heartbeat, Seen
    <3> QED
      BY <2>1, <2>2, <3>1
  <2>3. CASE ~ (reached /\ id \in DOMAIN engines)
    <3>1. lastSeen' = lastSeen /\ ~ ok
      BY <2>3 DEF Heartbeat, Seen
    <3> QED
      BY <2>1, <3>1
  <2> QED
    BY <2>2, <2>3
<1>3. /\ UNCHANGED <<objs, engines>>
      /\ proc[p].daemon /\ ~ proc[p].sent
      /\ proc[p] \in Process
      /\ HeartbeatReply(p, ok)
      /\ proc \in [Processes -> Process]
  BY DEF Heartbeat, ManagerInv, Types
<1> HIDE DEF ok
<1>4. /\ proc' \in [Processes -> Process]
      /\ \A q \in Processes : q # p => proc'[q] = proc[q]
      /\ proc'[p].up = proc[p].up /\ proc'[p].obj = proc[p].obj
      /\ proc'[p].sent => ok
  <2>1. CASE ok
    <3> DEFINE x == [proc[p] EXCEPT !.sent = TRUE, !.tries = 0]
    <3>1. proc' = [proc EXCEPT ![p] = x]
      BY <1>3, <2>1 DEF HeartbeatReply
    <3>2. x \in Process /\ x.up = proc[p].up /\ x.obj = proc[p].obj
      BY <1>3 DEF Process
    <3> HIDE DEF x
    <3> QED
      BY <1>3, <2>1, <3>1, <3>2
  <2>2. CASE ~ ok /\ proc[p].tries < Retries - 1
    <3> DEFINE x == [proc[p] EXCEPT !.tries = @ + 1]
    <3>1. proc' = [proc EXCEPT ![p] = x]
      BY <1>3, <2>2 DEF HeartbeatReply, AttemptFails
    <3>2. /\ x \in Process /\ x.up = proc[p].up /\ x.obj = proc[p].obj
          /\ x.sent = proc[p].sent
      BY <1>3 DEF Process
    <3> HIDE DEF x
    <3> QED
      BY <1>3, <3>1, <3>2
  <2>3. CASE ~ ok /\ ~ (proc[p].tries < Retries - 1)
    <3> DEFINE x == [proc[p] EXCEPT !.tries = 0, !.daemon = FALSE]
    <3>1. proc' = [proc EXCEPT ![p] = x]
      BY <1>3, <2>3 DEF HeartbeatReply, AttemptFails
    <3>2. /\ x \in Process /\ x.up = proc[p].up /\ x.obj = proc[p].obj
          /\ x.sent = proc[p].sent
      BY <1>3 DEF Process
    <3> HIDE DEF x
    <3> QED
      BY <1>3, <3>1, <3>2
  <2> QED
    BY <2>1, <2>2, <2>3
<1>5. Types'
  BY <1>2, <1>3, <1>4 DEF Heartbeat, ManagerInv, Types
<1>6. proc[p].up
  BY <1>3 DEF ManagerInv, DaemonsSeen, Down
<1>7. DaemonsSeen'
  <2> SUFFICES ASSUME NEW q \in Processes
               PROVE  /\ ~ proc'[q].up => proc'[q] = Down
                      /\ proc'[q].up => proc'[q].obj \in DOMAIN objs'
                      /\ proc'[q].daemon /\ objs'[proc'[q].obj].status # "BAD"
                            => Registered(proc[q].obj)'
                      /\ proc'[q].daemon /\ Registered(proc[q].obj)' =>
                            lastSeen'[IdOf(q)'] <= IF proc'[q].sent THEN 0 ELSE 1
    BY DEF DaemonsSeen
  <2>1. /\ proc'[q].up = proc[q].up /\ proc'[q].obj = proc[q].obj
        /\ proc'[q].daemon => proc[q].daemon
        /\ IdOf(q)' = IdOf(q)
        /\ Registered(proc[q].obj)' = Registered(proc[q].obj)
    BY <1>3, <1>4 DEF IdOf, Registered
  <2>2. ~ proc'[q].up => proc'[q] = Down
    BY <1>4, <1>6 DEF ManagerInv, DaemonsSeen
  <2>3. ASSUME proc'[q].daemon, Registered(proc[q].obj)'
        PROVE  lastSeen'[IdOf(q)'] <= IF proc'[q].sent THEN 0 ELSE 1
    <3>1. Registered(proc[q].obj) /\ IdOf(q) \in DOMAIN engines
      BY <2>1, <2>3 DEF Registered, IdOf
    <3>2. lastSeen[IdOf(q)] <= IF proc[q].sent THEN 0 ELSE 1
      BY <2>1, <2>3, <3>1 DEF ManagerInv, DaemonsSeen
    <3>3. lastSeen[IdOf(q)] \in Nat
      BY <3>1 DEF ManagerInv, Types
    <3>4. CASE q # p
      BY <1>2, <1>4, <2>1, <3>1, <3>2, <3>3, <3>4
    <3>5. CASE q = p
      BY <1>2, <1>3, <1>4, <2>1, <3>1, <3>2, <3>3, <3>5
    <3> QED
      BY <3>4, <3>5
  <2> QED
    BY <1>3, <2>1, <2>2, <2>3 DEF ManagerInv, DaemonsSeen
<1> QED
  BY <1>1, <1>5, <1>7 DEF ManagerInv, Accounts

\* An interval passes only when every thread has sent its heartbeat, so the
\* engines they beat for are one interval old.
LEMMA TickInv == ASSUME ManagerInv, Tick PROVE ManagerInv'
<1>1. Accounts'
  BY SameAccounts DEF Tick
<1>2. /\ lastSeen' \in [DOMAIN engines -> Nat]
      /\ \A id \in DOMAIN engines : lastSeen'[id] <= lastSeen[id] + 1
  BY DEF Tick, ManagerInv, Types
<1>3. /\ proc' \in [Processes -> Process]
      /\ \A q \in Processes : /\ proc'[q] = [proc[q] EXCEPT !.sent = FALSE]
                              /\ proc'[q].up = proc[q].up
                              /\ proc'[q].obj = proc[q].obj
                              /\ proc'[q].daemon = proc[q].daemon
                              /\ proc'[q].sent = FALSE
  BY DEF Tick, ManagerInv, Types, Process
<1>4. UNCHANGED <<objs, engines>> /\ \A q \in Processes :
                                        proc[q].daemon => proc[q].sent
  BY DEF Tick
<1>5. Types'
  BY <1>2, <1>3 DEF Tick, ManagerInv, Types
<1>6. DaemonsSeen'
  <2> SUFFICES ASSUME NEW q \in Processes
               PROVE  /\ ~ proc'[q].up => proc'[q] = Down
                      /\ proc'[q].up => proc'[q].obj \in DOMAIN objs'
                      /\ proc'[q].daemon /\ objs'[proc'[q].obj].status # "BAD"
                            => Registered(proc[q].obj)'
                      /\ proc'[q].daemon /\ Registered(proc[q].obj)' =>
                            lastSeen'[IdOf(q)'] <= IF proc'[q].sent THEN 0 ELSE 1
    BY DEF DaemonsSeen
  <2>1. ~ proc'[q].up => proc'[q] = Down
    BY <1>3 DEF ManagerInv, DaemonsSeen, Down
  <2>2. IdOf(q)' = IdOf(q) /\ Registered(proc[q].obj)' = Registered(proc[q].obj)
    BY <1>3, <1>4 DEF IdOf, Registered
  <2>3. ASSUME proc'[q].daemon, Registered(proc[q].obj)'
        PROVE  lastSeen'[IdOf(q)'] <= 1
    <3>1. Registered(proc[q].obj) /\ IdOf(q) \in DOMAIN engines
      BY <2>2, <2>3 DEF Registered, IdOf
    <3>2. lastSeen[IdOf(q)] <= 0 /\ lastSeen[IdOf(q)] \in Nat
      BY <1>3, <1>4, <2>3, <3>1 DEF ManagerInv, DaemonsSeen, Types
    <3> QED
      BY <1>2, <2>2, <3>1, <3>2
  <2> QED
    BY <1>3, <1>4, <2>1, <2>2, <2>3 DEF ManagerInv, DaemonsSeen
<1> QED
  BY <1>1, <1>5, <1>6 DEF ManagerInv, Accounts

(* -------------------------------- tasks --------------------------------- *)

\* A step that changes, of the engines, only busy, or marks some as bad.
LEMMA TaskInv ==
  ASSUME ManagerInv,
         objs' \in Seq(Engine), DOMAIN objs' = DOMAIN objs,
         \A o \in DOMAIN objs : /\ objs'[o].id = objs[o].id
                                /\ objs'[o].model = objs[o].model
                                /\ \/ objs'[o].status = objs[o].status
                                   \/ objs'[o].status = "BAD",
         UNCHANGED <<engines, lastSeen, refs, tokenizers, unloaded, proc>>,
         exit' = exit \/ exit' = "unknown engine"
  PROVE  ManagerInv'
<1>1. Accounts'
  BY SameAccounts
<1>2. Types'
  BY DEF ManagerInv, Types
<1>3. DaemonsSeen'
  <2> SUFFICES ASSUME NEW q \in Processes
               PROVE  /\ ~ proc'[q].up => proc'[q] = Down
                      /\ proc'[q].up => proc'[q].obj \in DOMAIN objs'
                      /\ proc'[q].daemon /\ objs'[proc'[q].obj].status # "BAD"
                            => Registered(proc[q].obj)'
                      /\ proc'[q].daemon /\ Registered(proc[q].obj)' =>
                            lastSeen'[IdOf(q)'] <= IF proc'[q].sent THEN 0 ELSE 1
    BY DEF DaemonsSeen
  <2>1. CASE ~ proc[q].up
    <3>1. proc'[q] = Down /\ Down.daemon = FALSE /\ Down.up = FALSE
      BY <2>1 DEF ManagerInv, DaemonsSeen, Down
    <3> QED
      BY <3>1
  <2>2. CASE proc[q].up
    <3>1. proc[q].obj \in DOMAIN objs
      BY <2>2 DEF ManagerInv, DaemonsSeen
    <3>2. /\ IdOf(q)' = IdOf(q)
          /\ Registered(proc[q].obj)' = Registered(proc[q].obj)
      BY <3>1 DEF IdOf, Registered
    <3> QED
      BY <2>2, <3>1, <3>2 DEF ManagerInv, DaemonsSeen
  <2> QED
    BY <2>1, <2>2
<1> QED
  BY <1>1, <1>2, <1>3 DEF ManagerInv, Accounts

LEMMA ScheduleInv ==
  ASSUME ManagerInv, NEW id \in DOMAIN engines, Schedule(id)
  PROVE  ManagerInv'
<1> DEFINE o == engines[id]
           x == [objs[o] EXCEPT !.busy = TRUE]
<1>1. objs \in Seq(Engine) /\ o \in DOMAIN objs /\ objs[o] \in Engine
  BY DEF ManagerInv, Types, TableSound
<1>2. /\ x \in Engine /\ x.id = objs[o].id /\ x.model = objs[o].model
      /\ x.status = objs[o].status
  BY <1>1 DEF Engine
<1>3. objs' = [objs EXCEPT ![o] = x]
  BY DEF Schedule
<1> HIDE DEF x, o
<1>4. /\ objs' \in Seq(Engine) /\ DOMAIN objs' = DOMAIN objs
      /\ \A u \in DOMAIN objs : /\ objs'[u].id = objs[u].id
                                /\ objs'[u].model = objs[u].model
                                /\ objs'[u].status = objs[u].status
  BY <1>1, <1>2, <1>3
<1> QED
  BY <1>4, TaskInv DEF Schedule

LEMMA TaskEndsInv ==
  ASSUME ManagerInv, NEW p \in Processes, TaskEnds(p)
  PROVE  ManagerInv'
<1> DEFINE o == proc[p].obj
           x == [objs[o] EXCEPT !.busy = FALSE]
<1>1. objs \in Seq(Engine) /\ o \in DOMAIN objs /\ objs[o] \in Engine
  BY DEF ManagerInv, Types, DaemonsSeen, TaskEnds
<1>2. /\ x \in Engine /\ x.id = objs[o].id /\ x.model = objs[o].model
      /\ x.status = objs[o].status
  BY <1>1 DEF Engine
<1>3. objs' = [objs EXCEPT ![o] = x]
  BY DEF TaskEnds
<1> HIDE DEF x, o
<1>4. /\ objs' \in Seq(Engine) /\ DOMAIN objs' = DOMAIN objs
      /\ \A u \in DOMAIN objs : /\ objs'[u].id = objs[u].id
                                /\ objs'[u].model = objs[u].model
                                /\ objs'[u].status = objs[u].status
  BY <1>1, <1>2, <1>3
<1> QED
  BY <1>4, TaskInv DEF TaskEnds

\* The engine that has the id by now may be another one than the task's.
LEMMA TaskFailsInv ==
  ASSUME ManagerInv, NEW o \in DOMAIN objs, TaskFails(o)
  PROVE  ManagerInv'
<1> DEFINE id == objs[o].id
           x == [objs[o] EXCEPT !.busy = FALSE]
           mid == [objs EXCEPT ![o] = x]
<1>1. objs \in Seq(Engine) /\ objs[o] \in Engine
  BY DEF ManagerInv, Types
<1>2. /\ x \in Engine /\ x.id = objs[o].id /\ x.model = objs[o].model
      /\ x.status = objs[o].status
  BY <1>1 DEF Engine
<1> HIDE DEF x
<1>3. /\ mid \in Seq(Engine) /\ DOMAIN mid = DOMAIN objs
      /\ \A u \in DOMAIN objs : /\ mid[u].id = objs[u].id
                                /\ mid[u].model = objs[u].model
                                /\ mid[u].status = objs[u].status
  BY <1>1, <1>2
<1> HIDE DEF mid
<1>4. CASE id \in DOMAIN engines
  <2> DEFINE b == engines[id]
             y == [mid[b] EXCEPT !.status = "BAD"]
  <2>1. b \in DOMAIN objs /\ mid[b] \in Engine
    BY <1>3, <1>4 DEF ManagerInv, TableSound
  <2>2. /\ y \in Engine /\ y.id = mid[b].id /\ y.model = mid[b].model
        /\ y.status = "BAD"
    BY <2>1 DEF Engine
  <2>3. objs' = [mid EXCEPT ![b] = y]
    BY <1>4 DEF TaskFails, mid, x
  <2> HIDE DEF y, b
  <2>4. /\ objs' \in Seq(Engine) /\ DOMAIN objs' = DOMAIN objs
        /\ \A u \in DOMAIN objs : /\ objs'[u].id = objs[u].id
                                  /\ objs'[u].model = objs[u].model
                                  /\ \/ objs'[u].status = objs[u].status
                                     \/ objs'[u].status = "BAD"
    BY <1>3, <2>1, <2>2, <2>3
  <2> QED
    BY <1>4, <2>4, TaskInv DEF TaskFails
<1>5. CASE id \notin DOMAIN engines
  <2>1. objs' = mid
    BY <1>5 DEF TaskFails, mid, x
  <2> QED
    BY <1>3, <1>5, <2>1, TaskInv DEF TaskFails
<1> QED
  BY <1>4, <1>5

(* ----------------------------- registration ----------------------------- *)

\* The engine manager takes its ids as a pool without a pool_size gives them
\* (PoolHandsOutFreeIds).
LEMMA FreeIdsHandedOut == FreeIds = HandsOut(Issued, DOMAIN engines)
BY DEF FreeIds, HandsOut, Issued

\* The pool hands out an id that no registered engine has.
LEMMA FreshId ==
  ASSUME ManagerInv, NEW id \in FreeIds
  PROVE  /\ id \in Nat /\ id \notin DOMAIN engines
         /\ \E n \in Nat : Issued \cup {id} = 0 .. (n - 1)
<1>1. PICK n \in Nat : Issued = 0 .. (n - 1)
  BY DEF ManagerInv, IdsDense
<1>2. DOMAIN engines \subseteq Issued
  BY DEF ManagerInv, TableSound, Issued
<1>3. CASE Issued \subseteq DOMAIN engines
  <2>1. Cardinality(0 .. (n - 1)) = n
    BY FS_Interval
  <2>2. id = n
    BY <1>1, <1>3, <2>1, FreeIdsHandedOut DEF HandsOut
  <2>3. Issued \cup {id} = 0 .. ((n + 1) - 1)
    BY <1>1, <2>2
  <2>4. id \notin Issued
    BY <1>1, <2>2
  <2> QED
    BY <1>2, <2>2, <2>3, <2>4
<1>4. CASE ~ (Issued \subseteq DOMAIN engines)
  <2>1. id \in Issued /\ id \notin DOMAIN engines
    BY <1>4, FreeIdsHandedOut DEF HandsOut
  <2>2. Issued \cup {id} = 0 .. (n - 1)
    BY <1>1, <2>1
  <2> QED
    BY <1>1, <2>1, <2>2
<1> QED
  BY <1>3, <1>4

\* What a registration does to the objects and to the table.
LEMMA RegisterTables ==
  ASSUME ManagerInv, NEW m \in Models, NEW id \in FreeIds, Register(m, id)
  PROVE  /\ id \notin DOMAIN engines
         /\ objs' \in Seq(Engine)
         /\ DOMAIN objs' = DOMAIN objs \cup {Len(objs) + 1}
         /\ Len(objs) + 1 \notin DOMAIN objs /\ Len(objs) + 1 \in Nat
         /\ \A o \in DOMAIN objs : objs'[o] = objs[o]
         /\ objs'[Len(objs) + 1] = NewEngine(m, id)
         /\ DOMAIN engines' = DOMAIN engines \cup {id}
         /\ \A i \in DOMAIN engines : engines'[i] = engines[i]
         /\ engines'[id] = Len(objs) + 1
         /\ lastSeen' \in [DOMAIN engines' -> Nat]
         /\ \A i \in DOMAIN engines : lastSeen'[i] = lastSeen[i]
         /\ lastSeen'[id] = 0
<1>1. id \in Nat /\ id \notin DOMAIN engines
  BY FreshId
<1>2. NewEngine(m, id) \in Engine
  BY <1>1 DEF NewEngine, Engine
<1>3. objs \in Seq(Engine) /\ lastSeen \in [DOMAIN engines -> Nat]
  BY DEF ManagerInv, Types
<1>4. /\ objs' \in Seq(Engine)
      /\ DOMAIN objs' = DOMAIN objs \cup {Len(objs) + 1}
      /\ Len(objs) + 1 \notin DOMAIN objs /\ Len(objs) + 1 \in Nat
      /\ \A o \in DOMAIN objs : objs'[o] = objs[o]
      /\ objs'[Len(objs) + 1] = NewEngine(m, id)
  BY <1>2, <1>3 DEF Register
<1>5. /\ DOMAIN engines' = DOMAIN engines \cup {id}
      /\ \A i \in DOMAIN engines : engines'[i] = engines[i]
      /\ engines'[id] = Len(objs) + 1
  BY <1>1 DEF Register, With
<1>6. /\ lastSeen' \in [DOMAIN engines' -> Nat]
      /\ \A i \in DOMAIN engines : lastSeen'[i] = lastSeen[i]
      /\ lastSeen'[id] = 0
  BY <1>1, <1>3, <1>5 DEF Register, With
<1> QED
  BY <1>1, <1>4, <1>5, <1>6

LEMMA RegisterAccounts ==
  ASSUME ManagerInv, NEW m \in Models, NEW id \in FreeIds, Register(m, id),
         exit = "no", exit' = exit
  PROVE  Accounts' /\ refs' \in [Models -> Nat]
<1> DEFINE new == Len(objs) + 1
<1>1. /\ id \notin DOMAIN engines
      /\ DOMAIN objs' = DOMAIN objs \cup {new}
      /\ new \notin DOMAIN objs
      /\ \A o \in DOMAIN objs : objs'[o] = objs[o]
      /\ objs'[new].id = id /\ objs'[new].model = m
      /\ DOMAIN engines' = DOMAIN engines \cup {id}
      /\ \A i \in DOMAIN engines : engines'[i] = engines[i]
      /\ engines'[id] = new
  <2>1. NewEngine(m, id).id = id /\ NewEngine(m, id).model = m
    BY DEF NewEngine
  <2> QED
    BY <2>1, RegisterTables
<1> HIDE DEF new
<1>2. TableSound'
  BY <1>1, FS_AddElement DEF ManagerInv, TableSound
<1>3. IdsDense'
  <2>1. Issued' = Issued \cup {id}
    BY <1>1 DEF Issued
  <2> QED
    BY <2>1, FreshId DEF IdsDense
<1>4. EverUsed' = EverUsed \cup {m}
  BY <1>1 DEF EverUsed
<1>5. \A i \in DOMAIN engines :
          objs'[engines'[i]].model = objs[engines[i]].model
  BY <1>1 DEF ManagerInv, TableSound
<1>6. refs \in [Models -> Nat] /\ unloaded' = unloaded
      /\ refs' = [refs EXCEPT ![m] = @ + 1]
  BY DEF ManagerInv, Types, Register, RegisterModel
<1>7. RefsExact'
  <2> SUFFICES ASSUME NEW n \in Models
               PROVE  refs'[n] = Cardinality(EnginesOf(n, DOMAIN engines)')
                                 + IF n \in unloaded THEN 1 ELSE 0
    BY <1>6 DEF RefsExact
  <2> DEFINE E == EnginesOf(n, DOMAIN engines)
             lost == IF n \in unloaded THEN 1 ELSE 0
  <2>1. refs[n] = Cardinality(E) + lost /\ lost \in Nat
    BY DEF ManagerInv, RefsExact
  <2>2. E \subseteq DOMAIN engines /\ IsFiniteSet(E)
    <3>1. E \subseteq DOMAIN engines
      BY DEF EnginesOf
    <3> QED
      BY <3>1, FS_Subset DEF ManagerInv, TableSound
  <2>3. CASE n = m
    <3>1. EnginesOf(n, DOMAIN engines)' = E \cup {id}
      BY <1>1, <1>5, <2>3 DEF EnginesOf
    <3>2. Cardinality(E \cup {id}) = Cardinality(E) + 1
      BY <1>1, <2>2, FS_AddElement
    <3>3. Cardinality(E) \in Nat
      BY <2>2, FS_CardinalityType
    <3> HIDE DEF E, lost
    <3>4. refs'[n] = refs[n] + 1
      BY <1>6, <2>3
    <3>5. refs'[n] = Cardinality(EnginesOf(n, DOMAIN engines)') + lost
      <4>1. Cardinality(EnginesOf(n, DOMAIN engines)') = Cardinality(E) + 1
        BY <3>1, <3>2
      <4>2. refs'[n] = Cardinality(E) + 1 + lost
        BY <2>1, <3>3, <3>4
      <4> QED
        BY <4>1, <4>2, <2>1, <3>3
    <3> QED
      BY <3>5 DEF lost
  <2>4. CASE n # m
    <3>1. EnginesOf(n, DOMAIN engines)' = E
      BY <1>1, <1>5, <2>4 DEF EnginesOf
    <3> QED
      BY <1>6, <2>1, <2>4, <3>1
  <2> QED
    BY <2>3, <2>4
<1>8. TokenizersServed'
  <2>1. tokenizers' = tokenizers \cup
            IF refs[m] = 0 THEN TokenizersOf({m}) ELSE {}
    BY DEF Register, RegisterModel
  <2>2. tokenizers' \subseteq TokenizersOf({n \in Models : refs'[n] > 0})
    BY <1>6, <2>1 DEF ManagerInv, TokenizersServed, TokenizersOf
  <2>3. ASSUME NEW i \in DOMAIN engines
        PROVE  LET n == objs[engines[i]].model
               IN  \/ Tokenizer[n] \in tokenizers \cup {TEXT}
                   \/ n \in unloaded
                   \/ Shares(n, EverUsed)
    BY DEF ManagerInv, TokenizersServed
  <2>4. ASSUME NEW i \in DOMAIN engines
        PROVE  LET n == objs'[engines'[i]].model
               IN  \/ Tokenizer[n] \in tokenizers' \cup {TEXT}
                   \/ n \in unloaded'
                   \/ Shares(n, EverUsed')
    BY <1>4, <1>5, <1>6, <2>1, <2>3 DEF Shares
  <2>5. \/ Tokenizer[m] \in tokenizers' \cup {TEXT}
        \/ m \in unloaded'
        \/ Shares(m, EverUsed')
    <3>1. CASE refs[m] = 0
      BY <2>1, <3>1 DEF TokenizersOf
    <3>2. CASE refs[m] # 0 /\ m \notin unloaded
      <4>1. Cardinality(EnginesOf(m, DOMAIN engines)) # 0
        BY <3>2 DEF ManagerInv, RefsExact
      <4>2. EnginesOf(m, DOMAIN engines) # {}
        BY <4>1, FS_EmptySet
      <4>3. PICK i \in DOMAIN engines : objs[engines[i]].model = m
        BY <4>2 DEF EnginesOf
      <4> QED
        BY <1>5, <2>4, <4>3
    <3>3. CASE m \in unloaded
      BY <1>6, <3>3
    <3> QED
      BY <3>1, <3>2, <3>3
  <2> QED
    BY <1>1, <2>2, <2>4, <2>5 DEF TokenizersServed, Shares
<1>9. AssertsOnlyIfShared'
  BY DEF AssertsOnlyIfShared
<1> QED
  BY <1>2, <1>3, <1>6, <1>7, <1>8, <1>9 DEF Accounts

LEMMA StartInv ==
  ASSUME ManagerInv, NEW p \in Processes, NEW lost \in BOOLEAN, Start(p, lost)
  PROVE  ManagerInv'
<1> DEFINE new == Len(objs) + 1
           m == Config[p]
<1>1. PICK id \in FreeIds : Register(m, id)
  BY DEF Start
<1>2. m \in Models
  BY ConfigAssumption
<1>3. exit = "no" /\ exit' = exit /\ ~ proc[p].up
  BY DEF Start
<1>4. Accounts' /\ refs' \in [Models -> Nat]
  BY <1>1, <1>2, <1>3, RegisterAccounts
<1>5. /\ id \notin DOMAIN engines
      /\ objs' \in Seq(Engine)
      /\ DOMAIN objs' = DOMAIN objs \cup {new}
      /\ new \notin DOMAIN objs /\ new \in Nat
      /\ \A o \in DOMAIN objs : objs'[o] = objs[o]
      /\ objs'[new].id = id
      /\ DOMAIN engines' = DOMAIN engines \cup {id}
      /\ \A i \in DOMAIN engines : engines'[i] = engines[i]
      /\ engines'[id] = new
      /\ lastSeen' \in [DOMAIN engines' -> Nat]
      /\ \A i \in DOMAIN engines : lastSeen'[i] = lastSeen[i]
      /\ lastSeen'[id] = 0
  <2>1. NewEngine(m, id).id = id
    BY DEF NewEngine
  <2> HIDE DEF m
  <2> QED
    BY <1>1, <1>2, <2>1, RegisterTables
<1>6. proc \in [Processes -> Process] /\ proc[p] = Down
  BY <1>3 DEF ManagerInv, Types, DaemonsSeen
<1> HIDE DEF new
<1>7. /\ proc' \in [Processes -> Process]
      /\ \A q \in Processes : q # p => proc'[q] = proc[q]
      /\ \/ proc'[p] = Down
         \/ proc'[p].up /\ proc'[p].obj = new /\ ~ proc'[p].sent
  <2>1. CASE lost
    BY <1>6, <2>1 DEF Start, RegisterReply
  <2>2. CASE ~ lost
    <3> DEFINE x == [proc[p] EXCEPT !.up = TRUE, !.daemon = TRUE, !.obj = new]
    <3>1. proc' = [proc EXCEPT ![p] = x]
      BY <2>2 DEF Start, RegisterReply, new
    <3>2. x \in Process
      BY <1>5, <1>6 DEF Process
    <3>3. x.up /\ x.obj = new /\ ~ x.sent
      BY <1>6 DEF Process, Down
    <3> HIDE DEF x
    <3> QED
      BY <1>6, <3>1, <3>2, <3>3
  <2> QED
    BY <2>1, <2>2
<1>8. Types'
  BY <1>4, <1>5, <1>7 DEF Types
<1>9. DaemonsSeen'
  <2> SUFFICES ASSUME NEW q \in Processes
               PROVE  /\ ~ proc'[q].up => proc'[q] = Down
                      /\ proc'[q].up => proc'[q].obj \in DOMAIN objs'
                      /\ proc'[q].daemon /\ objs'[proc'[q].obj].status # "BAD"
                            => Registered(proc[q].obj)'
                      /\ proc'[q].daemon /\ Registered(proc[q].obj)' =>
                            lastSeen'[IdOf(q)'] <= IF proc'[q].sent THEN 0 ELSE 1
    BY DEF DaemonsSeen
  <2>1. CASE proc'[q] = Down
    <3>1. Down.daemon = FALSE /\ Down.up = FALSE
      BY DEF Down
    <3> QED
      BY <2>1, <3>1
  <2>2. CASE q = p /\ proc'[q] # Down
    BY <1>5, <1>7, <2>2 DEF Registered, IdOf
  <2>3. CASE q # p /\ proc'[q] # Down
    <3>1. proc'[q] = proc[q] /\ proc[q].up /\ proc[q].obj \in DOMAIN objs
      BY <1>7, <2>3 DEF ManagerInv, DaemonsSeen
    <3>2. /\ IdOf(q)' = IdOf(q)
          /\ Registered(proc[q].obj)' <=> Registered(proc[q].obj)
      BY <1>5, <3>1 DEF IdOf, Registered
    <3>3. Registered(proc[q].obj) => lastSeen'[IdOf(q)] = lastSeen[IdOf(q)]
      BY <1>5 DEF Registered, IdOf
    <3> QED
      BY <1>5, <3>1, <3>2, <3>3 DEF ManagerInv, DaemonsSeen
  <2> QED
    BY <2>1, <2>2, <2>3
<1> QED
  BY <1>4, <1>8, <1>9 DEF ManagerInv, Accounts

\* The reference of a registration that failed is the one RefsExact allows.
LEMMA StartWithoutTokenizerInv ==
  ASSUME ManagerInv, NEW p \in Processes, StartWithoutTokenizer(p)
  PROVE  ManagerInv'
<1> DEFINE m == Config[p]
<1>1. /\ m \in Models /\ refs[m] = 0 /\ exit = "no"
      /\ refs' = [refs EXCEPT ![m] = 1]
      /\ unloaded' = unloaded \cup {m}
      /\ UNCHANGED <<objs, engines, lastSeen, tokenizers, proc, exit>>
  BY ConfigAssumption DEF StartWithoutTokenizer
<1> HIDE DEF m
<1>2. Types'
  BY <1>1 DEF ManagerInv, Types
<1>3. TableSound' /\ IdsDense' /\ DaemonsSeen'
  BY <1>1 DEF ManagerInv, TableSound, IdsDense, Issued, DaemonsSeen,
              Registered, IdOf
<1>4. RefsExact'
  <2> SUFFICES ASSUME NEW n \in Models
               PROVE  refs'[n] = Cardinality(EnginesOf(n, DOMAIN engines)')
                                 + IF n \in unloaded' THEN 1 ELSE 0
    BY DEF RefsExact
  <2> DEFINE E == EnginesOf(n, DOMAIN engines)
  <2>1. E = EnginesOf(n, DOMAIN engines)'
    BY <1>1 DEF EnginesOf
  <2>2. refs[n] = Cardinality(E) + IF n \in unloaded THEN 1 ELSE 0
    BY <1>1 DEF ManagerInv, RefsExact
  <2>3. Cardinality(E) \in Nat
    <3>1. E \subseteq DOMAIN engines
      BY DEF EnginesOf
    <3> QED
      BY <3>1, FS_Subset, FS_CardinalityType DEF ManagerInv, TableSound
  <2> HIDE DEF E
  <2>4. refs'[n] = Cardinality(E) + IF n \in unloaded' THEN 1 ELSE 0
    <3>1. CASE n = m
      BY <1>1, <2>2, <2>3, <3>1 DEF ManagerInv, Types
    <3>2. CASE n # m
      BY <1>1, <2>2, <2>3, <3>2 DEF ManagerInv, Types
    <3> QED
      BY <3>1, <3>2
  <2> QED
    BY <2>1, <2>4
<1>5. TokenizersServed'
  <2>1. tokenizers' \subseteq TokenizersOf({n \in Models : refs'[n] > 0})
    BY <1>1 DEF ManagerInv, Types, TokenizersServed, TokenizersOf
  <2> QED
    BY <1>1, <2>1 DEF ManagerInv, TokenizersServed, EverUsed, Shares
<1>6. AssertsOnlyIfShared'
  BY <1>1 DEF AssertsOnlyIfShared
<1> QED
  BY <1>2, <1>3, <1>4, <1>5, <1>6 DEF ManagerInv

(* ------------------------------ serve loop ------------------------------ *)

\* The engines of a model are counted apart: those in S and the others.
LEMMA EnginesSplit ==
  ASSUME ManagerInv, exit = "no", NEW S, S \subseteq DOMAIN engines,
         NEW m \in Models
  PROVE  /\ Cardinality(EnginesOf(m, S)) \in Nat
         /\ Cardinality(EnginesOf(m, DOMAIN engines \ S)) \in Nat
         /\ refs[m] = Cardinality(EnginesOf(m, DOMAIN engines \ S))
                      + Cardinality(EnginesOf(m, S))
                      + IF m \in unloaded THEN 1 ELSE 0
<1> DEFINE E == EnginesOf(m, DOMAIN engines)
           A == EnginesOf(m, S)
           B == EnginesOf(m, DOMAIN engines \ S)
<1>1. E \subseteq DOMAIN engines /\ A \subseteq E /\ B = E \ A
      /\ A = E \cap A
  BY DEF EnginesOf
<1>2. IsFiniteSet(E)
  BY <1>1, FS_Subset DEF ManagerInv, TableSound
<1>3. refs[m] = Cardinality(E) + IF m \in unloaded THEN 1 ELSE 0
  BY DEF ManagerInv, RefsExact
<1> HIDE DEF E, A, B
<1>4. Cardinality(B) = Cardinality(E) - Cardinality(A)
  <2>1. Cardinality(E \ A) = Cardinality(E) - Cardinality(E \cap A)
    BY <1>2, FS_Difference
  <2> QED
    BY <1>1, <2>1, Zenon
<1>5. Cardinality(A) \in Nat /\ Cardinality(B) \in Nat /\ Cardinality(E) \in Nat
  BY <1>1, <1>2, FS_Subset, FS_Difference, FS_CardinalityType
<1>6. refs[m] = Cardinality(B) + Cardinality(A)
                + IF m \in unloaded THEN 1 ELSE 0
  BY <1>3, <1>4, <1>5
<1> QED
  BY <1>5, <1>6 DEF A, B

\* A model that a sweep leaves without references has no engine left, and no
\* registration of it failed.
LEMMA UnusedModels ==
  ASSUME ManagerInv, exit = "no", NEW S, S \subseteq DOMAIN engines,
         NEW m \in Unused(S)
  PROVE  /\ m \in Models /\ m \notin unloaded /\ m \in EverUsed
         /\ EnginesOf(m, DOMAIN engines \ S) = {}
         /\ \E id \in S : objs[engines[id]].model = m
<1>1. /\ m \in Models /\ EnginesOf(m, S) # {}
      /\ refs[m] = Cardinality(EnginesOf(m, S))
  BY DEF Unused
<1> DEFINE A == Cardinality(EnginesOf(m, S))
           B == Cardinality(EnginesOf(m, DOMAIN engines \ S))
<1>2. /\ A \in Nat /\ B \in Nat
      /\ refs[m] = B + A + IF m \in unloaded THEN 1 ELSE 0
  BY <1>1, EnginesSplit
<1>3. refs[m] = A
  BY <1>1
<1> HIDE DEF A, B
<1>4. B = 0 /\ m \notin unloaded
  <2>1. CASE m \in unloaded
    BY <1>2, <1>3, <2>1
  <2>2. CASE m \notin unloaded
    BY <1>2, <1>3, <2>2
  <2> QED
    BY <2>1, <2>2
<1>5. IsFiniteSet(EnginesOf(m, DOMAIN engines \ S))
  <2>1. EnginesOf(m, DOMAIN engines \ S) \subseteq DOMAIN engines
    BY DEF EnginesOf
  <2> QED
    BY <2>1, FS_Subset DEF ManagerInv, TableSound
<1>6. EnginesOf(m, DOMAIN engines \ S) = {}
  BY <1>4, <1>5, FS_EmptySet DEF B
<1>7. PICK id \in S : objs[engines[id]].model = m
  BY <1>1 DEF EnginesOf
<1>8. m \in EverUsed
  BY <1>7 DEF EverUsed, ManagerInv, TableSound
<1> QED
  BY <1>1, <1>4, <1>6, <1>7, <1>8

\* The assertion of remove_tokenizer fails only on a shared tokenizer.
LEMMA AssertionNeedsSharing ==
  ASSUME ManagerInv, exit = "no", RemoveAsserts(Unused(NotRunning))
  PROVE  \E m \in EverUsed : Shares(m, EverUsed)
<1> DEFINE S == NotRunning
<1>1. S \subseteq DOMAIN engines
  BY DEF NotRunning
<1>2. PICK m \in Unused(S) :
          /\ Tokenizer[m] # TEXT
          /\ \/ Tokenizer[m] \notin tokenizers
             \/ \E n \in Unused(S) \ {m} : Tokenizer[n] = Tokenizer[m]
  BY DEF RemoveAsserts
<1> HIDE DEF S
<1>3. CASE Tokenizer[m] \notin tokenizers
  <2>1. /\ m \notin unloaded /\ m \in EverUsed
        /\ \E id \in S : objs[engines[id]].model = m
    BY <1>1, UnusedModels
  <2> QED
    BY <1>1, <1>2, <1>3, <2>1 DEF ManagerInv, TokenizersServed
<1>4. CASE \E n \in Unused(S) \ {m} : Tokenizer[n] = Tokenizer[m]
  <2>1. m \in EverUsed /\ \A n \in Unused(S) : n \in EverUsed
    BY <1>1, UnusedModels
  <2> QED
    BY <1>4, <2>1 DEF Shares
<1> QED
  BY <1>2, <1>3, <1>4

\* What a sweep that meets no failing assertion does.
LEMMA SweepFacts ==
  ASSUME ManagerInv, ServeLoop, exit' = exit
  PROVE  LET S == NotRunning IN
         /\ S \subseteq DOMAIN engines /\ exit = "no"
         /\ objs' \in Seq(Engine) /\ DOMAIN objs' = DOMAIN objs
         /\ \A o \in DOMAIN objs :
               /\ objs'[o].id = objs[o].id /\ objs'[o].model = objs[o].model
               /\ IF \E id \in S : engines[id] = o
                  THEN objs'[o].status
                          = IF Expired(objs[o].id) THEN "DEAD" ELSE "BAD"
                  ELSE objs'[o].status = objs[o].status
         /\ DOMAIN engines' = DOMAIN engines \ S
         /\ \A i \in DOMAIN engines' : engines'[i] = engines[i]
         /\ lastSeen' \in [DOMAIN engines' -> Nat]
         /\ \A i \in DOMAIN engines' : lastSeen'[i] = lastSeen[i]
         /\ refs' = [m \in Models |-> refs[m] - Cardinality(EnginesOf(m, S))]
         /\ tokenizers' = tokenizers \ TokenizersOf(Unused(S))
         /\ UNCHANGED <<unloaded, proc>>
<1> DEFINE S == NotRunning
<1>1. S \subseteq DOMAIN engines
  BY DEF NotRunning
<1>2. exit = "no" /\ ~ RemoveAsserts(Unused(S))
  BY DEF ServeLoop
<1>3. /\ objs' = [o \in DOMAIN objs |->
                    IF \E id \in S : engines[id] = o
                    THEN [objs[o] EXCEPT !.status =
                             IF Expired(objs[o].id) THEN "DEAD" ELSE "BAD"]
                    ELSE objs[o]]
      /\ engines' = Without(engines, S)
      /\ lastSeen' = Without(lastSeen, S)
      /\ refs' = [m \in Models |-> refs[m] - Cardinality(EnginesOf(m, S))]
      /\ tokenizers' = tokenizers \ TokenizersOf(Unused(S))
      /\ UNCHANGED <<unloaded, proc>>
  BY <1>2 DEF ServeLoop
<1>4. objs \in Seq(Engine) /\ lastSeen \in [DOMAIN engines -> Nat]
  BY DEF ManagerInv, Types
<1> HIDE DEF S
<1>5. ASSUME NEW o \in DOMAIN objs
      PROVE  /\ objs'[o] \in Engine
             /\ objs'[o].id = objs[o].id /\ objs'[o].model = objs[o].model
             /\ IF \E id \in S : engines[id] = o
                THEN objs'[o].status
                        = IF Expired(objs[o].id) THEN "DEAD" ELSE "BAD"
                ELSE objs'[o].status = objs[o].status
  <2> DEFINE st == IF Expired(objs[o].id) THEN "DEAD" ELSE "BAD"
             x == [objs[o] EXCEPT !.status = st]
  <2>1. objs[o] \in Engine /\ st \in {"DEAD", "BAD"}
    BY <1>4
  <2>2. objs'[o] = IF \E id \in S : engines[id] = o THEN x ELSE objs[o]
    BY <1>3
  <2> HIDE DEF st
  <2>3. /\ x \in Engine /\ x.id = objs[o].id /\ x.model = objs[o].model
        /\ x.status = st
    BY <2>1 DEF Engine
  <2> HIDE DEF x
  <2>4. CASE \E id \in S : engines[id] = o
    BY <2>2, <2>3, <2>4 DEF st
  <2>5. CASE ~ \E id \in S : engines[id] = o
    BY <2>1, <2>2, <2>5
  <2> QED
    BY <2>4, <2>5
<1>6. DOMAIN objs' = DOMAIN objs /\ objs' \in Seq(Engine)
  <2>1. objs' = [o \in 1 .. Len(objs) |-> objs'[o]] /\ Len(objs) \in Nat
    BY <1>3, <1>4
  <2> QED
    BY <1>4, <1>5, <2>1
<1>7. /\ DOMAIN engines' = DOMAIN engines \ S
      /\ \A i \in DOMAIN engines' : engines'[i] = engines[i]
      /\ lastSeen' \in [DOMAIN engines' -> Nat]
      /\ \A i \in DOMAIN engines' : lastSeen'[i] = lastSeen[i]
  BY <1>3, <1>4 DEF Without
<1> QED
  BY <1>1, <1>2, <1>3, <1>5, <1>6, <1>7 DEF S

LEMMA SweepAccounts ==
  ASSUME ManagerInv, ServeLoop, exit' = exit
  PROVE  Accounts' /\ refs' \in [Models -> Nat]
<1> DEFINE S == NotRunning
<1>1. /\ S \subseteq DOMAIN engines /\ exit = "no"
      /\ DOMAIN objs' = DOMAIN objs
      /\ \A o \in DOMAIN objs :
            objs'[o].id = objs[o].id /\ objs'[o].model = objs[o].model
      /\ DOMAIN engines' = DOMAIN engines \ S
      /\ \A i \in DOMAIN engines' : engines'[i] = engines[i]
      /\ refs' = [m \in Models |-> refs[m] - Cardinality(EnginesOf(m, S))]
      /\ tokenizers' = tokenizers \ TokenizersOf(Unused(S))
      /\ unloaded' = unloaded
  BY SweepFacts
<1> HIDE DEF S
<1>2. TableSound'
  <2>1. IsFiniteSet(DOMAIN engines \ S)
    BY FS_Difference DEF ManagerInv, TableSound
  <2> QED
    BY <1>1, <2>1 DEF ManagerInv, TableSound
<1>3. Issued' = Issued /\ EverUsed' = EverUsed
  BY <1>1 DEF Issued, EverUsed
<1>4. IdsDense'
  BY <1>3 DEF ManagerInv, IdsDense
<1>5. \A i \in DOMAIN engines' :
          objs'[engines'[i]].model = objs[engines[i]].model
  BY <1>1 DEF ManagerInv, TableSound
<1>6. ASSUME NEW m \in Models
      PROVE  /\ refs'[m] = Cardinality(EnginesOf(m, DOMAIN engines \ S))
                           + IF m \in unloaded THEN 1 ELSE 0
             /\ refs'[m] \in Nat
  <2> DEFINE A == Cardinality(EnginesOf(m, S))
             B == Cardinality(EnginesOf(m, DOMAIN engines \ S))
             u == IF m \in unloaded THEN 1 ELSE 0
  <2>1. A \in Nat /\ B \in Nat /\ refs[m] = B + A + u /\ u \in Nat
    BY <1>1, EnginesSplit
  <2>2. refs'[m] = refs[m] - A
    BY <1>1
  <2> HIDE DEF A, B, u
  <2>3. refs'[m] = B + u /\ refs'[m] \in Nat
    BY <2>1, <2>2
  <2> QED
    BY <2>3 DEF B, u
<1>7. RefsExact'
  <2>1. \A m \in Models : EnginesOf(m, DOMAIN engines)'
                          = EnginesOf(m, DOMAIN engines \ S)
    BY <1>1, <1>5 DEF EnginesOf
  <2> QED
    BY <1>1, <1>6, <2>1 DEF RefsExact
<1>8. TokenizersServed'
  <2>1. tokenizers' \subseteq TokenizersOf({m \in Models : refs'[m] > 0})
    <3> SUFFICES ASSUME NEW k \in tokenizers'
                 PROVE  k \in TokenizersOf({m \in Models : refs'[m] > 0})
      OBVIOUS
    <3>1. k \in tokenizers /\ k \notin TokenizersOf(Unused(S))
      BY <1>1
    <3>2. PICK m \in Models : refs[m] > 0 /\ k = Tokenizer[m] /\ k # TEXT
      BY <1>1, <3>1 DEF ManagerInv, TokenizersServed, TokenizersOf
    <3>3. CASE EnginesOf(m, S) = {}
      <4>1. refs'[m] = refs[m]
        <5>1. refs'[m] = refs[m] - Cardinality(EnginesOf(m, S))
          BY <1>1
        <5>2. Cardinality(EnginesOf(m, S)) = 0 /\ refs[m] \in Nat
          BY <3>3, FS_EmptySet DEF ManagerInv, Types
        <5> QED
          BY <5>1, <5>2
      <4> QED
        BY <3>2, <4>1 DEF TokenizersOf
    <3>4. CASE EnginesOf(m, S) # {}
      <4>1. m \notin Unused(S)
        BY <3>1, <3>2 DEF TokenizersOf
      <4>2. refs[m] # Cardinality(EnginesOf(m, S))
        BY <3>4, <4>1 DEF Unused
      <4>3. refs'[m] = refs[m] - Cardinality(EnginesOf(m, S))
        BY <1>1
      <4>4. refs[m] \in Nat /\ Cardinality(EnginesOf(m, S)) \in Nat
        BY <1>1, EnginesSplit DEF ManagerInv, Types
      <4>5. refs'[m] > 0
        BY <1>6, <4>2, <4>3, <4>4
      <4> QED
        BY <3>2, <4>5 DEF TokenizersOf
    <3> QED
      BY <3>3, <3>4
  <2>2. ASSUME NEW i \in DOMAIN engines'
        PROVE  LET m == objs'[engines'[i]].model
               IN  \/ Tokenizer[m] \in tokenizers' \cup {TEXT}
                   \/ m \in unloaded'
                   \/ Shares(m, EverUsed')
    <3> DEFINE m == objs[engines[i]].model
    <3>1. i \in DOMAIN engines /\ i \notin S
      BY <1>1
    <3>2. \/ Tokenizer[m] \in tokenizers \cup {TEXT}
          \/ m \in unloaded
          \/ Shares(m, EverUsed)
      BY <1>1, <3>1 DEF ManagerInv, TokenizersServed
    <3>3. i \in EnginesOf(m, DOMAIN engines \ S)
      BY <3>1 DEF EnginesOf
    <3>4. \A n \in Unused(S) : n # m /\ n \in EverUsed
      BY <1>1, <3>3, UnusedModels
    <3>5. CASE Tokenizer[m] \in tokenizers \ tokenizers'
      <4>1. \E n \in Unused(S) : Tokenizer[n] = Tokenizer[m]
        BY <1>1, <3>5 DEF TokenizersOf
      <4>2. Shares(m, EverUsed)
        BY <3>4, <4>1 DEF Shares
      <4> QED
        BY <1>3, <1>5, <4>2
    <3>6. CASE Tokenizer[m] \notin tokenizers \ tokenizers'
      BY <1>1, <1>3, <1>5, <3>2, <3>6
    <3> QED
      BY <3>5, <3>6
  <2> QED
    BY <2>1, <2>2 DEF TokenizersServed
<1>9. AssertsOnlyIfShared'
  BY <1>1 DEF AssertsOnlyIfShared
<1> QED
  BY <1>1, <1>2, <1>4, <1>6, <1>7, <1>8, <1>9 DEF Accounts

\* An engine that is beaten for is younger than the timeout: it is swept only
\* because it is bad, and then it stays marked as bad.
LEMMA ServeLoopInv == ASSUME ManagerInv, ServeLoop PROVE ManagerInv'
<1>1. CASE RemoveAsserts(Unused(NotRunning))
  <2>1. /\ exit = "no" /\ exit' = "no tokenizer"
        /\ UNCHANGED <<objs, engines, lastSeen, refs, tokenizers, unloaded, proc>>
    BY <1>1 DEF ServeLoop, core
  <2>2. \E m \in EverUsed : Shares(m, EverUsed)
    BY <1>1, <2>1, AssertionNeedsSharing
  <2>3. AssertsOnlyIfShared'
    BY <2>1, <2>2 DEF AssertsOnlyIfShared, EverUsed, Shares
  <2>4. RefsExact' /\ TokenizersServed'
    BY <2>1 DEF RefsExact, TokenizersServed
  <2>5. Types' /\ TableSound'
    BY <2>1 DEF ManagerInv, Types, TableSound
  <2>6. IdsDense'
    BY <2>1 DEF ManagerInv, IdsDense, Issued
  <2>7. DaemonsSeen'
    <3>1. DaemonsSeen
      BY DEF ManagerInv
    <3> QED
      BY <2>1, <3>1 DEF DaemonsSeen, Registered, IdOf
  <2> QED
    BY <2>3, <2>4, <2>5, <2>6, <2>7 DEF ManagerInv
<1>2. CASE ~ RemoveAsserts(Unused(NotRunning))
  <2> DEFINE S == NotRunning
  <2>1. exit' = exit
    BY <1>2 DEF ServeLoop
  <2>2. Accounts' /\ refs' \in [Models -> Nat]
    BY <2>1, SweepAccounts
  <2>3. /\ S \subseteq DOMAIN engines
        /\ objs' \in Seq(Engine) /\ DOMAIN objs' = DOMAIN objs
        /\ \A o \in DOMAIN objs :
              /\ objs'[o].id = objs[o].id
              /\ IF \E id \in S : engines[id] = o
                 THEN objs'[o].status
                         = IF Expired(objs[o].id) THEN "DEAD" ELSE "BAD"
                 ELSE objs'[o].status = objs[o].status
        /\ DOMAIN engines' = DOMAIN engines \ S
        /\ \A i \in DOMAIN engines' : engines'[i] = engines[i]
        /\ lastSeen' \in [DOMAIN engines' -> Nat]
        /\ \A i \in DOMAIN engines' : lastSeen'[i] = lastSeen[i]
        /\ proc' = proc
    BY <2>1, SweepFacts
  <2> HIDE DEF S
  <2>4. Types'
    BY <2>2, <2>3 DEF ManagerInv, Types
  <2>5. DaemonsSeen'
    <3> SUFFICES ASSUME NEW q \in Processes
                 PROVE  /\ ~ proc'[q].up => proc'[q] = Down
                        /\ proc'[q].up => proc'[q].obj \in DOMAIN objs'
                        /\ proc'[q].daemon /\ objs'[proc'[q].obj].status # "BAD"
                              => Registered(proc[q].obj)'
                        /\ proc'[q].daemon /\ Registered(proc[q].obj)' =>
                              lastSeen'[IdOf(q)']
                                 <= IF proc'[q].sent THEN 0 ELSE 1
      BY DEF DaemonsSeen
    <3>1. CASE ~ proc[q].up
      <4>1. proc'[q] = Down /\ Down.daemon = FALSE /\ Down.up = FALSE
        BY <2>3, <3>1 DEF ManagerInv, DaemonsSeen, Down
      <4> QED
        BY <4>1
    <3>2. CASE proc[q].up
      <4> DEFINE o == proc[q].obj
                 id == IdOf(q)
      <4>1. o \in DOMAIN objs /\ IdOf(q)' = id /\ id = objs[o].id
        BY <2>3, <3>2 DEF ManagerInv, DaemonsSeen, IdOf
      <4>2. Registered(o)' => Registered(o) /\ id \notin S
        BY <2>3, <4>1 DEF Registered
      <4>3. ASSUME proc[q].daemon, Registered(o)'
            PROVE  lastSeen'[id] <= IF proc[q].sent THEN 0 ELSE 1
        BY <2>3, <4>1, <4>2, <4>3 DEF ManagerInv, DaemonsSeen, Registered
      <4>4. ASSUME proc[q].daemon, objs'[o].status # "BAD"
            PROVE  Registered(o)'
        <5>1. CASE \E i \in S : engines[i] = o
          <6>1. id \in S /\ engines[id] = o /\ Registered(o)
            BY <2>3, <4>1, <5>1 DEF ManagerInv, TableSound, Registered
          <6>2. lastSeen[id] <= 1 /\ lastSeen[id] \in Nat
            <7>1. lastSeen[id] \in Nat
              BY <2>3, <6>1 DEF ManagerInv, Types
            <7>2. lastSeen[id] <= IF proc[q].sent THEN 0 ELSE 1
              BY <4>4, <6>1 DEF ManagerInv, DaemonsSeen
            <7> QED
              BY <7>1, <7>2
          <6>3. ~ Expired(id)
            BY <6>2, TimingAssumption DEF Expired
          <6> QED
            BY <2>3, <4>1, <4>4, <5>1, <6>3
        <5>2. CASE ~ \E i \in S : engines[i] = o
          <6>1. Registered(o)
            BY <2>3, <4>1, <4>4, <5>2 DEF ManagerInv, DaemonsSeen
          <6> QED
            BY <2>3, <4>1, <5>2, <6>1 DEF Registered
        <5> QED
          BY <5>1, <5>2
      <4> QED
        BY <2>3, <3>2, <4>1, <4>3, <4>4
    <3> QED
      BY <3>1, <3>2
  <2> QED
    BY <2>2, <2>4, <2>5 DEF ManagerInv, Accounts
<1> QED
  BY <1>1, <1>2

(* ------------------------------- theorems ------------------------------- *)

LEMMA ManagerInvNext == ManagerInv /\ [Next]_vars => ManagerInv'
<1> SUFFICES ASSUME ManagerInv, [Next]_vars PROVE ManagerInv'
  OBVIOUS
<1>1. CASE UNCHANGED vars
  BY <1>1, TaskInv DEF vars, core, ManagerInv, Types
<1>2. CASE Next
  BY <1>2, ServeLoopInv, TickInv, StartInv, StartWithoutTokenizerInv,
     ProcessEndsInv, HeartbeatInv, TaskEndsInv, ScheduleInv, TaskFailsInv
     DEF Next
<1> QED
  BY <1>1, <1>2

\* ManagerInv holds in every reachable state.
LEMMA ManagerInvAlways == Spec => []ManagerInv
  BY ManagerInvInit, ManagerInvNext, PTL DEF Spec

\* _models_ref_counter counts the registered engines of every model, plus the
\* one reference that a registration with a missing tokenizer leaves behind.
THEOREM RefsAlwaysExact == Spec => []RefsExact
<1>1. ManagerInv => RefsExact
  BY DEF ManagerInv
<1> QED
  BY <1>1, ManagerInvAlways, PTL

\* Every registered engine has its tokenizer, unless the tokenizer did not
\* load or is shared with another model (tokenizer_wrapper.py).
THEOREM TokenizersAlwaysServed == Spec => []TokenizersServed
<1>1. ManagerInv => TokenizersServed
  BY DEF ManagerInv
<1> QED
  BY <1>1, ManagerInvAlways, PTL

\* The assertion of remove_tokenizer can only fail when two models with one
\* tokenizer have been registered.
THEOREM AssertsAlwaysShared == Spec => []AssertsOnlyIfShared
<1>1. ManagerInv => AssertsOnlyIfShared
  BY DEF ManagerInv
<1> QED
  BY <1>1, ManagerInvAlways, PTL

\* No engine with a live heartbeat thread is given up for dead, for every
\* timeout of at least one interval (update_expired_engines).
THEOREM HealthyAlwaysStays == Spec => []HealthyStays
<1>1. ManagerInv => HealthyStays
  BY DEF ManagerInv, DaemonsSeen, HealthyStays
<1> QED
  BY <1>1, ManagerInvAlways, PTL
=============================================================================
