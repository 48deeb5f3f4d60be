----------------------- MODULE ContextManager_proofs ------------------------
(***************************************************************************)
(* Contexts, reference counts and prefix caches of the serve layer, for    *)
(* any tasks, chains, engines and context ids, and however often engines   *)
(* come, go and recycle their ids.                                         *)
(*                                                                         *)
(* SafeInv holds with and without fuse_fill: a counter is never below the  *)
(* number of holders, so no context is freed under one.  PathInv needs a   *)
(* history without fused requests: counters are exact, a context is live   *)
(* iff it is held, the caches of an engine are a tree of live contexts,    *)
(* and a task holds one path of it.  Its parts need each other: that a     *)
(* cached prefix leads to a live context (CacheStep) needs that a context  *)
(* with a child is never released (BottomUp), which needs exact counters   *)
(* and that the tasks of a child also hold its parent (TaskOnOnePath).     *)
(*                                                                         *)
(* The loop of set_task_contexts is one action; the lemmas on Binding say  *)
(* what it does to each table.                                             *)
(*                                                                         *)
(* The second part is about the coroutines that run on top of these tables *)
(* (GraphExecutor): FilledInOrder, contexts are filled once and in the     *)
(* order of the prompt.  Its invariant contains PathInv, since a task's    *)
(* contexts are live and on one path as long as the task is bound; what    *)
(* has to be added is DoneReady, a coroutine has behind it only contexts   *)
(* that are ready.  FilledOnce then follows from the start event being set *)
(* before the request is posted.                                           *)
(***************************************************************************)
EXTENDS GraphExecutor, FiniteInduction, FiniteSetTheorems, SequenceTheorems,
        TLAPS

\* The prefixes of a chain.
LEMMA ChainFacts ==
  ASSUME NEW t \in Tasks
  PROVE  Chain[t] \in Seq(Vars) /\ Last(t) \in Nat \ {0} /\ 1 \in 1 .. Last(t)
<1>1. Chain[t] \in Seq(Vars) /\ Chain[t] # <<>>
  BY ContextAssumption
<1> QED
  BY <1>1 DEF Last

LEMMA PrefixFacts ==
  ASSUME NEW t \in Tasks, NEW i \in 1 .. Last(t)
  PROVE  /\ Prefix(t, i) \in Seq(Vars) /\ Len(Prefix(t, i)) = i
         /\ Prefix(t, i) # <<>>
         /\ \A j \in 1 .. i : SubSeq(Prefix(t, i), 1, j) = Prefix(t, j)
<1>1. Chain[t] \in Seq(Vars) /\ Last(t) \in Nat \ {0} /\ i \in 1 .. Len(Chain[t])
  BY ChainFacts DEF Last
<1>2. /\ Prefix(t, i) \in Seq(Vars) /\ Len(Prefix(t, i)) = i
      /\ \A j \in 1 .. i : Prefix(t, i)[j] = Chain[t][j]
  BY <1>1, SubSeqProperties DEF Prefix
<1>3. ASSUME NEW j \in 1 .. i
      PROVE  SubSeq(Prefix(t, i), 1, j) = Prefix(t, j)
  <2>1. /\ Prefix(t, j) \in Seq(Vars) /\ Len(Prefix(t, j)) = j
        /\ \A l \in 1 .. j : Prefix(t, j)[l] = Chain[t][l]
    BY <1>1, SubSeqProperties DEF Prefix
  <2>2. /\ SubSeq(Prefix(t, i), 1, j) \in Seq(Vars)
        /\ Len(SubSeq(Prefix(t, i), 1, j)) = j
        /\ \A l \in 1 .. j : SubSeq(Prefix(t, i), 1, j)[l] = Prefix(t, i)[l]
    BY <1>1, <1>2, SubSeqProperties
  <2> QED
    BY <1>2, <2>1, <2>2, SeqEqual
<1> QED
  BY <1>1, <1>2, <1>3

-----------------------------------------------------------------------------
(* What one binding changes *)

\* set_task_contexts gives task t the contexts cs on engine e after k hits.
Binding(t, e, k, cs) ==
    /\ t \in Tasks /\ phase[t] = "queued"
    /\ e \in registered
    /\ k \in 0 .. Last(t)
    /\ cs \in [1 .. Last(t) -> ContextIds]
    /\ HitLength(t, engineId[e], k)
    /\ \A i \in 1 .. k : prefixMap[engineId[e]][Prefix(t, i)] \in DOMAIN contexts
    /\ Assignment(t, engineId[e], k, cs)
    /\ BindContexts(t, e, k, cs)

\* The contexts it creates, the contexts it labels with a prefix, and these
\* prefixes.
Created(t, k, cs) == {cs[i] : i \in {j \in 1 .. Last(t) : OwnContext(t, k, j)}}
Labelled(t, k, cs) == {cs[i] : i \in CachedNow(t, k)}
Hashes(t, k) == {Prefix(t, i) : i \in CachedNow(t, k)}

\* Every context of an assignment is hit, or created for a node of its own,
\* although a fused Fill node takes over the context of the node before it.
LEMMA Covered ==
  ASSUME NEW t, NEW e, NEW k, NEW cs, Binding(t, e, k, cs)
  PROVE  \A i \in 1 .. Last(t) :
            \/ \E j \in 1 .. k : cs[j] = cs[i]
            \/ \E j \in (k + 1) .. Last(t) : OwnContext(t, k, j) /\ cs[j] = cs[i]
<1> DEFINE Good(i) == \/ \E j \in 1 .. k : cs[j] = cs[i]
                      \/ \E j \in (k + 1) .. Last(t) :
                            OwnContext(t, k, j) /\ cs[j] = cs[i]
           S == {n \in Nat : n \in 1 .. Last(t) => Good(n)}
<1>0. /\ Last(t) \in Nat \ {0} /\ k \in 0 .. Last(t)
      /\ Assignment(t, engineId[e], k, cs)
  BY ChainFacts DEF Binding
<1>1. 0 \in S
  OBVIOUS
<1>2. ASSUME NEW n \in Nat, n \in S, n + 1 \in 1 .. Last(t)
      PROVE  Good(n + 1)
  <2>1. CASE n + 1 <= k
    BY <1>0, <1>2, <2>1
  <2>2. CASE n + 1 > k /\ OwnContext(t, k, n + 1)
    BY <1>0, <1>2, <2>2
  <2>3. CASE n + 1 > k /\ ~OwnContext(t, k, n + 1)
    <3>1. cs[n + 1] = cs[n]
      BY <1>0, <1>2, <2>3 DEF Assignment
    <3>2. n \in 1 .. Last(t)
      BY <1>0, <1>2, <2>3 DEF OwnContext
    <3>3. Good(n)
      BY <1>2, <3>2
    <3> QED
      BY <3>1, <3>3
  <2> QED
    BY <1>0, <1>2, <2>1, <2>2, <2>3
<1>3. Nat \subseteq S
  <2>1. \A n \in Nat : n \in S => n + 1 \in S
    <3>1. \A n \in Nat : n \in S /\ n + 1 \in 1 .. Last(t) => Good(n + 1)
      BY <1>2
    <3> HIDE DEF Good
    <3> QED
      BY <3>1
  <2> HIDE DEF S
  <2> QED
    BY <1>1, <2>1, SetInduction
<1> QED
  BY <1>3

\* The prefix map, the reversed map and the table of contexts afterwards.
MapBound(t, e, k, cs) ==
    LET id == engineId[e] IN
    /\ DOMAIN prefixMap' = DOMAIN prefixMap
    /\ \A i \in DOMAIN prefixMap : i # id => prefixMap'[i] = prefixMap[i]
    /\ DOMAIN (prefixMap'[id]) = DOMAIN prefixMap[id] \cup Hashes(t, k)
    /\ \A i \in CachedNow(t, k) : prefixMap'[id][Prefix(t, i)] = cs[i]
    /\ \A h \in DOMAIN prefixMap[id] \ Hashes(t, k) :
          prefixMap'[id][h] = prefixMap[id][h]

RevBound(t, e, k, cs) ==
    LET id == engineId[e] IN
    /\ DOMAIN prefixRev' = DOMAIN prefixRev
    /\ \A i \in DOMAIN prefixRev : i # id => prefixRev'[i] = prefixRev[i]
    /\ DOMAIN (prefixRev'[id]) = DOMAIN prefixRev[id] \cup Labelled(t, k, cs)
    /\ \A c \in Labelled(t, k, cs) : \E i \in CachedNow(t, k) :
          cs[i] = c /\ prefixRev'[id][c] = Prefix(t, i)
    /\ \A c \in DOMAIN prefixRev[id] \ Labelled(t, k, cs) :
          prefixRev'[id][c] = prefixRev[id][c]

TableBound(t, e, k, cs) ==
    /\ DOMAIN contexts' = DOMAIN contexts \cup Created(t, k, cs)
    /\ \A c \in DOMAIN contexts : contexts'[c] = contexts[c]
    /\ \A c \in Created(t, k, cs) \ DOMAIN contexts :
          \E i \in (k + 1) .. Last(t) :
             /\ OwnContext(t, k, i) /\ cs[i] = c
             /\ contexts'[c] = [engine |-> e,
                                parent |-> IF i = 1 THEN None ELSE cs[i - 1]]

LEMMA BindFacts ==
  ASSUME TypeOK, NEW t, NEW e, NEW k, NEW cs, Binding(t, e, k, cs)
  PROVE  MapBound(t, e, k, cs) /\ RevBound(t, e, k, cs) /\ TableBound(t, e, k, cs)
<1> DEFINE id == engineId[e]
           created == Created(t, k, cs)
           labelled == Labelled(t, k, cs)
           hashes == Hashes(t, k)
           longest(c) == CHOOSE i \in CachedNow(t, k) :
                            /\ cs[i] = c
                            /\ \A j \in CachedNow(t, k) : cs[j] = c => j <= i
           own(c) == CHOOSE j \in (k + 1) .. Last(t) :
                        OwnContext(t, k, j) /\ cs[j] = c
           newMap == [h \in DOMAIN prefixMap[id] \cup hashes |->
                        IF h \in hashes THEN cs[Len(h)] ELSE prefixMap[id][h]]
           newRev == [c \in DOMAIN prefixRev[id] \cup labelled |->
                        IF c \in labelled THEN Prefix(t, longest(c))
                                          ELSE prefixRev[id][c]]
           newCtx == [c \in DOMAIN contexts \cup created |->
                        IF c \in DOMAIN contexts THEN contexts[c]
                        ELSE [engine |-> e, parent |->
                                IF own(c) = 1 THEN None ELSE cs[own(c) - 1]]]
<1>a. t \in Tasks /\ k \in 0 .. Last(t) /\ e \in registered /\ BindContexts(t, e, k, cs)
  BY DEF Binding
<1>0. Last(t) \in Nat \ {0} /\ k \in Nat
  BY <1>a, ChainFacts
<1>1. id \in DOMAIN prefixMap /\ DOMAIN prefixRev = DOMAIN prefixMap
  BY <1>a DEF TypeOK
<1>2. /\ prefixMap' = [prefixMap EXCEPT ![id] = newMap]
      /\ prefixRev' = [prefixRev EXCEPT ![id] = newRev]
      /\ contexts' = newCtx
  BY <1>a, Zenon DEF BindContexts, Created, Labelled, Hashes
<1>3. CachedNow(t, k) \subseteq 1 .. Last(t)
  BY <1>0 DEF CachedNow
<1>4. ASSUME NEW i \in CachedNow(t, k) PROVE newMap[Prefix(t, i)] = cs[i]
  <2>1. Len(Prefix(t, i)) = i
    BY <1>a, <1>3, PrefixFacts
  <2> QED
    BY <2>1 DEF Hashes
<1>5. ASSUME NEW c \in labelled
      PROVE  longest(c) \in CachedNow(t, k) /\ cs[longest(c)] = c
  <2> DEFINE S == {i \in CachedNow(t, k) : cs[i] = c}
  <2>1. S \subseteq 1 .. Last(t) /\ S # {}
    BY <1>3 DEF Labelled
  <2>2. \E m \in S : \A j \in S : j <= m
    <3> HIDE DEF S
    <3> QED
      BY <1>0, <2>1, Greatest
  <2>3. \E i \in CachedNow(t, k) :
           /\ cs[i] = c
           /\ \A j \in CachedNow(t, k) : cs[j] = c => j <= i
    BY <2>2
  <2> QED
    BY <2>3, Zenon
<1>6. ASSUME NEW c \in created
      PROVE  own(c) \in (k + 1) .. Last(t) /\ OwnContext(t, k, own(c)) /\ cs[own(c)] = c
  <2>1. \E j \in (k + 1) .. Last(t) : OwnContext(t, k, j) /\ cs[j] = c
    <3>1. PICK j \in 1 .. Last(t) : OwnContext(t, k, j) /\ cs[j] = c
      BY Zenon DEF Created
    <3>2. j \in (k + 1) .. Last(t)
      BY <1>0, <3>1 DEF OwnContext
    <3> QED
      BY <3>1, <3>2
  <2> QED
    BY <2>1, Zenon
<1>7. /\ DOMAIN prefixMap' = DOMAIN prefixMap
      /\ DOMAIN prefixRev' = DOMAIN prefixRev
      /\ \A i \in DOMAIN prefixMap : i # id =>
            prefixMap'[i] = prefixMap[i] /\ prefixRev'[i] = prefixRev[i]
      /\ prefixMap'[id] = newMap /\ prefixRev'[id] = newRev
  <2> HIDE DEF newMap, newRev
  <2> QED
    BY <1>1, <1>2
<1>8. /\ DOMAIN newMap = DOMAIN prefixMap[id] \cup hashes
      /\ \A h \in DOMAIN prefixMap[id] \ hashes : newMap[h] = prefixMap[id][h]
  BY Zenon
<1>9. /\ DOMAIN newRev = DOMAIN prefixRev[id] \cup labelled
      /\ \A c \in labelled : newRev[c] = Prefix(t, longest(c))
      /\ \A c \in DOMAIN prefixRev[id] \ labelled : newRev[c] = prefixRev[id][c]
  <2> HIDE DEF longest, labelled
  <2> QED
    BY Zenon
<1>10. /\ DOMAIN contexts' = DOMAIN contexts \cup created
       /\ \A c \in DOMAIN contexts : contexts'[c] = contexts[c]
       /\ \A c \in created \ DOMAIN contexts : contexts'[c] =
             [engine |-> e, parent |-> IF own(c) = 1 THEN None ELSE cs[own(c) - 1]]
  <2> HIDE DEF own, created
  <2> QED
    BY <1>2, Zenon
<1>11. \A i \in CachedNow(t, k) : newMap[Prefix(t, i)] = cs[i]
  BY <1>4
<1>12. \A c \in labelled : \E i \in CachedNow(t, k) :
          cs[i] = c /\ newRev[c] = Prefix(t, i)
  <2> HIDE DEF longest, labelled, newRev
  <2> QED
    BY <1>5, <1>9
<1>13. \A c \in created \ DOMAIN contexts :
          \E i \in (k + 1) .. Last(t) :
             /\ OwnContext(t, k, i) /\ cs[i] = c
             /\ contexts'[c] = [engine |-> e,
                                parent |-> IF i = 1 THEN None ELSE cs[i - 1]]
  <2> HIDE DEF own, created
  <2> QED
    BY <1>6, <1>10
<1> HIDE DEF newMap, newRev, newCtx, longest, own
<1>14. MapBound(t, e, k, cs)
  BY <1>7, <1>8, <1>11 DEF MapBound
<1>15. RevBound(t, e, k, cs)
  BY <1>1, <1>7, <1>9, <1>12 DEF RevBound
<1>16. TableBound(t, e, k, cs)
  BY <1>10, <1>13 DEF TableBound
<1> QED
  BY <1>14, <1>15, <1>16

-----------------------------------------------------------------------------
(* The general invariant: type correctness and NeverFreedEarly *)

\* No two registered engines have the same id.
EnginesDistinct ==
    \A e, f \in registered : engineId[e] = engineId[f] => e = f

\* A context has finitely many holders, however many tasks there are.
HoldersFinite ==
    \A c \in ContextIds : IsFiniteSet(Users(c)) /\ IsFiniteSet(Pinners(c))

Holders(c) == Cardinality(Users(c)) + Cardinality(Pinners(c))

SafeInv ==
    /\ TypeOK
    /\ DOMAIN taskContexts = Tasks
    /\ EnginesDistinct
    /\ HoldersFinite
    /\ NeverFreedEarly

LEMMA HoldersFacts ==
  ASSUME HoldersFinite, NEW c \in ContextIds
  PROVE  /\ Cardinality(Users(c)) \in Nat /\ Cardinality(Pinners(c)) \in Nat
         /\ Holders(c) \in Nat
         /\ Holders(c) = 0 <=> Users(c) = {} /\ Pinners(c) = {}
         /\ Users(c) = {} => Cardinality(Users(c)) = 0
         /\ Pinners(c) = {} => Cardinality(Pinners(c)) = 0
<1>1. IsFiniteSet(Users(c)) /\ IsFiniteSet(Pinners(c))
  BY DEF HoldersFinite
<1>2. Cardinality(Users(c)) \in Nat /\ Cardinality(Pinners(c)) \in Nat
  BY <1>1, FS_CardinalityType
<1>3. /\ Cardinality(Users(c)) = 0 <=> Users(c) = {}
      /\ Cardinality(Pinners(c)) = 0 <=> Pinners(c) = {}
  BY <1>1, FS_EmptySet
<1> QED
  BY <1>2, <1>3 DEF Holders

LEMMA EarlyFacts ==
  NeverFreedEarly <=> \A c \in ContextIds : /\ refCounter[c] >= Holders(c)
                                            /\ Holders(c) > 0 => c \in DOMAIN contexts
BY DEF NeverFreedEarly, Holders

\* Adding an element to a finite set adds at most one to its cardinality, and
\* exactly one if the element is new.
LEMMA AddOne ==
  ASSUME NEW S, IsFiniteSet(S), NEW x
  PROVE  /\ IsFiniteSet(S \cup {x})
         /\ Cardinality(S) \in Nat
         /\ Cardinality(S \cup {x}) \in Nat
         /\ Cardinality(S \cup {x}) <= Cardinality(S) + 1
         /\ x \notin S => Cardinality(S \cup {x}) = Cardinality(S) + 1
<1>1. /\ IsFiniteSet(S \cup {x})
      /\ Cardinality(S \cup {x}) = IF x \in S THEN Cardinality(S) ELSE Cardinality(S) + 1
  BY FS_AddElement
<1>2. Cardinality(S) \in Nat
  BY FS_CardinalityType
<1> QED
  BY <1>1, <1>2

LEMMA DropOne ==
  ASSUME NEW S, IsFiniteSet(S), NEW x \in S
  PROVE  /\ IsFiniteSet(S \ {x})
         /\ Cardinality(S) \in Nat
         /\ Cardinality(S) > 0
         /\ Cardinality(S \ {x}) = Cardinality(S) - 1
<1>1. /\ IsFiniteSet(S \ {x})
      /\ Cardinality(S \ {x}) = IF x \in S THEN Cardinality(S) - 1 ELSE Cardinality(S)
  BY FS_RemoveElement
<1>2. Cardinality(S) \in Nat
  BY FS_CardinalityType
<1>3. Cardinality(S) # 0
  BY FS_EmptySet
<1> QED
  BY <1>1, <1>2, <1>3

\* The holders of a context after a binding: the task, and the constant
\* prefix if it pins the context.
LEMMA BindHolders ==
  ASSUME TypeOK, DOMAIN taskContexts = Tasks,
         NEW t, NEW e, NEW k, NEW cs, Binding(t, e, k, cs), NEW c \in ContextIds
  PROVE  /\ Users(c)' = IF c \in RangeOf(cs) THEN Users(c) \cup {t} ELSE Users(c)
         /\ t \notin Users(c)
         /\ Pinners(c)' = IF Pins(t, k) /\ c = cs[1] THEN Pinners(c) \cup {Chain[t][1]}
                                                     ELSE Pinners(c)
<1>a. t \in Tasks /\ phase[t] = "queued" /\ BindContexts(t, e, k, cs)
  BY DEF Binding
<1>1. taskContexts[t] = <<>>
  BY <1>a DEF TypeOK
<1>2. t \notin Users(c)
  BY <1>1 DEF Users, Held, RangeOf
<1>3. taskContexts' = [taskContexts EXCEPT ![t] = cs]
  BY <1>a DEF BindContexts
<1>4. taskContexts'[t] = cs /\ \A u \in Tasks : u # t => taskContexts'[u] = taskContexts[u]
  BY <1>a, <1>3
<1>5. Users(c)' = IF c \in RangeOf(cs) THEN Users(c) \cup {t} ELSE Users(c)
  BY <1>a, <1>2, <1>4 DEF Users, Held, RangeOf
<1>6. Pinners(c)' = IF Pins(t, k) /\ c = cs[1] THEN Pinners(c) \cup {Chain[t][1]}
                                               ELSE Pinners(c)
  <2>1. CASE ~Pins(t, k)
    <3>1. constContexts' = constContexts
      BY <1>a, <2>1 DEF BindContexts
    <3> QED
      BY <2>1, <3>1 DEF Pinners
  <2>2. CASE Pins(t, k)
    <3> DEFINE v == Chain[t][1]
    <3>1. constContexts' = [w \in DOMAIN constContexts \cup {v} |->
             (IF w \in DOMAIN constContexts THEN constContexts[w] ELSE {})
             \cup (IF w = v THEN {cs[1]} ELSE {})]
      BY <1>a, <2>2 DEF BindContexts
    <3> QED
      BY <2>2, <3>1 DEF Pinners
  <2> QED
    BY <2>1, <2>2
<1> QED
  BY <1>2, <1>5, <1>6

\* A binding adds at least one reference for the task and one for the pin.
LEMMA EnoughRefs ==
  ASSUME NEW t, NEW e, NEW k, NEW cs, Binding(t, e, k, cs), NEW c \in ContextIds
  PROVE  /\ AddedRefs(t, k, cs, c) \in Nat
         /\ c \in RangeOf(cs) => AddedRefs(t, k, cs, c) >= 1
         /\ Pins(t, k) /\ c = cs[1] => AddedRefs(t, k, cs, c) >= 2
<1> DEFINE hit == {i \in 1 .. k : cs[i] = c}
           own == IF \E i \in 1 .. Last(t) : OwnContext(t, k, i) /\ cs[i] = c
                  THEN 1 ELSE 0
           pin == IF Pins(t, k) /\ cs[1] = c THEN 1 ELSE 0
<1>0. /\ k \in Nat /\ Last(t) \in Nat \ {0}
      /\ cs \in [1 .. Last(t) -> ContextIds]
  BY ChainFacts DEF Binding
<1>1. IsFiniteSet(hit)
  <2>1. IsFiniteSet(1 .. k)
    BY <1>0, FS_Interval
  <2> QED
    BY <2>1, FS_Subset
<1>2. Cardinality(hit) \in Nat /\ (hit # {} => Cardinality(hit) # 0)
  BY <1>1, FS_CardinalityType, FS_EmptySet
<1>3. own \in {0, 1} /\ pin \in {0, 1}
  OBVIOUS
<1>4. c \in RangeOf(cs) => hit # {} \/ own = 1
  <2>1. ASSUME c \in RangeOf(cs) PROVE hit # {} \/ own = 1
    <3>1. PICK i \in 1 .. Last(t) : cs[i] = c
      BY <1>0, <2>1 DEF RangeOf
    <3>2. \/ \E j \in 1 .. k : cs[j] = cs[i]
          \/ \E j \in (k + 1) .. Last(t) : OwnContext(t, k, j) /\ cs[j] = cs[i]
      BY <1>0, Covered
    <3>3. \A j \in (k + 1) .. Last(t) : j \in 1 .. Last(t)
      BY <1>0
    <3> QED
      BY <3>1, <3>2, <3>3
  <2> QED
    BY <2>1
<1>5. Pins(t, k) /\ c = cs[1] => pin = 1 /\ own = 1
  <2>1. Pins(t, k) => OwnContext(t, k, 1) /\ 1 \in 1 .. Last(t)
    BY <1>0 DEF Pins, OwnContext
  <2> QED
    BY <2>1
<1>6. AddedRefs(t, k, cs, c) = Cardinality(hit) + own + pin
  BY DEF AddedRefs
<1> HIDE DEF hit, own, pin
<1> QED
  BY <1>2, <1>3, <1>4, <1>5, <1>6

LEMMA BindKeepsHeld ==
  ASSUME SafeInv, NEW t, NEW e, NEW k, NEW cs, Binding(t, e, k, cs)
  PROVE  /\ HoldersFinite' /\ NeverFreedEarly'
         /\ RangeOf(cs) \subseteq DOMAIN contexts'
         /\ refCounter' \in [ContextIds -> Nat]
<1>a. TypeOK /\ DOMAIN taskContexts = Tasks /\ HoldersFinite /\ NeverFreedEarly
  BY DEF SafeInv
<1>c. TableBound(t, e, k, cs)
  BY <1>a, BindFacts
<1>b. refCounter \in [ContextIds -> Nat]
  BY <1>a DEF TypeOK
<1>0. /\ k \in Nat /\ Last(t) \in Nat \ {0} /\ refCounter \in [ContextIds -> Nat]
      /\ cs \in [1 .. Last(t) -> ContextIds]
  BY <1>b, ChainFacts DEF Binding
<1>1. ASSUME NEW c \in ContextIds
      PROVE  /\ IsFiniteSet(Users(c)') /\ IsFiniteSet(Pinners(c)')
             /\ Cardinality(Users(c)') <=
                  Cardinality(Users(c)) + (IF c \in RangeOf(cs) THEN 1 ELSE 0)
             /\ Cardinality(Pinners(c)') <=
                  Cardinality(Pinners(c)) + (IF Pins(t, k) /\ c = cs[1] THEN 1 ELSE 0)
             /\ Cardinality(Users(c)') \in Nat /\ Cardinality(Pinners(c)') \in Nat
             /\ Cardinality(Users(c)) \in Nat /\ Cardinality(Pinners(c)) \in Nat
  <2>1. IsFiniteSet(Users(c)) /\ IsFiniteSet(Pinners(c))
    BY <1>a DEF HoldersFinite
  <2>2. /\ Users(c)' = IF c \in RangeOf(cs) THEN Users(c) \cup {t} ELSE Users(c)
        /\ Pinners(c)' = IF Pins(t, k) /\ c = cs[1] THEN Pinners(c) \cup {Chain[t][1]}
                                                    ELSE Pinners(c)
    BY <1>a, BindHolders
  <2>3. Cardinality(Users(c)) \in Nat /\ Cardinality(Pinners(c)) \in Nat
    BY <2>1, FS_CardinalityType
  <2>4. /\ IsFiniteSet(Users(c)') /\ Cardinality(Users(c)') \in Nat
        /\ Cardinality(Users(c)') <=
             Cardinality(Users(c)) + (IF c \in RangeOf(cs) THEN 1 ELSE 0)
    <3>1. CASE c \in RangeOf(cs)
      BY <2>1, <2>2, <3>1, AddOne
    <3>2. CASE c \notin RangeOf(cs)
      BY <2>1, <2>2, <2>3, <3>2
    <3> QED
      BY <3>1, <3>2
  <2>5. /\ IsFiniteSet(Pinners(c)') /\ Cardinality(Pinners(c)') \in Nat
        /\ Cardinality(Pinners(c)') <=
             Cardinality(Pinners(c)) + (IF Pins(t, k) /\ c = cs[1] THEN 1 ELSE 0)
    <3>1. CASE Pins(t, k) /\ c = cs[1]
      <4>1. /\ IsFiniteSet(Pinners(c) \cup {Chain[t][1]})
            /\ Cardinality(Pinners(c) \cup {Chain[t][1]}) \in Nat
            /\ Cardinality(Pinners(c) \cup {Chain[t][1]}) <= Cardinality(Pinners(c)) + 1
        BY <2>1, AddOne
      <4> QED
        BY <2>2, <3>1, <4>1
    <3>2. CASE ~(Pins(t, k) /\ c = cs[1])
      BY <2>1, <2>2, <2>3, <3>2
    <3> QED
      BY <3>1, <3>2
  <2> QED
    BY <2>1, <2>3, <2>4, <2>5
<1>2. HoldersFinite'
  <2>1. \A c \in ContextIds : IsFiniteSet(Users(c)') /\ IsFiniteSet(Pinners(c)')
    BY <1>1
  <2> QED
    BY <2>1 DEF HoldersFinite
<1>3. RangeOf(cs) \subseteq DOMAIN contexts'
  <2>1. DOMAIN contexts' = DOMAIN contexts \cup Created(t, k, cs)
    BY <1>c DEF TableBound
  <2>2. SUFFICES ASSUME NEW i \in 1 .. Last(t) PROVE cs[i] \in DOMAIN contexts'
    BY <1>0 DEF RangeOf
  <2>3. CASE \E j \in 1 .. k : cs[j] = cs[i]
    <3>1. PICK j \in 1 .. k : cs[j] = cs[i]
      BY <2>3
    <3>2. /\ cs[j] = prefixMap[engineId[e]][Prefix(t, j)]
          /\ prefixMap[engineId[e]][Prefix(t, j)] \in DOMAIN contexts
      BY DEF Binding, Assignment
    <3> QED
      BY <2>1, <3>1, <3>2
  <2>4. CASE \E j \in (k + 1) .. Last(t) : OwnContext(t, k, j) /\ cs[j] = cs[i]
    <3>1. PICK j \in (k + 1) .. Last(t) : OwnContext(t, k, j) /\ cs[j] = cs[i]
      BY <2>4
    <3>2. j \in 1 .. Last(t)
      BY <1>0
    <3> QED
      BY <2>1, <3>1, <3>2 DEF Created
  <2>5. \/ \E j \in 1 .. k : cs[j] = cs[i]
        \/ \E j \in (k + 1) .. Last(t) : OwnContext(t, k, j) /\ cs[j] = cs[i]
    BY Covered
  <2> QED
    BY <2>3, <2>4, <2>5
<1>4. refCounter' = [c \in ContextIds |-> refCounter[c] + AddedRefs(t, k, cs, c)]
  BY DEF Binding, BindContexts
<1>5. refCounter' \in [ContextIds -> Nat]
  <2>1. \A c \in ContextIds : AddedRefs(t, k, cs, c) \in Nat
    BY EnoughRefs
  <2>2. \A c \in ContextIds : refCounter[c] + AddedRefs(t, k, cs, c) \in Nat
    BY <1>0, <2>1
  <2> QED
    BY <1>4, <2>2
<1>6. ASSUME NEW c \in ContextIds
      PROVE  refCounter'[c] >= Cardinality(Users(c)') + Cardinality(Pinners(c)')
  <2> DEFINE u == Cardinality(Users(c))
             p == Cardinality(Pinners(c))
             du == IF c \in RangeOf(cs) THEN 1 ELSE 0
             dp == IF Pins(t, k) /\ c = cs[1] THEN 1 ELSE 0
             a == AddedRefs(t, k, cs, c)
  <2>1. refCounter'[c] = refCounter[c] + a /\ refCounter[c] \in Nat /\ a \in Nat
    BY <1>0, <1>4, EnoughRefs
  <2>2. refCounter[c] >= u + p /\ u \in Nat /\ p \in Nat
    BY <1>a, <1>1 DEF NeverFreedEarly
  <2>3. a >= du + dp /\ du \in Nat /\ dp \in Nat
    <3>1. /\ c \in RangeOf(cs) => a >= 1
          /\ Pins(t, k) /\ c = cs[1] => a >= 2
          /\ a \in Nat
      BY EnoughRefs
    <3>2. c = cs[1] => c \in RangeOf(cs)
      BY <1>0 DEF RangeOf
    <3> HIDE DEF a
    <3> QED
      BY <3>1, <3>2
  <2>4. Cardinality(Users(c)') <= u + du /\ Cardinality(Users(c)') \in Nat
    BY <1>1
  <2>5. Cardinality(Pinners(c)') <= p + dp /\ Cardinality(Pinners(c)') \in Nat
    BY <1>1
  <2> HIDE DEF u, p, du, dp, a
  <2> QED
    BY <2>1, <2>2, <2>3, <2>4, <2>5
<1>7. ASSUME NEW c \in ContextIds, c \notin DOMAIN contexts'
      PROVE  Cardinality(Users(c)') + Cardinality(Pinners(c)') = 0
  <2>1. DOMAIN contexts \subseteq DOMAIN contexts'
    BY <1>c DEF TableBound
  <2>2. c \notin DOMAIN contexts /\ c \notin RangeOf(cs)
    BY <1>3, <1>7, <2>1
  <2>3. c # cs[1]
    BY <1>0, <2>2 DEF RangeOf
  <2>4. Cardinality(Users(c)) + Cardinality(Pinners(c)) = 0
    BY <1>a, <1>1, <2>2 DEF NeverFreedEarly
  <2> QED
    BY <1>1, <2>2, <2>3, <2>4
<1>8. NeverFreedEarly'
  <2>1. \A c \in ContextIds :
           /\ refCounter'[c] >= Cardinality(Users(c)') + Cardinality(Pinners(c)')
           /\ Cardinality(Users(c)') + Cardinality(Pinners(c)') > 0
                => c \in DOMAIN contexts'
    <3> SUFFICES ASSUME NEW c \in ContextIds
                 PROVE  c \notin DOMAIN contexts' =>
                          ~(Cardinality(Users(c)') + Cardinality(Pinners(c)') > 0)
      BY <1>6
    <3> QED
      BY <1>7
  <2> QED
    BY <2>1 DEF NeverFreedEarly
<1> QED
  BY <1>2, <1>3, <1>5, <1>8

\* The holders of a context after a task, or a constant prefix, has given
\* back the contexts of S.
GivenBack(S) ==
    \A c \in ContextIds :
        /\ IsFiniteSet(Users(c)') /\ IsFiniteSet(Pinners(c)')
        /\ Cardinality(Users(c)') + Cardinality(Pinners(c)') =
             Holders(c) - (IF c \in S THEN 1 ELSE 0)
        /\ c \in S => Holders(c) >= 1

LEMMA TaskGivesBack ==
  ASSUME SafeInv, NEW t \in Tasks, phase[t] = "bound",
         taskContexts' = [taskContexts EXCEPT ![t] = <<>>],
         UNCHANGED constContexts
  PROVE  GivenBack(Held(t)) /\ Held(t) \subseteq ContextIds
<1> USE DEF SafeInv
<1>1. taskContexts'[t] = <<>> /\ \A u \in Tasks : u # t => taskContexts'[u] = taskContexts[u]
  OBVIOUS
<1>2. ASSUME NEW c \in ContextIds
      PROVE  /\ IsFiniteSet(Users(c)') /\ IsFiniteSet(Pinners(c)')
             /\ Cardinality(Users(c)') + Cardinality(Pinners(c)') =
                  Holders(c) - (IF c \in Held(t) THEN 1 ELSE 0)
             /\ c \in Held(t) => Holders(c) >= 1
  <2>1. Users(c)' = Users(c) \ {t}
    BY <1>1 DEF Users, Held, RangeOf
  <2>2. Pinners(c)' = Pinners(c)
    BY DEF Pinners
  <2>3. IsFiniteSet(Users(c)) /\ IsFiniteSet(Pinners(c))
    BY DEF HoldersFinite
  <2>4. Cardinality(Users(c)) \in Nat /\ Cardinality(Pinners(c)) \in Nat
    BY <2>3, FS_CardinalityType
  <2>5. CASE c \in Held(t)
    <3>1. t \in Users(c)
      BY <2>5 DEF Users
    <3>2. /\ IsFiniteSet(Users(c)') /\ Cardinality(Users(c)) > 0
          /\ Cardinality(Users(c)') = Cardinality(Users(c)) - 1
      BY <2>1, <2>3, <3>1, DropOne
    <3> QED
      BY <2>2, <2>3, <2>4, <2>5, <3>2 DEF Holders
  <2>6. CASE c \notin Held(t)
    <3>1. Users(c)' = Users(c)
      BY <2>1, <2>6 DEF Users
    <3> QED
      BY <2>2, <2>3, <2>4, <2>6, <3>1 DEF Holders
  <2> QED
    BY <2>5, <2>6
<1>3. Held(t) \subseteq ContextIds
  BY DEF TypeOK, Held, RangeOf
<1>4. GivenBack(Held(t))
  BY <1>2 DEF GivenBack
<1> QED
  BY <1>3, <1>4

LEMMA PinGivesBack ==
  ASSUME SafeInv, NEW v \in DOMAIN constContexts,
         constContexts' = [w \in DOMAIN constContexts \ {v} |-> constContexts[w]],
         UNCHANGED taskContexts
  PROVE  GivenBack(constContexts[v]) /\ constContexts[v] \subseteq ContextIds
<1> USE DEF SafeInv
<1>2. ASSUME NEW c \in ContextIds
      PROVE  /\ IsFiniteSet(Users(c)') /\ IsFiniteSet(Pinners(c)')
             /\ Cardinality(Users(c)') + Cardinality(Pinners(c)') =
                  Holders(c) - (IF c \in constContexts[v] THEN 1 ELSE 0)
             /\ c \in constContexts[v] => Holders(c) >= 1
  <2>1. Pinners(c)' = Pinners(c) \ {v}
    BY DEF Pinners
  <2>2. Users(c)' = Users(c)
    BY DEF Users, Held, RangeOf
  <2>3. IsFiniteSet(Users(c)) /\ IsFiniteSet(Pinners(c))
    BY DEF HoldersFinite
  <2>4. Cardinality(Users(c)) \in Nat /\ Cardinality(Pinners(c)) \in Nat
    BY <2>3, FS_CardinalityType
  <2>5. CASE c \in constContexts[v]
    <3>1. v \in Pinners(c)
      BY <2>5 DEF Pinners
    <3>2. /\ IsFiniteSet(Pinners(c)') /\ Cardinality(Pinners(c)) > 0
          /\ Cardinality(Pinners(c)') = Cardinality(Pinners(c)) - 1
      BY <2>1, <2>3, <3>1, DropOne
    <3> QED
      BY <2>2, <2>3, <2>4, <2>5, <3>2 DEF Holders
  <2>6. CASE c \notin constContexts[v]
    <3>1. Pinners(c)' = Pinners(c)
      BY <2>1, <2>6 DEF Pinners
    <3> QED
      BY <2>2, <2>3, <2>4, <2>6, <3>1 DEF Holders
  <2> QED
    BY <2>5, <2>6
<1>3. constContexts[v] \subseteq ContextIds
  BY DEF TypeOK
<1>4. GivenBack(constContexts[v])
  BY <1>2 DEF GivenBack
<1> QED
  BY <1>3, <1>4

\* What freeing changes: the counters, and the released contexts.
LEMMA FreeKeepsHeld ==
  ASSUME SafeInv, NEW S, S \subseteq ContextIds, GivenBack(S),
         FreeContexts(S)
  PROVE  /\ HoldersFinite' /\ NeverFreedEarly'
         /\ refCounter' \in [ContextIds -> Nat]
         /\ \A c \in ContextIds : c \in Released(S) => Holders(c) = 1 /\ c \in DOMAIN contexts
<1> USE DEF SafeInv
<1>1. /\ refCounter' = [c \in ContextIds |->
                          IF c \in S THEN refCounter[c] - 1 ELSE refCounter[c]]
      /\ contexts' = [c \in DOMAIN contexts \ Released(S) |-> contexts[c]]
      /\ refCounter \in [ContextIds -> Nat]
  BY DEF FreeContexts, TypeOK
<1>2. HoldersFinite'
  <2>1. \A c \in ContextIds : IsFiniteSet(Users(c)') /\ IsFiniteSet(Pinners(c)')
    BY DEF GivenBack
  <2> QED
    BY <2>1 DEF HoldersFinite
<1>3. ASSUME NEW c \in ContextIds
      PROVE  /\ Holders(c) \in Nat /\ refCounter[c] >= Holders(c)
             /\ Holders(c) > 0 => c \in DOMAIN contexts
             /\ c \in S => Holders(c) >= 1
             /\ Cardinality(Users(c)') + Cardinality(Pinners(c)') =
                  Holders(c) - (IF c \in S THEN 1 ELSE 0)
  BY HoldersFacts, EarlyFacts DEF GivenBack
<1>4. ASSUME NEW c \in ContextIds, c \in Released(S)
      PROVE  Holders(c) = 1 /\ c \in DOMAIN contexts
  <2>1. refCounter[c] <= 1 /\ c \in S /\ refCounter[c] \in Nat
    BY <1>1, <1>4 DEF Released
  <2> QED
    BY <1>3, <2>1
<1>5. refCounter' \in [ContextIds -> Nat]
  <2>1. ASSUME NEW c \in ContextIds
        PROVE  (IF c \in S THEN refCounter[c] - 1 ELSE refCounter[c]) \in Nat
    <3>1. refCounter[c] \in Nat
      BY <1>1
    <3> QED
      BY <1>3, <3>1
  <2> QED
    BY <1>1, <2>1
<1>6. NeverFreedEarly'
  <2>1. \A c \in ContextIds :
           /\ refCounter'[c] >= Cardinality(Users(c)') + Cardinality(Pinners(c)')
           /\ Cardinality(Users(c)') + Cardinality(Pinners(c)') > 0
                => c \in DOMAIN contexts'
    <3> TAKE c \in ContextIds
    <3> DEFINE n == Cardinality(Users(c)') + Cardinality(Pinners(c)')
    <3>1. /\ Holders(c) \in Nat /\ refCounter[c] >= Holders(c) /\ refCounter[c] \in Nat
          /\ n = Holders(c) - (IF c \in S THEN 1 ELSE 0)
          /\ c \in S => Holders(c) >= 1
          /\ refCounter'[c] = IF c \in S THEN refCounter[c] - 1 ELSE refCounter[c]
      BY <1>1, <1>3
    <3>2. refCounter'[c] >= n
      <4> HIDE DEF n
      <4> QED
        BY <3>1
    <3>3. n > 0 => c \in DOMAIN contexts'
      <4>1. ASSUME n > 0 PROVE c \in DOMAIN contexts /\ c \notin Released(S)
        <5>1. Holders(c) > 0
          <6> HIDE DEF n
          <6> QED
            BY <3>1, <4>1
        <5>2. c \in DOMAIN contexts
          BY <1>3, <5>1
        <5>3. c \in Released(S) => n = 0
          <6>1. c \in Released(S) => c \in S
            BY DEF Released
          <6> HIDE DEF n
          <6> QED
            BY <1>4, <3>1, <6>1
        <5>4. c \notin Released(S)
          <6> HIDE DEF n
          <6> QED
            BY <4>1, <5>3
        <5> QED
          BY <5>2, <5>4
      <4> HIDE DEF n
      <4> QED
        BY <1>1, <4>1
    <3> QED
      BY <3>2, <3>3
  <2> QED
    BY <2>1 DEF NeverFreedEarly
<1> QED
  BY <1>2, <1>4, <1>5, <1>6

\* The conjuncts of TypeOK, grouped by the tables they are about.
TasksTyped ==
    /\ phase \in [Tasks -> {"new", "queued", "bound", "freed"}]
    /\ fused \subseteq FuseFill
    /\ \A t \in Tasks :
          IF phase[t] = "bound"
          THEN taskContexts[t] \in [1..Last(t) -> ContextIds]
          ELSE taskContexts[t] = <<>>
TableTyped ==
    /\ DOMAIN contexts \subseteq ContextIds
    /\ \A c \in DOMAIN contexts :
          contexts[c] \in [engine : Engines, parent : ContextIds \cup {None}]
CachesTyped ==
    /\ DOMAIN prefixMap = {engineId[e] : e \in registered}
    /\ DOMAIN prefixRev = DOMAIN prefixMap
    /\ \A i \in DOMAIN prefixMap :
          /\ DOMAIN prefixMap[i] \subseteq Seq(Vars)
          /\ \A h \in DOMAIN prefixMap[i] : prefixMap[i][h] \in ContextIds
          /\ DOMAIN prefixRev[i] \subseteq ContextIds
          /\ \A c \in DOMAIN prefixRev[i] : prefixRev[i][c] \in Seq(Vars)
ConstsTyped ==
    /\ constVars \subseteq ConstVars
    /\ DOMAIN constContexts \subseteq ConstVars
    /\ \A v \in DOMAIN constContexts : constContexts[v] \subseteq ContextIds
EnginesTyped ==
    /\ engineId \in [Engines -> EngineIds \cup {None}]
    /\ registered \subseteq Engines
    /\ \A e \in registered : engineId[e] \in EngineIds
    /\ alive \subseteq Engines
DownTyped ==
    down \in {"no", "stale prefix", "engine gone", "no constant prefix contexts"}

LEMMA TypeParts ==
  TypeOK <=> /\ TasksTyped /\ TableTyped /\ CachesTyped /\ ConstsTyped
             /\ EnginesTyped /\ DownTyped
             /\ refCounter \in [ContextIds -> Nat]
BY DEF TypeOK, TasksTyped, TableTyped, CachesTyped, ConstsTyped, EnginesTyped,
       DownTyped

LEMMA TypePartsPrime ==
  ASSUME TasksTyped', TableTyped', CachesTyped', ConstsTyped', EnginesTyped',
         DownTyped', refCounter' \in [ContextIds -> Nat]
  PROVE  TypeOK'
BY DEF TypeOK, TasksTyped, TableTyped, CachesTyped, ConstsTyped, EnginesTyped,
       DownTyped

LEMMA BindTypes ==
  ASSUME TypeOK, NEW t, NEW e, NEW k, NEW cs, Binding(t, e, k, cs),
         UNCHANGED <<constVars, registered, engineId>>
  PROVE  CachesTyped' /\ TableTyped' /\ ConstsTyped'
<1>a. MapBound(t, e, k, cs) /\ RevBound(t, e, k, cs) /\ TableBound(t, e, k, cs)
  BY BindFacts
<1>b. /\ t \in Tasks /\ e \in registered /\ k \in 0 .. Last(t)
      /\ cs \in [1 .. Last(t) -> ContextIds] /\ Last(t) \in Nat \ {0}
  BY ChainFacts DEF Binding
<1>c. TableTyped /\ CachesTyped /\ ConstsTyped /\ EnginesTyped
  BY TypeParts
<1>d. CachedNow(t, k) \subseteq 1 .. Last(t)
  BY <1>b DEF CachedNow
<1>1. CachesTyped'
  <2>1. DOMAIN prefixMap' = {engineId'[f] : f \in registered'} /\ DOMAIN prefixRev' = DOMAIN prefixMap'
    BY <1>a, <1>c DEF MapBound, RevBound, CachesTyped
  <2>2. ASSUME NEW i \in DOMAIN prefixMap', i # engineId[e]
        PROVE  /\ DOMAIN (prefixMap'[i]) \subseteq Seq(Vars)
               /\ \A h \in DOMAIN (prefixMap'[i]) : prefixMap'[i][h] \in ContextIds
               /\ DOMAIN (prefixRev'[i]) \subseteq ContextIds
               /\ \A c \in DOMAIN (prefixRev'[i]) : prefixRev'[i][c] \in Seq(Vars)
    BY <1>a, <1>c, <2>2 DEF MapBound, RevBound, CachesTyped
  <2> DEFINE id == engineId[e]
  <2>3. id \in DOMAIN prefixMap /\ id \in DOMAIN prefixRev
    BY <1>b, <1>c DEF CachesTyped
  <2>4. /\ DOMAIN prefixMap[id] \subseteq Seq(Vars)
        /\ \A h \in DOMAIN prefixMap[id] : prefixMap[id][h] \in ContextIds
        /\ DOMAIN prefixRev[id] \subseteq ContextIds
        /\ \A c \in DOMAIN prefixRev[id] : prefixRev[id][c] \in Seq(Vars)
    BY <1>c, <2>3 DEF CachesTyped
  <2>5. \A i \in CachedNow(t, k) : Prefix(t, i) \in Seq(Vars) /\ cs[i] \in ContextIds
    BY <1>b, <1>d, PrefixFacts
  <2>6. /\ DOMAIN (prefixMap'[id]) \subseteq Seq(Vars)
        /\ \A h \in DOMAIN (prefixMap'[id]) : prefixMap'[id][h] \in ContextIds
    <3>1. /\ DOMAIN (prefixMap'[id]) = DOMAIN prefixMap[id] \cup Hashes(t, k)
          /\ \A i \in CachedNow(t, k) : prefixMap'[id][Prefix(t, i)] = cs[i]
          /\ \A h \in DOMAIN prefixMap[id] \ Hashes(t, k) :
                prefixMap'[id][h] = prefixMap[id][h]
      BY <1>a DEF MapBound
    <3>2. \A h \in Hashes(t, k) : h \in Seq(Vars) /\ prefixMap'[id][h] \in ContextIds
      BY <2>5, <3>1 DEF Hashes
    <3> QED
      BY <2>4, <3>1, <3>2
  <2>7. /\ DOMAIN (prefixRev'[id]) \subseteq ContextIds
        /\ \A c \in DOMAIN (prefixRev'[id]) : prefixRev'[id][c] \in Seq(Vars)
    <3>1. /\ DOMAIN (prefixRev'[id]) = DOMAIN prefixRev[id] \cup Labelled(t, k, cs)
          /\ \A c \in Labelled(t, k, cs) : \E i \in CachedNow(t, k) :
                cs[i] = c /\ prefixRev'[id][c] = Prefix(t, i)
          /\ \A c \in DOMAIN prefixRev[id] \ Labelled(t, k, cs) :
                prefixRev'[id][c] = prefixRev[id][c]
      BY <1>a DEF RevBound
    <3>2. \A c \in Labelled(t, k, cs) : c \in ContextIds /\ prefixRev'[id][c] \in Seq(Vars)
      BY <2>5, <3>1
    <3> QED
      BY <2>4, <3>1, <3>2
  <2> HIDE DEF id
  <2>8. \A i \in DOMAIN prefixMap' :
               /\ DOMAIN (prefixMap'[i]) \subseteq Seq(Vars)
               /\ \A h \in DOMAIN (prefixMap'[i]) : prefixMap'[i][h] \in ContextIds
               /\ DOMAIN (prefixRev'[i]) \subseteq ContextIds
               /\ \A c \in DOMAIN (prefixRev'[i]) : prefixRev'[i][c] \in Seq(Vars)
    BY <2>2, <2>6, <2>7 DEF id
  <2> QED
    BY <2>1, <2>8 DEF CachesTyped
<1>2. TableTyped'
  <2>1. DOMAIN contexts \subseteq ContextIds /\ \A c \in DOMAIN contexts :
           contexts[c] \in [engine : Engines, parent : ContextIds \cup {None}]
    BY <1>c DEF TableTyped
  <2>2. Created(t, k, cs) \subseteq ContextIds
    BY <1>b DEF Created
  <2>3. ASSUME NEW c \in Created(t, k, cs) \ DOMAIN contexts
        PROVE  contexts'[c] \in [engine : Engines, parent : ContextIds \cup {None}]
    <3>1. PICK i \in (k + 1) .. Last(t) :
             contexts'[c] = [engine |-> e, parent |-> IF i = 1 THEN None ELSE cs[i - 1]]
      BY <1>a DEF TableBound
    <3>2. e \in Engines
      BY <1>b, <1>c DEF EnginesTyped
    <3>3. i # 1 => i - 1 \in 1 .. Last(t)
      BY <1>b
    <3>4. (IF i = 1 THEN None ELSE cs[i - 1]) \in ContextIds \cup {None}
      BY <1>b, <3>3
    <3> QED
      BY <3>1, <3>2, <3>4
  <2>4. /\ DOMAIN contexts' \subseteq ContextIds
        /\ \A c \in DOMAIN contexts' :
             contexts'[c] \in [engine : Engines, parent : ContextIds \cup {None}]
    BY <1>a, <2>1, <2>2, <2>3 DEF TableBound
  <2> QED
    BY <2>4 DEF TableTyped
<1>3. ConstsTyped'
  <2>1. CASE ~Pins(t, k)
    <3>1. constContexts' = constContexts
      BY <2>1 DEF Binding, BindContexts
    <3> QED
      BY <1>c, <3>1 DEF ConstsTyped
  <2>2. CASE Pins(t, k)
    <3> DEFINE v == Chain[t][1]
    <3>1. constContexts' = [w \in DOMAIN constContexts \cup {v} |->
             (IF w \in DOMAIN constContexts THEN constContexts[w] ELSE {})
             \cup (IF w = v THEN {cs[1]} ELSE {})]
      BY <2>2 DEF Binding, BindContexts
    <3>2. v \in ConstVars /\ cs[1] \in ContextIds
      BY <1>b, <2>2 DEF Pins
    <3> QED
      BY <1>c, <3>1, <3>2 DEF ConstsTyped
  <2> QED
    BY <2>1, <2>2
<1> QED
  BY <1>1, <1>2, <1>3

LEMMA FreeTypes ==
  ASSUME TypeOK, NEW S, FreeContexts(S), UNCHANGED <<registered, engineId>>
  PROVE  CachesTyped' /\ TableTyped'
<1>c. TableTyped /\ CachesTyped
  BY TypeParts
<1>1. TableTyped'
  BY <1>c DEF TableTyped, FreeContexts
<1> DEFINE goneOn(i) == {c \in Released(S) : engineId[contexts[c].engine] = i}
           unhashed(i) == {prefixRev[i][c] : c \in goneOn(i) \cap DOMAIN prefixRev[i]}
<1>2. /\ prefixMap' = [i \in DOMAIN prefixMap |->
           [h \in DOMAIN prefixMap[i] \ unhashed(i) |-> prefixMap[i][h]]]
      /\ prefixRev' = [i \in DOMAIN prefixRev |->
           [c \in DOMAIN prefixRev[i] \ goneOn(i) |-> prefixRev[i][c]]]
  BY DEF FreeContexts
<1> HIDE DEF goneOn, unhashed
<1>3. CachesTyped'
  <2>1. DOMAIN prefixMap' = {engineId'[f] : f \in registered'} /\ DOMAIN prefixRev' = DOMAIN prefixMap'
    BY <1>2, <1>c DEF CachesTyped
  <2>2. ASSUME NEW i \in DOMAIN prefixMap'
        PROVE  /\ DOMAIN (prefixMap'[i]) \subseteq Seq(Vars)
               /\ \A h \in DOMAIN (prefixMap'[i]) : prefixMap'[i][h] \in ContextIds
               /\ DOMAIN (prefixRev'[i]) \subseteq ContextIds
               /\ \A c \in DOMAIN (prefixRev'[i]) : prefixRev'[i][c] \in Seq(Vars)
    BY <1>c, <1>2 DEF CachesTyped
  <2> QED
    BY <2>1, <2>2 DEF CachesTyped
<1> QED
  BY <1>1, <1>3

\* A step that leaves the tables of contexts and their holders alone.
LEMMA HeldUnchanged ==
  ASSUME HoldersFinite, NeverFreedEarly,
         UNCHANGED <<taskContexts, contexts, refCounter, constContexts>>
  PROVE  HoldersFinite' /\ NeverFreedEarly'
<1>1. \A c : Users(c)' = Users(c) /\ Pinners(c)' = Pinners(c)
  BY DEF Users, Pinners, Held, RangeOf
<1>2. HoldersFinite'
  <2>1. \A c \in ContextIds : IsFiniteSet(Users(c)') /\ IsFiniteSet(Pinners(c)')
    BY <1>1 DEF HoldersFinite
  <2> QED
    BY <2>1 DEF HoldersFinite
<1>3. NeverFreedEarly'
  <2>1. \A c \in ContextIds :
           /\ refCounter'[c] >= Cardinality(Users(c)') + Cardinality(Pinners(c)')
           /\ Cardinality(Users(c)') + Cardinality(Pinners(c)') > 0
                => c \in DOMAIN contexts'
    BY <1>1 DEF NeverFreedEarly
  <2> QED
    BY <2>1 DEF NeverFreedEarly
<1> QED
  BY <1>2, <1>3

LEMMA RegisterSafe ==
  ASSUME SafeInv, NEW e \in Engines, NEW id \in EngineIds, RegisterEngine(e, id)
  PROVE  SafeInv'
<1>a. /\ TasksTyped /\ TableTyped /\ CachesTyped /\ ConstsTyped /\ EnginesTyped
      /\ DownTyped /\ refCounter \in [ContextIds -> Nat]
      /\ DOMAIN taskContexts = Tasks
      /\ EnginesDistinct /\ HoldersFinite /\ NeverFreedEarly
  BY TypeParts DEF SafeInv
<1>b. /\ engineId[e] = None
      /\ \A f \in registered : engineId[f] # id
      /\ engineId' = [engineId EXCEPT ![e] = id]
      /\ registered' = registered \cup {e}
      /\ prefixMap' = [i \in DOMAIN prefixMap \cup {id} |->
                       IF i = id THEN [h \in {} |-> None] ELSE prefixMap[i]]
      /\ prefixRev' = [i \in DOMAIN prefixRev \cup {id} |->
                       IF i = id THEN [c \in {} |-> None] ELSE prefixRev[i]]
      /\ UNCHANGED <<phase, fused, taskContexts, contexts, refCounter,
                     constVars, constContexts, alive, down>>
  BY DEF RegisterEngine, taskVars, ctxVars, constPVars
<1>c. e \notin registered
  BY <1>a, <1>b, ContextAssumption DEF EnginesTyped
<1>d. engineId'[e] = id /\ \A f \in registered : engineId'[f] = engineId[f]
  BY <1>a, <1>b, <1>c DEF EnginesTyped
<1>1. EnginesTyped'
  BY <1>a, <1>b, <1>d DEF EnginesTyped
<1>2. EnginesDistinct'
  BY <1>a, <1>b, <1>d DEF EnginesDistinct
<1>3. CachesTyped'
  <2>1. DOMAIN prefixMap' = {engineId'[f] : f \in registered'}
    <3>1. DOMAIN prefixMap' = {engineId[f] : f \in registered} \cup {id}
      BY <1>a, <1>b DEF CachesTyped
    <3>2. {engineId'[f] : f \in registered'} = {engineId[f] : f \in registered} \cup {id}
      BY <1>b, <1>d
    <3> QED
      BY <3>1, <3>2
  <2>2. DOMAIN prefixRev' = DOMAIN prefixMap'
    BY <1>a, <1>b DEF CachesTyped
  <2>3. ASSUME NEW i \in DOMAIN prefixMap'
        PROVE  /\ DOMAIN (prefixMap'[i]) \subseteq Seq(Vars)
               /\ \A h \in DOMAIN (prefixMap'[i]) : prefixMap'[i][h] \in ContextIds
               /\ DOMAIN (prefixRev'[i]) \subseteq ContextIds
               /\ \A c \in DOMAIN (prefixRev'[i]) : prefixRev'[i][c] \in Seq(Vars)
    <3>1. CASE i = id
      <4>1. prefixMap'[i] = [h \in {} |-> None] /\ prefixRev'[i] = [c \in {} |-> None]
        BY <1>a, <1>b, <3>1
      <4> QED
        BY <4>1
    <3>2. CASE i # id
      <4>1. i \in DOMAIN prefixMap /\ prefixMap'[i] = prefixMap[i] /\ prefixRev'[i] = prefixRev[i]
        BY <1>a, <1>b, <3>2 DEF CachesTyped
      <4> QED
        BY <1>a, <4>1 DEF CachesTyped
    <3> QED
      BY <3>1, <3>2
  <2> QED
    BY <2>1, <2>2, <2>3 DEF CachesTyped
<1>4. TasksTyped' /\ TableTyped' /\ ConstsTyped' /\ DownTyped'
  BY <1>a, <1>b DEF TasksTyped, TableTyped, ConstsTyped, DownTyped
<1>5. HoldersFinite' /\ NeverFreedEarly'
  BY <1>a, <1>b, HeldUnchanged
<1>6. TypeOK'
  BY <1>a, <1>b, <1>1, <1>3, <1>4, TypePartsPrime
<1> QED
  BY <1>a, <1>b, <1>2, <1>5, <1>6 DEF SafeInv

LEMMA RemoveSafe ==
  ASSUME SafeInv, NEW e \in Engines, RemoveEngine(e)
  PROVE  SafeInv'
<1>a. /\ TasksTyped /\ TableTyped /\ CachesTyped /\ ConstsTyped /\ EnginesTyped
      /\ DownTyped /\ refCounter \in [ContextIds -> Nat]
      /\ DOMAIN taskContexts = Tasks
      /\ EnginesDistinct /\ HoldersFinite /\ NeverFreedEarly
  BY TypeParts DEF SafeInv
<1>b. /\ e \in registered
      /\ registered' = registered \ {e}
      /\ prefixMap' = [i \in DOMAIN prefixMap \ {engineId[e]} |-> prefixMap[i]]
      /\ prefixRev' = [i \in DOMAIN prefixRev \ {engineId[e]} |-> prefixRev[i]]
      /\ UNCHANGED <<phase, fused, taskContexts, contexts, refCounter,
                     constVars, constContexts, engineId, alive, down>>
  BY DEF RemoveEngine, taskVars, ctxVars, constPVars
<1>1. EnginesTyped' /\ EnginesDistinct'
  BY <1>a, <1>b DEF EnginesTyped, EnginesDistinct
<1>2. CachesTyped'
  <2>1. DOMAIN prefixMap' = {engineId'[f] : f \in registered'}
    <3>1. DOMAIN prefixMap' = {engineId[f] : f \in registered} \ {engineId[e]}
      BY <1>a, <1>b DEF CachesTyped
    <3>2. {engineId'[f] : f \in registered'} = {engineId[f] : f \in registered} \ {engineId[e]}
      BY <1>a, <1>b DEF EnginesDistinct
    <3> QED
      BY <3>1, <3>2
  <2>2. DOMAIN prefixRev' = DOMAIN prefixMap'
    BY <1>a, <1>b DEF CachesTyped
  <2>3. \A i \in DOMAIN prefixMap' :
           i \in DOMAIN prefixMap /\ prefixMap'[i] = prefixMap[i] /\ prefixRev'[i] = prefixRev[i]
    BY <1>a, <1>b DEF CachesTyped
  <2>4. ASSUME NEW i \in DOMAIN prefixMap'
        PROVE  /\ DOMAIN (prefixMap'[i]) \subseteq Seq(Vars)
               /\ \A h \in DOMAIN (prefixMap'[i]) : prefixMap'[i][h] \in ContextIds
               /\ DOMAIN (prefixRev'[i]) \subseteq ContextIds
               /\ \A c \in DOMAIN (prefixRev'[i]) : prefixRev'[i][c] \in Seq(Vars)
    BY <1>a, <2>3 DEF CachesTyped
  <2> QED
    BY <2>1, <2>2, <2>4 DEF CachesTyped
<1>4. TasksTyped' /\ TableTyped' /\ ConstsTyped' /\ DownTyped'
  BY <1>a, <1>b DEF TasksTyped, TableTyped, ConstsTyped, DownTyped
<1>5. HoldersFinite' /\ NeverFreedEarly'
  BY <1>a, <1>b, HeldUnchanged
<1>6. TypeOK'
  BY <1>a, <1>b, <1>1, <1>2, <1>4, TypePartsPrime
<1> QED
  BY <1>a, <1>b, <1>1, <1>5, <1>6 DEF SafeInv

\* EngineDies, SubmitRequest and the steps that end the process: only the
\* phase of a task, the fused tasks, the constant prefix namespace, the live
\* engines and `down` change.
LEMMA QuietSafe ==
  ASSUME SafeInv, TasksTyped', constVars' \subseteq ConstVars,
         alive' \subseteq Engines, DownTyped',
         UNCHANGED <<taskContexts, ctxVars, cacheVars, constContexts,
                     engineId, registered>>
  PROVE  SafeInv'
<1>a. /\ TableTyped /\ CachesTyped /\ ConstsTyped /\ EnginesTyped
      /\ refCounter \in [ContextIds -> Nat]
      /\ DOMAIN taskContexts = Tasks
      /\ EnginesDistinct /\ HoldersFinite /\ NeverFreedEarly
  BY TypeParts DEF SafeInv
<1>b. UNCHANGED <<taskContexts, contexts, refCounter, prefixMap, prefixRev,
                  constContexts, engineId, registered>>
  BY DEF ctxVars, cacheVars
<1>1. TableTyped' /\ CachesTyped'
  BY <1>a, <1>b DEF TableTyped, CachesTyped
<1>2. ConstsTyped' /\ EnginesTyped' /\ EnginesDistinct'
  BY <1>a, <1>b DEF ConstsTyped, EnginesTyped, EnginesDistinct
<1>3. HoldersFinite' /\ NeverFreedEarly'
  BY <1>a, <1>b, HeldUnchanged
<1>4. TypeOK'
  BY <1>a, <1>b, <1>1, <1>2, TypePartsPrime
<1> QED
  BY <1>a, <1>b, <1>2, <1>3, <1>4 DEF SafeInv

LEMMA BindSafe ==
  ASSUME SafeInv, NEW t, NEW e, NEW k, NEW cs, Binding(t, e, k, cs),
         phase' = [phase EXCEPT ![t] = "bound"],
         UNCHANGED <<fused, constVars, engVars, down>>
  PROVE  SafeInv'
<1>a. /\ TypeOK /\ TasksTyped /\ EnginesTyped /\ DownTyped
      /\ DOMAIN taskContexts = Tasks /\ EnginesDistinct
  BY TypeParts DEF SafeInv
<1>b. UNCHANGED <<fused, constVars, engineId, registered, alive, down>>
  BY DEF engVars
<1>1. HoldersFinite' /\ NeverFreedEarly' /\ refCounter' \in [ContextIds -> Nat]
  BY BindKeepsHeld
<1>2. CachesTyped' /\ TableTyped' /\ ConstsTyped'
  BY <1>a, <1>b, BindTypes
<1>3. EnginesTyped' /\ DownTyped' /\ EnginesDistinct'
  BY <1>a, <1>b DEF EnginesTyped, DownTyped, EnginesDistinct
<1>4. /\ t \in Tasks /\ cs \in [1 .. Last(t) -> ContextIds]
      /\ taskContexts' = [taskContexts EXCEPT ![t] = cs]
  BY DEF Binding, BindContexts
<1>5. TasksTyped'
  BY <1>a, <1>b, <1>4 DEF TasksTyped
<1>6. TypeOK'
  BY <1>1, <1>2, <1>3, <1>5, TypePartsPrime
<1> QED
  BY <1>a, <1>1, <1>3, <1>4, <1>6 DEF SafeInv

LEMMA FreeTaskSafe ==
  ASSUME SafeInv, NEW t \in Tasks, FreeTaskContexts(t)
  PROVE  SafeInv'
<1>a. /\ TypeOK /\ TasksTyped /\ EnginesTyped /\ DownTyped /\ ConstsTyped
      /\ DOMAIN taskContexts = Tasks /\ EnginesDistinct
  BY TypeParts DEF SafeInv
<1>b. /\ phase[t] = "bound" /\ FreeContexts(Held(t))
      /\ phase' = [phase EXCEPT ![t] = "freed"]
      /\ taskContexts' = [taskContexts EXCEPT ![t] = <<>>]
      /\ UNCHANGED <<fused, constVars, constContexts, engineId, registered, alive, down>>
  BY DEF FreeTaskContexts, constPVars, engVars
<1>1. GivenBack(Held(t)) /\ Held(t) \subseteq ContextIds
  BY <1>b, TaskGivesBack
<1>2. HoldersFinite' /\ NeverFreedEarly' /\ refCounter' \in [ContextIds -> Nat]
  BY <1>b, <1>1, FreeKeepsHeld
<1>3. CachesTyped' /\ TableTyped'
  BY <1>a, <1>b, FreeTypes
<1>4. EnginesTyped' /\ DownTyped' /\ EnginesDistinct' /\ ConstsTyped'
  BY <1>a, <1>b DEF EnginesTyped, DownTyped, EnginesDistinct, ConstsTyped
<1>5. TasksTyped'
  BY <1>a, <1>b DEF TasksTyped
<1>6. TypeOK'
  BY <1>2, <1>3, <1>4, <1>5, TypePartsPrime
<1> QED
  BY <1>a, <1>b, <1>2, <1>4, <1>6 DEF SafeInv

LEMMA ExpireSafe ==
  ASSUME SafeInv, NEW v \in ConstVars, ExpireConstVar(v)
  PROVE  SafeInv'
<1>a. /\ TypeOK /\ TasksTyped /\ EnginesTyped /\ DownTyped /\ ConstsTyped
      /\ DOMAIN taskContexts = Tasks /\ EnginesDistinct
  BY TypeParts DEF SafeInv
<1>b. /\ v \in DOMAIN constContexts /\ FreeContexts(constContexts[v])
      /\ constVars' = constVars \ {v}
      /\ constContexts' = [w \in DOMAIN constContexts \ {v} |-> constContexts[w]]
      /\ UNCHANGED <<phase, fused, taskContexts, engineId, registered, alive, down>>
  BY DEF ExpireConstVar, taskVars, engVars
<1>1. GivenBack(constContexts[v]) /\ constContexts[v] \subseteq ContextIds
  BY <1>b, PinGivesBack
<1>2. HoldersFinite' /\ NeverFreedEarly' /\ refCounter' \in [ContextIds -> Nat]
  BY <1>b, <1>1, FreeKeepsHeld
<1>3. CachesTyped' /\ TableTyped'
  BY <1>a, <1>b, FreeTypes
<1>4. EnginesTyped' /\ DownTyped' /\ EnginesDistinct' /\ TasksTyped'
  BY <1>a, <1>b DEF EnginesTyped, DownTyped, EnginesDistinct, TasksTyped
<1>5. ConstsTyped'
  BY <1>a, <1>b DEF ConstsTyped
<1>6. TypeOK'
  BY <1>2, <1>3, <1>4, <1>5, TypePartsPrime
<1> QED
  BY <1>a, <1>b, <1>2, <1>4, <1>6 DEF SafeInv

\* The steps that matter to the tables, and the quiet ones.
QuietStep ==
    /\ TasksTyped' /\ DownTyped'
    /\ \A t \in Tasks : phase'[t] = "bound" <=> phase[t] = "bound"
    /\ fused \subseteq fused'
    /\ constVars' \subseteq ConstVars /\ alive' \subseteq Engines
    /\ UNCHANGED <<taskContexts, ctxVars, cacheVars, constContexts, engineId,
                   registered>>

BindStep(t, e, k, cs) ==
    /\ Binding(t, e, k, cs)
    /\ phase' = [phase EXCEPT ![t] = "bound"]
    /\ UNCHANGED <<fused, constVars, engVars, down>>

LEMMA StepCases ==
  ASSUME SafeInv, [Next]_vars
  PROVE  \/ QuietStep
         \/ \E e \in Engines, id \in EngineIds : RegisterEngine(e, id)
         \/ \E e \in Engines : RemoveEngine(e)
         \/ \E t, e, k, cs : BindStep(t, e, k, cs)
         \/ \E t \in Tasks : FreeTaskContexts(t)
         \/ \E v \in ConstVars : ExpireConstVar(v)
<1>a. TasksTyped /\ DownTyped /\ ConstsTyped /\ EnginesTyped
  BY TypeParts DEF SafeInv
<1> DEFINE still == UNCHANGED <<taskVars, ctxVars, cacheVars, constPVars, engVars>>
<1>b. still /\ DownTyped' => QuietStep
  BY <1>a DEF QuietStep, TasksTyped, ConstsTyped, EnginesTyped, taskVars, constPVars,
     engVars
<1>1. ASSUME NEW e \in Engines, EngineDies(e) PROVE QuietStep
  BY <1>a, <1>1 DEF EngineDies, QuietStep, TasksTyped, DownTyped, ConstsTyped,
     EnginesTyped, taskVars, constPVars
<1>2. ASSUME NEW t \in Tasks, NEW fuse \in BOOLEAN, SubmitRequest(t, fuse)
      PROVE  QuietStep
  <2>1. /\ phase[t] = "new" /\ (fuse => t \in FuseFill)
        /\ fused' = IF fuse THEN fused \cup {t} ELSE fused
        /\ phase' = [phase EXCEPT ![t] = "queued"]
        /\ constVars' = constVars \cup (RangeOf(Chain[t]) \cap ConstVars)
        /\ UNCHANGED <<taskContexts, ctxVars, cacheVars, constContexts, engineId,
                       registered, alive, down>>
    BY <1>2 DEF SubmitRequest, engVars
  <2>2. /\ phase' \in [Tasks -> {"new", "queued", "bound", "freed"}]
        /\ \A u \in Tasks : phase'[u] = "bound" <=> phase[u] = "bound"
    BY <1>a, <2>1 DEF TasksTyped
  <2>3. TasksTyped'
    BY <1>a, <2>1, <2>2 DEF TasksTyped
  <2>4. constVars' \subseteq ConstVars /\ alive' \subseteq Engines /\ DownTyped'
    BY <1>a, <2>1 DEF ConstsTyped, EnginesTyped, DownTyped
  <2>5. fused \subseteq fused'
    BY <2>1
  <2> QED
    BY <2>1, <2>2, <2>3, <2>4, <2>5 DEF QuietStep
<1>3. ASSUME NEW t \in Tasks, NEW e \in Engines, NEW k \in 0 .. Last(t),
             SetTaskContexts(t, e, k)
      PROVE  \E cs : BindStep(t, e, k, cs)
  <2>1. PICK cs \in [1..Last(t) -> ContextIds] :
           Assignment(t, engineId[e], k, cs) /\ BindContexts(t, e, k, cs)
    BY <1>3 DEF SetTaskContexts
  <2>2. Binding(t, e, k, cs)
    BY <1>3, <2>1, Zenon DEF SetTaskContexts, Binding
  <2>3. BindStep(t, e, k, cs)
    BY <1>3, <2>2, Zenon DEF SetTaskContexts, BindStep
  <2> QED
    BY <2>3
<1>4. ASSUME NEW t \in Tasks, NEW e \in Engines, NEW k \in 0 .. Last(t),
             SetTaskContextsFails(t, e, k)
      PROVE  QuietStep
  BY <1>b, <1>4 DEF SetTaskContextsFails, DownTyped
<1>5. ASSUME NEW t \in Tasks, FreeTaskContextsFails(t) PROVE QuietStep
  BY <1>b, <1>5 DEF FreeTaskContextsFails, DownTyped
<1>6. ASSUME NEW v \in ConstVars, ExpireConstVarAsserts(v) \/ ExpireConstVarFails(v)
      PROVE  QuietStep
  BY <1>b, <1>6 DEF ExpireConstVarAsserts, ExpireConstVarFails, DownTyped
<1>7. CASE UNCHANGED vars
  BY <1>a, <1>b, <1>7 DEF vars, DownTyped
<1>8. CASE Next
  BY <1>1, <1>2, <1>3, <1>4, <1>5, <1>6, <1>8, Zenon DEF Next
<1> QED
  BY <1>7, <1>8

LEMMA SafeInit == Init => SafeInv
<1> SUFFICES ASSUME Init PROVE SafeInv
  OBVIOUS
<1>1. TypeOK
  BY DEF Init, TypeOK
<1>2. DOMAIN taskContexts = Tasks /\ EnginesDistinct
  BY DEF Init, EnginesDistinct
<1>3. \A c \in ContextIds : Users(c) = {} /\ Pinners(c) = {}
  BY DEF Init, Users, Pinners, Held, RangeOf
<1>4. IsFiniteSet({}) /\ Cardinality({}) = 0
  BY FS_EmptySet
<1>5. HoldersFinite
  BY <1>3, <1>4 DEF HoldersFinite
<1>6. NeverFreedEarly
  <2>1. \A c \in ContextIds : refCounter[c] = 0
    BY DEF Init
  <2>2. \A c \in ContextIds : Cardinality(Users(c)) = 0 /\ Cardinality(Pinners(c)) = 0
    BY <1>3, <1>4
  <2> QED
    BY <2>1, <2>2 DEF NeverFreedEarly
<1> QED
  BY <1>1, <1>2, <1>5, <1>6 DEF SafeInv

LEMMA SafeStep == SafeInv /\ [Next]_vars => SafeInv'
<1> SUFFICES ASSUME SafeInv, [Next]_vars PROVE SafeInv'
  OBVIOUS
<1>1. CASE QuietStep
  BY <1>1, QuietSafe DEF QuietStep
<1>2. ASSUME NEW t, NEW e, NEW k, NEW cs, BindStep(t, e, k, cs) PROVE SafeInv'
  BY <1>2, BindSafe DEF BindStep
<1> QED
  BY <1>1, <1>2, StepCases, RegisterSafe, RemoveSafe, FreeTaskSafe, ExpireSafe

\* However tasks, constant prefixes and engines come and go, fused or not, a
\* context is never freed under a task that uses it or a constant prefix that
\* pins it: _context_ref_counter is never below the number of its holders.
THEOREM HeldNeverFreed == Spec => []NeverFreedEarly
<1>1. SafeInv => NeverFreedEarly
  BY DEF SafeInv
<1> QED
  BY <1>1, SafeInit, SafeStep, PTL DEF Spec

-----------------------------------------------------------------------------
(* Without fuse_fill: exact counts, and one path per task *)

Shorter(h) == SubSeq(h, 1, Len(h) - 1)

\* CacheIsTree, one step at a time: the next shorter prefix is cached.
CacheStep ==
    \A e \in registered : \A h \in DOMAIN prefixMap[engineId[e]] :
        LET map == prefixMap[engineId[e]] IN
        /\ h # <<>>
        /\ map[h] \in DOMAIN contexts
        /\ contexts[map[h]].engine = e
        /\ Len(h) # 1 => Shorter(h) \in DOMAIN map
        /\ contexts[map[h]].parent = IF Len(h) = 1 THEN None ELSE map[Shorter(h)]

\* The two maps of a PrefixCache are inverse to each other.
CacheInverse ==
    \A i \in DOMAIN prefixMap :
        /\ \A h \in DOMAIN prefixMap[i] :
              /\ prefixMap[i][h] \in DOMAIN prefixRev[i]
              /\ prefixRev[i][prefixMap[i][h]] = h
        /\ \A c \in DOMAIN prefixRev[i] :
              /\ prefixRev[i][c] \in DOMAIN prefixMap[i]
              /\ prefixMap[i][prefixRev[i][c]] = c

\* The nodes of a bound task have different contexts.
TaskInjective ==
    \A t \in Tasks : phase[t] = "bound" =>
        \A i, j \in 1..Last(t) : taskContexts[t][i] = taskContexts[t][j] => i = j

\* Only first nodes are pinned.
PinnedRoots ==
    \A v \in DOMAIN constContexts : \A c \in constContexts[v] :
        contexts[c].parent = None

PathInv ==
    /\ RefsCountHolders /\ LiveIffHeld
    /\ CacheStep /\ CacheInverse
    /\ TaskOnOnePath /\ TaskInjective /\ PinnedRoots

LEMMA ShorterFacts ==
  ASSUME NEW h \in Seq(Vars), h # <<>>
  PROVE  /\ Len(h) \in Nat \ {0}
         /\ SubSeq(h, 1, Len(h)) = h
         /\ \A n \in 1 .. Len(h) :
               n # 1 => Shorter(SubSeq(h, 1, n)) = SubSeq(h, 1, n - 1)
         /\ \A n \in 1 .. Len(h) :
               /\ SubSeq(h, 1, n) \in Seq(Vars) /\ Len(SubSeq(h, 1, n)) = n
<1>1. Len(h) \in Nat \ {0}
  OBVIOUS
<1>2. ASSUME NEW n \in 1 .. Len(h)
      PROVE  /\ SubSeq(h, 1, n) \in Seq(Vars) /\ Len(SubSeq(h, 1, n)) = n
             /\ \A l \in 1 .. n : SubSeq(h, 1, n)[l] = h[l]
  BY <1>1, SubSeqProperties
<1>3. SubSeq(h, 1, Len(h)) = h
  <2>1. Len(h) \in 1 .. Len(h)
    BY <1>1
  <2> QED
    BY <1>1, <1>2, <2>1, SeqEqual
<1>4. ASSUME NEW n \in 1 .. Len(h), n # 1
      PROVE  Shorter(SubSeq(h, 1, n)) = SubSeq(h, 1, n - 1)
  <2> DEFINE g == SubSeq(h, 1, n)
             f == SubSeq(h, 1, n - 1)
             s == SubSeq(g, 1, n - 1)
  <2>1. n - 1 \in 1 .. Len(h) /\ n - 1 \in Nat
    BY <1>1, <1>4
  <2>2. g \in Seq(Vars) /\ Len(g) = n /\ \A l \in 1 .. n : g[l] = h[l]
    BY <1>2
  <2>3. f \in Seq(Vars) /\ Len(f) = n - 1 /\ \A l \in 1 .. n - 1 : f[l] = h[l]
    BY <1>2, <2>1
  <2> HIDE DEF g, f
  <2>4. s \in Seq(Vars) /\ Len(s) = n - 1 /\ \A l \in 1 .. n - 1 : s[l] = g[l]
    <3>1. n - 1 \in 1 .. Len(g)
      BY <1>1, <1>4, <2>2
    <3> QED
      BY <2>1, <2>2, <3>1, SubSeqProperties
  <2>5. s = f
    <3>1. \A l \in 1 .. n - 1 : l \in 1 .. n
      BY <2>1
    <3>2. \A l \in 1 .. Len(s) : s[l] = f[l]
      BY <2>2, <2>3, <2>4, <3>1
    <3> HIDE DEF s
    <3> QED
      BY <2>3, <2>4, <3>2, SeqEqual
  <2> QED
    BY <2>2, <2>5 DEF Shorter, g, f
<1> QED
  BY <1>1, <1>2, <1>3, <1>4

LEMMA ShorterPrefix ==
  ASSUME NEW t \in Tasks, NEW i \in 1 .. Last(t), i # 1
  PROVE  Shorter(Prefix(t, i)) = Prefix(t, i - 1)
<1>1. Len(Prefix(t, i)) = i /\ \A j \in 1 .. i : SubSeq(Prefix(t, i), 1, j) = Prefix(t, j)
  BY PrefixFacts
<1>2. i - 1 \in 1 .. i
  BY ChainFacts
<1> QED
  BY <1>1, <1>2 DEF Shorter

\* All shorter prefixes of a cached prefix are cached.
LEMMA AllShorter ==
  ASSUME TypeOK, CacheStep, NEW e \in registered,
         NEW h \in DOMAIN prefixMap[engineId[e]]
  PROVE  h # <<>> /\ \A j \in 1 .. Len(h) : SubSeq(h, 1, j) \in DOMAIN prefixMap[engineId[e]]
<1> DEFINE D == DOMAIN prefixMap[engineId[e]]
           n == Len(h)
           S == {m \in Nat : m < n => SubSeq(h, 1, n - m) \in D}
<1>1. h # <<>> /\ \A g \in D : Len(g) # 1 => Shorter(g) \in D
  BY DEF CacheStep
<1>2. h \in Seq(Vars)
  BY DEF TypeOK
<1>3. /\ n \in Nat \ {0}
      /\ SubSeq(h, 1, n) = h
      /\ \A m \in 1 .. n : m # 1 => Shorter(SubSeq(h, 1, m)) = SubSeq(h, 1, m - 1)
      /\ \A m \in 1 .. n : Len(SubSeq(h, 1, m)) = m
  BY <1>1, <1>2, ShorterFacts
<1> HIDE DEF n
<1>4. 0 \in S
  <2>1. n - 0 = n
    BY <1>3
  <2> QED
    BY <1>3, <2>1
<1>5. ASSUME NEW m \in Nat, m \in S, m + 1 < n PROVE SubSeq(h, 1, n - (m + 1)) \in D
  <2>1. n - m \in 1 .. n /\ n - m # 1 /\ n - (m + 1) = n - m - 1
    BY <1>3, <1>5
  <2>2. SubSeq(h, 1, n - m) \in D
    BY <1>3, <1>5
  <2>3. Shorter(SubSeq(h, 1, n - m)) \in D
    BY <1>1, <1>3, <2>1, <2>2
  <2> QED
    BY <1>3, <2>1, <2>3
<1>6. \A m \in Nat : m \in S => m + 1 \in S
  BY <1>5
<1>7. Nat \subseteq S
  <2> HIDE DEF S
  <2> QED
    BY <1>4, <1>6, SetInduction
<1>8. ASSUME NEW j \in 1 .. n PROVE SubSeq(h, 1, j) \in D
  <2>1. n - j \in Nat /\ n - j < n /\ n - (n - j) = j
    BY <1>3
  <2>2. n - j \in S
    BY <1>7, <2>1
  <2> QED
    BY <2>1, <2>2
<1> QED
  BY <1>1, <1>8 DEF n

LEMMA CacheTree ==
  ASSUME TypeOK, CacheStep
  PROVE  CacheIsTree
<1> SUFFICES ASSUME NEW e \in registered, NEW h \in DOMAIN prefixMap[engineId[e]]
             PROVE  LET map == prefixMap[engineId[e]] IN
                    /\ map[h] \in DOMAIN contexts
                    /\ contexts[map[h]].engine = e
                    /\ \A j \in 1..Len(h) : SubSeq(h, 1, j) \in DOMAIN map
                    /\ contexts[map[h]].parent =
                         IF Len(h) = 1 THEN None ELSE map[SubSeq(h, 1, Len(h) - 1)]
  BY DEF CacheIsTree
<1>1. \A j \in 1..Len(h) : SubSeq(h, 1, j) \in DOMAIN prefixMap[engineId[e]]
  BY AllShorter
<1> QED
  BY <1>1 DEF CacheStep, Shorter

\* What the nodes of an unfused task get.
PathBound(t, e, k, cs) ==
    /\ \A i \in 1 .. Last(t) : OwnContext(t, k, i) <=> i > k
    /\ \A i \in 1 .. Last(t) :
          /\ cs[i] \in DOMAIN contexts <=> i <= k
          /\ cs[i] \in DOMAIN contexts'
          /\ contexts'[cs[i]].engine = e
          /\ contexts'[cs[i]].parent = IF i = 1 THEN None ELSE cs[i - 1]
    /\ \A i, j \in 1 .. Last(t) : cs[i] = cs[j] => i = j
    /\ \A i \in 1 .. k : /\ Prefix(t, i) \in DOMAIN prefixMap[engineId[e]]
                         /\ prefixMap[engineId[e]][Prefix(t, i)] = cs[i]
    /\ \A i \in CachedNow(t, k) : Prefix(t, i) \notin DOMAIN prefixMap[engineId[e]]

LEMMA BindPath ==
  ASSUME SafeInv, PathInv, fused = {}, NEW t, NEW e, NEW k, NEW cs,
         Binding(t, e, k, cs)
  PROVE  PathBound(t, e, k, cs)
<1> DEFINE id == engineId[e]
<1>a. TypeOK /\ TableBound(t, e, k, cs) /\ CacheStep /\ CacheInverse
  BY BindFacts DEF SafeInv, PathInv
<1>b. /\ t \in Tasks /\ e \in registered /\ k \in 0 .. Last(t)
      /\ cs \in [1 .. Last(t) -> ContextIds] /\ Last(t) \in Nat \ {0} /\ k \in Nat
      /\ HitLength(t, id, k) /\ Assignment(t, id, k, cs)
  BY ChainFacts DEF Binding
<1>c. id \in DOMAIN prefixMap
  BY <1>a, <1>b DEF TypeOK
<1>1. \A i \in 1 .. Last(t) : OwnContext(t, k, i) <=> i > k
  BY <1>b DEF OwnContext
<1>2. ASSUME NEW i \in 1 .. k
      PROVE  Prefix(t, i) \in DOMAIN prefixMap[id] /\ prefixMap[id][Prefix(t, i)] = cs[i]
  BY <1>b DEF HitLength, Assignment
<1>3. ASSUME NEW i \in 1 .. k
      PROVE  /\ cs[i] \in DOMAIN contexts
             /\ contexts[cs[i]].engine = e
             /\ contexts[cs[i]].parent = IF i = 1 THEN None ELSE cs[i - 1]
  <2>1. i \in 1 .. Last(t) /\ (i # 1 => i - 1 \in 1 .. k)
    BY <1>b
  <2>2. Len(Prefix(t, i)) = i
    BY <1>b, <2>1, PrefixFacts
  <2>3. /\ cs[i] \in DOMAIN contexts
        /\ contexts[cs[i]].engine = e
        /\ contexts[cs[i]].parent = IF i = 1 THEN None ELSE prefixMap[id][Shorter(Prefix(t, i))]
    <3> DEFINE h == Prefix(t, i)
    <3>1. h \in DOMAIN prefixMap[id] /\ prefixMap[id][h] = cs[i] /\ Len(h) = i
      BY <1>2, <2>2
    <3> HIDE DEF h
    <3>2. /\ prefixMap[id][h] \in DOMAIN contexts
          /\ contexts[prefixMap[id][h]].engine = e
          /\ contexts[prefixMap[id][h]].parent =
               IF Len(h) = 1 THEN None ELSE prefixMap[id][Shorter(h)]
      BY <1>a, <1>b, <3>1 DEF CacheStep
    <3> QED
      BY <3>1, <3>2 DEF h
  <2>4. i # 1 => prefixMap[id][Shorter(Prefix(t, i))] = cs[i - 1]
    BY <1>b, <1>2, <2>1, ShorterPrefix
  <2> QED
    BY <2>3, <2>4
<1>4. ASSUME NEW i \in 1 .. Last(t), i > k
      PROVE  /\ cs[i] \notin DOMAIN contexts
             /\ \A j \in 1 .. Last(t) : j > k /\ cs[i] = cs[j] => i = j
             /\ cs[i] \in Created(t, k, cs)
  <2>1. i \in (k + 1) .. Last(t) /\ OwnContext(t, k, i)
    BY <1>b, <1>1, <1>4
  <2>2. \A j \in 1 .. Last(t) : j > k => j \in (k + 1) .. Last(t) /\ OwnContext(t, k, j)
    BY <1>b, <1>1
  <2>3. cs[i] \notin DOMAIN contexts
    BY <1>b, <2>1 DEF Assignment
  <2>4. \A j \in 1 .. Last(t) : j > k /\ cs[i] = cs[j] => i = j
    BY <1>b, <2>1, <2>2 DEF Assignment
  <2>5. cs[i] \in Created(t, k, cs)
    BY <2>1 DEF Created
  <2> QED
    BY <2>3, <2>4, <2>5
<1>5. ASSUME NEW i \in 1 .. Last(t), i > k
      PROVE  /\ cs[i] \in DOMAIN contexts'
             /\ contexts'[cs[i]].engine = e
             /\ contexts'[cs[i]].parent = IF i = 1 THEN None ELSE cs[i - 1]
  <2>1. cs[i] \in Created(t, k, cs) \ DOMAIN contexts
    BY <1>4, <1>5
  <2>2. PICK j \in (k + 1) .. Last(t) :
          /\ cs[j] = cs[i]
          /\ contexts'[cs[i]] = [engine |-> e,
                                 parent |-> IF j = 1 THEN None ELSE cs[j - 1]]
    BY <1>a, <2>1 DEF TableBound
  <2>3. j \in 1 .. Last(t) /\ j > k
    BY <1>b
  <2>4. j = i
    BY <1>4, <1>5, <2>2, <2>3
  <2>5. cs[i] \in DOMAIN contexts'
    BY <1>a, <2>1 DEF TableBound
  <2> QED
    BY <2>2, <2>4, <2>5
<1>6. ASSUME NEW i \in 1 .. Last(t)
      PROVE  /\ cs[i] \in DOMAIN contexts <=> i <= k
             /\ cs[i] \in DOMAIN contexts'
             /\ contexts'[cs[i]].engine = e
             /\ contexts'[cs[i]].parent = IF i = 1 THEN None ELSE cs[i - 1]
  <2>1. CASE i <= k
    <3>1. i \in 1 .. k
      BY <1>b, <2>1
    <3>2. cs[i] \in DOMAIN contexts /\ contexts'[cs[i]] = contexts[cs[i]] /\ cs[i] \in DOMAIN contexts'
      BY <1>a, <1>3, <3>1 DEF TableBound
    <3> QED
      BY <1>3, <2>1, <3>1, <3>2
  <2>2. CASE i > k
    <3>1. ~(i <= k)
      BY <1>b, <2>2
    <3> QED
      BY <1>4, <1>5, <2>2, <3>1
  <2> QED
    BY <1>b, <2>1, <2>2
<1>7. ASSUME NEW i \in 1 .. Last(t), NEW j \in 1 .. Last(t), cs[i] = cs[j]
      PROVE  i = j
  <2>1. i <= k <=> j <= k
    BY <1>6, <1>7
  <2>2. CASE i <= k
    <3>1. i \in 1 .. k /\ j \in 1 .. k
      BY <1>b, <2>1, <2>2
    <3>2. Prefix(t, i) = Prefix(t, j)
      BY <1>2, <1>7, <1>a, <1>c, <3>1 DEF CacheInverse
    <3>3. Len(Prefix(t, i)) = i /\ Len(Prefix(t, j)) = j
      BY <1>b, PrefixFacts
    <3> QED
      BY <3>2, <3>3
  <2>3. CASE ~(i <= k)
    <3>1. i > k /\ j > k
      BY <1>b, <2>1, <2>3
    <3> QED
      BY <1>4, <1>7, <3>1
  <2> QED
    BY <2>2, <2>3
<1>8. ASSUME NEW i \in CachedNow(t, k), Prefix(t, i) \in DOMAIN prefixMap[id]
      PROVE  FALSE
  <2>1. i \in 1 .. Last(t) /\ k + 1 \in 1 .. i /\ k < Last(t)
    BY <1>b DEF CachedNow
  <2>2. Len(Prefix(t, i)) = i /\ SubSeq(Prefix(t, i), 1, k + 1) = Prefix(t, k + 1)
    BY <1>b, <2>1, PrefixFacts
  <2>3. SubSeq(Prefix(t, i), 1, k + 1) \in DOMAIN prefixMap[id]
    BY <1>a, <1>b, <1>8, <2>1, <2>2, AllShorter
  <2> QED
    BY <1>b, <2>1, <2>2, <2>3 DEF HitLength
<1> QED
  BY <1>1, <1>2, <1>6, <1>7, <1>8 DEF PathBound

\* A binding adds exactly one reference for the task and one for the pin.
LEMMA ExactRefs ==
  ASSUME NEW t, NEW e, NEW k, NEW cs, Binding(t, e, k, cs), PathBound(t, e, k, cs),
         NEW c \in ContextIds
  PROVE  AddedRefs(t, k, cs, c) = (IF c \in RangeOf(cs) THEN 1 ELSE 0)
                                  + (IF Pins(t, k) /\ c = cs[1] THEN 1 ELSE 0)
<1> DEFINE hit == {i \in 1 .. k : cs[i] = c}
           own == IF \E i \in 1 .. Last(t) : OwnContext(t, k, i) /\ cs[i] = c
                  THEN 1 ELSE 0
           pin == IF Pins(t, k) /\ cs[1] = c THEN 1 ELSE 0
           used == IF c \in RangeOf(cs) THEN 1 ELSE 0
<1>0. /\ k \in Nat /\ Last(t) \in Nat \ {0} /\ k <= Last(t)
      /\ cs \in [1 .. Last(t) -> ContextIds]
  BY ChainFacts DEF Binding
<1>1. /\ \A i \in 1 .. Last(t) : OwnContext(t, k, i) <=> i > k
      /\ \A i, j \in 1 .. Last(t) : cs[i] = cs[j] => i = j
  BY DEF PathBound
<1>2. CASE c \notin RangeOf(cs)
  <2>1. hit = {} /\ own = 0 /\ used = 0
    BY <1>0, <1>2 DEF RangeOf
  <2>2. Cardinality(hit) = 0
    BY <2>1, FS_EmptySet
  <2> QED
    BY <2>1, <2>2 DEF AddedRefs
<1>3. CASE c \in RangeOf(cs)
  <2>1. PICK j \in 1 .. Last(t) : cs[j] = c
    BY <1>0, <1>3 DEF RangeOf
  <2>2. CASE j <= k
    <3>1. hit = {j} /\ own = 0 /\ used = 1
      BY <1>0, <1>1, <1>3, <2>1, <2>2
    <3>2. Cardinality(hit) = 1
      BY <3>1, FS_Singleton
    <3>3. AddedRefs(t, k, cs, c) = Cardinality(hit) + own + pin
      BY DEF AddedRefs
    <3>4. pin \in Nat /\ pin = IF Pins(t, k) /\ c = cs[1] THEN 1 ELSE 0
      OBVIOUS
    <3> HIDE DEF hit, own, pin
    <3> QED
      BY <1>3, <3>1, <3>2, <3>3, <3>4
  <2>3. CASE j > k
    <3>1. own = 1 /\ used = 1
      BY <1>0, <1>1, <1>3, <2>1, <2>3
    <3>5. hit = {}
      BY <1>0, <1>1, <1>3, <2>1, <2>3
    <3>2. Cardinality(hit) = 0
      BY <3>5, FS_EmptySet
    <3>3. AddedRefs(t, k, cs, c) = Cardinality(hit) + own + pin
      BY DEF AddedRefs
    <3>4. pin \in Nat /\ pin = IF Pins(t, k) /\ c = cs[1] THEN 1 ELSE 0
      OBVIOUS
    <3> HIDE DEF hit, own, pin
    <3> QED
      BY <1>3, <3>1, <3>2, <3>3, <3>4
  <2> QED
    BY <1>0, <2>2, <2>3
<1> QED
  BY <1>2, <1>3

LEMMA BindCounts ==
  ASSUME SafeInv, PathInv, NEW t, NEW e, NEW k, NEW cs,
         Binding(t, e, k, cs), PathBound(t, e, k, cs)
  PROVE  RefsCountHolders' /\ LiveIffHeld'
<1>a. /\ TypeOK /\ DOMAIN taskContexts = Tasks /\ HoldersFinite /\ NeverFreedEarly
      /\ RefsCountHolders /\ LiveIffHeld
  BY DEF SafeInv, PathInv
<1>b. /\ k \in Nat /\ Last(t) \in Nat \ {0} /\ cs \in [1 .. Last(t) -> ContextIds]
      /\ refCounter' = [c \in ContextIds |-> refCounter[c] + AddedRefs(t, k, cs, c)]
  BY ChainFacts DEF Binding, BindContexts
<1>c. 1 \in 1 .. Last(t) /\ cs[1] \in RangeOf(cs)
  BY <1>b DEF RangeOf
<1>1. ASSUME NEW c \in ContextIds
      PROVE  refCounter'[c] = Cardinality(Users(c)') + Cardinality(Pinners(c)')
  <2> DEFINE u == Cardinality(Users(c))
             p == Cardinality(Pinners(c))
             du == IF c \in RangeOf(cs) THEN 1 ELSE 0
             dp == IF Pins(t, k) /\ c = cs[1] THEN 1 ELSE 0
  <2>1. /\ Users(c)' = IF c \in RangeOf(cs) THEN Users(c) \cup {t} ELSE Users(c)
        /\ t \notin Users(c)
        /\ Pinners(c)' = IF Pins(t, k) /\ c = cs[1] THEN Pinners(c) \cup {Chain[t][1]}
                                                    ELSE Pinners(c)
    BY <1>a, BindHolders
  <2>2. IsFiniteSet(Users(c)) /\ IsFiniteSet(Pinners(c))
    BY <1>a DEF HoldersFinite
  <2>3. u \in Nat /\ p \in Nat
    BY <2>2, FS_CardinalityType
  <2>4. Cardinality(Users(c)') = u + du
    <3>1. CASE c \in RangeOf(cs)
      <4>1. Cardinality(Users(c) \cup {t}) = Cardinality(Users(c)) + 1
        BY <2>1, <2>2, AddOne
      <4> QED
        BY <2>1, <3>1, <4>1
    <3>2. CASE c \notin RangeOf(cs)
      BY <2>1, <2>3, <3>2
    <3> QED
      BY <3>1, <3>2
  <2>5. Cardinality(Pinners(c)') = p + dp
    <3>1. CASE Pins(t, k) /\ c = cs[1]
      <4>1. c \notin DOMAIN contexts
        BY <1>b, <1>c, <3>1 DEF PathBound, Pins
      <4>2. Pinners(c) = {}
        BY <1>a, <4>1 DEF LiveIffHeld
      <4>3. Cardinality(Pinners(c) \cup {Chain[t][1]}) = Cardinality(Pinners(c)) + 1
        BY <2>2, <4>2, AddOne
      <4> QED
        BY <2>1, <3>1, <4>3
    <3>2. CASE ~(Pins(t, k) /\ c = cs[1])
      BY <2>1, <2>3, <3>2
    <3> QED
      BY <3>1, <3>2
  <2>6. AddedRefs(t, k, cs, c) = du + dp /\ du \in Nat /\ dp \in Nat
    BY ExactRefs
  <2>7. refCounter[c] = u + p
    BY <1>a DEF RefsCountHolders
  <2>8. refCounter'[c] = (u + p) + (du + dp)
    BY <1>b, <2>6, <2>7
  <2> HIDE DEF u, p, du, dp
  <2> QED
    BY <2>3, <2>4, <2>5, <2>6, <2>8
<1>2. RefsCountHolders'
  <2>1. \A c \in ContextIds :
           refCounter'[c] = Cardinality(Users(c)') + Cardinality(Pinners(c)')
    BY <1>1
  <2> QED
    BY <2>1 DEF RefsCountHolders
<1>3. ASSUME NEW c \in ContextIds
      PROVE  c \in DOMAIN contexts' <=> Users(c)' \cup Pinners(c)' # {}
  <2>1. /\ Users(c)' = IF c \in RangeOf(cs) THEN Users(c) \cup {t} ELSE Users(c)
        /\ Pinners(c)' = IF Pins(t, k) /\ c = cs[1] THEN Pinners(c) \cup {Chain[t][1]}
                                                    ELSE Pinners(c)
    BY <1>a, BindHolders
  <2>2. c \in DOMAIN contexts' <=> c \in DOMAIN contexts \/ c \in RangeOf(cs)
    <3>1. TableBound(t, e, k, cs)
      BY <1>a, BindFacts
    <3>2. Created(t, k, cs) \subseteq RangeOf(cs)
      BY <1>b DEF Created, RangeOf
    <3>3. RangeOf(cs) \subseteq DOMAIN contexts'
      BY BindKeepsHeld
    <3> QED
      BY <3>1, <3>2, <3>3 DEF TableBound
  <2>3. c \in DOMAIN contexts <=> Users(c) \cup Pinners(c) # {}
    BY <1>a DEF LiveIffHeld
  <2>4. CASE c \in RangeOf(cs)
    BY <2>1, <2>2, <2>4
  <2>5. CASE c \notin RangeOf(cs)
    <3>1. c # cs[1]
      BY <1>c, <2>5
    <3> QED
      BY <2>1, <2>2, <2>3, <2>5, <3>1
  <2> QED
    BY <2>4, <2>5
<1>4. LiveIffHeld'
  <2>1. DOMAIN contexts' \subseteq ContextIds
    <3>1. TableBound(t, e, k, cs)
      BY <1>a, BindFacts
    <3>2. Created(t, k, cs) \subseteq ContextIds
      BY <1>b DEF Created
    <3> QED
      BY <1>a, <3>1, <3>2 DEF TableBound, TypeOK
  <2>2. DOMAIN contexts' = {c \in ContextIds : Users(c)' \cup Pinners(c)' # {}}
    BY <1>3, <2>1
  <2> QED
    BY <2>2 DEF LiveIffHeld
<1> QED
  BY <1>2, <1>4

\* The prefix map after a binding: the prefixes of the task up to its last
\* Fill node lead along its path.
LEMMA BindCache ==
  ASSUME SafeInv, PathInv, NEW t, NEW e, NEW k, NEW cs,
         Binding(t, e, k, cs), PathBound(t, e, k, cs),
         UNCHANGED <<registered, engineId>>
  PROVE  CacheStep' /\ CacheInverse'
<1> DEFINE id == engineId[e]
           map == prefixMap[id]
           nmap == prefixMap'[id]
<1>a. /\ TypeOK /\ EnginesDistinct /\ CacheStep /\ CacheInverse
      /\ MapBound(t, e, k, cs) /\ RevBound(t, e, k, cs) /\ TableBound(t, e, k, cs)
  BY BindFacts DEF SafeInv, PathInv
<1>b. /\ t \in Tasks /\ e \in registered /\ k \in 0 .. Last(t) /\ k \in Nat
      /\ cs \in [1 .. Last(t) -> ContextIds] /\ Last(t) \in Nat \ {0}
  BY ChainFacts DEF Binding
<1>c. id \in DOMAIN prefixMap /\ DOMAIN prefixRev = DOMAIN prefixMap
  BY <1>a, <1>b DEF TypeOK
<1>d. /\ DOMAIN nmap = DOMAIN map \cup Hashes(t, k)
      /\ \A i \in CachedNow(t, k) : nmap[Prefix(t, i)] = cs[i]
      /\ \A h \in DOMAIN map \ Hashes(t, k) : nmap[h] = map[h]
  BY <1>a DEF MapBound
<1>e. DOMAIN map \cap Hashes(t, k) = {}
  BY DEF PathBound, Hashes
<1>f. CachedNow(t, k) \subseteq 1 .. Last(t)
  BY <1>b DEF CachedNow
<1>g. /\ \A c \in DOMAIN contexts : c \in DOMAIN contexts' /\ contexts'[c] = contexts[c]
  BY <1>a DEF TableBound
<1>1. ASSUME NEW i \in 1 .. Last(t), i < Last(t) \/ i <= k
      PROVE  Prefix(t, i) \in DOMAIN nmap /\ nmap[Prefix(t, i)] = cs[i]
  <2>1. CASE i <= k
    <3>1. i \in 1 .. k
      BY <1>b, <2>1
    <3>2. Prefix(t, i) \in DOMAIN map /\ map[Prefix(t, i)] = cs[i]
      BY <3>1 DEF PathBound
    <3> QED
      BY <1>d, <1>e, <3>2
  <2>2. CASE i > k
    <3>1. i \in CachedNow(t, k)
      BY <1>1, <1>b, <2>2 DEF CachedNow
    <3> QED
      BY <1>d, <3>1 DEF Hashes
  <2> QED
    BY <1>b, <2>1, <2>2
<1>2. ASSUME NEW f \in registered, NEW h \in DOMAIN (prefixMap'[engineId[f]])
      PROVE  LET m == prefixMap'[engineId[f]] IN
             /\ h # <<>>
             /\ m[h] \in DOMAIN contexts'
             /\ contexts'[m[h]].engine = f
             /\ Len(h) # 1 => Shorter(h) \in DOMAIN m
             /\ contexts'[m[h]].parent = IF Len(h) = 1 THEN None ELSE m[Shorter(h)]
  <2>1. CASE f # e
    <3>1. engineId[f] \in DOMAIN prefixMap /\ engineId[f] # id
      BY <1>a, <1>b, <2>1 DEF EnginesDistinct, TypeOK
    <3>2. prefixMap'[engineId[f]] = prefixMap[engineId[f]]
      BY <1>a, <3>1 DEF MapBound
    <3>3. LET m == prefixMap[engineId[f]] IN
             /\ h # <<>>
             /\ m[h] \in DOMAIN contexts
             /\ contexts[m[h]].engine = f
             /\ Len(h) # 1 => Shorter(h) \in DOMAIN m
             /\ contexts[m[h]].parent = IF Len(h) = 1 THEN None ELSE m[Shorter(h)]
      BY <1>a, <3>2 DEF CacheStep
    <3> QED
      BY <1>g, <3>2, <3>3
  <2>2. CASE f = e /\ h \in DOMAIN map
    <3>1. /\ h # <<>>
          /\ map[h] \in DOMAIN contexts
          /\ contexts[map[h]].engine = f
          /\ Len(h) # 1 => Shorter(h) \in DOMAIN map
          /\ contexts[map[h]].parent = IF Len(h) = 1 THEN None ELSE map[Shorter(h)]
      BY <1>a, <1>b, <2>2 DEF CacheStep
    <3>2. nmap[h] = map[h] /\ (Len(h) # 1 => nmap[Shorter(h)] = map[Shorter(h)])
      BY <1>d, <1>e, <2>2, <3>1
    <3>3. contexts'[map[h]] = contexts[map[h]] /\ map[h] \in DOMAIN contexts'
      BY <1>g, <3>1
    <3>4. Len(h) # 1 => Shorter(h) \in DOMAIN nmap
      BY <1>d, <3>1
    <3> HIDE DEF map
    <3> QED
      BY <2>2, <3>1, <3>2, <3>3, <3>4
  <2>3. CASE f = e /\ h \in Hashes(t, k)
    <3>1. PICK i \in CachedNow(t, k) : h = Prefix(t, i)
      BY <2>3 DEF Hashes
    <3>2. i \in 1 .. Last(t) /\ Len(h) = i /\ h # <<>>
      BY <1>b, <1>f, <3>1, PrefixFacts
    <3>3. nmap[h] = cs[i]
      BY <1>d, <3>1
    <3>4. /\ cs[i] \in DOMAIN contexts'
          /\ contexts'[cs[i]].engine = e
          /\ contexts'[cs[i]].parent = IF i = 1 THEN None ELSE cs[i - 1]
      BY <3>2 DEF PathBound
    <3>5. i # 1 => Shorter(h) \in DOMAIN nmap /\ nmap[Shorter(h)] = cs[i - 1]
      <4> SUFFICES ASSUME i # 1
                   PROVE  Shorter(h) \in DOMAIN nmap /\ nmap[Shorter(h)] = cs[i - 1]
        OBVIOUS
      <4>1. Shorter(h) = Prefix(t, i - 1)
        BY <1>b, <3>1, <3>2, ShorterPrefix
      <4>2. i - 1 \in 1 .. Last(t) /\ i - 1 < Last(t)
        BY <1>b, <3>2
      <4> QED
        BY <1>1, <4>1, <4>2
    <3> QED
      BY <2>3, <3>2, <3>3, <3>4, <3>5
  <2> QED
    BY <1>d, <2>1, <2>2, <2>3
<1>3. CacheStep'
  <2>1. \A f \in registered' : \A h \in DOMAIN (prefixMap'[engineId'[f]]) :
             LET m == prefixMap'[engineId'[f]] IN
             /\ h # <<>>
             /\ m[h] \in DOMAIN contexts'
             /\ contexts'[m[h]].engine = f
             /\ Len(h) # 1 => Shorter(h) \in DOMAIN m
             /\ contexts'[m[h]].parent = IF Len(h) = 1 THEN None ELSE m[Shorter(h)]
    BY <1>2
  <2> QED
    BY <2>1, Zenon DEF CacheStep
<1> DEFINE rev == prefixRev[id]
           nrev == prefixRev'[id]
<1>4. /\ DOMAIN nrev = DOMAIN rev \cup Labelled(t, k, cs)
      /\ \A c \in Labelled(t, k, cs) : \E i \in CachedNow(t, k) :
            cs[i] = c /\ nrev[c] = Prefix(t, i)
      /\ \A c \in DOMAIN rev \ Labelled(t, k, cs) : nrev[c] = rev[c]
  BY <1>a DEF RevBound
<1>5. /\ \A h \in DOMAIN map : map[h] \in DOMAIN rev /\ rev[map[h]] = h
      /\ \A c \in DOMAIN rev : rev[c] \in DOMAIN map /\ map[rev[c]] = c
  BY <1>a, <1>c DEF CacheInverse
<1>6. \A c \in DOMAIN rev : c \notin Labelled(t, k, cs)
  <2>1. \A c \in DOMAIN rev : c \in DOMAIN contexts
    <3>1. \A h \in DOMAIN map : map[h] \in DOMAIN contexts
      BY <1>a, <1>b DEF CacheStep
    <3> HIDE DEF map, rev
    <3> QED
      BY <1>5, <3>1
  <2>2. \A i \in CachedNow(t, k) : cs[i] \notin DOMAIN contexts
    <3>1. \A i \in CachedNow(t, k) : i \in 1 .. Last(t) /\ ~(i <= k)
      BY <1>b, <1>f DEF CachedNow
    <3> QED
      BY <3>1 DEF PathBound
  <2> QED
    BY <2>1, <2>2 DEF Labelled
<1>7. \A i \in CachedNow(t, k) : nrev[cs[i]] = Prefix(t, i) /\ cs[i] \in DOMAIN nrev
  <2> SUFFICES ASSUME NEW i \in CachedNow(t, k)
               PROVE  nrev[cs[i]] = Prefix(t, i) /\ cs[i] \in DOMAIN nrev
    OBVIOUS
  <2>1. cs[i] \in Labelled(t, k, cs)
    BY DEF Labelled
  <2>2. PICK j \in CachedNow(t, k) : cs[j] = cs[i] /\ nrev[cs[i]] = Prefix(t, j)
    BY <1>4, <2>1
  <2>3. j = i
    BY <1>f, <2>2 DEF PathBound
  <2> QED
    BY <1>4, <2>1, <2>2, <2>3
<1>8. ASSUME NEW h \in DOMAIN nmap PROVE nmap[h] \in DOMAIN nrev /\ nrev[nmap[h]] = h
  <2>1. CASE h \in DOMAIN map
    <3>1. nmap[h] = map[h] /\ map[h] \in DOMAIN rev /\ rev[map[h]] = h
      BY <1>d, <1>e, <1>5, <2>1
    <3> HIDE DEF map, nmap, rev, nrev
    <3> QED
      BY <1>4, <1>6, <3>1
  <2>2. CASE h \in Hashes(t, k)
    <3>1. PICK i \in CachedNow(t, k) : h = Prefix(t, i)
      BY <2>2 DEF Hashes
    <3> HIDE DEF map, nmap, rev, nrev
    <3> QED
      BY <1>d, <1>7, <3>1
  <2> HIDE DEF map, nmap, rev, nrev
  <2> QED
    BY <1>d, <2>1, <2>2
<1>9. ASSUME NEW c \in DOMAIN nrev PROVE nrev[c] \in DOMAIN nmap /\ nmap[nrev[c]] = c
  <2> HIDE DEF map, nmap, rev, nrev
  <2>1. CASE c \in DOMAIN rev
    <3>1. nrev[c] = rev[c] /\ rev[c] \in DOMAIN map /\ map[rev[c]] = c
      BY <1>4, <1>5, <1>6, <2>1
    <3> QED
      BY <1>d, <1>e, <3>1
  <2>2. CASE c \in Labelled(t, k, cs)
    <3>1. PICK i \in CachedNow(t, k) : c = cs[i]
      BY <2>2 DEF Labelled
    <3>2. nrev[c] = Prefix(t, i)
      BY <1>7, <3>1
    <3> QED
      BY <1>d, <3>1, <3>2 DEF Hashes
  <2> QED
    BY <1>4, <2>1, <2>2
<1>10. CacheInverse'
  <2>1. ASSUME NEW i \in DOMAIN prefixMap'
        PROVE  /\ \A h \in DOMAIN (prefixMap'[i]) :
                     /\ prefixMap'[i][h] \in DOMAIN (prefixRev'[i])
                     /\ prefixRev'[i][prefixMap'[i][h]] = h
               /\ \A c \in DOMAIN (prefixRev'[i]) :
                     /\ prefixRev'[i][c] \in DOMAIN (prefixMap'[i])
                     /\ prefixMap'[i][prefixRev'[i][c]] = c
    <3>1. CASE i = id
      BY <1>8, <1>9, <3>1
    <3>2. CASE i # id
      <4>1. i \in DOMAIN prefixMap /\ i \in DOMAIN prefixRev
        BY <1>a, <1>c DEF MapBound
      <4>2. prefixMap'[i] = prefixMap[i] /\ prefixRev'[i] = prefixRev[i]
        BY <1>a, <3>2, <4>1 DEF MapBound, RevBound
      <4> QED
        BY <1>a, <4>1, <4>2 DEF CacheInverse
    <3> QED
      BY <3>1, <3>2
  <2> QED
    BY <2>1, Zenon DEF CacheInverse
<1> QED
  BY <1>3, <1>10

LEMMA BindTasks ==
  ASSUME SafeInv, PathInv, NEW t, NEW e, NEW k, NEW cs,
         Binding(t, e, k, cs), PathBound(t, e, k, cs),
         phase' = [phase EXCEPT ![t] = "bound"]
  PROVE  TaskOnOnePath' /\ TaskInjective' /\ PinnedRoots'
<1>a. /\ TypeOK /\ DOMAIN taskContexts = Tasks /\ LiveIffHeld
      /\ TaskOnOnePath /\ TaskInjective /\ PinnedRoots /\ TableBound(t, e, k, cs)
  BY BindFacts DEF SafeInv, PathInv
<1>b. /\ t \in Tasks /\ k \in Nat
      /\ cs \in [1 .. Last(t) -> ContextIds] /\ Last(t) \in Nat \ {0}
      /\ taskContexts' = [taskContexts EXCEPT ![t] = cs]
  BY ChainFacts DEF Binding, BindContexts
<1>c. /\ taskContexts'[t] = cs
      /\ \A u \in Tasks \ {t} : taskContexts'[u] = taskContexts[u] /\ phase'[u] = phase[u]
  BY <1>a, <1>b DEF TypeOK
<1>d. \A c \in DOMAIN contexts : c \in DOMAIN contexts' /\ contexts'[c] = contexts[c]
  BY <1>a DEF TableBound
<1>1. ASSUME NEW u \in Tasks, phase'[u] = "bound", NEW i \in 1 .. Last(u)
      PROVE  LET c == taskContexts'[u][i] IN
             /\ c \in DOMAIN contexts'
             /\ contexts'[c].parent = IF i = 1 THEN None ELSE taskContexts'[u][i - 1]
             /\ contexts'[c].engine = contexts'[taskContexts'[u][1]].engine
  <2>1. CASE u = t
    <3>1. 1 \in 1 .. Last(t)
      BY <1>b
    <3>2. /\ cs[i] \in DOMAIN contexts'
          /\ contexts'[cs[i]].engine = e
          /\ contexts'[cs[i]].parent = IF i = 1 THEN None ELSE cs[i - 1]
          /\ contexts'[cs[1]].engine = e
      BY <2>1, <3>1 DEF PathBound
    <3> QED
      BY <1>c, <2>1, <3>2
  <2>2. CASE u # t
    <3>1. phase[u] = "bound" /\ taskContexts'[u] = taskContexts[u]
      BY <1>1, <1>c, <2>2
    <3>2. 1 \in 1 .. Last(u)
      BY ChainFacts
    <3> DEFINE c == taskContexts[u][i]
               b == taskContexts[u][1]
    <3>3. /\ c \in DOMAIN contexts
          /\ contexts[c].parent = IF i = 1 THEN None ELSE taskContexts[u][i - 1]
          /\ contexts[c].engine = contexts[b].engine
          /\ b \in DOMAIN contexts
      BY <1>a, <3>1, <3>2 DEF TaskOnOnePath
    <3>4. contexts'[c] = contexts[c] /\ contexts'[b] = contexts[b] /\ c \in DOMAIN contexts'
      BY <1>d, <3>3
    <3> QED
      BY <3>1, <3>3, <3>4
  <2> QED
    BY <2>1, <2>2
<1>2. TaskOnOnePath'
  BY <1>1, Zenon DEF TaskOnOnePath
<1>3. TaskInjective'
  <2>1. ASSUME NEW u \in Tasks, phase'[u] = "bound",
               NEW i \in 1 .. Last(u), NEW j \in 1 .. Last(u),
               taskContexts'[u][i] = taskContexts'[u][j]
        PROVE  i = j
    <3>1. CASE u = t
      BY <1>c, <2>1, <3>1 DEF PathBound
    <3>2. CASE u # t
      BY <1>a, <1>c, <2>1, <3>2 DEF TaskInjective
    <3> QED
      BY <3>1, <3>2
  <2> QED
    BY <2>1 DEF TaskInjective
<1>4. PinnedRoots'
  <2>1. \A v \in DOMAIN constContexts : \A c \in constContexts[v] :
           c \in DOMAIN contexts /\ contexts[c].parent = None
    <3>1. \A v \in DOMAIN constContexts : \A c \in constContexts[v] :
             c \in ContextIds /\ v \in Pinners(c)
      BY <1>a DEF TypeOK, Pinners
    <3> QED
      BY <1>a, <3>1 DEF LiveIffHeld, PinnedRoots
  <2>2. \A v \in DOMAIN constContexts : \A c \in constContexts[v] : contexts'[c].parent = None
    BY <1>d, <2>1
  <2>3. CASE ~Pins(t, k)
    <3>1. constContexts' = constContexts
      BY <2>3 DEF Binding, BindContexts
    <3> QED
      BY <2>2, <3>1 DEF PinnedRoots
  <2>4. CASE Pins(t, k)
    <3> DEFINE v == Chain[t][1]
    <3>1. constContexts' = [w \in DOMAIN constContexts \cup {v} |->
             (IF w \in DOMAIN constContexts THEN constContexts[w] ELSE {})
             \cup (IF w = v THEN {cs[1]} ELSE {})]
      BY <2>4 DEF Binding, BindContexts
    <3>2. contexts'[cs[1]].parent = None
      <4>1. 1 \in 1 .. Last(t)
        BY <1>b
      <4> QED
        BY <4>1 DEF PathBound
    <3> HIDE DEF v
    <3>3. \A w \in DOMAIN constContexts' : \A c \in constContexts'[w] :
             c = cs[1] \/ (w \in DOMAIN constContexts /\ c \in constContexts[w])
      BY <3>1
    <3>4. \A w \in DOMAIN constContexts' : \A c \in constContexts'[w] : contexts'[c].parent = None
      BY <2>2, <3>2, <3>3
    <3> QED
      BY <3>4 DEF PinnedRoots
  <2> QED
    BY <2>3, <2>4
<1> QED
  BY <1>2, <1>3, <1>4

LEMMA BindKeepsPaths ==
  ASSUME SafeInv, PathInv, fused = {}, NEW t, NEW e, NEW k, NEW cs,
         BindStep(t, e, k, cs)
  PROVE  PathInv'
<1>1. /\ Binding(t, e, k, cs) /\ phase' = [phase EXCEPT ![t] = "bound"]
      /\ UNCHANGED <<registered, engineId>>
  BY DEF BindStep, engVars
<1>2. PathBound(t, e, k, cs)
  BY <1>1, BindPath
<1>3. RefsCountHolders' /\ LiveIffHeld'
  BY <1>1, <1>2, BindCounts
<1>4. CacheStep' /\ CacheInverse'
  BY <1>1, <1>2, BindCache
<1>5. TaskOnOnePath' /\ TaskInjective' /\ PinnedRoots'
  BY <1>1, <1>2, BindTasks
<1> QED
  BY <1>3, <1>4, <1>5 DEF PathInv

\* A live context that has a parent is used by a task, which uses the parent
\* too: only first nodes are pinned.
LEMMA ChildHasUser ==
  ASSUME SafeInv, PathInv, NEW d \in DOMAIN contexts, NEW c \in ContextIds,
         contexts[d].parent = c
  PROVE  /\ d \in ContextIds /\ Users(d) # {} /\ Pinners(d) = {}
         /\ Users(d) \subseteq Users(c)
         /\ \A t \in Users(d) :
               /\ phase[t] = "bound"
               /\ \E i \in 2 .. Last(t) : /\ taskContexts[t][i] = d
                                          /\ taskContexts[t][i - 1] = c
<1>a. TypeOK /\ LiveIffHeld /\ TaskOnOnePath /\ PinnedRoots
  BY DEF SafeInv, PathInv
<1>1. c # None
  BY ContextAssumption
<1>2. d \in ContextIds /\ Users(d) \cup Pinners(d) # {}
  BY <1>a DEF LiveIffHeld
<1>3. Pinners(d) = {}
  BY <1>a, <1>1 DEF PinnedRoots, Pinners
<1>4. ASSUME NEW t \in Users(d)
      PROVE  /\ phase[t] = "bound"
             /\ \E i \in 2 .. Last(t) : /\ taskContexts[t][i] = d
                                        /\ taskContexts[t][i - 1] = c
             /\ t \in Users(c)
  <2>1. t \in Tasks /\ d \in RangeOf(taskContexts[t])
    BY DEF Users, Held
  <2>2. phase[t] = "bound"
    <3>1. phase[t] # "bound" => taskContexts[t] = <<>>
      BY <1>a, <2>1 DEF TypeOK
    <3>2. taskContexts[t] # <<>>
      BY <2>1 DEF RangeOf
    <3> QED
      BY <3>1, <3>2
  <2>3. taskContexts[t] \in [1 .. Last(t) -> ContextIds] /\ Last(t) \in Nat \ {0}
    BY <1>a, <2>1, <2>2, ChainFacts DEF TypeOK
  <2>4. PICK i \in 1 .. Last(t) : taskContexts[t][i] = d
    BY <2>1, <2>3 DEF RangeOf
  <2>5. contexts[d].parent = IF i = 1 THEN None ELSE taskContexts[t][i - 1]
    BY <1>a, <2>1, <2>2, <2>4 DEF TaskOnOnePath
  <2>6. i # 1 /\ taskContexts[t][i - 1] = c
    BY <1>1, <2>5
  <2>7. i \in 2 .. Last(t) /\ i - 1 \in 1 .. Last(t)
    BY <2>3, <2>6
  <2>8. t \in Users(c)
    BY <2>1, <2>3, <2>6, <2>7 DEF Users, Held, RangeOf
  <2> QED
    BY <2>2, <2>4, <2>6, <2>7, <2>8
<1> QED
  BY <1>2, <1>3, <1>4

\* Two different holders make a count of at least two.
LEMMA TwoHolders ==
  ASSUME SafeInv, NEW c \in ContextIds, Holders(c) <= 1
  PROVE  /\ \A t, u \in Users(c) : t = u
         /\ Users(c) # {} => Pinners(c) = {}
<1>a. IsFiniteSet(Users(c)) /\ IsFiniteSet(Pinners(c))
  BY DEF SafeInv, HoldersFinite
<1>b. Cardinality(Users(c)) \in Nat /\ Cardinality(Pinners(c)) \in Nat
  BY <1>a, FS_CardinalityType
<1>1. ASSUME NEW t \in Users(c), NEW u \in Users(c), t # u PROVE FALSE
  <2>1. /\ IsFiniteSet(Users(c) \ {t})
        /\ Cardinality(Users(c) \ {t}) = Cardinality(Users(c)) - 1
    BY <1>a, DropOne
  <2>2. u \in Users(c) \ {t}
    BY <1>1
  <2>3. Cardinality(Users(c) \ {t}) > 0
    BY <2>1, <2>2, DropOne
  <2> QED
    BY <1>b, <2>1, <2>3 DEF Holders
<1>2. ASSUME Users(c) # {}, Pinners(c) # {} PROVE FALSE
  <2>1. Cardinality(Users(c)) # 0 /\ Cardinality(Pinners(c)) # 0
    BY <1>a, <1>2, FS_EmptySet
  <2> QED
    BY <1>b, <2>1 DEF Holders
<1> QED
  BY <1>1, <1>2

\* Everything below a released context is released with it.
ReleasedBelow(S) ==
    \A c \in Released(S), d \in DOMAIN contexts :
        contexts[d].parent = c => d \in Released(S)

LEMMA TaskReleasesBelow ==
  ASSUME SafeInv, PathInv, NEW t \in Tasks, phase[t] = "bound"
  PROVE  ReleasedBelow(Held(t)) /\ ChildrenFreedFirst
<1>a. TypeOK /\ RefsCountHolders /\ LiveIffHeld /\ TaskInjective
  BY DEF SafeInv, PathInv
<1>1. ASSUME NEW u \in Tasks, phase[u] = "bound",
             NEW c \in Released(Held(u)), NEW d \in DOMAIN contexts,
             contexts[d].parent = c
      PROVE  d \in Released(Held(u)) /\ FreedBefore(u, d, c)
  <2>1. Last(u) \in Nat /\ taskContexts[u] \in [1 .. Last(u) -> ContextIds]
    BY <1>1, <1>a, ChainFacts DEF TypeOK
  <2>2. c \in ContextIds /\ c \in Held(u) /\ refCounter[c] <= 1
    BY <2>1 DEF Released, Held, RangeOf
  <2>3. Holders(c) <= 1
    BY <1>a, <2>2 DEF RefsCountHolders, Holders
  <2>4. u \in Users(c)
    BY <2>2 DEF Users
  <2>5. /\ d \in ContextIds /\ Users(d) # {} /\ Pinners(d) = {}
        /\ Users(d) \subseteq Users(c)
        /\ \A w \in Users(d) : \E i \in 2 .. Last(w) :
              /\ taskContexts[w][i] = d
              /\ taskContexts[w][i - 1] = c
    BY <1>1, <2>2, ChildHasUser
  <2>6. \A w \in Users(c) : w = u
    BY <2>2, <2>3, <2>4, TwoHolders
  <2>7. Users(d) = {u}
    BY <2>5, <2>6
  <2>8. refCounter[d] = 1
    <3>1. Cardinality(Users(d)) = 1 /\ Cardinality(Pinners(d)) = 0
      BY <2>5, <2>7, FS_Singleton, FS_EmptySet
    <3>2. refCounter[d] = Cardinality(Users(d)) + Cardinality(Pinners(d))
      BY <1>a, <2>5 DEF RefsCountHolders
    <3> QED
      BY <3>1, <3>2
  <2>9. d \in Released(Held(u))
    BY <2>7, <2>8 DEF Released, Users
  <2>10. FreedBefore(u, d, c)
    <3>1. PICK i \in 2 .. Last(u) : taskContexts[u][i] = d /\ taskContexts[u][i - 1] = c
      BY <2>5, <2>7
    <3>2. i \in 1 .. Last(u) /\ i - 1 \in 1 .. Last(u) /\ i - 1 < i
      BY <2>1
    <3>3. \A j \in 1 .. Last(u) : taskContexts[u][j] = c => j = i - 1
      BY <1>1, <1>a, <3>1, <3>2 DEF TaskInjective
    <3>4. DOMAIN taskContexts[u] = 1 .. Last(u)
      BY <2>1
    <3> QED
      BY <3>1, <3>2, <3>3, <3>4 DEF FreedBefore
  <2> QED
    BY <2>9, <2>10
<1>2. ReleasedBelow(Held(t))
  BY <1>1 DEF ReleasedBelow
<1>3. ChildrenFreedFirst
  BY <1>1, Zenon DEF ChildrenFreedFirst
<1> QED
  BY <1>2, <1>3

LEMMA PinReleasesNothingBelow ==
  ASSUME SafeInv, PathInv
  PROVE  ExpiryLeavesNoOrphan
<1>a. TypeOK /\ RefsCountHolders
  BY DEF SafeInv, PathInv
<1>1. ASSUME NEW v \in DOMAIN constContexts, NEW c \in Released(constContexts[v]),
             NEW d \in DOMAIN contexts, contexts[d].parent = c
      PROVE  FALSE
  <2>1. c \in ContextIds /\ c \in constContexts[v] /\ refCounter[c] <= 1
    BY <1>a DEF Released, TypeOK
  <2>2. Holders(c) <= 1
    BY <1>a, <2>1 DEF RefsCountHolders, Holders
  <2>3. Users(d) # {} /\ Users(d) \subseteq Users(c)
    BY <1>1, <2>1, ChildHasUser
  <2>4. v \in Pinners(c)
    BY <2>1 DEF Pinners
  <2>5. Users(c) # {}
    BY <2>3
  <2>6. Pinners(c) = {}
    BY <2>1, <2>2, <2>5, TwoHolders
  <2> QED
    BY <2>4, <2>6
<1> QED
  BY <1>1 DEF ExpiryLeavesNoOrphan

\* What freeing leaves of the prefix caches: exactly the entries of the
\* contexts that are not released.
LEMMA FreeCaches ==
  ASSUME SafeInv, PathInv, NEW S, FreeContexts(S)
  PROVE  /\ DOMAIN prefixMap' = DOMAIN prefixMap /\ DOMAIN prefixRev' = DOMAIN prefixRev
         /\ \A i \in DOMAIN prefixMap :
               /\ \A h : h \in DOMAIN (prefixMap'[i]) <=>
                           h \in DOMAIN prefixMap[i] /\ prefixMap[i][h] \notin Released(S)
               /\ \A h \in DOMAIN (prefixMap'[i]) : prefixMap'[i][h] = prefixMap[i][h]
               /\ \A c : c \in DOMAIN (prefixRev'[i]) <=>
                           c \in DOMAIN prefixRev[i] /\ c \notin Released(S)
               /\ \A c \in DOMAIN (prefixRev'[i]) : prefixRev'[i][c] = prefixRev[i][c]
<1>a. TypeOK /\ CacheStep /\ CacheInverse
  BY DEF SafeInv, PathInv
<1>b. DOMAIN prefixRev = DOMAIN prefixMap
  BY <1>a DEF TypeOK
<1> DEFINE gone == Released(S)
           goneOn(i) == {c \in gone : engineId[contexts[c].engine] = i}
           unhashed(i) == {prefixRev[i][c] : c \in goneOn(i) \cap DOMAIN prefixRev[i]}
<1>1. /\ prefixMap' = [i \in DOMAIN prefixMap |->
           [h \in DOMAIN prefixMap[i] \ unhashed(i) |-> prefixMap[i][h]]]
      /\ prefixRev' = [i \in DOMAIN prefixRev |->
           [c \in DOMAIN prefixRev[i] \ goneOn(i) |-> prefixRev[i][c]]]
  BY DEF FreeContexts
<1>2. ASSUME NEW i \in DOMAIN prefixMap
      PROVE  /\ DOMAIN (prefixMap'[i]) = DOMAIN prefixMap[i] \ unhashed(i)
             /\ \A h \in DOMAIN (prefixMap'[i]) : prefixMap'[i][h] = prefixMap[i][h]
             /\ DOMAIN (prefixRev'[i]) = DOMAIN prefixRev[i] \ goneOn(i)
             /\ \A c \in DOMAIN (prefixRev'[i]) : prefixRev'[i][c] = prefixRev[i][c]
  <2> HIDE DEF goneOn, unhashed
  <2> QED
    BY <1>1, <1>b
<1>3. ASSUME NEW i \in DOMAIN prefixMap
      PROVE  /\ \A h \in DOMAIN prefixMap[i] :
                   /\ engineId[contexts[prefixMap[i][h]].engine] = i
                   /\ prefixMap[i][h] \in DOMAIN prefixRev[i]
                   /\ prefixRev[i][prefixMap[i][h]] = h
             /\ \A c \in DOMAIN prefixRev[i] :
                   /\ prefixRev[i][c] \in DOMAIN prefixMap[i]
                   /\ prefixMap[i][prefixRev[i][c]] = c
  <2>1. PICK e \in registered : i = engineId[e]
    BY <1>a DEF TypeOK
  <2>2. \A h \in DOMAIN prefixMap[i] : contexts[prefixMap[i][h]].engine = e
    BY <1>a, <2>1 DEF CacheStep
  <2> QED
    BY <1>a, <2>1, <2>2 DEF CacheInverse
<1>4. ASSUME NEW i \in DOMAIN prefixMap, NEW c \in DOMAIN prefixRev[i]
      PROVE  c \in goneOn(i) <=> c \in gone
  BY <1>3
<1>5. ASSUME NEW i \in DOMAIN prefixMap, NEW h \in DOMAIN prefixMap[i]
      PROVE  h \in unhashed(i) <=> prefixMap[i][h] \in gone
  <2> HIDE DEF goneOn, gone
  <2>1. ASSUME h \in unhashed(i) PROVE prefixMap[i][h] \in gone
    <3>1. PICK c \in goneOn(i) \cap DOMAIN prefixRev[i] : h = prefixRev[i][c]
      BY <2>1
    <3> QED
      BY <1>3, <1>4, <3>1
  <2>2. ASSUME prefixMap[i][h] \in gone PROVE h \in unhashed(i)
    <3>1. prefixMap[i][h] \in DOMAIN prefixRev[i] /\ prefixRev[i][prefixMap[i][h]] = h
      BY <1>3
    <3> QED
      BY <1>4, <2>2, <3>1
  <2> QED
    BY <2>1, <2>2
<1>6. DOMAIN prefixMap' = DOMAIN prefixMap /\ DOMAIN prefixRev' = DOMAIN prefixRev
  BY <1>1
<1> HIDE DEF goneOn, unhashed
<1>7. ASSUME NEW i \in DOMAIN prefixMap, NEW h
      PROVE  h \in DOMAIN (prefixMap'[i]) <=>
               h \in DOMAIN prefixMap[i] /\ prefixMap[i][h] \notin Released(S)
  BY <1>2, <1>5
<1>8. ASSUME NEW i \in DOMAIN prefixMap, NEW c
      PROVE  c \in DOMAIN (prefixRev'[i]) <=>
               c \in DOMAIN prefixRev[i] /\ c \notin Released(S)
  BY <1>2, <1>4
<1> QED
  BY <1>2, <1>6, <1>7, <1>8

LEMMA FreeKeepsPaths ==
  ASSUME SafeInv, PathInv, SafeInv', NEW S, S \subseteq ContextIds, GivenBack(S),
         FreeContexts(S), ReleasedBelow(S), UNCHANGED <<registered, engineId>>,
         \A u \in Tasks : phase'[u] = "bound" =>
            phase[u] = "bound" /\ taskContexts'[u] = taskContexts[u],
         \A v \in DOMAIN constContexts' :
            v \in DOMAIN constContexts /\ constContexts'[v] = constContexts[v]
  PROVE  PathInv'
<1>a. /\ TypeOK /\ RefsCountHolders /\ LiveIffHeld /\ CacheStep /\ CacheInverse
      /\ TaskOnOnePath /\ TaskInjective /\ PinnedRoots /\ HoldersFinite
  BY DEF SafeInv, PathInv
<1>b. TypeOK' /\ HoldersFinite'
  BY DEF SafeInv
<1>c. /\ contexts' = [c \in DOMAIN contexts \ Released(S) |-> contexts[c]]
      /\ refCounter' = [c \in ContextIds |->
                          IF c \in S THEN refCounter[c] - 1 ELSE refCounter[c]]
  BY DEF FreeContexts
<1>1. ASSUME NEW c \in ContextIds
      PROVE  /\ refCounter'[c] = Cardinality(Users(c)') + Cardinality(Pinners(c)')
             /\ c \in DOMAIN contexts' <=> Users(c)' \cup Pinners(c)' # {}
  <2> DEFINE n == Cardinality(Users(c)') + Cardinality(Pinners(c)')
  <2>1. /\ n = Holders(c) - (IF c \in S THEN 1 ELSE 0)
        /\ c \in S => Holders(c) >= 1
        /\ IsFiniteSet(Users(c)') /\ IsFiniteSet(Pinners(c)')
    BY DEF GivenBack
  <2>2. refCounter[c] = Holders(c) /\ Holders(c) \in Nat
    BY <1>a, HoldersFacts DEF RefsCountHolders, Holders
  <2>3. refCounter'[c] = n
    <3>1. refCounter'[c] = IF c \in S THEN refCounter[c] - 1 ELSE refCounter[c]
      BY <1>c
    <3> HIDE DEF n
    <3> QED
      BY <2>1, <2>2, <3>1
  <2>4. n = 0 <=> Users(c)' \cup Pinners(c)' = {}
    <3>1. /\ Cardinality(Users(c)') \in Nat /\ Cardinality(Pinners(c)') \in Nat
          /\ Cardinality(Users(c)') = 0 <=> Users(c)' = {}
          /\ Cardinality(Pinners(c)') = 0 <=> Pinners(c)' = {}
      BY <2>1, FS_CardinalityType, FS_EmptySet
    <3>2. n = 0 <=> Cardinality(Users(c)') = 0 /\ Cardinality(Pinners(c)') = 0
      BY <3>1
    <3> QED
      BY <3>1, <3>2
  <2>5. c \in DOMAIN contexts <=> Holders(c) # 0
    <3>1. c \in DOMAIN contexts <=> Users(c) \cup Pinners(c) # {}
      BY <1>a DEF LiveIffHeld
    <3>2. Holders(c) = 0 <=> Users(c) = {} /\ Pinners(c) = {}
      BY <1>a, HoldersFacts
    <3> QED
      BY <3>1, <3>2
  <2>6. c \in Released(S) <=> c \in S /\ refCounter[c] <= 1
    BY DEF Released
  <2>7. c \in DOMAIN contexts' <=> c \in DOMAIN contexts /\ c \notin Released(S)
    BY <1>c
  <2>8. c \in DOMAIN contexts' <=> n # 0
    <3> HIDE DEF n
    <3> QED
      BY <2>1, <2>2, <2>5, <2>6, <2>7
  <2> QED
    BY <2>3, <2>4, <2>8
<1>2. RefsCountHolders'
  <2>1. \A c \in ContextIds :
           refCounter'[c] = Cardinality(Users(c)') + Cardinality(Pinners(c)')
    BY <1>1
  <2> QED
    BY <2>1 DEF RefsCountHolders
<1>3. LiveIffHeld'
  <2>1. DOMAIN contexts' \subseteq ContextIds
    BY <1>b DEF TypeOK
  <2>2. DOMAIN contexts' = {c \in ContextIds : Users(c)' \cup Pinners(c)' # {}}
    BY <1>1, <2>1
  <2> QED
    BY <2>2 DEF LiveIffHeld
<1>d. \A c \in DOMAIN contexts' : c \in DOMAIN contexts /\ contexts'[c] = contexts[c]
  BY <1>c
<1>e. /\ DOMAIN prefixMap' = DOMAIN prefixMap /\ DOMAIN prefixRev' = DOMAIN prefixRev
      /\ \A i \in DOMAIN prefixMap :
            /\ \A h : h \in DOMAIN (prefixMap'[i]) <=>
                        h \in DOMAIN prefixMap[i] /\ prefixMap[i][h] \notin Released(S)
            /\ \A h \in DOMAIN (prefixMap'[i]) : prefixMap'[i][h] = prefixMap[i][h]
            /\ \A c : c \in DOMAIN (prefixRev'[i]) <=>
                        c \in DOMAIN prefixRev[i] /\ c \notin Released(S)
            /\ \A c \in DOMAIN (prefixRev'[i]) : prefixRev'[i][c] = prefixRev[i][c]
  BY FreeCaches
<1>4. ASSUME NEW f \in registered, NEW h \in DOMAIN (prefixMap'[engineId[f]])
      PROVE  LET m == prefixMap'[engineId[f]] IN
             /\ h # <<>>
             /\ m[h] \in DOMAIN contexts'
             /\ contexts'[m[h]].engine = f
             /\ Len(h) # 1 => Shorter(h) \in DOMAIN m
             /\ contexts'[m[h]].parent = IF Len(h) = 1 THEN None ELSE m[Shorter(h)]
  <2> DEFINE i == engineId[f]
             map == prefixMap[i]
             nmap == prefixMap'[i]
  <2>1. i \in DOMAIN prefixMap
    BY <1>a DEF TypeOK
  <2>2. /\ \A g : g \in DOMAIN nmap <=> g \in DOMAIN map /\ map[g] \notin Released(S)
        /\ \A g \in DOMAIN nmap : nmap[g] = map[g]
    BY <1>e, <2>1
  <2>3. h \in DOMAIN map /\ map[h] \notin Released(S) /\ nmap[h] = map[h]
    BY <2>2
  <2>4. /\ h # <<>>
        /\ map[h] \in DOMAIN contexts
        /\ contexts[map[h]].engine = f
        /\ Len(h) # 1 => Shorter(h) \in DOMAIN map
        /\ contexts[map[h]].parent = IF Len(h) = 1 THEN None ELSE map[Shorter(h)]
    BY <1>a, <2>3 DEF CacheStep
  <2> HIDE DEF map, nmap
  <2>5. map[h] \in DOMAIN contexts' /\ contexts'[map[h]] = contexts[map[h]]
    BY <1>c, <2>3, <2>4
  <2>6. Len(h) # 1 => Shorter(h) \in DOMAIN nmap /\ nmap[Shorter(h)] = map[Shorter(h)]
    <3> SUFFICES ASSUME Len(h) # 1
                 PROVE  Shorter(h) \in DOMAIN nmap /\ nmap[Shorter(h)] = map[Shorter(h)]
      OBVIOUS
    <3>1. map[Shorter(h)] \notin Released(S)
      BY <2>3, <2>4 DEF ReleasedBelow
    <3> QED
      BY <2>2, <2>4, <3>1
  <2> QED
    BY <2>3, <2>4, <2>5, <2>6 DEF nmap
<1>5. CacheStep'
  <2>1. \A f \in registered' : \A h \in DOMAIN (prefixMap'[engineId'[f]]) :
             LET m == prefixMap'[engineId'[f]] IN
             /\ h # <<>>
             /\ m[h] \in DOMAIN contexts'
             /\ contexts'[m[h]].engine = f
             /\ Len(h) # 1 => Shorter(h) \in DOMAIN m
             /\ contexts'[m[h]].parent = IF Len(h) = 1 THEN None ELSE m[Shorter(h)]
    BY <1>4
  <2> QED
    BY <2>1, Zenon DEF CacheStep
<1>6. CacheInverse'
  <2>1. ASSUME NEW i \in DOMAIN prefixMap
        PROVE  /\ \A h \in DOMAIN (prefixMap'[i]) :
                     /\ prefixMap'[i][h] \in DOMAIN (prefixRev'[i])
                     /\ prefixRev'[i][prefixMap'[i][h]] = h
               /\ \A c \in DOMAIN (prefixRev'[i]) :
                     /\ prefixRev'[i][c] \in DOMAIN (prefixMap'[i])
                     /\ prefixMap'[i][prefixRev'[i][c]] = c
    BY <1>a, <1>e DEF CacheInverse
  <2>2. \A i \in DOMAIN prefixMap' :
               /\ \A h \in DOMAIN (prefixMap'[i]) :
                     /\ prefixMap'[i][h] \in DOMAIN (prefixRev'[i])
                     /\ prefixRev'[i][prefixMap'[i][h]] = h
               /\ \A c \in DOMAIN (prefixRev'[i]) :
                     /\ prefixRev'[i][c] \in DOMAIN (prefixMap'[i])
                     /\ prefixMap'[i][prefixRev'[i][c]] = c
    BY <1>e, <2>1
  <2> QED
    BY <2>2, Zenon DEF CacheInverse
<1>7. ASSUME NEW u \in Tasks, phase'[u] = "bound", NEW i \in 1 .. Last(u)
      PROVE  LET c == taskContexts'[u][i] IN
             /\ c \in DOMAIN contexts'
             /\ contexts'[c].parent = IF i = 1 THEN None ELSE taskContexts'[u][i - 1]
             /\ contexts'[c].engine = contexts'[taskContexts'[u][1]].engine
  <2>1. phase[u] = "bound" /\ taskContexts'[u] = taskContexts[u]
    BY <1>7
  <2>2. taskContexts[u] \in [1 .. Last(u) -> ContextIds] /\ 1 \in 1 .. Last(u)
    BY <1>a, <2>1, ChainFacts DEF TypeOK
  <2>3. ASSUME NEW j \in 1 .. Last(u) PROVE taskContexts[u][j] \in DOMAIN contexts'
    <3>1. taskContexts[u][j] \in ContextIds
      BY <2>2
    <3>2. DOMAIN contexts' = {c \in ContextIds : Users(c)' \cup Pinners(c)' # {}}
      BY <1>3 DEF LiveIffHeld
    <3>3. taskContexts[u][j] \in RangeOf(taskContexts'[u])
      BY <2>1, <2>2 DEF RangeOf
    <3>4. \A c \in ContextIds : c \in RangeOf(taskContexts'[u]) => u \in Users(c)'
      BY DEF Users, Held
    <3> QED
      BY <3>1, <3>2, <3>3, <3>4
  <2> DEFINE c == taskContexts[u][i]
             b == taskContexts[u][1]
  <2>4. /\ contexts[c].parent = IF i = 1 THEN None ELSE taskContexts[u][i - 1]
        /\ contexts[c].engine = contexts[b].engine
    BY <1>a, <2>1 DEF TaskOnOnePath
  <2>5. c \in DOMAIN contexts' /\ contexts'[c] = contexts[c] /\ contexts'[b] = contexts[b]
    BY <1>d, <2>2, <2>3
  <2> QED
    BY <2>1, <2>4, <2>5
<1>8. TaskOnOnePath'
  BY <1>7, Zenon DEF TaskOnOnePath
<1>9. TaskInjective'
  BY <1>a DEF TaskInjective
<1>10. PinnedRoots'
  <2>1. ASSUME NEW v \in DOMAIN constContexts', NEW c \in constContexts'[v]
        PROVE  contexts'[c].parent = None
    <3>1. v \in DOMAIN constContexts /\ c \in constContexts[v]
      OBVIOUS
    <3>2. contexts[c].parent = None /\ c \in ContextIds
      BY <1>a, <3>1 DEF PinnedRoots, TypeOK
    <3>3. \A x \in ContextIds : x \in constContexts'[v] => v \in Pinners(x)'
      BY DEF Pinners
    <3>4. DOMAIN contexts' = {x \in ContextIds : Users(x)' \cup Pinners(x)' # {}}
      BY <1>3 DEF LiveIffHeld
    <3>5. c \in DOMAIN contexts'
      BY <3>2, <3>3, <3>4
    <3> QED
      BY <1>d, <3>2, <3>5
  <2> QED
    BY <2>1 DEF PinnedRoots
<1> QED
  BY <1>2, <1>3, <1>5, <1>6, <1>8, <1>9, <1>10 DEF PathInv

\* A step that leaves the tables of contexts, the tasks that use them and the
\* constants that pin them alone.
LEMMA PathsUnchanged ==
  ASSUME SafeInv, PathInv,
         \A t \in Tasks : phase'[t] = "bound" <=> phase[t] = "bound",
         UNCHANGED <<taskContexts, contexts, refCounter, constContexts>>
  PROVE  /\ RefsCountHolders' /\ LiveIffHeld'
         /\ TaskOnOnePath' /\ TaskInjective' /\ PinnedRoots'
<1>a. /\ RefsCountHolders /\ LiveIffHeld
      /\ TaskOnOnePath /\ TaskInjective /\ PinnedRoots
  BY DEF PathInv
<1>1. \A c : Users(c)' = Users(c) /\ Pinners(c)' = Pinners(c)
  BY DEF Users, Pinners, Held, RangeOf
<1>2. RefsCountHolders'
  <2>1. \A c \in ContextIds :
           refCounter'[c] = Cardinality(Users(c)') + Cardinality(Pinners(c)')
    BY <1>a, <1>1 DEF RefsCountHolders
  <2> QED
    BY <2>1 DEF RefsCountHolders
<1>3. LiveIffHeld'
  <2>1. DOMAIN contexts' = {c \in ContextIds : Users(c)' \cup Pinners(c)' # {}}
    BY <1>a, <1>1 DEF LiveIffHeld
  <2> QED
    BY <2>1 DEF LiveIffHeld
<1>4. TaskOnOnePath' /\ TaskInjective' /\ PinnedRoots'
  BY <1>a DEF TaskOnOnePath, TaskInjective, PinnedRoots
<1> QED
  BY <1>2, <1>3, <1>4

LEMMA QuietKeepsPaths ==
  ASSUME SafeInv, PathInv, QuietStep
  PROVE  PathInv'
<1>a. /\ UNCHANGED <<taskContexts, contexts, refCounter, prefixMap, prefixRev,
                     constContexts, engineId, registered>>
      /\ \A t \in Tasks : phase'[t] = "bound" <=> phase[t] = "bound"
  BY DEF QuietStep, ctxVars, cacheVars
<1>1. /\ RefsCountHolders' /\ LiveIffHeld'
      /\ TaskOnOnePath' /\ TaskInjective' /\ PinnedRoots'
  BY <1>a, PathsUnchanged
<1>2. CacheStep' /\ CacheInverse'
  BY <1>a DEF PathInv, CacheStep, CacheInverse
<1> QED
  BY <1>1, <1>2 DEF PathInv

LEMMA RegisterKeepsPaths ==
  ASSUME SafeInv, PathInv, NEW e \in Engines, NEW id \in EngineIds,
         RegisterEngine(e, id)
  PROVE  PathInv'
<1>a. CachesTyped /\ EnginesTyped /\ CacheStep /\ CacheInverse
  BY TypeParts DEF SafeInv, PathInv
<1>b. /\ engineId[e] = None
      /\ \A f \in registered : engineId[f] # id
      /\ engineId' = [engineId EXCEPT ![e] = id]
      /\ registered' = registered \cup {e}
      /\ prefixMap' = [i \in DOMAIN prefixMap \cup {id} |->
                       IF i = id THEN [h \in {} |-> None] ELSE prefixMap[i]]
      /\ prefixRev' = [i \in DOMAIN prefixRev \cup {id} |->
                       IF i = id THEN [c \in {} |-> None] ELSE prefixRev[i]]
      /\ UNCHANGED <<phase, taskContexts, contexts, refCounter, constContexts>>
  BY DEF RegisterEngine, taskVars, ctxVars, constPVars
<1>c. e \notin registered
  BY <1>a, <1>b, ContextAssumption DEF EnginesTyped
<1>d. engineId'[e] = id /\ \A f \in registered : engineId'[f] = engineId[f]
  BY <1>a, <1>b, <1>c DEF EnginesTyped
<1>e. /\ DOMAIN (prefixMap'[id]) = {} /\ DOMAIN (prefixRev'[id]) = {}
      /\ \A i \in DOMAIN prefixMap' : i # id =>
            /\ i \in DOMAIN prefixMap
            /\ prefixMap'[i] = prefixMap[i] /\ prefixRev'[i] = prefixRev[i]
  <2>1. prefixMap'[id] = [h \in {} |-> None] /\ prefixRev'[id] = [c \in {} |-> None]
    BY <1>b
  <2>2. \A i \in DOMAIN prefixMap' : i # id =>
            /\ i \in DOMAIN prefixMap
            /\ prefixMap'[i] = prefixMap[i] /\ prefixRev'[i] = prefixRev[i]
    BY <1>a, <1>b DEF CachesTyped
  <2> QED
    BY <2>1, <2>2
<1>f. \A f \in registered : engineId[f] \in DOMAIN prefixMap'
  BY <1>a, <1>b DEF CachesTyped
<1>1. CacheStep'
  <2>1. ASSUME NEW f \in registered', NEW h \in DOMAIN (prefixMap'[engineId'[f]])
        PROVE  LET m == prefixMap'[engineId'[f]] IN
             /\ h # <<>>
             /\ m[h] \in DOMAIN contexts'
             /\ contexts'[m[h]].engine = f
             /\ Len(h) # 1 => Shorter(h) \in DOMAIN m
             /\ contexts'[m[h]].parent = IF Len(h) = 1 THEN None ELSE m[Shorter(h)]
    <3>1. f # e
      BY <1>d, <1>e
    <3>2. /\ f \in registered /\ engineId'[f] = engineId[f]
          /\ prefixMap'[engineId[f]] = prefixMap[engineId[f]]
      BY <1>b, <1>d, <1>e, <1>f, <3>1
    <3>3. LET m == prefixMap[engineId[f]] IN
             /\ h # <<>>
             /\ m[h] \in DOMAIN contexts
             /\ contexts[m[h]].engine = f
             /\ Len(h) # 1 => Shorter(h) \in DOMAIN m
             /\ contexts[m[h]].parent = IF Len(h) = 1 THEN None ELSE m[Shorter(h)]
      BY <1>a, <3>2 DEF CacheStep
    <3> QED
      BY <1>b, <3>2, <3>3
  <2> QED
    BY <2>1, Zenon DEF CacheStep
<1>2. CacheInverse'
  <2>1. ASSUME NEW i \in DOMAIN prefixMap'
        PROVE  /\ \A h \in DOMAIN (prefixMap'[i]) :
                     /\ prefixMap'[i][h] \in DOMAIN (prefixRev'[i])
                     /\ prefixRev'[i][prefixMap'[i][h]] = h
               /\ \A c \in DOMAIN (prefixRev'[i]) :
                     /\ prefixRev'[i][c] \in DOMAIN (prefixMap'[i])
                     /\ prefixMap'[i][prefixRev'[i][c]] = c
    <3>1. CASE i = id
      BY <1>e, <3>1
    <3>2. CASE i # id
      BY <1>a, <1>e, <3>2 DEF CacheInverse
    <3> QED
      BY <3>1, <3>2
  <2> QED
    BY <2>1, Zenon DEF CacheInverse
<1>3. /\ RefsCountHolders' /\ LiveIffHeld'
      /\ TaskOnOnePath' /\ TaskInjective' /\ PinnedRoots'
  BY <1>b, PathsUnchanged
<1> QED
  BY <1>1, <1>2, <1>3 DEF PathInv

LEMMA RemoveKeepsPaths ==
  ASSUME SafeInv, PathInv, NEW e \in Engines, RemoveEngine(e)
  PROVE  PathInv'
<1>a. CachesTyped /\ EnginesDistinct /\ CacheStep /\ CacheInverse
  BY TypeParts DEF SafeInv, PathInv
<1>b. /\ e \in registered
      /\ registered' = registered \ {e}
      /\ prefixMap' = [i \in DOMAIN prefixMap \ {engineId[e]} |-> prefixMap[i]]
      /\ prefixRev' = [i \in DOMAIN prefixRev \ {engineId[e]} |-> prefixRev[i]]
      /\ UNCHANGED <<phase, taskContexts, contexts, refCounter, constContexts, engineId>>
  BY DEF RemoveEngine, taskVars, ctxVars, constPVars
<1>c. \A i \in DOMAIN prefixMap' :
         i \in DOMAIN prefixMap /\ prefixMap'[i] = prefixMap[i] /\ prefixRev'[i] = prefixRev[i]
  BY <1>a, <1>b DEF CachesTyped
<1>d. \A f \in registered' : f \in registered /\ engineId[f] \in DOMAIN prefixMap'
  BY <1>a, <1>b DEF CachesTyped, EnginesDistinct
<1>1. CacheStep'
  <2>1. ASSUME NEW f \in registered', NEW h \in DOMAIN (prefixMap'[engineId'[f]])
        PROVE  LET m == prefixMap'[engineId'[f]] IN
             /\ h # <<>>
             /\ m[h] \in DOMAIN contexts'
             /\ contexts'[m[h]].engine = f
             /\ Len(h) # 1 => Shorter(h) \in DOMAIN m
             /\ contexts'[m[h]].parent = IF Len(h) = 1 THEN None ELSE m[Shorter(h)]
    <3>2. /\ f \in registered /\ engineId'[f] = engineId[f]
          /\ prefixMap'[engineId[f]] = prefixMap[engineId[f]]
      BY <1>b, <1>c, <1>d
    <3>3. LET m == prefixMap[engineId[f]] IN
             /\ h # <<>>
             /\ m[h] \in DOMAIN contexts
             /\ contexts[m[h]].engine = f
             /\ Len(h) # 1 => Shorter(h) \in DOMAIN m
             /\ contexts[m[h]].parent = IF Len(h) = 1 THEN None ELSE m[Shorter(h)]
      BY <1>a, <3>2 DEF CacheStep
    <3> QED
      BY <1>b, <3>2, <3>3
  <2> QED
    BY <2>1, Zenon DEF CacheStep
<1>2. CacheInverse'
  <2>1. ASSUME NEW i \in DOMAIN prefixMap'
        PROVE  /\ \A h \in DOMAIN (prefixMap'[i]) :
                     /\ prefixMap'[i][h] \in DOMAIN (prefixRev'[i])
                     /\ prefixRev'[i][prefixMap'[i][h]] = h
               /\ \A c \in DOMAIN (prefixRev'[i]) :
                     /\ prefixRev'[i][c] \in DOMAIN (prefixMap'[i])
                     /\ prefixMap'[i][prefixRev'[i][c]] = c
    BY <1>a, <1>c DEF CacheInverse
  <2> QED
    BY <2>1, Zenon DEF CacheInverse
<1>3. /\ RefsCountHolders' /\ LiveIffHeld'
      /\ TaskOnOnePath' /\ TaskInjective' /\ PinnedRoots'
  BY <1>b, PathsUnchanged
<1> QED
  BY <1>1, <1>2, <1>3 DEF PathInv

LEMMA FreeTaskKeepsPaths ==
  ASSUME SafeInv, PathInv, SafeInv', NEW t \in Tasks, FreeTaskContexts(t)
  PROVE  PathInv'
<1>a. TasksTyped /\ DOMAIN taskContexts = Tasks
  BY TypeParts DEF SafeInv
<1>b. /\ phase[t] = "bound" /\ FreeContexts(Held(t))
      /\ phase' = [phase EXCEPT ![t] = "freed"]
      /\ taskContexts' = [taskContexts EXCEPT ![t] = <<>>]
      /\ UNCHANGED <<constContexts, engineId, registered>>
  BY DEF FreeTaskContexts, constPVars, engVars
<1>1. GivenBack(Held(t)) /\ Held(t) \subseteq ContextIds
  BY <1>b, TaskGivesBack
<1>2. ReleasedBelow(Held(t))
  BY <1>b, TaskReleasesBelow
<1>3. \A u \in Tasks : phase'[u] = "bound" =>
         phase[u] = "bound" /\ taskContexts'[u] = taskContexts[u]
  BY <1>a, <1>b DEF TasksTyped
<1>4. \A v \in DOMAIN constContexts' :
         v \in DOMAIN constContexts /\ constContexts'[v] = constContexts[v]
  BY <1>b
<1> QED
  BY <1>b, <1>1, <1>2, <1>3, <1>4, FreeKeepsPaths

LEMMA ExpireKeepsPaths ==
  ASSUME SafeInv, PathInv, SafeInv', NEW v \in ConstVars, ExpireConstVar(v)
  PROVE  PathInv'
<1>b. /\ v \in DOMAIN constContexts /\ FreeContexts(constContexts[v])
      /\ constContexts' = [w \in DOMAIN constContexts \ {v} |-> constContexts[w]]
      /\ UNCHANGED <<phase, taskContexts, engineId, registered>>
  BY DEF ExpireConstVar, taskVars, engVars
<1>1. GivenBack(constContexts[v]) /\ constContexts[v] \subseteq ContextIds
  BY <1>b, PinGivesBack
<1>2. ReleasedBelow(constContexts[v])
  <2>1. ExpiryLeavesNoOrphan
    BY PinReleasesNothingBelow
  <2> QED
    BY <1>b, <2>1 DEF ExpiryLeavesNoOrphan, ReleasedBelow
<1>3. \A u \in Tasks : phase'[u] = "bound" =>
         phase[u] = "bound" /\ taskContexts'[u] = taskContexts[u]
  BY <1>b
<1>4. \A w \in DOMAIN constContexts' :
         w \in DOMAIN constContexts /\ constContexts'[w] = constContexts[w]
  BY <1>b
<1> QED
  BY <1>b, <1>1, <1>2, <1>3, <1>4, FreeKeepsPaths

-----------------------------------------------------------------------------
(* The inductive invariant of the context manager *)

ContextInv == SafeInv /\ (fused = {} => PathInv)

LEMMA ContextInit == Init => ContextInv
<1> SUFFICES ASSUME Init PROVE SafeInv /\ PathInv
  BY DEF ContextInv
<1>1. SafeInv
  BY SafeInit
<1>2. \A c \in ContextIds : Users(c) = {} /\ Pinners(c) = {}
  BY DEF Init, Users, Pinners, Held, RangeOf
<1>3. RefsCountHolders
  <2>1. \A c \in ContextIds : Cardinality(Users(c)) = 0 /\ Cardinality(Pinners(c)) = 0
    BY <1>2, FS_EmptySet
  <2> QED
    BY <2>1 DEF RefsCountHolders, Init
<1>4. LiveIffHeld
  BY <1>2 DEF LiveIffHeld, Init
<1>5. CacheStep /\ CacheInverse
  BY DEF CacheStep, CacheInverse, Init
<1>6. TaskOnOnePath /\ TaskInjective /\ PinnedRoots
  BY DEF TaskOnOnePath, TaskInjective, PinnedRoots, Init
<1> QED
  BY <1>1, <1>3, <1>4, <1>5, <1>6 DEF PathInv

LEMMA ContextStep == ContextInv /\ [Next]_vars => ContextInv'
<1> SUFFICES ASSUME ContextInv, [Next]_vars PROVE ContextInv'
  OBVIOUS
<1>a. SafeInv /\ SafeInv' /\ (fused = {} => PathInv)
  BY SafeStep DEF ContextInv
<1> SUFFICES ASSUME fused' = {} PROVE PathInv'
  BY <1>a DEF ContextInv
<1>1. CASE QuietStep
  <2>1. fused = {}
    BY <1>1 DEF QuietStep
  <2> QED
    BY <1>1, <1>a, <2>1, QuietKeepsPaths
<1>2. ASSUME NEW t, NEW e, NEW k, NEW cs, BindStep(t, e, k, cs) PROVE PathInv'
  <2>1. fused = {}
    BY <1>2 DEF BindStep
  <2> QED
    BY <1>2, <1>a, <2>1, BindKeepsPaths
<1>3. ASSUME NEW e \in Engines, NEW id \in EngineIds, RegisterEngine(e, id)
      PROVE  PathInv'
  <2>1. fused = {}
    BY <1>3 DEF RegisterEngine, taskVars
  <2> QED
    BY <1>3, <1>a, <2>1, RegisterKeepsPaths
<1>4. ASSUME NEW e \in Engines, RemoveEngine(e) PROVE PathInv'
  <2>1. fused = {}
    BY <1>4 DEF RemoveEngine, taskVars
  <2> QED
    BY <1>4, <1>a, <2>1, RemoveKeepsPaths
<1>5. ASSUME NEW t \in Tasks, FreeTaskContexts(t) PROVE PathInv'
  <2>1. fused = {}
    BY <1>5 DEF FreeTaskContexts
  <2> QED
    BY <1>5, <1>a, <2>1, FreeTaskKeepsPaths
<1>6. ASSUME NEW v \in ConstVars, ExpireConstVar(v) PROVE PathInv'
  <2>1. fused = {}
    BY <1>6 DEF ExpireConstVar, taskVars
  <2> QED
    BY <1>6, <1>a, <2>1, ExpireKeepsPaths
<1> QED
  BY <1>a, <1>1, <1>2, <1>3, <1>4, <1>5, <1>6, StepCases

LEMMA ContextInvariant == Spec => []ContextInv
BY ContextInit, ContextStep, PTL DEF Spec

\* Without fuse_fill _context_ref_counter counts the tasks that use a context
\* and the constant prefixes that pin it, exactly, and the context manager
\* keeps a context as long as one of them is left, and no longer.
THEOREM AlwaysHeldExactly == Spec => []HeldExactly
<1>1. ContextInv => HeldExactly
  BY DEF ContextInv, PathInv, HeldExactly
<1> QED
  BY <1>1, ContextInvariant, PTL

\* Type correctness; and without fuse_fill every cached prefix names a live
\* context of its engine whose ancestors cache the shorter prefixes, and a
\* bound task keeps its path of contexts on one engine, whatever the other
\* tasks, engines and expiring constants do.  So set_task_contexts never meets
\* a stale hash (KeyError) nor a prefix that is already cached (assertion).
THEOREM PathsAlwaysIntact == Spec => []PathsIntact
<1>1. ContextInv => PathsIntact
  BY CacheTree DEF ContextInv, SafeInv, PathInv, PathsIntact
<1> QED
  BY <1>1, ContextInvariant, PTL

\* Without fuse_fill contexts are given back bottom up: free_task_contexts
\* reaches a sub-context before its parent, and an expiring constant prefix
\* leaves no sub-context behind.
THEOREM AlwaysBottomUp == Spec => []BottomUp
<1>1. ASSUME ContextInv, fused = {} PROVE ChildrenFreedFirst /\ ExpiryLeavesNoOrphan
  <2>1. SafeInv /\ PathInv
    BY <1>1 DEF ContextInv
  <2>2. ExpiryLeavesNoOrphan
    BY <2>1, PinReleasesNothingBelow
  <2>3. ChildrenFreedFirst
    <3>1. CASE \E t \in Tasks : phase[t] = "bound"
      BY <2>1, <3>1, TaskReleasesBelow
    <3>2. CASE ~ \E t \in Tasks : phase[t] = "bound"
      BY <3>2 DEF ChildrenFreedFirst
    <3> QED
      BY <3>1, <3>2
  <2> QED
    BY <2>2, <2>3
<1>2. ContextInv => BottomUp
  BY <1>1 DEF BottomUp
<1> QED
  BY <1>2, ContextInvariant, PTL

\* set_task_contexts has met no stale hash: self.contexts[context_id] has not
\* raised KeyError.
NoStaleHit == fused = {} => down # "stale prefix"

\* Without fuse_fill the look-up of a cached prefix never fails: a hash is
\* dropped together with its context, also when engines are swept and their
\* ids are given to new ones in between.
THEOREM NeverStaleHit == Spec => []NoStaleHit
<1>1. Init => NoStaleHit
  BY DEF Init, NoStaleHit
<1>2. ContextInv /\ NoStaleHit /\ [Next]_vars => NoStaleHit'
  <2> SUFFICES ASSUME ContextInv, NoStaleHit, [Next]_vars,
                      fused' = {}, down' = "stale prefix"
               PROVE  FALSE
    BY DEF NoStaleHit
  <2>1. CASE down = "stale prefix"
    <3>1. ~Next
      BY <2>1, Zenon DEF Next, RegisterEngine, RemoveEngine, EngineDies, SubmitRequest,
         SetTaskContexts, SetTaskContextsFails, FreeTaskContexts,
         FreeTaskContextsFails, ExpireConstVar, ExpireConstVarAsserts,
         ExpireConstVarFails
    <3> QED
      BY <2>1, <3>1 DEF NoStaleHit, vars, taskVars
  <2>2. CASE down # "stale prefix"
    <3>a. Next
      BY <2>2 DEF vars
    <3>b. /\ \A e, id : RegisterEngine(e, id) => down' = down
          /\ \A e : RemoveEngine(e) \/ EngineDies(e) => down' = down
          /\ \A t, fuse : SubmitRequest(t, fuse) => down' = down
          /\ \A t, e, k : SetTaskContexts(t, e, k) => down' = down
          /\ \A t : FreeTaskContexts(t) => down' = down
          /\ \A v : ExpireConstVar(v) => down' = down
      BY DEF RegisterEngine, RemoveEngine, EngineDies, SubmitRequest,
         SetTaskContexts, FreeTaskContexts, ExpireConstVar
    <3>c. /\ \A t : FreeTaskContextsFails(t) => down' = "engine gone"
          /\ \A v : ExpireConstVarAsserts(v) => down' = "no constant prefix contexts"
          /\ \A v : ExpireConstVarFails(v) => down' = "engine gone"
      BY DEF FreeTaskContextsFails, ExpireConstVarAsserts, ExpireConstVarFails
    <3>0. PICK t \in Tasks, e \in Engines :
             \E k \in 0 .. Last(t) : SetTaskContextsFails(t, e, k)
      BY <2>2, <3>a, <3>b, <3>c DEF Next
    <3>1. PICK k \in 0 .. Last(t) : SetTaskContextsFails(t, e, k)
      BY <3>0
    <3>2. fused = {} /\ e \in registered /\ HitLength(t, engineId[e], k)
      BY <3>1 DEF SetTaskContextsFails, taskVars
    <3>3. CacheStep
      BY <3>2 DEF ContextInv, PathInv
    <3>4. \A i \in 1 .. k : prefixMap[engineId[e]][Prefix(t, i)] \in DOMAIN contexts
      BY <3>2, <3>3 DEF HitLength, CacheStep
    <3> QED
      BY <3>1, <3>4 DEF SetTaskContextsFails
  <2> QED
    BY <2>1, <2>2
<1> QED
  BY <1>1, <1>2, ContextInvariant, PTL DEF Spec

-----------------------------------------------------------------------------
(* The coroutines of the tasks: GraphExecutor *)

\* The coroutine is in its loop, and what it has passed is ready.
DoneReady ==
    \A t \in Tasks : step[t] \in {"look", "post", "wait"} =>
        /\ node[t] \in 1 .. Last(t)
        /\ \A j \in 1 .. (node[t] - 1) : taskContexts[t][j] \in ready

LoopInv ==
    /\ ExecTypeOK /\ DOMAIN node = Tasks
    /\ FilledOnce /\ DoneReady

ExecInv == SafeInv /\ PathInv /\ fused = {} /\ LoopInv

-----------------------------------------------------------------------------
(* The steps of the context manager *)

\* A step that changes the tables of the context manager leaves the coroutines
\* of the bound tasks where they are, and every event of a live context as it
\* is.
TablesStep ==
    /\ step' \in [Tasks -> Steps] /\ DOMAIN node' = Tasks
    /\ started' = started \cap DOMAIN contexts'
    /\ ready' = ready \cap DOMAIN contexts'
    /\ generated' \subseteq Outputs /\ bad' \subseteq registered'
    /\ errors' \subseteq Tasks
    /\ \A u \in Tasks :
          \/ /\ phase'[u] = "bound" /\ phase[u] = "bound"
             /\ step'[u] = step[u] /\ node'[u] = node[u]
             /\ taskContexts'[u] = taskContexts[u]
          \/ phase'[u] # "bound" /\ step'[u] = "none" /\ node'[u] \in 0 .. (Last(u) + 1)
          \/ phase'[u] = "bound" /\ step'[u] = "look" /\ node'[u] = 1

LEMMA TablesKeepLoop ==
  ASSUME ExecInv, SafeInv', PathInv', TablesStep
  PROVE  LoopInv'
<1>a. /\ ExecTypeOK /\ FilledOnce /\ DoneReady /\ TypeOK
      /\ TaskOnOnePath' /\ TypeOK'
  BY DEF ExecInv, LoopInv, SafeInv, PathInv
<1>b. \A u \in Tasks : Last(u) \in Nat \ {0}
  BY ChainFacts
<1>1. ASSUME NEW u \in Tasks, step'[u] \in {"post", "wait"} \/ (step'[u] = "look" /\ node'[u] # 1)
      PROVE  /\ phase'[u] = "bound" /\ phase[u] = "bound"
             /\ step'[u] = step[u] /\ node'[u] = node[u]
             /\ taskContexts'[u] = taskContexts[u]
  BY <1>1 DEF TablesStep
<1>2. ASSUME NEW u \in Tasks, phase'[u] = "bound", NEW i \in 1 .. Last(u)
      PROVE  taskContexts'[u][i] \in DOMAIN contexts'
  BY <1>2, <1>a DEF TaskOnOnePath
<1>3. DoneReady'
  <2>1. ASSUME NEW u \in Tasks, step'[u] \in {"look", "post", "wait"}
        PROVE  /\ node'[u] \in 1 .. Last(u)
               /\ \A j \in 1 .. (node'[u] - 1) : taskContexts'[u][j] \in ready'
    <3>1. CASE step'[u] = "look" /\ node'[u] = 1
      BY <1>b, <3>1
    <3>2. CASE ~(step'[u] = "look" /\ node'[u] = 1)
      <4>1. /\ phase'[u] = "bound" /\ step'[u] = step[u] /\ node'[u] = node[u]
            /\ taskContexts'[u] = taskContexts[u]
        BY <1>1, <2>1, <3>2
      <4>2. /\ node[u] \in 1 .. Last(u)
            /\ \A j \in 1 .. (node[u] - 1) : taskContexts[u][j] \in ready
        BY <1>a, <2>1, <4>1 DEF DoneReady
      <4>3. \A j \in 1 .. (node[u] - 1) : taskContexts[u][j] \in DOMAIN contexts'
        <5>1. \A j \in 1 .. (node[u] - 1) : j \in 1 .. Last(u)
          BY <1>b, <4>2
        <5> QED
          BY <1>2, <4>1, <5>1
      <4> QED
        BY <4>1, <4>2, <4>3 DEF TablesStep
    <3> QED
      BY <3>1, <3>2
  <2> QED
    BY <2>1 DEF DoneReady
<1>4. FilledOnce'
  <2>1. ASSUME NEW u \in Tasks, step'[u] = "post"
        PROVE  /\ Here(u)' = Here(u) /\ step[u] = "post"
               /\ Here(u)' \in DOMAIN contexts'
    <3>1. /\ phase'[u] = "bound" /\ step'[u] = step[u] /\ node'[u] = node[u]
          /\ taskContexts'[u] = taskContexts[u]
      BY <1>1, <2>1
    <3>2. node[u] \in 1 .. Last(u)
      BY <1>a, <2>1, <3>1 DEF DoneReady
    <3>3. taskContexts'[u][node'[u]] \in DOMAIN contexts'
      BY <1>2, <3>1, <3>2
    <3> QED
      BY <2>1, <3>1, <3>3 DEF Here
  <2>2. ASSUME NEW u \in Tasks, step'[u] = "post"
        PROVE  /\ Here(u)' \in started' \ ready'
               /\ \A w \in Tasks : step'[w] = "post" /\ Here(w)' = Here(u)' => w = u
    <3>1. /\ Here(u) \in started \ ready
          /\ \A w \in Tasks : step[w] = "post" /\ Here(w) = Here(u) => w = u
      BY <1>a, <2>1, <2>2 DEF FilledOnce
    <3>2. Here(u)' \in started' \ ready'
      BY <2>1, <2>2, <3>1 DEF TablesStep
    <3>3. \A w \in Tasks : step'[w] = "post" /\ Here(w)' = Here(u)' => w = u
      BY <2>1, <2>2, <3>1
    <3> QED
      BY <3>2, <3>3
  <2> QED
    BY <2>2 DEF FilledOnce
<1>5. ExecTypeOK'
  <2>1. ASSUME NEW u \in Tasks
        PROVE  /\ node'[u] \in 0 .. (Last(u) + 1)
               /\ step'[u] # "none" <=> phase'[u] = "bound"
    <3>1. /\ node[u] \in 0 .. (Last(u) + 1)
          /\ step[u] # "none" <=> phase[u] = "bound"
      BY <1>a DEF ExecTypeOK
    <3> QED
      BY <1>b, <3>1 DEF TablesStep
  <2>2. ready' \subseteq started' /\ started' \subseteq DOMAIN contexts'
    BY <1>a DEF TablesStep, ExecTypeOK
  <2> QED
    BY <2>1, <2>2 DEF TablesStep, ExecTypeOK
<1> QED
  BY <1>3, <1>4, <1>5 DEF LoopInv, TablesStep

LEMMA ManagerSteps ==
  ASSUME ExecInv, Next, fused' = {}
  PROVE  SafeInv' /\ PathInv'
<1>1. ContextInv
  BY DEF ExecInv, ContextInv
<1>2. ContextInv'
  BY <1>1, ContextStep
<1> QED
  BY <1>2 DEF ContextInv

LEMMA StartKeeps ==
  ASSUME ExecInv, NEW t \in Tasks, NEW e \in Engines, NEW k \in 0 .. Last(t),
         Start(t, e, k)
  PROVE  ExecInv'
<1>a. ExecTypeOK /\ DOMAIN node = Tasks /\ TypeOK /\ fused = {} /\ DOMAIN taskContexts = Tasks
  BY DEF ExecInv, LoopInv, SafeInv
<1>b. /\ SetTaskContexts(t, e, k)
      /\ node' = [node EXCEPT ![t] = 1]
      /\ step' = [step EXCEPT ![t] = "look"]
      /\ UNCHANGED <<started, ready, generated, bad, errors>>
  BY DEF Start, eventVars, errVars
<1>c. fused' = {} /\ registered' = registered /\ phase' = [phase EXCEPT ![t] = "bound"]
  BY <1>a, <1>b DEF SetTaskContexts, engVars
<1>1. Next
  BY <1>b, Zenon DEF Next
<1>2. SafeInv' /\ PathInv'
  BY <1>1, <1>c, ManagerSteps
<1>3. PICK cs \in [1..Last(t) -> ContextIds] : BindContexts(t, e, k, cs)
  BY <1>b DEF SetTaskContexts
<1>4. DOMAIN contexts \subseteq DOMAIN contexts'
  BY <1>3 DEF BindContexts
<1>5. taskContexts' = [taskContexts EXCEPT ![t] = cs]
  BY <1>3 DEF BindContexts
<1>6. started' = started \cap DOMAIN contexts' /\ ready' = ready \cap DOMAIN contexts'
  BY <1>a, <1>b, <1>4 DEF ExecTypeOK
<1>7. ASSUME NEW u \in Tasks
      PROVE  \/ /\ phase'[u] = "bound" /\ phase[u] = "bound"
                /\ step'[u] = step[u] /\ node'[u] = node[u]
                /\ taskContexts'[u] = taskContexts[u]
             \/ phase'[u] # "bound" /\ step'[u] = "none" /\ node'[u] \in 0 .. (Last(u) + 1)
             \/ phase'[u] = "bound" /\ step'[u] = "look" /\ node'[u] = 1
  <2>1. CASE u = t
    BY <1>a, <1>b, <1>c, <2>1 DEF ExecTypeOK, TypeOK
  <2>2. CASE u # t
    <3>1. /\ phase'[u] = phase[u] /\ step'[u] = step[u] /\ node'[u] = node[u]
          /\ taskContexts'[u] = taskContexts[u]
      BY <1>a, <1>b, <1>c, <1>5, <2>2 DEF ExecTypeOK, TypeOK
    <3>2. node[u] \in 0 .. (Last(u) + 1) /\ (step[u] # "none" <=> phase[u] = "bound")
      BY <1>a DEF ExecTypeOK
    <3> QED
      BY <3>1, <3>2
  <2> QED
    BY <2>1, <2>2
<1>8. step' \in [Tasks -> Steps] /\ DOMAIN node' = Tasks
  BY <1>a, <1>b DEF ExecTypeOK, Steps
<1>9. TablesStep
  BY <1>a, <1>b, <1>c, <1>6, <1>7, <1>8 DEF TablesStep, ExecTypeOK
<1>10. LoopInv'
  BY <1>2, <1>9, TablesKeepLoop
<1> QED
  BY <1>2, <1>c, <1>10 DEF ExecInv

LEMMA FinishKeeps ==
  ASSUME ExecInv, NEW t \in Tasks, Finish(t)
  PROVE  ExecInv'
<1>a. ExecTypeOK /\ DOMAIN node = Tasks /\ TypeOK /\ fused = {} /\ DOMAIN taskContexts = Tasks
  BY DEF ExecInv, LoopInv, SafeInv
<1>b. /\ FreeTaskContexts(t)
      /\ step' = [step EXCEPT ![t] = "none"]
      /\ started' = started \cap DOMAIN contexts'
      /\ ready' = ready \cap DOMAIN contexts'
      /\ UNCHANGED <<node, generated, bad, errors>>
  BY DEF Finish, ForgetEvents, errVars
<1>c. /\ fused' = {} /\ registered' = registered
      /\ phase' = [phase EXCEPT ![t] = "freed"]
      /\ taskContexts' = [taskContexts EXCEPT ![t] = <<>>]
  BY <1>a, <1>b DEF FreeTaskContexts, engVars
<1>0. \E u \in Tasks : FreeTaskContexts(u)
  BY <1>b
<1>1. Next
  BY <1>0 DEF Next
<1>2. SafeInv' /\ PathInv'
  BY <1>1, <1>c, ManagerSteps
<1>7. ASSUME NEW u \in Tasks
      PROVE  \/ /\ phase'[u] = "bound" /\ phase[u] = "bound"
                /\ step'[u] = step[u] /\ node'[u] = node[u]
                /\ taskContexts'[u] = taskContexts[u]
             \/ phase'[u] # "bound" /\ step'[u] = "none" /\ node'[u] \in 0 .. (Last(u) + 1)
  <2>1. node[u] \in 0 .. (Last(u) + 1) /\ (step[u] # "none" <=> phase[u] = "bound")
    BY <1>a DEF ExecTypeOK
  <2>2. CASE u = t
    BY <1>a, <1>b, <1>c, <2>1, <2>2 DEF ExecTypeOK, TypeOK
  <2>3. CASE u # t
    <3>1. /\ phase'[u] = phase[u] /\ step'[u] = step[u] /\ node'[u] = node[u]
          /\ taskContexts'[u] = taskContexts[u]
      BY <1>a, <1>b, <1>c, <2>3 DEF ExecTypeOK, TypeOK
    <3> QED
      BY <2>1, <3>1
  <2> QED
    BY <2>2, <2>3
<1>8. step' \in [Tasks -> Steps] /\ DOMAIN node' = Tasks
  BY <1>a, <1>b DEF ExecTypeOK, Steps
<1>9. TablesStep
  BY <1>a, <1>b, <1>c, <1>7, <1>8 DEF TablesStep, ExecTypeOK
<1>10. LoopInv'
  BY <1>2, <1>9, TablesKeepLoop
<1> QED
  BY <1>2, <1>c, <1>10 DEF ExecInv

\* The other callers of the context manager leave the coroutines alone.
LEMMA OthersKeep ==
  ASSUME ExecInv, SafeInv', PathInv', fused' = {},
         \A u \in Tasks : phase'[u] = "bound" <=> phase[u] = "bound",
         UNCHANGED <<taskContexts, node, step, generated, errors>>,
         bad' \subseteq registered',
         started' = started \cap DOMAIN contexts',
         ready' = ready \cap DOMAIN contexts'
  PROVE  ExecInv'
<1>a. ExecTypeOK /\ DOMAIN node = Tasks
  BY DEF ExecInv, LoopInv
<1>1. ASSUME NEW u \in Tasks
      PROVE  \/ /\ phase'[u] = "bound" /\ phase[u] = "bound"
                /\ step'[u] = step[u] /\ node'[u] = node[u]
                /\ taskContexts'[u] = taskContexts[u]
             \/ phase'[u] # "bound" /\ step'[u] = "none" /\ node'[u] \in 0 .. (Last(u) + 1)
  <2>1. node[u] \in 0 .. (Last(u) + 1) /\ (step[u] # "none" <=> phase[u] = "bound")
    BY <1>a DEF ExecTypeOK
  <2> QED
    BY <2>1
<1>2. TablesStep
  BY <1>a, <1>1 DEF TablesStep, ExecTypeOK
<1>3. LoopInv'
  BY <1>2, TablesKeepLoop
<1> QED
  BY <1>3 DEF ExecInv

LEMMA EnvironmentKeeps ==
  ASSUME ExecInv, Environment, UNCHANGED execVars
  PROVE  ExecInv'
<1>a. /\ ExecTypeOK /\ TypeOK /\ fused = {}
      /\ UNCHANGED <<node, step, started, ready, generated, bad, errors>>
  BY DEF ExecInv, LoopInv, SafeInv, execVars, loopVars, eventVars, errVars
<1>1. Next
  BY ExecutorAssumption, Zenon DEF Environment, Next
<1>2. ASSUME NEW t \in Tasks, SubmitRequest(t, FALSE)
      PROVE  /\ fused' = {} /\ registered \subseteq registered'
             /\ UNCHANGED <<taskContexts, contexts>>
             /\ \A u \in Tasks : phase'[u] = "bound" <=> phase[u] = "bound"
  BY <1>2, <1>a DEF SubmitRequest, TypeOK, ctxVars, engVars
<1>3. ASSUME NEW e \in Engines, NEW id \in EngineIds, RegisterEngine(e, id)
      PROVE  /\ fused' = {} /\ registered \subseteq registered'
             /\ UNCHANGED <<taskContexts, contexts>>
             /\ \A u \in Tasks : phase'[u] = "bound" <=> phase[u] = "bound"
  BY <1>3, <1>a DEF RegisterEngine, taskVars, ctxVars
<1>4. ASSUME NEW e \in Engines, EngineDies(e)
      PROVE  /\ fused' = {} /\ registered \subseteq registered'
             /\ UNCHANGED <<taskContexts, contexts>>
             /\ \A u \in Tasks : phase'[u] = "bound" <=> phase[u] = "bound"
  BY <1>4, <1>a DEF EngineDies, taskVars, ctxVars
<1>5. /\ fused' = {} /\ registered \subseteq registered'
      /\ UNCHANGED <<taskContexts, contexts>>
      /\ \A u \in Tasks : phase'[u] = "bound" <=> phase[u] = "bound"
  BY <1>2, <1>3, <1>4, ExecutorAssumption DEF Environment
<1>6. SafeInv' /\ PathInv'
  BY <1>1, <1>5, ManagerSteps
<1>7. /\ bad' \subseteq registered'
      /\ started' = started \cap DOMAIN contexts' /\ ready' = ready \cap DOMAIN contexts'
  BY <1>a, <1>5 DEF ExecTypeOK
<1> QED
  BY <1>a, <1>5, <1>6, <1>7, OthersKeep

LEMMA SweepKeeps ==
  ASSUME ExecInv, NEW e \in Mortal, Sweep(e)
  PROVE  ExecInv'
<1>a. /\ ExecTypeOK /\ fused = {} /\ RemoveEngine(e) /\ bad' = bad \ {e}
      /\ UNCHANGED <<node, step, started, ready, generated, errors>>
  BY DEF ExecInv, LoopInv, Sweep, loopVars, eventVars
<1>1. Next
  BY <1>a, ExecutorAssumption DEF Next
<1>2. /\ fused' = {} /\ registered' = registered \ {e}
      /\ UNCHANGED <<phase, taskContexts, contexts>>
  BY <1>a DEF RemoveEngine, taskVars, ctxVars
<1>3. SafeInv' /\ PathInv'
  BY <1>1, <1>2, ManagerSteps
<1>4. /\ bad' \subseteq registered'
      /\ started' = started \cap DOMAIN contexts' /\ ready' = ready \cap DOMAIN contexts'
  BY <1>a, <1>2 DEF ExecTypeOK
<1> QED
  BY <1>a, <1>2, <1>3, <1>4, OthersKeep

LEMMA ExpireKeeps ==
  ASSUME ExecInv, NEW v \in ConstVars, Expire(v)
  PROVE  ExecInv'
<1>a. /\ ExecTypeOK /\ fused = {} /\ ExpireConstVar(v)
      /\ started' = started \cap DOMAIN contexts' /\ ready' = ready \cap DOMAIN contexts'
      /\ UNCHANGED <<node, step, generated, bad, errors>>
  BY DEF ExecInv, LoopInv, Expire, ForgetEvents, loopVars, errVars
<1>1. Next
  BY <1>a DEF Next
<1>2. fused' = {} /\ UNCHANGED <<phase, taskContexts, registered>>
  BY <1>a DEF ExpireConstVar, taskVars, engVars
<1>3. SafeInv' /\ PathInv'
  BY <1>1, <1>2, ManagerSteps
<1>4. bad' \subseteq registered'
  BY <1>a, <1>2 DEF ExecTypeOK
<1> QED
  BY <1>a, <1>2, <1>3, <1>4, OthersKeep

\* The process ends: only `down` changes.
LEMMA EndKeeps ==
  ASSUME ExecInv, down' \in {"no", "engine gone", "no constant prefix contexts"},
         UNCHANGED <<taskVars, ctxVars, cacheVars, constPVars, engVars, execVars>>
  PROVE  ExecInv'
<1>a. /\ ExecTypeOK /\ TypeOK /\ fused = {} /\ SafeInv /\ PathInv
      /\ UNCHANGED <<node, step, started, ready, generated, bad, errors>>
      /\ UNCHANGED <<phase, fused, taskContexts, ctxVars, cacheVars, constVars,
                     constContexts, engineId, registered, alive>>
  BY DEF ExecInv, LoopInv, SafeInv, execVars, loopVars, eventVars, errVars, taskVars,
     constPVars, engVars
<1>1. QuietStep
  <2>1. TasksTyped /\ ConstsTyped /\ EnginesTyped
    BY <1>a, TypeParts
  <2>2. TasksTyped' /\ DownTyped'
    BY <1>a, <2>1 DEF TasksTyped, DownTyped
  <2>3. constVars' \subseteq ConstVars /\ alive' \subseteq Engines
    BY <1>a, <2>1 DEF ConstsTyped, EnginesTyped
  <2> QED
    BY <1>a, <2>2, <2>3 DEF QuietStep
<1>2. SafeInv'
  BY <1>a, <1>1, QuietSafe DEF QuietStep
<1>3. PathInv'
  BY <1>a, <1>1, QuietKeepsPaths
<1>4. /\ bad' \subseteq registered'
      /\ started' = started \cap DOMAIN contexts' /\ ready' = ready \cap DOMAIN contexts'
  BY <1>a DEF ExecTypeOK, ctxVars
<1> QED
  BY <1>a, <1>2, <1>3, <1>4, OthersKeep

-----------------------------------------------------------------------------
(* The loop of execute: no table of the context manager changes. *)

\* What the loop of task t may do: the other coroutines stay where they are.
LoopStep(t) ==
    /\ UNCHANGED vars
    /\ \A u \in Tasks \ {t} : step'[u] = step[u] /\ node'[u] = node[u]
    /\ step' \in [Tasks -> Steps] /\ DOMAIN node' = Tasks
    /\ errors' \subseteq Tasks /\ bad' \subseteq registered /\ generated' \subseteq Outputs

LEMMA LoopKeepsManager ==
  ASSUME ExecInv, UNCHANGED vars
  PROVE  /\ SafeInv' /\ PathInv' /\ fused' = {}
         /\ UNCHANGED <<phase, taskContexts, contexts, registered>>
<1>1. ContextInv /\ fused = {}
  BY DEF ExecInv, ContextInv
<1>2. ContextInv'
  BY <1>1, ContextStep
<1>3. UNCHANGED <<phase, fused, taskContexts, contexts, registered>>
  BY DEF vars, taskVars, ctxVars, engVars
<1> QED
  BY <1>1, <1>2, <1>3 DEF ContextInv

\* Facts about the node a coroutine is at.
LEMMA HereFacts ==
  ASSUME ExecInv, NEW t \in Tasks, step[t] \in {"look", "post", "wait"}
  PROVE  /\ node[t] \in 1 .. Last(t) /\ Last(t) \in Nat \ {0}
         /\ phase[t] = "bound"
         /\ Here(t) \in DOMAIN contexts
         /\ contexts[Here(t)].parent =
              IF node[t] = 1 THEN None ELSE taskContexts[t][node[t] - 1]
         /\ \A j \in 1 .. (node[t] - 1) : taskContexts[t][j] \in ready
<1>1. ExecTypeOK /\ DoneReady /\ TaskOnOnePath
  BY DEF ExecInv, LoopInv, PathInv
<1>2. phase[t] = "bound"
  BY <1>1 DEF ExecTypeOK
<1>3. /\ node[t] \in 1 .. Last(t) /\ Last(t) \in Nat \ {0}
      /\ \A j \in 1 .. (node[t] - 1) : taskContexts[t][j] \in ready
  BY <1>1, ChainFacts DEF DoneReady
<1> QED
  BY <1>1, <1>2, <1>3 DEF TaskOnOnePath, Here

LEMMA AdvanceFacts ==
  ASSUME ExecInv, NEW t \in Tasks, step[t] \in {"look", "post", "wait"}, Advance(t)
  PROVE  /\ step' \in [Tasks -> Steps] /\ DOMAIN node' = Tasks
         /\ \A u \in Tasks \ {t} : step'[u] = step[u] /\ node'[u] = node[u]
         /\ node'[t] = node[t] + 1
         /\ \/ step'[t] = "end" /\ node[t] = Last(t)
            \/ step'[t] = "look" /\ node'[t] \in 1 .. Last(t)
<1>1. step \in [Tasks -> Steps] /\ DOMAIN node = Tasks
  BY DEF ExecInv, LoopInv, ExecTypeOK
<1>2. node[t] \in 1 .. Last(t) /\ Last(t) \in Nat \ {0}
  BY HereFacts
<1>3. /\ node' = [node EXCEPT ![t] = node[t] + 1]
      /\ step' = [step EXCEPT ![t] = IF node[t] = Last(t) THEN "end" ELSE "look"]
  BY DEF Advance
<1>4. node'[t] = node[t] + 1 /\ step'[t] = IF node[t] = Last(t) THEN "end" ELSE "look"
  BY <1>1, <1>3
<1>5. node[t] # Last(t) => node[t] + 1 \in 1 .. Last(t)
  BY <1>2
<1>6. step' \in [Tasks -> Steps] /\ DOMAIN node' = Tasks
      /\ \A u \in Tasks \ {t} : step'[u] = step[u] /\ node'[u] = node[u]
  BY <1>1, <1>3 DEF Steps
<1> QED
  BY <1>4, <1>5, <1>6

\* A step of the loop keeps the invariant when the coroutine leaves the loop,
\* or comes to a node whose predecessors are ready, and the events obey the
\* rules: ready contexts stay ready, and a post takes a context of its own.
LEMMA LoopKeeps ==
  ASSUME ExecInv, NEW t \in Tasks, step[t] # "none", LoopStep(t),
         step'[t] # "none", node'[t] \in 0 .. (Last(t) + 1),
         ready \subseteq ready', started \subseteq started', ready' \subseteq started',
         started' \subseteq DOMAIN contexts,
         step'[t] \in {"look", "post", "wait"} =>
            /\ node'[t] \in 1 .. Last(t)
            /\ \A j \in 1 .. (node'[t] - 1) : taskContexts[t][j] \in ready',
         \A u \in Tasks : step'[u] = "post" =>
            /\ taskContexts[u][node'[u]] \in started' \ ready'
            /\ \A w \in Tasks : /\ step'[w] = "post"
                                /\ taskContexts[w][node'[w]] = taskContexts[u][node'[u]]
                                => w = u
  PROVE  ExecInv'
<1>a. /\ ExecTypeOK /\ DOMAIN node = Tasks /\ FilledOnce /\ DoneReady
  BY DEF ExecInv, LoopInv
<1>b. /\ SafeInv' /\ PathInv' /\ fused' = {}
      /\ UNCHANGED <<phase, taskContexts, contexts, registered>>
  BY LoopKeepsManager DEF LoopStep
<1>1. ExecTypeOK'
  <2>1. ASSUME NEW u \in Tasks
        PROVE  /\ node'[u] \in 0 .. (Last(u) + 1)
               /\ step'[u] # "none" <=> phase'[u] = "bound"
    <3>1. /\ node[u] \in 0 .. (Last(u) + 1)
          /\ step[u] # "none" <=> phase[u] = "bound"
      BY <1>a DEF ExecTypeOK
    <3>2. CASE u = t
      BY <1>b, <3>1, <3>2
    <3>3. CASE u # t
      BY <1>b, <3>1, <3>3 DEF LoopStep
    <3> QED
      BY <3>2, <3>3
  <2> QED
    BY <1>b, <2>1 DEF ExecTypeOK, LoopStep
<1>2. FilledOnce'
  <2>1. \A u \in Tasks : Here(u)' = taskContexts[u][node'[u]]
    BY <1>b DEF Here
  <2>2. ASSUME NEW u \in Tasks, step'[u] = "post"
        PROVE  /\ Here(u)' \in started' \ ready'
               /\ \A w \in Tasks : step'[w] = "post" /\ Here(w)' = Here(u)' => w = u
    BY <2>1, <2>2
  <2> QED
    BY <2>2 DEF FilledOnce
<1>3. DoneReady'
  <2>1. ASSUME NEW u \in Tasks, step'[u] \in {"look", "post", "wait"}
        PROVE  /\ node'[u] \in 1 .. Last(u)
               /\ \A j \in 1 .. (node'[u] - 1) : taskContexts'[u][j] \in ready'
    <3>1. CASE u = t
      BY <1>b, <2>1, <3>1
    <3>2. CASE u # t
      <4>1. step'[u] = step[u] /\ node'[u] = node[u]
        BY <3>2 DEF LoopStep
      <4>2. /\ node[u] \in 1 .. Last(u)
            /\ \A j \in 1 .. (node[u] - 1) : taskContexts[u][j] \in ready
        BY <1>a, <2>1, <4>1 DEF DoneReady
      <4> QED
        BY <1>b, <4>1, <4>2
    <3> QED
      BY <3>1, <3>2
  <2> QED
    BY <2>1 DEF DoneReady
<1> QED
  BY <1>1, <1>2, <1>3, <1>b DEF ExecInv, LoopInv, LoopStep

LEMMA SkipKeeps ==
  ASSUME ExecInv, NEW t \in Tasks, SkipReady(t) \/ Wake(t)
  PROVE  ExecInv'
<1>a. /\ ExecTypeOK /\ FilledOnce
  BY DEF ExecInv, LoopInv
<1>b. /\ step[t] \in {"look", "wait"} /\ Here(t) \in ready /\ Advance(t)
      /\ UNCHANGED vars /\ UNCHANGED <<started, ready, generated, bad, errors>>
  BY DEF SkipReady, Wake, eventVars, errVars
<1>1. /\ node[t] \in 1 .. Last(t) /\ Last(t) \in Nat \ {0}
      /\ \A j \in 1 .. (node[t] - 1) : taskContexts[t][j] \in ready
  BY <1>b, HereFacts
<1>2. /\ step' \in [Tasks -> Steps] /\ DOMAIN node' = Tasks
      /\ \A u \in Tasks \ {t} : step'[u] = step[u] /\ node'[u] = node[u]
      /\ node'[t] = node[t] + 1
      /\ \/ step'[t] = "end" /\ node[t] = Last(t)
         \/ step'[t] = "look" /\ node'[t] \in 1 .. Last(t)
  BY <1>b, AdvanceFacts
<1>3. LoopStep(t)
  BY <1>a, <1>b, <1>2 DEF LoopStep, ExecTypeOK
<1>4. \A j \in 1 .. (node'[t] - 1) : taskContexts[t][j] \in ready'
  <2>1. \A j \in 1 .. (node'[t] - 1) : j \in 1 .. (node[t] - 1) \/ j = node[t]
    BY <1>1, <1>2
  <2> QED
    BY <1>1, <1>b, <2>1 DEF Here
<1>5. ASSUME NEW u \in Tasks, step'[u] = "post"
      PROVE  /\ taskContexts[u][node'[u]] \in started' \ ready'
             /\ \A w \in Tasks : /\ step'[w] = "post"
                                 /\ taskContexts[w][node'[w]] = taskContexts[u][node'[u]]
                                 => w = u
  <2>1. \A w \in Tasks : step'[w] = "post" => w # t /\ step[w] = "post" /\ node'[w] = node[w]
    BY <1>2
  <2> QED
    BY <1>5, <1>a, <1>b, <2>1 DEF FilledOnce, Here
<1>6. /\ ready' \subseteq started' /\ started' \subseteq DOMAIN contexts
      /\ node'[t] \in 0 .. (Last(t) + 1) /\ step[t] # "none" /\ step'[t] # "none"
  BY <1>1, <1>2, <1>a, <1>b DEF ExecTypeOK
<1> QED
  BY <1>2, <1>3, <1>4, <1>5, <1>6, <1>b, LoopKeeps

LEMMA AwaitKeeps ==
  ASSUME ExecInv, NEW t \in Tasks, Await(t)
  PROVE  ExecInv'
<1>a. /\ ExecTypeOK /\ FilledOnce /\ DOMAIN node = Tasks
  BY DEF ExecInv, LoopInv
<1>b. /\ step[t] = "look" /\ step' = [step EXCEPT ![t] = "wait"]
      /\ UNCHANGED vars /\ UNCHANGED <<node, started, ready, generated, bad, errors>>
  BY DEF Await, eventVars, errVars
<1>1. /\ node[t] \in 1 .. Last(t) /\ Last(t) \in Nat \ {0}
      /\ \A j \in 1 .. (node[t] - 1) : taskContexts[t][j] \in ready
  BY <1>b, HereFacts
<1>2. /\ step' \in [Tasks -> Steps] /\ DOMAIN node' = Tasks
      /\ \A u \in Tasks \ {t} : step'[u] = step[u] /\ node'[u] = node[u]
      /\ step'[t] = "wait"
  BY <1>a, <1>b DEF ExecTypeOK, Steps
<1>3. LoopStep(t)
  BY <1>a, <1>b, <1>2 DEF LoopStep, ExecTypeOK
<1>5. ASSUME NEW u \in Tasks, step'[u] = "post"
      PROVE  /\ taskContexts[u][node'[u]] \in started' \ ready'
             /\ \A w \in Tasks : /\ step'[w] = "post"
                                 /\ taskContexts[w][node'[w]] = taskContexts[u][node'[u]]
                                 => w = u
  <2>1. \A w \in Tasks : step'[w] = "post" => step[w] = "post" /\ node'[w] = node[w]
    BY <1>2
  <2> QED
    BY <1>5, <1>a, <1>b, <2>1 DEF FilledOnce, Here
<1>6. /\ ready' \subseteq started' /\ started' \subseteq DOMAIN contexts
      /\ node'[t] \in 0 .. (Last(t) + 1) /\ step[t] # "none" /\ step'[t] # "none"
  BY <1>1, <1>2, <1>a, <1>b DEF ExecTypeOK
<1> QED
  BY <1>1, <1>2, <1>3, <1>5, <1>6, <1>b, LoopKeeps

LEMMA PostKeeps ==
  ASSUME ExecInv, NEW t \in Tasks, Post(t)
  PROVE  ExecInv'
<1>a. /\ ExecTypeOK /\ FilledOnce /\ DOMAIN node = Tasks
  BY DEF ExecInv, LoopInv
<1>b. /\ step[t] = "look" /\ step' = [step EXCEPT ![t] = "post"]
      /\ Here(t) \notin started /\ started' = started \cup {Here(t)}
      /\ UNCHANGED vars /\ UNCHANGED <<node, ready, generated, bad, errors>>
  BY DEF Post, errVars
<1>1. /\ node[t] \in 1 .. Last(t) /\ Last(t) \in Nat \ {0}
      /\ \A j \in 1 .. (node[t] - 1) : taskContexts[t][j] \in ready
      /\ Here(t) \in DOMAIN contexts
  BY <1>b, HereFacts
<1>2. /\ step' \in [Tasks -> Steps] /\ DOMAIN node' = Tasks
      /\ \A u \in Tasks \ {t} : step'[u] = step[u] /\ node'[u] = node[u]
      /\ step'[t] = "post"
  BY <1>a, <1>b DEF ExecTypeOK, Steps
<1>3. LoopStep(t)
  BY <1>a, <1>b, <1>2 DEF LoopStep, ExecTypeOK
<1>4. /\ ready' \subseteq started' /\ started' \subseteq DOMAIN contexts
      /\ node'[t] \in 0 .. (Last(t) + 1) /\ step[t] # "none" /\ step'[t] # "none"
  BY <1>1, <1>2, <1>a, <1>b DEF ExecTypeOK
<1>5. ASSUME NEW u \in Tasks, step'[u] = "post"
      PROVE  /\ taskContexts[u][node'[u]] \in started' \ ready'
             /\ \A w \in Tasks : /\ step'[w] = "post"
                                 /\ taskContexts[w][node'[w]] = taskContexts[u][node'[u]]
                                 => w = u
  <2>1. \A w \in Tasks \ {t} : step'[w] = "post" =>
           /\ step[w] = "post" /\ node'[w] = node[w]
           /\ Here(w) \in started \ ready
           /\ Here(w) # Here(t)
    BY <1>2, <1>a, <1>b DEF FilledOnce
  <2>2. CASE u = t
    <3>1. Here(t) \in started' \ ready'
      BY <1>a, <1>b DEF ExecTypeOK
    <3> QED
      BY <1>b, <2>1, <2>2, <3>1 DEF Here
  <2>3. CASE u # t
    <3>1. Here(u) \in started' \ ready'
      BY <1>5, <1>b, <2>1, <2>3
    <3>2. \A w \in Tasks : /\ step'[w] = "post" /\ Here(w) = Here(u) => w = u
      BY <1>5, <1>a, <2>1, <2>3 DEF FilledOnce
    <3> QED
      BY <1>b, <3>1, <3>2 DEF Here
  <2> QED
    BY <2>2, <2>3
<1> QED
  BY <1>1, <1>2, <1>3, <1>4, <1>5, <1>b, LoopKeeps

LEMMA AnsweredKeeps ==
  ASSUME ExecInv, NEW t \in Tasks, Answered(t)
  PROVE  ExecInv'
<1>a. /\ ExecTypeOK /\ FilledOnce
  BY DEF ExecInv, LoopInv
<1>b. /\ step[t] = "post" /\ Advance(t) /\ ready' = ready \cup {Here(t)}
      /\ generated' = generated \cup
           (IF node[t] = Last(t) THEN {Chain[t][Last(t)]} ELSE {})
      /\ UNCHANGED vars /\ UNCHANGED <<started, bad, errors>>
  BY DEF Answered, errVars
<1>1. /\ node[t] \in 1 .. Last(t) /\ Last(t) \in Nat \ {0}
      /\ \A j \in 1 .. (node[t] - 1) : taskContexts[t][j] \in ready
  BY <1>b, HereFacts
<1>2. /\ step' \in [Tasks -> Steps] /\ DOMAIN node' = Tasks
      /\ \A u \in Tasks \ {t} : step'[u] = step[u] /\ node'[u] = node[u]
      /\ node'[t] = node[t] + 1
      /\ \/ step'[t] = "end" /\ node[t] = Last(t)
         \/ step'[t] = "look" /\ node'[t] \in 1 .. Last(t)
  BY <1>b, AdvanceFacts
<1>7. generated' \subseteq Outputs
  BY <1>a, <1>b DEF ExecTypeOK, Outputs
<1>3. LoopStep(t)
  BY <1>a, <1>b, <1>2, <1>7 DEF LoopStep, ExecTypeOK
<1>4. \A j \in 1 .. (node'[t] - 1) : taskContexts[t][j] \in ready'
  <2>1. \A j \in 1 .. (node'[t] - 1) : j \in 1 .. (node[t] - 1) \/ j = node[t]
    BY <1>1, <1>2
  <2> QED
    BY <1>1, <1>b, <2>1 DEF Here
<1>5. ASSUME NEW u \in Tasks, step'[u] = "post"
      PROVE  /\ taskContexts[u][node'[u]] \in started' \ ready'
             /\ \A w \in Tasks : /\ step'[w] = "post"
                                 /\ taskContexts[w][node'[w]] = taskContexts[u][node'[u]]
                                 => w = u
  <2>1. \A w \in Tasks : step'[w] = "post" => w # t /\ step[w] = "post" /\ node'[w] = node[w]
    BY <1>2
  <2>2. Here(u) # Here(t) /\ Here(u) \in started \ ready
    BY <1>5, <1>a, <1>b, <2>1 DEF FilledOnce
  <2>3. \A w \in Tasks : step'[w] = "post" /\ Here(w) = Here(u) => w = u
    BY <1>5, <1>a, <2>1 DEF FilledOnce
  <2> QED
    BY <1>5, <1>b, <2>1, <2>2, <2>3 DEF Here
<1>6. /\ ready' \subseteq started' /\ started' \subseteq DOMAIN contexts
      /\ node'[t] \in 0 .. (Last(t) + 1) /\ step[t] # "none" /\ step'[t] # "none"
  <2>1. Here(t) \in started
    BY <1>a, <1>b DEF FilledOnce
  <2> QED
    BY <1>1, <1>2, <1>a, <1>b, <2>1 DEF ExecTypeOK
<1> QED
  BY <1>2, <1>3, <1>4, <1>5, <1>6, <1>b, LoopKeeps

LEMMA FailedKeeps ==
  ASSUME ExecInv, NEW t \in Tasks, Failed(t)
  PROVE  ExecInv'
<1>a. /\ ExecTypeOK /\ FilledOnce /\ DOMAIN node = Tasks
  BY DEF ExecInv, LoopInv
<1>b. /\ step[t] = "post" /\ step' = [step EXCEPT ![t] = "end"]
      /\ \E f \in registered : bad' = bad \cup {f}
      /\ errors' = errors \cup {t}
      /\ UNCHANGED vars /\ UNCHANGED <<node, started, ready, generated>>
  BY DEF Failed, eventVars
<1>2. /\ step' \in [Tasks -> Steps] /\ DOMAIN node' = Tasks
      /\ \A u \in Tasks \ {t} : step'[u] = step[u] /\ node'[u] = node[u]
      /\ step'[t] = "end"
  BY <1>a, <1>b DEF ExecTypeOK, Steps
<1>3. LoopStep(t)
  BY <1>a, <1>b, <1>2 DEF LoopStep, ExecTypeOK
<1>5. ASSUME NEW u \in Tasks, step'[u] = "post"
      PROVE  /\ taskContexts[u][node'[u]] \in started' \ ready'
             /\ \A w \in Tasks : /\ step'[w] = "post"
                                 /\ taskContexts[w][node'[w]] = taskContexts[u][node'[u]]
                                 => w = u
  <2>1. \A w \in Tasks : step'[w] = "post" => step[w] = "post" /\ node'[w] = node[w]
    BY <1>2
  <2> QED
    BY <1>5, <1>a, <1>b, <2>1 DEF FilledOnce, Here
<1>6. /\ ready' \subseteq started' /\ started' \subseteq DOMAIN contexts
      /\ node'[t] \in 0 .. (Last(t) + 1) /\ step[t] # "none" /\ step'[t] # "none"
  BY <1>2, <1>a, <1>b DEF ExecTypeOK
<1> QED
  BY <1>2, <1>3, <1>5, <1>6, <1>b, LoopKeeps

-----------------------------------------------------------------------------
(* The invariant, and the theorem *)

LEMMA ExecInvInit == ExecInit => ExecInv
<1> SUFFICES ASSUME ExecInit PROVE ExecInv
  OBVIOUS
<1>1. SafeInv /\ PathInv /\ fused = {}
  <2>1. Init /\ fused = {}
    BY DEF ExecInit, Init
  <2> QED
    BY <2>1, ContextInit DEF ContextInv
<1>2. ExecTypeOK
  <2>1. \A t \in Tasks : Last(t) \in Nat \ {0}
    BY ChainFacts
  <2> QED
    BY <2>1 DEF ExecInit, Init, ExecTypeOK, Steps
<1>3. DOMAIN node = Tasks /\ FilledOnce /\ DoneReady
  BY DEF ExecInit, FilledOnce, DoneReady
<1> QED
  BY <1>1, <1>2, <1>3 DEF ExecInv, LoopInv

LEMMA ExecInvStep == ExecInv /\ [ExecNext]_allVars => ExecInv'
<1> SUFFICES ASSUME ExecInv, [ExecNext]_allVars PROVE ExecInv'
  OBVIOUS
<1>1. ASSUME NEW t \in Tasks, FinishFails(t) \/ FailedUnknown(t) PROVE ExecInv'
  <2>1. /\ down' = "engine gone"
        /\ UNCHANGED <<taskVars, ctxVars, cacheVars, constPVars, engVars, execVars>>
    BY <1>1 DEF FinishFails, FailedUnknown, FreeTaskContextsFails
  <2> QED
    BY <2>1, EndKeeps
<1>2. ASSUME NEW v \in ConstVars, ExpireEnds(v) PROVE ExecInv'
  <2>1. /\ down' \in {"engine gone", "no constant prefix contexts"}
        /\ UNCHANGED <<taskVars, ctxVars, cacheVars, constPVars, engVars, execVars>>
    BY <1>2 DEF ExpireEnds, ExpireConstVarAsserts, ExpireConstVarFails
  <2> QED
    BY <2>1, EndKeeps
<1>3. ASSUME NEW t \in Tasks, Coroutine(t) PROVE ExecInv'
  BY <1>1, <1>3, FinishKeeps, SkipKeeps, AwaitKeeps, PostKeeps, AnsweredKeeps,
     FailedKeeps DEF Coroutine
<1>4. CASE UNCHANGED allVars
  <2>2. UNCHANGED vars /\ UNCHANGED <<node, step, started, ready, generated, bad, errors>>
    BY <1>4 DEF allVars, execVars, loopVars, eventVars, errVars
  <2>3. /\ SafeInv' /\ PathInv' /\ fused' = {}
        /\ UNCHANGED <<phase, taskContexts, contexts, registered>>
    BY <2>2, LoopKeepsManager
  <2>4. ExecTypeOK
    BY DEF ExecInv, LoopInv
  <2>5. /\ bad' \subseteq registered'
        /\ started' = started \cap DOMAIN contexts' /\ ready' = ready \cap DOMAIN contexts'
    BY <2>2, <2>3, <2>4 DEF ExecTypeOK
  <2> QED
    BY <2>2, <2>3, <2>5, OthersKeep
<1>5. CASE ExecNext
  <2>1. CASE \E t \in Tasks, e \in Engines : \E k \in 0..Last(t) : Start(t, e, k)
    BY <2>1, StartKeeps
  <2>2. CASE Environment /\ UNCHANGED execVars
    BY <2>2, EnvironmentKeeps
  <2> QED
    BY <1>2, <1>3, <1>5, <2>1, <2>2, SweepKeeps, ExpireKeeps DEF ExecNext
<1> QED
  BY <1>4, <1>5

\* Contexts are filled once and in the order of the prompt by whichever
\* coroutine comes first, also while engines die, are swept and come back:
\* when a primitive is in flight nobody else fills its context, and all
\* contexts before it on its path are ready and have not been freed.
THEOREM AlwaysFilledInOrder == ExecSpec => []FilledInOrder
<1>1. ExecInv => FilledInOrder
  <2> SUFFICES ASSUME ExecInv PROVE FilledInOrder
    OBVIOUS
  <2>1. ExecTypeOK /\ FilledOnce
    BY DEF ExecInv, LoopInv
  <2>2. PromptReady
    <3>1. ASSUME NEW t \in Tasks, step[t] = "post"
          PROVE  /\ contexts[Here(t)].parent # None => contexts[Here(t)].parent \in ready
                 /\ \A j \in 1..(node[t] - 1) : taskContexts[t][j] \in ready
      <4>1. /\ node[t] \in 1 .. Last(t) /\ Last(t) \in Nat \ {0}
            /\ contexts[Here(t)].parent =
                 IF node[t] = 1 THEN None ELSE taskContexts[t][node[t] - 1]
            /\ \A j \in 1 .. (node[t] - 1) : taskContexts[t][j] \in ready
        BY <3>1, HereFacts
      <4>2. node[t] # 1 => node[t] - 1 \in 1 .. (node[t] - 1)
        BY <4>1
      <4> QED
        BY <4>1, <4>2
    <3> QED
      BY <3>1 DEF PromptReady
  <2> QED
    BY <2>1, <2>2 DEF FilledInOrder
<1> QED
  BY <1>1, ExecInvInit, ExecInvStep, PTL DEF ExecSpec
=============================================================================
