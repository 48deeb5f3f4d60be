----------------------- MODULE GlobalScheduler_proofs -----------------------
(***************************************************************************)
(* The accounting of engines and the order of the queue, for any tasks,    *)
(* engines, capacities and annotations and any number of rounds.           *)
(*                                                                         *)
(* LoadSound alone is not inductive.  That the load of an engine is the    *)
(* sum over its tasks survives the dispatch of a group only if no member   *)
(* was dispatched before: the queue holds a task once and a group is       *)
(* dispatched as a whole (QueueSound).  A task that leaves must have an    *)
(* engine to give its tokens back to (Placed).  For the order of the queue *)
(* FifoInv adds that the queue agrees with the order of arrival among      *)
(* tasks of equal depth (OrderKept) and that whatever the loop of the      *)
(* current schedule() has left behind fits on no engine (PassedUnfit),     *)
(* since engines only get fuller until the loop ends.                      *)
(***************************************************************************)
EXTENDS GlobalScheduler, FiniteInduction, FiniteSetTheorems, SequenceTheorems,
        TLAPS

-----------------------------------------------------------------------------
(* The operators *)

Weights(e) == [t \in Tasks |-> Tokens[t][e]]

LEMMA TokensAreSum ==
  ASSUME NEW e \in Engines, NEW F, IsSum(F, Weights(e), Tasks),
         NEW G \in SUBSET Tasks
  PROVE  TokensOf(G, e) = F[G]
<1> DEFINE pick(s) == CHOOSE x \in s : TRUE
           body(it) == [s \in SUBSET G |->
                           IF s = {} THEN 0
                           ELSE Tokens[pick(s)][e] + it[s \ {pick(s)}]]
           iter == CHOOSE it : it = body(it)
<1>1. TokensOf(G, e) = iter[G]
  BY DEF TokensOf, MapThenSumSet, MapThenFoldSet
<1>2. \A s \in SUBSET G : s # {} => pick(s) \in s
  OBVIOUS
<1> HIDE DEF pick
<1>3. IsFiniteSet(Tasks) /\ Weights(e) \in [Tasks -> Nat]
  BY SchedulerAssumption DEF Weights
<1>4. \E it : it = body(it)
  <2> DEFINE w == [s \in SUBSET G |-> F[s]]
  <2>1. ASSUME NEW s \in SUBSET G, s # {}
        PROVE  F[s] = Tokens[pick(s)][e] + w[s \ {pick(s)}]
    <3> DEFINE x == pick(s)
               r == s \ {pick(s)}
    <3>1. /\ x \in Tasks /\ r \in SUBSET Tasks /\ x \notin r /\ r \cup {x} = s
          /\ r \in SUBSET G
      BY <1>2, <2>1
    <3>2. Weights(e)[x] = Tokens[x][e]
      BY <3>1 DEF Weights
    <3> HIDE DEF x, r
    <3>3. F[r \cup {x}] = F[r] + Weights(e)[x] /\ F[r] \in Nat /\ Weights(e)[x] \in Nat
      BY <1>3, <3>1 DEF IsSum
    <3>4. w[r] = F[r]
      BY <3>1
    <3>5. F[s] = F[r] + Weights(e)[x]
      BY <3>1, <3>3
    <3> HIDE DEF w
    <3>6. F[s] = Tokens[x][e] + w[r]
      BY <3>2, <3>3, <3>4, <3>5
    <3> QED
      BY <3>6 DEF x, r
  <2>2. F[{}] = 0
    BY DEF IsSum
  <2>3. w = body(w)
    <3> HIDE DEF w
    <3>1. \A s \in SUBSET G : w[s] = F[s]
      BY DEF w
    <3>2. \A s \in SUBSET G : body(w)[s] = F[s]
      BY <2>1, <2>2
    <3> QED
      BY <3>2 DEF w
  <2> QED
    BY <2>3
<1> HIDE DEF body
<1>5. iter = body(iter)
  BY <1>4
<1> HIDE DEF iter
<1>6. /\ iter[{}] = 0
      /\ \A s \in SUBSET G :
            s # {} => iter[s] = Tokens[pick(s)][e] + iter[s \ {pick(s)}]
  BY <1>5 DEF body
<1>7. \A s \in SUBSET G : s # {} =>
          \E x \in s : iter[s] = Weights(e)[x] + iter[s \ {x}]
  <2> SUFFICES ASSUME NEW s \in SUBSET G, s # {}
               PROVE  \E x \in s : iter[s] = Weights(e)[x] + iter[s \ {x}]
    OBVIOUS
  <2>1. pick(s) \in s /\ Weights(e)[pick(s)] = Tokens[pick(s)][e]
    BY <1>2 DEF Weights
  <2> QED
    BY <1>6, <2>1
<1>8. AddsUp(iter, Weights(e), G)
  BY <1>6, <1>7 DEF AddsUp
<1>9. iter[G] = F[G]
  BY <1>3, <1>8, SumByElements
<1> QED
  BY <1>1, <1>9

\* The tokens of a group are those of its tasks, in whatever order they are
\* added.
LEMMA TokensFacts ==
  ASSUME NEW e \in Engines
  PROVE  /\ \A S \in SUBSET Tasks : TokensOf(S, e) \in Nat
         /\ TokensOf({}, e) = 0
         /\ \A t \in Tasks : TokensOf({t}, e) = Tokens[t][e]
         /\ \A S, T \in SUBSET Tasks : S \cap T = {} =>
               TokensOf(S \cup T, e) = TokensOf(S, e) + TokensOf(T, e)
<1>1. IsFiniteSet(Tasks) /\ Weights(e) \in [Tasks -> Nat]
  BY SchedulerAssumption DEF Weights
<1>2. PICK F : IsSum(F, Weights(e), Tasks)
  BY <1>1, SumExists
<1>3. \A S \in SUBSET Tasks : TokensOf(S, e) = F[S]
  BY <1>2, TokensAreSum
<1>4. F \in [SUBSET Tasks -> Nat] /\ F[{}] = 0
  BY <1>2 DEF IsSum
<1>5. ASSUME NEW t \in Tasks PROVE F[{t}] = Tokens[t][e]
  <2>1. F[{} \cup {t}] = F[{}] + Weights(e)[t]
    BY <1>2 DEF IsSum
  <2>2. {} \cup {t} = {t} /\ Weights(e)[t] = Tokens[t][e] /\ Weights(e)[t] \in Nat
    BY <1>1 DEF Weights
  <2> QED
    BY <1>4, <2>1, <2>2
<1>6. \A S, T \in SUBSET Tasks : S \cap T = {} => F[S \cup T] = F[S] + F[T]
  BY <1>1, <1>2, SumUnion
<1> QED
  BY <1>3, <1>4, <1>5, <1>6

\* A resident that leaves takes its tokens with it.
LEMMA TokensLeave ==
  ASSUME NEW e \in Engines, NEW S \in SUBSET Tasks, NEW t \in S
  PROVE  TokensOf(S \ {t}, e) = TokensOf(S, e) - Tokens[t][e]
<1>1. /\ (S \ {t}) \cup {t} = S /\ (S \ {t}) \cap {t} = {}
      /\ S \ {t} \in SUBSET Tasks /\ {t} \in SUBSET Tasks
  OBVIOUS
<1>2. TokensOf((S \ {t}) \cup {t}, e) = TokensOf(S \ {t}, e) + TokensOf({t}, e)
  BY <1>1, TokensFacts
<1>3. TokensOf({t}, e) = Tokens[t][e] /\ TokensOf(S \ {t}, e) \in Nat
  BY <1>1, TokensFacts
<1>4. Tokens[t][e] \in Nat
  BY SchedulerAssumption
<1>5. TokensOf(S, e) = TokensOf(S \ {t}, e) + Tokens[t][e]
  BY <1>1, <1>2, <1>3
<1> QED
  BY <1>3, <1>4, <1>5

\* get_tasks_num_upperbound is the least bound of the tasks of the engine.
LEMMA UpperFacts ==
  ASSUME NEW e \in Engines, bounds \in [Engines -> SUBSET Tasks]
  PROVE  /\ EngineUpper(e) \in Nat /\ EngineUpper(e) <= NoBound
         /\ \A t \in bounds[e] : EngineUpper(e) <= Upper[t]
         /\ \/ EngineUpper(e) = NoBound
            \/ \E t \in bounds[e] : EngineUpper(e) = Upper[t]
<1> DEFINE S == {NoBound} \cup {Upper[t] : t \in bounds[e]}
<1>1. /\ S \subseteq Nat /\ S # {} /\ NoBound \in S
      /\ \A t \in bounds[e] : Upper[t] \in S
      /\ \A x \in S : x = NoBound \/ \E t \in bounds[e] : x = Upper[t]
  <2>1. NoBound \in Nat
    BY SMT DEF NoBound
  <2>2. Upper \in [Tasks -> Nat]
    BY <2>1, SchedulerAssumption
  <2> QED
    BY <2>1, <2>2
<1> HIDE DEF S
<1>2. \E m \in S : \A j \in S : m <= j
  BY <1>1, Least
<1>3. Min(S) \in S /\ \A j \in S : Min(S) <= j
  BY <1>2 DEF Min
<1>4. EngineUpper(e) = Min(S)
  BY DEF EngineUpper, S
<1> QED
  BY <1>1, <1>3, <1>4

\* _find_engine returns an engine that check_engine_available accepts, or
\* None if there is no such engine.
LEMMA BestFacts ==
  ASSUME NEW t, NEW G
  PROVE  LET e == BestEngine(t, G)
         IN  /\ e = None \/ (e \in Engines /\ Available(t, G, e))
             /\ e = None => \A d \in Engines : ~Available(t, G, d)
<1> DEFINE N == NumEngines
           next(b, n) == IF ~Available(t, G, n) THEN b[n - 1]
                         ELSE IF b[n - 1] = None THEN n
                         ELSE IF Prefers(t, n, b[n - 1]) THEN n ELSE b[n - 1]
           body(b) == [n \in 0 .. N |-> IF n = 0 THEN None ELSE next(b, n)]
           best == CHOOSE b : b = body(b)
<1>1. BestEngine(t, G) = best[N]
  BY DEF BestEngine
<1>2. N \in Nat \ {0}
  BY SchedulerAssumption
<1>3. \A b, n : next(b, n) = b[n - 1] \/ (next(b, n) = n /\ Available(t, G, n))
  OBVIOUS
<1>4. \A b, c, n : b[n - 1] = c[n - 1] => next(b, n) = next(c, n)
  OBVIOUS
<1> HIDE DEF N, next
<1>5. \E b : b = body(b)
  <2> DEFINE upTo(b, k) == /\ b = [n \in 0 .. N |-> b[n]]
                           /\ \A n \in 0 .. N : n <= k => b[n] = body(b)[n]
             P == {k \in Nat : \E b : upTo(b, k)}
  <2>1. 0 \in P
    <3>1. upTo([n \in 0 .. N |-> None], 0)
      BY <1>2
    <3> QED
      BY <3>1
  <2>2. ASSUME NEW k \in Nat, k \in P PROVE k + 1 \in P
    <3>1. PICK b : upTo(b, k)
      BY <2>2
    <3> DEFINE c == [n \in 0 .. N |-> IF n = k + 1 THEN next(b, n) ELSE b[n]]
    <3>2. c = [n \in 0 .. N |-> c[n]]
      OBVIOUS
    <3>3. \A n \in 0 .. N : n <= k => c[n] = b[n]
      OBVIOUS
    <3>4. k + 1 \in 0 .. N => c[k + 1] = next(b, k + 1)
      OBVIOUS
    <3> HIDE DEF c
    <3>5. ASSUME NEW n \in 0 .. N, n <= k + 1 PROVE c[n] = body(c)[n]
      <4>1. CASE n = 0
        <5>1. c[0] = b[0] /\ b[0] = body(b)[0]
          <6> HIDE DEF body
          <6>1. 0 \in 0 .. N /\ 0 <= k
            BY <1>2
          <6> QED
            BY <3>1, <3>3, <6>1
        <5>2. body(b)[0] = None /\ body(c)[0] = None
          BY <1>2
        <5> QED
          BY <4>1, <5>1, <5>2
      <4>2. CASE n # 0
        <5>1. n - 1 \in 0 .. N /\ n - 1 <= k
          BY <1>2, <3>5, <4>2
        <5>2. next(c, n) = next(b, n)
          BY <1>4, <3>3, <5>1
        <5>3. body(c)[n] = next(c, n) /\ body(b)[n] = next(b, n)
          BY <4>2
        <5>4. CASE n = k + 1
          BY <3>4, <5>2, <5>3, <5>4
        <5>5. CASE n <= k
          BY <3>1, <3>3, <5>2, <5>3, <5>5
        <5> QED
          BY <1>2, <3>5, <5>4, <5>5
      <4> QED
        BY <4>1, <4>2
    <3>6. upTo(c, k + 1)
      <4> HIDE DEF body
      <4> QED
        BY <3>2, <3>5
    <3> HIDE DEF upTo
    <3> QED
      BY <3>6
  <2>3. N \in P
    <3> HIDE DEF P
    <3> QED
      BY <1>2, <2>1, <2>2, SetInduction
  <2>4. PICK b : upTo(b, N)
    BY <2>3
  <2>5. \A n \in 0 .. N : b[n] = body(b)[n]
    BY <1>2, <2>4
  <2>6. b = [n \in 0 .. N |-> b[n]]
    BY <2>4
  <2>7. b = body(b)
    BY <2>5, <2>6
  <2> QED
    BY <2>7
<1>6. best = body(best)
  <2> HIDE DEF body
  <2> QED
    BY <1>5
<1> HIDE DEF best
<1>7. /\ best[0] = None
      /\ \A n \in 0 .. N : n # 0 => best[n] = next(best, n)
  BY <1>2, <1>6
<1> DEFINE Q == {k \in Nat : k <= N => \/ best[k] = None
                                       \/ /\ best[k] \in 1 .. N
                                          /\ Available(t, G, best[k])}
<1>8. 0 \in Q
  BY <1>7
<1>9. ASSUME NEW k \in Nat, k \in Q PROVE k + 1 \in Q
  <2> SUFFICES ASSUME k + 1 <= N
               PROVE  \/ best[k + 1] = None
                      \/ best[k + 1] \in 1 .. N /\ Available(t, G, best[k + 1])
    OBVIOUS
  <2>1. k + 1 \in 0 .. N /\ k + 1 # 0 /\ k <= N /\ (k + 1) - 1 = k /\ k + 1 \in 1 .. N
    BY <1>2
  <2>2. best[k + 1] = next(best, k + 1)
    BY <1>7, <2>1
  <2>3. \/ next(best, k + 1) = best[k]
        \/ next(best, k + 1) = k + 1 /\ Available(t, G, k + 1)
    BY <1>3, <2>1
  <2> QED
    BY <1>9, <2>1, <2>2, <2>3
<1>10. N \in Q
  <2> HIDE DEF Q
  <2> QED
    BY <1>2, <1>8, <1>9, SetInduction
<1> DEFINE E == {k \in Nat : k <= N /\ best[k] = None =>
                               \A m \in 1 .. k : ~Available(t, G, m)}
<1>11. 0 \in E
  OBVIOUS
<1>12. ASSUME NEW k \in Nat, k \in E PROVE k + 1 \in E
  <2> SUFFICES ASSUME k + 1 <= N, best[k + 1] = None
               PROVE  \A m \in 1 .. (k + 1) : ~Available(t, G, m)
    OBVIOUS
  <2>1. /\ k + 1 \in 0 .. N /\ k + 1 # 0 /\ k <= N /\ (k + 1) - 1 = k
        /\ k + 1 \in Engines
    BY <1>2 DEF Engines, N
  <2>2. next(best, k + 1) = None
    BY <1>7, <2>1
  <2>3. k + 1 # None
    BY <2>1, SchedulerAssumption
  <2>4. ~Available(t, G, k + 1) /\ best[k] = None
    BY <2>1, <2>2, <2>3 DEF next
  <2>5. \A m \in 1 .. k : ~Available(t, G, m)
    BY <1>12, <2>1, <2>4
  <2>6. \A m \in 1 .. (k + 1) : m \in 1 .. k \/ m = k + 1
    OBVIOUS
  <2> QED
    BY <2>4, <2>5, <2>6
<1>13. N \in E
  <2> HIDE DEF E
  <2> QED
    BY <1>2, <1>11, <1>12, SetInduction
<1> QED
  BY <1>1, <1>2, <1>10, <1>13 DEF Engines, N
Distinct(q) == \A i, j \in DOMAIN q : q[i] = q[j] => i = j
Elements(q) == {q[i] : i \in DOMAIN q}

\* list.sort has a result, a permutation of the queue that keeps the order of
\* tasks of the same depth.
LEMMA SortFacts ==
  ASSUME NEW q \in Seq(Tasks), Distinct(q)
  PROVE  LET s == SortByDepth(q)
         IN  /\ s \in Seq(Tasks) /\ Len(s) = Len(q)
             /\ Distinct(s) /\ Elements(s) = Elements(q)
             /\ \A i, j \in DOMAIN s : i < j /\ Depth[s[i]] = Depth[s[j]] =>
                   \E k, l \in DOMAIN q : k < l /\ q[k] = s[i] /\ q[l] = s[j]
<1> DEFINE n == Len(q)
           deep(a, b) == \/ Depth[q[a]] > Depth[q[b]]
                         \/ Depth[q[a]] = Depth[q[b]] /\ a < b
           R == {x \in (1 .. n) \X (1 .. n) : deep(x[1], x[2])}
           goal(s) == /\ {s[i] : i \in DOMAIN q} = {q[i] : i \in DOMAIN q}
                      /\ \A i, j \in DOMAIN q : i < j =>
                            \/ Depth[s[i]] > Depth[s[j]]
                            \/ /\ Depth[s[i]] = Depth[s[j]]
                               /\ \E k, l \in DOMAIN q :
                                     k < l /\ q[k] = s[i] /\ q[l] = s[j]
<1>1. n \in Nat /\ DOMAIN q = 1 .. n /\ \A i \in 1 .. n : q[i] \in Tasks
  OBVIOUS
<1>2. \A i \in 1 .. n : Depth[q[i]] \in Nat
  BY <1>1, SchedulerAssumption
<1>3. IsFiniteSet(1 .. n) /\ Cardinality(1 .. n) = n
  BY <1>1, UpToCounted
<1>4. \A x, y \in 1 .. n : <<x, y>> \in R <=> deep(x, y)
  OBVIOUS
<1> HIDE DEF R, n
<1>5. Orders(R, 1 .. n)
  <2>1. \A x \in 1 .. n : ~deep(x, x)
    BY <1>1, <1>2
  <2>2. \A x, y, z \in 1 .. n : deep(x, y) /\ deep(y, z) => deep(x, z)
    BY <1>1, <1>2
  <2>3. \A x, y \in 1 .. n : x # y => deep(x, y) \/ deep(y, x)
    BY <1>1, <1>2
  <2> HIDE DEF deep
  <2> QED
    BY <1>4, <2>1, <2>2, <2>3 DEF Orders
<1>6. PICK p \in Bijection(1 .. n, 1 .. n) :
            \A i, j \in 1 .. n : i < j <=> <<p[i], p[j]>> \in R
  <2> DEFINE m == Cardinality(1 .. n)
  <2>1. \E p \in Bijection(1 .. m, 1 .. n) :
            \A i, j \in 1 .. m : i < j <=> <<p[i], p[j]>> \in R
    BY <1>3, <1>5, Sorted
  <2>2. m = n
    BY <1>3
  <2> HIDE DEF m
  <2> QED
    BY <2>1, <2>2
<1>7. p \in [1 .. n -> 1 .. n] /\ \A k \in 1 .. n : \E i \in 1 .. n : p[i] = k
  BY <1>6 DEF Bijection, Surjection, Injection
<1> DEFINE w == [i \in 1 .. n |-> q[p[i]]]
<1>8. w \in [DOMAIN q -> Tasks]
  BY <1>1, <1>7
<1>9. goal(w)
  <2>1. {w[i] : i \in DOMAIN q} = {q[i] : i \in DOMAIN q}
    BY <1>1, <1>7
  <2>2. ASSUME NEW i \in DOMAIN q, NEW j \in DOMAIN q, i < j
        PROVE  \/ Depth[w[i]] > Depth[w[j]]
               \/ /\ Depth[w[i]] = Depth[w[j]]
                  /\ \E k, l \in DOMAIN q : k < l /\ q[k] = w[i] /\ q[l] = w[j]
    <3>0. i \in 1 .. n /\ j \in 1 .. n
      BY <1>1
    <3>1. p[i] \in 1 .. n /\ p[j] \in 1 .. n /\ w[i] = q[p[i]] /\ w[j] = q[p[j]]
      BY <1>7, <3>0
    <3>2. deep(p[i], p[j])
      BY <1>4, <1>6, <2>2, <3>0, <3>1
    <3> HIDE DEF w
    <3> QED
      BY <1>1, <3>1, <3>2
  <2> HIDE DEF w
  <2> QED
    BY <2>1, <2>2
<1> DEFINE s == CHOOSE f \in [DOMAIN q -> Tasks] : goal(f)
<1>10. s \in [DOMAIN q -> Tasks] /\ goal(s)
  <2> HIDE DEF goal, w
  <2> QED
    BY <1>8, <1>9
<1>11. SortByDepth(q) = s
  BY DEF SortByDepth
<1> HIDE DEF s, w
<1>12. s \in Seq(Tasks) /\ Len(s) = n /\ DOMAIN s = 1 .. n
  BY <1>1, <1>10
<1>13. Elements(s) = Elements(q)
  BY <1>1, <1>10, <1>12 DEF Elements
<1>14. ASSUME NEW i \in 1 .. n, NEW j \in 1 .. n, i < j PROVE s[i] # s[j]
  <2>1. Depth[s[i]] \in Nat
    BY <1>1, <1>10, SchedulerAssumption
  <2>2. CASE Depth[s[i]] > Depth[s[j]]
    BY <2>1, <2>2
  <2>3. CASE \E k, l \in 1 .. n : k < l /\ q[k] = s[i] /\ q[l] = s[j]
    <3>1. PICK k \in 1 .. n, l \in 1 .. n : k < l /\ q[k] = s[i] /\ q[l] = s[j]
      BY <2>3
    <3>2. k # l
      BY <1>1, <3>1
    <3> QED
      BY <1>1, <3>1, <3>2 DEF Distinct
  <2> QED
    BY <1>1, <1>10, <1>14, <2>2, <2>3
<1>15. Distinct(s)
  <2> SUFFICES ASSUME NEW i \in 1 .. n, NEW j \in 1 .. n, s[i] = s[j] PROVE i = j
    BY <1>12 DEF Distinct
  <2>1. ~(i < j) /\ ~(j < i)
    BY <1>14
  <2> QED
    BY <1>1, <2>1
<1>16. ASSUME NEW i \in 1 .. n, NEW j \in 1 .. n, i < j, Depth[s[i]] = Depth[s[j]]
       PROVE  \E k, l \in DOMAIN q : k < l /\ q[k] = s[i] /\ q[l] = s[j]
  <2>1. Depth[s[i]] \in Nat /\ i \in DOMAIN q /\ j \in DOMAIN q
    BY <1>1, <1>10, SchedulerAssumption
  <2>2. ~(Depth[s[i]] > Depth[s[j]])
    BY <1>16, <2>1
  <2> QED
    BY <1>10, <1>16, <2>1, <2>2
<1> QED
  BY <1>11, <1>12, <1>13, <1>15, <1>16 DEF n
-----------------------------------------------------------------------------
(* The invariant *)

\* Tasks that schedule() puts into one group.
Together(t, u) ==
    \/ config.graphGroup /\ Group[t] # None /\ Group[u] = Group[t]
    \/ config.ctxGroup /\ FirstVar[u] = FirstVar[t]

\* Only one kind of grouping is configured.
OneGrouping == ~(config.graphGroup /\ config.ctxGroup)

\* The queue holds every task once.  Outside of schedule() its tasks wait, and
\* in the part the loop has not passed, groups are scheduled as a whole.
QueueSound ==
    /\ Distinct(queue)
    /\ \A i \in DOMAIN queue : phase[queue[i]] \in {"queued", "scheduled"}
    /\ cursor = 0 => \A i \in DOMAIN queue : phase[queue[i]] = "queued"
    /\ cursor # 0 => \A i, j \in cursor .. Len(queue) :
          Together(queue[i], queue[j]) /\ phase[queue[i]] = "scheduled"
          => phase[queue[j]] = "scheduled"

\* Scheduled tasks have an engine.
Placed ==
    \A t \in Tasks : phase[t] \in {"scheduled", "bound"} => engineOf[t] \in Engines

\* The load of the engines, and what makes it inductive.
LoadInv == LoadSound /\ OneGrouping /\ QueueSound /\ Placed

LEMMA TogetherFacts ==
  ASSUME OneGrouping
  PROVE  /\ \A t, u : Together(t, u) => Together(u, t)
         /\ \A t, u, v : Together(t, u) /\ Together(t, v) => Together(u, v)
BY DEF OneGrouping, Together

\* The positions of the group of the current task.
Joined == {j \in cursor .. Len(queue) :
              j = cursor \/ Together(queue[cursor], queue[j])}

\* The group of the current task: the tasks behind it that go together with
\* it, whichever of them is found first.
LEMMA GroupFacts ==
  ASSUME TypeOK, OneGrouping, cursor \in 1 .. Len(queue)
  PROVE  /\ Grouped = {queue[j] : j \in Joined}
         /\ OneByOne => Grouped = {queue[cursor]}
         /\ Grouped \subseteq Tasks /\ Current \in Grouped
         /\ Joined \subseteq DOMAIN queue
<1> DEFINE t == queue[cursor]
           later == (cursor + 1) .. Len(queue)
           rest == {queue[j] : j \in later}
           graph(u) == config.graphGroup /\ Group[t] # None /\ Group[u] = Group[t]
           ctx(u) == config.ctxGroup /\ FirstVar[u] = FirstVar[t]
           matches == {j \in later : graph(queue[j]) \/ ctx(queue[j])}
<1>1. Grouped = {t} \cup (IF matches = {} THEN {}
                          ELSE IF graph(queue[Min(matches)])
                               THEN {u \in rest : graph(u)}
                               ELSE {u \in rest : ctx(u)})
  BY DEF Grouped, Current
<1>2. /\ Len(queue) \in Nat /\ cursor \in Nat /\ DOMAIN queue = 1 .. Len(queue)
      /\ \A i \in 1 .. Len(queue) : queue[i] \in Tasks
  BY DEF TypeOK
<1>3. /\ later \subseteq Nat /\ later \subseteq 1 .. Len(queue)
      /\ cursor .. Len(queue) = {cursor} \cup later /\ cursor \notin later
  BY <1>2
<1>4. \A u : Together(t, u) <=> graph(u) \/ ctx(u)
  BY DEF Together
<1>5. (\A u : ~graph(u)) \/ (\A u : ~ctx(u))
  BY DEF OneGrouping
<1>6. OneByOne => \A u : ~graph(u) /\ ~ctx(u)
  BY DEF OneByOne
<1> HIDE DEF t, graph, ctx, later
<1>7. matches # {} => Min(matches) \in matches
  <2> SUFFICES ASSUME matches # {} PROVE Min(matches) \in matches
    OBVIOUS
  <2>1. matches \subseteq Nat
    BY <1>3
  <2> HIDE DEF matches
  <2>2. \E m \in matches : \A j \in matches : m <= j
    BY <2>1, Least
  <2> QED
    BY <2>2 DEF Min
<1>8. Grouped = {t} \cup {u \in rest : graph(u) \/ ctx(u)}
  <2>1. CASE matches = {}
    BY <1>1, <2>1
  <2>2. CASE matches # {} /\ \A u : ~graph(u)
    BY <1>1, <2>2
  <2>3. CASE matches # {} /\ \A u : ~ctx(u)
    <3>1. graph(queue[Min(matches)])
      BY <1>7, <2>3
    <3> QED
      BY <1>1, <2>3, <3>1
  <2> QED
    BY <1>5, <2>1, <2>2, <2>3
<1>9. Joined = {cursor} \cup {j \in later : graph(queue[j]) \/ ctx(queue[j])}
  BY <1>3, <1>4 DEF Joined, t
<1>10. Grouped = {queue[j] : j \in Joined}
  BY <1>8, <1>9 DEF t
<1>11. Joined \subseteq DOMAIN queue /\ cursor \in Joined
  BY <1>2, <1>3, <1>9
<1>12. Grouped \subseteq Tasks /\ Current \in Grouped
  BY <1>2, <1>10, <1>11 DEF Current
<1>13. OneByOne => Grouped = {queue[cursor]}
  BY <1>6, <1>8 DEF t
<1> QED
  BY <1>10, <1>11, <1>12, <1>13
-----------------------------------------------------------------------------
(* Steps that move no load *)

Load == AccountingExact /\ WithinCapacity /\ UpperBoundsRespected

LEMMA LoadParts == LoadInv <=> TypeOK /\ Load /\ OneGrouping /\ QueueSound /\ Placed
BY DEF LoadInv, LoadSound, Load

LEMMA LoadPartsPrime ==
  LoadInv' <=> TypeOK' /\ Load' /\ OneGrouping' /\ QueueSound' /\ Placed'
BY DEF LoadInv, LoadSound, Load

LEMMA LoadUnmoved ==
  ASSUME Load, UNCHANGED <<config, acct>>,
         \A e \in Engines : Residents(e)' = Residents(e)
  PROVE  Load'
<1>1. /\ numTasks' = numTasks /\ tokensNum' = tokensNum /\ bounds' = bounds
      /\ config' = config
  BY DEF acct
<1>2. AccountingExact'
  BY <1>1 DEF AccountingExact, Load
<1>3. WithinCapacity'
  BY <1>1 DEF WithinCapacity, Load
<1>4. UpperBoundsRespected'
  BY <1>1 DEF UpperBoundsRespected, Load, OneByOne
<1> QED
  BY <1>2, <1>3, <1>4 DEF Load

\* The tasks on the engines stay when no task starts or stops to be resident.
LEMMA ResidentsUnmoved ==
  ASSUME UNCHANGED engineOf,
         \A t \in Tasks : phase'[t] \in {"scheduled", "bound"}
                          <=> phase[t] \in {"scheduled", "bound"}
  PROVE  \A e \in Engines : Residents(e)' = Residents(e)
BY DEF Residents

LEMMA SubmitKeeps ==
  ASSUME LoadInv, NEW t \in Tasks, Submit(t) \/ SubmitRejected(t)
  PROVE  LoadInv'
<1> USE LoadParts
<1>1. PICK p \in {"queued", "rejected"} : phase' = [phase EXCEPT ![t] = p]
  BY DEF Submit, SubmitRejected
<1>2. /\ phase[t] = "new" /\ cursor = 0
      /\ UNCHANGED <<config, cursor, engineOf, acct, live, warm>>
  BY DEF Submit, SubmitRejected
<1>3. TypeOK
  OBVIOUS
<1>4. \A u \in Tasks : phase'[u] = IF u = t THEN p ELSE phase[u]
  BY <1>1, <1>3 DEF TypeOK
<1>5. \A u \in Tasks : phase'[u] \in {"scheduled", "bound"}
                       <=> phase[u] \in {"scheduled", "bound"}
  BY <1>2, <1>4
<1>6. Load' /\ Placed'
  <2>1. \A e \in Engines : Residents(e)' = Residents(e)
    BY <1>2, <1>5, ResidentsUnmoved
  <2>2. Load'
    BY <1>2, <2>1, LoadUnmoved
  <2>3. Placed'
    BY <1>2, <1>5 DEF Placed
  <2> QED
    BY <2>2, <2>3
<1>7. /\ queue' \in Seq(Tasks) /\ Len(queue') <= MaxQueueSize
      /\ arrivals' \in Seq(Tasks) /\ cursor' \in 0 .. (Len(queue') + 1)
  <2>1. CASE Submit(t)
    <3>1. queue' = Append(queue, t) /\ arrivals' = Append(arrivals, t)
      BY <2>1 DEF Submit
    <3>2. Len(queue) < MaxQueueSize /\ MaxQueueSize \in Nat
      BY <2>1, SchedulerAssumption DEF Submit
    <3>3. queue \in Seq(Tasks) /\ arrivals \in Seq(Tasks)
      BY <1>3 DEF TypeOK
    <3>4. queue' \in Seq(Tasks) /\ Len(queue') = Len(queue) + 1 /\ arrivals' \in Seq(Tasks)
      BY <3>1, <3>3
    <3> QED
      BY <1>2, <3>2, <3>3, <3>4
  <2>2. CASE SubmitRejected(t)
    BY <1>2, <1>3, <2>2 DEF SubmitRejected, TypeOK
  <2> QED
    BY <2>1, <2>2
<1>8. TypeOK'
  BY <1>1, <1>2, <1>3, <1>7 DEF TypeOK, Phases, acct
<1>9. QueueSound'
  <2>1. \A i \in DOMAIN queue : queue[i] \in Tasks /\ queue[i] # t /\ phase[queue[i]] = "queued"
    BY <1>2, <1>3 DEF QueueSound, TypeOK
  <2>2. CASE SubmitRejected(t)
    <3>1. queue' = queue
      BY <2>2 DEF SubmitRejected
    <3>2. \A i \in DOMAIN queue : phase'[queue[i]] = "queued"
      BY <1>4, <2>1
    <3> QED
      BY <1>2, <3>1, <3>2 DEF QueueSound, Distinct
  <2>3. CASE Submit(t)
    <3>1. queue' = Append(queue, t) /\ p = "queued"
      <4>1. queue' = Append(queue, t) /\ phase'[t] = "queued"
        BY <1>3, <2>3 DEF Submit, TypeOK
      <4> QED
        BY <1>4, <4>1
    <3>2. queue \in Seq(Tasks)
      BY <1>3 DEF TypeOK
    <3>3. /\ DOMAIN queue' = 1 .. (Len(queue) + 1) /\ DOMAIN queue = 1 .. Len(queue)
          /\ Len(queue) \in Nat
          /\ \A i \in 1 .. Len(queue) : queue'[i] = queue[i]
          /\ queue'[Len(queue) + 1] = t
      BY <3>1, <3>2
    <3>4. \A i \in DOMAIN queue' : phase'[queue'[i]] = "queued"
      BY <1>4, <2>1, <3>1, <3>3
    <3>5. Distinct(queue')
      <4>1. Distinct(queue)
        BY DEF QueueSound
      <4> QED
        BY <2>1, <3>3, <4>1 DEF Distinct
    <3> QED
      BY <1>2, <3>4, <3>5 DEF QueueSound, Distinct
  <2> QED
    BY <2>2, <2>3
<1>10. OneGrouping'
  BY <1>2 DEF OneGrouping
<1> QED
  BY <1>6, <1>8, <1>9, <1>10, LoadPartsPrime
\* The sort of the queue.
LEMMA BeginKeeps ==
  ASSUME LoadInv, BeginSchedule
  PROVE  LoadInv'
<1> USE LoadParts
<1>1. /\ cursor = 0 /\ cursor' = 1 /\ queue # <<>>
      /\ UNCHANGED <<config, phase, engineOf, acct, live, warm, arrivals>>
      /\ queue' = IF config.appFifo THEN SortByDepth(queue) ELSE queue
  BY DEF BeginSchedule
<1>2. queue \in Seq(Tasks) /\ Distinct(queue) /\ Len(queue) <= MaxQueueSize
  BY DEF TypeOK, QueueSound
<1>3. /\ queue' \in Seq(Tasks) /\ Len(queue') = Len(queue)
      /\ Distinct(queue') /\ Elements(queue') = Elements(queue)
  <2>1. CASE config.appFifo
    BY <1>1, <1>2, <2>1, SortFacts
  <2>2. CASE ~config.appFifo
    BY <1>1, <1>2, <2>2
  <2> QED
    BY <2>1, <2>2
<1>4. TypeOK'
  <2>1. Len(queue') \in Nat
    BY <1>3
  <2>2. cursor' \in 0 .. (Len(queue') + 1)
    BY <1>1, <2>1
  <2> QED
    BY <1>1, <1>2, <1>3, <2>2 DEF TypeOK, acct
<1>5. QueueSound'
  <2>1. \A t \in Elements(queue) : phase[t] = "queued"
    BY <1>1 DEF QueueSound, Elements
  <2>2. \A i \in DOMAIN queue' : phase'[queue'[i]] = "queued"
    BY <1>1, <1>3, <2>1 DEF Elements
  <2>3. DOMAIN queue' = 1 .. Len(queue') /\ Len(queue') \in Nat
    BY <1>3
  <2>4. \A i, j \in cursor' .. Len(queue') : phase'[queue'[i]] = "queued"
    BY <1>1, <2>2, <2>3
  <2> QED
    BY <1>1, <1>3, <2>2, <2>4 DEF QueueSound, Distinct
<1>6. Load' /\ Placed' /\ OneGrouping'
  <2>1. \A e \in Engines : Residents(e)' = Residents(e)
    BY <1>1 DEF Residents
  <2>2. Load'
    BY <1>1, <2>1, LoadUnmoved
  <2> QED
    BY <1>1, <2>2 DEF Placed, OneGrouping
<1> QED
  BY <1>4, <1>5, <1>6, LoadPartsPrime

LEMMA SkipKeeps ==
  ASSUME LoadInv, SkipScheduled \/ SkipUnschedulable
  PROVE  LoadInv'
<1> USE LoadParts
<1>1. /\ cursor \in 1 .. Len(queue) /\ cursor' = cursor + 1
      /\ UNCHANGED <<config, phase, queue, engineOf, acct, live, warm, arrivals>>
  BY DEF SkipScheduled, SkipUnschedulable
<1>2. Len(queue) \in Nat
  BY DEF TypeOK
<1>3. TypeOK'
  BY <1>1, <1>2 DEF TypeOK, acct
<1>4. QueueSound'
  <2>1. cursor \in Nat \ {0} /\ cursor' .. Len(queue) \subseteq cursor .. Len(queue)
        /\ cursor' # 0
    BY <1>1, <1>2
  <2>2. \A i, j \in cursor' .. Len(queue) :
          Together(queue[i], queue[j]) /\ phase[queue[i]] = "scheduled"
          => phase[queue[j]] = "scheduled"
    BY <2>1 DEF QueueSound
  <2>3. \A i, j \in cursor' .. Len(queue) :
          Together(queue[i], queue[j])' /\ phase[queue[i]] = "scheduled"
          => phase[queue[j]] = "scheduled"
    BY <1>1, <2>2 DEF Together
  <2> QED
    BY <1>1, <2>1, <2>3 DEF QueueSound, Distinct
<1>5. Load' /\ Placed' /\ OneGrouping'
  <2>1. \A e \in Engines : Residents(e)' = Residents(e)
    BY <1>1 DEF Residents
  <2>2. Load'
    BY <1>1, <2>1, LoadUnmoved
  <2> QED
    BY <1>1, <2>2 DEF Placed, OneGrouping
<1> QED
  BY <1>3, <1>4, <1>5, LoadPartsPrime

\* What is scheduled leaves the queue.
LEMMA EndKeeps ==
  ASSUME LoadInv, EndSchedule
  PROVE  LoadInv'
<1> USE LoadParts
<1> DEFINE I == {i \in DOMAIN queue : phase[queue[i]] # "scheduled"}
<1>1. /\ cursor' = 0 /\ queue' = SelectAt(queue, I)
      /\ UNCHANGED <<config, phase, engineOf, acct, live, warm, arrivals>>
  BY DEF EndSchedule
<1>2. /\ queue \in Seq(Tasks) /\ Len(queue) <= MaxQueueSize /\ MaxQueueSize \in Nat
      /\ Distinct(queue) /\ DOMAIN queue = 1 .. Len(queue) /\ Len(queue) \in Nat
  BY SchedulerAssumption DEF TypeOK, QueueSound
<1>3. I \in SUBSET (1 .. Len(queue))
  BY <1>2
<1>4. \A i \in I : phase[queue[i]] = "queued"
  BY DEF QueueSound
<1> HIDE DEF I
<1>5. /\ queue' \in Seq(Tasks) /\ Len(queue') = Cardinality(I)
      /\ Cardinality(I) \in Nat /\ Cardinality(I) <= Len(queue)
      /\ \E p \in [1 .. Cardinality(I) -> I] :
            /\ \A i, j \in 1 .. Cardinality(I) : i < j <=> p[i] < p[j]
            /\ \A i \in 1 .. Cardinality(I) : queue'[i] = queue[p[i]]
  BY <1>1, <1>2, <1>3, Selected
<1>6. PICK p \in [1 .. Cardinality(I) -> I] :
            /\ \A i, j \in 1 .. Cardinality(I) : i < j <=> p[i] < p[j]
            /\ \A i \in 1 .. Cardinality(I) : queue'[i] = queue[p[i]]
  BY <1>5
<1>7. DOMAIN queue' = 1 .. Cardinality(I)
  BY <1>5
<1>8. TypeOK'
  <2>1. Len(queue') <= MaxQueueSize /\ cursor' \in 0 .. (Len(queue') + 1)
    BY <1>1, <1>2, <1>5
  <2> QED
    BY <1>1, <1>5, <2>1 DEF TypeOK, acct
<1>9. Distinct(queue')
  <2> SUFFICES ASSUME NEW i \in 1 .. Cardinality(I), NEW j \in 1 .. Cardinality(I),
                      queue'[i] = queue'[j]
               PROVE  i = j
    BY <1>7 DEF Distinct
  <2>1. p[i] \in I /\ p[j] \in I /\ queue[p[i]] = queue[p[j]]
    BY <1>6
  <2>2. p[i] = p[j] /\ p[i] \in Nat
    <3>1. p[i] \in 1 .. Len(queue) /\ p[j] \in 1 .. Len(queue)
      BY <1>3, <2>1
    <3>2. p[i] \in DOMAIN queue /\ p[j] \in DOMAIN queue /\ p[i] \in Nat
      BY <1>2, <3>1
    <3> QED
      BY <1>2, <2>1, <3>2, Zenon DEF Distinct
  <2>3. ~(i < j) /\ ~(j < i)
    BY <1>6, <2>2
  <2> QED
    BY <1>5, <2>3
<1>10. \A i \in DOMAIN queue' : phase'[queue'[i]] = "queued"
  BY <1>1, <1>4, <1>6, <1>7
<1>11. QueueSound'
  BY <1>1, <1>9, <1>10 DEF QueueSound, Distinct
<1>12. Load' /\ Placed' /\ OneGrouping'
  <2>1. \A e \in Engines : Residents(e)' = Residents(e)
    BY <1>1 DEF Residents
  <2>2. Load'
    BY <1>1, <2>1, LoadUnmoved
  <2> QED
    BY <1>1, <2>2 DEF Placed, OneGrouping
<1> QED
  BY <1>8, <1>11, <1>12, LoadPartsPrime
\* Coroutines that bind their contexts, expiring prefixes and lost engines.
LEMMA QuietKeeps ==
  ASSUME LoadInv,
         \/ \E t \in Tasks : Bind(t)
         \/ \E v \in ConstVars : ExpirePrefix(v)
         \/ \E e \in Engines : LoseEngine(e)
         \/ UNCHANGED vars
  PROVE  LoadInv'
<1> USE LoadParts
<1>1. UNCHANGED <<config, queue, cursor, engineOf, acct, arrivals>> /\ live' \subseteq live
  BY DEF Bind, ExpirePrefix, LoseEngine, vars
<1>2. \/ phase' = phase
      \/ \E t \in Tasks : /\ cursor = 0 /\ phase[t] = "scheduled"
                          /\ phase' = [phase EXCEPT ![t] = "bound"]
  BY DEF Bind, ExpirePrefix, LoseEngine, vars
<1>3. TypeOK
  OBVIOUS
<1>4. TypeOK'
  BY <1>1, <1>2, <1>3 DEF TypeOK, Phases, acct
<1>5. \A u \in Tasks : phase'[u] \in {"scheduled", "bound"}
                       <=> phase[u] \in {"scheduled", "bound"}
  BY <1>2, <1>3 DEF TypeOK
<1>6. \A i \in DOMAIN queue : phase'[queue[i]] = phase[queue[i]]
  BY <1>2, <1>3 DEF TypeOK, QueueSound
<1>7. QueueSound'
  <2>1. cursor # 0 => phase' = phase
    BY <1>2
  <2>2. CASE cursor = 0
    BY <1>1, <1>6, <2>2 DEF QueueSound, Distinct
  <2>3. CASE cursor # 0
    BY <1>1, <2>1, <2>3 DEF QueueSound, Distinct, Together
  <2> QED
    BY <2>2, <2>3
<1>8. Load' /\ Placed' /\ OneGrouping'
  <2>1. \A e \in Engines : Residents(e)' = Residents(e)
    BY <1>1, <1>5, ResidentsUnmoved
  <2>2. Load'
    BY <1>1, <2>1, LoadUnmoved
  <2> QED
    BY <1>1, <1>5, <2>2 DEF Placed, OneGrouping
<1> QED
  BY <1>4, <1>7, <1>8, LoadPartsPrime

-----------------------------------------------------------------------------
(* Steps that move load *)

\* A finished task gives back its place, its tokens and its bound.
LEMMA FinishKeeps ==
  ASSUME LoadInv, NEW t \in Tasks, Finish(t)
  PROVE  LoadInv'
<1> USE LoadParts
<1> DEFINE e == engineOf[t]
<1>1. /\ cursor = 0 /\ phase[t] = "bound"
      /\ phase' = [phase EXCEPT ![t] = "finished"]
      /\ numTasks' = [numTasks EXCEPT ![e] = @ - 1]
      /\ tokensNum' = [tokensNum EXCEPT ![e] = @ - Tokens[t][e]]
      /\ bounds' = [bounds EXCEPT ![e] = @ \ {t}]
      /\ UNCHANGED <<config, queue, cursor, engineOf, live, arrivals>>
  BY DEF Finish, Leave
<1>2. /\ phase \in [Tasks -> Phases] /\ numTasks \in [Engines -> Nat]
      /\ tokensNum \in [Engines -> Nat] /\ bounds \in [Engines -> SUBSET Tasks]
  BY DEF TypeOK
<1>3. e \in Engines
  BY <1>1 DEF Placed
<1>4. t \in Residents(e) /\ \A d \in Engines : Residents(d) \in SUBSET Tasks
  BY <1>1 DEF Residents
<1>5. ASSUME NEW d \in Engines
      PROVE  Residents(d)' = IF d = e THEN Residents(d) \ {t} ELSE Residents(d)
  BY <1>1, <1>2 DEF Residents
<1>6. \A d \in Engines : IsFiniteSet(Residents(d)) /\ Cardinality(Residents(d)) \in Nat
  BY <1>4, SchedulerAssumption, FS_Subset, FS_CardinalityType
<1>7. \A d \in Engines : /\ numTasks[d] = Cardinality(Residents(d))
                         /\ tokensNum[d] = TokensOf(Residents(d), d)
                         /\ bounds[d] = Residents(d)
  BY DEF Load, AccountingExact
<1> HIDE DEF e
<1>8. /\ Cardinality(Residents(e) \ {t}) = Cardinality(Residents(e)) - 1
      /\ Cardinality(Residents(e) \ {t}) \in Nat
  BY <1>3, <1>4, <1>6, FS_RemoveElement, FS_CardinalityType
<1>9. /\ TokensOf(Residents(e) \ {t}, e) = TokensOf(Residents(e), e) - Tokens[t][e]
      /\ TokensOf(Residents(e) \ {t}, e) \in Nat
  BY <1>3, <1>4, TokensLeave, TokensFacts
<1>10. ASSUME NEW d \in Engines
       PROVE  /\ numTasks'[d] = Cardinality(Residents(d)')
              /\ tokensNum'[d] = TokensOf(Residents(d)', d)
              /\ bounds'[d] = Residents(d)'
              /\ numTasks'[d] \in Nat /\ tokensNum'[d] \in Nat
              /\ numTasks'[d] <= numTasks[d] /\ tokensNum'[d] <= tokensNum[d]
  <2>1. CASE d = e
    <3>1. /\ numTasks'[e] = numTasks[e] - 1 /\ bounds'[e] = bounds[e] \ {t}
          /\ tokensNum'[e] = tokensNum[e] - Tokens[t][e]
      BY <1>1, <1>2, <1>3
    <3>2. Tokens[t][e] \in Nat
      BY <1>3, SchedulerAssumption
    <3>3. Residents(d)' = Residents(e) \ {t}
      BY <1>5, <2>1
    <3> QED
      BY <1>2, <1>3, <1>7, <1>8, <1>9, <2>1, <3>1, <3>2, <3>3
  <2>2. CASE d # e
    <3>1. numTasks'[d] = numTasks[d] /\ tokensNum'[d] = tokensNum[d] /\ bounds'[d] = bounds[d]
      BY <1>1, <1>2, <2>2
    <3>2. Residents(d)' = Residents(d)
      BY <1>5, <2>2
    <3>3. numTasks[d] \in Nat /\ tokensNum[d] \in Nat
      BY <1>2
    <3> QED
      BY <1>7, <3>1, <3>2, <3>3
  <2> QED
    BY <2>1, <2>2
<1>11. AccountingExact'
  BY <1>10 DEF AccountingExact
<1>12. WithinCapacity'
  <2>1. TasksCap \in Nat /\ TokensCap \in Nat
    BY SchedulerAssumption
  <2>2. \A d \in Engines : /\ numTasks[d] <= TasksCap /\ tokensNum[d] <= TokensCap
                           /\ numTasks[d] \in Nat /\ tokensNum[d] \in Nat
    BY <1>2 DEF Load, WithinCapacity
  <2> QED
    BY <1>10, <2>1, <2>2 DEF WithinCapacity
<1>13. UpperBoundsRespected'
  <2> SUFFICES ASSUME OneByOne', NEW d \in Engines, NEW u \in Residents(d)'
               PROVE  Cardinality(Residents(d)') <= Upper[u]
    BY DEF UpperBoundsRespected
  <2>1. OneByOne
    BY <1>1 DEF OneByOne
  <2>2. u \in Residents(d) /\ u \in Tasks
    BY <1>4, <1>5
  <2>3. Cardinality(Residents(d)) <= Upper[u]
    BY <2>1, <2>2 DEF Load, UpperBoundsRespected
  <2>4. Cardinality(Residents(d)') <= Cardinality(Residents(d)) /\ Cardinality(Residents(d)') \in Nat
    BY <1>7, <1>10
  <2>5. Upper[u] \in Nat
    <3>1. NoBound \in Nat
      BY SMT DEF NoBound
    <3> QED
      BY <2>2, <3>1, SchedulerAssumption
  <2> QED
    BY <1>6, <2>3, <2>4, <2>5
<1>14. TypeOK'
  <2>1. DOMAIN numTasks' = Engines /\ DOMAIN tokensNum' = Engines
        /\ numTasks' = [d \in Engines |-> numTasks'[d]]
        /\ tokensNum' = [d \in Engines |-> tokensNum'[d]]
    BY <1>1, <1>2
  <2>2. numTasks' \in [Engines -> Nat] /\ tokensNum' \in [Engines -> Nat]
    BY <1>10, <2>1
  <2>3. bounds' \in [Engines -> SUBSET Tasks] /\ phase' \in [Tasks -> Phases]
    BY <1>1, <1>2, <1>3 DEF Phases
  <2> QED
    BY <1>1, <2>2, <2>3 DEF TypeOK
<1>15. QueueSound'
  <2>1. \A i \in DOMAIN queue : phase[queue[i]] = "queued" /\ queue[i] # t
    BY <1>1 DEF QueueSound
  <2>2. \A i \in DOMAIN queue : phase'[queue[i]] = "queued"
    BY <1>1, <1>2, <2>1 DEF TypeOK
  <2> QED
    BY <1>1, <2>2 DEF QueueSound, Distinct
<1>16. Placed'
  BY <1>1, <1>2 DEF Placed
<1>17. OneGrouping'
  BY <1>1 DEF OneGrouping
<1> QED
  BY <1>11, <1>12, <1>13, <1>14, <1>15, <1>16, <1>17, LoadPartsPrime DEF Load
\* The engine that is found has room for the whole group, and the group was
\* not on an engine before.
LEMMA DispatchFacts ==
  ASSUME LoadInv, Dispatch
  PROVE  \E e \in Engines :
            /\ Available(Current, Grouped, e)
            /\ Grouped \subseteq Tasks /\ Current \in Grouped
            /\ \A t \in Grouped : phase[t] = "queued"
            /\ engineOf' = [t \in Tasks |-> IF t \in Grouped THEN e ELSE engineOf[t]]
            /\ phase' = [t \in Tasks |->
                            IF t \in Grouped THEN "scheduled" ELSE phase[t]]
            /\ numTasks' = [numTasks EXCEPT ![e] = @ + Cardinality(Grouped)]
            /\ tokensNum' = [tokensNum EXCEPT ![e] = @ + TokensOf(Grouped, e)]
            /\ bounds' = [bounds EXCEPT ![e] = @ \cup Grouped]
<1> USE LoadParts
<1> DEFINE e == BestEngine(Current, Grouped)
<1>1. /\ e # None
      /\ engineOf' = [t \in Tasks |-> IF t \in Grouped THEN e ELSE engineOf[t]]
      /\ phase' = [t \in Tasks |-> IF t \in Grouped THEN "scheduled" ELSE phase[t]]
      /\ numTasks' = [numTasks EXCEPT ![e] = @ + Cardinality(Grouped)]
      /\ tokensNum' = [tokensNum EXCEPT ![e] = @ + TokensOf(Grouped, e)]
      /\ bounds' = [bounds EXCEPT ![e] = @ \cup Grouped]
      /\ cursor \in 1 .. Len(queue) /\ phase[Current] = "queued"
  BY DEF Dispatch
<1>2. e \in Engines /\ Available(Current, Grouped, e)
  BY <1>1, BestFacts
<1>3. /\ Grouped = {queue[j] : j \in Joined} /\ Grouped \subseteq Tasks
      /\ Current \in Grouped /\ Joined \subseteq DOMAIN queue
  BY <1>1, GroupFacts
<1>4. ASSUME NEW j \in Joined PROVE phase[queue[j]] = "queued"
  <2>1. phase[queue[j]] \in {"queued", "scheduled"}
    BY <1>3 DEF QueueSound
  <2>2. CASE j = cursor
    BY <1>1, <2>2 DEF Current
  <2>3. CASE j # cursor
    <3>1. Together(queue[cursor], queue[j]) /\ j \in cursor .. Len(queue)
      BY <2>3 DEF Joined
    <3>2. Together(queue[j], queue[cursor])
      BY <3>1, TogetherFacts
    <3>3. cursor # 0 /\ cursor \in cursor .. Len(queue)
      BY <1>1 DEF TypeOK
    <3>4. phase[queue[j]] = "scheduled" => phase[queue[cursor]] = "scheduled"
      BY <3>1, <3>2, <3>3 DEF QueueSound
    <3> QED
      BY <1>1, <2>1, <3>4 DEF Current
  <2> QED
    BY <2>2, <2>3
<1> HIDE DEF e
<1> QED
  BY <1>1, <1>2, <1>3, <1>4

LEMMA DispatchLoad ==
  ASSUME LoadInv, Dispatch
  PROVE  Load' /\ TypeOK' /\ Placed'
<1> USE LoadParts
<1> DEFINE G == Grouped
           n == Cardinality(G)
<1>1. PICK e \in Engines :
            /\ Available(Current, G, e)
            /\ G \subseteq Tasks /\ Current \in G
            /\ \A t \in G : phase[t] = "queued"
            /\ engineOf' = [t \in Tasks |-> IF t \in G THEN e ELSE engineOf[t]]
            /\ phase' = [t \in Tasks |-> IF t \in G THEN "scheduled" ELSE phase[t]]
            /\ numTasks' = [numTasks EXCEPT ![e] = @ + n]
            /\ tokensNum' = [tokensNum EXCEPT ![e] = @ + TokensOf(G, e)]
            /\ bounds' = [bounds EXCEPT ![e] = @ \cup G]
  BY DispatchFacts
<1>2. /\ cursor \in 1 .. Len(queue) /\ cursor' = cursor + 1
      /\ UNCHANGED <<config, queue, live, warm>>
      /\ arrivals' = SelectAt(arrivals, {i \in DOMAIN arrivals : arrivals[i] \notin G})
  BY DEF Dispatch
<1>3. OneByOne => G = {Current}
  BY <1>2, GroupFacts DEF Current
<1> HIDE DEF G
<1>4. /\ phase \in [Tasks -> Phases] /\ numTasks \in [Engines -> Nat]
      /\ tokensNum \in [Engines -> Nat] /\ bounds \in [Engines -> SUBSET Tasks]
      /\ engineOf \in [Tasks -> Engines \cup {None}]
  BY DEF TypeOK
<1>5. \A d \in Engines : /\ numTasks[d] = Cardinality(Residents(d))
                         /\ tokensNum[d] = TokensOf(Residents(d), d)
                         /\ bounds[d] = Residents(d)
                         /\ Residents(d) \in SUBSET Tasks
                         /\ IsFiniteSet(Residents(d))
                         /\ Residents(d) \cap G = {}
  <2>1. \A d \in Engines : Residents(d) \in SUBSET Tasks /\ Residents(d) \cap G = {}
    BY <1>1 DEF Residents
  <2>2. \A d \in Engines : IsFiniteSet(Residents(d))
    BY <2>1, SchedulerAssumption, FS_Subset
  <2> QED
    BY <2>1, <2>2 DEF Load, AccountingExact
<1>6. ASSUME NEW d \in Engines
      PROVE  Residents(d)' = IF d = e THEN Residents(d) \cup G ELSE Residents(d)
  <2>1. \A t \in Tasks : t \in Residents(d)' <=> /\ phase'[t] \in {"scheduled", "bound"}
                                                 /\ engineOf'[t] = d
    BY DEF Residents
  <2>2. \A t \in Tasks : t \in Residents(d) <=> /\ phase[t] \in {"scheduled", "bound"}
                                                /\ engineOf[t] = d
    BY DEF Residents
  <2>3. Residents(d)' \subseteq Tasks /\ Residents(d) \subseteq Tasks
    BY DEF Residents
  <2>4. \A t \in Tasks : t \in Residents(d)' <=> t \in Residents(d) \/ (t \in G /\ d = e)
    BY <1>1, <2>1, <2>2
  <2> QED
    BY <1>1, <2>3, <2>4
<1>7. IsFiniteSet(G) /\ n \in Nat
  BY <1>1, SchedulerAssumption, FS_Subset, FS_CardinalityType
<1>8. TokensOf(G, e) \in Nat
  BY <1>1, TokensFacts
<1>9. Cardinality(Residents(e) \cup G) = numTasks[e] + n
  <2>1. /\ Cardinality(Residents(e) \cup G) = Cardinality(Residents(e)) + n
                                              - Cardinality(Residents(e) \cap G)
    BY <1>5, <1>7, FS_Union
  <2>2. Cardinality(Residents(e) \cap G) = 0
    BY <1>5, FS_EmptySet
  <2>3. numTasks[e] \in Nat /\ numTasks[e] = Cardinality(Residents(e))
    BY <1>4, <1>5
  <2> QED
    BY <1>7, <2>1, <2>2, <2>3
<1>10. TokensOf(Residents(e) \cup G, e) = tokensNum[e] + TokensOf(G, e)
  BY <1>1, <1>5, TokensFacts
<1> HIDE DEF n
<1>11. /\ numTasks' \in [Engines -> Nat] /\ tokensNum' \in [Engines -> Nat]
       /\ bounds' \in [Engines -> SUBSET Tasks]
       /\ numTasks'[e] = numTasks[e] + n /\ tokensNum'[e] = tokensNum[e] + TokensOf(G, e)
       /\ bounds'[e] = bounds[e] \cup G
       /\ \A d \in Engines : d # e => /\ numTasks'[d] = numTasks[d]
                                      /\ tokensNum'[d] = tokensNum[d]
                                      /\ bounds'[d] = bounds[d]
  BY <1>1, <1>4, <1>7, <1>8
<1>12. AccountingExact'
  <2> SUFFICES ASSUME NEW d \in Engines
               PROVE  /\ numTasks'[d] = Cardinality(Residents(d)')
                      /\ tokensNum'[d] = TokensOf(Residents(d)', d)
                      /\ bounds'[d] = Residents(d)'
    BY DEF AccountingExact
  <2>1. CASE d = e
    BY <1>5, <1>6, <1>9, <1>10, <1>11, <2>1
  <2>2. CASE d # e
    BY <1>5, <1>6, <1>11, <2>2
  <2> QED
    BY <2>1, <2>2
<1>13. /\ n + numTasks[e] <= TasksCap /\ TokensOf(G, e) + tokensNum[e] <= TokensCap
       /\ n + numTasks[e] <= EngineUpper(e)
       /\ \A u \in G : 1 + numTasks[e] <= Upper[u]
  BY <1>1 DEF Available, n
<1>14. WithinCapacity'
  <2>1. TasksCap \in Nat /\ TokensCap \in Nat
    BY SchedulerAssumption
  <2>2. numTasks'[e] <= TasksCap /\ tokensNum'[e] <= TokensCap
    BY <1>4, <1>7, <1>8, <1>11, <1>13
  <2>3. \A d \in Engines : numTasks[d] <= TasksCap /\ tokensNum[d] <= TokensCap
    BY DEF Load, WithinCapacity
  <2> QED
    BY <1>11, <2>2, <2>3 DEF WithinCapacity
<1>15. UpperBoundsRespected'
  <2> SUFFICES ASSUME OneByOne', NEW d \in Engines, NEW u \in Residents(d)'
               PROVE  Cardinality(Residents(d)') <= Upper[u]
    BY DEF UpperBoundsRespected
  <2>1. OneByOne
    BY <1>2 DEF OneByOne
  <2>2. CASE d # e
    <3>1. Residents(d)' = Residents(d)
      BY <1>6, <2>2
    <3> QED
      BY <2>1, <3>1 DEF Load, UpperBoundsRespected
  <2>3. CASE d = e
    <3>1. Residents(d)' = Residents(e) \cup G
      BY <1>6, <2>3
    <3>2. n = 1
      BY <1>3, <2>1, FS_Singleton DEF n
    <3>3. Cardinality(Residents(d)') = 1 + numTasks[e] /\ numTasks[e] \in Nat
      BY <1>4, <1>9, <3>1, <3>2
    <3>4. CASE u \in G
      BY <1>13, <3>3, <3>4
    <3>5. CASE u \in Residents(e)
      <4>1. EngineUpper(e) \in Nat /\ EngineUpper(e) <= Upper[u]
        BY <1>4, <1>5, <3>5, UpperFacts
      <4>2. Upper[u] \in Nat
        <5>1. NoBound \in Nat
          BY SMT DEF NoBound
        <5>2. u \in Tasks
          BY <1>5, <3>5
        <5> QED
          BY <5>1, <5>2, SchedulerAssumption
      <4> QED
        BY <1>13, <3>2, <3>3, <4>1, <4>2
    <3> QED
      BY <3>1, <3>4, <3>5
  <2> QED
    BY <2>2, <2>3
<1>16. TypeOK'
  <2>1. Len(queue) \in Nat /\ cursor' \in 0 .. (Len(queue') + 1)
    BY <1>2 DEF TypeOK
  <2>2. arrivals' \in Seq(Tasks)
    <3>1. arrivals \in Seq(Tasks)
      BY DEF TypeOK
    <3> DEFINE I == {i \in DOMAIN arrivals : arrivals[i] \notin G}
    <3>2. I \in SUBSET (1 .. Len(arrivals)) /\ arrivals' = SelectAt(arrivals, I)
      BY <1>2, <3>1
    <3> HIDE DEF I
    <3> QED
      BY <3>1, <3>2, Selected
  <2>3. phase' \in [Tasks -> Phases] /\ engineOf' \in [Tasks -> Engines \cup {None}]
    BY <1>1, <1>4 DEF Phases
  <2> QED
    BY <1>2, <1>11, <2>1, <2>2, <2>3 DEF TypeOK
<1>17. Placed'
  BY <1>1, <1>4 DEF Placed
<1> QED
  BY <1>12, <1>14, <1>15, <1>16, <1>17 DEF Load

LEMMA DispatchQueue ==
  ASSUME LoadInv, Dispatch
  PROVE  QueueSound' /\ OneGrouping'
<1> USE LoadParts
<1>1. /\ cursor \in 1 .. Len(queue) /\ cursor' = cursor + 1
      /\ UNCHANGED <<config, queue, live, warm>>
  BY DEF Dispatch
<1>2. phase' = [t \in Tasks |-> IF t \in Grouped THEN "scheduled" ELSE phase[t]]
  BY DEF Dispatch
<1>3. Grouped = {queue[j] : j \in Joined} /\ Joined \subseteq DOMAIN queue
  BY <1>1, GroupFacts
<1>4. /\ queue \in Seq(Tasks) /\ Len(queue) \in Nat /\ DOMAIN queue = 1 .. Len(queue)
      /\ Distinct(queue) /\ \A i \in DOMAIN queue : queue[i] \in Tasks
  BY DEF TypeOK, QueueSound
<1>5. \A i \in DOMAIN queue : queue[i] \in Grouped <=> i \in Joined
  BY <1>3, <1>4 DEF Distinct
<1>6. \A i \in DOMAIN queue : phase'[queue[i]] \in {"queued", "scheduled"}
  BY <1>2, <1>4 DEF QueueSound
<1>7. /\ cursor \in Nat \ {0} /\ cursor' # 0
      /\ cursor' .. Len(queue) \subseteq cursor .. Len(queue)
      /\ cursor' .. Len(queue) \subseteq DOMAIN queue
      /\ \A i \in cursor' .. Len(queue) : i # cursor
  BY <1>1, <1>4
<1>8. ASSUME NEW i \in cursor' .. Len(queue), NEW j \in cursor' .. Len(queue),
             Together(queue[i], queue[j]), phase'[queue[i]] = "scheduled"
      PROVE  phase'[queue[j]] = "scheduled"
  <2>1. i \in DOMAIN queue /\ j \in DOMAIN queue
    BY <1>7
  <2>2. CASE i \in Joined
    <3>1. Together(queue[cursor], queue[i])
      BY <1>7, <2>2 DEF Joined
    <3>2. Together(queue[cursor], queue[j])
      BY <1>8, <3>1, TogetherFacts
    <3>3. j \in Joined
      BY <1>7, <3>2 DEF Joined
    <3> QED
      BY <1>2, <1>4, <1>5, <2>1, <3>3
  <2>3. CASE i \notin Joined
    <3>1. phase[queue[i]] = "scheduled"
      BY <1>2, <1>4, <1>5, <1>8, <2>1, <2>3
    <3>2. phase[queue[j]] = "scheduled"
      BY <1>7, <1>8, <3>1 DEF QueueSound
    <3> QED
      BY <1>2, <1>4, <2>1, <3>2
  <2> QED
    BY <2>2, <2>3
<1>9. \A t, u : Together(t, u)' = Together(t, u)
  BY <1>1 DEF Together
<1>10. QueueSound'
  <2>1. \A i, j \in cursor' .. Len(queue) :
          Together(queue[i], queue[j])' /\ phase'[queue[i]] = "scheduled"
          => phase'[queue[j]] = "scheduled"
    BY <1>1, <1>8 DEF Together
  <2> QED
    BY <1>1, <1>4, <1>6, <1>7, <2>1 DEF QueueSound, Distinct
<1> QED
  BY <1>1, <1>10 DEF OneGrouping

-----------------------------------------------------------------------------
(* Theorems *)

LEMMA LoadInit ==
  ASSUME \A c \in Configs : ~(c.graphGroup /\ c.ctxGroup), Init
  PROVE  LoadInv
<1>1. TypeOK
  BY SchedulerAssumption DEF Init, TypeOK, Phases
<1>2. Load
  <2>1. \A e \in Engines : Residents(e) = {}
    BY DEF Init, Residents
  <2>2. Cardinality({}) = 0 /\ \A e \in Engines : TokensOf({}, e) = 0
    BY FS_EmptySet, TokensFacts
  <2>3. TasksCap \in Nat /\ TokensCap \in Nat
    BY SchedulerAssumption
  <2>4. \A e \in Engines : numTasks[e] = 0 /\ tokensNum[e] = 0 /\ bounds[e] = {}
    BY DEF Init
  <2> QED
    BY <2>1, <2>2, <2>3, <2>4 DEF Load, AccountingExact, WithinCapacity, UpperBoundsRespected
<1>3. OneGrouping /\ QueueSound /\ Placed
  BY DEF Init, OneGrouping, QueueSound, Distinct, Placed
<1> QED
  BY <1>1, <1>2, <1>3, LoadParts

LEMMA LoadStep == LoadInv /\ [Next]_vars => LoadInv'
<1> SUFFICES ASSUME LoadInv, [Next]_vars PROVE LoadInv'
  OBVIOUS
<1>1. ASSUME Dispatch PROVE LoadInv'
  BY <1>1, DispatchLoad, DispatchQueue, LoadPartsPrime
<1>2. CASE UNCHANGED vars
  BY <1>2, QuietKeeps
<1>3. CASE \E t \in Tasks : Submit(t) \/ SubmitRejected(t) \/ Bind(t) \/ Finish(t)
  BY <1>3, SubmitKeeps, QuietKeeps, FinishKeeps
<1>4. CASE Schedule
  BY <1>1, <1>4, BeginKeeps, SkipKeeps, EndKeeps DEF Schedule
<1>5. CASE (\E v \in ConstVars : ExpirePrefix(v)) \/ (\E e \in Engines : LoseEngine(e))
  BY <1>5, QuietKeeps
<1> QED
  BY <1>2, <1>3, <1>4, <1>5 DEF Next

\* With at most one kind of grouping configured, the serve layer's account of
\* every engine is the sum over the tasks dispatched to it, within the
\* capacities of the engine and, without grouping, within the annotations of
\* the tasks.  With both kinds a task may be dispatched twice in one
\* schedule(), and the first engine keeps its load.
THEOREM LoadAlwaysSound ==
  ASSUME \A c \in Configs : ~(c.graphGroup /\ c.ctxGroup)
  PROVE  Spec => []LoadSound
<1>1. Init => LoadInv
  BY LoadInit
<1>2. LoadInv => LoadSound
  BY DEF LoadInv
<1> QED
  BY <1>1, <1>2, LoadStep, PTL DEF Spec
-----------------------------------------------------------------------------
(* First come, first served *)

\* The tasks that wait are queued, in the order of their arrival as far as
\* they have the same depth.
OrderKept ==
    /\ \A k \in DOMAIN arrivals : /\ phase[arrivals[k]] = "queued"
                                  /\ arrivals[k] \in Elements(queue)
    /\ \A i, j \in DOMAIN queue, k, l \in DOMAIN arrivals :
          /\ queue[i] = arrivals[k] /\ queue[j] = arrivals[l]
          /\ Depth[queue[i]] = Depth[queue[j]] /\ k < l
          => i < j

\* A task the loop has passed without dispatching it fits nowhere.
PassedUnfit ==
    \A i \in DOMAIN queue : i < cursor /\ phase[queue[i]] = "queued" =>
        \A e \in Engines : ~Available(queue[i], {queue[i]}, e)

FifoInv == OneByOne => LoadInv /\ OrderKept /\ PassedUnfit

LEMMA FifoParts ==
  ASSUME LoadInv
  PROVE  /\ queue \in Seq(Tasks) /\ arrivals \in Seq(Tasks) /\ Distinct(queue)
         /\ DOMAIN queue = 1 .. Len(queue) /\ Len(queue) \in Nat
         /\ DOMAIN arrivals = 1 .. Len(arrivals) /\ Len(arrivals) \in Nat
         /\ \A i \in DOMAIN queue : queue[i] \in Tasks
         /\ \A k \in DOMAIN arrivals : arrivals[k] \in Tasks
         /\ cursor \in Nat /\ phase \in [Tasks -> Phases]
BY LoadParts DEF TypeOK, QueueSound

LEMMA SubmitInOrder ==
  ASSUME LoadInv, OrderKept, NEW t \in Tasks, Submit(t)
  PROVE  OrderKept'
<1>1. /\ queue' = Append(queue, t) /\ arrivals' = Append(arrivals, t)
      /\ phase' = [phase EXCEPT ![t] = "queued"] /\ phase[t] = "new"
  BY DEF Submit
<1>2. /\ DOMAIN queue' = 1 .. (Len(queue) + 1)
      /\ \A i \in DOMAIN queue : queue'[i] = queue[i]
      /\ queue'[Len(queue) + 1] = t
      /\ DOMAIN arrivals' = 1 .. (Len(arrivals) + 1)
      /\ \A k \in DOMAIN arrivals : arrivals'[k] = arrivals[k]
      /\ arrivals'[Len(arrivals) + 1] = t
  BY <1>1, FifoParts
<1>3. \A u \in Tasks : phase'[u] = IF u = t THEN "queued" ELSE phase[u]
  BY <1>1, FifoParts
<1>4. /\ \A i \in DOMAIN queue : queue[i] # t
      /\ \A k \in DOMAIN arrivals : arrivals[k] # t
  BY <1>1, LoadParts DEF QueueSound, OrderKept
<1>5. Elements(queue') = Elements(queue) \cup {t}
  BY <1>2, FifoParts DEF Elements
<1>6. ASSUME NEW k \in DOMAIN arrivals'
      PROVE  phase'[arrivals'[k]] = "queued" /\ arrivals'[k] \in Elements(queue')
  <2>1. CASE k = Len(arrivals) + 1
    BY <1>2, <1>3, <1>5, <2>1
  <2>2. CASE k # Len(arrivals) + 1
    <3>1. k \in DOMAIN arrivals
      BY <1>2, <2>2, FifoParts
    <3> QED
      BY <1>2, <1>3, <1>5, <3>1, FifoParts DEF OrderKept
  <2> QED
    BY <2>1, <2>2
<1>7. ASSUME NEW i \in DOMAIN queue', NEW j \in DOMAIN queue',
             NEW k \in DOMAIN arrivals', NEW l \in DOMAIN arrivals',
             queue'[i] = arrivals'[k], queue'[j] = arrivals'[l],
             Depth[queue'[i]] = Depth[queue'[j]], k < l
      PROVE  i < j
  <2>1. k \in DOMAIN arrivals
    BY <1>2, <1>7, FifoParts
  <2>2. i \in DOMAIN queue
    <3>1. queue'[i] # t
      BY <1>2, <1>4, <1>7, <2>1
    <3> QED
      BY <1>2, <3>1, FifoParts
  <2>3. CASE j \notin DOMAIN queue
    BY <1>2, <2>2, <2>3, FifoParts
  <2>4. CASE j \in DOMAIN queue
    <3>1. arrivals'[l] # t
      BY <1>2, <1>4, <1>7, <2>4
    <3>2. l \in DOMAIN arrivals
      BY <1>2, <3>1, FifoParts
    <3> QED
      BY <1>2, <1>7, <2>1, <2>2, <2>4, <3>2 DEF OrderKept
  <2> QED
    BY <2>3, <2>4
<1> QED
  BY <1>6, <1>7 DEF OrderKept, Elements

\* The sort is stable.
LEMMA SortInOrder ==
  ASSUME LoadInv, OrderKept, BeginSchedule
  PROVE  OrderKept'
<1>1. /\ queue' = IF config.appFifo THEN SortByDepth(queue) ELSE queue
      /\ UNCHANGED <<phase, arrivals>>
  BY DEF BeginSchedule
<1>2. /\ Elements(queue') = Elements(queue) /\ DOMAIN queue' = DOMAIN queue
      /\ Distinct(queue')
      /\ \A i, j \in DOMAIN queue' : i < j /\ Depth[queue'[i]] = Depth[queue'[j]] =>
            \E k, l \in DOMAIN queue : k < l /\ queue[k] = queue'[i] /\ queue[l] = queue'[j]
  <2>1. CASE config.appFifo
    <3> DEFINE s == SortByDepth(queue)
    <3>1. /\ s \in Seq(Tasks) /\ Len(s) = Len(queue)
          /\ Distinct(s) /\ Elements(s) = Elements(queue)
          /\ \A i, j \in DOMAIN s : i < j /\ Depth[s[i]] = Depth[s[j]] =>
                \E k, l \in DOMAIN queue : k < l /\ queue[k] = s[i] /\ queue[l] = s[j]
      BY FifoParts, SortFacts
    <3>2. DOMAIN s = DOMAIN queue
      BY <3>1, FifoParts
    <3>3. queue' = s
      BY <1>1, <2>1
    <3> HIDE DEF s
    <3> QED
      BY <3>1, <3>2, <3>3
  <2>2. CASE ~config.appFifo
    BY <1>1, <2>2, FifoParts
  <2> QED
    BY <2>1, <2>2
<1>3. ASSUME NEW i \in DOMAIN queue', NEW j \in DOMAIN queue',
             NEW k \in DOMAIN arrivals, NEW l \in DOMAIN arrivals,
             queue'[i] = arrivals[k], queue'[j] = arrivals[l],
             Depth[queue'[i]] = Depth[queue'[j]], k < l
      PROVE  i < j
  <2>1. i \in Nat /\ j \in Nat
    BY <1>2, FifoParts
  <2>2. PICK a \in DOMAIN queue, b \in DOMAIN queue :
            queue[a] = queue'[i] /\ queue[b] = queue'[j]
    <3>1. queue'[i] \in Elements(queue') /\ queue'[j] \in Elements(queue')
      BY DEF Elements
    <3>2. queue'[i] \in Elements(queue) /\ queue'[j] \in Elements(queue)
      BY <1>2, <3>1
    <3> QED
      BY <3>2 DEF Elements
  <2>3. a < b
    BY <1>3, <2>2 DEF OrderKept
  <2>4. i # j
    <3>1. a # b
      BY <2>3, FifoParts
    <3> QED
      BY <2>2, <3>1, FifoParts DEF Distinct
  <2>5. ~(j < i)
    <3> SUFFICES ASSUME j < i PROVE FALSE
      OBVIOUS
    <3>1. PICK c \in DOMAIN queue, d \in DOMAIN queue :
              c < d /\ queue[c] = queue'[j] /\ queue[d] = queue'[i]
      BY <1>2, <1>3
    <3>2. c = b /\ d = a
      BY <2>2, <3>1, FifoParts DEF Distinct
    <3> QED
      BY <2>3, <3>1, <3>2, FifoParts
  <2> QED
    BY <2>1, <2>4, <2>5
<1>4. \A k \in DOMAIN arrivals : /\ phase[arrivals[k]] = "queued"
                                 /\ arrivals[k] \in Elements(queue')
  BY <1>2 DEF OrderKept
<1> QED
  BY <1>1, <1>3, <1>4 DEF OrderKept, Elements

\* Tasks that are scheduled leave the queue and the arrivals from any place.
LEMMA EndInOrder ==
  ASSUME LoadInv, OrderKept, EndSchedule
  PROVE  OrderKept'
<1> DEFINE I == {i \in DOMAIN queue : phase[queue[i]] # "scheduled"}
           n == Cardinality(I)
<1>1. queue' = SelectAt(queue, I) /\ UNCHANGED <<phase, arrivals>>
  BY DEF EndSchedule
<1>2. I \in SUBSET (1 .. Len(queue)) /\ queue \in Seq(Tasks)
  BY FifoParts
<1>3. \A k \in DOMAIN arrivals : \E i \in I : queue[i] = arrivals[k]
  BY DEF OrderKept, Elements
<1> HIDE DEF I
<1>4. PICK p \in [1 .. n -> I] :
            /\ \A i, j \in 1 .. n : i < j <=> p[i] < p[j]
            /\ \A k \in I : \E i \in 1 .. n : p[i] = k
            /\ \A i \in 1 .. n : queue'[i] = queue[p[i]]
  BY <1>1, <1>2, Selected
<1>5. DOMAIN queue' = 1 .. n
  BY <1>1, <1>2, Selected
<1> HIDE DEF n
<1>6. I \subseteq DOMAIN queue
  BY <1>2, FifoParts
<1>7. ASSUME NEW k \in DOMAIN arrivals PROVE arrivals[k] \in Elements(queue')
  <2>1. PICK i \in I : queue[i] = arrivals[k]
    BY <1>3
  <2>2. PICK j \in 1 .. n : p[j] = i
    BY <1>4
  <2>3. queue'[j] = arrivals[k]
    BY <1>4, <2>1, <2>2
  <2> QED
    BY <1>5, <2>3 DEF Elements
<1>8. ASSUME NEW i \in 1 .. n, NEW j \in 1 .. n,
             NEW k \in DOMAIN arrivals, NEW l \in DOMAIN arrivals,
             queue'[i] = arrivals[k], queue'[j] = arrivals[l],
             Depth[queue'[i]] = Depth[queue'[j]], k < l
      PROVE  i < j
  <2>1. /\ p[i] \in DOMAIN queue /\ p[j] \in DOMAIN queue
        /\ queue'[i] = queue[p[i]] /\ queue'[j] = queue[p[j]]
    BY <1>4, <1>6
  <2>2. p[i] < p[j]
    <3>1. /\ queue[p[i]] = arrivals[k] /\ queue[p[j]] = arrivals[l]
          /\ Depth[queue[p[i]]] = Depth[queue[p[j]]]
      BY <1>8, <2>1
    <3> QED
      BY <1>8, <2>1, <3>1, Zenon DEF OrderKept
  <2> QED
    BY <1>4, <2>2
<1> QED
  BY <1>1, <1>5, <1>7, <1>8 DEF OrderKept, Elements
\* Loads only grow while schedule() runs, so what fitted nowhere still fits
\* nowhere.
LEMMA DispatchOnlyLoads ==
  ASSUME LoadInv, Dispatch, NEW t \in Tasks, NEW e \in Engines,
         ~Available(t, {t}, e)
  PROVE  ~Available(t, {t}, e)'
<1>1. PICK d \in Engines :
            /\ Grouped \subseteq Tasks
            /\ numTasks' = [numTasks EXCEPT ![d] = @ + Cardinality(Grouped)]
            /\ tokensNum' = [tokensNum EXCEPT ![d] = @ + TokensOf(Grouped, d)]
            /\ bounds' = [bounds EXCEPT ![d] = @ \cup Grouped]
  BY DispatchFacts
<1>2. /\ numTasks \in [Engines -> Nat] /\ tokensNum \in [Engines -> Nat]
      /\ bounds \in [Engines -> SUBSET Tasks]
      /\ numTasks' \in [Engines -> Nat] /\ tokensNum' \in [Engines -> Nat]
      /\ bounds' \in [Engines -> SUBSET Tasks]
  <2>1. TypeOK /\ TypeOK'
    BY LoadParts, DispatchLoad
  <2> QED
    BY <2>1 DEF TypeOK
<1>3. Cardinality(Grouped) \in Nat /\ TokensOf(Grouped, d) \in Nat
  BY <1>1, SchedulerAssumption, FS_Subset, FS_CardinalityType, TokensFacts
<1>4. /\ numTasks[e] <= numTasks'[e] /\ tokensNum[e] <= tokensNum'[e]
      /\ bounds[e] \subseteq bounds'[e]
  BY <1>1, <1>2, <1>3
<1>5. EngineUpper(e)' <= EngineUpper(e) /\ EngineUpper(e) \in Nat /\ EngineUpper(e)' \in Nat
  <2>1. /\ EngineUpper(e) \in Nat
        /\ \/ EngineUpper(e) = NoBound
           \/ \E u \in bounds[e] : EngineUpper(e) = Upper[u]
    BY <1>2, UpperFacts
  <2> DEFINE S == {NoBound} \cup {Upper[u] : u \in bounds'[e]}
  <2>2. /\ S \subseteq Nat /\ S # {} /\ NoBound \in S
        /\ \A u \in bounds'[e] : Upper[u] \in S
    <3>1. NoBound \in Nat
      BY SMT DEF NoBound
    <3>2. Upper \in [Tasks -> Nat]
      BY <3>1, SchedulerAssumption
    <3> QED
      BY <1>2, <3>1, <3>2
  <2> HIDE DEF S
  <2>3. \E m \in S : \A j \in S : m <= j
    BY <2>2, Least
  <2>4. Min(S) \in S /\ \A j \in S : Min(S) <= j
    BY <2>3 DEF Min
  <2>5. EngineUpper(e)' = Min(S)
    BY DEF EngineUpper, S
  <2>6. EngineUpper(e) \in S
    BY <1>4, <2>1, <2>2
  <2> QED
    BY <2>1, <2>2, <2>4, <2>5, <2>6
<1> SUFFICES ASSUME Available(t, {t}, e)' PROVE Available(t, {t}, e)
  OBVIOUS
<1>6. Cardinality({t}) = 1
  BY FS_Singleton
<1>7. TokensOf({t}, e) \in Nat
  BY TokensFacts
<1>8. /\ e \in live' /\ e \in Compatible[t]
      /\ 1 + numTasks'[e] <= Upper[t]
      /\ 1 + numTasks'[e] <= EngineUpper(e)'
      /\ 1 + numTasks'[e] <= TasksCap
      /\ TokensOf({t}, e) + tokensNum'[e] <= TokensCap
  BY <1>6 DEF Available
<1>9. live' = live
  BY DEF Dispatch
<1>10. Upper[t] \in Nat /\ TasksCap \in Nat /\ TokensCap \in Nat
  <2>1. NoBound \in Nat
    BY SMT DEF NoBound
  <2> QED
    BY <2>1, SchedulerAssumption
<1>11. /\ numTasks[e] \in Nat /\ numTasks'[e] \in Nat
       /\ tokensNum[e] \in Nat /\ tokensNum'[e] \in Nat
  BY <1>2
<1>12. /\ 1 + numTasks[e] <= Upper[t]
       /\ 1 + numTasks[e] <= EngineUpper(e)
       /\ 1 + numTasks[e] <= TasksCap
       /\ TokensOf({t}, e) + tokensNum[e] <= TokensCap
  BY <1>4, <1>5, <1>7, <1>8, <1>10, <1>11
<1> QED
  BY <1>6, <1>8, <1>9, <1>12 DEF Available

\* A task that asks for the same as another fits where the other fits.
LEMMA AlikeFits ==
  ASSUME NEW t \in Tasks, NEW u \in Tasks, Alike(t, u), NEW e \in Engines,
         Available(u, {u}, e)
  PROVE  Available(t, {t}, e)
<1>1. Cardinality({t}) = 1 /\ Cardinality({u}) = 1
  BY FS_Singleton
<1>2. TokensOf({t}, e) = TokensOf({u}, e)
  <2>1. TokensOf({t}, e) = Tokens[t][e] /\ TokensOf({u}, e) = Tokens[u][e]
    BY TokensFacts
  <2> QED
    BY <2>1 DEF Alike
<1> QED
  BY <1>1, <1>2 DEF Available, Alike

LEMMA DispatchInOrder ==
  ASSUME LoadInv, OrderKept, PassedUnfit, OneByOne, Dispatch
  PROVE  OrderKept' /\ PassedUnfit'
<1> DEFINE I == {i \in DOMAIN arrivals : arrivals[i] \notin Grouped}
           n == Cardinality(I)
<1>1. /\ arrivals' = SelectAt(arrivals, I) /\ queue' = queue /\ cursor' = cursor + 1
      /\ phase' = [t \in Tasks |-> IF t \in Grouped THEN "scheduled" ELSE phase[t]]
      /\ cursor \in 1 .. Len(queue)
  BY DEF Dispatch
<1>2. I \in SUBSET (1 .. Len(arrivals)) /\ arrivals \in Seq(Tasks)
  BY FifoParts
<1>3. \A k \in I : k \in DOMAIN arrivals /\ arrivals[k] \notin Grouped
  OBVIOUS
<1> HIDE DEF I
<1>4. PICK p \in [1 .. n -> I] :
            /\ \A i, j \in 1 .. n : i < j <=> p[i] < p[j]
            /\ \A i \in 1 .. n : arrivals'[i] = arrivals[p[i]]
  BY <1>1, <1>2, Selected
<1>5. DOMAIN arrivals' = 1 .. n
  BY <1>1, <1>2, Selected
<1> HIDE DEF n
<1>6. ASSUME NEW k \in 1 .. n
      PROVE  phase'[arrivals'[k]] = "queued" /\ arrivals'[k] \in Elements(queue)
  <2>1. p[k] \in DOMAIN arrivals /\ arrivals[p[k]] \notin Grouped
        /\ arrivals'[k] = arrivals[p[k]]
    BY <1>3, <1>4
  <2>2. arrivals[p[k]] \in Tasks
    BY <2>1, FifoParts
  <2> QED
    BY <1>1, <2>1, <2>2 DEF OrderKept
<1>7. ASSUME NEW i \in DOMAIN queue, NEW j \in DOMAIN queue,
             NEW k \in 1 .. n, NEW l \in 1 .. n,
             queue[i] = arrivals'[k], queue[j] = arrivals'[l],
             Depth[queue[i]] = Depth[queue[j]], k < l
      PROVE  i < j
  <2>1. /\ p[k] \in DOMAIN arrivals /\ p[l] \in DOMAIN arrivals
        /\ arrivals'[k] = arrivals[p[k]] /\ arrivals'[l] = arrivals[p[l]]
    BY <1>3, <1>4
  <2>2. p[k] < p[l]
    BY <1>4, <1>7
  <2>3. queue[i] = arrivals[p[k]] /\ queue[j] = arrivals[p[l]]
    BY <1>7, <2>1
  <2> QED
    BY <1>7, <2>1, <2>2, <2>3, Zenon DEF OrderKept
<1>8. OrderKept'
  BY <1>1, <1>5, <1>6, <1>7 DEF OrderKept, Elements
<1>9. PassedUnfit'
  <2>1. Grouped = {queue[cursor]}
    BY <1>1, LoadParts, GroupFacts
  <2>2. ASSUME NEW i \in DOMAIN queue, i < cursor + 1, phase'[queue[i]] = "queued",
               NEW e \in Engines
        PROVE  ~Available(queue[i], {queue[i]}, e)'
    <3>1. queue[i] \in Tasks /\ i \in Nat /\ cursor \in Nat
      BY FifoParts
    <3>2. queue[i] \notin Grouped /\ phase[queue[i]] = "queued"
      BY <1>1, <2>2, <3>1
    <3>3. i < cursor
      BY <2>1, <2>2, <3>1, <3>2
    <3>4. ~Available(queue[i], {queue[i]}, e)
      BY <3>2, <3>3 DEF PassedUnfit
    <3>5. \A t \in Tasks : ~Available(t, {t}, e) => ~Available(t, {t}, e)'
      BY DispatchOnlyLoads
    <3>6. PICK t \in Tasks : t = queue[i]
      BY <3>1
    <3>7. ~Available(t, {t}, e)'
      BY <3>4, <3>5, <3>6
    <3>8. queue'[i] = t
      BY <1>1, <3>6
    <3> QED
      BY <3>7, <3>8
  <2>3. DOMAIN queue' = DOMAIN queue
    BY <1>1
  <2> QED
    BY <1>1, <2>2, <2>3 DEF PassedUnfit
<1> QED
  BY <1>8, <1>9
LEMMA OrderUnmoved ==
  ASSUME LoadInv, OrderKept, UNCHANGED <<queue, arrivals>>,
         \A t \in Tasks : phase[t] = "queued" => phase'[t] = "queued"
  PROVE  OrderKept'
<1>1. \A k \in DOMAIN arrivals : arrivals[k] \in Tasks
  BY FifoParts
<1> QED
  BY <1>1 DEF OrderKept, Elements

LEMMA NonePassed ==
  ASSUME LoadInv', cursor' \in {0, 1}
  PROVE  PassedUnfit'
<1>1. queue' \in Seq(Tasks)
  BY LoadPartsPrime DEF TypeOK
<1>2. \A i \in DOMAIN queue' : i \in Nat \ {0}
  BY <1>1
<1>3. \A i \in DOMAIN queue' : ~(i < cursor')
  BY <1>2
<1> QED
  BY <1>3 DEF PassedUnfit

LEMMA SkipInOrder ==
  ASSUME LoadInv, OrderKept, PassedUnfit, OneByOne,
         SkipScheduled \/ SkipUnschedulable
  PROVE  OrderKept' /\ PassedUnfit'
<1>1. /\ cursor \in 1 .. Len(queue) /\ cursor' = cursor + 1
      /\ UNCHANGED <<config, phase, queue, engineOf, acct, live, warm, arrivals>>
  BY DEF SkipScheduled, SkipUnschedulable
<1>2. OrderKept'
  BY <1>1, OrderUnmoved
<1>3. \A t, e : Available(t, {t}, e)' = Available(t, {t}, e)
  BY <1>1 DEF Available, acct, EngineUpper
<1>4. phase[queue[cursor]] = "queued" =>
          \A e \in Engines : ~Available(queue[cursor], {queue[cursor]}, e)
  <2> SUFFICES ASSUME phase[queue[cursor]] = "queued"
               PROVE  \A e \in Engines : ~Available(queue[cursor], {queue[cursor]}, e)
    OBVIOUS
  <2>1. BestEngine(Current, Grouped) = None
    BY DEF SkipScheduled, SkipUnschedulable, Current
  <2>2. \A e \in Engines : ~Available(Current, Grouped, e)
    BY <2>1, BestFacts
  <2>3. Grouped = {queue[cursor]}
    BY <1>1, LoadParts, GroupFacts
  <2> QED
    BY <2>2, <2>3 DEF Current
<1>5. ASSUME NEW i \in DOMAIN queue, i < cursor + 1, phase[queue[i]] = "queued"
      PROVE  \A e \in Engines : ~Available(queue[i], {queue[i]}, e)
  <2>1. i < cursor \/ i = cursor
    BY <1>5, FifoParts
  <2> QED
    BY <1>4, <1>5, <2>1 DEF PassedUnfit
<1>6. ASSUME NEW i \in DOMAIN queue, i < cursor + 1, phase[queue[i]] = "queued",
             NEW e \in Engines
      PROVE  ~Available(queue[i], {queue[i]}, e)'
  <2>1. PICK t : t = queue[i]
    OBVIOUS
  <2>2. ~Available(t, {t}, e)'
    BY <1>3, <1>5, <1>6, <2>1
  <2>3. queue'[i] = t
    BY <1>1, <2>1
  <2> QED
    BY <2>2, <2>3
<1>7. PassedUnfit'
  BY <1>1, <1>6 DEF PassedUnfit
<1> QED
  BY <1>2, <1>7

LEMMA FifoStep == FifoInv /\ [Next]_vars => FifoInv'
<1> SUFFICES ASSUME FifoInv, [Next]_vars, OneByOne' PROVE (LoadInv /\ OrderKept /\ PassedUnfit)'
  BY DEF FifoInv
<1>1. config' = config
  BY DEF Next, Schedule, Submit, SubmitRejected, Bind, Finish, BeginSchedule,
     SkipScheduled, SkipUnschedulable, Dispatch, EndSchedule, ExpirePrefix,
     LoseEngine, vars
<1>2. OneByOne /\ LoadInv /\ OrderKept /\ PassedUnfit
  BY <1>1 DEF OneByOne, FifoInv
<1>3. LoadInv'
  BY <1>2, LoadStep
<1>4. /\ phase \in [Tasks -> Phases]
      /\ \A t \in Tasks : phase[t] = "queued" => phase[t] \notin {"new", "scheduled", "bound"}
  BY <1>2, FifoParts
<1>5. CASE \E t \in Tasks : Submit(t)
  <2>1. cursor' = 0
    BY <1>5 DEF Submit
  <2> QED
    BY <1>2, <1>3, <1>5, <2>1, SubmitInOrder, NonePassed
<1>6. CASE \/ \E t \in Tasks : SubmitRejected(t) \/ Bind(t) \/ Finish(t)
           \/ \E v \in ConstVars : ExpirePrefix(v)
           \/ \E e \in Engines : LoseEngine(e)
  <2>1. UNCHANGED <<queue, arrivals>> /\ cursor' = 0
    BY <1>6 DEF SubmitRejected, Bind, Finish, ExpirePrefix, LoseEngine
  <2>2. \A t \in Tasks : phase[t] = "queued" => phase'[t] = "queued"
    BY <1>4, <1>6 DEF SubmitRejected, Bind, Finish, ExpirePrefix, LoseEngine
  <2> QED
    BY <1>2, <1>3, <2>1, <2>2, OrderUnmoved, NonePassed
<1>7. CASE BeginSchedule
  <2>1. cursor' = 1
    BY <1>7 DEF BeginSchedule
  <2> QED
    BY <1>2, <1>3, <1>7, <2>1, SortInOrder, NonePassed
<1>8. CASE SkipScheduled \/ SkipUnschedulable
  BY <1>2, <1>3, <1>8, SkipInOrder
<1>9. CASE Dispatch
  BY <1>2, <1>3, <1>9, DispatchInOrder
<1>10. CASE EndSchedule
  <2>1. cursor' = 0
    BY <1>10 DEF EndSchedule
  <2> QED
    BY <1>2, <1>3, <1>10, <2>1, EndInOrder, NonePassed
<1>11. CASE UNCHANGED vars
  <2>1. OrderKept'
    BY <1>2, <1>11, OrderUnmoved DEF vars
  <2>2. PassedUnfit'
    BY <1>2, <1>11 DEF PassedUnfit, Available, EngineUpper, vars, acct
  <2> QED
    BY <1>3, <2>1, <2>2
<1> QED
  BY <1>5, <1>6, <1>7, <1>8, <1>9, <1>10, <1>11 DEF Next, Schedule

\* A step schedules no task while one that asks for the same and was submitted
\* earlier keeps waiting.
LEMMA NoStepOvertakes ==
  ASSUME FifoInv, [Next]_vars, NEW t \in Tasks, NEW u \in Tasks,
         OneByOne, Alike(t, u), Before(t, u), phase[u] = "queued",
         phase'[u] = "scheduled"
  PROVE  FALSE
<1>1. LoadInv /\ OrderKept /\ PassedUnfit
  BY DEF FifoInv
<1>2. phase \in [Tasks -> Phases]
  BY <1>1, FifoParts
<1>3. Dispatch
  BY <1>2, Zenon DEF Next, Schedule, Submit, SubmitRejected, Bind, Finish, BeginSchedule,
     SkipScheduled, SkipUnschedulable, EndSchedule, ExpirePrefix, LoseEngine, vars
<1>4. PICK e \in Engines :
            /\ Available(Current, Grouped, e)
            /\ phase' = [x \in Tasks |-> IF x \in Grouped THEN "scheduled" ELSE phase[x]]
  BY <1>1, <1>3, DispatchFacts
<1>5. cursor \in 1 .. Len(queue) /\ Grouped = {queue[cursor]} /\ Current = queue[cursor]
  BY <1>1, <1>3, LoadParts, GroupFacts DEF Dispatch, Current
<1>6. u = queue[cursor]
  BY <1>4, <1>5
<1>7. Available(u, {u}, e)
  BY <1>4, <1>5, <1>6
<1>8. PICK k \in DOMAIN arrivals, l \in DOMAIN arrivals :
            k < l /\ arrivals[k] = t /\ arrivals[l] = u
  BY <1>1, FifoParts DEF Before
<1>9. PICK i \in DOMAIN queue : queue[i] = t
  BY <1>1, <1>8 DEF OrderKept, Elements
<1>10. phase[t] = "queued" /\ cursor \in DOMAIN queue
  BY <1>1, <1>5, <1>8, FifoParts DEF OrderKept
<1>11. i < cursor
  BY <1>1, <1>6, <1>8, <1>9, <1>10 DEF OrderKept, Alike
<1>12. ~Available(t, {t}, e)
  BY <1>1, <1>9, <1>10, <1>11 DEF PassedUnfit
<1> QED
  BY <1>7, <1>12, AlikeFits

\* Without grouping the queue is fair among tasks that ask for the same: one
\* is not scheduled while another, submitted earlier, still waits, for any
\* number of tasks and engines, with or without the sort by depth.
THEOREM NeverOvertaking == Spec => NoOvertaking
<1>1. Init => FifoInv
  <2> SUFFICES ASSUME Init, OneByOne PROVE LoadInv /\ OrderKept /\ PassedUnfit
    BY DEF FifoInv
  <2>1. TypeOK
    BY SchedulerAssumption DEF Init, TypeOK, Phases
  <2>2. Load
    <3>1. \A e \in Engines : Residents(e) = {}
      BY DEF Init, Residents
    <3>2. Cardinality({}) = 0 /\ \A e \in Engines : TokensOf({}, e) = 0
      BY FS_EmptySet, TokensFacts
    <3>3. TasksCap \in Nat /\ TokensCap \in Nat
      BY SchedulerAssumption
    <3>4. \A e \in Engines : numTasks[e] = 0 /\ tokensNum[e] = 0 /\ bounds[e] = {}
      BY DEF Init
    <3> QED
      BY <3>1, <3>2, <3>3, <3>4 DEF Load, AccountingExact, WithinCapacity,
         UpperBoundsRespected
  <2>3. OneGrouping /\ QueueSound /\ Placed
    BY DEF Init, OneByOne, OneGrouping, QueueSound, Distinct, Placed
  <2>4. OrderKept /\ PassedUnfit
    BY DEF Init, OrderKept, PassedUnfit
  <2> QED
    BY <2>1, <2>2, <2>3, <2>4, LoadParts
<1>2. FifoInv /\ [Next]_vars =>
        [\A t, u \in Tasks :
            OneByOne /\ Alike(t, u) /\ Before(t, u) /\ phase[u] = "queued"
            /\ phase'[u] = "scheduled" => phase'[t] = "scheduled"]_vars
  BY NoStepOvertakes
<1> QED
  BY <1>1, <1>2, FifoStep, PTL DEF Spec, NoOvertaking
=============================================================================
