------------------------ MODULE BuiltinEngine_proofs ------------------------
(***************************************************************************)
(* The batches and the KV cache of the builtin engine, for any jobs,       *)
(* limits, block size and pool, both policies, and any number of           *)
(* iterations, preemptions and frees.                                      *)
(*                                                                         *)
(* Three invariants, each on top of the one before:                        *)
(*                                                                         *)
(*   - BatchInv: BatchSound speaks of the contexts of unfinished jobs; two *)
(*     of them never share one because a job is posted only when all the   *)
(*     jobs before it have run (Placement).  The arrival times are then    *)
(*     distinct (Times), so the sort of schedule() is a permutation of the *)
(*     batch, and the jobs it keeps fit.  Under fifo_v1 the jobs of the    *)
(*     batch that have not joined it are those that have run (Resumed).    *)
(*   - CtxInv: a job's context is there as long as it is needed (Bound);   *)
(*     the tokens of a generation are those of its context and below the   *)
(*     limit (GenCounts); a fill leaves its tokens and a hidden state      *)
(*     (FillCounts).  LastHidden is a recursive function; that it has a    *)
(*     value is a fixed-point argument (HiddenUnfold).                     *)
(*   - SlotsInv: blocks are whole and exclusive (BlocksOwned), and slots   *)
(*     are in step with tokens, seen in the middle of an iteration too     *)
(*     (FillLens, GenLens).                                                *)
(***************************************************************************)
EXTENDS BuiltinEngine, FiniteInduction, FiniteSetTheorems, SequenceTheorems,
        TLAPS

-----------------------------------------------------------------------------
(* The operators *)

Distinct(q) == \A i, j \in DOMAIN q : q[i] = q[j] => i = j

LEMMA InSeq ==
  ASSUME NEW A, NEW q \in Seq(A), NEW D, ToSet(q) \subseteq D
  PROVE  q \in Seq(D)
<1>1. \A i \in 1 .. Len(q) : q[i] \in ToSet(q)
  BY DEF ToSet
<1> QED
  BY <1>1

LEMMA CountOf ==
  ASSUME NEW D, NEW q \in Seq(D), Distinct(q)
  PROVE  IsFiniteSet(ToSet(q)) /\ Cardinality(ToSet(q)) = Len(q)
<1>1. Len(q) \in Nat /\ DOMAIN q = 1 .. Len(q)
  OBVIOUS
<1>2. IsFiniteSet(1 .. Len(q)) /\ Cardinality(1 .. Len(q)) = Len(q)
  BY <1>1, UpToCounted
<1> DEFINE f == [i \in 1 .. Len(q) |-> q[i]]
<1>3. f \in Bijection(1 .. Len(q), ToSet(q))
  BY <1>1 DEF Bijection, Injection, Surjection, IsInjective, ToSet, Distinct
<1>4. ExistsBijection(1 .. Len(q), ToSet(q))
  BY <1>3 DEF ExistsBijection
<1> QED
  BY <1>2, <1>4, FS_Bijection

\* The sizes of the jobs of a set.
Sizes(D) == [j \in D |-> JobTokens(j)]

LEMMA NumTokensIsSum ==
  ASSUME NEW D \in SUBSET Jobs, IsFiniteSet(D), NEW F, IsSum(F, Sizes(D), D),
         NEW q \in Seq(D), Distinct(q)
  PROVE  NumTokens(q) = F[ToSet(q)]
<1> DEFINE body(it) == [s \in SUBSET (DOMAIN q) |->
                           IF s = {} THEN 0
                           ELSE it[s \ {Max(s)}] + JobTokens(q[Max(s)])]
           iter == CHOOSE it : it = body(it)
<1>1. NumTokens(q) = iter[DOMAIN q]
  BY DEF NumTokens, FoldLeft, MapThenFoldSet
<1> DEFINE n == Len(q)
           w == [i \in 1 .. n |-> JobTokens(q[i])]
<1>2. n \in Nat /\ DOMAIN q = 1 .. n /\ \A i \in 1 .. n : q[i] \in D
  OBVIOUS
<1>3. \A j \in Jobs : JobTokens(j) \in Nat
  BY EngineAssumption DEF JobTokens
<1>4. w \in [1 .. n -> Nat] /\ Sizes(D) \in [D -> Nat] /\ IsFiniteSet(1 .. n)
  BY <1>2, <1>3, UpToCounted DEF Sizes
<1>5. \A s \in SUBSET (1 .. n) : s # {} => Max(s) \in s
  BY <1>2, Greatest DEF Max
<1>6. PICK G : IsSum(G, w, 1 .. n)
  BY <1>4, SumExists
<1>7. \A i \in 1 .. n : w[i] = JobTokens(q[i])
  OBVIOUS
<1> HIDE DEF n, w
<1>8. \E it : it = body(it)
  <2>1. ASSUME NEW s \in SUBSET (1 .. n), s # {}
        PROVE  G[s] = G[s \ {Max(s)}] + JobTokens(q[Max(s)])
    <3> DEFINE x == Max(s)
               r == s \ {x}
    <3>1. x \in 1 .. n /\ r \in SUBSET (1 .. n) /\ x \notin r /\ r \cup {x} = s
      BY <1>5, <2>1
    <3> HIDE DEF x, r
    <3>2. G[r \cup {x}] = G[r] + w[x]
      BY <1>6, <3>1 DEF IsSum
    <3>3. G[s] = G[r] + JobTokens(q[x])
      BY <1>7, <3>1, <3>2
    <3> QED
      BY <3>3 DEF x, r
  <2>2. G[{}] = 0 /\ G \in [SUBSET (1 .. n) -> Nat]
    BY <1>6 DEF IsSum
  <2>3. \A s \in SUBSET (1 .. n) : body(G)[s] = G[s]
    BY <1>2, <2>1, <2>2
  <2>4. body(G) = G
    BY <1>2, <2>2, <2>3
  <2> QED
    BY <2>4
<1> HIDE DEF body
<1>9. iter = body(iter)
  BY <1>8
<1> HIDE DEF iter
<1>10. /\ iter[{}] = 0
       /\ \A s \in SUBSET (1 .. n) : s # {} =>
             iter[s] = iter[s \ {Max(s)}] + JobTokens(q[Max(s)])
  BY <1>2, <1>9 DEF body
<1> DEFINE at(t) == {i \in 1 .. n : q[i] \in t}
           it == [t \in SUBSET ToSet(q) |-> iter[at(t)]]
<1>11. AddsUp(it, Sizes(D), ToSet(q))
  <2>1. at({}) = {} /\ it[{}] = iter[at({})]
    OBVIOUS
  <2>2. ASSUME NEW t \in SUBSET ToSet(q), t # {}
        PROVE  \E y \in t : it[t] = it[t \ {y}] + Sizes(D)[y]
    <3> DEFINE x == Max(at(t))
    <3>1. at(t) # {}
      BY <1>2, <2>2 DEF ToSet
    <3>2. x \in at(t)
      BY <1>5, <3>1
    <3>3. x \in 1 .. n /\ q[x] \in t
      BY <3>2
    <3>4. at(t \ {q[x]}) = at(t) \ {x}
      BY <1>2, <3>3 DEF Distinct
    <3>5. iter[at(t)] = iter[at(t) \ {x}] + JobTokens(q[x])
      BY <1>10, <3>1
    <3>6. Sizes(D)[q[x]] = JobTokens(q[x])
      BY <1>2, <3>3 DEF Sizes
    <3>7. it[t] = iter[at(t)] /\ it[t \ {q[x]}] = iter[at(t \ {q[x]})]
      BY <2>2
    <3> HIDE DEF at, it, x
    <3>8. it[t] = it[t \ {q[x]}] + Sizes(D)[q[x]]
      BY <3>4, <3>5, <3>6, <3>7
    <3> QED
      BY <3>3, <3>8
  <2> HIDE DEF it, at
  <2> QED
    BY <1>10, <2>1, <2>2 DEF AddsUp
<1>12. at(ToSet(q)) = DOMAIN q /\ it[ToSet(q)] = iter[at(ToSet(q))]
  BY <1>2 DEF ToSet
<1> HIDE DEF it, at
<1>13. ToSet(q) \in SUBSET D
  BY <1>2 DEF ToSet
<1>14. it[ToSet(q)] = F[ToSet(q)]
  BY <1>4, <1>11, <1>13, SumByElements
<1> QED
  BY <1>1, <1>12, <1>14

LEMMA SizesTyped ==
  ASSUME NEW D \in SUBSET Jobs
  PROVE  Sizes(D) \in [D -> Nat] /\ \A j \in D : Sizes(D)[j] = JobTokens(j)
BY EngineAssumption DEF Sizes, JobTokens

LEMMA FewerTokens ==
  ASSUME NEW q \in Seq(Jobs), NEW r \in Seq(Jobs), Distinct(q), Distinct(r),
         ToSet(r) \subseteq ToSet(q)
  PROVE  /\ NumTokens(q) \in Nat /\ NumTokens(r) \in Nat
         /\ NumTokens(r) <= NumTokens(q) /\ Len(r) <= Len(q)
<1> DEFINE D == ToSet(q)
<1>1. /\ IsFiniteSet(D) /\ Cardinality(D) = Len(q)
      /\ IsFiniteSet(ToSet(r)) /\ Cardinality(ToSet(r)) = Len(r)
  BY CountOf
<1>2. D \in SUBSET Jobs /\ q \in Seq(D) /\ r \in Seq(D)
  <2>1. D \in SUBSET Jobs
    BY DEF ToSet
  <2> QED
    BY <2>1, InSeq
<1> HIDE DEF D
<1>3. Sizes(D) \in [D -> Nat]
  BY <1>2, SizesTyped
<1>4. PICK F : IsSum(F, Sizes(D), D)
  BY <1>1, <1>3, SumExists
<1>5. NumTokens(q) = F[ToSet(q)] /\ NumTokens(r) = F[ToSet(r)]
  BY <1>1, <1>2, <1>4, NumTokensIsSum
<1> DEFINE R == ToSet(r)
           S == D \ R
<1>6. R \in SUBSET D /\ S \in SUBSET D /\ R \cap S = {} /\ R \cup S = D
  BY DEF D
<1>7. ToSet(q) = D /\ ToSet(r) = R
  BY DEF D
<1> HIDE DEF R, S
<1>8. F[R \cup S] = F[R] + F[S]
  <2>1. \A A, B \in SUBSET D : A \cap B = {} => F[A \cup B] = F[A] + F[B]
    BY <1>1, <1>3, <1>4, SumUnion
  <2> QED
    BY <1>6, <2>1
<1>9. F[D] \in Nat /\ F[R] \in Nat /\ F[S] \in Nat
  BY <1>4, <1>6 DEF IsSum
<1>10. F[D] = F[R] + F[S]
  BY <1>6, <1>8
<1>11. Len(r) <= Len(q)
  BY <1>1, <1>6, <1>7, FS_Subset
<1> QED
  BY <1>5, <1>7, <1>9, <1>10, <1>11

LEMMA OneMoreJob ==
  ASSUME NEW q \in Seq(Jobs), Distinct(q), NEW j \in Jobs, j \notin ToSet(q)
  PROVE  /\ Append(q, j) \in Seq(Jobs) /\ Distinct(Append(q, j))
         /\ ToSet(Append(q, j)) = ToSet(q) \cup {j}
         /\ Len(Append(q, j)) = Len(q) + 1
         /\ NumTokens(Append(q, j)) = NumTokens(q) + JobTokens(j)
<1> DEFINE a == Append(q, j)
           D == ToSet(q) \cup {j}
<1>1. /\ Len(q) \in Nat /\ DOMAIN q = 1 .. Len(q) /\ a \in Seq(Jobs)
      /\ Len(a) = Len(q) + 1 /\ DOMAIN a = 1 .. (Len(q) + 1)
      /\ \A i \in 1 .. Len(q) : a[i] = q[i] /\ a[i] \in ToSet(q)
      /\ a[Len(q) + 1] = j
  BY DEF ToSet
<1> HIDE DEF a
<1>2. ToSet(a) = D
  <2>1. \A i \in DOMAIN a : i \in 1 .. Len(q) \/ i = Len(q) + 1
    BY <1>1
  <2>2. Len(q) + 1 \in DOMAIN a /\ \A i \in 1 .. Len(q) : i \in DOMAIN a
    BY <1>1
  <2> QED
    BY <1>1, <2>1, <2>2 DEF ToSet
<1>3. Distinct(a)
  BY <1>1 DEF Distinct
<1>4. IsFiniteSet(ToSet(q))
  BY CountOf
<1>5. IsFiniteSet(D)
  BY <1>4, FS_AddElement
<1>6. D \in SUBSET Jobs /\ q \in Seq(D) /\ a \in Seq(D)
  BY <1>1 DEF ToSet
<1>7. ToSet(q) \in SUBSET D /\ j \in D /\ ToSet(q) \cup {j} = D
  OBVIOUS
<1> HIDE DEF D
<1>8. Sizes(D) \in [D -> Nat] /\ Sizes(D)[j] = JobTokens(j)
  BY <1>6, <1>7, SizesTyped
<1>9. PICK F : IsSum(F, Sizes(D), D)
  BY <1>5, <1>8, SumExists
<1>10. NumTokens(q) = F[ToSet(q)] /\ NumTokens(a) = F[ToSet(a)]
  BY <1>3, <1>5, <1>6, <1>9, NumTokensIsSum
<1>11. F[ToSet(q) \cup {j}] = F[ToSet(q)] + Sizes(D)[j]
  BY <1>7, <1>9 DEF IsSum
<1>12. NumTokens(a) = NumTokens(q) + JobTokens(j)
  BY <1>2, <1>7, <1>8, <1>10, <1>11
<1> QED
  BY <1>1, <1>2, <1>3, <1>7, <1>12 DEF a

LEMMA TailFacts ==
  ASSUME NEW q \in Seq(Jobs), Distinct(q), q # <<>>
  PROVE  /\ Tail(q) \in Seq(Jobs) /\ Distinct(Tail(q))
         /\ Len(Tail(q)) = Len(q) - 1
         /\ Head(q) \in Jobs /\ Head(q) \notin ToSet(Tail(q))
         /\ ToSet(q) = ToSet(Tail(q)) \cup {Head(q)}
<1> DEFINE t == Tail(q)
           n == Len(q)
<1>1. /\ n \in Nat /\ n # 0 /\ DOMAIN q = 1 .. n /\ Head(q) = q[1] /\ Head(q) \in Jobs
      /\ t \in Seq(Jobs) /\ Len(t) = n - 1 /\ DOMAIN t = 1 .. (n - 1)
      /\ \A i \in 1 .. (n - 1) : t[i] = q[i + 1]
  OBVIOUS
<1> HIDE DEF t, n
<1>2. \A i \in 1 .. (n - 1) : i + 1 \in 1 .. n /\ i + 1 # 1
  BY <1>1
<1>3. \A i, j \in 1 .. (n - 1) : i + 1 = j + 1 => i = j
  BY <1>1
<1>4. Distinct(t)
  <2> SUFFICES ASSUME NEW i \in 1 .. (n - 1), NEW j \in 1 .. (n - 1), t[i] = t[j]
               PROVE  i = j
    BY <1>1 DEF Distinct
  <2>1. i + 1 \in DOMAIN q /\ j + 1 \in DOMAIN q /\ q[i + 1] = q[j + 1]
    BY <1>1, <1>2
  <2>2. i + 1 = j + 1
    BY <2>1 DEF Distinct
  <2> QED
    BY <1>3, <2>2
<1>5. 1 \in 1 .. n
  BY <1>1
<1>6. Head(q) \notin ToSet(t)
  BY <1>1, <1>2, <1>5 DEF Distinct, ToSet
<1>7. ToSet(t) \cup {Head(q)} \subseteq ToSet(q)
  BY <1>1, <1>2, <1>5 DEF ToSet
<1>8. ASSUME NEW i \in 1 .. n PROVE q[i] \in ToSet(t) \cup {Head(q)}
  <2>1. CASE i = 1
    BY <1>1, <2>1
  <2>2. CASE i # 1
    <3> DEFINE k == i - 1
    <3>1. k \in 1 .. (n - 1) /\ k + 1 = i
      BY <1>1, <2>2
    <3> HIDE DEF k
    <3>2. t[k] = q[i]
      BY <1>1, <3>1
    <3> QED
      BY <1>1, <3>1, <3>2 DEF ToSet
  <2> QED
    BY <2>1, <2>2
<1>9. ToSet(q) = ToSet(t) \cup {Head(q)}
  <2>1. ToSet(q) \subseteq ToSet(t) \cup {Head(q)}
    BY <1>1, <1>8 DEF ToSet
  <2> QED
    BY <1>7, <2>1
<1> QED
  BY <1>1, <1>4, <1>6, <1>9 DEF t, n

\* What sort() returns.
LEMMA ArrivalSorts ==
  ASSUME NEW q \in Seq(Jobs), Distinct(q),
         Orders({x \in ToSet(q) \X ToSet(q) : Earlier(x[1], x[2])}, ToSet(q))
  PROVE  /\ ByArrival(q) \in Seq(Jobs) /\ Len(ByArrival(q)) = Len(q)
         /\ ToSet(ByArrival(q)) = ToSet(q) /\ Distinct(ByArrival(q))
<1> DEFINE D == ToSet(q)
           R == {x \in D \X D : Earlier(x[1], x[2])}
           good(s) == /\ ToSet(s) = D
                      /\ \A i, j \in DOMAIN q : i < j => Earlier(s[i], s[j])
<1>1. IsFiniteSet(D) /\ Cardinality(D) = Len(q)
  BY CountOf
<1>2. D \in SUBSET Jobs /\ DOMAIN q = 1 .. Len(q) /\ Len(q) \in Nat
  BY DEF ToSet
<1>3. \A x, y \in D : <<x, y>> \in R <=> Earlier(x, y)
  OBVIOUS
<1>4. Orders(R, D)
  OBVIOUS
<1>5. ByArrival(q) = CHOOSE s \in [DOMAIN q -> D] : good(s)
  BY DEF ByArrival
<1> HIDE DEF R, D
<1>6. PICK p \in Bijection(1 .. Cardinality(D), D) :
          \A i, j \in 1 .. Cardinality(D) : i < j <=> <<p[i], p[j]>> \in R
  BY <1>1, <1>4, Sorted
<1>7. /\ p \in [1 .. Len(q) -> D]
      /\ \A x \in D : \E i \in 1 .. Len(q) : p[i] = x
  BY <1>1, <1>6 DEF Bijection, Injection, Surjection
<1>8. ToSet(p) = D
  BY <1>7 DEF ToSet
<1>9. \A i, j \in DOMAIN q : i < j => Earlier(p[i], p[j])
  BY <1>1, <1>2, <1>3, <1>6, <1>7
<1>10. p \in [DOMAIN q -> D] /\ good(p)
  BY <1>2, <1>7, <1>8, <1>9
<1>11. ByArrival(q) \in [DOMAIN q -> D] /\ good(ByArrival(q))
  <2> HIDE DEF good
  <2> QED
    BY <1>5, <1>10
<1> DEFINE b == ByArrival(q)
<1>12. b \in [1 .. Len(q) -> D] /\ ToSet(b) = D
       /\ \A i, j \in 1 .. Len(q) : i < j => Earlier(b[i], b[j])
  BY <1>2, <1>11
<1> HIDE DEF b
<1>13. \A x \in D : ~Earlier(x, x)
  BY <1>3, <1>4 DEF Orders
<1>14. DOMAIN b = 1 .. Len(q) /\ \A i \in 1 .. Len(q) : b[i] \in D
  BY <1>12
<1>15. ASSUME NEW i \in DOMAIN b, NEW j \in DOMAIN b, b[i] = b[j] PROVE i = j
  <2>1. ~(i < j) /\ ~(j < i)
    BY <1>12, <1>13, <1>14, <1>15
  <2> QED
    BY <1>2, <1>14, <2>1
<1>16. b \in Seq(Jobs) /\ Len(b) = Len(q)
  BY <1>2, <1>12, <1>14
<1> QED
  BY <1>12, <1>15, <1>16 DEF b, D, Distinct

\* How many jobs fit: a number of them that fits exists, so the batch that
\* schedule() keeps respects the limit.
LEMMA KeptFits ==
  ASSUME NEW q \in Seq(Jobs)
  PROVE  /\ Kept(q) \in 0 .. Len(q)
         /\ ContextTokens(SubSeq(q, 1, Kept(q))) <= MaxTotalTokens
<1> DEFINE fits(n) == ContextTokens(SubSeq(q, 1, n)) <= MaxTotalTokens
           good(n) == fits(n) /\ (n = Len(q) \/ ~fits(n + 1))
           P == {n \in Nat : n <= Len(q) => fits(n)}
<1>1. Len(q) \in Nat /\ MaxTotalTokens \in Nat
  BY EngineAssumption
<1>2. Kept(q) = CHOOSE n \in 0 .. Len(q) : good(n)
  BY DEF Kept
<1>3. fits(0)
  <2>1. SubSeq(q, 1, 0) = <<>>
    OBVIOUS
  <2>2. ContextTokens(<<>>) = 0
    <3> DEFINE step(it, s) == it[s \ {Max(s)}] + ContextLen(Ctx[<< >>[Max(s)]])
               body(it) == [s \in SUBSET (DOMAIN <<>>) |->
                               IF s = {} THEN 0 ELSE step(it, s)]
               iter == CHOOSE it : it = body(it)
               zero == [s \in {{}} |-> 0]
    <3>1. ContextTokens(<<>>) = iter[DOMAIN <<>>]
      BY DEF ContextTokens, FoldLeft, MapThenFoldSet
    <3>2. DOMAIN <<>> = {} /\ SUBSET (DOMAIN <<>>) = {{}}
      OBVIOUS
    <3> HIDE DEF step
    <3>3. body(zero) = zero
      BY <3>2
    <3> HIDE DEF zero
    <3>4. iter = body(iter)
      <4> HIDE DEF body
      <4> QED
        BY <3>3
    <3> HIDE DEF iter
    <3>5. iter[{}] = 0
      BY <3>2, <3>4
    <3> QED
      BY <3>1, <3>2, <3>5
  <2>3. ContextTokens(SubSeq(q, 1, 0)) = 0
    BY <2>1, <2>2, Zenon
  <2> QED
    BY <1>1, <2>3
<1> HIDE DEF fits
<1>4. \E n \in 0 .. Len(q) : good(n)
  <2> SUFFICES ASSUME \A n \in 0 .. Len(q) : ~good(n) PROVE FALSE
    OBVIOUS
  <2>1. 0 \in P
    BY <1>3
  <2>2. ASSUME NEW n \in Nat, n \in P PROVE n + 1 \in P
    BY <1>1, <2>2
  <2>3. Len(q) \in P
    <3> HIDE DEF P
    <3> QED
      BY <1>1, <2>1, <2>2, SetInduction
  <2> QED
    BY <1>1, <2>3
<1> HIDE DEF good
<1>5. Kept(q) \in 0 .. Len(q) /\ good(Kept(q))
  BY <1>2, <1>4
<1> QED
  BY <1>5 DEF good, fits

\* g adds up the contexts of the jobs at the positions of a set, the way
\* ContextTokens does.
AddsContexts(g, q) ==
    /\ g[{}] = 0
    /\ \A s \in SUBSET (1 .. Len(q)) : s # {} =>
          g[s] = g[s \ {Max(s)}] + ContextLen(Ctx[q[Max(s)]])

LEMMA ContextTokensAdds ==
  ASSUME NEW q \in Seq(Jobs)
  PROVE  \E g : AddsContexts(g, q) /\ ContextTokens(q) = g[1 .. Len(q)]
<1> DEFINE L(i) == ContextLen(Ctx[q[i]])
           body(it) == [s \in SUBSET (DOMAIN q) |->
                           IF s = {} THEN 0 ELSE it[s \ {Max(s)}] + L(Max(s))]
           iter == CHOOSE it : it = body(it)
           n == Len(q)
           adds(g, k) == /\ g[{}] = 0
                         /\ \A s \in SUBSET (1 .. k) : s # {} =>
                               g[s] = g[s \ {Max(s)}] + L(Max(s))
           P == {k \in Nat : \E g : adds(g, k)}
<1>1. ContextTokens(q) = iter[DOMAIN q]
  BY DEF ContextTokens, FoldLeft, MapThenFoldSet
<1>2. n \in Nat /\ DOMAIN q = 1 .. n
  OBVIOUS
<1>3. AddsContexts(iter, q) <=> adds(iter, n)
  BY DEF AddsContexts
<1> HIDE DEF L, n
<1>4. ASSUME NEW k \in Nat, NEW s \in SUBSET (1 .. k), s # {}
      PROVE  /\ Max(s) \in s /\ s \ {Max(s)} \in SUBSET (1 .. k)
             /\ \A i \in s : i <= Max(s)
  BY <1>4, Greatest DEF Max
<1>5. 0 \in P
  <2> DEFINE g == [s \in {{}} |-> 0]
  <2>1. g[{}] = 0 /\ SUBSET (1 .. 0) = {{}}
    OBVIOUS
  <2> HIDE DEF g
  <2> QED
    BY <2>1
<1>6. ASSUME NEW k \in Nat, k \in P PROVE k + 1 \in P
  <2>1. PICK g : adds(g, k)
    BY <1>6
  <2> DEFINE h == [s \in SUBSET (1 .. (k + 1)) |->
                      IF k + 1 \in s THEN g[s \ {k + 1}] + L(k + 1) ELSE g[s]]
  <2>2. h[{}] = 0
    BY <2>1
  <2>3. ASSUME NEW s \in SUBSET (1 .. (k + 1)), s # {}
        PROVE  h[s] = h[s \ {Max(s)}] + L(Max(s))
    <3>1. CASE k + 1 \in s
      <4>1. Max(s) = k + 1
        <5>1. \A x \in s : (\A y \in s : x >= y) => x = k + 1
          BY <3>1
        <5>2. k + 1 \in s /\ \A y \in s : k + 1 >= y
          BY <3>1
        <5> QED
          BY <5>1, <5>2 DEF Max
      <4>2. k + 1 \notin s \ {k + 1} /\ s \ {k + 1} \in SUBSET (1 .. (k + 1))
        OBVIOUS
      <4>3. h[s] = g[s \ {k + 1}] + L(k + 1) /\ h[s \ {k + 1}] = g[s \ {k + 1}]
        BY <3>1, <4>2
      <4> QED
        BY <4>1, <4>3
    <3>2. CASE k + 1 \notin s
      <4>1. s \in SUBSET (1 .. k)
        BY <3>2
      <4>2. g[s] = g[s \ {Max(s)}] + L(Max(s))
        BY <2>1, <2>3, <4>1
      <4>3. k + 1 \notin s \ {Max(s)} /\ s \ {Max(s)} \in SUBSET (1 .. (k + 1))
        BY <3>2
      <4>4. h[s] = g[s] /\ h[s \ {Max(s)}] = g[s \ {Max(s)}]
        BY <3>2, <4>3
      <4> QED
        BY <4>2, <4>4
    <3> QED
      BY <3>1, <3>2
  <2> HIDE DEF h
  <2>4. adds(h, k + 1)
    BY <2>2, <2>3
  <2> QED
    BY <2>4
<1>7. n \in P
  <2> HIDE DEF P
  <2> QED
    BY <1>2, <1>5, <1>6, SetInduction
<1>8. \E it : it = body(it)
  <2>1. PICK g : adds(g, n)
    BY <1>7
  <2> DEFINE h == [s \in SUBSET (1 .. n) |-> g[s]]
  <2>2. \A s \in SUBSET (1 .. n) : body(h)[s] = h[s]
    BY <1>2, <1>4, <2>1
  <2>3. body(h) = h
    BY <1>2, <2>2
  <2> HIDE DEF h, body
  <2> QED
    BY <2>3
<1>9. iter = body(iter)
  <2> HIDE DEF body
  <2> QED
    BY <1>8
<1> HIDE DEF iter
<1>10. adds(iter, n)
  BY <1>2, <1>9
<1> QED
  BY <1>1, <1>2, <1>3, <1>10 DEF n

\* One more job adds its context.
LEMMA ContextTokensAppend ==
  ASSUME NEW q \in Seq(Jobs), NEW j \in Jobs
  PROVE  ContextTokens(Append(q, j)) = ContextTokens(q) + ContextLen(Ctx[j])
<1> DEFINE a == Append(q, j)
           n == Len(q)
<1>1. /\ n \in Nat /\ a \in Seq(Jobs) /\ Len(a) = n + 1 /\ a[n + 1] = j
      /\ \A i \in 1 .. n : a[i] = q[i]
  OBVIOUS
<1> HIDE DEF a
<1>2. PICK g : AddsContexts(g, q) /\ ContextTokens(q) = g[1 .. n]
  BY ContextTokensAdds
<1>3. PICK h : AddsContexts(h, a) /\ ContextTokens(a) = h[1 .. (n + 1)]
  BY <1>1, ContextTokensAdds
<1> HIDE DEF n
<1>4. ASSUME NEW k \in Nat
      PROVE  Max(1 .. (k + 1)) = k + 1 /\ (1 .. (k + 1)) \ {k + 1} = 1 .. k
  <2>1. \A x \in 1 .. (k + 1) : (\A y \in 1 .. (k + 1) : x >= y) => x = k + 1
    OBVIOUS
  <2>2. k + 1 \in 1 .. (k + 1) /\ \A y \in 1 .. (k + 1) : k + 1 >= y
    OBVIOUS
  <2> QED
    BY <2>1, <2>2 DEF Max
<1>5. ASSUME NEW k \in Nat, k + 1 <= n
      PROVE  g[1 .. (k + 1)] = g[1 .. k] + ContextLen(Ctx[q[k + 1]])
  <2>1. PICK s : s = 1 .. (k + 1)
    OBVIOUS
  <2>2. Max(s) = k + 1 /\ s \ {k + 1} = 1 .. k
    BY <1>4, <2>1
  <2>3. k + 1 \in s
    BY <2>1
  <2>4. s \subseteq 1 .. Len(q)
    BY <1>1, <1>5, <2>1 DEF n
  <2>5. g[s] = g[s \ {Max(s)}] + ContextLen(Ctx[q[Max(s)]])
    BY <1>2, <2>3, <2>4 DEF AddsContexts
  <2> QED
    BY <2>1, <2>2, <2>5
<1>6. ASSUME NEW k \in Nat, k <= n
      PROVE  h[1 .. (k + 1)] = h[1 .. k] + ContextLen(Ctx[a[k + 1]])
  <2>1. PICK s : s = 1 .. (k + 1)
    OBVIOUS
  <2>2. Max(s) = k + 1 /\ s \ {k + 1} = 1 .. k
    BY <1>4, <2>1
  <2>3. k + 1 \in s
    BY <2>1
  <2>4. s \subseteq 1 .. Len(a)
    BY <1>1, <1>6, <2>1
  <2>5. h[s] = h[s \ {Max(s)}] + ContextLen(Ctx[a[Max(s)]])
    BY <1>3, <2>3, <2>4 DEF AddsContexts
  <2> QED
    BY <2>1, <2>2, <2>5
<1> DEFINE P == {k \in Nat : k <= n => g[1 .. k] = h[1 .. k]}
<1>7. 0 \in P
  BY <1>2, <1>3 DEF AddsContexts
<1>8. ASSUME NEW k \in Nat, k \in P PROVE k + 1 \in P
  BY <1>1, <1>5, <1>6, <1>8
<1>9. g[1 .. n] = h[1 .. n]
  <2> HIDE DEF P
  <2>1. n \in P
    BY <1>1, <1>7, <1>8, SetInduction
  <2> QED
    BY <1>1, <2>1 DEF P
<1>10. h[1 .. (n + 1)] = h[1 .. n] + ContextLen(Ctx[j])
  BY <1>1, <1>6
<1> QED
  BY <1>2, <1>3, <1>9, <1>10 DEF a

LEMMA SelectedJobs ==
  ASSUME NEW q \in Seq(Jobs), Distinct(q), NEW I \in SUBSET (1 .. Len(q))
  PROVE  /\ SelectAt(q, I) \in Seq(Jobs) /\ Distinct(SelectAt(q, I))
         /\ ToSet(SelectAt(q, I)) = {q[i] : i \in I}
<1> DEFINE s == SelectAt(q, I)
           n == Cardinality(I)
<1>1. /\ s \in Seq(Jobs) /\ Len(s) = n /\ n \in Nat
      /\ \E p \in [1 .. n -> I] :
            /\ \A i, j \in 1 .. n : i < j <=> p[i] < p[j]
            /\ \A k \in I : \E i \in 1 .. n : p[i] = k
            /\ \A i \in 1 .. n : s[i] = q[p[i]]
  BY Selected
<1>2. PICK p \in [1 .. n -> I] :
            /\ \A i, j \in 1 .. n : i < j <=> p[i] < p[j]
            /\ \A k \in I : \E i \in 1 .. n : p[i] = k
            /\ \A i \in 1 .. n : s[i] = q[p[i]]
  BY <1>1
<1> HIDE DEF s, n
<1>3. DOMAIN s = 1 .. n /\ DOMAIN q = 1 .. Len(q) /\ Len(q) \in Nat
  BY <1>1
<1>4. ToSet(s) = {q[i] : i \in I}
  <2>1. ToSet(s) = {s[i] : i \in 1 .. n}
    BY <1>3 DEF ToSet
  <2>2. \A i \in 1 .. n : p[i] \in I /\ s[i] = q[p[i]]
    BY <1>2
  <2>3. \A k \in I : \E i \in 1 .. n : s[i] = q[k]
    BY <1>2
  <2>4. ASSUME NEW x \in ToSet(s) PROVE x \in {q[i] : i \in I}
    <3>1. PICK i \in 1 .. n : x = s[i]
      BY <2>1
    <3>2. p[i] \in I /\ x = q[p[i]]
      BY <2>2, <3>1
    <3> QED
      BY <3>2
  <2>5. ASSUME NEW k \in I PROVE q[k] \in ToSet(s)
    BY <2>1, <2>3
  <2> QED
    BY <2>4, <2>5
<1>5. ASSUME NEW i \in 1 .. n, NEW j \in 1 .. n, s[i] = s[j] PROVE i = j
  <2>1. p[i] \in 1 .. Len(q) /\ p[j] \in 1 .. Len(q)
    BY <1>2
  <2>2. p[i] = p[j]
    BY <1>2, <1>3, <1>5, <2>1 DEF Distinct
  <2>3. ~(p[i] < p[j]) /\ ~(p[j] < p[i])
    BY <2>1, <2>2
  <2>4. ~(i < j) /\ ~(j < i)
    BY <1>2, <2>3
  <2> QED
    BY <1>1, <2>4
<1> QED
  BY <1>1, <1>3, <1>4, <1>5 DEF s, Distinct

LEMMA Concatenated ==
  ASSUME NEW a \in Seq(Jobs), NEW b \in Seq(Jobs), Distinct(a), Distinct(b),
         ToSet(a) \cap ToSet(b) = {}
  PROVE  /\ a \o b \in Seq(Jobs) /\ Distinct(a \o b)
         /\ ToSet(a \o b) = ToSet(a) \cup ToSet(b)
         /\ Len(a \o b) = Len(a) + Len(b)
<1> DEFINE c == a \o b
           m == Len(a)
           n == Len(b)
<1>1. /\ m \in Nat /\ n \in Nat /\ c \in Seq(Jobs) /\ Len(c) = m + n
      /\ DOMAIN a = 1 .. m /\ DOMAIN b = 1 .. n /\ DOMAIN c = 1 .. (m + n)
      /\ \A i \in 1 .. m : c[i] = a[i]
      /\ \A i \in 1 .. n : c[m + i] = b[i]
  OBVIOUS
<1> HIDE DEF c, m, n
<1>2. \A i \in 1 .. (m + n) :
        \/ i \in 1 .. m /\ c[i] = a[i] /\ a[i] \in ToSet(a)
        \/ i > m /\ i - m \in 1 .. n /\ c[i] = b[i - m] /\ b[i - m] \in ToSet(b)
  <2> SUFFICES ASSUME NEW i \in 1 .. (m + n)
               PROVE  \/ i \in 1 .. m /\ c[i] = a[i] /\ a[i] \in ToSet(a)
                      \/ /\ i > m /\ i - m \in 1 .. n /\ c[i] = b[i - m]
                         /\ b[i - m] \in ToSet(b)
    OBVIOUS
  <2>1. CASE i \in 1 .. m
    BY <1>1, <2>1 DEF ToSet
  <2>2. CASE i \notin 1 .. m
    <3> DEFINE k == i - m
    <3>1. i > m /\ k \in 1 .. n /\ m + k = i
      BY <1>1, <2>2
    <3> HIDE DEF k
    <3>2. c[m + k] = b[k] /\ b[k] \in ToSet(b)
      BY <1>1, <3>1 DEF ToSet
    <3> QED
      BY <3>1, <3>2 DEF k
  <2> QED
    BY <2>1, <2>2
<1>3. \A i \in 1 .. m : i \in 1 .. (m + n)
  BY <1>1
<1>4. \A i \in 1 .. n : m + i \in 1 .. (m + n)
  BY <1>1
<1>5. ToSet(c) = ToSet(a) \cup ToSet(b)
  <2>1. ToSet(c) \subseteq ToSet(a) \cup ToSet(b)
    BY <1>1, <1>2 DEF ToSet
  <2>2. ToSet(a) \subseteq ToSet(c)
    BY <1>1, <1>3 DEF ToSet
  <2>3. ToSet(b) \subseteq ToSet(c)
    BY <1>1, <1>4 DEF ToSet
  <2> QED
    BY <2>1, <2>2, <2>3
<1>6. ASSUME NEW i \in 1 .. (m + n), NEW j \in 1 .. (m + n), c[i] = c[j]
      PROVE  i = j
  <2>1. CASE i \in 1 .. m /\ j \in 1 .. m
    BY <1>1, <1>6, <2>1 DEF Distinct
  <2>2. CASE i > m /\ j > m
    <3>1. i - m \in 1 .. n /\ j - m \in 1 .. n /\ b[i - m] = b[j - m]
      BY <1>1, <1>2, <1>6, <2>2
    <3>2. i - m = j - m
      BY <1>1, <3>1 DEF Distinct
    <3> QED
      BY <1>1, <3>2
  <2> QED
    BY <1>1, <1>2, <1>6, <2>1, <2>2
<1> QED
  BY <1>1, <1>5, <1>6 DEF c, m, n, Distinct

LEMMA FillsFirstFacts ==
  ASSUME NEW q \in Seq(Jobs), Distinct(q)
  PROVE  /\ FillsFirst(q) \in Seq(Jobs) /\ Distinct(FillsFirst(q))
         /\ ToSet(FillsFirst(q)) = ToSet(q) /\ Len(FillsFirst(q)) = Len(q)
<1> DEFINE I == {i \in DOMAIN q : q[i] \notin Gens}
           J == {i \in DOMAIN q : q[i] \in Gens}
           a == SelectAt(q, I)
           b == SelectAt(q, J)
<1>1. DOMAIN q = 1 .. Len(q) /\ I \in SUBSET (1 .. Len(q)) /\ J \in SUBSET (1 .. Len(q))
  OBVIOUS
<1>2. FillsFirst(q) = a \o b
  BY DEF FillsFirst
<1> HIDE DEF a, b
<1>3. /\ a \in Seq(Jobs) /\ Distinct(a) /\ ToSet(a) = {q[i] : i \in I}
      /\ b \in Seq(Jobs) /\ Distinct(b) /\ ToSet(b) = {q[i] : i \in J}
  <2> HIDE DEF I, J
  <2> QED
    BY <1>1, SelectedJobs DEF a, b
<1>4. ToSet(a) \cap ToSet(b) = {} /\ ToSet(a) \cup ToSet(b) = ToSet(q)
  BY <1>1, <1>3 DEF ToSet
<1> DEFINE f == a \o b
<1>5. f \in Seq(Jobs) /\ Distinct(f) /\ ToSet(f) = ToSet(q)
  BY <1>3, <1>4, Concatenated
<1> HIDE DEF f
<1>6. Len(f) = Len(q)
  BY <1>5, CountOf
<1> QED
  BY <1>2, <1>5, <1>6 DEF f

LEMMA SplitBatch ==
  ASSUME NEW q \in Seq(Jobs), Distinct(q), NEW n \in 0 .. Len(q)
  PROVE  LET a == SubSeq(q, 1, n)
             b == Reverse(SubSeq(q, n + 1, Len(q)))
         IN  /\ a \in Seq(Jobs) /\ Distinct(a) /\ b \in Seq(Jobs) /\ Distinct(b)
             /\ ToSet(a) \cap ToSet(b) = {} /\ ToSet(a) \cup ToSet(b) = ToSet(q)
<1> DEFINE a == SubSeq(q, 1, n)
           m == Len(q) - n
           d == SubSeq(q, n + 1, Len(q))
           b == Reverse(d)
<1>1. /\ Len(q) \in Nat /\ n \in Nat /\ m \in Nat /\ n + m = Len(q)
      /\ DOMAIN q = 1 .. (n + m)
  OBVIOUS
<1>2. a \in Seq(Jobs) /\ DOMAIN a = 1 .. n /\ \A i \in 1 .. n : a[i] = q[i]
  BY <1>1
<1>3. d \in Seq(Jobs) /\ Len(d) = m /\ \A i \in 1 .. m : d[i] = q[n + i]
  <2>1. \A k \in (n + 1) .. Len(q) : q[k] \in Jobs
    BY <1>1
  <2>2. /\ d \in Seq(Jobs)
        /\ Len(d) = IF n + 1 <= Len(q) THEN (Len(q) - (n + 1)) + 1 ELSE 0
        /\ \A k \in 1 .. ((Len(q) - (n + 1)) + 1) : d[k] = q[((n + 1) + k) - 1]
    BY <1>1, <2>1, SubSeqProperties
  <2> HIDE DEF d
  <2>3. Len(d) = m
    <3>1. CASE n + 1 <= Len(q)
      <4>1. Len(d) = (Len(q) - (n + 1)) + 1
        BY <2>2, <3>1
      <4>2. (Len(q) - (n + 1)) + 1 = Len(q) - n
        BY <1>1
      <4> QED
        BY <4>1, <4>2
    <3>2. CASE ~(n + 1 <= Len(q))
      <4>1. Len(d) = 0
        BY <2>2, <3>2
      <4>2. Len(q) - n = 0
        <5>1. n \in Nat /\ Len(q) \in Nat /\ n <= Len(q)
          OBVIOUS
        <5>2. \A k, l \in Nat : k <= l /\ ~(k + 1 <= l) => l - k = 0
          OBVIOUS
        <5> QED
          BY <3>2, <5>1, <5>2
      <4> QED
        BY <4>1, <4>2
    <3> QED
      BY <3>1, <3>2
  <2>4. ASSUME NEW i \in 1 .. m PROVE d[i] = q[n + i]
    <3>1. i \in 1 .. ((Len(q) - (n + 1)) + 1) /\ ((n + 1) + i) - 1 = n + i
      BY <1>1
    <3> QED
      BY <2>2, <3>1
  <2> QED
    BY <2>2, <2>3, <2>4
<1> HIDE DEF a, d, m
<1>4. b = [i \in 1 .. m |-> d[(m - i) + 1]]
  BY <1>3 DEF Reverse
<1> HIDE DEF b
<1>5. \A i \in 1 .. m : /\ (m - i) + 1 \in 1 .. m
                        /\ n + ((m - i) + 1) \in 1 .. (n + m)
                        /\ n + ((m - i) + 1) > n
  BY <1>1
<1>6. \A i \in 1 .. m : b[i] = q[n + ((m - i) + 1)] /\ b[i] \in Jobs
  BY <1>1, <1>3, <1>4, <1>5
<1>7. b \in Seq(Jobs) /\ DOMAIN b = 1 .. m
  BY <1>1, <1>4, <1>6
<1>8. Distinct(a)
  <2>1. \A i \in 1 .. n : i \in 1 .. (n + m)
    BY <1>1
  <2> QED
    BY <1>1, <1>2, <2>1 DEF Distinct
<1>9. Distinct(b)
  <2> SUFFICES ASSUME NEW i \in 1 .. m, NEW j \in 1 .. m, b[i] = b[j] PROVE i = j
    BY <1>7 DEF Distinct
  <2>1. n + ((m - i) + 1) = n + ((m - j) + 1)
    BY <1>1, <1>5, <1>6 DEF Distinct
  <2> QED
    BY <1>1, <2>1
<1>10. ToSet(a) \cap ToSet(b) = {}
  <2> SUFFICES ASSUME NEW i \in 1 .. n, NEW j \in 1 .. m, a[i] = b[j] PROVE FALSE
    BY <1>2, <1>7 DEF ToSet
  <2>1. i \in 1 .. (n + m)
    BY <1>1
  <2>2. i = n + ((m - j) + 1)
    BY <1>1, <1>2, <1>5, <1>6, <2>1 DEF Distinct
  <2> QED
    BY <1>1, <2>2
<1>11. ToSet(a) \cup ToSet(b) = ToSet(q)
  <2>1. ToSet(a) \subseteq ToSet(q)
    <3>1. \A i \in 1 .. n : i \in 1 .. (n + m)
      BY <1>1
    <3> QED
      BY <1>1, <1>2, <3>1 DEF ToSet
  <2>2. ToSet(b) \subseteq ToSet(q)
    BY <1>1, <1>5, <1>6, <1>7 DEF ToSet
  <2>3. ASSUME NEW k \in 1 .. (n + m) PROVE q[k] \in ToSet(a) \cup ToSet(b)
    <3>1. CASE k <= n
      <4>1. k \in 1 .. n
        BY <1>1, <3>1
      <4> QED
        BY <1>2, <4>1 DEF ToSet
    <3>2. CASE k > n
      <4> DEFINE i == (m - (k - n)) + 1
      <4>1. i \in 1 .. m /\ n + ((m - i) + 1) = k
        BY <1>1, <3>2
      <4> HIDE DEF i
      <4>2. b[i] = q[k]
        BY <1>6, <4>1
      <4> QED
        BY <1>7, <4>1, <4>2 DEF ToSet
    <3> QED
      BY <1>1, <3>1, <3>2
  <2>4. ToSet(q) \subseteq ToSet(a) \cup ToSet(b)
    BY <1>1, <2>3 DEF ToSet
  <2> QED
    BY <2>1, <2>2, <2>4
<1> QED
  BY <1>2, <1>7, <1>8, <1>9, <1>10, <1>11 DEF a, b, d

-----------------------------------------------------------------------------
(* The batches *)

\* The jobs that were posted and are not finished.
Active == ToSet(waiting) \cup ToSet(running)

QueueTypes ==
    /\ waiting \in Seq(Jobs) /\ running \in Seq(Jobs) /\ todo \in Seq(Jobs)
    /\ done \in SUBSET Jobs /\ clock \in Nat /\ policy \in Policies
    /\ pc \in {"idle", "admit", "preempt", "allocate", "down"}

\* Every job is in one place, and was posted when everything before it had run.
Placement ==
    /\ Distinct(waiting) /\ Distinct(running)
    /\ ToSet(waiting) \cap ToSet(running) = {} /\ done \cap Active = {}
    /\ \A j \in Active \cup done : Preceding(j) \subseteq done

\* The arrival times order the unfinished jobs totally.
Times ==
    /\ DOMAIN jobTime = {Ctx[j] : j \in Active}
    /\ \A c \in DOMAIN jobTime : jobTime[c] \in Nat /\ jobTime[c] < clock
    /\ \A c, d \in DOMAIN jobTime : jobTime[c] = jobTime[d] => c = d
    /\ \A j \in Active : TaskOf[j] \in DOMAIN taskTime
    /\ \A t \in DOMAIN taskTime : taskTime[t] \in Nat

\* The jobs to allocate for belong to the batch.
TodoSound ==
    /\ Distinct(todo) /\ ToSet(todo) \subseteq ToSet(running)
    /\ pc \in {"idle", "admit", "preempt"} => todo = <<>>

\* Between iterations every job of the batch has run.
Resumed ==
    /\ genLength \in [Jobs -> Nat]
    /\ pc = "idle" => \A j \in ToSet(running) : genLength[j] > 0

\* The batches, and what makes them inductive.
BatchInv == /\ QueueTypes /\ Placement /\ Times /\ TodoSound
            /\ RunningAreGens /\ Resumed /\ BatchWithinLimits

\* "different jobs with the same context id can't present at the same time"
LEMMA OneJobPerContext ==
  ASSUME QueueTypes, Placement
  PROVE  /\ Active \subseteq Jobs
         /\ \A i, j \in Active : Ctx[i] = Ctx[j] => i = j
<1>1. Active \subseteq Jobs /\ Active \cap done = {}
  BY DEF QueueTypes, Placement, Active, ToSet
<1>2. ASSUME NEW i \in Active, NEW j \in Active, Ctx[i] = Ctx[j], i < j
      PROVE  FALSE
  <2>1. i \in Preceding(j)
    BY <1>1, <1>2 DEF Preceding
  <2> QED
    BY <1>1, <2>1 DEF Placement
<1>3. Jobs \subseteq Nat
  BY EngineAssumption
<1>4. \A i, j \in Active : i < j \/ j < i \/ i = j
  BY <1>1, <1>3
<1> QED
  BY <1>1, <1>2, <1>4

LEMMA BatchInit == Init => BatchInv
<1> SUFFICES ASSUME Init PROVE BatchInv
  OBVIOUS
<1>1. waiting = <<>> /\ running = <<>> /\ todo = <<>> /\ done = {} /\ pc = "idle"
  BY DEF Init
<1>2. ToSet(<<>>) = {} /\ <<>> \in Seq(Jobs) /\ Distinct(<<>>) /\ Len(<<>>) = 0
  BY DEF ToSet, Distinct
<1>3. QueueTypes
  BY <1>1, <1>2 DEF Init, QueueTypes
<1>4. Active = {}
  BY <1>1, <1>2 DEF Active
<1>5. Placement
  BY <1>1, <1>2, <1>4 DEF Placement
<1>6. Times
  <2>1. DOMAIN jobTime = {} /\ DOMAIN taskTime = {}
    BY DEF Init, NoEntry
  <2> QED
    BY <1>4, <2>1 DEF Times
<1>7. TodoSound /\ RunningAreGens
  BY <1>1, <1>2 DEF TodoSound, RunningAreGens
<1>8. NumTokens(<<>>) = 0
  <2> DEFINE D == {}
             F == [s \in SUBSET D |-> 0]
  <2>1. IsSum(F, Sizes(D), D)
    BY DEF IsSum
  <2>2. IsFiniteSet(D) /\ D \in SUBSET Jobs /\ <<>> \in Seq(D)
    BY FS_EmptySet
  <2>3. F[{}] = 0
    OBVIOUS
  <2> HIDE DEF F, D
  <2>4. NumTokens(<<>>) = F[ToSet(<<>>)]
    BY <1>2, <2>1, <2>2, NumTokensIsSum
  <2> QED
    BY <1>2, <2>3, <2>4
<1>9. MaxBatchSize \in Nat /\ MaxNumBatchedTokens \in Nat
  BY EngineAssumption
<1>10. BatchWithinLimits
  BY <1>1, <1>2, <1>8, <1>9 DEF BatchWithinLimits, BatchedTokens, Formed
<1>11. Resumed
  BY <1>1, <1>2 DEF Init, Resumed
<1> QED
  BY <1>3, <1>5, <1>6, <1>7, <1>10, <1>11 DEF BatchInv

\* Moving jobs between the queues keeps the rest.
LEMMA SameJobs ==
  ASSUME BatchInv, Active' = Active, UNCHANGED <<times, done>>,
         Distinct(waiting)', Distinct(running)',
         (ToSet(waiting) \cap ToSet(running) = {})'
  PROVE  Placement' /\ Times'
<1>1. UNCHANGED <<clock, jobTime, taskTime, done>>
  BY DEF times
<1>2. \A j : Preceding(j)' = Preceding(j)
  BY DEF Preceding
<1> QED
  BY <1>1, <1>2 DEF BatchInv, Placement, Times

LEMMA LimitsKept ==
  ASSUME BatchWithinLimits, running' = running, todo' = <<>>,
         pc' = "admit" => Joined' = {}
  PROVE  BatchWithinLimits'
<1>1. BatchedTokens' = BatchedTokens
  BY DEF BatchedTokens
<1>2. ~Formed'
  BY DEF Formed
<1> HIDE DEF BatchedTokens, Joined
<1> QED
  BY <1>1, <1>2 DEF BatchWithinLimits

\* The tokens of a batch change with its contexts only.
LEMMA TotalOf ==
  ASSUME NEW q, running' = q, ctxs' = ctxs
  PROVE  TotalTokens' = ContextTokens(q)
<1>1. TotalTokens' = ContextTokens(q)'
  BY DEF TotalTokens
<1>2. ContextTokens(q)' = ContextTokens(q)
  BY DEF ContextTokens, FoldLeft, MapThenFoldSet, ContextLen
<1> QED
  BY <1>1, <1>2

LEMMA LimitsStay ==
  ASSUME BatchWithinLimits, UNCHANGED <<policy, running, todo, ctxs, genLength>>,
         pc' = pc \/ pc' = "down"
  PROVE  BatchWithinLimits'
<1>1. BatchedTokens' = BatchedTokens
  BY DEF BatchedTokens
<1>2. PICK q : q = running
  OBVIOUS
<1>3. TotalTokens' = TotalTokens
  BY <1>2, TotalOf DEF TotalTokens
<1>4. Joined' = Joined /\ (Formed' <=> Formed)
  BY DEF Joined, Formed
<1> QED
  BY <1>1, <1>3, <1>4 DEF BatchWithinLimits

LEMMA AddJobKeepsBatch ==
  ASSUME BatchInv, NEW j \in Jobs, AddJob(j)
  PROVE  BatchInv' /\ Active' = Active \cup {j} /\ j \notin Active \cup done
<1>1. /\ pc = "idle" /\ pc' = pc /\ Postable(j) /\ waiting' = Append(waiting, j)
      /\ clock' = clock + 1 /\ jobTime' = Put(jobTime, Ctx[j], clock)
      /\ taskTime' = IF TaskOf[j] \in DOMAIN taskTime THEN taskTime
                     ELSE Put(taskTime, TaskOf[j], clock)
      /\ UNCHANGED <<policy, running, genLength, done, todo>>
  BY DEF AddJob
<1>2. j \notin Active /\ j \notin done /\ Preceding(j) \subseteq done
  BY <1>1 DEF Postable, Posted, Active
<1>3. QueueTypes /\ Placement /\ Times /\ TodoSound /\ RunningAreGens /\ Resumed /\ BatchWithinLimits
  BY DEF BatchInv
<1>4. waiting \in Seq(Jobs) /\ Distinct(waiting) /\ j \notin ToSet(waiting)
  BY <1>2, <1>3 DEF QueueTypes, Placement, Active
<1>5. /\ waiting' \in Seq(Jobs) /\ Distinct(waiting')
      /\ ToSet(waiting') = ToSet(waiting) \cup {j}
  BY <1>1, <1>4, OneMoreJob
<1>6. Active' = Active \cup {j}
  BY <1>1, <1>5 DEF Active
<1>7. QueueTypes'
  BY <1>1, <1>3, <1>5 DEF QueueTypes
<1>8. Placement'
  <2>1. \A i : Preceding(i)' = Preceding(i)
    BY DEF Preceding
  <2>2. (ToSet(waiting) \cap ToSet(running) = {})'
    BY <1>1, <1>2, <1>3, <1>5 DEF Placement, Active
  <2>3. (done \cap Active = {})'
    BY <1>1, <1>2, <1>3, <1>6 DEF Placement
  <2>4. ASSUME NEW i \in (Active \cup done)' PROVE Preceding(i) \subseteq done
    <3>1. CASE i = j
      BY <1>2, <3>1
    <3>2. CASE i # j
      BY <1>1, <1>3, <1>6, <2>4, <3>2 DEF Placement
    <3> QED
      BY <3>1, <3>2
  <2> QED
    BY <1>1, <1>3, <1>5, <2>1, <2>2, <2>3, <2>4 DEF Placement
<1>9. Times'
  <2>1. Ctx[j] \notin DOMAIN jobTime
    <3> SUFFICES ASSUME NEW i \in Active, Ctx[i] = Ctx[j] PROVE FALSE
      BY <1>3 DEF Times
    <3>1. i \in Jobs /\ i \notin done /\ i # j /\ Jobs \subseteq Nat
      BY <1>2, <1>3, OneJobPerContext, EngineAssumption DEF Placement
    <3>2. i < j \/ j < i
      BY <3>1
    <3>3. i < j => i \in Preceding(j)
      BY <3>1 DEF Preceding
    <3>4. j < i => j \in Preceding(i)
      BY <3>1 DEF Preceding
    <3>5. Preceding(i) \subseteq done
      BY <1>3 DEF Placement
    <3> QED
      BY <1>2, <3>1, <3>2, <3>3, <3>4, <3>5
  <2>2. /\ DOMAIN jobTime' = DOMAIN jobTime \cup {Ctx[j]}
        /\ jobTime'[Ctx[j]] = clock
        /\ \A c \in DOMAIN jobTime : jobTime'[c] = jobTime[c]
    BY <1>1, <2>1 DEF Put
  <2>3. clock \in Nat
    BY <1>3 DEF QueueTypes
  <2>4. DOMAIN jobTime' = {Ctx[i] : i \in Active'}
    BY <1>3, <1>6, <2>2 DEF Times
  <2>5. \A c \in DOMAIN jobTime' : jobTime'[c] \in Nat /\ jobTime'[c] < clock'
    BY <1>1, <1>3, <2>2, <2>3 DEF Times
  <2>6. \A c, d \in DOMAIN jobTime' : jobTime'[c] = jobTime'[d] => c = d
    BY <1>3, <2>2, <2>3 DEF Times
  <2>7. /\ TaskOf[j] \in DOMAIN taskTime'
        /\ \A t \in DOMAIN taskTime : t \in DOMAIN taskTime'
        /\ \A t \in DOMAIN taskTime' : taskTime'[t] \in Nat
    BY <1>1, <1>3, <2>3 DEF Times, Put
  <2>8. \A i \in Active' : TaskOf[i] \in DOMAIN taskTime'
    BY <1>3, <1>6, <2>7 DEF Times
  <2> QED
    BY <2>4, <2>5, <2>6, <2>7, <2>8 DEF Times
<1>10. todo = <<>>
  BY <1>1, <1>3 DEF TodoSound
<1>11. TodoSound' /\ RunningAreGens'
  <2>1. Distinct(todo)' /\ (ToSet(todo) \subseteq ToSet(running))'
    BY <1>1, <1>3 DEF TodoSound
  <2> QED
    BY <1>1, <1>3, <1>10, <2>1 DEF TodoSound, RunningAreGens
<1>12. BatchWithinLimits'
  BY <1>1, <1>3, <1>10, LimitsKept
<1>13. Resumed'
  BY <1>1, <1>3 DEF Resumed
<1> QED
  BY <1>2, <1>6, <1>7, <1>8, <1>9, <1>11, <1>12, <1>13 DEF BatchInv

\* Steps that leave the queues alone while there is nothing to allocate.
LEMMA QueuesUntouched ==
  ASSUME BatchInv, todo = <<>>, UNCHANGED <<policy, queues, times, genLength, done, todo>>,
         pc' \in {"idle", "admit", "preempt"}, pc' = "idle" => pc = "idle",
         pc' = "admit" => Joined = {}
  PROVE  BatchInv'
<1>1. UNCHANGED <<policy, waiting, running, clock, jobTime, taskTime, genLength, done, todo>>
  BY DEF queues, times
<1>2. Active' = Active
  BY <1>1 DEF Active
<1>3. Placement' /\ Times'
  BY <1>1, <1>2, SameJobs DEF BatchInv, Placement, times
<1>4. QueueTypes' /\ TodoSound'
  <2>1. Distinct(todo)' /\ (ToSet(todo) \subseteq ToSet(running))'
    BY <1>1 DEF BatchInv, TodoSound
  <2> QED
    BY <1>1, <2>1 DEF BatchInv, QueueTypes, TodoSound
<1>5. RunningAreGens'
  BY <1>1 DEF BatchInv, RunningAreGens
<1>6. BatchWithinLimits'
  <2>1. Joined' = Joined
    BY <1>1 DEF Joined
  <2> QED
    BY <1>1, <2>1, LimitsKept DEF BatchInv
<1>7. Resumed'
  BY <1>1 DEF BatchInv, Resumed
<1> QED
  BY <1>3, <1>4, <1>5, <1>6, <1>7 DEF BatchInv

LEMMA AdmitKeepsBatch == BatchInv /\ Admit => BatchInv' /\ Active' = Active
<1> SUFFICES ASSUME BatchInv, Admit PROVE BatchInv' /\ Active' = Active
  OBVIOUS
<1> DEFINE j == Head(waiting)
<1>1. /\ pc = "admit" /\ pc' = pc /\ waiting # <<>> /\ Admissible(j)
      /\ running' = Append(running, j) /\ waiting' = Tail(waiting)
      /\ UNCHANGED <<policy, times, ctxs, genLength, done, todo>>
  BY DEF Admit
<1>2. QueueTypes /\ Placement /\ TodoSound /\ Resumed /\ BatchWithinLimits
  BY DEF BatchInv
<1>3. waiting \in Seq(Jobs) /\ running \in Seq(Jobs) /\ Distinct(waiting) /\ Distinct(running)
      /\ ToSet(waiting) \cap ToSet(running) = {}
  BY <1>2 DEF QueueTypes, Placement
<1>4. /\ Tail(waiting) \in Seq(Jobs) /\ Distinct(Tail(waiting)) /\ j \in Jobs
      /\ j \notin ToSet(Tail(waiting))
      /\ ToSet(waiting) = ToSet(Tail(waiting)) \cup {j}
  BY <1>1, <1>3, TailFacts
<1> HIDE DEF j
<1>5. j \notin ToSet(running)
  BY <1>3, <1>4
<1>6. /\ running' \in Seq(Jobs) /\ Distinct(running')
      /\ ToSet(running') = ToSet(running) \cup {j}
      /\ Len(running') = Len(running) + 1
      /\ NumTokens(running') = NumTokens(running) + JobTokens(j)
  BY <1>1, <1>3, <1>4, <1>5, OneMoreJob
<1>7. Active' = Active
  BY <1>1, <1>4, <1>6 DEF Active
<1>8. (ToSet(waiting) \cap ToSet(running) = {})'
  BY <1>1, <1>3, <1>4, <1>6
<1>9. Distinct(waiting)' /\ Distinct(running)'
  BY <1>1, <1>4, <1>6
<1>10. Placement' /\ Times'
  BY <1>1, <1>7, <1>8, <1>9, SameJobs
<1>11. todo = <<>> /\ todo' = todo
  BY <1>1, <1>2 DEF TodoSound
<1>12. QueueTypes'
  BY <1>1, <1>2, <1>4, <1>6, <1>11 DEF QueueTypes, times
<1>13. TodoSound'
  <2>1. Distinct(todo)' /\ ToSet(todo') = {}
    BY <1>2, <1>11 DEF TodoSound, ToSet
  <2> QED
    BY <1>11, <2>1 DEF TodoSound
<1>14. RunningAreGens'
  BY <1>1 DEF RunningAreGens
<1>15. Len(running') <= MaxBatchSize /\ NumTokens(running') <= MaxNumBatchedTokens
  BY <1>1, <1>6 DEF Admissible, BatchedTokens
<1>16. ASSUME policy = "fifo_v1" PROVE TotalTokens' <= MaxTotalTokens
  <2>1. PICK q : q = running'
    OBVIOUS
  <2>2. TotalTokens' = ContextTokens(q)
    BY <1>1, <2>1, TotalOf
  <2>3. ContextTokens(q) = TotalTokens + ContextLen(Ctx[j])
    BY <1>1, <1>3, <1>4, <2>1, ContextTokensAppend DEF TotalTokens
  <2>4. TotalTokens + ContextLen(Ctx[j]) <= MaxTotalTokens
    BY <1>1, <1>16 DEF Admissible
  <2> QED
    BY <2>2, <2>3, <2>4
<1>17. BatchWithinLimits'
  BY <1>1, <1>11, <1>15, <1>16 DEF BatchWithinLimits, BatchedTokens, Formed
<1>18. Resumed'
  BY <1>1, <1>2 DEF Resumed
<1> QED
  BY <1>7, <1>10, <1>12, <1>13, <1>14, <1>17, <1>18 DEF BatchInv

LEMMA AdmitEndsKeepsBatch == BatchInv /\ AdmitEnds => BatchInv'
<1> SUFFICES ASSUME BatchInv, AdmitEnds PROVE BatchInv'
  OBVIOUS
<1>1. pc = "admit" /\ UNCHANGED <<policy, queues, times, ctxs, genLength, done>>
  BY DEF AdmitEnds
<1>2. QueueTypes /\ Placement /\ TodoSound /\ Resumed /\ BatchWithinLimits
  BY DEF BatchInv
<1>3. todo = <<>>
  BY <1>1, <1>2 DEF TodoSound
<1>4. CASE policy = "fifo"
  <2>1. pc' = "preempt" /\ todo' = <<>>
    BY <1>4 DEF AdmitEnds
  <2> QED
    BY <1>1, <1>3, <2>1, QueuesUntouched
<1>5. CASE policy # "fifo"
  <2>1. pc' = "allocate" /\ todo' = FillsFirst(running)
    BY <1>5 DEF AdmitEnds
  <2>2. UNCHANGED <<policy, waiting, running, clock, ctxs, genLength, done>> /\ UNCHANGED times
    BY <1>1 DEF queues, times
  <2>3. /\ todo' \in Seq(Jobs) /\ Distinct(todo') /\ ToSet(todo') = ToSet(running)
    BY <1>2, <2>1, FillsFirstFacts DEF QueueTypes, Placement
  <2>4. Active' = Active
    BY <2>2 DEF Active
  <2>5. Placement' /\ Times'
    BY <1>2, <2>2, <2>4, SameJobs DEF Placement
  <2>6. QueueTypes' /\ TodoSound'
    BY <1>2, <2>1, <2>2, <2>3 DEF QueueTypes, TodoSound
  <2>7. RunningAreGens'
    BY <2>1 DEF RunningAreGens
  <2>8. BatchedTokens' = BatchedTokens
    BY <2>2 DEF BatchedTokens
  <2>9. TotalTokens' = TotalTokens
    <3>1. PICK q : q = running
      OBVIOUS
    <3> QED
      BY <2>2, <3>1, TotalOf DEF TotalTokens
  <2>10. Joined' = Joined
    BY <2>2 DEF Joined
  <2>11. BatchWithinLimits'
    BY <1>1, <1>2, <1>5, <2>1, <2>2, <2>8, <2>9, <2>10 DEF BatchWithinLimits
  <2>12. Resumed'
    BY <1>2, <2>1, <2>2 DEF Resumed
  <2> QED
    BY <2>5, <2>6, <2>7, <2>11, <2>12 DEF BatchInv
<1> QED
  BY <1>4, <1>5

\* Arrival times order the batch.
LEMMA EarlierOrders ==
  ASSUME BatchInv
  PROVE  Orders({x \in ToSet(running) \X ToSet(running) : Earlier(x[1], x[2])},
                ToSet(running))
<1> DEFINE D == ToSet(running)
           R == {x \in D \X D : Earlier(x[1], x[2])}
           tt(i) == taskTime[TaskOf[i]]
           jt(i) == jobTime[Ctx[i]]
<1>1. \A x, y \in D : <<x, y>> \in R <=> Earlier(x, y)
  OBVIOUS
<1>2. D \subseteq Active
  BY DEF Active
<1> HIDE DEF D, R
<1>3. \A i, j \in Active : Ctx[i] = Ctx[j] => i = j
  BY OneJobPerContext DEF BatchInv
<1>4. \A i \in D : tt(i) \in Nat /\ jt(i) \in Nat
  BY <1>2 DEF BatchInv, Times
<1>5. \A i, j \in D : jt(i) = jt(j) => i = j
  BY <1>2, <1>3 DEF BatchInv, Times
<1>6. \A i, j \in D : Earlier(i, j) <=> \/ tt(i) < tt(j)
                                        \/ tt(i) = tt(j) /\ jt(i) < jt(j)
  BY DEF Earlier
<1> HIDE DEF tt, jt
<1>7. Orders(R, D)
  BY <1>1, <1>4, <1>5, <1>6 DEF Orders
<1> QED
  BY <1>7 DEF R, D

LEMMA PreemptKeepsBatch ==
  ASSUME BatchInv, Preempt
  PROVE  BatchInv' /\ Active' = Active /\ ToSet(todo') = ToSet(running')
<1> DEFINE s == ByArrival(running)
           n == Kept(s)
           a == SubSeq(s, 1, n)
           b == Reverse(SubSeq(s, n + 1, Len(s)))
<1>1. /\ pc = "preempt" /\ pc' = "allocate" /\ running' = a
      /\ waiting' = b \o waiting /\ todo' = FillsFirst(a)
      /\ UNCHANGED <<policy, times, ctxs, genLength, done>>
  BY DEF Preempt
<1>2. QueueTypes /\ Placement /\ TodoSound /\ Resumed /\ BatchWithinLimits
  BY DEF BatchInv
<1>3. /\ waiting \in Seq(Jobs) /\ running \in Seq(Jobs)
      /\ Distinct(waiting) /\ Distinct(running)
      /\ ToSet(waiting) \cap ToSet(running) = {}
  BY <1>2 DEF QueueTypes, Placement
<1>4. /\ s \in Seq(Jobs) /\ Len(s) = Len(running)
      /\ ToSet(s) = ToSet(running) /\ Distinct(s)
  BY <1>3, EarlierOrders, ArrivalSorts
<1> HIDE DEF s
<1>5. n \in 0 .. Len(s) /\ ContextTokens(a) <= MaxTotalTokens
  BY <1>4, KeptFits
<1> HIDE DEF n
<1>6. /\ a \in Seq(Jobs) /\ Distinct(a) /\ b \in Seq(Jobs) /\ Distinct(b)
      /\ ToSet(a) \cap ToSet(b) = {} /\ ToSet(a) \cup ToSet(b) = ToSet(s)
  BY <1>4, <1>5, SplitBatch
<1> HIDE DEF a, b
<1>7. ToSet(b) \cap ToSet(waiting) = {}
  BY <1>3, <1>4, <1>6
<1>8. /\ b \o waiting \in Seq(Jobs) /\ Distinct(b \o waiting)
      /\ ToSet(b \o waiting) = ToSet(b) \cup ToSet(waiting)
  BY <1>3, <1>6, <1>7, Concatenated
<1>9. /\ waiting' \in Seq(Jobs) /\ Distinct(waiting') /\ Distinct(running')
      /\ ToSet(waiting') = ToSet(b) \cup ToSet(waiting)
      /\ ToSet(running') = ToSet(a) /\ running' \in Seq(Jobs)
  BY <1>1, <1>6, <1>8
<1>10. Active' = Active
  BY <1>4, <1>6, <1>9 DEF Active
<1>11. (ToSet(waiting) \cap ToSet(running) = {})'
  BY <1>3, <1>4, <1>6, <1>9
<1>12. Placement' /\ Times'
  BY <1>1, <1>9, <1>10, <1>11, SameJobs
<1>13. /\ todo' \in Seq(Jobs) /\ Distinct(todo') /\ ToSet(todo') = ToSet(a)
  BY <1>1, <1>6, FillsFirstFacts
<1>14. QueueTypes'
  BY <1>1, <1>2, <1>9, <1>13 DEF QueueTypes, times
<1>15. TodoSound'
  BY <1>1, <1>9, <1>13 DEF TodoSound
<1>16. RunningAreGens'
  BY <1>1 DEF RunningAreGens
<1>17. /\ NumTokens(running) \in Nat /\ NumTokens(a) \in Nat
       /\ NumTokens(a) <= NumTokens(running) /\ Len(a) <= Len(running)
  <2>1. ToSet(a) \subseteq ToSet(running)
    BY <1>4, <1>6
  <2> QED
    BY <1>3, <1>6, <2>1, FewerTokens
<1>18. /\ MaxBatchSize \in Nat /\ MaxNumBatchedTokens \in Nat
       /\ Len(a) \in Nat /\ Len(running) \in Nat
  BY <1>3, <1>6, EngineAssumption
<1>19. Len(a) <= MaxBatchSize /\ NumTokens(a) <= MaxNumBatchedTokens
  BY <1>2, <1>17, <1>18 DEF BatchWithinLimits, BatchedTokens
<1>20. BatchedTokens' = NumTokens(a)
  BY <1>1 DEF BatchedTokens
<1>21. TotalTokens' <= MaxTotalTokens
  <2>1. PICK q : q = a
    OBVIOUS
  <2>2. running' = q /\ ctxs' = ctxs
    BY <1>1, <2>1
  <2> QED
    BY <1>5, <2>1, <2>2, TotalOf
<1>22. BatchWithinLimits'
  BY <1>1, <1>19, <1>20, <1>21 DEF BatchWithinLimits
<1>23. Resumed'
  BY <1>1, <1>2 DEF Resumed
<1> QED
  BY <1>9, <1>10, <1>12, <1>13, <1>14, <1>15, <1>16, <1>22, <1>23 DEF BatchInv

LEMMA AllocateKeepsBatch == BatchInv /\ Allocate => BatchInv'
<1> SUFFICES ASSUME BatchInv, Allocate PROVE BatchInv'
  OBVIOUS
<1>1. /\ pc = "allocate" /\ pc' = pc /\ todo # <<>> /\ todo' = Tail(todo)
      /\ UNCHANGED <<policy, queues, times, done>>
  BY DEF Allocate
<1>2. UNCHANGED <<policy, waiting, running, clock, done>> /\ UNCHANGED times
  BY <1>1 DEF queues, times
<1>3. QueueTypes /\ Placement /\ TodoSound /\ Resumed /\ BatchWithinLimits
  BY DEF BatchInv
<1>4. Active' = Active
  BY <1>2 DEF Active
<1>5. Placement' /\ Times'
  BY <1>2, <1>3, <1>4, SameJobs DEF Placement
<1>6. todo \in Seq(Jobs) /\ Distinct(todo) /\ ToSet(todo) \subseteq ToSet(running)
  BY <1>3 DEF TodoSound, QueueTypes
<1>7. /\ todo' \in Seq(Jobs) /\ Distinct(todo') /\ Len(todo') = Len(todo) - 1
      /\ ToSet(todo') \subseteq ToSet(todo)
  BY <1>1, <1>6, TailFacts
<1>8. QueueTypes' /\ TodoSound'
  BY <1>1, <1>2, <1>3, <1>6, <1>7 DEF QueueTypes, TodoSound
<1>9. RunningAreGens'
  BY <1>1 DEF RunningAreGens
<1>10. Len(todo) <= Len(running)
  BY <1>3, <1>6, FewerTokens DEF QueueTypes, Placement
<1>11. Len(todo') # Len(running')
  <2>1. Len(todo) \in Nat /\ Len(running) \in Nat
    BY <1>3 DEF QueueTypes
  <2> QED
    BY <1>2, <1>7, <1>10, <2>1
<1>12. BatchedTokens' = BatchedTokens /\ running' = running
  BY <1>2 DEF BatchedTokens
<1>13. BatchWithinLimits'
  BY <1>1, <1>3, <1>11, <1>12 DEF BatchWithinLimits, Formed
<1>14. Resumed'
  <2>1. genLength' \in [Jobs -> Nat]
    <3> DEFINE j == Head(todo)
    <3>1. genLength' = genLength \/ genLength' = [genLength EXCEPT ![j] = @ + 1]
      BY DEF Allocate
    <3>2. genLength \in [Jobs -> Nat]
      BY <1>3 DEF Resumed
    <3> HIDE DEF j
    <3> QED
      BY <3>1, <3>2
  <2> QED
    BY <1>1, <2>1 DEF Resumed
<1> QED
  BY <1>5, <1>8, <1>9, <1>13, <1>14 DEF BatchInv

LEMMA AllocateRaisesKeepsBatch == BatchInv /\ AllocateRaises => BatchInv'
<1> SUFFICES ASSUME BatchInv, AllocateRaises PROVE BatchInv'
  OBVIOUS
<1>1. /\ pc' = "down"
      /\ UNCHANGED <<policy, queues, times, ctxs, genLength, done, todo>>
  BY DEF AllocateRaises
<1>2. UNCHANGED <<policy, waiting, running, clock, ctxs, genLength, done, todo>> /\ UNCHANGED times
  BY <1>1 DEF queues, times
<1>3. QueueTypes /\ Placement /\ TodoSound /\ Resumed /\ BatchWithinLimits
  BY DEF BatchInv
<1>4. Active' = Active
  BY <1>2 DEF Active
<1>5. Placement' /\ Times'
  BY <1>2, <1>3, <1>4, SameJobs DEF Placement
<1>6. QueueTypes' /\ TodoSound'
  <2>1. Distinct(todo)' /\ (ToSet(todo) \subseteq ToSet(running))'
    BY <1>2, <1>3 DEF TodoSound
  <2> QED
    BY <1>1, <1>2, <1>3, <2>1 DEF QueueTypes, TodoSound
<1>7. RunningAreGens'
  BY <1>1 DEF RunningAreGens
<1>8. BatchWithinLimits'
  BY <1>1, <1>2, <1>3, LimitsStay
<1>9. Resumed'
  BY <1>1, <1>2, <1>3 DEF Resumed
<1> QED
  BY <1>5, <1>6, <1>7, <1>8, <1>9 DEF BatchInv

\* What an iteration that ends does to the jobs and to the contexts.
RunModelEffect(stops) ==
    LET batch == ToSet(running)
        finished == Finished(batch, stops)
    IN  /\ finished \subseteq batch /\ batch \ finished \subseteq Gens
        /\ done' = done \cup finished /\ Active' = Active \ finished
        /\ running' \in Seq(Jobs) /\ Distinct(running')
        /\ ToSet(running') = batch \ finished
        /\ jobTime' = Drop(jobTime, {Ctx[j] : j \in finished})
        /\ ctxs' = [c \in DOMAIN ctxs |->
               IF \E j \in batch \ Gens : Ctx[j] = c
               THEN [ctxs[c] EXCEPT !.hidden = TRUE]
               ELSE IF \E j \in batch \cap Gens : Ctx[j] = c
                    THEN [ctxs[c] EXCEPT !.tokens = @ + 1]
                    ELSE ctxs[c]]
        /\ genLength' = [j \in Jobs |-> IF j \in batch \cap Gens
                                        THEN genLength[j] + 1 ELSE genLength[j]]

LEMMA RunModelJobs ==
  ASSUME BatchInv, RunModel
  PROVE  \E stops \in SUBSET (ToSet(running) \cap Gens) : RunModelEffect(stops)
<1> DEFINE batch == ToSet(running)
<1>1. PICK stops \in SUBSET (batch \cap Gens) :
         LET finished == Finished(batch, stops) IN
           /\ done' = done \cup finished
           /\ running' = SelectAt(running,
                          {i \in DOMAIN running : running[i] \notin finished})
           /\ jobTime' = Drop(jobTime, {Ctx[j] : j \in finished})
           /\ ctxs' = [c \in DOMAIN ctxs |->
                  IF \E j \in batch \ Gens : Ctx[j] = c
                  THEN [ctxs[c] EXCEPT !.hidden = TRUE]
                  ELSE IF \E j \in batch \cap Gens : Ctx[j] = c
                       THEN [ctxs[c] EXCEPT !.tokens = @ + 1]
                       ELSE ctxs[c]]
           /\ genLength' = [j \in Jobs |-> IF j \in batch \cap Gens
                                           THEN genLength[j] + 1 ELSE genLength[j]]
  BY Zenon DEF RunModel
<1> DEFINE finished == Finished(batch, stops)
           I == {i \in DOMAIN running : running[i] \notin finished}
<1>2. waiting' = waiting
  BY DEF RunModel
<1>3. done' = done \cup finished /\ running' = SelectAt(running, I)
  BY <1>1
<1>4. finished \subseteq batch /\ batch \ finished \subseteq Gens
  BY DEF Finished
<1>5. QueueTypes /\ Placement
  BY DEF BatchInv
<1>6. {running[i] : i \in I} = batch \ finished
  BY DEF ToSet
<1>7. /\ running \in Seq(Jobs) /\ Distinct(running)
      /\ I \in SUBSET (1 .. Len(running))
  BY <1>5 DEF QueueTypes, Placement
<1> HIDE DEF finished, I
<1>8. /\ running' \in Seq(Jobs) /\ Distinct(running')
      /\ ToSet(running') = batch \ finished
  BY <1>3, <1>6, <1>7, SelectedJobs
<1>9. Active' = Active \ finished
  <2>1. ToSet(waiting) \cap batch = {}
    BY <1>5 DEF Placement
  <2> QED
    BY <1>2, <1>4, <1>8, <2>1 DEF Active
<1>10. RunModelEffect(stops)
  BY <1>1, <1>4, <1>8, <1>9, Zenon DEF RunModelEffect, finished
<1> QED
  BY <1>1, <1>10

LEMMA RunModelKeepsBatch == BatchInv /\ RunModel => BatchInv'
<1> SUFFICES ASSUME BatchInv, RunModel PROVE BatchInv'
  OBVIOUS
<1> DEFINE batch == ToSet(running)
<1>1. PICK stops \in SUBSET (batch \cap Gens) : RunModelEffect(stops)
  BY RunModelJobs
<1>2. /\ pc' = "idle" /\ todo = <<>> /\ todo' = todo
      /\ UNCHANGED <<policy, waiting, clock, taskTime>>
  BY DEF RunModel
<1> DEFINE finished == Finished(batch, stops)
<1>3. /\ done' = done \cup finished
      /\ jobTime' = Drop(jobTime, {Ctx[j] : j \in finished})
  BY <1>1 DEF RunModelEffect
<1>4. finished \subseteq batch /\ batch \ finished \subseteq Gens
  BY <1>1 DEF RunModelEffect
<1>5. QueueTypes /\ Placement /\ Times /\ TodoSound /\ Resumed /\ BatchWithinLimits
  BY DEF BatchInv
<1>6. /\ running \in Seq(Jobs) /\ Distinct(running) /\ batch \subseteq Jobs
  BY <1>5 DEF QueueTypes, Placement, ToSet
<1>8. /\ running' \in Seq(Jobs) /\ Distinct(running')
      /\ ToSet(running') = batch \ finished
  BY <1>1 DEF RunModelEffect
<1>9. Active' = Active \ finished /\ finished \subseteq Active
  BY <1>1 DEF RunModelEffect, Active
<1> HIDE DEF finished
<1>10. QueueTypes'
  BY <1>2, <1>3, <1>4, <1>5, <1>6, <1>8 DEF QueueTypes
<1>11. Placement'
  <2>1. \A j : Preceding(j)' = Preceding(j)
    BY DEF Preceding
  <2>2. Distinct(waiting)' /\ Distinct(running)'
    BY <1>2, <1>5, <1>8 DEF Placement
  <2>3. (ToSet(waiting) \cap ToSet(running) = {})' /\ (done \cap Active = {})'
    BY <1>2, <1>3, <1>5, <1>8, <1>9 DEF Placement
  <2>4. \A j \in Active' \cup done' : Preceding(j) \subseteq done'
    BY <1>3, <1>5, <1>9 DEF Placement
  <2> QED
    BY <2>1, <2>2, <2>3, <2>4 DEF Placement
<1>12. Times'
  <2>1. \A i, j \in Active : Ctx[i] = Ctx[j] => i = j
    BY <1>5, OneJobPerContext
  <2>2. /\ DOMAIN jobTime' = DOMAIN jobTime \ {Ctx[j] : j \in finished}
        /\ \A c \in DOMAIN jobTime' : c \in DOMAIN jobTime /\ jobTime'[c] = jobTime[c]
    BY <1>3 DEF Drop
  <2>3. DOMAIN jobTime = {Ctx[j] : j \in Active}
    BY <1>5 DEF Times
  <2>4. DOMAIN jobTime' = {Ctx[j] : j \in Active'}
    BY <1>9, <2>1, <2>2, <2>3
  <2> QED
    BY <1>2, <1>5, <1>9, <2>2, <2>4 DEF Times
<1>13. TodoSound'
  <2>1. Distinct(todo)' /\ ToSet(todo') = {}
    BY <1>2, <1>5 DEF TodoSound, ToSet
  <2> QED
    BY <1>2, <2>1 DEF TodoSound
<1>14. RunningAreGens'
  BY <1>4, <1>8 DEF RunningAreGens
<1>15. /\ NumTokens(running) \in Nat /\ NumTokens(running') \in Nat
       /\ NumTokens(running') <= NumTokens(running) /\ Len(running') <= Len(running)
  <2>1. PICK r : r = running'
    OBVIOUS
  <2>2. r \in Seq(Jobs) /\ Distinct(r) /\ ToSet(r) \subseteq ToSet(running)
    BY <1>8, <2>1
  <2>3. /\ NumTokens(running) \in Nat /\ NumTokens(r) \in Nat
        /\ NumTokens(r) <= NumTokens(running) /\ Len(r) <= Len(running)
    BY <1>6, <2>2, FewerTokens
  <2> QED
    BY <2>1, <2>3
<1>16. /\ MaxBatchSize \in Nat /\ MaxNumBatchedTokens \in Nat
       /\ Len(running') \in Nat /\ Len(running) \in Nat
  BY <1>6, <1>8, EngineAssumption
<1>17. Len(running') <= MaxBatchSize /\ NumTokens(running') <= MaxNumBatchedTokens
  BY <1>5, <1>15, <1>16 DEF BatchWithinLimits, BatchedTokens
<1>18. BatchWithinLimits'
  BY <1>2, <1>17 DEF BatchWithinLimits, BatchedTokens, Formed
<1>19. Resumed'
  <2>1. genLength \in [Jobs -> Nat]
    BY <1>5 DEF Resumed
  <2>2. genLength' = [j \in Jobs |-> IF j \in batch \cap Gens
                                     THEN genLength[j] + 1 ELSE genLength[j]]
    BY <1>1 DEF RunModelEffect
  <2>3. ToSet(running') \subseteq batch \cap Gens
    BY <1>4, <1>8
  <2> HIDE DEF batch
  <2>4. \A j \in ToSet(running') : genLength'[j] > 0
    BY <1>6, <2>1, <2>2, <2>3
  <2>5. genLength' \in [Jobs -> Nat]
    BY <2>1, <2>2
  <2> QED
    BY <2>4, <2>5 DEF Resumed
<1> QED
  BY <1>10, <1>11, <1>12, <1>13, <1>14, <1>18, <1>19 DEF BatchInv

LEMMA BatchStep == BatchInv /\ [Next]_vars => BatchInv'
<1> SUFFICES ASSUME BatchInv, [Next]_vars PROVE BatchInv'
  OBVIOUS
<1>1. pc \in {"idle", "admit", "preempt"} => todo = <<>>
  BY DEF BatchInv, TodoSound
<1>2. ASSUME NEW j \in Jobs, AddJob(j) PROVE BatchInv'
  BY <1>2, AddJobKeepsBatch
<1>3. ASSUME NEW j \in Jobs, FreeContext(Ctx[j]) PROVE BatchInv'
  <2>1. pc = "idle" /\ pc' = pc /\ UNCHANGED <<policy, queues, times, genLength, done, todo>>
    BY <1>3 DEF FreeContext
  <2> QED
    BY <1>1, <2>1, QueuesUntouched
<1>4. CASE StartIter
  <2>1. pc = "idle" /\ pc' = "admit" /\ UNCHANGED <<policy, queues, times, genLength, done, todo>>
    BY <1>4 DEF StartIter
  <2>2. Joined = {}
    <3>1. \A j \in ToSet(running) : j \in Gens /\ genLength[j] > 0
      BY <2>1 DEF BatchInv, RunningAreGens, Resumed
    <3> QED
      BY <3>1 DEF Joined
  <2> QED
    BY <1>1, <2>1, <2>2, QueuesUntouched
<1>5. CASE UNCHANGED vars
  <2>1. UNCHANGED <<policy, waiting, running, times, genLength, done, todo, pc, ctxs>>
    BY <1>5 DEF vars, queues
  <2>2. Active' = Active
    BY <2>1 DEF Active
  <2>3. Placement' /\ Times'
    BY <2>1, <2>2, SameJobs DEF BatchInv, Placement
  <2>4. QueueTypes' /\ TodoSound' /\ RunningAreGens'
    <3>1. Distinct(todo)' /\ (ToSet(todo) \subseteq ToSet(running))'
      BY <2>1 DEF BatchInv, TodoSound
    <3>2. (ToSet(running) \subseteq Gens)' <=> ToSet(running) \subseteq Gens
      BY <2>1
    <3>3. clock' = clock
      BY <2>1 DEF times
    <3> QED
      BY <2>1, <3>1, <3>2, <3>3 DEF BatchInv, QueueTypes, TodoSound, RunningAreGens
  <2>5. BatchWithinLimits'
    BY <2>1, LimitsStay DEF BatchInv
  <2>6. Resumed'
    BY <2>1 DEF BatchInv, Resumed
  <2> QED
    BY <2>3, <2>4, <2>5, <2>6 DEF BatchInv
<1>6. CASE Iter
  BY <1>4, <1>6, AdmitKeepsBatch, AdmitEndsKeepsBatch, PreemptKeepsBatch,
     AllocateKeepsBatch, AllocateRaisesKeepsBatch, RunModelKeepsBatch DEF Iter
<1> QED
  BY <1>2, <1>3, <1>5, <1>6 DEF Next

LEMMA BatchSoundFromInv == BatchInv => BatchSound
<1> SUFFICES ASSUME BatchInv PROVE BatchSound
  OBVIOUS
<1>1. QueueTypes /\ Placement /\ Times /\ RunningAreGens /\ BatchWithinLimits
  BY DEF BatchInv
<1>2. /\ IsFiniteSet(ToSet(waiting)) /\ Cardinality(ToSet(waiting)) = Len(waiting)
      /\ IsFiniteSet(ToSet(running)) /\ Cardinality(ToSet(running)) = Len(running)
  BY <1>1, CountOf DEF QueueTypes, Placement
<1>3. ToSet(waiting) \cap ToSet(running) = {}
  BY <1>1 DEF Placement
<1>4. Cardinality(ToSet(waiting) \cup ToSet(running)) = Len(waiting) + Len(running)
  <2>1. Cardinality(ToSet(waiting) \cup ToSet(running))
          = Cardinality(ToSet(waiting)) + Cardinality(ToSet(running))
            - Cardinality(ToSet(waiting) \cap ToSet(running))
    BY <1>2, FS_Union
  <2>2. Cardinality(ToSet(waiting) \cap ToSet(running)) = 0
    BY <1>3, FS_EmptySet
  <2>3. Len(waiting) \in Nat /\ Len(running) \in Nat
    BY <1>1 DEF QueueTypes
  <2> QED
    BY <1>2, <2>1, <2>2, <2>3
<1>5. JobsInOnePlace
  BY <1>1, <1>4, OneJobPerContext DEF JobsInOnePlace, Placement, Times, Active
<1> QED
  BY <1>1, <1>5 DEF BatchSound

\* However jobs are posted, admitted, preempted and finished: a job is in one
\* place only, no two jobs of the engine share a context, between iterations
\* only generations run, and the batch keeps within max_batch_size and
\* max_num_batched_tokens.  When it is formed it is within max_total_tokens
\* under fifo; under fifo_v1 it is if a job has joined it, else running
\* generations may have outgrown the limit.
THEOREM BatchAlwaysSound == Spec => []BatchSound
<1> QED
  BY BatchInit, BatchStep, BatchSoundFromInv, PTL DEF Spec

-----------------------------------------------------------------------------
(* Blocks *)

\* The block that slot i lies in.
BlockNo(i) == (i - 1) \div BlockSize

LEMMA BlockSizeFacts ==
  /\ BlockSize \in Nat \ {0} /\ NumBlocks \in Nat
  /\ \A i \in Nat \ {0} : BlockNo(i) \in Nat
  /\ \A i \in Nat \ {0} :
        BlockNo(i + 1) = IF i % BlockSize = 0 THEN BlockNo(i) + 1 ELSE BlockNo(i)
<1>1. BlockSize \in Nat \ {0} /\ NumBlocks \in Nat
  BY EngineAssumption
<1>2. ASSUME NEW i \in Nat \ {0}
      PROVE  /\ BlockNo(i) \in Nat
             /\ BlockNo(i + 1) = IF i % BlockSize = 0 THEN BlockNo(i) + 1 ELSE BlockNo(i)
  <2> DEFINE m == i - 1
  <2>1. m \in Nat /\ m + 1 = i /\ (i + 1) - 1 = i
    OBVIOUS
  <2> HIDE DEF m
  <2>2. /\ m % BlockSize \in 0 .. (BlockSize - 1) /\ m \div BlockSize \in Nat
        /\ (m + 1) % BlockSize = IF m % BlockSize = BlockSize - 1 THEN 0
                                 ELSE (m % BlockSize) + 1
        /\ (m + 1) \div BlockSize = IF m % BlockSize = BlockSize - 1
                                    THEN (m \div BlockSize) + 1 ELSE m \div BlockSize
    BY <1>1, <2>1, DivModNext
  <2>3. i % BlockSize = 0 <=> m % BlockSize = BlockSize - 1
    BY <1>1, <2>1, <2>2
  <2>4. BlockNo(i) = m \div BlockSize /\ BlockNo(i + 1) = (m + 1) \div BlockSize
    BY <2>1 DEF BlockNo, m
  <2> QED
    BY <2>2, <2>3, <2>4
<1> QED
  BY <1>1, <1>2

\* The slots pad_to adds: up to the end of the last block.
LEMMA PadFacts ==
  ASSUME NEW A, NEW s \in Seq(A)
  PROVE  LET t == Pad(s) IN
         /\ t \in Seq(A) /\ Len(t) % BlockSize = 0
         /\ Len(s) <= Len(t) /\ Len(t) < Len(s) + BlockSize
         /\ Len(s) % BlockSize = 0 => t = s
         /\ \A i \in 1 .. Len(s) : t[i] = s[i]
         /\ \A i \in (Len(s) + 1) .. Len(t) :
               t[i] = s[Len(s)] /\ Len(s) # 0 /\ BlockNo(i) = BlockNo(Len(s))
<1> DEFINE B == BlockSize
           L == Len(s)
           r == L % B
           p == (B - r) % B
           f == [i \in 1 .. p |-> s[L]]
           t == s \o f
<1>1. B \in Nat \ {0} /\ L \in Nat
  BY BlockSizeFacts
<1>2. Pad(s) = t
  BY DEF Pad
<1> DEFINE q == L \div B
<1>3. q \in Nat /\ L = B * q + r /\ r \in 0 .. (B - 1)
  BY <1>1
<1> HIDE DEF B, r, q
<1>4. CASE r = 0
  <2>1. p = 0
    BY <1>1, <1>4, DivModSmall
  <2>2. f = <<>>
    BY <2>1
  <2>3. t = s
    <3>1. s \o <<>> = s
      BY ConcatEmptySeq
    <3> QED
      BY <2>2, <3>1, Zenon
  <2> QED
    BY <1>1, <1>2, <1>4, <2>3 DEF B, r
<1>5. CASE r # 0
  <2>1. p = B - r
    <3>1. B - r \in Nat /\ B - r < B
      BY <1>1, <1>3, <1>5
    <3> QED
      BY <1>1, <3>1, DivModSmall
  <2> HIDE DEF p
  <2>2. p \in Nat /\ p # 0 /\ p < B
    BY <1>1, <1>3, <1>5, <2>1
  <2>3. L # 0 /\ s[L] \in A
    <3>1. 0 % B = 0
      BY <1>1, DivModSmall
    <3>2. L # 0
      BY <1>5, <3>1 DEF r
    <3> QED
      BY <1>1, <3>2
  <2>4. f \in Seq(A) /\ Len(f) = p /\ \A i \in 1 .. p : f[i] = s[L]
    BY <2>2, <2>3
  <2> HIDE DEF f
  <2>5. /\ t \in Seq(A) /\ Len(t) = L + p
        /\ \A i \in 1 .. L : t[i] = s[i]
        /\ \A i \in 1 .. p : t[L + i] = f[i]
    BY <1>1, <2>2, <2>4
  <2> HIDE DEF t
  <2>6. ASSUME NEW i \in (L + 1) .. Len(t) PROVE t[i] = s[L]
    <3> DEFINE k == i - L
    <3>1. k \in 1 .. p /\ L + k = i
      BY <1>1, <2>2, <2>5
    <3> HIDE DEF k
    <3> QED
      BY <2>4, <2>5, <3>1
  <2>7. Len(t) % B = 0
    <3>1. L + p = B * (q + 1) + 0
      BY <1>1, <1>3, <2>1
    <3>2. (B * (q + 1) + 0) % B = 0
      BY <1>1, <1>3, DivModUnique
    <3> QED
      BY <2>5, <3>1, <3>2
  <2>8. ASSUME NEW i \in (L + 1) .. Len(t) PROVE BlockNo(i) = BlockNo(L)
    <3>1. ASSUME NEW k \in 0 .. (B - 1) PROVE (B * q + k) \div B = q
      <4>1. k \in Nat /\ k < B
        BY <1>1
      <4> QED
        BY <1>1, <1>3, <4>1, DivModUnique
    <3> DEFINE k == (i - 1) - B * q
               l == r - 1
    <3>2. B * q \in Nat
      BY <1>1, <1>3
    <3>3. k \in 0 .. (B - 1) /\ B * q + k = i - 1
      BY <1>1, <1>3, <2>1, <2>2, <2>5, <3>2
    <3>4. l \in 0 .. (B - 1) /\ B * q + l = L - 1
      BY <1>1, <1>3, <1>5, <3>2
    <3> HIDE DEF k, l
    <3>5. (i - 1) \div B = q /\ (L - 1) \div B = q
      BY <3>1, <3>3, <3>4
    <3> QED
      BY <3>5 DEF BlockNo, B
  <2>9. Len(t) % BlockSize = 0 /\ (Len(s) % BlockSize # 0)
    BY <1>5, <2>7 DEF B, r
  <2>10. L <= Len(t) /\ Len(t) < L + BlockSize
    BY <1>1, <2>2, <2>5 DEF B
  <2> QED
    BY <1>2, <2>3, <2>5, <2>6, <2>8, <2>9, <2>10
<1> QED
  BY <1>4, <1>5

\* The number of blocks that the first i slots lie in.
BlocksUpTo(i) == IF i = 0 THEN 0 ELSE BlockNo(i) + 1

LEMMA BlocksUpToNext ==
  ASSUME NEW i \in Nat
  PROVE  /\ BlocksUpTo(i) \in Nat
         /\ BlocksUpTo(i + 1) = BlocksUpTo(i) + IF i % BlockSize = 0 THEN 1 ELSE 0
<1>1. CASE i = 0
  <2>1. 0 % BlockSize = 0 /\ 0 \div BlockSize = 0
    BY BlockSizeFacts, DivModSmall
  <2>2. BlockNo(1) = 0
    BY <2>1 DEF BlockNo
  <2> QED
    BY <1>1, <2>1, <2>2 DEF BlocksUpTo
<1>2. CASE i # 0
  BY <1>2, BlockSizeFacts DEF BlocksUpTo
<1> QED
  BY <1>1, <1>2

\* How many blocks _allocate_one has taken when it comes to slot i.
Taken(s, n, i) == {k \in NewBlockAt(s, n) : k <= i}

LEMMA TakenCounts ==
  ASSUME NEW A, NEW s \in Seq(A), NEW n \in Nat
  PROVE  /\ IsFiniteSet(NewBlockAt(s, n))
         /\ \A i \in Len(s) .. (Len(s) + n) :
               /\ Cardinality(Taken(s, n, i)) \in Nat
               /\ Cardinality(Taken(s, n, i)) <= Cardinality(NewBlockAt(s, n))
               /\ BlocksUpTo(i) = BlocksUpTo(Len(s)) + Cardinality(Taken(s, n, i))
<1> DEFINE L == Len(s)
           N == NewBlockAt(s, n)
           T(i) == Taken(s, n, i)
           P == {d \in Nat : d <= n =>
                    BlocksUpTo(L + d) = BlocksUpTo(L) + Cardinality(T(L + d))}
<1>1. L \in Nat
  OBVIOUS
<1>2. N = {i \in (L + 1) .. (L + n) : (i - 1) % BlockSize = 0}
  BY DEF NewBlockAt
<1>3. IsFiniteSet(N)
  <2>1. IsFiniteSet(1 .. (L + n)) /\ N \subseteq 1 .. (L + n)
    BY <1>1, <1>2, UpToCounted
  <2> QED
    BY <2>1, FS_Subset
<1>4. \A i : T(i) = {k \in N : k <= i}
  BY DEF Taken
<1> HIDE DEF L, N, T
<1>5. \A i : IsFiniteSet(T(i)) /\ Cardinality(T(i)) \in Nat
             /\ Cardinality(T(i)) <= Cardinality(N)
  BY <1>3, <1>4, FS_Subset, FS_CardinalityType
<1>6. 0 \in P
  <2>1. T(L + 0) = {}
    BY <1>1, <1>2, <1>4
  <2>2. Cardinality(T(L + 0)) = 0
    BY <2>1, FS_EmptySet
  <2> QED
    BY <1>1, <2>2, BlocksUpToNext
<1>7. ASSUME NEW d \in Nat, d \in P PROVE d + 1 \in P
  <2> SUFFICES ASSUME d + 1 <= n
               PROVE  BlocksUpTo(L + (d + 1)) = BlocksUpTo(L) + Cardinality(T(L + (d + 1)))
    OBVIOUS
  <2> DEFINE i == L + d
  <2>1. i \in Nat /\ L + (d + 1) = i + 1 /\ (i + 1) - 1 = i
    BY <1>1
  <2>2. BlocksUpTo(i) = BlocksUpTo(L) + Cardinality(T(i))
    BY <1>7
  <2>3. /\ BlocksUpTo(i) \in Nat /\ BlocksUpTo(L) \in Nat
        /\ BlocksUpTo(i + 1) = BlocksUpTo(i) + IF i % BlockSize = 0 THEN 1 ELSE 0
    BY <1>1, <2>1, BlocksUpToNext
  <2>4. i + 1 \in (L + 1) .. (L + n)
    BY <1>1
  <2> HIDE DEF i
  <2>5. \A k \in N : k \in Nat /\ (k <= i + 1 <=> k <= i \/ k = i + 1)
    BY <1>1, <1>2, <2>1
  <2>6. CASE i % BlockSize = 0
    <3>1. i + 1 \in N
      BY <1>2, <2>1, <2>4, <2>6
    <3>2. T(i + 1) = T(i) \cup {i + 1} /\ i + 1 \notin T(i)
      <4>1. ~(i + 1 <= i)
        BY <2>1
      <4> QED
        BY <1>4, <2>5, <3>1, <4>1
    <3>3. Cardinality(T(i + 1)) = Cardinality(T(i)) + 1
      BY <1>5, <3>2, FS_AddElement
    <3> QED
      BY <1>5, <2>1, <2>2, <2>3, <2>6, <3>3
  <2>7. CASE i % BlockSize # 0
    <3>1. i + 1 \notin N
      BY <1>2, <2>1, <2>7
    <3>2. T(i + 1) = T(i)
      BY <1>4, <2>5, <3>1
    <3> QED
      BY <1>5, <2>1, <2>2, <2>3, <2>7, <3>2
  <2> QED
    BY <2>6, <2>7
<1>8. Nat \subseteq P
  <2> HIDE DEF P
  <2> QED
    BY <1>6, <1>7, SetInduction
<1>9. ASSUME NEW i \in L .. (L + n)
      PROVE  BlocksUpTo(i) = BlocksUpTo(L) + Cardinality(T(i))
  <2> DEFINE d == i - L
  <2>1. d \in Nat /\ d <= n /\ L + d = i
    BY <1>1
  <2> HIDE DEF d
  <2> QED
    BY <1>8, <2>1
<1>10. IsFiniteSet(N) /\ \A i \in L .. (L + n) :
               /\ Cardinality(T(i)) \in Nat
               /\ Cardinality(T(i)) <= Cardinality(N)
               /\ BlocksUpTo(i) = BlocksUpTo(L) + Cardinality(T(i))
  BY <1>3, <1>5, <1>9
<1> QED
  BY <1>10 DEF L, N, T

\* The k-th of the free blocks.
Fresh(k) == CHOOSE b \in Free : Cardinality({x \in Free : x < b}) = k - 1

LEMMA FreshFacts ==
  /\ IsFiniteSet(Free) /\ Free \subseteq Blocks
  /\ \A k \in 1 .. Cardinality(Free) : Fresh(k) \in Free
  /\ \A k, l \in 1 .. Cardinality(Free) : Fresh(k) = Fresh(l) => k = l
<1> DEFINE R == {x \in Free \X Free : x[1] < x[2]}
           n == Cardinality(Free)
<1>1. IsFiniteSet(Blocks) /\ Blocks \subseteq Nat
  <2>1. NumBlocks \in Nat
    BY BlockSizeFacts
  <2> QED
    BY <2>1, FS_Interval DEF Blocks
<1>2. Free \subseteq Blocks
  BY DEF Free
<1>3. IsFiniteSet(Free) /\ n \in Nat /\ Free \subseteq Nat
  BY <1>1, <1>2, FS_Subset, FS_CardinalityType
<1>4. \A x, y \in Free : <<x, y>> \in R <=> x < y
  OBVIOUS
<1> HIDE DEF R
<1>5. Orders(R, Free)
  BY <1>3, <1>4 DEF Orders
<1>6. PICK p \in Bijection(1 .. n, Free) :
            /\ \A i, j \in 1 .. n : i < j <=> <<p[i], p[j]>> \in R
            /\ \A x \in Free : p[Rank(R, Free, x)] = x
  BY <1>3, <1>5, Sorted
<1>7. /\ p \in [1 .. n -> Free] /\ \A i, j \in 1 .. n : p[i] = p[j] => i = j
  BY <1>6 DEF Bijection, Injection, IsInjective
<1>8. \A x \in Free : Rank(R, Free, x) \in 1 .. n
  BY <1>3, <1>5, RankFacts
<1>9. \A b \in Free : /\ Cardinality({x \in Free : x < b}) \in Nat
                      /\ Rank(R, Free, b) = Cardinality({x \in Free : x < b}) + 1
  <2> SUFFICES ASSUME NEW b \in Free
               PROVE  /\ Cardinality({x \in Free : x < b}) \in Nat
                      /\ Rank(R, Free, b) = Cardinality({x \in Free : x < b}) + 1
    OBVIOUS
  <2>1. {x \in Free : <<x, b>> \in R} = {x \in Free : x < b}
    BY <1>4
  <2>2. Cardinality({x \in Free : x < b}) \in Nat
    BY <1>3, FS_Subset, FS_CardinalityType
  <2> QED
    BY <2>1, <2>2 DEF Rank
<1> DEFINE below(b) == Cardinality({x \in Free : x < b})
<1>10. ASSUME NEW k \in 1 .. n PROVE Fresh(k) \in Free /\ below(Fresh(k)) = k - 1
  <2>1. p[k] \in Free /\ Rank(R, Free, p[k]) \in 1 .. n
    BY <1>7, <1>8
  <2>2. p[Rank(R, Free, p[k])] = p[k]
    BY <1>6, <2>1
  <2>3. Rank(R, Free, p[k]) = k
    BY <1>7, <2>1, <2>2
  <2>4. below(p[k]) = k - 1
    BY <1>9, <2>1, <2>3
  <2>5. Fresh(k) = CHOOSE b \in Free : below(b) = k - 1
    BY DEF Fresh
  <2> HIDE DEF below
  <2> QED
    BY <2>1, <2>4, <2>5
<1>11. ASSUME NEW k \in 1 .. n, NEW l \in 1 .. n, Fresh(k) = Fresh(l) PROVE k = l
  <2>1. k - 1 = l - 1
    BY <1>10, <1>11
  <2> QED
    BY <1>3, <2>1
<1> QED
  BY <1>2, <1>3, <1>10, <1>11

\* What allocate(n) does to the slots of a context: b counts the blocks it has
\* taken.
LEMMA ExtendFacts ==
  ASSUME NEW s \in Seq(Blocks), NEW n \in Nat,
         Cardinality(NewBlockAt(s, n)) <= Cardinality(Free)
  PROVE  /\ Extend(s, n) \in Seq(Blocks) /\ Len(Extend(s, n)) = Len(s) + n
         /\ \A i \in 1 .. Len(s) : Extend(s, n)[i] = s[i]
         /\ \E b : \A i \in (Len(s) + 1) .. (Len(s) + n) :
               /\ b[i] \in Nat /\ BlockNo(i) + 1 = BlocksUpTo(Len(s)) + b[i]
               /\ b[i] = 0 => Len(s) # 0 /\ Extend(s, n)[i] = s[Len(s)]
               /\ b[i] # 0 => Extend(s, n)[i] \in Free
               /\ \A k \in (Len(s) + 1) .. (Len(s) + n) :
                     b[i] # 0 /\ b[k] # 0 /\ Extend(s, n)[i] = Extend(s, n)[k]
                     => b[i] = b[k]
               /\ \A k \in (Len(s) + 1) .. (Len(s) + n) :
                     b[i] = b[k] => Extend(s, n)[i] = Extend(s, n)[k]
<1> DEFINE L == Len(s)
           t == Extend(s, n)
           cnt(i) == Cardinality(Taken(s, n, i))
           b == [i \in (L + 1) .. (L + n) |-> cnt(i)]
<1>1. L \in Nat /\ L + n \in Nat
  OBVIOUS
<1>2. t = [i \in 1 .. (L + n) |-> IF i <= L THEN s[i]
                                  ELSE IF cnt(i) = 0 THEN s[L] ELSE Fresh(cnt(i))]
  BY DEF Extend, Taken, Fresh
<1>3. \A i \in L .. (L + n) : /\ cnt(i) \in Nat
                              /\ cnt(i) <= Cardinality(NewBlockAt(s, n))
                              /\ BlocksUpTo(i) = BlocksUpTo(L) + cnt(i)
  BY TakenCounts
<1>4. Cardinality(NewBlockAt(s, n)) \in Nat /\ Cardinality(Free) \in Nat
  BY TakenCounts, FreshFacts, FS_CardinalityType
<1> HIDE DEF cnt, t, L
<1>5. ASSUME NEW i \in (L + 1) .. (L + n)
      PROVE  /\ cnt(i) \in Nat /\ BlockNo(i) + 1 = BlocksUpTo(L) + cnt(i)
             /\ cnt(i) # 0 => cnt(i) \in 1 .. Cardinality(Free)
             /\ cnt(i) = 0 => L # 0
             /\ t[i] = IF cnt(i) = 0 THEN s[L] ELSE Fresh(cnt(i))
             /\ i \in 1 .. (L + n) /\ ~(i <= L)
  <2>1. i \in L .. (L + n) /\ i # 0 /\ i \in Nat /\ i \in 1 .. (L + n) /\ ~(i <= L)
    BY <1>1
  <2>2. cnt(i) \in Nat /\ cnt(i) <= Cardinality(Free)
        /\ BlocksUpTo(i) = BlocksUpTo(L) + cnt(i)
    BY <1>3, <1>4, <2>1 DEF L
  <2>3. BlocksUpTo(i) = BlockNo(i) + 1 /\ BlockNo(i) \in Nat
    BY <2>1, BlockSizeFacts DEF BlocksUpTo
  <2>4. cnt(i) = 0 => L # 0
    <3> SUFFICES ASSUME cnt(i) = 0, L = 0 PROVE FALSE
      OBVIOUS
    <3>1. BlocksUpTo(L) = 0
      BY DEF BlocksUpTo
    <3> QED
      BY <2>2, <2>3, <3>1
  <2>5. t[i] = IF cnt(i) = 0 THEN s[L] ELSE Fresh(cnt(i))
    BY <1>2, <2>1
  <2> QED
    BY <1>4, <2>1, <2>2, <2>3, <2>4, <2>5
<1>6. \A i \in 1 .. L : t[i] = s[i] /\ s[i] \in Blocks /\ i \in 1 .. (L + n)
  <2>1. \A i \in 1 .. L : i \in 1 .. (L + n) /\ i <= L
    BY <1>1
  <2>2. \A i \in 1 .. L : s[i] \in Blocks
    BY DEF L
  <2> QED
    BY <1>2, <2>1, <2>2
<1>7. ASSUME NEW i \in 1 .. (L + n) PROVE t[i] \in Blocks
  <2>1. CASE i <= L
    <3>1. i \in 1 .. L
      BY <1>1, <2>1
    <3> QED
      BY <1>6, <3>1
  <2>2. CASE ~(i <= L)
    <3>1. i \in (L + 1) .. (L + n)
      BY <1>1, <2>2
    <3>2. CASE cnt(i) = 0
      <4>1. L \in 1 .. L
        BY <1>1, <1>5, <3>1, <3>2
      <4> QED
        BY <1>5, <1>6, <3>1, <3>2, <4>1
    <3>3. CASE cnt(i) # 0
      BY <1>5, <3>1, <3>3, FreshFacts
    <3> QED
      BY <3>2, <3>3
  <2> QED
    BY <2>1, <2>2
<1>8. t \in Seq(Blocks) /\ Len(t) = L + n
  <2>1. t \in [1 .. (L + n) -> Blocks]
    BY <1>2, <1>7
  <2> QED
    BY <1>1, <2>1
<1>9. \A i \in (L + 1) .. (L + n) : b[i] = cnt(i)
  OBVIOUS
<1> HIDE DEF b
<1>10. \A i \in (L + 1) .. (L + n) :
               /\ b[i] \in Nat /\ BlockNo(i) + 1 = BlocksUpTo(L) + b[i]
               /\ b[i] = 0 => L # 0 /\ t[i] = s[L]
               /\ b[i] # 0 => t[i] \in Free
               /\ \A k \in (L + 1) .. (L + n) :
                     b[i] # 0 /\ b[k] # 0 /\ t[i] = t[k] => b[i] = b[k]
               /\ \A k \in (L + 1) .. (L + n) : b[i] = b[k] => t[i] = t[k]
  BY <1>5, <1>9, FreshFacts
<1>11. \E f : \A i \in (L + 1) .. (L + n) :
               /\ f[i] \in Nat /\ BlockNo(i) + 1 = BlocksUpTo(L) + f[i]
               /\ f[i] = 0 => L # 0 /\ t[i] = s[L]
               /\ f[i] # 0 => t[i] \in Free
               /\ \A k \in (L + 1) .. (L + n) :
                     f[i] # 0 /\ f[k] # 0 /\ t[i] = t[k] => f[i] = f[k]
               /\ \A k \in (L + 1) .. (L + n) : f[i] = f[k] => t[i] = t[k]
  BY <1>10
<1> QED
  BY <1>6, <1>8, <1>11 DEF L, t
-----------------------------------------------------------------------------
(* The contexts *)

\* The runner has allocated for job j in this iteration.
Allocated(j) ==
    pc \in {"allocate", "down"} /\ j \in ToSet(running) \ ToSet(todo)

CtxRec == [parent : Contexts \cup {None}, slots : Seq(Blocks), tokens : Nat,
           hidden : BOOLEAN]

CtxTypes ==
    /\ DOMAIN ctxs \subseteq Contexts /\ ctxs \in [DOMAIN ctxs -> CtxRec]
    /\ genLength \in [Jobs -> Nat]

\* A posted job has its context until nobody needs it, every context was bound
\* by a posted job, and its parent is there.
Bound ==
    /\ \A j \in Active \cup done : Ctx[j] \in DOMAIN ctxs \/ Unneeded(Ctx[j])
    /\ \A c \in DOMAIN ctxs :
          /\ \E j \in Active \cup done : Ctx[j] = c /\ ctxs[c].parent = ParentCtx[j]
          /\ ctxs[c].parent # None => ctxs[c].parent \in DOMAIN ctxs

\* The tokens of a generation are those of its context, and below the limit
\* unless the last check_stop ended it or the first iteration is under way.
GenCounts ==
    \A j \in Gens :
       /\ Ctx[j] \in DOMAIN ctxs =>
             ctxs[Ctx[j]].tokens = genLength[j] /\ ~ctxs[Ctx[j]].hidden
       /\ j \notin Active \cup done => genLength[j] = 0
       /\ j \in Active => \/ genLength[j] = 0 \/ genLength[j] < MaxGenLength[j]
                          \/ Allocated(j) /\ genLength[j] = 1
       /\ j \in done => \/ genLength[j] <= MaxGenLength[j]
                        \/ genLength[j] <= 2 /\ MaxGenLength[j] <= 1

\* A fill that has run left its tokens and a hidden state in its context.
FillCounts ==
    \A i \in Jobs \ Gens : Ctx[i] \in DOMAIN ctxs =>
       /\ i \in done => ctxs[Ctx[i]].hidden
       /\ i \in done \/ Allocated(i) => ctxs[Ctx[i]].tokens >= FillLen[i]

CtxInv == CtxTypes /\ Bound /\ GenCounts /\ FillCounts

\* get_last_hidden_state, one step of its recursion.  That the recursion has a
\* value needs the parents to be there: the contexts with a hidden state are
\* the union of the sets that are closed under it.
LEMMA HiddenUnfold ==
  ASSUME CtxTypes, Bound, NEW c \in DOMAIN ctxs
  PROVE  LastHidden(c) <=> IF ctxs[c].tokens > 0 THEN ctxs[c].hidden
                           ELSE ctxs[c].parent # None /\ LastHidden(ctxs[c].parent)
<1> DEFINE D == DOMAIN ctxs
           own(d) == ctxs[d].tokens > 0 /\ ctxs[d].hidden
           passes(d) == ~(ctxs[d].tokens > 0) /\ ctxs[d].parent # None
           G(h) == [d \in D |-> IF ctxs[d].tokens > 0 THEN ctxs[d].hidden
                                ELSE ctxs[d].parent # None /\ h[ctxs[d].parent]]
           h0 == CHOOSE h : h = G(h)
           closed == {S \in SUBSET D :
                        \A d \in S : own(d) \/ (passes(d) /\ ctxs[d].parent \in S)}
           T == UNION closed
           g == [d \in D |-> IF d \in T THEN TRUE ELSE FALSE]
<1>1. \A d \in D : /\ ctxs[d].hidden \in BOOLEAN
                   /\ ctxs[d].parent # None => ctxs[d].parent \in D
  BY DEF CtxTypes, CtxRec, Bound
<1>2. LastHidden(c) = h0[c]
  BY DEF LastHidden
<1> HIDE DEF own, passes
<1>3. \A d \in T : own(d) \/ (passes(d) /\ ctxs[d].parent \in T)
  OBVIOUS
<1>4. T \subseteq D
  OBVIOUS
<1>5. ASSUME NEW d \in D, own(d) \/ (passes(d) /\ ctxs[d].parent \in T)
      PROVE  d \in T
  <2> DEFINE S == T \cup {d}
  <2>1. S \in closed
    BY <1>3, <1>4, <1>5
  <2> QED
    BY <2>1
<1> HIDE DEF T, closed
<1>6. \A d \in D : d \in T <=> own(d) \/ (passes(d) /\ ctxs[d].parent \in T)
  BY <1>3, <1>5
<1>7. ASSUME NEW d \in D
      PROVE  g[d] = IF ctxs[d].tokens > 0 THEN ctxs[d].hidden
                    ELSE ctxs[d].parent # None /\ g[ctxs[d].parent]
  <2>1. \A e \in D : g[e] = IF e \in T THEN TRUE ELSE FALSE
    OBVIOUS
  <2> HIDE DEF g
  <2>2. CASE ctxs[d].tokens > 0 /\ ctxs[d].hidden = TRUE
    <3>1. own(d)
      BY <2>2, Zenon DEF own
    <3>2. d \in T
      BY <1>6, <1>7, <3>1
    <3> QED
      BY <1>7, <2>1, <2>2, <3>2, Zenon
  <2>3. CASE ctxs[d].tokens > 0 /\ ctxs[d].hidden = FALSE
    <3>1. d \notin T
      BY <1>6, <1>7, <2>3 DEF own, passes
    <3> QED
      BY <1>7, <2>1, <2>3, <3>1, Zenon
  <2>4. CASE ~(ctxs[d].tokens > 0) /\ ctxs[d].parent = None
    <3>1. d \notin T
      BY <1>6, <1>7, <2>4 DEF own, passes
    <3> QED
      BY <1>7, <2>1, <2>4, <3>1, Zenon
  <2>5. CASE ~(ctxs[d].tokens > 0) /\ ctxs[d].parent # None
    <3>1. d \in T <=> ctxs[d].parent \in T
      BY <1>6, <1>7, <2>5 DEF own, passes
    <3>2. ctxs[d].parent \in D
      BY <1>1, <1>7, <2>5
    <3>3. g[d] = g[ctxs[d].parent] /\ g[d] \in BOOLEAN
      BY <1>7, <2>1, <3>1, <3>2
    <3> QED
      BY <2>5, <3>3, Zenon
  <2> QED
    BY <1>1, <1>7, <2>2, <2>3, <2>4, <2>5
<1>8. g = G(g)
  BY <1>7
<1> HIDE DEF g, G
<1>9. h0 = G(h0)
  BY <1>8
<1> HIDE DEF h0
<1>10. h0[c] = IF ctxs[c].tokens > 0 THEN ctxs[c].hidden
               ELSE ctxs[c].parent # None /\ h0[ctxs[c].parent]
  BY <1>9 DEF G
<1>11. \A d : LastHidden(d) = h0[d]
  BY DEF LastHidden, h0, G
<1> QED
  BY <1>1, <1>10, <1>11

LEMMA CtxInit == Init => CtxInv
<1> SUFFICES ASSUME Init PROVE CtxInv
  OBVIOUS
<1>1. /\ DOMAIN ctxs = {} /\ ctxs = NoEntry /\ done = {} /\ waiting = <<>>
      /\ running = <<>> /\ genLength = [j \in Jobs |-> 0]
  BY DEF Init, NoEntry
<1>2. Active = {}
  BY <1>1 DEF Active, ToSet
<1>3. CtxTypes
  BY <1>1 DEF CtxTypes, NoEntry
<1>4. Bound /\ FillCounts
  BY <1>1, <1>2 DEF Bound, FillCounts
<1>5. GenCounts
  <2>1. \A j \in Gens : genLength[j] = 0
    BY <1>1, EngineAssumption
  <2> QED
    BY <1>1, <1>2, <2>1 DEF GenCounts
<1> QED
  BY <1>3, <1>4, <1>5 DEF CtxInv

\* A step that moves jobs between the queues only.
Quiet ==
    /\ UNCHANGED <<ctxs, genLength, done>>
    /\ Active' = Active
    /\ \A j \in Jobs : Allocated(j)' <=> Allocated(j)

LEMMA QuietSteps ==
  ASSUME BatchInv,
         \/ StartIter \/ Admit \/ AdmitEnds \/ Preempt \/ AllocateRaises
         \/ UNCHANGED vars
  PROVE  Quiet
<1>1. CASE StartIter
  <2>1. UNCHANGED <<ctxs, genLength, done, queues>> /\ pc = "idle" /\ pc' = "admit"
    BY <1>1 DEF StartIter
  <2> QED
    BY <2>1 DEF Quiet, Active, Allocated, queues
<1>2. CASE Admit
  <2>1. UNCHANGED <<ctxs, genLength, done>> /\ pc = "admit" /\ pc' = "admit"
    BY <1>2 DEF Admit
  <2>2. Active' = Active
    BY <1>2, AdmitKeepsBatch
  <2> QED
    BY <2>1, <2>2 DEF Quiet, Allocated
<1>3. CASE AdmitEnds
  <2>1. UNCHANGED <<ctxs, genLength, done, waiting, running>> /\ pc = "admit"
    BY <1>3 DEF AdmitEnds, queues
  <2>2. Active' = Active /\ \A j : ~Allocated(j)
    BY <2>1 DEF Active, Allocated
  <2>3. CASE policy = "fifo"
    <3>1. pc' = "preempt"
      BY <1>3, <2>3 DEF AdmitEnds
    <3> QED
      BY <2>1, <2>2, <3>1 DEF Quiet, Allocated
  <2>4. CASE policy # "fifo"
    <3>1. todo' = FillsFirst(running)
      BY <1>3, <2>4 DEF AdmitEnds
    <3>2. ToSet(todo') = ToSet(running)
      BY <3>1, FillsFirstFacts DEF BatchInv, QueueTypes, Placement
    <3> QED
      BY <2>1, <2>2, <3>2 DEF Quiet, Allocated
  <2> QED
    BY <2>3, <2>4
<1>4. CASE Preempt
  <2>1. UNCHANGED <<ctxs, genLength, done>> /\ pc = "preempt"
    BY <1>4 DEF Preempt
  <2>2. Active' = Active /\ ToSet(todo') = ToSet(running')
    BY <1>4, PreemptKeepsBatch
  <2> QED
    BY <2>1, <2>2 DEF Quiet, Allocated
<1>5. CASE AllocateRaises
  <2>1. /\ UNCHANGED <<ctxs, genLength, done, waiting, running, todo>>
        /\ pc = "allocate" /\ pc' = "down"
    BY <1>5 DEF AllocateRaises, queues
  <2> QED
    BY <2>1 DEF Quiet, Active, Allocated
<1>6. CASE UNCHANGED vars
  <2>1. UNCHANGED <<ctxs, genLength, done, waiting, running, todo, pc>>
    BY <1>6 DEF vars, queues
  <2> QED
    BY <2>1 DEF Quiet, Active, Allocated
<1> QED
  BY <1>1, <1>2, <1>3, <1>4, <1>5, <1>6

LEMMA QuietKeepsCtx == CtxInv /\ Quiet => CtxInv'
<1> SUFFICES ASSUME CtxInv, Quiet PROVE CtxInv'
  OBVIOUS
<1>1. /\ UNCHANGED <<ctxs, genLength, done>> /\ Active' = Active
      /\ \A j \in Jobs : Allocated(j)' <=> Allocated(j)
  BY DEF Quiet
<1>2. CtxTypes'
  BY <1>1 DEF CtxInv, CtxTypes
<1>3. \A c : Unneeded(c)' <=> Unneeded(c)
  BY <1>1 DEF Unneeded
<1>4. Bound'
  BY <1>1, <1>3 DEF CtxInv, Bound
<1>5. GenCounts'
  <2>1. Gens \subseteq Jobs
    BY EngineAssumption
  <2> QED
    BY <1>1, <2>1 DEF CtxInv, GenCounts
<1>6. FillCounts'
  BY <1>1 DEF CtxInv, FillCounts
<1> QED
  BY <1>2, <1>4, <1>5, <1>6 DEF CtxInv

LEMMA FreeContextKeepsCtx ==
  ASSUME BatchInv, CtxInv, NEW k \in Jobs, FreeContext(Ctx[k])
  PROVE  CtxInv'
<1> DEFINE f == Ctx[k]
<1>1. /\ Unneeded(f) /\ ctxs' = Drop(ctxs, {f}) /\ pc = "idle" /\ pc' = pc
      /\ \A d \in DOMAIN ctxs : ctxs[d].parent # f
      /\ UNCHANGED <<waiting, running, genLength, done>>
  BY DEF FreeContext, queues
<1> HIDE DEF f
<1>2. /\ DOMAIN ctxs' = DOMAIN ctxs \ {f}
      /\ \A c \in DOMAIN ctxs' : c \in DOMAIN ctxs /\ ctxs'[c] = ctxs[c]
      /\ ctxs' = [c \in DOMAIN ctxs' |-> ctxs[c]]
  BY <1>1 DEF Drop
<1>3. Active' = Active /\ \A j : (Unneeded(j)' <=> Unneeded(j)) /\ ~Allocated(j)'
  BY <1>1 DEF Active, Unneeded, Allocated
<1>4. CtxTypes'
  BY <1>1, <1>2 DEF CtxInv, CtxTypes
<1>5. Bound'
  <2>1. \A j \in Active \cup done : Ctx[j] \in DOMAIN ctxs' \/ Unneeded(Ctx[j])
    BY <1>1, <1>2 DEF CtxInv, Bound
  <2>2. ASSUME NEW c \in DOMAIN ctxs'
        PROVE  /\ \E j \in Active \cup done :
                     Ctx[j] = c /\ ctxs'[c].parent = ParentCtx[j]
               /\ ctxs'[c].parent # None => ctxs'[c].parent \in DOMAIN ctxs'
    <3>1. c \in DOMAIN ctxs /\ ctxs'[c] = ctxs[c]
      BY <1>2, <2>2
    <3>2. /\ \E j \in Active \cup done : Ctx[j] = c /\ ctxs[c].parent = ParentCtx[j]
          /\ ctxs[c].parent # None => ctxs[c].parent \in DOMAIN ctxs
      BY <3>1 DEF CtxInv, Bound
    <3>3. ctxs[c].parent # f
      BY <1>1, <3>1
    <3> QED
      BY <1>2, <3>1, <3>2, <3>3
  <2> QED
    BY <1>1, <1>3, <2>1, <2>2 DEF Bound
<1>6. GenCounts'
  <2>1. \A j : ~Allocated(j)
    BY <1>1 DEF Allocated
  <2> QED
    BY <1>1, <1>2, <1>3, <2>1 DEF CtxInv, GenCounts
<1>7. FillCounts'
  BY <1>1, <1>2, <1>3 DEF CtxInv, FillCounts
<1> QED
  BY <1>4, <1>5, <1>6, <1>7 DEF CtxInv

\* What posting job j does to the contexts.
BindEffect(j) ==
    \/ Ctx[j] \in DOMAIN ctxs /\ ctxs' = ctxs
    \/ /\ \A i \in Active \cup done : Ctx[i] # Ctx[j]
       /\ Ctx[j] \notin DOMAIN ctxs /\ ParentCtx[j] # Ctx[j]
       /\ ParentCtx[j] # None => ParentCtx[j] \in DOMAIN ctxs
       /\ DOMAIN ctxs' = DOMAIN ctxs \cup {Ctx[j]}
       /\ ctxs' = [c \in DOMAIN ctxs' |-> ctxs'[c]]
       /\ ctxs'[Ctx[j]] = [parent |-> ParentCtx[j], slots |-> <<>>,
                           tokens |-> 0, hidden |-> FALSE]
       /\ \A c \in DOMAIN ctxs : ctxs'[c] =
             IF c = ParentCtx[j] THEN [ctxs[c] EXCEPT !.slots = Pad(@)] ELSE ctxs[c]

LEMMA BindFacts ==
  ASSUME BatchInv, CtxInv, NEW j \in Jobs, AddJob(j)
  PROVE  BindEffect(j)
<1>1. Preceding(j) \subseteq done /\ j \notin done /\ ctxs' = BindJobContext(j)
  BY DEF AddJob, Postable, Posted
<1>2. CASE Ctx[j] \in DOMAIN ctxs
  BY <1>1, <1>2 DEF BindJobContext, BindEffect
<1>3. CASE Ctx[j] \notin DOMAIN ctxs
  <2> DEFINE p == ParentCtx[j]
             padded == IF p = None THEN ctxs ELSE [ctxs EXCEPT ![p].slots = Pad(@)]
             new == [parent |-> p, slots |-> <<>>, tokens |-> 0, hidden |-> FALSE]
  <2>1. ctxs' = Put(padded, Ctx[j], new)
    BY <1>1, <1>3 DEF BindJobContext
  <2>2. \A i \in Active \cup done : Ctx[i] # Ctx[j]
    BY <1>1, <1>3 DEF CtxInv, Bound, Unneeded
  <2>3. p # None => p \in DOMAIN ctxs
    <3> SUFFICES ASSUME p # None PROVE p \in DOMAIN ctxs
      OBVIOUS
    <3>1. PICK i \in Jobs : Ctx[i] = p
      BY PlanAssumption DEF Contexts
    <3>2. i \in done
      BY <1>1, <3>1 DEF Preceding
    <3>3. ~Unneeded(p)
      BY <1>1 DEF Unneeded
    <3> QED
      BY <3>1, <3>2, <3>3 DEF CtxInv, Bound
  <2>4. p # Ctx[j]
    BY <1>3, <2>3, PlanAssumption
  <2>5. /\ DOMAIN padded = DOMAIN ctxs
        /\ \A c \in DOMAIN ctxs : padded[c] =
              IF c = p THEN [ctxs[c] EXCEPT !.slots = Pad(@)] ELSE ctxs[c]
    <3>1. CASE p = None
      <4>1. None \notin DOMAIN ctxs
        BY PlanAssumption DEF CtxInv, CtxTypes
      <4> QED
        BY <3>1, <4>1
    <3>2. CASE p # None
      BY <3>2
    <3> QED
      BY <3>1, <3>2
  <2> HIDE DEF padded
  <2>6. /\ DOMAIN ctxs' = DOMAIN ctxs \cup {Ctx[j]} /\ ctxs'[Ctx[j]] = new
        /\ \A c \in DOMAIN ctxs : ctxs'[c] = padded[c]
        /\ ctxs' = [c \in DOMAIN ctxs' |-> ctxs'[c]]
    BY <1>3, <2>1, <2>5 DEF Put
  <2>7. \A c \in DOMAIN ctxs : ctxs'[c] =
              IF c = p THEN [ctxs[c] EXCEPT !.slots = Pad(@)] ELSE ctxs[c]
    BY <2>5, <2>6
  <2> QED
    BY <1>3, <2>2, <2>3, <2>4, <2>6, <2>7 DEF BindEffect
<1> QED
  BY <1>2, <1>3

LEMMA AddJobKeepsCtx ==
  ASSUME BatchInv, CtxInv, NEW j \in Jobs, AddJob(j)
  PROVE  CtxInv'
<1>1. /\ UNCHANGED <<genLength, done>> /\ pc = "idle" /\ pc' = pc
      /\ Active' = Active \cup {j} /\ j \notin Active \cup done
  BY AddJobKeepsBatch DEF AddJob
<1>2. \A i : (Unneeded(i)' <=> Unneeded(i)) /\ ~Allocated(i) /\ ~Allocated(i)'
  BY <1>1 DEF Unneeded, Allocated
<1>3. BindEffect(j)
  BY BindFacts
<1>4. Gens \subseteq Jobs /\ \A g \in Gens, i \in Jobs : Ctx[i] = Ctx[g] => i = g
  BY EngineAssumption, PlanAssumption
<1>5. CtxTypes /\ Bound /\ GenCounts /\ FillCounts
  BY DEF CtxInv
<1>6. CASE Ctx[j] \in DOMAIN ctxs /\ ctxs' = ctxs
  <2>1. CtxTypes'
    BY <1>1, <1>5, <1>6 DEF CtxTypes
  <2>2. Bound'
    BY <1>1, <1>2, <1>5, <1>6 DEF Bound
  <2>3. GenCounts'
    BY <1>1, <1>2, <1>5, <1>6 DEF GenCounts
  <2>4. FillCounts'
    BY <1>1, <1>2, <1>5, <1>6 DEF FillCounts
  <2> QED
    BY <2>1, <2>2, <2>3, <2>4 DEF CtxInv
<1>7. CASE ~(Ctx[j] \in DOMAIN ctxs /\ ctxs' = ctxs)
  <2> DEFINE p == ParentCtx[j]
  <2>1. /\ \A i \in Active \cup done : Ctx[i] # Ctx[j]
        /\ Ctx[j] \notin DOMAIN ctxs /\ p # Ctx[j]
        /\ p # None => p \in DOMAIN ctxs
        /\ DOMAIN ctxs' = DOMAIN ctxs \cup {Ctx[j]}
        /\ ctxs' = [c \in DOMAIN ctxs' |-> ctxs'[c]]
        /\ ctxs'[Ctx[j]] = [parent |-> p, slots |-> <<>>,
                            tokens |-> 0, hidden |-> FALSE]
        /\ \A c \in DOMAIN ctxs : ctxs'[c] =
              IF c = p THEN [ctxs[c] EXCEPT !.slots = Pad(@)] ELSE ctxs[c]
    BY <1>3, <1>7 DEF BindEffect
  <2>2. ASSUME NEW c \in DOMAIN ctxs
        PROVE  /\ ctxs'[c] \in CtxRec /\ ctxs'[c].parent = ctxs[c].parent
               /\ ctxs'[c].tokens = ctxs[c].tokens /\ ctxs'[c].hidden = ctxs[c].hidden
    <3>1. ctxs[c] \in CtxRec
      BY <1>5 DEF CtxTypes
    <3>2. ctxs[c].slots \in Seq(Blocks)
      BY <3>1 DEF CtxRec
    <3>3. Pad(ctxs[c].slots) \in Seq(Blocks)
      BY <3>2, PadFacts
    <3> QED
      BY <2>1, <3>1, <3>3 DEF CtxRec
  <2>3. /\ ctxs'[Ctx[j]] \in CtxRec /\ ctxs'[Ctx[j]].parent = p
        /\ ctxs'[Ctx[j]].tokens = 0 /\ ctxs'[Ctx[j]].hidden = FALSE
    <3>1. p \in Contexts \cup {None} /\ <<>> \in Seq(Blocks)
      BY PlanAssumption
    <3> QED
      BY <2>1, <3>1 DEF CtxRec
  <2>4. CtxTypes'
    <3>1. \A c \in DOMAIN ctxs' : ctxs'[c] \in CtxRec
      BY <2>1, <2>2, <2>3
    <3>2. Ctx[j] \in Contexts
      BY PlanAssumption
    <3>3. ctxs' \in [DOMAIN ctxs' -> CtxRec]
      BY <2>1, <3>1
    <3> QED
      BY <1>1, <1>5, <2>1, <3>2, <3>3 DEF CtxTypes
  <2>5. Bound'
    <3>1. \A i \in (Active \cup done)' : Ctx[i] \in DOMAIN ctxs' \/ Unneeded(Ctx[i])
      BY <1>1, <1>5, <2>1 DEF Bound
    <3>2. ASSUME NEW c \in DOMAIN ctxs'
          PROVE  /\ \E i \in Active' \cup done' :
                       Ctx[i] = c /\ ctxs'[c].parent = ParentCtx[i]
                 /\ ctxs'[c].parent # None => ctxs'[c].parent \in DOMAIN ctxs'
      <4>1. CASE c = Ctx[j]
        BY <1>1, <2>1, <2>3, <4>1
      <4>2. CASE c # Ctx[j]
        BY <1>1, <1>5, <2>1, <2>2, <4>2 DEF Bound
      <4> QED
        BY <4>1, <4>2
    <3> QED
      BY <1>2, <3>1, <3>2 DEF Bound
  <2>6. GenCounts'
    <3>1. ASSUME NEW g \in Gens, Ctx[g] \in DOMAIN ctxs'
          PROVE  ctxs'[Ctx[g]].tokens = genLength'[g] /\ ~ctxs'[Ctx[g]].hidden
      <4>1. CASE g = j
        BY <1>1, <1>5, <2>3, <4>1 DEF GenCounts
      <4>2. CASE g # j
        <5>1. Ctx[g] \in DOMAIN ctxs
          BY <1>4, <2>1, <3>1, <4>2
        <5> QED
          BY <1>1, <1>5, <2>2, <5>1 DEF GenCounts
      <4> QED
        BY <4>1, <4>2
    <3> QED
      BY <1>1, <1>2, <1>5, <3>1 DEF GenCounts
  <2>7. FillCounts'
    <3> SUFFICES ASSUME NEW i \in Jobs \ Gens, Ctx[i] \in DOMAIN ctxs', i \in done
                 PROVE  ctxs'[Ctx[i]].hidden /\ ctxs'[Ctx[i]].tokens >= FillLen[i]
      BY <1>1, <1>2 DEF FillCounts
    <3>1. Ctx[i] \in DOMAIN ctxs
      BY <2>1
    <3> QED
      BY <1>5, <2>2, <3>1 DEF FillCounts
  <2> QED
    BY <2>4, <2>5, <2>6, <2>7 DEF CtxInv
<1> QED
  BY <1>6, <1>7

\* What allocating for job j does.
AllocateEffect(j) ==
    LET x == ctxs[Ctx[j]]
        y == ctxs'[Ctx[j]]
    IN  /\ j \in ToSet(running) /\ j \in Active /\ Ctx[j] \in DOMAIN ctxs
        /\ ~Allocated(j)
        /\ \A i \in Jobs : Allocated(i)' <=> (Allocated(i) \/ i = j)
        /\ Active' = Active /\ done' = done /\ DOMAIN ctxs' = DOMAIN ctxs
        /\ ctxs' = [c \in DOMAIN ctxs |-> ctxs'[c]]
        /\ \A c \in DOMAIN ctxs : c # Ctx[j] => ctxs'[c] = ctxs[c]
        /\ Cardinality(NewBlockAt(x.slots, Grow(j))) <= Cardinality(Free)
        /\ y \in CtxRec
        /\ y.parent = x.parent /\ y.slots = Extend(x.slots, Grow(j))
        /\ j \in Gens => /\ y.tokens = IF LastHidden(Ctx[j]) THEN x.tokens + 1
                                       ELSE x.tokens
                         /\ y.hidden = FALSE
                         /\ genLength' = IF LastHidden(Ctx[j])
                                         THEN [genLength EXCEPT ![j] = @ + 1]
                                         ELSE genLength
        /\ j \notin Gens => /\ y.tokens = x.tokens + FillLen[j]
                            /\ y.hidden = x.hidden /\ genLength' = genLength

LEMMA AllocateFacts ==
  ASSUME BatchInv, CtxInv, Allocate
  PROVE  \E j \in Jobs : AllocateEffect(j)
<1> DEFINE j == Head(todo)
           c == Ctx[j]
           x == ctxs[c]
           y == ctxs'[c]
<1>1. /\ pc = "allocate" /\ pc' = pc /\ todo # <<>> /\ todo' = Tail(todo)
      /\ UNCHANGED <<waiting, running, done>> /\ CanAllocate(j)
      /\ ctxs' = IF j \in Gens THEN FirstSampling(j) ELSE FillTokens(j)
      /\ genLength' = IF j \in Gens /\ LastHidden(Ctx[j])
                       THEN [genLength EXCEPT ![j] = @ + 1] ELSE genLength
  BY DEF Allocate, queues
<1>2. todo \in Seq(Jobs) /\ Distinct(todo) /\ ToSet(todo) \subseteq ToSet(running)
  BY DEF BatchInv, QueueTypes, TodoSound
<1>3. /\ j \in Jobs /\ j \notin ToSet(todo')
      /\ ToSet(todo) = ToSet(todo') \cup {j}
  BY <1>1, <1>2, TailFacts
<1> HIDE DEF j
<1>4. j \in ToSet(running) /\ j \in Active /\ ~Allocated(j)
  BY <1>2, <1>3 DEF Active, Allocated
<1>5. \A i \in Jobs : Allocated(i)' <=> (Allocated(i) \/ i = j)
  BY <1>1, <1>3, <1>4 DEF Allocated
<1>6. Active' = Active /\ done' = done
  BY <1>1 DEF Active
<1>7. c \in DOMAIN ctxs
  <2>1. j \notin done
    BY <1>4 DEF BatchInv, Placement
  <2>2. ~Unneeded(c)
    BY <1>3, <2>1 DEF Unneeded
  <2> QED
    BY <1>4, <2>2 DEF CtxInv, Bound
<1> HIDE DEF c
<1>8. x \in CtxRec
  BY <1>7 DEF CtxInv, CtxTypes
<1>9. /\ x.parent \in Contexts \cup {None} /\ x.slots \in Seq(Blocks) /\ x.tokens \in Nat
      /\ x.hidden \in BOOLEAN /\ Grow(j) \in Nat /\ FillLen[j] \in Nat
  BY <1>3, <1>8, EngineAssumption DEF CtxRec, Grow
<1>10. Cardinality(NewBlockAt(x.slots, Grow(j))) <= Cardinality(Free)
  BY <1>1 DEF CanAllocate, c
<1>11. Extend(x.slots, Grow(j)) \in Seq(Blocks)
  BY <1>9, <1>10, ExtendFacts
<1>12. CASE j \in Gens
  <2>1. ctxs' = [ctxs EXCEPT ![c].slots = Extend(@, 1),
                    ![c].tokens = IF LastHidden(c) THEN @ + 1 ELSE @,
                    ![c].hidden = FALSE]
    BY <1>1, <1>12 DEF FirstSampling, c
  <2>2. Grow(j) = 1
    BY <1>12 DEF Grow
  <2>3. /\ DOMAIN ctxs' = DOMAIN ctxs /\ ctxs' = [d \in DOMAIN ctxs |-> ctxs'[d]]
        /\ \A d \in DOMAIN ctxs : d # c => ctxs'[d] = ctxs[d]
    BY <2>1
  <2>4. y = [x EXCEPT !.slots = Extend(@, 1),
                      !.tokens = IF LastHidden(c) THEN @ + 1 ELSE @,
                      !.hidden = FALSE]
    BY <1>7, <2>1
  <2>5. PICK e : e = Extend(x.slots, 1)
    OBVIOUS
  <2>6. PICK t : t = IF LastHidden(c) THEN x.tokens + 1 ELSE x.tokens
    OBVIOUS
  <2>7. t \in Nat /\ e \in Seq(Blocks)
    BY <1>9, <1>11, <2>2, <2>5, <2>6
  <2>8. y = [x EXCEPT !.slots = e, !.tokens = t, !.hidden = FALSE]
    BY <1>8, <2>4, <2>5, <2>6 DEF CtxRec
  <2>9. /\ y \in CtxRec /\ y.parent = x.parent /\ y.slots = e /\ y.tokens = t
        /\ y.hidden = FALSE
    BY <1>8, <2>7, <2>8 DEF CtxRec
  <2>10. genLength' = IF LastHidden(Ctx[j])
                      THEN [genLength EXCEPT ![j] = @ + 1] ELSE genLength
    BY <1>1, <1>12
  <2>11. AllocateEffect(j)
    BY <1>4, <1>5, <1>6, <1>7, <1>10, <1>12, <2>2, <2>3, <2>5, <2>6, <2>9, <2>10
       DEF AllocateEffect, c
  <2> QED
    BY <1>3, <2>11
<1>13. CASE j \notin Gens
  <2>1. ctxs' = [ctxs EXCEPT ![c].slots = Extend(@, FillLen[j]),
                    ![c].tokens = @ + FillLen[j]]
    BY <1>1, <1>13 DEF FillTokens, c
  <2>2. Grow(j) = FillLen[j]
    BY <1>13 DEF Grow
  <2>3. /\ DOMAIN ctxs' = DOMAIN ctxs /\ ctxs' = [d \in DOMAIN ctxs |-> ctxs'[d]]
        /\ \A d \in DOMAIN ctxs : d # c => ctxs'[d] = ctxs[d]
    BY <2>1
  <2>4. y = [x EXCEPT !.slots = Extend(@, FillLen[j]), !.tokens = @ + FillLen[j]]
    BY <1>7, <2>1
  <2>5. PICK e : e = Extend(x.slots, FillLen[j])
    OBVIOUS
  <2>6. PICK t : t = x.tokens + FillLen[j]
    OBVIOUS
  <2>7. /\ t \in Nat /\ e \in Seq(Blocks)
        /\ y = [x EXCEPT !.slots = e, !.tokens = t]
    BY <1>8, <1>9, <1>11, <2>2, <2>4, <2>5, <2>6 DEF CtxRec
  <2>8. /\ y \in CtxRec /\ y.parent = x.parent /\ y.slots = e
        /\ y.tokens = t /\ y.hidden = x.hidden
    BY <1>8, <2>7 DEF CtxRec
  <2>9. genLength' = genLength
    BY <1>1, <1>13
  <2>10. AllocateEffect(j)
    BY <1>4, <1>5, <1>6, <1>7, <1>10, <1>13, <2>2, <2>3, <2>5, <2>6, <2>8, <2>9
       DEF AllocateEffect, c
  <2> QED
    BY <1>3, <2>10
<1> QED
  BY <1>12, <1>13

LEMMA AllocateKeepsCtx == BatchInv /\ CtxInv /\ Allocate => CtxInv'
<1> SUFFICES ASSUME BatchInv, CtxInv, Allocate PROVE CtxInv'
  OBVIOUS
<1>1. PICK j \in Jobs : AllocateEffect(j)
  BY AllocateFacts
<1> DEFINE x == ctxs[Ctx[j]]
           y == ctxs'[Ctx[j]]
<1>2. /\ j \in Active /\ Ctx[j] \in DOMAIN ctxs /\ ~Allocated(j)
      /\ \A i \in Jobs : Allocated(i)' <=> (Allocated(i) \/ i = j)
      /\ Active' = Active /\ done' = done /\ DOMAIN ctxs' = DOMAIN ctxs
      /\ ctxs' = [c \in DOMAIN ctxs |-> ctxs'[c]]
      /\ \A c \in DOMAIN ctxs : c # Ctx[j] => ctxs'[c] = ctxs[c]
      /\ y \in CtxRec /\ y.parent = x.parent
  BY <1>1 DEF AllocateEffect
<1>3. CtxTypes /\ Bound /\ GenCounts /\ FillCounts
  BY DEF CtxInv
<1>4. /\ Gens \subseteq Jobs /\ \A g \in Gens, i \in Jobs : Ctx[i] = Ctx[g] => i = g
      /\ FillLen \in [Jobs -> Nat] /\ MaxGenLength \in [Jobs -> Nat]
  BY EngineAssumption, PlanAssumption
<1>5. j \notin done
  BY <1>2 DEF BatchInv, Placement
<1>6. x.tokens \in Nat
  BY <1>2, <1>3 DEF CtxTypes, CtxRec
<1>7. genLength \in [Jobs -> Nat]
  BY <1>3 DEF CtxTypes
<1>8. \A c : Unneeded(c)' <=> Unneeded(c)
  BY <1>2 DEF Unneeded
<1>9. Bound'
  <2>1. \A c \in DOMAIN ctxs : ctxs'[c].parent = ctxs[c].parent
    BY <1>2
  <2> QED
    BY <1>2, <1>3, <1>8, <2>1 DEF Bound
<1>10. ctxs' \in [DOMAIN ctxs' -> CtxRec] /\ DOMAIN ctxs' \subseteq Contexts
  <2>1. \A c \in DOMAIN ctxs : ctxs'[c] \in CtxRec
    BY <1>2, <1>3 DEF CtxTypes
  <2> QED
    BY <1>2, <1>3, <2>1 DEF CtxTypes
<1>11. CASE j \in Gens
  <2>1. /\ y.tokens = IF LastHidden(Ctx[j]) THEN x.tokens + 1 ELSE x.tokens
        /\ y.hidden = FALSE
        /\ genLength' = IF LastHidden(Ctx[j])
                        THEN [genLength EXCEPT ![j] = @ + 1] ELSE genLength
    BY <1>1, <1>11 DEF AllocateEffect
  <2>2. x.tokens = genLength[j] /\ ~x.hidden
    BY <1>2, <1>3, <1>11 DEF GenCounts
  <2>3. LastHidden(Ctx[j]) => x.tokens = 0
    <3>1. LastHidden(Ctx[j]) /\ x.tokens > 0 => x.hidden
      BY <1>2, <1>3, HiddenUnfold
    <3> QED
      BY <1>6, <2>2, <3>1
  <2>4. genLength[j] = 0 \/ genLength[j] < MaxGenLength[j]
    BY <1>2, <1>3, <1>11 DEF GenCounts
  <2>5. /\ genLength' \in [Jobs -> Nat] /\ genLength'[j] = y.tokens
        /\ genLength'[j] <= 1 \/ genLength'[j] < MaxGenLength[j]
        /\ \A i \in Jobs : i # j => genLength'[i] = genLength[i]
    <3>1. CASE LastHidden(Ctx[j])
      BY <1>7, <2>1, <2>2, <2>3, <3>1
    <3>2. CASE ~LastHidden(Ctx[j])
      BY <1>7, <2>1, <2>2, <2>4, <3>2
    <3> QED
      BY <3>1, <3>2
  <2>6. CtxTypes'
    BY <1>10, <2>5 DEF CtxTypes
  <2>7. GenCounts'
    <3> SUFFICES ASSUME NEW g \in Gens
                 PROVE  /\ Ctx[g] \in DOMAIN ctxs' =>
                             /\ ctxs'[Ctx[g]].tokens = genLength'[g]
                             /\ ~ctxs'[Ctx[g]].hidden
                        /\ g \notin Active \cup done => genLength'[g] = 0
                        /\ g \in Active => \/ genLength'[g] = 0
                                           \/ genLength'[g] < MaxGenLength[g]
                                           \/ Allocated(g)' /\ genLength'[g] = 1
                        /\ g \in done => \/ genLength'[g] <= MaxGenLength[g]
                                         \/ genLength'[g] <= 2 /\ MaxGenLength[g] <= 1
      BY <1>2 DEF GenCounts
    <3>1. CASE g = j
      <4>1. genLength'[j] \in Nat
        BY <2>5
      <4>2. \/ genLength'[j] = 0 \/ genLength'[j] = 1
            \/ genLength'[j] < MaxGenLength[j]
        BY <2>5, <4>1
      <4>3. Allocated(j)'
        BY <1>2
      <4>4. y.tokens = genLength'[j] /\ ~y.hidden
        BY <2>1, <2>5
      <4> QED
        BY <1>2, <1>5, <3>1, <4>2, <4>3, <4>4
    <3>2. CASE g # j
      <4>1. Ctx[g] # Ctx[j] /\ g \in Jobs
        BY <1>4, <3>2
      <4>2. genLength'[g] = genLength[g] /\ (Allocated(g)' <=> Allocated(g))
        BY <1>2, <2>5, <3>2, <4>1
      <4>3. Ctx[g] \in DOMAIN ctxs => ctxs'[Ctx[g]] = ctxs[Ctx[g]]
        BY <1>2, <4>1
      <4> QED
        BY <1>2, <1>3, <4>2, <4>3 DEF GenCounts
    <3> QED
      BY <3>1, <3>2
  <2>8. FillCounts'
    <3>1. \A i \in Jobs \ Gens : Ctx[i] # Ctx[j] /\ i # j
      BY <1>4, <1>11
    <3> QED
      BY <1>2, <1>3, <3>1 DEF FillCounts
  <2> QED
    BY <1>9, <2>6, <2>7, <2>8 DEF CtxInv
<1>12. CASE j \notin Gens
  <2>1. y.tokens = x.tokens + FillLen[j] /\ y.hidden = x.hidden /\ genLength' = genLength
    BY <1>1, <1>12 DEF AllocateEffect
  <2>2. CtxTypes'
    BY <1>7, <1>10, <2>1 DEF CtxTypes
  <2>3. \A g \in Gens : Ctx[g] # Ctx[j] /\ g # j /\ g \in Jobs
    BY <1>4, <1>12
  <2>4. GenCounts'
    BY <1>2, <1>3, <2>1, <2>3 DEF GenCounts
  <2>5. FillCounts'
    <3> SUFFICES ASSUME NEW i \in Jobs \ Gens, Ctx[i] \in DOMAIN ctxs
                 PROVE  /\ i \in done => ctxs'[Ctx[i]].hidden
                        /\ i \in done \/ Allocated(i)'
                              => ctxs'[Ctx[i]].tokens >= FillLen[i]
      BY <1>2 DEF FillCounts
    <3>1. /\ i \in done => ctxs[Ctx[i]].hidden
          /\ i \in done \/ Allocated(i) => ctxs[Ctx[i]].tokens >= FillLen[i]
      BY <1>3 DEF FillCounts
    <3>2. CASE Ctx[i] # Ctx[j]
      BY <1>2, <3>1, <3>2
    <3>3. CASE Ctx[i] = Ctx[j]
      <4>1. FillLen[i] \in Nat /\ FillLen[j] \in Nat
        BY <1>4
      <4>2. CASE i = j
        BY <1>5, <1>6, <2>1, <4>1, <4>2
      <4>3. CASE i # j
        <5>1. y.tokens >= x.tokens
          BY <1>6, <2>1, <4>1
        <5>2. Allocated(i)' => Allocated(i)
          BY <1>2, <4>3
        <5>3. i \in done \/ Allocated(i)' => y.tokens >= FillLen[i]
          BY <1>6, <2>1, <3>1, <3>3, <4>1, <5>2
        <5> QED
          BY <2>1, <3>1, <3>3, <5>3
      <4> QED
        BY <4>2, <4>3
    <3> QED
      BY <3>2, <3>3
  <2> QED
    BY <1>9, <2>2, <2>4, <2>5 DEF CtxInv
<1> QED
  BY <1>11, <1>12

\* The contexts after an iteration, in terms of the batch.
LEMMA RunModelContexts ==
  ASSUME QueueTypes, CtxTypes, NEW stops, RunModelEffect(stops)
  PROVE  /\ DOMAIN ctxs' = DOMAIN ctxs /\ ctxs' \in [DOMAIN ctxs -> CtxRec]
         /\ \A c \in DOMAIN ctxs :
               ctxs'[c].parent = ctxs[c].parent /\ ctxs'[c].slots = ctxs[c].slots
         /\ \A i \in Jobs \ Gens : Ctx[i] \in DOMAIN ctxs =>
               /\ ctxs'[Ctx[i]].tokens = ctxs[Ctx[i]].tokens
               /\ i \in ToSet(running) \/ ctxs[Ctx[i]].hidden => ctxs'[Ctx[i]].hidden
         /\ \A g \in Gens : Ctx[g] \in DOMAIN ctxs =>
               /\ ctxs'[Ctx[g]].hidden = ctxs[Ctx[g]].hidden
               /\ ctxs'[Ctx[g]].tokens = IF g \in ToSet(running)
                                         THEN ctxs[Ctx[g]].tokens + 1
                                         ELSE ctxs[Ctx[g]].tokens
<1> DEFINE batch == ToSet(running)
           filled(c) == \E j \in batch \ Gens : Ctx[j] = c
           sampled(c) == \E j \in batch \cap Gens : Ctx[j] = c
<1>1. ctxs' = [c \in DOMAIN ctxs |->
               IF filled(c) THEN [ctxs[c] EXCEPT !.hidden = TRUE]
               ELSE IF sampled(c) THEN [ctxs[c] EXCEPT !.tokens = @ + 1]
                    ELSE ctxs[c]]
  BY DEF RunModelEffect
<1>2. /\ Gens \subseteq Jobs /\ \A g \in Gens, i \in Jobs : Ctx[i] = Ctx[g] => i = g
  BY EngineAssumption, PlanAssumption
<1>3. batch \subseteq Jobs
  BY DEF QueueTypes, ToSet
<1>4. \A i \in Jobs \ Gens : ~sampled(Ctx[i]) /\ (i \in batch => filled(Ctx[i]))
  BY <1>2
<1>5. \A g \in Gens : ~filled(Ctx[g]) /\ (sampled(Ctx[g]) <=> g \in batch)
  BY <1>2, <1>3
<1> HIDE DEF filled, sampled, batch
<1>6. DOMAIN ctxs' = DOMAIN ctxs
  BY <1>1
<1>7. ASSUME NEW c \in DOMAIN ctxs
      PROVE  /\ ctxs'[c] \in CtxRec
             /\ ctxs'[c].parent = ctxs[c].parent /\ ctxs'[c].slots = ctxs[c].slots
             /\ filled(c) => ctxs'[c].hidden = TRUE /\ ctxs'[c].tokens = ctxs[c].tokens
             /\ ~filled(c) /\ sampled(c) => /\ ctxs'[c].hidden = ctxs[c].hidden
                                            /\ ctxs'[c].tokens = ctxs[c].tokens + 1
             /\ ~filled(c) /\ ~sampled(c) => ctxs'[c] = ctxs[c]
  <2>1. ctxs[c] \in CtxRec
    BY DEF CtxTypes
  <2>2. CASE filled(c)
    <3>1. ctxs'[c] = [ctxs[c] EXCEPT !.hidden = TRUE]
      BY <1>1, <2>2
    <3> QED
      BY <2>1, <2>2, <3>1 DEF CtxRec
  <2>3. CASE ~filled(c) /\ sampled(c)
    <3>1. ctxs'[c] = [ctxs[c] EXCEPT !.tokens = @ + 1]
      BY <1>1, <2>3
    <3>2. PICK t : t = ctxs[c].tokens + 1
      OBVIOUS
    <3>3. t \in Nat /\ ctxs'[c] = [ctxs[c] EXCEPT !.tokens = t]
      BY <2>1, <3>1, <3>2 DEF CtxRec
    <3>4. /\ ctxs'[c] \in CtxRec /\ ctxs'[c].parent = ctxs[c].parent
          /\ ctxs'[c].slots = ctxs[c].slots /\ ctxs'[c].tokens = t
          /\ ctxs'[c].hidden = ctxs[c].hidden
      BY <2>1, <3>3 DEF CtxRec
    <3> QED
      BY <2>3, <3>2, <3>4
  <2>4. CASE ~filled(c) /\ ~sampled(c)
    <3>1. ctxs'[c] = ctxs[c]
      BY <1>1, <2>4
    <3> QED
      BY <2>1, <2>4, <3>1
  <2> QED
    BY <2>2, <2>3, <2>4
<1>8. ctxs' \in [DOMAIN ctxs -> CtxRec]
  BY <1>1, <1>7
<1>9. ASSUME NEW i \in Jobs \ Gens, Ctx[i] \in DOMAIN ctxs
      PROVE  /\ ctxs'[Ctx[i]].tokens = ctxs[Ctx[i]].tokens
             /\ i \in batch \/ ctxs[Ctx[i]].hidden => ctxs'[Ctx[i]].hidden
  BY <1>4, <1>7, <1>9
<1>10. ASSUME NEW g \in Gens, Ctx[g] \in DOMAIN ctxs
       PROVE  /\ ctxs'[Ctx[g]].hidden = ctxs[Ctx[g]].hidden
              /\ ctxs'[Ctx[g]].tokens = IF g \in batch THEN ctxs[Ctx[g]].tokens + 1
                                        ELSE ctxs[Ctx[g]].tokens
  BY <1>5, <1>7, <1>10
<1> QED
  BY <1>6, <1>7, <1>8, <1>9, <1>10 DEF batch

LEMMA RunModelKeepsCtx == BatchInv /\ CtxInv /\ RunModel => CtxInv'
<1> SUFFICES ASSUME BatchInv, CtxInv, RunModel PROVE CtxInv'
  OBVIOUS
<1> DEFINE batch == ToSet(running)
<1>1. PICK stops \in SUBSET (batch \cap Gens) : RunModelEffect(stops)
  BY RunModelJobs
<1> DEFINE finished == Finished(batch, stops)
<1>2. /\ finished \subseteq batch /\ batch \ finished \subseteq Gens
      /\ done' = done \cup finished /\ Active' = Active \ finished
      /\ genLength' = [j \in Jobs |-> IF j \in batch \cap Gens
                                      THEN genLength[j] + 1 ELSE genLength[j]]
  BY <1>1 DEF RunModelEffect
<1>3. \A g \in batch \cap Gens : g \notin finished => ~(genLength[g] + 1 >= MaxGenLength[g])
  BY DEF Finished, CheckStop
<1>4. QueueTypes /\ CtxTypes /\ Bound /\ GenCounts /\ FillCounts
  BY DEF BatchInv, CtxInv
<1>5. /\ DOMAIN ctxs' = DOMAIN ctxs /\ ctxs' \in [DOMAIN ctxs -> CtxRec]
      /\ \A c \in DOMAIN ctxs : ctxs'[c].parent = ctxs[c].parent
      /\ \A i \in Jobs \ Gens : Ctx[i] \in DOMAIN ctxs =>
               /\ ctxs'[Ctx[i]].tokens = ctxs[Ctx[i]].tokens
               /\ i \in batch \/ ctxs[Ctx[i]].hidden => ctxs'[Ctx[i]].hidden
      /\ \A g \in Gens : Ctx[g] \in DOMAIN ctxs =>
               /\ ctxs'[Ctx[g]].hidden = ctxs[Ctx[g]].hidden
               /\ ctxs'[Ctx[g]].tokens = IF g \in batch THEN ctxs[Ctx[g]].tokens + 1
                                         ELSE ctxs[Ctx[g]].tokens
  BY <1>1, <1>4, RunModelContexts
<1>6. batch \subseteq Jobs /\ batch \subseteq Active
  BY <1>4 DEF QueueTypes, ToSet, Active
<1>7. /\ \A i : Allocated(i) <=> i \in batch
      /\ \A i : ~Allocated(i)'
  BY DEF RunModel, Allocated, ToSet
<1>8. Gens \subseteq Jobs /\ FillLen \in [Jobs -> Nat] /\ MaxGenLength \in [Jobs -> Nat]
  BY EngineAssumption
<1> HIDE DEF finished, batch
<1>9. /\ genLength' \in [Jobs -> Nat]
      /\ \A g \in Gens : /\ genLength[g] \in Nat /\ MaxGenLength[g] \in Nat
                         /\ genLength'[g] = IF g \in batch THEN genLength[g] + 1
                                            ELSE genLength[g]
  BY <1>2, <1>4, <1>8 DEF CtxTypes
<1>10. CtxTypes'
  BY <1>4, <1>5, <1>9 DEF CtxTypes
<1>11. Active' \cup done' = Active \cup done
  BY <1>2, <1>6
<1>12. Bound'
  <2>1. \A c : Unneeded(c) => Unneeded(c)'
    BY <1>2 DEF Unneeded
  <2> QED
    BY <1>4, <1>5, <1>11, <2>1 DEF Bound
<1>13. GenCounts'
  <2> SUFFICES ASSUME NEW g \in Gens
               PROVE  /\ Ctx[g] \in DOMAIN ctxs' =>
                           /\ ctxs'[Ctx[g]].tokens = genLength'[g]
                           /\ ~ctxs'[Ctx[g]].hidden
                      /\ g \notin Active' \cup done' => genLength'[g] = 0
                      /\ g \in Active' => \/ genLength'[g] = 0
                                          \/ genLength'[g] < MaxGenLength[g]
                      /\ g \in done' => \/ genLength'[g] <= MaxGenLength[g]
                                        \/ genLength'[g] <= 2 /\ MaxGenLength[g] <= 1
    BY DEF GenCounts
  <2>1. /\ Ctx[g] \in DOMAIN ctxs =>
             ctxs[Ctx[g]].tokens = genLength[g] /\ ~ctxs[Ctx[g]].hidden
        /\ g \notin Active \cup done => genLength[g] = 0
        /\ g \in Active => \/ genLength[g] = 0 \/ genLength[g] < MaxGenLength[g]
                           \/ Allocated(g) /\ genLength[g] = 1
        /\ g \in done => \/ genLength[g] <= MaxGenLength[g]
                         \/ genLength[g] <= 2 /\ MaxGenLength[g] <= 1
    BY <1>4 DEF GenCounts
  <2>2. Ctx[g] \in DOMAIN ctxs' =>
           ctxs'[Ctx[g]].tokens = genLength'[g] /\ ~ctxs'[Ctx[g]].hidden
    BY <1>5, <1>9, <2>1
  <2>3. CASE g \in batch
    <3>1. g \in Active /\ g \notin done
      BY <1>6, <2>3 DEF BatchInv, Placement
    <3>2. \/ genLength[g] = 0 \/ genLength[g] < MaxGenLength[g] \/ genLength[g] = 1
      BY <2>1, <3>1
    <3>3. \/ genLength'[g] <= MaxGenLength[g]
          \/ genLength'[g] <= 2 /\ MaxGenLength[g] <= 1
      BY <1>9, <2>3, <3>2
    <3>4. g \notin finished => genLength'[g] < MaxGenLength[g]
      BY <1>3, <1>9, <2>3
    <3> QED
      BY <1>2, <1>11, <2>2, <3>1, <3>3, <3>4
  <2>4. CASE g \notin batch
    <3>1. genLength'[g] = genLength[g] /\ ~Allocated(g) /\ g \notin finished
      BY <1>2, <1>7, <1>9, <2>4
    <3> QED
      BY <1>2, <1>11, <2>1, <2>2, <3>1
  <2> QED
    BY <2>3, <2>4
<1>14. FillCounts'
  <2> SUFFICES ASSUME NEW i \in Jobs \ Gens, Ctx[i] \in DOMAIN ctxs, i \in done'
               PROVE  ctxs'[Ctx[i]].hidden /\ ctxs'[Ctx[i]].tokens >= FillLen[i]
    BY <1>5, <1>7 DEF FillCounts
  <2>1. i \in done \/ (i \in batch /\ Allocated(i))
    BY <1>2, <1>7
  <2>2. ctxs[Ctx[i]].tokens >= FillLen[i] /\ (i \in done => ctxs[Ctx[i]].hidden)
    BY <1>4, <2>1 DEF FillCounts
  <2> QED
    BY <1>5, <2>1, <2>2
<1> QED
  BY <1>10, <1>12, <1>13, <1>14 DEF CtxInv

LEMMA CtxStep == BatchInv /\ CtxInv /\ [Next]_vars => CtxInv'
<1> SUFFICES ASSUME BatchInv, CtxInv, [Next]_vars PROVE CtxInv'
  OBVIOUS
<1>1. ASSUME NEW j \in Jobs, AddJob(j) PROVE CtxInv'
  BY <1>1, AddJobKeepsCtx
<1>2. ASSUME NEW j \in Jobs, FreeContext(Ctx[j]) PROVE CtxInv'
  BY <1>2, FreeContextKeepsCtx
<1>3. CASE Iter \/ UNCHANGED vars
  BY <1>3, QuietSteps, QuietKeepsCtx, AllocateKeepsCtx, RunModelKeepsCtx DEF Iter
<1> QED
  BY <1>1, <1>2, <1>3 DEF Next

LEMMA LengthFromInv == CtxInv => GenLengthBounded
<1> SUFFICES ASSUME CtxInv, NEW j \in Gens
             PROVE  \/ genLength[j] <= MaxGenLength[j]
                    \/ genLength[j] <= 2 /\ MaxGenLength[j] <= 1
  BY DEF GenLengthBounded
<1>1. genLength[j] \in Nat /\ MaxGenLength[j] \in Nat
  BY EngineAssumption DEF CtxInv, CtxTypes
<1>2. \/ genLength[j] = 0 \/ genLength[j] < MaxGenLength[j] \/ genLength[j] = 1
      \/ genLength[j] <= MaxGenLength[j]
      \/ genLength[j] <= 2 /\ MaxGenLength[j] <= 1
  BY DEF CtxInv, GenCounts
<1> QED
  BY <1>1, <1>2

\* However often a generation is preempted and resumed, and whatever shares its
\* batches, it passes max_gen_length by one token at most, and only because its
\* first iteration puts two tokens before check_stop.
THEOREM GenLengthAlwaysBounded == Spec => []GenLengthBounded
<1> QED
  BY BatchInit, BatchStep, CtxInit, CtxStep, LengthFromInv, PTL DEF Spec

\* A context's own prompt has run before it: its parent is there and filled.
LEMMA ParentFilled ==
  ASSUME BatchInv, CtxInv, NEW c \in DOMAIN ctxs, ctxs[c].parent # None
  PROVE  /\ ctxs[c].parent \in DOMAIN ctxs
         /\ \A i \in Jobs : Ctx[i] = ctxs[c].parent => i \in done
<1>1. PICK j \in Active \cup done : Ctx[j] = c /\ ctxs[c].parent = ParentCtx[j]
  BY DEF CtxInv, Bound
<1>2. Preceding(j) \subseteq done
  BY DEF BatchInv, Placement
<1> QED
  BY <1>1, <1>2 DEF CtxInv, Bound, Preceding

LEMMA PromptLeavesHidden ==
  ASSUME PromptsFilled, BatchInv, CtxInv, NEW j \in Gens, Ctx[j] \in DOMAIN ctxs,
         ctxs[Ctx[j]].tokens = 0
  PROVE  LastHidden(Ctx[j])
<1> DEFINE c == Ctx[j]
           p == ctxs[c].parent
<1>1. PICK k \in Active \cup done : Ctx[k] = c /\ p = ParentCtx[k]
  BY DEF CtxInv, Bound
<1>2. k \in Jobs
  BY <1>1, OneJobPerContext DEF BatchInv, QueueTypes
<1>3. p = ParentCtx[j]
  BY <1>1, <1>2, PlanAssumption
<1>4. PICK i \in Jobs \ Gens : Ctx[i] = p /\ FillLen[i] > 0
  BY <1>3 DEF PromptsFilled
<1>5. p # None
  BY <1>4, PlanAssumption
<1>6. p \in DOMAIN ctxs /\ i \in done
  BY <1>4, <1>5, ParentFilled
<1>7. ctxs[p].hidden /\ ctxs[p].tokens >= FillLen[i]
  BY <1>4, <1>6 DEF CtxInv, FillCounts
<1>8. ctxs[p].tokens \in Nat /\ FillLen[i] \in Nat
  BY <1>6, EngineAssumption DEF CtxInv, CtxTypes, CtxRec
<1>9. ctxs[p].tokens > 0
  BY <1>4, <1>7, <1>8
<1>10. LastHidden(p)
  BY <1>6, <1>7, <1>9, HiddenUnfold DEF CtxInv
<1> QED
  BY <1>5, <1>10, HiddenUnfold DEF CtxInv

LEMMA FirstTokenFromInv ==
  ASSUME PromptsFilled, BatchInv, CtxInv
  PROVE  FirstTokenDefined
<1> SUFFICES ASSUME NEW j \in ToSet(todo) \cap Gens
             PROVE  ctxs[Ctx[j]].tokens > 0 \/ LastHidden(Ctx[j])
  BY DEF FirstTokenDefined
<1>1. j \in Active /\ j \in Jobs /\ j \notin done
  BY OneJobPerContext DEF BatchInv, TodoSound, Active, Placement
<1>2. Ctx[j] \in DOMAIN ctxs
  BY <1>1 DEF CtxInv, Bound, Unneeded
<1>3. ctxs[Ctx[j]].tokens \in Nat
  BY <1>2 DEF CtxInv, CtxTypes, CtxRec
<1>4. CASE ctxs[Ctx[j]].tokens = 0
  BY <1>2, <1>4, PromptLeavesHidden
<1> QED
  BY <1>3, <1>4

\* If the node before every output has a token, then every generation that is
\* about to run has a token to continue from, although others start from the
\* same prompt, in the same iteration or in others.
THEOREM FirstTokenAlwaysDefined == PromptsFilled => (Spec => []FirstTokenDefined)
<1> SUFFICES ASSUME PromptsFilled PROVE Spec => []FirstTokenDefined
  OBVIOUS
<1>1. BatchInv /\ CtxInv => FirstTokenDefined
  BY FirstTokenFromInv
<1> QED
  BY <1>1, BatchInit, BatchStep, CtxInit, CtxStep, PTL DEF Spec

-----------------------------------------------------------------------------
(* The KV cache *)

\* Two slots are in the same block iff their numbers say so.
Whole(s) == \A i, k \in DOMAIN s : s[i] = s[k] <=> BlockNo(i) = BlockNo(k)

BlocksOwned ==
    /\ \A c \in DOMAIN ctxs : Whole(ctxs[c].slots)
    /\ \A c, d \in DOMAIN ctxs :
          c # d => ToSet(ctxs[c].slots) \cap ToSet(ctxs[d].slots) = {}

GenCtxs == {Ctx[j] : j \in Gens}

\* A context that is filled has a slot for every token and, once its jobs have
\* run, perhaps the rest of the last block; when it is forked it has.
FillLens ==
    \A c \in DOMAIN ctxs \ GenCtxs :
       /\ \/ Len(ctxs[c].slots) = ctxs[c].tokens
          \/ /\ \A i \in Jobs : Ctx[i] = c => i \in done
             /\ Len(ctxs[c].slots) % BlockSize = 0
             /\ Len(ctxs[c].slots) < ctxs[c].tokens + BlockSize
       /\ (\E d \in DOMAIN ctxs : ctxs[d].parent = c)
             => Len(ctxs[c].slots) % BlockSize = 0

\* A generation lacks the slot of its last token until it is allocated.
GenLens ==
    \A j \in Gens : Ctx[j] \in DOMAIN ctxs =>
       Len(ctxs[Ctx[j]].slots) =
          IF Allocated(j) \/ genLength[j] = 0 THEN genLength[j]
          ELSE genLength[j] - 1

SlotsInv == BlocksOwned /\ FillLens /\ GenLens

\* The first slot of every block is among those destruction looks at.
LEMMA WholeBlocks ==
  ASSUME NEW A, NEW s \in Seq(A), Whole(s)
  PROVE  ToSet(s) = BlocksOf(s)
<1>1. BlocksOf(s) \subseteq ToSet(s)
  BY DEF BlocksOf, ToSet
<1>2. ASSUME NEW i \in DOMAIN s PROVE s[i] \in BlocksOf(s)
  <2> DEFINE m == i - 1
             q == m \div BlockSize
             r == m % BlockSize
             n == BlockSize * q + 1
  <2>1. i \in 1 .. Len(s) /\ m \in Nat /\ i = m + 1 /\ BlockSize \in Nat \ {0}
    <3>1. i \in 1 .. Len(s) /\ Len(s) \in Nat
      BY <1>2
    <3> QED
      BY <3>1, EngineAssumption
  <2> HIDE DEF m
  <2>2. q \in Nat /\ r \in 0 .. (BlockSize - 1) /\ m = BlockSize * q + r
    BY <2>1
  <2>3. BlockNo(i) = q
    BY <2>1 DEF BlockNo, m
  <2> HIDE DEF q, r
  <2>4. (BlockSize * q + 0) % BlockSize = 0 /\ (BlockSize * q + 0) \div BlockSize = q
    BY <2>1, <2>2, DivModUnique
  <2>5. BlockSize * q \in Nat
    BY <2>1, <2>2
  <2>6. n \in 1 .. Len(s) /\ n - 1 = BlockSize * q + 0
    BY <2>1, <2>2, <2>5
  <2>7. (n - 1) % BlockSize = 0 /\ BlockNo(n) = q
    BY <2>4, <2>6 DEF BlockNo
  <2> HIDE DEF n
  <2>8. n \in DOMAIN s
    BY <2>6
  <2>9. s[n] = s[i]
    BY <1>2, <2>3, <2>7, <2>8 DEF Whole
  <2> QED
    BY <2>7, <2>8, <2>9 DEF BlocksOf
<1> QED
  BY <1>1, <1>2 DEF ToSet

LEMMA PadWhole ==
  ASSUME NEW A, NEW s \in Seq(A), Whole(s)
  PROVE  Whole(Pad(s)) /\ ToSet(Pad(s)) \subseteq ToSet(s)
<1> DEFINE t == Pad(s)
           L == Len(s)
<1>1. /\ t \in Seq(A) /\ L \in Nat /\ DOMAIN s = 1 .. L
      /\ \A i \in 1 .. L : t[i] = s[i]
      /\ \A i \in (L + 1) .. Len(t) :
            t[i] = s[L] /\ L # 0 /\ BlockNo(i) = BlockNo(L)
  BY PadFacts
<1> HIDE DEF t, L
<1>2. ASSUME NEW i \in DOMAIN t
      PROVE  \E g \in DOMAIN s : t[i] = s[g] /\ BlockNo(i) = BlockNo(g)
  <2>1. i \in 1 .. Len(t) /\ Len(t) \in Nat
    BY <1>1, <1>2
  <2>2. CASE i <= L
    <3>1. i \in 1 .. L
      BY <1>1, <2>1, <2>2
    <3> QED
      BY <1>1, <3>1
  <2>3. CASE ~(i <= L)
    <3>1. i \in (L + 1) .. Len(t)
      BY <1>1, <2>1, <2>3
    <3>2. t[i] = s[L] /\ L # 0 /\ BlockNo(i) = BlockNo(L)
      BY <1>1, <3>1
    <3>3. L \in 1 .. L
      BY <1>1, <3>2
    <3> QED
      BY <1>1, <3>2, <3>3
  <2> QED
    BY <2>2, <2>3
<1>3. ToSet(t) \subseteq ToSet(s)
  BY <1>2 DEF ToSet
<1>4. ASSUME NEW i \in DOMAIN t, NEW k \in DOMAIN t
      PROVE  t[i] = t[k] <=> BlockNo(i) = BlockNo(k)
  <2>1. PICK g \in DOMAIN s : t[i] = s[g] /\ BlockNo(i) = BlockNo(g)
    BY <1>2, <1>4
  <2>2. PICK h \in DOMAIN s : t[k] = s[h] /\ BlockNo(k) = BlockNo(h)
    BY <1>2, <1>4
  <2>3. s[g] = s[h] <=> BlockNo(g) = BlockNo(h)
    BY DEF Whole
  <2> QED
    BY <2>1, <2>2, <2>3
<1>5. Whole(t)
  BY <1>4 DEF Whole
<1> QED
  BY <1>3, <1>5 DEF t

LEMMA ExtendWhole ==
  ASSUME NEW s \in Seq(Blocks), NEW n \in Nat, Whole(s), ToSet(s) \cap Free = {},
         Cardinality(NewBlockAt(s, n)) <= Cardinality(Free)
  PROVE  Whole(Extend(s, n)) /\ ToSet(Extend(s, n)) \subseteq ToSet(s) \cup Free
<1> DEFINE t == Extend(s, n)
           L == Len(s)
           old(i) == \E g \in DOMAIN s : t[i] = s[g] /\ BlockNo(i) = BlockNo(g)
<1>1. /\ t \in Seq(Blocks) /\ Len(t) = L + n /\ L \in Nat /\ DOMAIN s = 1 .. L
      /\ DOMAIN t = 1 .. (L + n) /\ \A i \in 1 .. L : t[i] = s[i]
  BY ExtendFacts
<1>2. PICK b : \A i \in (L + 1) .. (L + n) :
               /\ b[i] \in Nat /\ BlockNo(i) + 1 = BlocksUpTo(L) + b[i]
               /\ b[i] = 0 => L # 0 /\ t[i] = s[L]
               /\ b[i] # 0 => t[i] \in Free
               /\ \A k \in (L + 1) .. (L + n) :
                     b[i] # 0 /\ b[k] # 0 /\ t[i] = t[k] => b[i] = b[k]
               /\ \A k \in (L + 1) .. (L + n) : b[i] = b[k] => t[i] = t[k]
  BY ExtendFacts
<1> HIDE DEF t, L
<1> DEFINE new(i) == i \in (L + 1) .. (L + n) /\ b[i] # 0
<1>3. BlocksUpTo(L) \in Nat /\ \A i \in 1 .. (L + n) : BlockNo(i) \in Nat
  <2>1. BlocksUpTo(L) \in Nat
    BY <1>1, BlocksUpToNext
  <2>2. \A i \in 1 .. (L + n) : i \in Nat \ {0}
    BY <1>1
  <2> QED
    BY <2>1, <2>2, BlockSizeFacts
<1>4. ASSUME NEW g \in DOMAIN s PROVE BlockNo(g) < BlocksUpTo(L)
  <2>1. g \in 1 .. L /\ L # 0 /\ g - 1 \in Nat /\ L - 1 \in Nat /\ g - 1 <= L - 1
    BY <1>1, <1>4
  <2>2. BlockNo(g) <= BlockNo(L)
    <3>1. PICK x, y : x = g - 1 /\ y = L - 1
      OBVIOUS
    <3>2. x \in Nat /\ y \in Nat /\ x <= y /\ BlockSize \in Nat \ {0}
      BY <2>1, <3>1, EngineAssumption
    <3>3. x \div BlockSize <= y \div BlockSize
      BY <3>2, DivMonotone
    <3> QED
      BY <3>1, <3>3 DEF BlockNo
  <2>3. BlocksUpTo(L) = BlockNo(L) + 1 /\ BlockNo(g) \in Nat /\ BlockNo(L) \in Nat
    <3>1. g \in Nat \ {0} /\ L \in Nat \ {0}
      BY <1>1, <2>1
    <3>2. BlockNo(g) \in Nat /\ BlockNo(L) \in Nat
      BY <3>1, BlockSizeFacts
    <3> QED
      BY <2>1, <3>2 DEF BlocksUpTo
  <2> QED
    BY <2>2, <2>3
<1>5. ASSUME NEW i \in DOMAIN t PROVE old(i) \/ new(i)
  <2>1. i \in 1 .. (L + n)
    BY <1>1, <1>5
  <2>2. CASE i <= L
    <3>1. i \in 1 .. L
      BY <1>1, <2>1, <2>2
    <3> QED
      BY <1>1, <3>1
  <2>3. CASE ~(i <= L)
    <3>1. i \in (L + 1) .. (L + n)
      BY <1>1, <2>1, <2>3
    <3>2. CASE b[i] = 0
      <4>1. /\ L # 0 /\ t[i] = s[L] /\ BlockNo(i) + 1 = BlocksUpTo(L) + 0
        BY <1>2, <3>1, <3>2
      <4>2. BlocksUpTo(L) = BlockNo(L) + 1 /\ L \in 1 .. L
        BY <1>1, <4>1 DEF BlocksUpTo
      <4>3. BlockNo(L) \in Nat /\ BlockNo(i) \in Nat
        BY <1>1, <1>3, <2>1, <4>2, BlockSizeFacts
      <4>4. BlockNo(i) = BlockNo(L)
        BY <4>1, <4>2, <4>3
      <4> QED
        BY <1>1, <4>1, <4>2, <4>4
    <3> QED
      BY <3>1, <3>2
  <2> QED
    BY <2>2, <2>3
<1>6. ASSUME NEW i \in DOMAIN t, old(i)
      PROVE  t[i] \in ToSet(s) /\ t[i] \notin Free /\ BlockNo(i) < BlocksUpTo(L)
  <2>1. PICK g \in DOMAIN s : t[i] = s[g] /\ BlockNo(i) = BlockNo(g)
    BY <1>6
  <2>2. s[g] \in ToSet(s)
    BY DEF ToSet
  <2> QED
    BY <1>4, <2>1, <2>2
<1>7. ASSUME NEW i \in DOMAIN t, new(i)
      PROVE  t[i] \in Free /\ BlockNo(i) >= BlocksUpTo(L)
  <2>1. /\ t[i] \in Free /\ b[i] \in Nat /\ b[i] # 0
        /\ BlockNo(i) + 1 = BlocksUpTo(L) + b[i]
    BY <1>2, <1>7
  <2>2. BlockNo(i) \in Nat
    BY <1>1, <1>3, <1>7
  <2> QED
    BY <1>3, <2>1, <2>2
<1>8. ASSUME NEW i \in DOMAIN t, NEW k \in DOMAIN t
      PROVE  t[i] = t[k] <=> BlockNo(i) = BlockNo(k)
  <2>1. BlockNo(i) \in Nat /\ BlockNo(k) \in Nat
    BY <1>1, <1>3, <1>8
  <2>2. CASE old(i) /\ old(k)
    <3>1. PICK g \in DOMAIN s : t[i] = s[g] /\ BlockNo(i) = BlockNo(g)
      BY <2>2
    <3>2. PICK h \in DOMAIN s : t[k] = s[h] /\ BlockNo(k) = BlockNo(h)
      BY <2>2
    <3>3. s[g] = s[h] <=> BlockNo(g) = BlockNo(h)
      BY DEF Whole
    <3> QED
      BY <3>1, <3>2, <3>3
  <2>3. CASE new(i) /\ new(k)
    <3>1. /\ b[i] \in Nat /\ BlockNo(i) + 1 = BlocksUpTo(L) + b[i]
          /\ b[k] \in Nat /\ BlockNo(k) + 1 = BlocksUpTo(L) + b[k]
          /\ t[i] = t[k] <=> b[i] = b[k]
      BY <1>2, <2>3
    <3> QED
      BY <1>3, <2>1, <3>1
  <2> HIDE DEF old, new
  <2>4. CASE old(i) /\ new(k)
    <3>1. t[i] \notin Free /\ BlockNo(i) < BlocksUpTo(L)
      BY <1>6, <1>8, <2>4
    <3>2. t[k] \in Free /\ BlockNo(k) >= BlocksUpTo(L)
      BY <1>7, <1>8, <2>4
    <3> QED
      BY <1>3, <2>1, <3>1, <3>2
  <2>5. CASE new(i) /\ old(k)
    <3>1. t[k] \notin Free /\ BlockNo(k) < BlocksUpTo(L)
      BY <1>6, <1>8, <2>5
    <3>2. t[i] \in Free /\ BlockNo(i) >= BlocksUpTo(L)
      BY <1>7, <1>8, <2>5
    <3> QED
      BY <1>3, <2>1, <3>1, <3>2
  <2> QED
    BY <1>5, <1>8, <2>2, <2>3, <2>4, <2>5
<1>9. Whole(t)
  BY <1>8 DEF Whole
<1> HIDE DEF old, new
<1>10. ToSet(t) \subseteq ToSet(s) \cup Free
  BY <1>5, <1>6, <1>7 DEF ToSet
<1> QED
  BY <1>9, <1>10 DEF t

LEMMA SlotsInit == Init => SlotsInv
<1> SUFFICES ASSUME Init PROVE SlotsInv
  OBVIOUS
<1>1. DOMAIN ctxs = {}
  BY DEF Init, NoEntry
<1> QED
  BY <1>1 DEF SlotsInv, BlocksOwned, FillLens, GenLens

LEMMA QuietKeepsSlots == SlotsInv /\ Quiet => SlotsInv'
<1> SUFFICES ASSUME SlotsInv, Quiet PROVE SlotsInv'
  OBVIOUS
<1>1. /\ UNCHANGED <<ctxs, genLength, done>>
      /\ \A j \in Jobs : Allocated(j)' <=> Allocated(j)
  BY DEF Quiet
<1>2. BlocksOwned'
  BY <1>1 DEF SlotsInv, BlocksOwned
<1>3. FillLens'
  BY <1>1 DEF SlotsInv, FillLens
<1>4. GenLens'
  <2>1. Gens \subseteq Jobs
    BY EngineAssumption
  <2> QED
    BY <1>1, <2>1 DEF SlotsInv, GenLens
<1> QED
  BY <1>2, <1>3, <1>4 DEF SlotsInv

LEMMA FreeContextKeepsSlots ==
  ASSUME SlotsInv, NEW k \in Jobs, FreeContext(Ctx[k])
  PROVE  SlotsInv'
<1>1. /\ ctxs' = Drop(ctxs, {Ctx[k]}) /\ pc = "idle" /\ pc' = pc
      /\ UNCHANGED <<genLength, done>>
  BY DEF FreeContext
<1>2. \A c \in DOMAIN ctxs' : c \in DOMAIN ctxs /\ ctxs'[c] = ctxs[c]
  BY <1>1 DEF Drop
<1>3. \A j : ~Allocated(j) /\ ~Allocated(j)'
  BY <1>1 DEF Allocated
<1>4. BlocksOwned'
  BY <1>2 DEF SlotsInv, BlocksOwned
<1>5. FillLens'
  <2> SUFFICES ASSUME NEW c \in DOMAIN ctxs' \ GenCtxs
               PROVE  /\ \/ Len(ctxs[c].slots) = ctxs[c].tokens
                         \/ /\ \A i \in Jobs : Ctx[i] = c => i \in done
                            /\ Len(ctxs[c].slots) % BlockSize = 0
                            /\ Len(ctxs[c].slots) < ctxs[c].tokens + BlockSize
                      /\ (\E d \in DOMAIN ctxs : ctxs[d].parent = c)
                            => Len(ctxs[c].slots) % BlockSize = 0
    BY <1>1, <1>2 DEF FillLens, GenCtxs
  <2> QED
    BY <1>2 DEF SlotsInv, FillLens
<1>6. GenLens'
  BY <1>1, <1>2, <1>3 DEF SlotsInv, GenLens
<1> QED
  BY <1>4, <1>5, <1>6 DEF SlotsInv

LEMMA AddJobKeepsSlots ==
  ASSUME BatchInv, CtxInv, SlotsInv, NEW j \in Jobs, AddJob(j)
  PROVE  SlotsInv'
<1>1. /\ UNCHANGED <<genLength, done>> /\ pc = "idle" /\ pc' = pc
      /\ j \notin Active \cup done /\ Preceding(j) \subseteq done
  BY AddJobKeepsBatch DEF AddJob, Postable
<1>2. \A i : ~Allocated(i) /\ ~Allocated(i)'
  BY <1>1 DEF Allocated
<1>3. BindEffect(j)
  BY BindFacts
<1>4. BlocksOwned /\ FillLens /\ GenLens
  BY DEF SlotsInv
<1>5. /\ Gens \subseteq Jobs /\ None \notin Contexts
      /\ \A g \in Gens, i \in Jobs :
            ParentCtx[i] # Ctx[g] /\ (Ctx[i] = Ctx[g] => i = g)
  BY EngineAssumption, PlanAssumption
<1>6. CASE Ctx[j] \in DOMAIN ctxs /\ ctxs' = ctxs
  <2>1. BlocksOwned'
    BY <1>4, <1>6 DEF BlocksOwned
  <2>2. FillLens'
    BY <1>1, <1>4, <1>6 DEF FillLens
  <2>3. GenLens'
    BY <1>1, <1>2, <1>4, <1>6 DEF GenLens
  <2> QED
    BY <2>1, <2>2, <2>3 DEF SlotsInv
<1>7. CASE ~(Ctx[j] \in DOMAIN ctxs /\ ctxs' = ctxs)
  <2> DEFINE p == ParentCtx[j]
             sl(c) == ctxs[c].slots
             sp(c) == ctxs'[c].slots
  <2>1. /\ Ctx[j] \notin DOMAIN ctxs /\ p # Ctx[j] /\ (p # None => p \in DOMAIN ctxs)
        /\ DOMAIN ctxs' = DOMAIN ctxs \cup {Ctx[j]}
        /\ ctxs'[Ctx[j]] = [parent |-> p, slots |-> <<>>,
                            tokens |-> 0, hidden |-> FALSE]
        /\ \A c \in DOMAIN ctxs : ctxs'[c] =
              IF c = p THEN [ctxs[c] EXCEPT !.slots = Pad(@)] ELSE ctxs[c]
    BY <1>3, <1>7 DEF BindEffect
  <2>2. /\ sp(Ctx[j]) = <<>> /\ ctxs'[Ctx[j]].tokens = 0 /\ ctxs'[Ctx[j]].parent = p
        /\ Len(<<>>) = 0 /\ ToSet(<<>>) = {} /\ Whole(<<>>)
    BY <2>1 DEF ToSet, Whole
  <2>3. \A c \in DOMAIN ctxs : /\ ctxs[c] \in CtxRec /\ sl(c) \in Seq(Blocks)
                               /\ ctxs[c].tokens \in Nat /\ Len(sl(c)) \in Nat
    BY DEF CtxInv, CtxTypes, CtxRec
  <2>4. \A c \in DOMAIN ctxs : /\ ctxs'[c].parent = ctxs[c].parent
                               /\ ctxs'[c].tokens = ctxs[c].tokens
                               /\ sp(c) = IF c = p THEN Pad(sl(c)) ELSE sl(c)
    BY <2>1, <2>3 DEF CtxRec
  <2>5. \A c \in DOMAIN ctxs : Whole(sp(c)) /\ ToSet(sp(c)) \subseteq ToSet(sl(c))
    <3> SUFFICES ASSUME NEW c \in DOMAIN ctxs
                 PROVE  Whole(sp(c)) /\ ToSet(sp(c)) \subseteq ToSet(sl(c))
      OBVIOUS
    <3>1. Whole(sl(c)) /\ sl(c) \in Seq(Blocks)
      BY <1>4, <2>3 DEF BlocksOwned
    <3>2. Whole(Pad(sl(c))) /\ ToSet(Pad(sl(c))) \subseteq ToSet(sl(c))
      BY <3>1, PadWhole
    <3> QED
      BY <2>4, <3>1, <3>2
  <2>6. BlocksOwned'
    <3>1. \A c \in DOMAIN ctxs' : Whole(sp(c))
      BY <2>1, <2>2, <2>5
    <3>2. ASSUME NEW c \in DOMAIN ctxs', NEW d \in DOMAIN ctxs', c # d
          PROVE  ToSet(sp(c)) \cap ToSet(sp(d)) = {}
      <4>1. CASE c = Ctx[j] \/ d = Ctx[j]
        BY <2>2, <4>1
      <4>2. CASE c # Ctx[j] /\ d # Ctx[j]
        <5>1. c \in DOMAIN ctxs /\ d \in DOMAIN ctxs
          BY <2>1, <3>2, <4>2
        <5>2. ToSet(sl(c)) \cap ToSet(sl(d)) = {}
          BY <1>4, <3>2, <5>1 DEF BlocksOwned
        <5> QED
          BY <2>5, <5>1, <5>2
      <4> QED
        BY <4>1, <4>2
    <3> QED
      BY <3>1, <3>2 DEF BlocksOwned
  <2>7. FillLens'
    <3> SUFFICES ASSUME NEW c \in DOMAIN ctxs' \ GenCtxs
                 PROVE  /\ \/ Len(sp(c)) = ctxs'[c].tokens
                           \/ /\ \A i \in Jobs : Ctx[i] = c => i \in done
                              /\ Len(sp(c)) % BlockSize = 0
                              /\ Len(sp(c)) < ctxs'[c].tokens + BlockSize
                        /\ (\E d \in DOMAIN ctxs' : ctxs'[d].parent = c)
                              => Len(sp(c)) % BlockSize = 0
      BY <1>1 DEF FillLens, GenCtxs
    <3>1. CASE c = Ctx[j]
      <4>1. ASSUME NEW d \in DOMAIN ctxs' PROVE ctxs'[d].parent # c
        <5>1. CASE d = Ctx[j]
          BY <2>1, <2>2, <3>1, <5>1
        <5>2. CASE d # Ctx[j]
          <6>1. d \in DOMAIN ctxs /\ ctxs'[d].parent = ctxs[d].parent
            BY <2>1, <2>4, <4>1, <5>2
          <6>2. ctxs[d].parent # None => ctxs[d].parent \in DOMAIN ctxs
            BY <6>1 DEF CtxInv, Bound
          <6>3. Ctx[j] # None
            BY <1>5 DEF Contexts
          <6> QED
            BY <2>1, <3>1, <6>1, <6>2, <6>3
        <5> QED
          BY <5>1, <5>2
      <4> QED
        BY <2>2, <3>1, <4>1
    <3>2. CASE c # Ctx[j]
      <4>1. c \in DOMAIN ctxs \ GenCtxs
        BY <2>1, <3>2
      <4>2. /\ \/ Len(sl(c)) = ctxs[c].tokens
               \/ /\ \A i \in Jobs : Ctx[i] = c => i \in done
                  /\ Len(sl(c)) % BlockSize = 0
                  /\ Len(sl(c)) < ctxs[c].tokens + BlockSize
            /\ (\E d \in DOMAIN ctxs : ctxs[d].parent = c)
                  => Len(sl(c)) % BlockSize = 0
        BY <1>4, <4>1 DEF FillLens
      <4>3. CASE c = p
        <5>1. sp(c) = Pad(sl(c)) /\ ctxs'[c].tokens = ctxs[c].tokens
          BY <2>4, <4>1, <4>3
        <5>2. \A i \in Jobs : Ctx[i] = c => i \in done
          BY <1>1, <4>3 DEF Preceding
        <5>3. sl(c) \in Seq(Blocks)
          BY <2>3, <4>1
        <5>4. /\ Len(Pad(sl(c))) % BlockSize = 0
              /\ Len(Pad(sl(c))) < Len(sl(c)) + BlockSize
              /\ Len(sl(c)) % BlockSize = 0 => Pad(sl(c)) = sl(c)
          BY <5>3, PadFacts
        <5>5. Len(Pad(sl(c))) < ctxs[c].tokens + BlockSize
          <6>1. CASE Len(sl(c)) = ctxs[c].tokens
            BY <5>4, <6>1
          <6>2. CASE Len(sl(c)) # ctxs[c].tokens
            BY <4>2, <5>4, <6>2
          <6> QED
            BY <6>1, <6>2
        <5> QED
          BY <5>1, <5>2, <5>4, <5>5
      <4>4. CASE c # p
        <5>1. sp(c) = sl(c) /\ ctxs'[c].tokens = ctxs[c].tokens
          BY <2>4, <4>1, <4>4
        <5>2. ASSUME NEW d \in DOMAIN ctxs', ctxs'[d].parent = c
              PROVE  \E e \in DOMAIN ctxs : ctxs[e].parent = c
          <6>1. d # Ctx[j]
            BY <2>2, <4>4, <5>2
          <6>2. d \in DOMAIN ctxs
            BY <2>1, <5>2, <6>1
          <6> QED
            BY <2>4, <5>2, <6>2
        <5> QED
          BY <4>2, <5>1, <5>2
      <4> QED
        BY <4>3, <4>4
    <3> QED
      BY <3>1, <3>2
  <2>8. GenLens'
    <3> SUFFICES ASSUME NEW g \in Gens, Ctx[g] \in DOMAIN ctxs'
                 PROVE  Len(sp(Ctx[g])) = IF genLength[g] = 0 THEN genLength[g]
                                          ELSE genLength[g] - 1
      BY <1>1, <1>2 DEF GenLens
    <3>1. CASE g = j
      <4>1. genLength[g] = 0
        BY <1>1, <3>1 DEF CtxInv, GenCounts
      <4> QED
        BY <2>2, <3>1, <4>1
    <3>2. CASE g # j
      <4>1. Ctx[g] \in DOMAIN ctxs /\ Ctx[g] # p
        BY <1>5, <2>1, <3>2
      <4>2. sp(Ctx[g]) = sl(Ctx[g])
        BY <2>4, <4>1
      <4> QED
        BY <1>2, <1>4, <4>1, <4>2 DEF GenLens
    <3> QED
      BY <3>1, <3>2
  <2> QED
    BY <2>6, <2>7, <2>8 DEF SlotsInv
<1> QED
  BY <1>6, <1>7

\* The blocks of the contexts are used, all of them.
LEMMA SlotsAreUsed ==
  ASSUME CtxTypes, BlocksOwned, NEW c \in DOMAIN ctxs
  PROVE  ToSet(ctxs[c].slots) \cap Free = {}
<1>1. ctxs[c].slots \in Seq(Blocks) /\ Whole(ctxs[c].slots)
  BY DEF CtxTypes, CtxRec, BlocksOwned
<1>2. ToSet(ctxs[c].slots) = BlocksOf(ctxs[c].slots)
  BY <1>1, WholeBlocks
<1> QED
  BY <1>2 DEF Free, Used

LEMMA AllocateKeepsSlots ==
  ASSUME PromptsFilled, BatchInv, CtxInv, SlotsInv, Allocate
  PROVE  SlotsInv'
<1>1. PICK j \in Jobs : AllocateEffect(j)
  BY AllocateFacts
<1> DEFINE x == ctxs[Ctx[j]]
           y == ctxs'[Ctx[j]]
<1>2. /\ j \in Active /\ Ctx[j] \in DOMAIN ctxs /\ ~Allocated(j)
      /\ \A i \in Jobs : Allocated(i)' <=> (Allocated(i) \/ i = j)
      /\ done' = done /\ DOMAIN ctxs' = DOMAIN ctxs
      /\ \A c \in DOMAIN ctxs : c # Ctx[j] => ctxs'[c] = ctxs[c]
      /\ Cardinality(NewBlockAt(x.slots, Grow(j))) <= Cardinality(Free)
      /\ y.parent = x.parent /\ y.slots = Extend(x.slots, Grow(j))
  BY <1>1 DEF AllocateEffect
<1>3. BlocksOwned /\ FillLens /\ GenLens /\ CtxTypes /\ GenCounts
  BY DEF SlotsInv, CtxInv
<1>4. /\ Gens \subseteq Jobs /\ \A g \in Gens, i \in Jobs : Ctx[i] = Ctx[g] => i = g
      /\ FillLen \in [Jobs -> Nat]
  BY EngineAssumption, PlanAssumption
<1>5. j \notin done
  BY <1>2 DEF BatchInv, Placement
<1>6. /\ x.slots \in Seq(Blocks) /\ x.tokens \in Nat /\ Len(x.slots) \in Nat
      /\ Grow(j) \in Nat /\ FillLen[j] \in Nat
  BY <1>2, <1>3, <1>4 DEF CtxTypes, CtxRec, Grow
<1>7. Len(y.slots) = Len(x.slots) + Grow(j)
  BY <1>2, <1>6, ExtendFacts
<1>8. Whole(y.slots) /\ ToSet(y.slots) \subseteq ToSet(x.slots) \cup Free
  <2>1. Whole(x.slots) /\ ToSet(x.slots) \cap Free = {}
    BY <1>2, <1>3, SlotsAreUsed DEF BlocksOwned
  <2> QED
    BY <1>2, <1>6, <2>1, ExtendWhole
<1>9. BlocksOwned'
  <2>1. \A c \in DOMAIN ctxs : Whole(ctxs'[c].slots)
    BY <1>2, <1>3, <1>8 DEF BlocksOwned
  <2>2. \A c \in DOMAIN ctxs : c # Ctx[j] =>
            /\ ToSet(ctxs[c].slots) \cap ToSet(y.slots) = {}
            /\ ctxs'[c] = ctxs[c]
    <3> SUFFICES ASSUME NEW c \in DOMAIN ctxs, c # Ctx[j]
                 PROVE  ToSet(ctxs[c].slots) \cap ToSet(y.slots) = {}
      BY <1>2
    <3>1. ToSet(ctxs[c].slots) \cap ToSet(x.slots) = {}
      BY <1>2, <1>3 DEF BlocksOwned
    <3>2. ToSet(ctxs[c].slots) \cap Free = {}
      BY <1>3, SlotsAreUsed
    <3> QED
      BY <1>8, <3>1, <3>2
  <2>3. ASSUME NEW c \in DOMAIN ctxs, NEW d \in DOMAIN ctxs, c # d
        PROVE  ToSet(ctxs'[c].slots) \cap ToSet(ctxs'[d].slots) = {}
    <3>1. CASE c = Ctx[j]
      BY <2>2, <2>3, <3>1
    <3>2. CASE d = Ctx[j]
      BY <2>2, <2>3, <3>2
    <3>3. CASE c # Ctx[j] /\ d # Ctx[j]
      BY <1>3, <2>2, <2>3, <3>3 DEF BlocksOwned
    <3> QED
      BY <3>1, <3>2, <3>3
  <2> QED
    BY <1>2, <2>1, <2>3 DEF BlocksOwned
<1>10. \A c \in DOMAIN ctxs : ctxs'[c].parent = ctxs[c].parent
  BY <1>2
<1>11. FillLens'
  <2> SUFFICES ASSUME NEW c \in DOMAIN ctxs \ GenCtxs
               PROVE  /\ \/ Len(ctxs'[c].slots) = ctxs'[c].tokens
                         \/ /\ \A i \in Jobs : Ctx[i] = c => i \in done
                            /\ Len(ctxs'[c].slots) % BlockSize = 0
                            /\ Len(ctxs'[c].slots) < ctxs'[c].tokens + BlockSize
                      /\ (\E d \in DOMAIN ctxs : ctxs[d].parent = c)
                            => Len(ctxs'[c].slots) % BlockSize = 0
    BY <1>2, <1>10 DEF FillLens, GenCtxs
  <2>1. CASE c # Ctx[j]
    <3>1. ctxs'[c] = ctxs[c]
      BY <1>2, <2>1
    <3> QED
      BY <1>3, <3>1 DEF FillLens
  <2>2. CASE c = Ctx[j]
    <3>1. j \notin Gens
      BY <2>2 DEF GenCtxs
    <3>2. y.tokens = x.tokens + FillLen[j] /\ Grow(j) = FillLen[j]
      BY <1>1, <3>1 DEF AllocateEffect, Grow
    <3>3. Len(x.slots) = x.tokens
      BY <1>3, <1>5, <2>2 DEF FillLens
    <3>4. ASSUME NEW d \in DOMAIN ctxs, ctxs[d].parent = c PROVE FALSE
      <4>1. c # None
        BY <1>3, PlanAssumption DEF CtxTypes
      <4> QED
        BY <1>5, <2>2, <3>4, <4>1, ParentFilled
    <3> QED
      BY <1>6, <1>7, <2>2, <3>2, <3>3, <3>4
  <2> QED
    BY <2>1, <2>2
<1>12. GenLens'
  <2> SUFFICES ASSUME NEW g \in Gens, Ctx[g] \in DOMAIN ctxs
               PROVE  Len(ctxs'[Ctx[g]].slots) =
                         IF Allocated(g)' \/ genLength'[g] = 0 THEN genLength'[g]
                         ELSE genLength'[g] - 1
    BY <1>2 DEF GenLens
  <2>1. Len(ctxs[Ctx[g]].slots) = IF Allocated(g) \/ genLength[g] = 0 THEN genLength[g]
                                  ELSE genLength[g] - 1
    BY <1>3 DEF GenLens
  <2>2. genLength \in [Jobs -> Nat] /\ genLength[g] \in Nat
    BY <1>3, <1>4 DEF CtxTypes
  <2>3. CASE g # j
    <3>1. Ctx[g] # Ctx[j] /\ g \in Jobs
      BY <1>4, <2>3
    <3>2. genLength'[g] = genLength[g]
      <4>1. CASE j \in Gens
        <5>1. genLength' = IF LastHidden(Ctx[j])
                           THEN [genLength EXCEPT ![j] = @ + 1] ELSE genLength
          BY <1>1, <4>1 DEF AllocateEffect
        <5> QED
          BY <2>2, <2>3, <3>1, <5>1
      <4>2. CASE j \notin Gens
        BY <1>1, <4>2 DEF AllocateEffect
      <4> QED
        BY <4>1, <4>2
    <3>3. ctxs'[Ctx[g]] = ctxs[Ctx[g]] /\ (Allocated(g)' <=> Allocated(g))
      BY <1>2, <2>3, <3>1
    <3> QED
      BY <2>1, <3>2, <3>3
  <2>4. CASE g = j
    <3>1. /\ genLength' = IF LastHidden(Ctx[j])
                          THEN [genLength EXCEPT ![j] = @ + 1] ELSE genLength
          /\ Allocated(j)' /\ Grow(j) = 1
      BY <1>1, <1>2, <2>4 DEF AllocateEffect, Grow
    <3>2. x.tokens = genLength[j] /\ ~x.hidden
      BY <1>2, <1>3, <2>4 DEF GenCounts
    <3>3. CASE genLength[j] = 0
      <4>1. LastHidden(Ctx[j])
        BY <1>2, <2>4, <3>2, <3>3, PromptLeavesHidden
      <4>2. genLength'[j] = 1
        BY <2>2, <3>1, <3>3, <4>1
      <4> QED
        BY <1>2, <1>7, <2>1, <2>4, <3>1, <3>3, <4>2
    <3>4. CASE genLength[j] # 0
      <4>1. x.tokens > 0
        BY <2>2, <2>4, <3>2, <3>4
      <4>2. ~LastHidden(Ctx[j])
        BY <1>2, <3>2, <4>1, HiddenUnfold DEF CtxInv
      <4>3. genLength'[j] = genLength[j]
        BY <3>1, <4>2
      <4> QED
        BY <1>2, <1>7, <2>1, <2>2, <2>4, <3>1, <3>4, <4>3
    <3> QED
      BY <3>3, <3>4
  <2> QED
    BY <2>3, <2>4
<1> QED
  BY <1>9, <1>11, <1>12 DEF SlotsInv

LEMMA RunModelKeepsSlots == BatchInv /\ CtxInv /\ SlotsInv /\ RunModel => SlotsInv'
<1> SUFFICES ASSUME BatchInv, CtxInv, SlotsInv, RunModel PROVE SlotsInv'
  OBVIOUS
<1> DEFINE batch == ToSet(running)
<1>1. PICK stops \in SUBSET (batch \cap Gens) : RunModelEffect(stops)
  BY RunModelJobs
<1>2. /\ done \subseteq done'
      /\ genLength' = [j \in Jobs |-> IF j \in batch \cap Gens
                                      THEN genLength[j] + 1 ELSE genLength[j]]
  BY <1>1 DEF RunModelEffect
<1>3. QueueTypes /\ CtxTypes /\ BlocksOwned /\ FillLens /\ GenLens
  BY DEF BatchInv, CtxInv, SlotsInv
<1>4. /\ DOMAIN ctxs' = DOMAIN ctxs
      /\ \A c \in DOMAIN ctxs :
            ctxs'[c].parent = ctxs[c].parent /\ ctxs'[c].slots = ctxs[c].slots
      /\ \A i \in Jobs \ Gens : Ctx[i] \in DOMAIN ctxs =>
            ctxs'[Ctx[i]].tokens = ctxs[Ctx[i]].tokens
  BY <1>1, <1>3, RunModelContexts
<1>5. (\A i : Allocated(i) <=> i \in batch) /\ (\A i : ~Allocated(i)')
  BY DEF RunModel, Allocated, ToSet
<1> HIDE DEF batch
<1>6. BlocksOwned'
  BY <1>3, <1>4 DEF BlocksOwned
<1>7. FillLens'
  <2> SUFFICES ASSUME NEW c \in DOMAIN ctxs \ GenCtxs
               PROVE  /\ \/ Len(ctxs[c].slots) = ctxs'[c].tokens
                         \/ /\ \A i \in Jobs : Ctx[i] = c => i \in done'
                            /\ Len(ctxs[c].slots) % BlockSize = 0
                            /\ Len(ctxs[c].slots) < ctxs'[c].tokens + BlockSize
                      /\ (\E d \in DOMAIN ctxs : ctxs[d].parent = c)
                            => Len(ctxs[c].slots) % BlockSize = 0
    BY <1>4 DEF FillLens, GenCtxs
  <2>1. PICK i \in Jobs : Ctx[i] = c
    BY <1>3 DEF CtxTypes, Contexts
  <2>2. i \notin Gens
    BY <2>1 DEF GenCtxs
  <2>3. ctxs'[c].tokens = ctxs[c].tokens
    BY <1>4, <2>1, <2>2
  <2> QED
    BY <1>2, <1>3, <2>3 DEF FillLens
<1>8. GenLens'
  <2> SUFFICES ASSUME NEW g \in Gens, Ctx[g] \in DOMAIN ctxs
               PROVE  Len(ctxs[Ctx[g]].slots) =
                         IF genLength'[g] = 0 THEN genLength'[g]
                         ELSE genLength'[g] - 1
    BY <1>4, <1>5 DEF GenLens
  <2>1. g \in Jobs /\ genLength[g] \in Nat
    BY <1>3, EngineAssumption DEF CtxTypes
  <2>2. Len(ctxs[Ctx[g]].slots) = IF g \in batch \/ genLength[g] = 0 THEN genLength[g]
                                  ELSE genLength[g] - 1
    BY <1>3, <1>5 DEF GenLens
  <2>3. genLength'[g] = IF g \in batch THEN genLength[g] + 1 ELSE genLength[g]
    BY <1>2, <2>1
  <2> QED
    BY <2>1, <2>2, <2>3
<1> QED
  BY <1>6, <1>7, <1>8 DEF SlotsInv

LEMMA SlotsStep ==
  ASSUME PromptsFilled
  PROVE  BatchInv /\ CtxInv /\ SlotsInv /\ [Next]_vars => SlotsInv'
<1> SUFFICES ASSUME BatchInv, CtxInv, SlotsInv, [Next]_vars PROVE SlotsInv'
  OBVIOUS
<1>1. ASSUME NEW j \in Jobs, AddJob(j) PROVE SlotsInv'
  BY <1>1, AddJobKeepsSlots
<1>2. ASSUME NEW j \in Jobs, FreeContext(Ctx[j]) PROVE SlotsInv'
  BY <1>2, FreeContextKeepsSlots
<1>3. CASE Iter \/ UNCHANGED vars
  BY <1>3, QuietSteps, QuietKeepsSlots, AllocateKeepsSlots, RunModelKeepsSlots DEF Iter
<1> QED
  BY <1>1, <1>2, <1>3 DEF Next

LEMMA MemoryFromInv == BatchInv /\ CtxInv /\ SlotsInv => MemorySound
<1> SUFFICES ASSUME BatchInv, CtxInv, SlotsInv PROVE MemorySound
  OBVIOUS
<1>1. QueueTypes /\ CtxTypes /\ GenCounts /\ BlocksOwned /\ FillLens /\ GenLens
  BY DEF BatchInv, CtxInv, SlotsInv
<1>2. \A c \in DOMAIN ctxs : /\ ctxs[c].slots \in Seq(Blocks)
                             /\ ctxs[c].tokens \in Nat /\ ctxs[c].hidden \in BOOLEAN
  BY <1>1 DEF CtxTypes, CtxRec
<1>3. TypeOK
  BY <1>1, <1>2 DEF TypeOK, QueueTypes, CtxTypes
<1>4. BlocksExclusive
  <2>1. ASSUME NEW c \in DOMAIN ctxs
        PROVE  LET s == ctxs[c].slots IN
               /\ ToSet(s) = BlocksOf(s)
               /\ \A i, k \in DOMAIN s :
                     s[i] = s[k] <=> (i - 1) \div BlockSize = (k - 1) \div BlockSize
    <3>1. Whole(ctxs[c].slots) /\ ctxs[c].slots \in Seq(Blocks)
      BY <1>1, <1>2, <2>1 DEF BlocksOwned
    <3>2. ToSet(ctxs[c].slots) = BlocksOf(ctxs[c].slots)
      BY <3>1, WholeBlocks
    <3> QED
      BY <3>1, <3>2 DEF Whole, BlockNo
  <2> QED
    BY <1>1, <2>1 DEF BlocksExclusive, BlocksOwned
<1>5. ForkedAligned
  <2> SUFFICES ASSUME NEW c \in DOMAIN ctxs, NEW d \in DOMAIN ctxs, ctxs[d].parent = c
               PROVE  /\ Len(ctxs[c].slots) % BlockSize = 0
                      /\ Len(ctxs[c].slots) < ctxs[c].tokens + BlockSize
    BY DEF ForkedAligned
  <2>1. PICK j \in Active \cup done : ctxs[d].parent = ParentCtx[j]
    BY DEF CtxInv, Bound
  <2>2. j \in Jobs
    BY <1>1, <2>1, OneJobPerContext DEF BatchInv, QueueTypes
  <2>3. c \notin GenCtxs
    BY <2>1, <2>2, PlanAssumption DEF GenCtxs
  <2>4. /\ Len(ctxs[c].slots) % BlockSize = 0
        /\ \/ Len(ctxs[c].slots) = ctxs[c].tokens
           \/ Len(ctxs[c].slots) < ctxs[c].tokens + BlockSize
    BY <1>1, <2>3 DEF FillLens
  <2>5. ctxs[c].tokens < ctxs[c].tokens + BlockSize
    BY <1>2, EngineAssumption
  <2> QED
    BY <2>4, <2>5
<1>6. KVMatchesTokens
  <2> SUFFICES ASSUME pc = "idle", NEW j \in Gens, Ctx[j] \in DOMAIN ctxs
               PROVE  Len(ctxs[Ctx[j]].slots) = IF ctxs[Ctx[j]].tokens = 0 THEN 0
                                                ELSE ctxs[Ctx[j]].tokens - 1
    BY DEF KVMatchesTokens
  <2>1. ~Allocated(j) /\ ctxs[Ctx[j]].tokens = genLength[j]
    BY <1>1 DEF Allocated, GenCounts
  <2>2. Len(ctxs[Ctx[j]].slots) = IF Allocated(j) \/ genLength[j] = 0
                                  THEN genLength[j] ELSE genLength[j] - 1
    BY <1>1 DEF GenLens
  <2> QED
    BY <2>1, <2>2
<1> QED
  BY <1>3, <1>4, <1>5, <1>6 DEF MemorySound

\* If the node before every output has a token: no KV block ever belongs to two
\* contexts, the blocks a context gives back when it is freed are all of its
\* blocks, a forked context ends on a block boundary, and between iterations a
\* generation has the KV of all its tokens but the last, through forks,
\* preemptions and frees in any order.
THEOREM MemoryAlwaysSound == PromptsFilled => (Spec => []MemorySound)
<1> SUFFICES ASSUME PromptsFilled PROVE Spec => []MemorySound
  OBVIOUS
<1>1. BatchInv /\ CtxInv /\ SlotsInv /\ [Next]_vars => SlotsInv'
  BY SlotsStep
<1> QED
  BY <1>1, BatchInit, BatchStep, CtxInit, CtxStep, SlotsInit, MemoryFromInv, PTL
     DEF Spec
=============================================================================
