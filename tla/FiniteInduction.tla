-------------------------- MODULE FiniteInduction ---------------------------
(***************************************************************************)
(* Lemmas on data that the proofs of several components rest on.  The      *)
(* induction theorems of the library take an operator as parameter.        *)
(* SetInduction and SeqInduction are the same principles for a set of      *)
(* numbers and of sequences: the predicate of an induction is the set for  *)
(* which it holds.  From the first follow least and greatest elements, the *)
(* existence of what a function defines by recursion (HasIteration), of    *)
(* recursively defined sums (IsSum), that these are additive, the sequence *)
(* that sorts a finite set (Sorted), and what SelectAt returns; from the   *)
(* second what Only, Without and Mapped make of a sequence that grows.  The*)
(* lemmas on division are what the paging of contexts needs.               *)
(***************************************************************************)
EXTENDS Naturals, Sequences, FiniteSets, Subsequences, FiniteSetTheorems,
        WellFoundedInduction, TLAPS

\* Induction over the naturals, stated for a set, from the well-foundedness
\* of <: a set that contains 0 and is closed under successor contains Nat.
LEMMA SetInduction ==
  ASSUME NEW S, 0 \in S, \A n \in Nat : n \in S => n + 1 \in S
  PROVE  Nat \subseteq S
<1> DEFINE T == Nat \ S
           R == OpToRel(<, Nat)
<1> SUFFICES ASSUME T # {} PROVE FALSE
  OBVIOUS
<1>1. IsWellFoundedOn(R, Nat)
  BY NatLessThanWellFounded
<1>2. PICK x \in T : \A y \in T : ~ (<<y, x>> \in R)
  <2>1. T \subseteq Nat
    OBVIOUS
  <2> HIDE DEF R, T
  <2> QED
    BY <1>1, <2>1, WFMin
<1>3. \A y \in T : ~ (y < x)
  BY <1>2 DEF OpToRel
<1>4. x # 0 /\ x - 1 \in Nat /\ x - 1 < x
  OBVIOUS
<1>5. x - 1 \in S
  BY <1>3, <1>4
<1> QED
  BY <1>4, <1>5

\* A non-empty set of positive numbers up to n has a greatest element.
LEMMA Greatest ==
  ASSUME NEW n \in Nat, NEW S, S \subseteq 1 .. n, S # {}
  PROVE  \E m \in S : \A j \in S : j <= m
<1> DEFINE P == {k \in Nat : \A T \in SUBSET (1 .. k) :
                    T # {} => \E m \in T : \A j \in T : j <= m}
<1>1. 0 \in P
  <2>1. 1 .. 0 = {}
    OBVIOUS
  <2> QED
    BY <2>1
<1>2. ASSUME NEW k \in Nat, k \in P PROVE k + 1 \in P
  <2> SUFFICES ASSUME NEW T \in SUBSET (1 .. (k + 1)), T # {}
               PROVE  \E m \in T : \A j \in T : j <= m
    OBVIOUS
  <2>1. CASE k + 1 \in T
    BY <2>1
  <2>2. CASE k + 1 \notin T
    <3>1. T \in SUBSET (1 .. k)
      BY <2>2
    <3> QED
      BY <1>2, <3>1
  <2> QED
    BY <2>1, <2>2
<1>3. Nat \subseteq P
  <2> HIDE DEF P
  <2> QED
    BY <1>1, <1>2, SetInduction
<1> QED
  BY <1>3

\* A non-empty set of natural numbers has a least element.
LEMMA Least ==
  ASSUME NEW S, S \subseteq Nat, S # {}
  PROVE  \E m \in S : \A j \in S : m <= j
<1> DEFINE R == OpToRel(<, Nat)
<1>1. IsWellFoundedOn(R, Nat)
  BY NatLessThanWellFounded
<1>2. PICK x \in S : \A y \in S : ~ (<<y, x>> \in R)
  <2> HIDE DEF R
  <2> QED
    BY <1>1, WFMin
<1>3. \A y \in S : ~ (y < x)
  BY <1>2 DEF OpToRel
<1> QED
  BY <1>3

LEMMA UpToCounted ==
  ASSUME NEW n \in Nat
  PROVE  IsFiniteSet(1 .. n) /\ Cardinality(1 .. n) = n
<1>1. IsFiniteSet(1 .. n) /\ Cardinality(1 .. n) = IF 1 > n THEN 0 ELSE n - 1 + 1
  BY FS_Interval
<1> QED
  BY <1>1

-----------------------------------------------------------------------------
(* Sorting *)

\* R orders the elements of D strictly and totally.
Orders(R, D) ==
    /\ \A x \in D : <<x, x>> \notin R
    /\ \A x, y, z \in D : <<x, y>> \in R /\ <<y, z>> \in R => <<x, z>> \in R
    /\ \A x, y \in D : x # y => <<x, y>> \in R \/ <<y, x>> \in R

\* The position of x among the elements of D.
Rank(R, D, x) == Cardinality({y \in D : <<y, x>> \in R}) + 1

LEMMA RankFacts ==
  ASSUME NEW R, NEW D, IsFiniteSet(D), Orders(R, D)
  PROVE  /\ \A x \in D : Rank(R, D, x) \in 1 .. Cardinality(D)
         /\ \A x, y \in D : <<x, y>> \in R => Rank(R, D, x) < Rank(R, D, y)
<1> DEFINE below(x) == {y \in D : <<y, x>> \in R}
<1>1. \A x \in D : IsFiniteSet(below(x)) /\ Cardinality(below(x)) \in Nat
  BY FS_Subset, FS_CardinalityType
<1>2. Cardinality(D) \in Nat
  BY FS_CardinalityType
<1>3. ASSUME NEW x \in D PROVE Cardinality(below(x)) + 1 <= Cardinality(D)
  <2>1. x \notin below(x) /\ below(x) \cup {x} \in SUBSET D
    BY DEF Orders
  <2>2. Cardinality(below(x) \cup {x}) = Cardinality(below(x)) + 1
    BY <1>1, <2>1, FS_AddElement
  <2>3. Cardinality(below(x) \cup {x}) <= Cardinality(D)
    BY <2>1, FS_Subset
  <2> QED
    BY <2>2, <2>3
<1>4. ASSUME NEW x \in D, NEW y \in D, <<x, y>> \in R
      PROVE  Cardinality(below(x)) + 1 <= Cardinality(below(y))
  <2>1. x \notin below(x) /\ below(x) \cup {x} \in SUBSET below(y)
    BY <1>4 DEF Orders
  <2>2. Cardinality(below(x) \cup {x}) = Cardinality(below(x)) + 1
    BY <1>1, <2>1, FS_AddElement
  <2>3. Cardinality(below(x) \cup {x}) <= Cardinality(below(y))
    BY <1>1, <2>1, FS_Subset
  <2> QED
    BY <2>2, <2>3
<1> HIDE DEF below
<1>5. \A x \in D : Rank(R, D, x) = Cardinality(below(x)) + 1
  BY DEF Rank, below
<1> QED
  BY <1>1, <1>2, <1>3, <1>4, <1>5

\* The elements of a finite set can be listed in the order of R, and in one
\* way only.
LEMMA Sorted ==
  ASSUME NEW R, NEW D, IsFiniteSet(D), Orders(R, D)
  PROVE  \E p \in Bijection(1 .. Cardinality(D), D) :
            /\ \A i, j \in 1 .. Cardinality(D) : i < j <=> <<p[i], p[j]>> \in R
            /\ \A x \in D : p[Rank(R, D, x)] = x
<1> DEFINE n == Cardinality(D)
           rank == [x \in D |-> Rank(R, D, x)]
<1>1. n \in Nat /\ IsFiniteSet(1 .. n) /\ Cardinality(1 .. n) = n
  BY FS_CardinalityType, FS_Interval
<1>2. rank \in [D -> 1 .. n]
  BY RankFacts
<1>3. \A x, y \in D : <<x, y>> \in R => rank[x] < rank[y]
  BY RankFacts
<1> HIDE DEF n, rank
<1>4. ASSUME NEW x \in D, NEW y \in D, rank[x] = rank[y] PROVE x = y
  <2>1. rank[x] \in Nat /\ ~(rank[x] < rank[y]) /\ ~(rank[y] < rank[x])
    BY <1>1, <1>2, <1>4
  <2>2. <<x, y>> \notin R /\ <<y, x>> \notin R
    BY <1>3, <2>1
  <2> QED
    BY <2>2, Zenon DEF Orders
<1>5. rank \in Injection(D, 1 .. n)
  BY <1>2, <1>4 DEF Injection, IsInjective
<1>6. rank \in Surjection(D, 1 .. n)
  BY <1>1, <1>5, FS_Injection DEF n
<1> DEFINE p == [i \in 1 .. n |-> CHOOSE x \in D : rank[x] = i]
<1>7. \A i \in 1 .. n : p[i] \in D /\ rank[p[i]] = i
  BY <1>6 DEF Surjection
<1>8. p \in [1 .. n -> D]
  BY <1>7
<1> HIDE DEF p
<1>9. \A x \in D : p[rank[x]] = x
  BY <1>2, <1>4, <1>7
<1>10. p \in Bijection(1 .. n, D)
  <2>1. p \in Injection(1 .. n, D)
    BY <1>7, <1>8 DEF Injection, IsInjective
  <2>2. p \in Surjection(1 .. n, D)
    BY <1>2, <1>8, <1>9 DEF Surjection
  <2> QED
    BY <2>1, <2>2 DEF Bijection
<1>11. ASSUME NEW i \in 1 .. n, NEW j \in 1 .. n
       PROVE  i < j <=> <<p[i], p[j]>> \in R
  <2>1. p[i] \in D /\ p[j] \in D /\ rank[p[i]] = i /\ rank[p[j]] = j
    BY <1>7
  <2>2. <<p[i], p[j]>> \in R => i < j
    BY <1>3, <2>1
  <2>3. <<p[j], p[i]>> \in R => j < i
    BY <1>3, <2>1
  <2>4. <<p[i], p[j]>> \in R \/ <<p[j], p[i]>> \in R \/ p[i] = p[j]
    BY <2>1, Zenon DEF Orders
  <2>5. p[i] = p[j] => i = j
    BY <2>1
  <2>6. i < j => ~(j < i) /\ i # j
    BY <1>1
  <2> QED
    BY <2>2, <2>3, <2>4, <2>5, <2>6
<1>12. \A x \in D : p[Rank(R, D, x)] = x
  BY <1>9 DEF rank
<1> QED
  BY <1>10, <1>11, <1>12 DEF n

-----------------------------------------------------------------------------
(* Sums over finite sets *)

\* F gives the sum of the weights f over every subset of D.
IsSum(F, f, D) ==
    /\ F \in [SUBSET D -> Nat]
    /\ F[{}] = 0
    /\ \A s \in SUBSET D, x \in D : x \notin s => F[s \cup {x}] = F[s] + f[x]

LEMMA SumExists ==
  ASSUME NEW D, IsFiniteSet(D), NEW f \in [D -> Nat]
  PROVE  \E F : IsSum(F, f, D)
<1> DEFINE n == Cardinality(D)
<1>1. PICK b : b \in Bijection(1 .. n, D)
  BY FS_CardinalityType DEF ExistsBijection
<1>2. n \in Nat
  BY FS_CardinalityType
<1>3. /\ b \in [1 .. n -> D]
      /\ \A i, j \in 1 .. n : b[i] = b[j] => i = j
      /\ \A x \in D : \E i \in 1 .. n : b[i] = x
  BY <1>1 DEF Bijection, Injection, Surjection, IsInjective
<1> HIDE DEF n
<1> DEFINE upTo(k) == {b[i] : i \in {j \in 1 .. n : j <= k}}
           w(k) == [x \in D |-> IF x \in upTo(k) THEN f[x] ELSE 0]
           P == {k \in Nat : k <= n => \E F : IsSum(F, w(k), D)}
<1>4. 0 \in P
  <2>1. w(0) = [x \in D |-> 0]
    OBVIOUS
  <2> DEFINE F == [s \in SUBSET D |-> 0]
  <2>2. IsSum(F, [x \in D |-> 0], D)
    BY DEF IsSum
  <2> QED
    BY <2>1, <2>2
<1>5. ASSUME NEW k \in Nat, k \in P PROVE k + 1 \in P
  <2> SUFFICES ASSUME k + 1 <= n PROVE \E F : IsSum(F, w(k + 1), D)
    OBVIOUS
  <2>1. PICK F : IsSum(F, w(k), D)
    BY <1>2, <1>5
  <2> DEFINE y == b[k + 1]
             G == [s \in SUBSET D |-> F[s] + (IF y \in s THEN f[y] ELSE 0)]
  <2>2. y \in D /\ f[y] \in Nat
    BY <1>2, <1>3
  <2>3. \A x \in D : x # y => w(k + 1)[x] = w(k)[x]
    BY <1>2, <1>3
  <2>4. w(k + 1)[y] = f[y] /\ w(k)[y] = 0
    BY <1>2, <1>3
  <2>5. \A x \in D : w(k)[x] \in Nat
    OBVIOUS
  <2> HIDE DEF w, y
  <2>6. \A s \in SUBSET D : F[s] \in Nat
    BY <2>1 DEF IsSum
  <2>7. G \in [SUBSET D -> Nat]
    BY <2>2, <2>6
  <2>8. G[{}] = 0
    BY <2>1 DEF IsSum
  <2>9. ASSUME NEW s \in SUBSET D, NEW x \in D, x \notin s
        PROVE  G[s \cup {x}] = G[s] + w(k + 1)[x]
    <3>1. F[s \cup {x}] = F[s] + w(k)[x]
      BY <2>1, <2>9 DEF IsSum
    <3>2. /\ G[s \cup {x}] = F[s \cup {x}] + (IF y \in s \cup {x} THEN f[y] ELSE 0)
          /\ G[s] = F[s] + (IF y \in s THEN f[y] ELSE 0)
      OBVIOUS
    <3> HIDE DEF G
    <3>3. CASE x = y
      BY <2>2, <2>4, <2>6, <2>9, <3>1, <3>2, <3>3
    <3>4. CASE x # y
      BY <2>2, <2>3, <2>5, <2>6, <3>1, <3>2, <3>4
    <3> QED
      BY <3>3, <3>4
  <2>10. IsSum(G, w(k + 1), D)
    BY <2>7, <2>8, <2>9 DEF IsSum
  <2> QED
    BY <2>10
<1>6. n \in P
  <2> HIDE DEF P
  <2> QED
    BY <1>2, <1>4, <1>5, SetInduction
<1>7. w(n) = f
  BY <1>2, <1>3
<1> QED
  BY <1>2, <1>6, <1>7

\* A set with k + 1 elements has k when one is taken away.
LEMMA OneLess ==
  ASSUME NEW s, IsFiniteSet(s), NEW k \in Nat, Cardinality(s) = k + 1
  PROVE  s # {} /\ \A x \in s : Cardinality(s \ {x}) = k
<1>1. Cardinality({}) = 0 /\ k + 1 # 0
  BY FS_EmptySet
<1>2. ASSUME NEW x \in s PROVE Cardinality(s \ {x}) = k
  <2>1. Cardinality(s \ {x}) = Cardinality(s) - 1
    BY FS_RemoveElement
  <2> QED
    BY <2>1
<1> QED
  BY <1>1, <1>2

\* it adds the weights of every subset of S one by one, in some order.
AddsUp(it, f, S) ==
    /\ it[{}] = 0
    /\ \A s \in SUBSET S : s # {} => \E x \in s :
          it[s] = f[x] + it[s \ {x}] \/ it[s] = it[s \ {x}] + f[x]

\* Whatever adds the weights one by one computes the sum.
LEMMA SumByElements ==
  ASSUME NEW D, IsFiniteSet(D), NEW f \in [D -> Nat], NEW F, IsSum(F, f, D),
         NEW it, NEW S \in SUBSET D, AddsUp(it, f, S)
  PROVE  it[S] = F[S]
<1> DEFINE P == {k \in Nat : \A s \in SUBSET S : Cardinality(s) = k => it[s] = F[s]}
<1>1. \A s \in SUBSET S : IsFiniteSet(s) /\ Cardinality(s) \in Nat
  BY FS_Subset, FS_CardinalityType
<1>2. 0 \in P
  <2>1. \A s \in SUBSET S : Cardinality(s) = 0 => s = {}
    BY <1>1, FS_EmptySet
  <2> QED
    BY <2>1 DEF IsSum, AddsUp
<1>3. ASSUME NEW k \in Nat, k \in P PROVE k + 1 \in P
  <2> SUFFICES ASSUME NEW s \in SUBSET S, Cardinality(s) = k + 1
               PROVE  it[s] = F[s]
    OBVIOUS
  <2>1. s # {} /\ \A x \in s : Cardinality(s \ {x}) = k
    BY <1>1, OneLess
  <2>2. PICK x \in s :
            it[s] = f[x] + it[s \ {x}] \/ it[s] = it[s \ {x}] + f[x]
    BY <2>1 DEF AddsUp
  <2>3. Cardinality(s \ {x}) = k
    BY <2>1
  <2>4. it[s \ {x}] = F[s \ {x}]
    BY <1>3, <2>3
  <2>5. (s \ {x}) \cup {x} = s /\ x \in D /\ s \ {x} \in SUBSET D
    OBVIOUS
  <2>6. F[s] = F[s \ {x}] + f[x]
    <3>1. F[(s \ {x}) \cup {x}] = F[s \ {x}] + f[x]
      BY <2>5 DEF IsSum
    <3> QED
      BY <2>5, <3>1
  <2>7. F[s \ {x}] \in Nat /\ f[x] \in Nat
    BY <2>5 DEF IsSum
  <2> QED
    BY <2>2, <2>4, <2>6, <2>7
<1>4. Cardinality(S) \in P
  <2> HIDE DEF P
  <2> QED
    BY <1>1, <1>2, <1>3, SetInduction
<1> QED
  BY <1>4

\* The sum of a union of disjoint sets, and of a part of a set.
LEMMA SumUnion ==
  ASSUME NEW D, IsFiniteSet(D), NEW f \in [D -> Nat], NEW F, IsSum(F, f, D),
         NEW S \in SUBSET D, NEW T \in SUBSET D, S \cap T = {}
  PROVE  F[S \cup T] = F[S] + F[T]
<1> DEFINE P == {k \in Nat : \A s \in SUBSET T : Cardinality(s) = k =>
                                F[S \cup s] = F[S] + F[s]}
<1>1. \A s \in SUBSET T : IsFiniteSet(s) /\ Cardinality(s) \in Nat
  BY FS_Subset, FS_CardinalityType
<1>2. \A s \in SUBSET D : F[s] \in Nat
  BY DEF IsSum
<1>3. 0 \in P
  <2>1. \A s \in SUBSET T : Cardinality(s) = 0 => s = {}
    BY <1>1, FS_EmptySet
  <2>2. F[{}] = 0 /\ F[S] \in Nat /\ S \cup {} = S
    BY <1>2 DEF IsSum
  <2> QED
    BY <2>1, <2>2
<1>4. ASSUME NEW k \in Nat, k \in P PROVE k + 1 \in P
  <2> SUFFICES ASSUME NEW s \in SUBSET T, Cardinality(s) = k + 1
               PROVE  F[S \cup s] = F[S] + F[s]
    OBVIOUS
  <2>1. s # {} /\ \A x \in s : Cardinality(s \ {x}) = k
    BY <1>1, OneLess
  <2>2. PICK x : x \in s
    BY <2>1
  <2> DEFINE r == s \ {x}
  <2>3. Cardinality(r) = k
    BY <2>1, <2>2
  <2>4. F[S \cup r] = F[S] + F[r]
    BY <1>4, <2>3
  <2>5. /\ r \cup {x} = s /\ (S \cup r) \cup {x} = S \cup s
        /\ x \in D /\ r \in SUBSET D /\ S \cup r \in SUBSET D
        /\ x \notin r /\ x \notin S \cup r
    BY <2>2
  <2> HIDE DEF r
  <2>6. F[r \cup {x}] = F[r] + f[x] /\ F[(S \cup r) \cup {x}] = F[S \cup r] + f[x]
    BY <2>5 DEF IsSum
  <2>7. F[r] \in Nat /\ F[S] \in Nat /\ f[x] \in Nat
    BY <1>2, <2>5
  <2>8. F[S \cup s] = F[S \cup r] + f[x] /\ F[s] = F[r] + f[x]
    BY <2>5, <2>6
  <2> QED
    BY <2>4, <2>7, <2>8
<1>5. Cardinality(T) \in P
  <2> HIDE DEF P
  <2> QED
    BY <1>1, <1>3, <1>4, SetInduction
<1> QED
  BY <1>5

-----------------------------------------------------------------------------
(* Subsequences *)

\* The positions in I in ascending order, and how SelectAt finds them.
LEMMA Enumerated ==
  ASSUME NEW m \in Nat, NEW I \in SUBSET (1 .. m)
  PROVE  /\ IsFiniteSet(I) /\ Cardinality(I) \in Nat /\ Cardinality(I) <= m
         /\ \E p \in [1 .. Cardinality(I) -> I] :
               /\ \A i, j \in 1 .. Cardinality(I) : i < j <=> p[i] < p[j]
               /\ \A k \in I : \E i \in 1 .. Cardinality(I) : p[i] = k
               /\ \A i \in 1 .. Cardinality(I), k \in I :
                     Cardinality({l \in I : l < k}) = i - 1 <=> k = p[i]
<1> DEFINE n == Cardinality(I)
           R == {x \in I \X I : x[1] < x[2]}
<1>1. IsFiniteSet(1 .. m) /\ Cardinality(1 .. m) = m
  BY FS_Interval
<1>2. IsFiniteSet(I) /\ n \in Nat /\ n <= m
  BY <1>1, FS_Subset, FS_CardinalityType
<1>3. \A x, y \in I : <<x, y>> \in R <=> x < y
  OBVIOUS
<1> HIDE DEF R
<1>4. I \subseteq Nat
  BY <1>1
<1>5. Orders(R, I)
  BY <1>3, <1>4 DEF Orders
<1>6. \A k \in I : {l \in I : <<l, k>> \in R} = {l \in I : l < k}
  BY <1>3
<1>7. PICK p \in Bijection(1 .. n, I) :
            /\ \A i, j \in 1 .. n : i < j <=> <<p[i], p[j]>> \in R
            /\ \A x \in I : p[Rank(R, I, x)] = x
  BY <1>2, <1>5, Sorted
<1>8. p \in [1 .. n -> I] /\ \A k \in I : \E i \in 1 .. n : p[i] = k
  BY <1>7 DEF Bijection, Surjection, Injection
<1>9. /\ \A k \in I : Rank(R, I, k) \in 1 .. n
      /\ \A k, l \in I : k < l => Rank(R, I, k) < Rank(R, I, l)
  BY <1>2, <1>3, <1>5, RankFacts
<1>10. \A k \in I : Rank(R, I, k) = Cardinality({l \in I : l < k}) + 1
  BY <1>6 DEF Rank
<1>11. ASSUME NEW i \in 1 .. n
       PROVE  \A k \in I : Cardinality({l \in I : l < k}) = i - 1 <=> k = p[i]
  <2>1. p[i] \in I
    BY <1>8
  <2>2. Rank(R, I, p[i]) \in 1 .. n /\ p[Rank(R, I, p[i])] = p[i]
    BY <1>7, <1>9, <2>1
  <2>3. \A j \in 1 .. n : p[j] = p[i] => j = i
    BY <1>7 DEF Bijection, Injection, IsInjective
  <2>4. Rank(R, I, p[i]) = i
    BY <2>2, <2>3
  <2>5. ASSUME NEW k \in I
        PROVE  Cardinality({l \in I : l < k}) = i - 1 <=> Rank(R, I, k) = i
    <3>1. IsFiniteSet({l \in I : l < k}) /\ Cardinality({l \in I : l < k}) \in Nat
      BY <1>2, FS_Subset, FS_CardinalityType
    <3> QED
      BY <1>2, <1>10, <3>1
  <2>6. \A k \in I : Rank(R, I, k) = i => k = p[i]
    BY <1>7
  <2> QED
    BY <2>1, <2>4, <2>5, <2>6
<1>12. \A i, j \in 1 .. n : i < j <=> p[i] < p[j]
  BY <1>3, <1>7, <1>8
<1> QED
  BY <1>2, <1>8, <1>11, <1>12 DEF n

LEMMA Selected ==
  ASSUME NEW D, NEW q \in Seq(D), NEW I \in SUBSET (1 .. Len(q))
  PROVE  /\ SelectAt(q, I) \in Seq(D)
         /\ Len(SelectAt(q, I)) = Cardinality(I)
         /\ Cardinality(I) \in Nat /\ Cardinality(I) <= Len(q)
         /\ \E p \in [1 .. Cardinality(I) -> I] :
               /\ \A i, j \in 1 .. Cardinality(I) : i < j <=> p[i] < p[j]
               /\ \A k \in I : \E i \in 1 .. Cardinality(I) : p[i] = k
               /\ \A i \in 1 .. Cardinality(I) : SelectAt(q, I)[i] = q[p[i]]
<1> DEFINE n == Cardinality(I)
<1>1. Len(q) \in Nat
  OBVIOUS
<1>2. n \in Nat /\ n <= Len(q)
  BY <1>1, Enumerated
<1>3. PICK p \in [1 .. n -> I] :
           /\ \A i, j \in 1 .. n : i < j <=> p[i] < p[j]
           /\ \A k \in I : \E i \in 1 .. n : p[i] = k
           /\ \A i \in 1 .. n, k \in I :
                 Cardinality({l \in I : l < k}) = i - 1 <=> k = p[i]
  BY <1>1, Enumerated
<1> HIDE DEF n
<1>4. SelectAt(q, I) = [i \in 1 .. n |-> q[p[i]]]
  <2> DEFINE at(i) == CHOOSE k \in I : Cardinality({l \in I : l < k}) = i - 1
  <2>1. SelectAt(q, I) = [i \in 1 .. n |-> q[at(i)]]
    BY DEF SelectAt, n
  <2>2. ASSUME NEW i \in 1 .. n PROVE at(i) = p[i]
    BY <1>3
  <2> HIDE DEF at
  <2> QED
    BY <2>1, <2>2
<1>5. ASSUME NEW i \in 1 .. n PROVE q[p[i]] \in D
  <2>1. p[i] \in 1 .. Len(q)
    BY <1>3
  <2> QED
    BY <2>1
<1>6. SelectAt(q, I) \in Seq(D) /\ Len(SelectAt(q, I)) = n
  BY <1>2, <1>4, <1>5
<1>7. \A i \in 1 .. n : SelectAt(q, I)[i] = q[p[i]]
  BY <1>4
<1> QED
  BY <1>2, <1>3, <1>6, <1>7 DEF n

\* One more element, left out or selected.
LEMMA SelectAtAppend ==
  ASSUME NEW D, NEW q \in Seq(D), NEW x \in D, NEW I \in SUBSET (1 .. Len(q))
  PROVE  /\ SelectAt(Append(q, x), I) = SelectAt(q, I)
         /\ SelectAt(Append(q, x), I \cup {Len(q) + 1}) = Append(SelectAt(q, I), x)
<1> DEFINE n == Cardinality(I)
           m == Len(q) + 1
           J == I \cup {m}
           r == Append(q, x)
<1>1. Len(q) \in Nat /\ m \in Nat /\ J \in SUBSET (1 .. m) /\ m \notin I
  <2>1. Len(q) \in Nat /\ m \in Nat
    OBVIOUS
  <2>2. \A k \in I : k \in Nat /\ 1 <= k /\ k <= Len(q)
    BY <2>1
  <2>3. m \notin I /\ \A k \in J : k \in 1 .. m
    BY <2>1, <2>2
  <2> QED
    BY <2>1, <2>3
<1>2. IsFiniteSet(I) /\ n \in Nat
  BY <1>1, Enumerated
<1>3. Cardinality(J) = n + 1
  BY <1>1, <1>2, FS_AddElement
<1>4. PICK p \in [1 .. n -> I] :
           /\ \A i, j \in 1 .. n : i < j <=> p[i] < p[j]
           /\ \A k \in I : \E i \in 1 .. n : p[i] = k
           /\ \A i \in 1 .. n, k \in I :
                 Cardinality({l \in I : l < k}) = i - 1 <=> k = p[i]
  BY <1>1, Enumerated
<1> HIDE DEF J, n
<1>5. PICK s \in [1 .. (n + 1) -> J] :
           \A i \in 1 .. (n + 1), k \in J :
              Cardinality({l \in J : l < k}) = i - 1 <=> k = s[i]
  <2>1. PICK t \in [1 .. Cardinality(J) -> J] :
           /\ \A i, j \in 1 .. Cardinality(J) : i < j <=> t[i] < t[j]
           /\ \A k \in J : \E i \in 1 .. Cardinality(J) : t[i] = k
           /\ \A i \in 1 .. Cardinality(J), k \in J :
                 Cardinality({l \in J : l < k}) = i - 1 <=> k = t[i]
    BY <1>1, Enumerated
  <2> QED
    BY <1>3, <2>1
<1>6. ASSUME NEW i \in 1 .. n PROVE s[i] = p[i]
  <2>1. p[i] \in I /\ p[i] \in J /\ i \in 1 .. (n + 1)
    BY <1>2, <1>4 DEF J
  <2>2. {l \in J : l < p[i]} = {l \in I : l < p[i]}
    BY <1>1, <2>1 DEF J
  <2> QED
    BY <1>4, <1>5, <2>1, <2>2
<1>7. s[n + 1] = m
  <2>1. {l \in J : l < m} = I
    BY <1>1 DEF J
  <2>2. m \in J /\ n + 1 \in 1 .. (n + 1) /\ (n + 1) - 1 = n
    BY <1>2 DEF J
  <2>3. Cardinality({l \in J : l < m}) = (n + 1) - 1
    BY <2>1, <2>2 DEF n
  <2> QED
    BY <1>5, <2>2, <2>3
<1>8. /\ r \in Seq(D) /\ \A k \in 1 .. Len(q) : r[k] = q[k]
      /\ r[m] = x
  OBVIOUS
<1>9. SelectAt(q, I) = [i \in 1 .. n |-> q[p[i]]] /\ SelectAt(r, I) = [i \in 1 .. n |-> r[p[i]]]
  <2> DEFINE at(i) == CHOOSE k \in I : Cardinality({l \in I : l < k}) = i - 1
  <2>1. /\ SelectAt(q, I) = [i \in 1 .. n |-> q[at(i)]]
        /\ SelectAt(r, I) = [i \in 1 .. n |-> r[at(i)]]
    BY DEF SelectAt, n
  <2>2. ASSUME NEW i \in 1 .. n PROVE at(i) = p[i]
    BY <1>4
  <2> HIDE DEF at, r
  <2> QED
    BY <2>1, <2>2
<1>10. SelectAt(r, J) = [i \in 1 .. (n + 1) |-> r[s[i]]]
  <2> DEFINE at(i) == CHOOSE k \in J : Cardinality({l \in J : l < k}) = i - 1
  <2>1. SelectAt(r, J) = [i \in 1 .. (n + 1) |-> r[at(i)]]
    BY <1>3 DEF SelectAt
  <2>2. ASSUME NEW i \in 1 .. (n + 1) PROVE at(i) = s[i]
    BY <1>5
  <2> HIDE DEF at, r
  <2> QED
    BY <2>1, <2>2
<1> HIDE DEF r, m
<1>11. ASSUME NEW i \in 1 .. n
       PROVE  p[i] \in 1 .. Len(q) /\ r[p[i]] = q[p[i]] /\ q[p[i]] \in D
  <2>1. p[i] \in 1 .. Len(q)
    BY <1>4
  <2> QED
    BY <1>8, <2>1
<1>12. SelectAt(r, I) = SelectAt(q, I)
  BY <1>9, <1>11
<1>13. SelectAt(r, J) = Append(SelectAt(q, I), x)
  <2>1. SelectAt(q, I) \in Seq(D) /\ Len(SelectAt(q, I)) = n
    BY <1>2, <1>9, <1>11
  <2>2. \A i \in 1 .. n : r[s[i]] = SelectAt(q, I)[i]
    BY <1>6, <1>9, <1>11
  <2>3. r[s[n + 1]] = x
    BY <1>7, <1>8
  <2> DEFINE a == SelectAt(q, I)
             b == Append(a, x)
  <2> HIDE DEF a
  <2>4. b = [i \in 1 .. (n + 1) |-> IF i <= n THEN a[i] ELSE x]
    <3>1. a \in Seq(D) /\ Len(a) = n
      BY <2>1 DEF a
    <3>2. b \in Seq(D) /\ Len(b) = n + 1 /\ b[n + 1] = x
      BY <1>2, <3>1
    <3>3. ASSUME NEW i \in 1 .. (n + 1)
          PROVE  b[i] = IF i <= n THEN a[i] ELSE x
      BY <1>2, <3>1, <3>2
    <3> HIDE DEF b
    <3>4. b = [i \in 1 .. (n + 1) |-> b[i]]
      BY <3>2
    <3> QED
      BY <3>3, <3>4
  <2>5. ASSUME NEW i \in 1 .. (n + 1) PROVE r[s[i]] = IF i <= n THEN a[i] ELSE x
    <3>1. i <= n => i \in 1 .. n
      BY <1>2
    <3>2. ~ (i <= n) => i = n + 1
      BY <1>2
    <3> QED
      BY <2>2, <2>3, <3>1, <3>2 DEF a
  <2> HIDE DEF b
  <2>6. SelectAt(r, J) = b
    BY <1>10, <2>4, <2>5
  <2> QED
    BY <2>6 DEF a, b
<1> QED
  BY <1>12, <1>13 DEF J, r, m

-----------------------------------------------------------------------------
(* Division *)

LEMMA DivModUnique ==
  ASSUME NEW B \in Nat \ {0}, NEW q \in Nat, NEW r \in Nat, r < B
  PROVE  (B * q + r) % B = r /\ (B * q + r) \div B = q
OBVIOUS

\* Quotient and remainder of the next number.
LEMMA DivModNext ==
  ASSUME NEW B \in Nat \ {0}, NEW m \in Nat
  PROVE  /\ m % B \in 0 .. (B - 1) /\ m \div B \in Nat
         /\ (m + 1) % B = IF m % B = B - 1 THEN 0 ELSE (m % B) + 1
         /\ (m + 1) \div B = IF m % B = B - 1 THEN (m \div B) + 1 ELSE m \div B
<1> DEFINE q == m \div B
           r == m % B
<1>1. q \in Nat
  OBVIOUS
<1>2. m = B * q + r /\ r \in 0 .. (B - 1)
  OBVIOUS
<1> HIDE DEF q, r
<1>3. CASE r = B - 1
  <2>1. m + 1 = B * (q + 1) + 0
    BY <1>1, <1>2, <1>3
  <2>2. (B * (q + 1) + 0) % B = 0 /\ (B * (q + 1) + 0) \div B = q + 1
    BY <1>1, DivModUnique
  <2>3. (m + 1) % B = 0 /\ (m + 1) \div B = q + 1
    BY <2>1, <2>2
  <2> QED
    BY <1>1, <1>2, <1>3, <2>3 DEF q, r
<1>4. CASE r # B - 1
  <2>1. m + 1 = B * q + (r + 1)
    BY <1>1, <1>2, <1>4
  <2>2. (B * q + (r + 1)) % B = r + 1 /\ (B * q + (r + 1)) \div B = q
    BY <1>1, <1>2, <1>4, DivModUnique
  <2>3. (m + 1) % B = r + 1 /\ (m + 1) \div B = q
    BY <2>1, <2>2
  <2> QED
    BY <1>1, <1>2, <1>4, <2>3 DEF q, r
<1> QED
  BY <1>3, <1>4

LEMMA DivModSmall ==
  ASSUME NEW B \in Nat \ {0}
  PROVE  /\ B % B = 0 /\ \A m \in Nat : m < B => m % B = m /\ m \div B = 0
OBVIOUS

LEMMA DivMonotone ==
  ASSUME NEW B \in Nat \ {0}, NEW m \in Nat, NEW n \in Nat, m <= n
  PROVE  m \div B <= n \div B
<1> DEFINE q == m \div B
           r == m % B
           p == n \div B
           t == n % B
<1>1. /\ q \in Nat /\ m = B * q + r /\ r \in 0 .. (B - 1)
      /\ p \in Nat /\ n = B * p + t /\ t \in 0 .. (B - 1)
  OBVIOUS
<1> HIDE DEF q, r, p, t
<1> SUFFICES ASSUME ~(q <= p) PROVE FALSE
  BY <1>1 DEF q, p
<1> DEFINE d == q - p - 1
<1>2. d \in Nat /\ q = p + 1 + d
  BY <1>1
<1> HIDE DEF d
<1>3. B * q = B * p + B + B * d /\ B * d >= 0
  BY <1>1, <1>2
<1> QED
  BY <1>1, <1>3

-----------------------------------------------------------------------------
(* Sequences *)

\* Induction over sequences, stated for a set.
LEMMA SeqInduction ==
  ASSUME NEW D, NEW S, <<>> \in S,
         \A q \in Seq(D), x \in D : q \in S => Append(q, x) \in S
  PROVE  Seq(D) \subseteq S
<1> DEFINE P == {n \in Nat : \A q \in Seq(D) : Len(q) = n => q \in S}
<1>1. 0 \in P
  <2>1. ASSUME NEW q \in Seq(D), Len(q) = 0 PROVE q = <<>>
    BY <2>1
  <2> QED
    BY <2>1
<1>2. ASSUME NEW n \in Nat, n \in P PROVE n + 1 \in P
  <2>1. ASSUME NEW q \in Seq(D), Len(q) = n + 1 PROVE q \in S
    <3> DEFINE f == SubSeq(q, 1, n)
    <3>1. f \in Seq(D) /\ Len(f) = n /\ q[n + 1] \in D
      BY <2>1
    <3>2. q = Append(f, q[n + 1])
      BY <2>1
    <3>3. f \in S
      BY <1>2, <3>1
    <3> HIDE DEF f
    <3> QED
      BY <3>1, <3>2, <3>3
  <2> QED
    BY <2>1
<1> HIDE DEF P
<1>3. Nat \subseteq P
  BY <1>1, <1>2, SetInduction
<1>4. ASSUME NEW q \in Seq(D) PROVE q \in S
  <2>1. Len(q) \in Nat
    OBVIOUS
  <2> QED
    BY <1>3, <2>1 DEF P
<1> QED
  BY <1>4

\* A function that is defined by recursion over 0 .. n: F[i] is the step to
\* i.  (Named, so that the provers find the instance.)
HasIteration(X, x0, n, F) ==
    \E f \in [0 .. n -> X] :
        f[0] = x0 /\ \A i \in 1 .. n : f[i] = F[i][f[i - 1]]

LEMMA IterationExists ==
  ASSUME NEW X, NEW x0 \in X, NEW n \in Nat, NEW F \in [1 .. n -> [X -> X]]
  PROVE  HasIteration(X, x0, n, F)
<1> DEFINE P == {k \in Nat : k <= n =>
                    \E f \in [0 .. k -> X] :
                       f[0] = x0 /\ \A i \in 1 .. k : f[i] = F[i][f[i - 1]]}
<1>1. 0 \in P
  <2> DEFINE f == [i \in 0 .. 0 |-> x0]
  <2>1. f \in [0 .. 0 -> X] /\ f[0] = x0 /\ \A i \in 1 .. 0 : f[i] = F[i][f[i - 1]]
    OBVIOUS
  <2> QED
    BY <2>1
<1>2. ASSUME NEW k \in Nat, k \in P PROVE k + 1 \in P
  <2> SUFFICES ASSUME k + 1 <= n
               PROVE  \E f \in [0 .. (k + 1) -> X] :
                         /\ f[0] = x0
                         /\ \A i \in 1 .. (k + 1) : f[i] = F[i][f[i - 1]]
    OBVIOUS
  <2>1. k <= n /\ k + 1 \in 1 .. n
    OBVIOUS
  <2>2. PICK f \in [0 .. k -> X] :
             f[0] = x0 /\ \A i \in 1 .. k : f[i] = F[i][f[i - 1]]
    BY <1>2, <2>1
  <2>3. F[k + 1][f[k]] \in X
    <3>1. F[k + 1] \in [X -> X] /\ f[k] \in X
      BY <2>1, <2>2
    <3> QED
      BY <3>1
  <2> DEFINE g == [i \in 0 .. (k + 1) |-> IF i = k + 1 THEN F[k + 1][f[k]] ELSE f[i]]
  <2>4. g \in [0 .. (k + 1) -> X] /\ g[0] = x0
    BY <2>2, <2>3
  <2>5. ASSUME NEW i \in 1 .. (k + 1) PROVE g[i] = F[i][g[i - 1]]
    <3>1. CASE i = k + 1
      BY <3>1
    <3>2. CASE i # k + 1
      <4>1. i \in 1 .. k /\ i - 1 \in 0 .. k /\ i - 1 # k + 1
        BY <3>2
      <4> QED
        BY <2>2, <4>1
    <3> QED
      BY <3>1, <3>2
  <2> HIDE DEF g
  <2> QED
    BY <2>4, <2>5
<1> HIDE DEF P
<1>3. n \in P
  BY <1>1, <1>2, SetInduction
<1> QED
  BY <1>3 DEF P, HasIteration

LEMMA WithoutEmpty ==
  ASSUME NEW X
  PROVE  Without(<<>>, X) = <<>>
<1>1. DOMAIN <<>> = {} /\ Cardinality({}) = 0 /\ 1 .. 0 = {}
  BY FS_EmptySet
<1>2. {i \in DOMAIN <<>> : <<>>[i] \notin X} = {}
  BY <1>1
<1>3. Without(<<>>, X) = SelectAt(<<>>, {})
  BY <1>2 DEF Without
<1> QED
  BY <1>1, <1>3 DEF SelectAt

LEMMA WithoutAppend ==
  ASSUME NEW D, NEW q \in Seq(D), NEW x \in D, NEW X
  PROVE  Without(Append(q, x), X) =
            IF x \in X THEN Without(q, X) ELSE Append(Without(q, X), x)
<1> DEFINE r == Append(q, x)
           I == {i \in DOMAIN q : q[i] \notin X}
           J == {i \in DOMAIN r : r[i] \notin X}
<1>1. /\ Len(q) \in Nat /\ DOMAIN q = 1 .. Len(q) /\ DOMAIN r = 1 .. (Len(q) + 1)
      /\ r[Len(q) + 1] = x /\ \A i \in 1 .. Len(q) : r[i] = q[i]
  OBVIOUS
<1>2. I \in SUBSET (1 .. Len(q))
  BY <1>1
<1> HIDE DEF r
<1>3. J = IF x \in X THEN I ELSE I \cup {Len(q) + 1}
  BY <1>1
<1> HIDE DEF I, J
<1>4. /\ SelectAt(r, I) = SelectAt(q, I)
      /\ SelectAt(r, I \cup {Len(q) + 1}) = Append(SelectAt(q, I), x)
  BY <1>2, SelectAtAppend DEF r
<1>5. Without(r, X) = SelectAt(r, J) /\ Without(q, X) = SelectAt(q, I)
  BY DEF Without, I, J
<1> QED
  BY <1>3, <1>4, <1>5 DEF r

LEMMA OnlyIsWithout ==
  ASSUME NEW D, NEW q \in Seq(D), NEW X
  PROVE  Only(q, X) = Without(q, D \ X)
<1>1. \A i \in DOMAIN q : q[i] \in D
  OBVIOUS
<1>2. {i \in DOMAIN q : q[i] \in X} = {i \in DOMAIN q : q[i] \notin D \ X}
  BY <1>1
<1> QED
  BY <1>2 DEF Only, Without

\* What is left is a sequence of what is not taken away.
LEMMA WithoutType ==
  ASSUME NEW D, NEW q \in Seq(D), NEW X
  PROVE  Without(q, X) \in Seq(D \ X)
<1> DEFINE S == {s \in Seq(D) : Without(s, X) \in Seq(D \ X)}
<1>1. <<>> \in S
  <2>1. <<>> \in Seq(D \ X) /\ <<>> \in Seq(D)
    OBVIOUS
  <2> QED
    BY <2>1, WithoutEmpty
<1>2. ASSUME NEW s \in Seq(D), NEW x \in D, s \in S PROVE Append(s, x) \in S
  <2>1. Append(s, x) \in Seq(D)
    OBVIOUS
  <2>2. Without(s, X) \in Seq(D \ X)
    BY <1>2
  <2>3. x \notin X => Append(Without(s, X), x) \in Seq(D \ X)
    BY <2>2
  <2>4. Without(Append(s, x), X) =
            IF x \in X THEN Without(s, X) ELSE Append(Without(s, X), x)
    BY WithoutAppend
  <2> QED
    BY <2>1, <2>2, <2>3, <2>4
<1> HIDE DEF S
<1>3. Seq(D) \subseteq S
  BY <1>1, <1>2, SeqInduction
<1> QED
  BY <1>3 DEF S

\* The provers do not instantiate an equation between sequences of any set;
\* with this name they find it for the set at hand.
AppendsLast(D) ==
  \A a, b \in Seq(D) : \A e \in D : Append(a \o b, e) = a \o Append(b, e)

LEMMA AppendLast ==
  ASSUME NEW D
  PROVE  AppendsLast(D)
BY DEF AppendsLast

LEMMA WithoutTwice ==
  ASSUME NEW D, NEW q \in Seq(D), NEW X, NEW Y
  PROVE  Without(Without(q, X), Y) = Without(q, X \cup Y)
<1> DEFINE S == {s \in Seq(D) : Without(Without(s, X), Y) = Without(s, X \cup Y)}
<1>1. <<>> \in S
  <2>1. <<>> \in Seq(D)
    OBVIOUS
  <2> QED
    BY <2>1, WithoutEmpty
<1>2. ASSUME NEW s \in Seq(D), NEW x \in D, s \in S PROVE Append(s, x) \in S
  <2>1. Append(s, x) \in Seq(D) /\ Without(s, X) \in Seq(D)
    <3>1. Without(s, X) \in Seq(D \ X)
      BY WithoutType
    <3> QED
      BY <3>1
  <2>2. /\ Without(Append(s, x), X) =
              IF x \in X THEN Without(s, X) ELSE Append(Without(s, X), x)
        /\ Without(Append(s, x), X \cup Y) =
              IF x \in X \cup Y THEN Without(s, X \cup Y)
              ELSE Append(Without(s, X \cup Y), x)
        /\ Without(Append(Without(s, X), x), Y) =
              IF x \in Y THEN Without(Without(s, X), Y)
              ELSE Append(Without(Without(s, X), Y), x)
    BY <2>1, WithoutAppend
  <2>3. Without(Without(s, X), Y) = Without(s, X \cup Y)
    BY <1>2
  <2>4. Without(Without(Append(s, x), X), Y) = Without(Append(s, x), X \cup Y)
    BY <2>2, <2>3
  <2> QED
    BY <2>1, <2>4
<1> HIDE DEF S
<1>3. Seq(D) \subseteq S
  BY <1>1, <1>2, SeqInduction
<1> QED
  BY <1>3 DEF S

\* Taking away also what does not occur changes nothing.
LEMMA WithoutMore ==
  ASSUME NEW q, NEW X, NEW Y, \A i \in DOMAIN q : q[i] \notin Y
  PROVE  Without(q, X \cup Y) = Without(q, X)
<1>2. {i \in DOMAIN q : q[i] \notin X \cup Y} = {i \in DOMAIN q : q[i] \notin X}
  OBVIOUS
<1> QED
  BY <1>2 DEF Without

\* What a function makes of a sequence.
Mapped(F, q) == [i \in DOMAIN q |-> F[q[i]]]

MapType(F, D, E) ==
  \A q \in Seq(D) : /\ Mapped(F, q) \in Seq(E) /\ Len(Mapped(F, q)) = Len(q)
                    /\ \A i \in 1 .. Len(q) : Mapped(F, q)[i] = F[q[i]]
MapAppend(F, D) ==
  \A q \in Seq(D), x \in D : Mapped(F, Append(q, x)) = Append(Mapped(F, q), F[x])

LEMMA MappedType ==
  ASSUME NEW D, NEW E, NEW F, \A x \in D : F[x] \in E
  PROVE  MapType(F, D, E)
<1> SUFFICES ASSUME NEW q \in Seq(D)
             PROVE  /\ Mapped(F, q) \in Seq(E) /\ Len(Mapped(F, q)) = Len(q)
                    /\ \A i \in 1 .. Len(q) : Mapped(F, q)[i] = F[q[i]]
  BY DEF MapType
<1>1. Len(q) \in Nat /\ DOMAIN q = 1 .. Len(q) /\ \A i \in 1 .. Len(q) : q[i] \in D
  OBVIOUS
<1>2. Mapped(F, q) = [i \in 1 .. Len(q) |-> F[q[i]]]
  BY <1>1 DEF Mapped
<1>3. \A i \in 1 .. Len(q) : F[q[i]] \in E
  BY <1>1
<1> QED
  BY <1>1, <1>2, <1>3

LEMMA MappedAppend ==
  ASSUME NEW D, NEW E, NEW F, \A x \in D : F[x] \in E
  PROVE  MapAppend(F, D)
<1> SUFFICES ASSUME NEW q \in Seq(D), NEW x \in D
             PROVE  Mapped(F, Append(q, x)) = Append(Mapped(F, q), F[x])
  BY DEF MapAppend
<1> DEFINE r == Append(q, x)
           m == Mapped(F, q)
           n == Mapped(F, r)
           u == Append(m, F[x])
<1>0. MapType(F, D, E)
  BY MappedType
<1>1. /\ Len(q) \in Nat /\ r \in Seq(D) /\ Len(r) = Len(q) + 1
      /\ r[Len(q) + 1] = x /\ \A i \in 1 .. Len(q) : r[i] = q[i]
  OBVIOUS
<1> HIDE DEF r, m, n
<1>2. /\ m \in Seq(E) /\ Len(m) = Len(q)
      /\ \A i \in 1 .. Len(q) : m[i] = F[q[i]]
  BY <1>0 DEF MapType, m
<1>3. /\ n \in Seq(E) /\ Len(n) = Len(q) + 1
      /\ \A i \in 1 .. (Len(q) + 1) : n[i] = F[r[i]]
  <2>1. /\ n \in Seq(E) /\ Len(n) = Len(r)
        /\ \A i \in 1 .. Len(r) : n[i] = F[r[i]]
    BY <1>0, <1>1 DEF MapType, n
  <2> QED
    BY <1>1, <2>1
<1>4. /\ u \in Seq(E) /\ Len(u) = Len(q) + 1 /\ u[Len(q) + 1] = F[x]
      /\ \A i \in 1 .. Len(q) : u[i] = m[i]
  <2>1. F[x] \in E
    OBVIOUS
  <2> QED
    BY <1>1, <1>2, <2>1
<1>5. ASSUME NEW i \in 1 .. (Len(q) + 1) PROVE n[i] = u[i]
  <2>1. i = Len(q) + 1 \/ i \in 1 .. Len(q)
    BY <1>1
  <2>2. n[i] = F[r[i]]
    BY <1>3
  <2> HIDE DEF u
  <2>3. CASE i = Len(q) + 1
    <3>1. r[i] = x /\ u[i] = F[x]
      BY <1>1, <1>4, <2>3, Zenon
    <3> QED
      BY <2>2, <3>1, Zenon
  <2>4. CASE i \in 1 .. Len(q)
    <3>1. r[i] = q[i] /\ u[i] = m[i] /\ m[i] = F[q[i]]
      BY <1>1, <1>2, <1>4, <2>4, Zenon
    <3> QED
      BY <2>2, <3>1, Zenon
  <2> QED
    BY <2>1, <2>3, <2>4
<1> HIDE DEF u
<1>6. n = u
  <2> DEFINE k == Len(q) + 1
  <2>1. k \in Nat /\ n \in [1 .. k -> E] /\ u \in [1 .. k -> E]
    BY <1>1, <1>3, <1>4
  <2>2. \A i \in 1 .. k : n[i] = u[i]
    BY <1>5
  <2> HIDE DEF k
  <2> QED
    BY <2>1, <2>2
<1> QED
  BY <1>6 DEF n, r, u, m

LEMMA MappedEmpty ==
  ASSUME NEW F
  PROVE  Mapped(F, <<>>) = <<>>
BY DEF Mapped

LEMMA OnlyAppend ==
  ASSUME NEW D, NEW q \in Seq(D), NEW x \in D, NEW X
  PROVE  Only(Append(q, x), X) =
            IF x \in X THEN Append(Only(q, X), x) ELSE Only(q, X)
<1> DEFINE Y == D \ X
           r == Append(q, x)
<1>1. r \in Seq(D)
  OBVIOUS
<1> HIDE DEF r
<1>2. Only(r, X) = Without(r, Y) /\ Only(q, X) = Without(q, Y)
  BY <1>1, OnlyIsWithout
<1>3. Without(r, Y) = IF x \in Y THEN Without(q, Y) ELSE Append(Without(q, Y), x)
  <2> HIDE DEF Y
  <2> QED
    BY WithoutAppend DEF r
<1>4. x \in Y <=> ~ (x \in X)
  OBVIOUS
<1> HIDE DEF Y
<1> QED
  BY <1>2, <1>3, <1>4 DEF r

LEMMA OnlyEmpty ==
  ASSUME NEW X
  PROVE  Only(<<>>, X) = <<>>
<1>1. <<>> \in Seq({})
  OBVIOUS
<1>2. Only(<<>>, X) = Without(<<>>, {} \ X)
  BY <1>1, OnlyIsWithout
<1> QED
  BY <1>2, WithoutEmpty

\* What has been taken away before is not missed.
LEMMA OnlyOfWithout ==
  ASSUME NEW D, NEW q \in Seq(D), NEW X, NEW Y, X \cap Y = {}
  PROVE  Only(Without(q, Y), X) = Only(q, X)
<1> DEFINE w == Without(q, Y)
<1>1. w \in Seq(D)
  <2>1. w \in Seq(D \ Y)
    BY WithoutType
  <2> QED
    BY <2>1
<1>2. Without(w, D \ X) = Without(q, Y \cup (D \ X))
  <2> DEFINE Z == D \ X
  <2> HIDE DEF Z
  <2>1. Without(Without(q, Y), Z) = Without(q, Y \cup Z)
    BY WithoutTwice
  <2> QED
    BY <2>1 DEF Z
<1> HIDE DEF w
<1>3. Only(w, X) = Without(w, D \ X)
  BY <1>1, OnlyIsWithout
<1>4. \A i \in DOMAIN q : q[i] \in D
  OBVIOUS
<1>5. {i \in DOMAIN q : q[i] \notin Y \cup (D \ X)} = {i \in DOMAIN q : q[i] \in X}
  BY <1>4
<1>6. Without(q, Y \cup (D \ X)) = Only(q, X)
  BY <1>5 DEF Without, Only
<1> QED
  BY <1>2, <1>3, <1>6 DEF w

\* What is left, in any order; and each as often as before.
LEMMA WithoutElements ==
  ASSUME NEW D, NEW q \in Seq(D), NEW X
  PROVE  \A x \in D \ X : (\E i \in 1 .. Len(q) : q[i] = x) <=>
                          (\E i \in 1 .. Len(Without(q, X)) : Without(q, X)[i] = x)
<1> DEFINE In(s, x) == \E i \in 1 .. Len(s) : s[i] = x
           S == {s \in Seq(D) : \A x \in D \ X : In(s, x) <=> In(Without(s, X), x)}
<1>1. <<>> \in S
  <2>1. <<>> \in Seq(D)
    OBVIOUS
  <2> QED
    BY <2>1, WithoutEmpty
<1>2. ASSUME NEW s \in Seq(D), NEW y \in D, s \in S PROVE Append(s, y) \in S
  <2> DEFINE w == Without(s, X)
  <2>1. w \in Seq(D)
    <3>1. Without(s, X) \in Seq(D \ X)
      BY WithoutType
    <3> QED
      BY <3>1
  <2>2. Without(Append(s, y), X) = IF y \in X THEN w ELSE Append(w, y)
    BY WithoutAppend
  <2>3. \A x : In(Append(s, y), x) <=> In(s, x) \/ x = y
    <3> SUFFICES ASSUME NEW x
                 PROVE  In(Append(s, y), x) <=> In(s, x) \/ x = y
      OBVIOUS
    <3>1. /\ Len(Append(s, y)) = Len(s) + 1 /\ Append(s, y)[Len(s) + 1] = y
          /\ Len(s) \in Nat /\ \A i \in 1 .. Len(s) : Append(s, y)[i] = s[i]
      OBVIOUS
    <3> QED
      BY <3>1
  <2> HIDE DEF w
  <2>4. \A x : In(Append(w, y), x) <=> In(w, x) \/ x = y
    <3> SUFFICES ASSUME NEW x
                 PROVE  In(Append(w, y), x) <=> In(w, x) \/ x = y
      OBVIOUS
    <3>1. /\ Len(Append(w, y)) = Len(w) + 1 /\ Append(w, y)[Len(w) + 1] = y
          /\ Len(w) \in Nat /\ \A i \in 1 .. Len(w) : Append(w, y)[i] = w[i]
      BY <2>1
    <3> QED
      BY <3>1
  <2>5. \A x \in D \ X : In(s, x) <=> In(w, x)
    BY <1>2 DEF w
  <2> HIDE DEF In
  <2>6. \A x \in D \ X : In(Append(s, y), x) <=> In(Without(Append(s, y), X), x)
    BY <2>2, <2>3, <2>4, <2>5
  <2>7. Append(s, y) \in Seq(D)
    OBVIOUS
  <2> QED
    BY <2>6, <2>7
<1> HIDE DEF S
<1>3. Seq(D) \subseteq S
  BY <1>1, <1>2, SeqInduction
<1> QED
  BY <1>3 DEF S

WithoutRepeats(q) == \A i, j \in 1 .. Len(q) : q[i] = q[j] => i = j

LEMMA WithoutDistinct ==
  ASSUME NEW D, NEW q \in Seq(D), NEW X, WithoutRepeats(q)
  PROVE  WithoutRepeats(Without(q, X))
<1> DEFINE S == {s \in Seq(D) : WithoutRepeats(s) => WithoutRepeats(Without(s, X))}
<1>1. <<>> \in S
  <2>1. <<>> \in Seq(D)
    OBVIOUS
  <2> QED
    BY <2>1, WithoutEmpty
<1>2. ASSUME NEW s \in Seq(D), NEW y \in D, s \in S PROVE Append(s, y) \in S
  <2> DEFINE w == Without(s, X)
             t == Append(s, y)
  <2>1. w \in Seq(D)
    <3>1. Without(s, X) \in Seq(D \ X)
      BY WithoutType
    <3> QED
      BY <3>1
  <2>2. Without(t, X) = IF y \in X THEN w ELSE Append(w, y)
    BY WithoutAppend
  <2>3. /\ t \in Seq(D) /\ Len(t) = Len(s) + 1 /\ t[Len(s) + 1] = y
        /\ Len(s) \in Nat /\ \A i \in 1 .. Len(s) : t[i] = s[i]
    OBVIOUS
  <2>4. y \notin X => ((\E i \in 1 .. Len(s) : s[i] = y) <=>
                       (\E i \in 1 .. Len(w) : w[i] = y))
    BY WithoutElements
  <2> HIDE DEF w, t
  <2> SUFFICES ASSUME WithoutRepeats(t) PROVE WithoutRepeats(Without(t, X))
    BY <2>3 DEF t
  <2>5. WithoutRepeats(s)
    BY <2>3 DEF WithoutRepeats
  <2>6. WithoutRepeats(w)
    BY <1>2, <2>5 DEF w
  <2>7. ~ \E i \in 1 .. Len(s) : s[i] = y
    <3> SUFFICES ASSUME NEW i \in 1 .. Len(s), s[i] = y PROVE FALSE
      OBVIOUS
    <3>1. i \in 1 .. Len(t) /\ Len(s) + 1 \in 1 .. Len(t) /\ t[i] = t[Len(s) + 1]
      BY <2>3
    <3> QED
      BY <2>3, <3>1 DEF WithoutRepeats
  <2>8. CASE y \in X
    BY <2>2, <2>6, <2>8
  <2>9. CASE y \notin X
    <3> DEFINE u == Append(w, y)
    <3>1. /\ Len(u) = Len(w) + 1 /\ u[Len(w) + 1] = y
          /\ Len(w) \in Nat /\ \A i \in 1 .. Len(w) : u[i] = w[i]
      BY <2>1
    <3>2. ~ \E i \in 1 .. Len(w) : w[i] = y
      BY <2>4, <2>7, <2>9
    <3> HIDE DEF u
    <3>3. ASSUME NEW i \in 1 .. Len(u), NEW j \in 1 .. Len(u), u[i] = u[j]
          PROVE  i = j
      <4>1. (i \in 1 .. Len(w) \/ i = Len(w) + 1) /\ (j \in 1 .. Len(w) \/ j = Len(w) + 1)
        BY <3>1
      <4> QED
        BY <2>6, <3>1, <3>2, <3>3, <4>1 DEF WithoutRepeats
    <3>4. WithoutRepeats(u)
      BY <3>3 DEF WithoutRepeats
    <3> QED
      BY <2>2, <2>9, <3>4 DEF u
  <2> QED
    BY <2>8, <2>9
<1> HIDE DEF S
<1>3. Seq(D) \subseteq S
  BY <1>1, <1>2, SeqInduction
<1> QED
  BY <1>3 DEF S
=============================================================================
