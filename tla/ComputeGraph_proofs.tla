------------------------ MODULE ComputeGraph_proofs -------------------------
(***************************************************************************)
(* Activation over any graph, with any requests, texts and criteria, in any*)
(* order of submissions, gets, sets and executions, however many fail.     *)
(*                                                                         *)
(* Sound is the heart of the argument: every variable is either untouched  *)
(* or belongs to the Gen that produces it, and every variable that is      *)
(* activated is layered over what it needs: those variables are activated, *)
(* unless nobody produces them, and its depth is one (for a native function*)
(* zero) more than the deepest of them.  It must hold at every return of   *)
(* the traversal, because an assertion may stop it anywhere and what was   *)
(* done stays.                                                             *)
(*                                                                         *)
(* Visited says what a visit of some variables is allowed to do: the graph *)
(* stays sound, nothing that was activated changes, the groups only get    *)
(* chains that give to these variables and every new group has a consumer; *)
(* and if no assertion stopped it, these variables are activated and the   *)
(* depth is the largest of theirs.  Visits compose (VisitedTwice), so if   *)
(* the visits of a level of the recursion are Correct, then those of the   *)
(* next are (VisitVisited, from GenVisited and NativeVisited), and by      *)
(* induction all are (LevelCorrect).  That the levels exist, for the       *)
(* function in Traverse, is LevelsDefined.                                 *)
(*                                                                         *)
(* What the steps do to the graph around it: new variables (Extends) and a *)
(* new request (Grows) leave the old requests alone (Enlarges), so what the*)
(* old variables need stays the same and what is derived from them can only*)
(* grow; texts do not matter to the graph (TextStep).  Together IInv is    *)
(* inductive, and a step keeps all texts (NextStep).                       *)
(***************************************************************************)
EXTENDS ComputeGraph, FiniteInduction, FiniteSetTheorems, SequenceTheorems,
        TLAPS

-----------------------------------------------------------------------------
(* Chains *)

\* A non-empty set of positions has a maximum.
LEMMA MaxFacts ==
  ASSUME NEW n \in Nat, NEW S, S \subseteq 1 .. n, S # {}
  PROVE  Max(S) \in S /\ \A j \in S : j <= Max(S)
<1>1. PICK m \in S : \A j \in S : j <= m
  BY Greatest
<1>2. \A j \in S : m >= j
  BY <1>1
<1>3. Max(S) \in S /\ \A j \in S : Max(S) >= j
  BY <1>2 DEF Max
<1> QED
  BY <1>3

\* The chain that claims a Gen starts at the first node, or at a node before
\* which there is no Gen: then the traversal fails.
LEMMA ClaimingChain ==
  ASSUME NEW n \in Nat, NEW b \in [1 .. n -> BOOLEAN], n > 0, b[1] = FALSE,
         NEW g \in Gens(b), CompChainOf(b, g) # 0
  PROVE  LET c == CompChainOf(b, g)
             f == CompletionChainFirst(b, c)
         IN  /\ c \in Gens(b) /\ (Gens(b) = {g} => c = g)
             /\ f \in 1 .. n
             /\ \/ f > 1 /\ b[f - 1] = FALSE
                \/ /\ f = 1 /\ CompletionChainFirst(b, g) = 1
                   /\ 1 \in IterFillFrom(b, 1)
<1> DEFINE claims == {h \in Gens(b) : g \in IterFrom(b, CompletionChainFirst(b, h))}
           c == CompChainOf(b, g)
           f == CompletionChainFirst(b, c)
<1>1. claims # {} /\ c = Max(claims)
  BY DEF CompChainOf
<1>2. claims \subseteq 1 .. n
  BY DEF Gens
<1>3. c \in claims
  <2> HIDE DEF claims
  <2> QED
    BY <1>1, <1>2, MaxFacts
<1>4. c \in Gens(b) /\ c \in 1 .. n /\ g \in IterFrom(b, f)
  BY <1>2, <1>3
<1>5. g \in 1 .. n /\ b[g] = TRUE
  BY DEF Gens
<1>6. f \in 1 .. n
  <2>1. CASE GensBefore(b, c) = {}
    BY <1>4, <2>1 DEF CompletionChainFirst
  <2>2. CASE GensBefore(b, c) # {}
    <3>1. f = Max(GensBefore(b, c)) - 1
      BY <2>2 DEF CompletionChainFirst
    <3>2. GensBefore(b, c) \subseteq 2 .. n
      <4> SUFFICES ASSUME NEW h \in GensBefore(b, c) PROVE h \in 2 .. n
        OBVIOUS
      <4>1. h \in 1 .. n /\ b[h] = TRUE
        BY DEF GensBefore, Gens
      <4> QED
        BY <4>1
    <3>3. GensBefore(b, c) \subseteq 1 .. n
      BY <3>2
    <3>4. Max(GensBefore(b, c)) \in GensBefore(b, c)
      BY <2>2, <3>3, MaxFacts
    <3> QED
      BY <3>1, <3>2, <3>4
  <2> QED
    BY <2>1, <2>2
<1> HIDE DEF c, f, claims
<1>7. /\ g >= f /\ ~ (f > 1 /\ b[f - 1])
      /\ \A j \in f .. g - 1 : ~ b[j]
  BY <1>4 DEF IterFrom
<1>8. CASE f > 1
  <2>1. f - 1 \in 1 .. n
    BY <1>6, <1>8
  <2>2. b[f - 1] = FALSE
    BY <1>7, <1>8, <2>1
  <2> QED
    BY <1>1, <1>3, <1>4, <1>6, <1>8, <2>2 DEF c, f, claims
<1>9. CASE f = 1
  <2>1. GensBefore(b, g) = {}
    <3> SUFFICES ASSUME NEW h \in GensBefore(b, g) PROVE FALSE
      OBVIOUS
    <3>1. h \in 1 .. n /\ h < g /\ b[h] = TRUE
      BY DEF GensBefore, Gens
    <3> QED
      BY <1>5, <1>7, <1>9, <3>1
  <2>2. CompletionChainFirst(b, g) = 1
    BY <2>1 DEF CompletionChainFirst
  <2>3. 1 \in IterFillFrom(b, 1)
    BY DEF IterFillFrom
  <2> QED
    BY <1>4, <1>6, <1>9, <2>2, <2>3 DEF c, f
<1>10. f = 1 \/ f > 1
  BY <1>6
<1> QED
  BY <1>8, <1>9, <1>10, Zenon

-----------------------------------------------------------------------------
(* The graph *)

FillsIn(rs, r, g) ==
    IF rs[r].native THEN DOMAIN rs[r].ids \ Gens(rs[r].bits)
    ELSE IterFillFrom(rs[r].bits, CompletionChainFirst(rs[r].bits, g))
NeededIn(rs, vs, v) ==
    LET r == vs[v].prod[1]
    IN  IF r = 0 THEN {} ELSE {rs[r].ids[i] : i \in FillsIn(rs, r, vs[v].prod[2])}

Request(q, D) ==
    /\ q.native \in BOOLEAN
    /\ \E n \in Nat : /\ q.bits \in [1 .. n -> BOOLEAN] /\ q.ids \in [1 .. n -> D]
                      /\ ~ q.native => n > 0 /\ q.bits[1] = FALSE

\* A variable is the output of the Gen it names, or nobody's and untouched by
\* activation.
Owned(rs, vs, v) ==
    \E r \in DOMAIN rs : \E g \in Gens(rs[r].bits) :
        vs[v].prod = <<r, g>> /\ rs[r].ids[g] = v
Untouched(vs, v) ==
    vs[v].prod = NoProducer /\ vs[v].act = FALSE /\ vs[v].depth = 0

WellFormed(rs, vs) ==
    /\ Len(rs) \in Nat /\ DOMAIN rs = 1 .. Len(rs)
    /\ \A r \in DOMAIN rs : Request(rs[r], DOMAIN vs)
    /\ vs \in [DOMAIN vs -> SemanticVariables] /\ IsFiniteSet(DOMAIN vs)
    /\ \A v \in DOMAIN vs : Untouched(vs, v) \/ Owned(rs, vs, v)

\* d is the depth of the deepest of N.
IsDepth(vs, N, d) ==
    /\ d \in Nat
    /\ \A u \in N : vs[u].depth <= d
    /\ d = 0 \/ \E u \in N : vs[u].depth = d

Ready(vs, N) == \A u \in N : vs[u].prod # NoProducer => vs[u].act
Extra(rs, vs, v) == IF rs[vs[v].prod[1]].native THEN 0 ELSE 1
Layered(rs, vs, v) ==
    /\ Ready(vs, NeededIn(rs, vs, v))
    /\ \E d \in Nat : /\ IsDepth(vs, NeededIn(rs, vs, v), d)
                      /\ vs[v].depth = d + Extra(rs, vs, v)

Sound(rs, vs) ==
    /\ WellFormed(rs, vs)
    /\ \A v \in DOMAIN vs : vs[v].act => Layered(rs, vs, v)

\* What a variable is made of is in the graph.
LEMMA NeededType ==
  ASSUME NEW rs, NEW vs, WellFormed(rs, vs), NEW v \in DOMAIN vs
  PROVE  NeededIn(rs, vs, v) \subseteq DOMAIN vs
<1>1. CASE Untouched(vs, v)
  BY <1>1 DEF NeededIn, Untouched, NoProducer
<1>2. CASE Owned(rs, vs, v)
  <2>0. PICK r \in DOMAIN rs : \E g \in Gens(rs[r].bits) : vs[v].prod = <<r, g>>
    BY <1>2 DEF Owned
  <2>1. PICK g \in Gens(rs[r].bits) : vs[v].prod = <<r, g>>
    BY <2>0
  <2>2. r # 0 /\ NeededIn(rs, vs, v) = {rs[r].ids[i] : i \in FillsIn(rs, r, g)}
    BY <2>1 DEF NeededIn, WellFormed
  <2>3. PICK n \in Nat : rs[r].bits \in [1 .. n -> BOOLEAN] /\ rs[r].ids \in [1 .. n -> DOMAIN vs]
    BY DEF WellFormed, Request
  <2>4. FillsIn(rs, r, g) \subseteq 1 .. n
    BY <2>3 DEF FillsIn, IterFillFrom
  <2> QED
    BY <2>2, <2>3, <2>4
<1> QED
  BY <1>1, <1>2 DEF WellFormed

\* The larger of two numbers.
LEMMA MaxOfTwo ==
  ASSUME NEW a \in Nat, NEW b \in Nat
  PROVE  /\ Max({a, b}) \in Nat /\ Max({a, b}) >= a /\ Max({a, b}) >= b
         /\ Max({a, b}) = a \/ Max({a, b}) = b
<1>1. \E m \in {a, b} : \A j \in {a, b} : m >= j
  BY a >= b \/ b >= a
<1>2. Max({a, b}) \in {a, b} /\ \A j \in {a, b} : Max({a, b}) >= j
  BY <1>1 DEF Max
<1> QED
  BY <1>2

-----------------------------------------------------------------------------
(* One activation: the inputs of v are ready and v gets its depth. *)

\* Only v has changed, and only in what activation sets.
Activates(vs, ws, v, depth) ==
    /\ ws \in [DOMAIN vs -> SemanticVariables]
    /\ \A u \in DOMAIN vs \ {v} : ws[u] = vs[u]
    /\ ws[v].content = vs[v].content /\ ws[v].ready = vs[v].ready
    /\ ws[v].prod = vs[v].prod
    /\ ws[v].act = TRUE /\ ws[v].depth = depth

\* The needs of a variable depend on its producer only.
LEMMA NeededSame ==
  ASSUME NEW rs, NEW vs, NEW ws, NEW v, ws[v].prod = vs[v].prod
  PROVE  NeededIn(rs, ws, v) = NeededIn(rs, vs, v) /\ Extra(rs, ws, v) = Extra(rs, vs, v)
BY DEF NeededIn, Extra

\* Nothing of what v needs has changed.
LEMMA LayeredSame ==
  ASSUME NEW rs, NEW vs, NEW ws, NEW v, ws[v].prod = vs[v].prod,
         ws[v].depth = vs[v].depth, Layered(rs, vs, v),
         \A u \in NeededIn(rs, vs, v) :
            /\ ws[u].depth = vs[u].depth /\ ws[u].prod = vs[u].prod
            /\ ws[u].act = vs[u].act
  PROVE  Layered(rs, ws, v)
<1> DEFINE N == NeededIn(rs, vs, v)
           e == Extra(rs, vs, v)
<1>1. NeededIn(rs, ws, v) = N /\ Extra(rs, ws, v) = e
  BY NeededSame
<1> HIDE DEF N, e
<1>2. /\ Ready(vs, N)
      /\ \E d \in Nat : IsDepth(vs, N, d) /\ vs[v].depth = d + e
  BY Zenon DEF Layered, N, e
<1>3. Ready(ws, N)
  BY <1>2 DEF Ready, N
<1>4. PICK d \in Nat : IsDepth(vs, N, d) /\ vs[v].depth = d + e
  BY <1>2
<1>5. IsDepth(ws, N, d)
  BY <1>4 DEF IsDepth, N
<1>6. Ready(ws, N) /\ IsDepth(ws, N, d) /\ ws[v].depth = d + e
  BY <1>3, <1>4, <1>5
<1> QED
  BY <1>1, <1>6, Zenon DEF Layered

\* Activating a variable whose inputs are ready keeps the graph sound.
LEMMA ActivatedSound ==
  ASSUME NEW rs, NEW vs, Sound(rs, vs), NEW v \in DOMAIN vs,
         vs[v].prod # NoProducer, vs[v].act = FALSE,
         Ready(vs, NeededIn(rs, vs, v)), NEW d, IsDepth(vs, NeededIn(rs, vs, v), d),
         NEW ws, Activates(vs, ws, v, d + Extra(rs, vs, v))
  PROVE  Sound(rs, ws)
<1>1. /\ DOMAIN ws = DOMAIN vs /\ ws \in [DOMAIN ws -> SemanticVariables]
      /\ \A u \in DOMAIN vs : ws[u].prod = vs[u].prod
  BY DEF Activates
<1>2. WellFormed(rs, vs)
  BY DEF Sound
<1>3. WellFormed(rs, ws)
  <2>1. ASSUME NEW u \in DOMAIN ws
        PROVE  Untouched(ws, u) \/ Owned(rs, ws, u)
    <3>1. CASE Untouched(vs, u)
      <4>1. u # v /\ ws[u] = vs[u]
        BY <1>1, <3>1 DEF Untouched, Activates
      <4> QED
        BY <3>1, <4>1 DEF Untouched
    <3>2. CASE Owned(rs, vs, u)
      BY <1>1, <3>2, Zenon DEF Owned
    <3> QED
      BY <1>1, <1>2, <3>1, <3>2 DEF WellFormed
  <2> QED
    BY <1>1, <1>2, <2>1 DEF WellFormed
<1>4. v \notin NeededIn(rs, vs, v)
  BY DEF Ready
<1>5. Layered(rs, ws, v)
  <2> DEFINE N == NeededIn(rs, vs, v)
             e == Extra(rs, vs, v)
  <2>1. NeededIn(rs, ws, v) = N /\ Extra(rs, ws, v) = e
    BY <1>1, NeededSame
  <2>2. N \subseteq DOMAIN vs /\ v \notin N
    BY <1>2, <1>4, NeededType
  <2>3. \A u \in N : ws[u] = vs[u]
    BY <2>2 DEF Activates
  <2>4. ws[v].depth = d + e
    BY DEF Activates
  <2>5. Ready(vs, N) /\ IsDepth(vs, N, d)
    OBVIOUS
  <2> HIDE DEF N, e
  <2>6. d \in Nat /\ Ready(ws, N) /\ IsDepth(ws, N, d)
    BY <2>3, <2>5 DEF Ready, IsDepth
  <2> QED
    BY <2>1, <2>4, <2>6, Zenon DEF Layered
<1>6. ASSUME NEW u \in DOMAIN ws, ws[u].act, u # v
      PROVE  Layered(rs, ws, u)
  <2>1. ws[u] = vs[u] /\ vs[u].act /\ u \in DOMAIN vs
    BY <1>1, <1>6 DEF Activates
  <2>2. Layered(rs, vs, u)
    BY <2>1 DEF Sound
  <2>3. NeededIn(rs, vs, u) \subseteq DOMAIN vs
    BY <1>2, <2>1, NeededType
  <2>4. v \notin NeededIn(rs, vs, u)
    BY <2>2 DEF Layered, Ready
  <2>5. \A w \in NeededIn(rs, vs, u) : ws[w] = vs[w]
    BY <2>3, <2>4 DEF Activates
  <2> QED
    BY <2>1, <2>2, <2>5, LayeredSame
<1> QED
  BY <1>1, <1>3, <1>5, <1>6 DEF Sound

-----------------------------------------------------------------------------
(* Chain groups *)

FollowsIn(rs, W) ==
    \A r \in DOMAIN rs :
        rs[r].native /\ (\E i \in FillsIn(rs, r, 0) : rs[r].ids[i] \in W)
            => \A g \in Gens(rs[r].bits) : rs[r].ids[g] \in W
DerivedIn(rs, D, v) ==
    {u \in D : \A W \in SUBSET D : v \in W /\ FollowsIn(rs, W) => u \in W}

\* x is a chain, and if its request has one output, v is made of it.
ChainIn(rs, x) ==
    /\ x[1] \in DOMAIN rs /\ ~ rs[x[1]].native
    /\ x[2] \in Gens(rs[x[1]].bits)
Linked(rs, D, x, v) ==
    /\ ChainIn(rs, x)
    /\ Cardinality(Gens(rs[x[1]].bits)) = 1
          => v \in DerivedIn(rs, D, rs[x[1]].ids[x[2]])

\* The chains of G give to the chain of Gen c of request r.
Consumes(rs, D, r, c, G) ==
    \A x \in G : \E i \in FillsIn(rs, r, c) : Linked(rs, D, x, rs[r].ids[i])
HasConsumer(rs, D, G) ==
    \E r \in DOMAIN rs : \E c \in Gens(rs[r].bits) :
        ~ rs[r].native /\ Consumes(rs, D, r, c, G)

\* hs is what has become of the groups gs: group grp has got chains linked to
\* variables of U, and every new group has a consumer.
Grown(rs, D, gs, hs, grp, U) ==
    /\ Len(gs) <= Len(hs)
    /\ \A k \in 1 .. Len(gs) : \A x \in hs[k] :
          x \in gs[k] \/ (k = grp /\ \E u \in U : Linked(rs, D, x, u))
    /\ \A k \in 1 .. Len(hs) : k > Len(gs) => HasConsumer(rs, D, hs[k])

LEMMA GrownTwice ==
  ASSUME NEW rs, NEW D, NEW R, NEW gs \in Seq(R), NEW hs \in Seq(R),
         NEW ks \in Seq(R), NEW grp \in Nat, grp <= Len(gs), NEW U, NEW V,
         Grown(rs, D, gs, hs, grp, U), Grown(rs, D, hs, ks, grp, V)
  PROVE  Grown(rs, D, gs, ks, grp, U \cup V)
<1>1. Len(gs) \in Nat /\ Len(hs) \in Nat /\ Len(ks) \in Nat
  OBVIOUS
<1>2. /\ Len(gs) <= Len(hs) /\ Len(hs) <= Len(ks)
      /\ \A k \in 1 .. Len(gs) : \A x \in hs[k] :
            x \in gs[k] \/ (k = grp /\ \E u \in U : Linked(rs, D, x, u))
      /\ \A k \in 1 .. Len(hs) : k > Len(gs) => HasConsumer(rs, D, hs[k])
      /\ \A k \in 1 .. Len(hs) : \A x \in ks[k] :
            x \in hs[k] \/ (k = grp /\ \E u \in V : Linked(rs, D, x, u))
      /\ \A k \in 1 .. Len(ks) : k > Len(hs) => HasConsumer(rs, D, ks[k])
  BY DEF Grown
<1> HIDE DEF Linked
<1>3. ASSUME NEW k \in 1 .. Len(gs), NEW x \in ks[k]
      PROVE  x \in gs[k] \/ (k = grp /\ \E u \in U \cup V : Linked(rs, D, x, u))
  <2>1. k \in 1 .. Len(hs)
    BY <1>1, <1>2
  <2>2. x \in hs[k] \/ (k = grp /\ \E u \in V : Linked(rs, D, x, u))
    BY <1>2, <2>1
  <2> QED
    BY <1>2, <2>2
<1>4. ASSUME NEW k \in 1 .. Len(ks), k > Len(gs)
      PROVE  HasConsumer(rs, D, ks[k])
  <2>1. CASE k > Len(hs)
    BY <1>2, <2>1
  <2>2. CASE k \in 1 .. Len(hs)
    <3>1. HasConsumer(rs, D, hs[k]) /\ k # grp
      BY <1>1, <1>2, <1>4, <2>2
    <3>2. ks[k] \subseteq hs[k]
      BY <1>2, <2>2, <3>1
    <3> QED
      BY <3>1, <3>2, Zenon DEF HasConsumer, Consumes
  <2> QED
    BY <1>1, <2>1, <2>2
<1> QED
  BY <1>1, <1>2, <1>3, <1>4 DEF Grown

\* What is made of a variable, and what a native function makes of that.
LEMMA DerivedItself ==
  ASSUME NEW rs, NEW D, NEW v \in D
  PROVE  v \in DerivedIn(rs, D, v)
BY DEF DerivedIn

LEMMA DerivedByNative ==
  ASSUME NEW rs, NEW D, NEW u, NEW v, v \in DerivedIn(rs, D, u),
         NEW r \in DOMAIN rs, rs[r].native,
         NEW i \in FillsIn(rs, r, 0), rs[r].ids[i] = v,
         NEW w \in D, NEW g \in Gens(rs[r].bits), rs[r].ids[g] = w
  PROVE  w \in DerivedIn(rs, D, u)
<1> SUFFICES ASSUME NEW W \in SUBSET D, u \in W, FollowsIn(rs, W)
             PROVE  rs[r].ids[g] \in W
  BY DEF DerivedIn
<1>1. v \in W
  BY DEF DerivedIn
<1> QED
  BY <1>1, Zenon DEF FollowsIn

-----------------------------------------------------------------------------
(* Visiting the variables U *)

\* What a traversal never changes: texts, producers, and the variables that
\* have been activated or that nobody produces.
Ahead(vs, ws) ==
    /\ DOMAIN ws = DOMAIN vs
    /\ \A v \in DOMAIN vs :
          /\ ws[v].content = vs[v].content /\ ws[v].ready = vs[v].ready
          /\ ws[v].prod = vs[v].prod
          /\ vs[v].act \/ vs[v].prod = NoProducer => ws[v] = vs[v]

LEMMA AheadTwice ==
  ASSUME NEW us, NEW vs, NEW ws, Ahead(us, vs), Ahead(vs, ws)
  PROVE  Ahead(us, ws)
<1>1. DOMAIN ws = DOMAIN us
  BY DEF Ahead
<1>2. ASSUME NEW v \in DOMAIN us
      PROVE  /\ ws[v].content = us[v].content /\ ws[v].ready = us[v].ready
             /\ ws[v].prod = us[v].prod
             /\ us[v].act \/ us[v].prod = NoProducer => ws[v] = us[v]
  <2>1. /\ ws[v].content = vs[v].content /\ ws[v].ready = vs[v].ready
        /\ ws[v].prod = vs[v].prod
        /\ vs[v].act \/ vs[v].prod = NoProducer => ws[v] = vs[v]
        /\ vs[v].content = us[v].content /\ vs[v].ready = us[v].ready
        /\ vs[v].prod = us[v].prod
        /\ us[v].act \/ us[v].prod = NoProducer => vs[v] = us[v]
    BY DEF Ahead
  <2> QED
    BY <2>1
<1> QED
  BY <1>1, <1>2 DEF Ahead

\* Ready variables stay ready, and their depth is settled.
LEMMA AheadReady ==
  ASSUME NEW vs, NEW ws, Ahead(vs, ws), NEW U, U \subseteq DOMAIN vs, Ready(vs, U)
  PROVE  Ready(ws, U) /\ \A d : IsDepth(vs, U, d) => IsDepth(ws, U, d)
<1>1. \A u \in U : ws[u] = vs[u]
  BY DEF Ahead, Ready
<1> QED
  BY <1>1 DEF Ready, IsDepth

LEMMA DepthOfBoth ==
  ASSUME NEW vs, NEW U, NEW V, NEW c, NEW d, IsDepth(vs, U, c), IsDepth(vs, V, d),
         \A u \in U : vs[u].depth \in Nat, \A u \in V : vs[u].depth \in Nat
  PROVE  IsDepth(vs, U \cup V, Max({d, c}))
<1>1. c \in Nat /\ d \in Nat
  BY DEF IsDepth
<1> DEFINE m == Max({d, c})
<1>2. m \in Nat /\ m >= c /\ m >= d /\ (m = c \/ m = d)
  BY <1>1, MaxOfTwo
<1> HIDE DEF m
<1>3. \A u \in U \cup V : vs[u].depth <= m
  <2> SUFFICES ASSUME NEW u \in U \cup V PROVE vs[u].depth <= m
    OBVIOUS
  <2>1. vs[u].depth \in Nat /\ (vs[u].depth <= c \/ vs[u].depth <= d)
    BY DEF IsDepth
  <2> QED
    BY <1>1, <1>2, <2>1
<1>4. m = 0 \/ \E u \in U \cup V : vs[u].depth = m
  BY <1>2 DEF IsDepth
<1>5. IsDepth(vs, U \cup V, m)
  BY <1>2, <1>3, <1>4 DEF IsDepth
<1> QED
  BY <1>5 DEF m

TraversalsOver(D) ==
    [sv : [D -> SemanticVariables], groups : Seq(SUBSET (Nat \X Nat)),
     depth : Nat, ok : BOOLEAN]

\* Where a visit to a variable, for the chains of group grp, may begin.
Begun(rs, D, st, grp) ==
    /\ st \in TraversalsOver(D) /\ Sound(rs, st.sv)
    /\ grp \in Nat /\ grp <= Len(st.groups)

\* t is what visiting the variables U has made of st.
Visited(rs, D, st, U, grp, t) ==
    /\ t \in TraversalsOver(D)
    /\ Ahead(st.sv, t.sv) /\ Sound(rs, t.sv)
    /\ Grown(rs, D, st.groups, t.groups, grp, U)
    /\ t.ok => st.ok /\ Ready(t.sv, U) /\ IsDepth(t.sv, U, t.depth)

\* A visit to any variable, from anywhere, does that.
Correct(rs, D, visit) ==
    \A st \in TraversalsOver(D), v \in D, grp \in Nat :
        Begun(rs, D, st, grp) => Visited(rs, D, st, {v}, grp, visit[st][v][grp])

\* After one visit another may begin.
LEMMA VisitedBegun ==
  ASSUME NEW rs, NEW D, NEW st, NEW grp, Begun(rs, D, st, grp),
         NEW U, NEW s, Visited(rs, D, st, U, grp, s)
  PROVE  Begun(rs, D, s, grp)
<1>1. /\ s \in TraversalsOver(D) /\ Sound(rs, s.sv) /\ st \in TraversalsOver(D)
      /\ grp \in Nat /\ grp <= Len(st.groups) /\ Len(st.groups) <= Len(s.groups)
  BY DEF Begun, Visited, Grown
<1>2. Len(st.groups) \in Nat /\ Len(s.groups) \in Nat
  BY <1>1 DEF TraversalsOver
<1>3. grp <= Len(s.groups)
  BY <1>1, <1>2
<1> QED
  BY <1>1, <1>3 DEF Begun

\* Another visit; the depth is the larger of the two.
LEMMA VisitedTwice ==
  ASSUME NEW rs, NEW D, NEW st, NEW grp, Begun(rs, D, st, grp),
         NEW U, NEW V, U \subseteq D, V \subseteq D,
         NEW s, NEW t, Visited(rs, D, st, U, grp, s), Visited(rs, D, s, V, grp, t)
  PROVE  Visited(rs, D, st, U \cup V, grp, [t EXCEPT !.depth = Max({@, s.depth})])
<1> DEFINE w == [t EXCEPT !.depth = Max({@, s.depth})]
<1>1. /\ st \in TraversalsOver(D) /\ s \in TraversalsOver(D) /\ t \in TraversalsOver(D)
      /\ grp \in Nat /\ grp <= Len(st.groups)
  BY DEF Begun, Visited
<1>2. /\ s.groups \in Seq(SUBSET (Nat \X Nat)) /\ st.groups \in Seq(SUBSET (Nat \X Nat))
      /\ t.groups \in Seq(SUBSET (Nat \X Nat))
      /\ s.sv \in [D -> SemanticVariables] /\ t.sv \in [D -> SemanticVariables]
      /\ s.depth \in Nat /\ t.depth \in Nat
  BY <1>1 DEF TraversalsOver
<1>3. Grown(rs, D, st.groups, s.groups, grp, U) /\ Grown(rs, D, s.groups, t.groups, grp, V)
  BY DEF Visited
<1>5. /\ w \in TraversalsOver(D) /\ w.sv = t.sv /\ w.groups = t.groups /\ w.ok = t.ok
      /\ w.depth = Max({t.depth, s.depth})
  <2>1. Max({t.depth, s.depth}) \in Nat
    BY <1>2, MaxOfTwo
  <2> QED
    BY <1>1, <2>1 DEF TraversalsOver
<1>6. Grown(rs, D, st.groups, t.groups, grp, U \cup V)
  BY <1>1, <1>2, <1>3, GrownTwice
<1>7. Ahead(st.sv, t.sv)
  BY AheadTwice DEF Visited
<1>8. ASSUME t.ok
      PROVE  st.ok /\ Ready(t.sv, U \cup V)
             /\ IsDepth(t.sv, U \cup V, Max({t.depth, s.depth}))
  <2>1. s.ok /\ Ready(t.sv, V) /\ IsDepth(t.sv, V, t.depth)
    BY <1>8 DEF Visited
  <2>2. st.ok /\ Ready(s.sv, U) /\ IsDepth(s.sv, U, s.depth) /\ Ahead(s.sv, t.sv)
    BY <2>1 DEF Visited
  <2>3. Ready(t.sv, U) /\ IsDepth(t.sv, U, s.depth)
    BY <1>2, <2>2, AheadReady
  <2>4. \A u \in D : t.sv[u].depth \in Nat
    BY <1>2 DEF SemanticVariables
  <2>5. IsDepth(t.sv, U \cup V, Max({t.depth, s.depth}))
    BY <2>1, <2>3, <2>4, DepthOfBoth
  <2> QED
    BY <2>1, <2>2, <2>3, <2>5 DEF Ready
<1>9. Sound(rs, t.sv)
  BY DEF Visited
<1> HIDE DEF w
<1>10. Visited(rs, D, st, U \cup V, grp, w)
  BY <1>5, <1>6, <1>7, <1>8, <1>9 DEF Visited
<1> QED
  BY <1>10 DEF w

-----------------------------------------------------------------------------
(* Several variables in turn *)

\* f[i] is the traversal after the first i variables.
InTurn(visit, st, ids, grp, n, f) ==
    /\ f[0] = [st EXCEPT !.depth = 0]
    /\ \A i \in 1 .. n :
          f[i] = [visit[f[i - 1]][ids[i]][grp] EXCEPT
                    !.depth = Max({@, f[i - 1].depth})]

LEMMA TraverseAllInTurn ==
  ASSUME NEW visit, NEW st, NEW ids, NEW grp, Len(ids) \in Nat
  PROVE  \E f : /\ InTurn(visit, st, ids, grp, Len(ids), f)
                /\ TraverseAll(visit, st, ids, grp) = f[Len(ids)]
<1> DEFINE n == Len(ids)
           a == [st EXCEPT !.depth = 0]
           next(acc, i) == [visit[acc][ids[i]][grp] EXCEPT
                              !.depth = Max({@, acc.depth})]
           Is(f, k) == f = [i \in 0 .. k |-> IF i = 0 THEN a ELSE next(f[i - 1], i)]
           P == {k \in Nat : \E f : Is(f, k)}
<1>1. 0 \in P
  <2> HIDE DEF a, next
  <2>1. Is([i \in 0 .. 0 |-> a], 0)
    OBVIOUS
  <2> QED
    BY <2>1, Zenon
<1>2. ASSUME NEW k \in Nat, k \in P PROVE k + 1 \in P
  <2> HIDE DEF a, next
  <2>1. PICK f : Is(f, k)
    BY <1>2
  <2> DEFINE h == [i \in 0 .. (k + 1) |-> IF i = k + 1 THEN next(f[k], k + 1) ELSE f[i]]
  <2>2. \A i \in 0 .. k : h[i] = f[i] /\ f[i] = IF i = 0 THEN a ELSE next(f[i - 1], i)
    BY <2>1
  <2>3. h[k + 1] = next(f[k], k + 1) /\ h[k] = f[k]
    OBVIOUS
  <2>4. DOMAIN h = 0 .. (k + 1)
    OBVIOUS
  <2>5. \A i \in 0 .. (k + 1) : h[i] = IF i = 0 THEN a ELSE next(h[i - 1], i)
    <3> HIDE DEF h
    <3> SUFFICES ASSUME NEW i \in 0 .. (k + 1)
                 PROVE  h[i] = IF i = 0 THEN a ELSE next(h[i - 1], i)
      OBVIOUS
    <3>1. CASE i = k + 1
      <4>1. i # 0 /\ i - 1 = k
        BY <3>1
      <4> QED
        BY <2>3, <3>1, <4>1
    <3>2. CASE i \in 0 .. k
      <4>1. i = 0 \/ i - 1 \in 0 .. k
        BY <3>2
      <4> QED
        BY <2>2, <3>2, <4>1
    <3> QED
      BY <3>1, <3>2
  <2>6. h = [i \in 0 .. (k + 1) |-> h[i]]
    OBVIOUS
  <2> HIDE DEF h
  <2>7. Is(h, k + 1)
    BY <2>4, <2>5, <2>6
  <2> QED
    BY <2>7, k + 1 \in Nat, Zenon
<1> HIDE DEF P
<1>3. n \in P
  BY <1>1, <1>2, SetInduction
<1> DEFINE upTo == CHOOSE f : Is(f, n)
<1>4. Is(upTo, n)
  <2> HIDE DEF a, next
  <2> QED
    BY <1>3 DEF P
<1>5. TraverseAll(visit, st, ids, grp) = upTo[n]
  BY Zenon DEF TraverseAll
<1> HIDE DEF upTo
<1>6. upTo[0] = a /\ \A i \in 1 .. n : upTo[i] = next(upTo[i - 1], i)
  <2> HIDE DEF a, next
  <2> QED
    BY <1>4
<1>7. InTurn(visit, st, ids, grp, n, upTo)
  BY <1>6, Zenon DEF InTurn
<1> QED
  BY <1>5, <1>7

LEMMA AllVisited ==
  ASSUME NEW rs, NEW D, NEW visit, Correct(rs, D, visit),
         NEW st, NEW grp, Begun(rs, D, st, grp), NEW ids \in Seq(D)
  PROVE  Visited(rs, D, st, {ids[i] : i \in 1 .. Len(ids)}, grp,
                 TraverseAll(visit, st, ids, grp))
<1> DEFINE n == Len(ids)
           U(k) == {ids[i] : i \in 1 .. k}
<1>1. n \in Nat /\ \A i \in 1 .. n : ids[i] \in D
  OBVIOUS
<1>2. PICK f : InTurn(visit, st, ids, grp, n, f) /\ TraverseAll(visit, st, ids, grp) = f[n]
  BY <1>1, TraverseAllInTurn
<1> HIDE DEF n
<1> DEFINE P == {k \in Nat : k <= n => Visited(rs, D, st, U(k), grp, f[k])}
<1>3. 0 \in P
  <2>1. f[0] = [st EXCEPT !.depth = 0]
    BY <1>2, Zenon DEF InTurn
  <2>2. st \in TraversalsOver(D) /\ Sound(rs, st.sv)
    BY DEF Begun
  <2>3. /\ f[0] \in TraversalsOver(D) /\ f[0].sv = st.sv /\ f[0].groups = st.groups
        /\ f[0].depth = 0 /\ f[0].ok = st.ok
    BY <2>1, <2>2 DEF TraversalsOver
  <2>4. Ahead(st.sv, f[0].sv) /\ U(0) = {}
    BY <2>3 DEF Ahead
  <2>5. Grown(rs, D, st.groups, f[0].groups, grp, U(0))
    <3>1. Len(st.groups) \in Nat
      BY <2>2 DEF TraversalsOver
    <3> QED
      BY <2>3, <3>1 DEF Grown
  <2>6. Ready(f[0].sv, U(0)) /\ IsDepth(f[0].sv, U(0), f[0].depth)
    BY <2>3, <2>4 DEF Ready, IsDepth
  <2>7. Visited(rs, D, st, U(0), grp, f[0])
    BY <2>2, <2>3, <2>4, <2>5, <2>6 DEF Visited
  <2> QED
    BY <2>7
<1>4. ASSUME NEW k \in Nat, k \in P PROVE k + 1 \in P
  <2> SUFFICES ASSUME k + 1 <= n
               PROVE  Visited(rs, D, st, U(k + 1), grp, f[k + 1])
    OBVIOUS
  <2>1. Visited(rs, D, st, U(k), grp, f[k])
    BY <1>1, <1>4
  <2>2. k + 1 \in 1 .. n /\ ids[k + 1] \in D /\ (k + 1) - 1 = k
    BY <1>1
  <2>3. U(k + 1) = U(k) \cup {ids[k + 1]} /\ U(k) \subseteq D /\ {ids[k + 1]} \subseteq D
    <3>1. 1 .. (k + 1) = (1 .. k) \cup {k + 1} /\ 1 .. k \subseteq 1 .. n
      BY <1>1, <2>2
    <3>2. U(k + 1) = U(k) \cup {ids[k + 1]}
      BY <3>1
    <3>3. U(k) \subseteq D
      BY <1>1, <3>1
    <3> QED
      BY <2>2, <3>2, <3>3
  <2> DEFINE s == f[k]
             v == ids[k + 1]
             t == visit[s][v][grp]
  <2>4. f[k + 1] = [t EXCEPT !.depth = Max({@, s.depth})]
    BY <1>2, <2>2, Zenon DEF InTurn
  <2> HIDE DEF U, v, s
  <2>5. Begun(rs, D, s, grp)
    BY <2>1, VisitedBegun DEF s
  <2>6. s \in TraversalsOver(D) /\ grp \in Nat /\ v \in D
    BY <2>2, <2>5 DEF Begun, v
  <2>7. Visited(rs, D, s, {v}, grp, t)
    BY <2>5, <2>6 DEF Correct
  <2> HIDE DEF t
  <2>8. Visited(rs, D, st, U(k) \cup {v}, grp, [t EXCEPT !.depth = Max({@, s.depth})])
    BY <2>1, <2>3, <2>7, VisitedTwice DEF s, v
  <2> QED
    BY <2>3, <2>4, <2>8, Zenon DEF v
<1> HIDE DEF P
<1>5. n \in P
  BY <1>1, <1>3, <1>4, SetInduction
<1>6. Visited(rs, D, st, U(n), grp, f[n])
  BY <1>1, <1>5 DEF P
<1> QED
  BY <1>2, <1>6 DEF n

-----------------------------------------------------------------------------
(* One variable *)

\* q lists what f has at the positions S.
Lists(q, D, f, S) ==
    q \in Seq(D) /\ {q[i] : i \in 1 .. Len(q)} = {f[k] : k \in S}

LEMMA IdsAtElements ==
  ASSUME NEW req, NEW n \in Nat, NEW D, req.ids \in [1 .. n -> D],
         NEW S, S \subseteq 1 .. n
  PROVE  Lists(IdsAt(req, S), D, req.ids, S)
<1> DEFINE q == req.ids
           c == Cardinality(S)
           l == SelectAt(q, S)
<1>1. q \in Seq(D) /\ S \in SUBSET (1 .. Len(q))
  OBVIOUS
<1>2. PICK p \in [1 .. c -> S] :
         /\ \A k \in S : \E i \in 1 .. c : p[i] = k
         /\ \A i \in 1 .. c : l[i] = q[p[i]]
  BY <1>1, Selected
<1>3. l \in Seq(D) /\ Len(l) = c
  BY <1>1, Selected
<1> HIDE DEF q, c, l
<1>4. {l[i] : i \in 1 .. c} = {q[k] : k \in S}
  <2>1. ASSUME NEW i \in 1 .. c PROVE l[i] \in {q[k] : k \in S}
    <3>1. p[i] \in S /\ l[i] = q[p[i]]
      BY <1>2
    <3> QED
      BY <3>1
  <2>2. ASSUME NEW k \in S PROVE q[k] \in {l[i] : i \in 1 .. c}
    <3>1. PICK i \in 1 .. c : p[i] = k
      BY <1>2
    <3>2. l[i] = q[k]
      BY <1>2, <3>1
    <3> QED
      BY <3>2
  <2> QED
    BY <2>1, <2>2
<1>5. IdsAt(req, S) = l
  BY DEF IdsAt, l, q
<1> QED
  BY <1>3, <1>4, <1>5 DEF q, Lists

\* v has an output position in a request of the graph.
LEMMA OwnedFacts ==
  ASSUME NEW rs, NEW vs, WellFormed(rs, vs), NEW v \in DOMAIN vs, vs[v].prod[1] # 0
  PROVE  /\ vs[v].prod # NoProducer
         /\ vs[v].prod[1] \in DOMAIN rs
         /\ vs[v].prod[2] \in Gens(rs[vs[v].prod[1]].bits)
         /\ rs[vs[v].prod[1]].ids[vs[v].prod[2]] = v
         /\ NeededIn(rs, vs, v) =
              {rs[vs[v].prod[1]].ids[i] : i \in FillsIn(rs, vs[v].prod[1], vs[v].prod[2])}
<1>1. Owned(rs, vs, v)
  BY DEF WellFormed, Untouched, NoProducer
<1>2. PICK r \in DOMAIN rs : \E g \in Gens(rs[r].bits) :
                                  vs[v].prod = <<r, g>> /\ rs[r].ids[g] = v
  BY <1>1 DEF Owned
<1>3. PICK g \in Gens(rs[r].bits) : vs[v].prod = <<r, g>> /\ rs[r].ids[g] = v
  BY <1>2
<1>4. vs[v].prod[1] = r /\ vs[v].prod[2] = g
  BY <1>3
<1>5. vs[v].prod # NoProducer
  BY DEF NoProducer
<1>6. NeededIn(rs, vs, v) = {rs[r].ids[i] : i \in FillsIn(rs, r, g)}
  BY <1>4 DEF NeededIn
<1> QED
  BY <1>3, <1>4, <1>5, <1>6

\* The last step of a visit: v is activated when its inputs are ready.
Settles(rs, D, s, v, t) ==
    /\ t \in TraversalsOver(D)
    /\ Ahead(s.sv, t.sv) /\ Sound(rs, t.sv) /\ t.groups = s.groups
    /\ t.ok => s.ok /\ Ready(t.sv, {v}) /\ IsDepth(t.sv, {v}, t.depth)

LEMMA FailedSettles ==
  ASSUME NEW rs, NEW D, NEW s \in TraversalsOver(D), Sound(rs, s.sv), NEW v
  PROVE  Settles(rs, D, s, v, Failed(s))
<1>1. /\ Failed(s) \in TraversalsOver(D) /\ Failed(s).sv = s.sv
      /\ Failed(s).groups = s.groups /\ Failed(s).ok = FALSE
  BY DEF Failed, TraversalsOver
<1>2. Ahead(s.sv, s.sv)
  BY DEF Ahead
<1> QED
  BY <1>1, <1>2 DEF Settles

LEMMA ActivateSettles ==
  ASSUME NEW rs, NEW D, NEW s \in TraversalsOver(D), Sound(rs, s.sv), NEW v \in D,
         s.sv[v].prod[1] # 0, NEW crit \in Criteria, NEW depth \in Nat,
         s.ok => /\ Ready(s.sv, NeededIn(rs, s.sv, v))
                 /\ \E d : /\ IsDepth(s.sv, NeededIn(rs, s.sv, v), d)
                           /\ depth = d + Extra(rs, s.sv, v)
  PROVE  Settles(rs, D, s, v, Activate(s, v, crit, depth))
<1> DEFINE vs == s.sv
           x == [vs[v] EXCEPT !.act = TRUE, !.depth = depth, !.crit = crit]
           ws == [vs EXCEPT ![v] = x]
           t == Activate(s, v, crit, depth)
<1>1. vs \in [D -> SemanticVariables] /\ DOMAIN vs = D
  BY DEF TraversalsOver
<1>2. CASE ~ (s.ok /\ ~ s.sv[v].act)
  <2>1. t = Failed(s)
    BY <1>2 DEF Activate
  <2> QED
    BY <2>1, FailedSettles
<1>3. CASE s.ok /\ ~ s.sv[v].act
  <2>1. t = [s EXCEPT !.sv = ws, !.depth = depth]
    BY <1>3 DEF Activate, TraversalsOver
  <2>2. vs[v] \in SemanticVariables /\ x \in SemanticVariables
    <3>1. vs[v] \in SemanticVariables
      BY <1>1
    <3> HIDE DEF vs
    <3>2. x \in SemanticVariables
      BY <3>1 DEF SemanticVariables
    <3> QED
      BY <3>1, <3>2
  <2>3. /\ x.content = vs[v].content /\ x.ready = vs[v].ready /\ x.prod = vs[v].prod
        /\ x.act = TRUE /\ x.depth = depth
    BY <2>2 DEF SemanticVariables
  <2> HIDE DEF x
  <2>4. ws \in [D -> SemanticVariables] /\ ws[v] = x /\ \A u \in D \ {v} : ws[u] = vs[u]
    BY <1>1, <2>2
  <2> HIDE DEF ws
  <2>5. /\ t \in TraversalsOver(D) /\ t.sv = ws /\ t.groups = s.groups
        /\ t.ok = s.ok /\ t.depth = depth
    BY <2>1, <2>4 DEF TraversalsOver
  <2> HIDE DEF vs, t
  <2>6. vs[v].act = FALSE
    BY <1>1, <1>3 DEF SemanticVariables, vs
  <2>7. vs[v].prod # NoProducer
    BY DEF vs, NoProducer
  <2>8. Ahead(vs, ws)
    <3>1. DOMAIN ws = D
      BY <2>4
    <3> QED
      BY <1>1, <2>3, <2>4, <2>6, <2>7, <3>1 DEF Ahead
  <2>9. PICK d : /\ IsDepth(vs, NeededIn(rs, vs, v), d)
                 /\ depth = d + Extra(rs, vs, v)
    BY <1>3 DEF vs
  <2>10. Ready(vs, NeededIn(rs, vs, v))
    BY <1>3 DEF vs
  <2>11. Activates(vs, ws, v, d + Extra(rs, vs, v))
    BY <1>1, <2>3, <2>4, <2>9 DEF Activates
  <2>12. Sound(rs, ws)
    <3>1. Sound(rs, vs) /\ v \in DOMAIN vs
      BY <1>1 DEF vs
    <3> QED
      BY <2>6, <2>7, <2>9, <2>10, <2>11, <3>1, ActivatedSound
  <2>13. Ready(ws, {v}) /\ IsDepth(ws, {v}, depth)
    BY <2>3, <2>4 DEF Ready, IsDepth
  <2>14. Settles(rs, D, s, v, t)
    BY <1>3, <2>5, <2>8, <2>12, <2>13 DEF Settles, vs
  <2> QED
    BY <2>14 DEF t
<1> QED
  BY <1>2, <1>3

\* A visit to what v is made of, settled by v itself.
LEMMA VisitedThenSettled ==
  ASSUME NEW rs, NEW D, NEW st, NEW U, NEW grp, NEW s, NEW v, NEW t,
         st.groups \in Seq(SUBSET (Nat \X Nat)),
         Ahead(st.sv, s.sv), s.ok => st.ok, Grown(rs, D, st.groups, s.groups, grp, {v}),
         Settles(rs, D, s, v, t)
  PROVE  Visited(rs, D, st, {v}, grp, t)
<1>1. Ahead(st.sv, t.sv)
  BY AheadTwice DEF Settles
<1>2. t.groups = s.groups
  BY DEF Settles
<1> QED
  BY <1>1, <1>2 DEF Settles, Visited

\* A native function.
LEMMA NativeVisited ==
  ASSUME NEW rs, NEW D, NEW visit, Correct(rs, D, visit),
         NEW st, NEW grp, Begun(rs, D, st, grp), NEW v \in D,
         NEW r, st.sv[v].prod[1] = r, r # 0, rs[r].native,
         NEW crit \in Criteria
  PROVE  Visited(rs, D, st, {v}, grp, TraverseNative(visit, rs, st, v, crit, grp, r))
<1> DEFINE vs == st.sv
           g == vs[v].prod[2]
           I == DOMAIN rs[r].ids \ Gens(rs[r].bits)
           ids == IdsAt(rs[r], I)
           U == {rs[r].ids[i] : i \in I}
           s == TraverseAll(visit, st, ids, grp)
           t == Activate(s, v, crit, s.depth)
<1>1. st \in TraversalsOver(D) /\ Sound(rs, vs) /\ WellFormed(rs, vs) /\ grp \in Nat
  BY DEF Begun, Sound
<1>2. DOMAIN vs = D /\ st.groups \in Seq(SUBSET (Nat \X Nat))
  BY <1>1 DEF TraversalsOver
<1>3. /\ r \in DOMAIN rs /\ g \in Gens(rs[r].bits) /\ rs[r].ids[g] = v
      /\ NeededIn(rs, vs, v) = {rs[r].ids[i] : i \in FillsIn(rs, r, g)}
  BY <1>1, <1>2, OwnedFacts
<1>4. NeededIn(rs, vs, v) = U /\ FillsIn(rs, r, 0) = I
  BY <1>3 DEF FillsIn
<1>5. PICK n \in Nat : rs[r].bits \in [1 .. n -> BOOLEAN] /\ rs[r].ids \in [1 .. n -> D]
  BY <1>1, <1>2, <1>3 DEF WellFormed, Request
<1>6. I \subseteq 1 .. n /\ U \subseteq D
  BY <1>5
<1>7. ids \in Seq(D) /\ {ids[i] : i \in 1 .. Len(ids)} = U
  <2> HIDE DEF I
  <2>1. Lists(ids, D, rs[r].ids, I)
    BY <1>5, <1>6, IdsAtElements
  <2> HIDE DEF ids
  <2> QED
    BY <2>1 DEF Lists
<1> HIDE DEF ids, g, I, U
<1>8. Visited(rs, D, st, U, grp, s)
  BY <1>7, AllVisited
<1> HIDE DEF s, vs
<1>9. /\ s \in TraversalsOver(D) /\ Sound(rs, s.sv) /\ s.depth \in Nat
      /\ Ahead(vs, s.sv)
      /\ s.ok => st.ok /\ Ready(s.sv, U) /\ IsDepth(s.sv, U, s.depth)
      /\ Grown(rs, D, st.groups, s.groups, grp, U)
  BY <1>8 DEF Visited, TraversalsOver, vs
<1>10. s.sv[v].prod = vs[v].prod
  BY <1>2, <1>9 DEF Ahead
<1>11. NeededIn(rs, s.sv, v) = U /\ Extra(rs, s.sv, v) = 0
  <2>1. NeededIn(rs, s.sv, v) = NeededIn(rs, vs, v)
    BY <1>10, NeededSame
  <2> QED
    BY <1>4, <1>10, <2>1 DEF Extra, vs
<1>12. Settles(rs, D, s, v, t)
  <2>1. s.sv[v].prod[1] # 0
    BY <1>10 DEF vs
  <2>2. s.depth = s.depth + 0
    BY <1>9
  <2>3. s.ok => /\ Ready(s.sv, NeededIn(rs, s.sv, v))
                /\ \E d : /\ IsDepth(s.sv, NeededIn(rs, s.sv, v), d)
                          /\ s.depth = d + Extra(rs, s.sv, v)
    BY <1>9, <1>11, <2>2
  <2> QED
    BY <1>9, <2>1, <2>3, ActivateSettles
<1>13. Grown(rs, D, st.groups, s.groups, grp, {v})
  <2>1. ASSUME NEW x, NEW u \in U, Linked(rs, D, x, u) PROVE Linked(rs, D, x, v)
    <3>1. ChainIn(rs, x)
      BY <2>1 DEF Linked
    <3>2. CASE Cardinality(Gens(rs[x[1]].bits)) = 1
      <4> DEFINE w == rs[x[1]].ids[x[2]]
      <4>1. u \in DerivedIn(rs, D, w)
        BY <2>1, <3>2 DEF Linked
      <4>2. w \in D
        <5>1. x[1] \in DOMAIN rs /\ x[2] \in Gens(rs[x[1]].bits)
          BY <3>1 DEF ChainIn
        <5>2. PICK m \in Nat : rs[x[1]].bits \in [1 .. m -> BOOLEAN] /\ rs[x[1]].ids \in [1 .. m -> D]
          BY <1>1, <1>2, <5>1 DEF WellFormed, Request
        <5> QED
          BY <5>1, <5>2 DEF Gens
      <4> HIDE DEF w
      <4>3. PICK i \in FillsIn(rs, r, 0) : rs[r].ids[i] = u
        BY <1>4, <2>1 DEF U
      <4>4. u \in D
        BY <1>6, <2>1
      <4>5. v \in DerivedIn(rs, D, w)
        BY <1>3, <4>1, <4>3, DerivedByNative
      <4> QED
        BY <3>1, <4>5, Zenon DEF Linked, w
    <3> QED
      BY <3>1, <3>2, Zenon DEF Linked
  <2> QED
    BY <1>9, <2>1, Zenon DEF Grown
<1>14. Visited(rs, D, st, {v}, grp, t)
  BY <1>2, <1>9, <1>12, <1>13, VisitedThenSettled DEF vs
<1>15. TraverseNative(visit, rs, st, v, crit, grp, r) = t
  BY Zenon DEF TraverseNative, t, s, ids, I
<1> QED
  BY <1>14, <1>15

\* The chain joins the group of its consumer, and a group begins.
Entered(D, st, grp, x, t) ==
    /\ t \in TraversalsOver(D) /\ t.sv = st.sv /\ t.ok = st.ok
    /\ Len(st.groups) \in Nat /\ Len(t.groups) = Len(st.groups) + 1
    /\ t.groups[Len(st.groups) + 1] = {}
    /\ \A k \in 1 .. Len(st.groups) : \A y \in t.groups[k] :
          y \in st.groups[k] \/ (k = grp /\ y = x)

LEMMA EnteredGroup ==
  ASSUME NEW D, NEW st \in TraversalsOver(D), NEW grp \in Nat,
         grp <= Len(st.groups), NEW x \in Nat \X Nat
  PROVE  Entered(D, st, grp, x, EnterGroup(st, grp, x))
<1> DEFINE t == EnterGroup(st, grp, x)
           gs == st.groups
           hs == Joined(st, grp, x)
           n == Len(gs)
           G == SUBSET (Nat \X Nat)
<1>1. gs \in Seq(G) /\ n \in Nat
  BY DEF TraversalsOver
<1>2. /\ hs \in Seq(G) /\ Len(hs) = n
      /\ \A k \in 1 .. n : \A y \in hs[k] : y \in gs[k] \/ (k = grp /\ y = x)
  <2>1. CASE grp = 0
    <3>1. hs = gs
      BY <2>1 DEF Joined
    <3> QED
      BY <1>1, <3>1
  <2>2. CASE grp # 0
    <3>1. grp \in 1 .. n
      BY <1>1, <2>2
    <3> DEFINE e == gs[grp] \cup {x}
    <3>2. hs = [gs EXCEPT ![grp] = e]
      BY <2>2 DEF Joined
    <3> HIDE DEF G
    <3>3. {x} \in G /\ gs[grp] \in G
      <4>1. gs[grp] \in G
        BY <1>1, <3>1
      <4> QED
        BY <4>1 DEF G
    <3>4. e \in G
      BY <3>3 DEF G
    <3> HIDE DEF e
    <3>5. hs \in Seq(G) /\ Len(hs) = n
      BY <1>1, <3>1, <3>2, <3>4
    <3>6. \A k \in 1 .. n : hs[k] = IF k = grp THEN e ELSE gs[k]
      BY <1>1, <3>1, <3>2
    <3> QED
      BY <3>5, <3>6 DEF e
  <2> QED
    BY <2>1, <2>2
<1> HIDE DEF hs, G
<1>3. t = [st EXCEPT !.groups = Append(hs, {})]
  BY Zenon DEF EnterGroup, hs
<1>4. /\ Append(hs, {}) \in Seq(G) /\ Len(Append(hs, {})) = n + 1
      /\ Append(hs, {})[n + 1] = {} /\ \A k \in 1 .. n : Append(hs, {})[k] = hs[k]
  <2> DEFINE e == {}
  <2>1. e \in G
    BY DEF G
  <2> HIDE DEF n, gs, e
  <2>2. /\ Append(hs, e) \in Seq(G) /\ Len(Append(hs, e)) = n + 1
        /\ Append(hs, e)[n + 1] = e
    BY <1>1, <1>2, <2>1
  <2>3. ASSUME NEW k \in 1 .. n PROVE Append(hs, e)[k] = hs[k]
    BY <1>1, <1>2, <2>1
  <2> QED
    BY <2>2, <2>3 DEF e
<1>5. /\ t \in TraversalsOver(D) /\ t.sv = st.sv /\ t.ok = st.ok
      /\ t.groups = Append(hs, {})
  BY <1>3, <1>4 DEF TraversalsOver, G
<1> HIDE DEF t
<1>6. Entered(D, st, grp, x, t)
  BY <1>1, <1>2, <1>4, <1>5 DEF Entered
<1> QED
  BY <1>6 DEF t

\* A visited variable whose chain has not been claimed, or that has been
\* activated.
LEMMA SkippedVisited ==
  ASSUME NEW rs, NEW D, NEW st, NEW grp, Begun(rs, D, st, grp), NEW v \in D
  PROVE  /\ Visited(rs, D, st, {v}, grp, Failed(st))
         /\ st.sv[v].act /\ st.ok
               => Visited(rs, D, st, {v}, grp, [st EXCEPT !.depth = st.sv[v].depth])
         /\ st.sv[v].prod[1] = 0 /\ st.ok
               => Visited(rs, D, st, {v}, grp, [st EXCEPT !.depth = 0])
<1>1. st \in TraversalsOver(D) /\ Sound(rs, st.sv)
  BY DEF Begun
<1>2. /\ st.groups \in Seq(SUBSET (Nat \X Nat)) /\ Len(st.groups) \in Nat
      /\ st.sv \in [D -> SemanticVariables]
  BY <1>1 DEF TraversalsOver
<1>3. Ahead(st.sv, st.sv) /\ Grown(rs, D, st.groups, st.groups, grp, {v})
  BY <1>2 DEF Ahead, Grown
<1>4. Visited(rs, D, st, {v}, grp, Failed(st))
  BY <1>1, <1>2, <1>3, FailedSettles, VisitedThenSettled
<1> DEFINE t(d) == [st EXCEPT !.depth = d]
<1>5. ASSUME NEW d \in Nat, st.ok, Ready(st.sv, {v}), st.sv[v].depth = d
      PROVE  Visited(rs, D, st, {v}, grp, t(d))
  <2>1. /\ t(d) \in TraversalsOver(D) /\ t(d).sv = st.sv /\ t(d).groups = st.groups
        /\ t(d).ok = st.ok /\ t(d).depth = d
    BY <1>1 DEF TraversalsOver
  <2> HIDE DEF t
  <2>2. IsDepth(st.sv, {v}, d)
    BY <1>5 DEF IsDepth
  <2> QED
    BY <1>1, <1>3, <1>5, <2>1, <2>2 DEF Visited
<1>6. st.sv[v].depth \in Nat
  BY <1>2 DEF SemanticVariables
<1>7. ASSUME st.sv[v].act, st.ok
      PROVE  Visited(rs, D, st, {v}, grp, t(st.sv[v].depth))
  <2>1. Ready(st.sv, {v})
    BY <1>7 DEF Ready
  <2> QED
    BY <1>5, <1>6, <1>7, <2>1, Zenon
<1>8. ASSUME st.sv[v].prod[1] = 0, st.ok
      PROVE  Visited(rs, D, st, {v}, grp, t(0))
  <2>1. Untouched(st.sv, v)
    <3>1. Untouched(st.sv, v) \/ Owned(rs, st.sv, v)
      BY <1>1, <1>2 DEF Sound, WellFormed
    <3>2. ~ Owned(rs, st.sv, v)
      BY <1>1, <1>8 DEF Sound, WellFormed, Owned
    <3> QED
      BY <3>1, <3>2
  <2>2. Ready(st.sv, {v}) /\ st.sv[v].depth = 0
    BY <2>1 DEF Untouched, Ready
  <2> QED
    BY <1>5, <1>8, <2>2
<1> QED
  BY <1>4, <1>7, <1>8

\* A semantic request.
LEMMA GenVisited ==
  ASSUME NEW rs, NEW D, NEW visit, Correct(rs, D, visit),
         NEW st, NEW grp, Begun(rs, D, st, grp), NEW v \in D,
         NEW r, st.sv[v].prod[1] = r, r # 0, ~ rs[r].native,
         NEW g, st.sv[v].prod[2] = g, NEW crit \in Criteria, st.ok
  PROVE  Visited(rs, D, st, {v}, grp, TraverseGen(visit, rs, st, v, crit, grp, r, g))
<1> DEFINE vs == st.sv
           b == rs[r].bits
           c == CompChainOf(b, g)
           f == CompletionChainFirst(b, c)
           x == <<r, c>>
           begun == EnterGroup(st, grp, x)
           before == {f - 1} \ {0}
           grp1 == Len(begun.groups)
           I == IterFillFrom(b, f)
           ids == IdsAt(rs[r], I)
           U == {rs[r].ids[i] : i \in I}
           fills == TraverseAll(visit, begun, ids, grp1)
           ids2 == IdsAt(rs[r], before)
           all == TraverseAll(visit, fills, ids2, grp1)
           depth == IF I \cup before = {} THEN 0 ELSE Max({fills.depth, all.depth}) + 1
           t == Activate(all, v, crit, depth)
           n == Len(st.groups)
<1>0. TraverseGen(visit, rs, st, v, crit, grp, r, g) =
        IF c = 0 THEN Failed(st)
        ELSE IF st.sv[v].act THEN [st EXCEPT !.depth = st.sv[v].depth]
        ELSE IF \E p \in before : ~ b[p] THEN Failed(fills)
        ELSE t
  BY Zenon DEF TraverseGen
<1>1. st \in TraversalsOver(D) /\ Sound(rs, vs) /\ WellFormed(rs, vs)
      /\ grp \in Nat /\ grp <= n
  BY DEF Begun, Sound
<1>2. DOMAIN vs = D /\ st.groups \in Seq(SUBSET (Nat \X Nat))
  BY <1>1 DEF TraversalsOver
<1>3. /\ r \in DOMAIN rs /\ g \in Gens(b) /\ rs[r].ids[g] = v
      /\ NeededIn(rs, vs, v) = {rs[r].ids[i] : i \in FillsIn(rs, r, g)}
      /\ vs[v].prod # NoProducer
  BY <1>1, <1>2, OwnedFacts
<1>4. PICK m \in Nat : /\ b \in [1 .. m -> BOOLEAN] /\ rs[r].ids \in [1 .. m -> D]
                       /\ m > 0 /\ b[1] = FALSE
  BY <1>1, <1>2, <1>3 DEF WellFormed, Request
<1> HIDE DEF b, c
<1>5. CASE c = 0 \/ st.sv[v].act
  <2> HIDE DEF t, fills, before, vs
  <2>1. CASE c = 0
    BY <1>0, <2>1, SkippedVisited
  <2>2. CASE c # 0 /\ st.sv[v].act
    <3>1. TraverseGen(visit, rs, st, v, crit, grp, r, g) = [st EXCEPT !.depth = st.sv[v].depth]
      BY <1>0, <2>2
    <3>2. Visited(rs, D, st, {v}, grp, [st EXCEPT !.depth = st.sv[v].depth])
      BY <2>2, SkippedVisited, Zenon
    <3> QED
      BY <3>1, <3>2, Zenon
  <2> QED
    BY <1>5, <2>1, <2>2
<1>6. CASE c # 0 /\ ~ st.sv[v].act
  <2>1. /\ c \in Gens(b) /\ (Gens(b) = {g} => c = g)
        /\ f \in 1 .. m
        /\ \/ f > 1 /\ b[f - 1] = FALSE
           \/ /\ f = 1 /\ CompletionChainFirst(b, g) = 1
              /\ 1 \in IterFillFrom(b, 1)
    BY <1>3, <1>4, <1>6, ClaimingChain DEF c
  <2>2. I \subseteq 1 .. m /\ U \subseteq D /\ c \in 1 .. m
    BY <1>4, <2>1 DEF IterFillFrom, Gens
  <2>3. FillsIn(rs, r, c) = I
    BY DEF FillsIn, b
  <2>4. x \in Nat \X Nat
    BY <1>1, <1>3, <2>2 DEF WellFormed
  <2> HIDE DEF f, I, U, ids, begun, before, fills, ids2, all, x, t
  <2>5. /\ begun \in TraversalsOver(D) /\ begun.sv = vs /\ begun.ok = st.ok
        /\ n \in Nat /\ grp1 = n + 1 /\ begun.groups[n + 1] = {}
        /\ \A k \in 1 .. n : \A y \in begun.groups[k] :
              y \in st.groups[k] \/ (k = grp /\ y = x)
    <3>1. Entered(D, st, grp, x, begun)
      BY <1>1, <2>4, EnteredGroup DEF begun
    <3> QED
      BY <3>1 DEF Entered
  <2>6. Begun(rs, D, begun, grp1)
    BY <1>1, <2>5 DEF Begun
  <2>7. ids \in Seq(D) /\ {ids[i] : i \in 1 .. Len(ids)} = U
    <3>1. Lists(ids, D, rs[r].ids, I)
      BY <1>4, <2>2, IdsAtElements DEF ids
    <3> QED
      BY <3>1 DEF Lists, U
  <2>8. Visited(rs, D, begun, U, grp1, fills)
    <3> HIDE DEF grp1
    <3> QED
      BY <2>6, <2>7, AllVisited DEF fills
  <2>9. Linked(rs, D, x, v)
    <3>1. ChainIn(rs, x) /\ x[1] = r /\ x[2] = c
      BY <1>3, <2>1 DEF ChainIn, x, b
    <3>2. ASSUME Cardinality(Gens(b)) = 1
          PROVE  v \in DerivedIn(rs, D, rs[r].ids[c])
      <4>1. Gens(b) \subseteq 1 .. m
        BY <1>4 DEF Gens
      <4>2. IsFiniteSet(Gens(b))
        BY <1>4, <4>1, UpToCounted, FS_Subset
      <4>3. Gens(b) = {g}
        BY <1>3, <3>2, <4>2, FS_Singleton
      <4>4. rs[r].ids[c] = v
        BY <1>3, <2>1, <4>3
      <4> QED
        BY <4>4, DerivedItself
    <3> QED
      BY <3>1, <3>2, Zenon DEF Linked, b
  <2>10. ASSUME NEW s, Grown(rs, D, begun.groups, s.groups, grp1, U),
                s \in TraversalsOver(D)
         PROVE  Grown(rs, D, st.groups, s.groups, grp, {v})
    <3>1. s.groups \in Seq(SUBSET (Nat \X Nat)) /\ Len(s.groups) \in Nat
      BY <2>10 DEF TraversalsOver
    <3>2. n + 1 <= Len(s.groups)
      BY <2>5, <2>10 DEF Grown
    <3>3. ASSUME NEW k \in 1 .. n, NEW y \in s.groups[k]
          PROVE  y \in st.groups[k] \/ (k = grp /\ \E u \in {v} : Linked(rs, D, y, u))
      <4>1. k \in 1 .. (n + 1) /\ k # n + 1
        BY <2>5
      <4>2. y \in begun.groups[k]
        BY <2>5, <2>10, <4>1 DEF Grown
      <4> QED
        BY <2>5, <2>9, <4>2
    <3>4. HasConsumer(rs, D, s.groups[n + 1])
      <4>1. n + 1 \in 1 .. (n + 1)
        BY <2>5
      <4>2. \A y \in s.groups[n + 1] : \E u \in U : Linked(rs, D, y, u)
        BY <2>5, <2>10, <4>1 DEF Grown
      <4>3. Consumes(rs, D, r, c, s.groups[n + 1])
        BY <2>3, <4>2, Zenon DEF Consumes, U
      <4> QED
        BY <1>3, <2>1, <4>3, Zenon DEF HasConsumer, b
    <3>5. ASSUME NEW k \in 1 .. Len(s.groups), k > n
          PROVE  HasConsumer(rs, D, s.groups[k])
      <4>1. k = n + 1 \/ k > n + 1
        BY <2>5, <3>1, <3>5
      <4>2. CASE k > n + 1
        BY <2>5, <2>10, <4>2 DEF Grown
      <4> QED
        BY <3>4, <4>1, <4>2
    <3> QED
      BY <2>5, <3>1, <3>2, <3>3, <3>5 DEF Grown
  <2>11. CASE f > 1 /\ b[f - 1] = FALSE
    <3>1. TraverseGen(visit, rs, st, v, crit, grp, r, g) = Failed(fills)
      <4>1. f - 1 \in before /\ ~ b[f - 1]
        BY <2>1, <2>11 DEF before
      <4>2. \E p \in before : ~ b[p]
        BY <4>1
      <4> QED
        BY <1>0, <1>6, <4>2
    <3>2. /\ fills \in TraversalsOver(D) /\ Sound(rs, fills.sv)
          /\ Ahead(vs, fills.sv) /\ (fills.ok => st.ok)
          /\ Grown(rs, D, begun.groups, fills.groups, grp1, U)
      BY <2>5, <2>8 DEF Visited
    <3>3. Grown(rs, D, st.groups, fills.groups, grp, {v})
      BY <2>10, <3>2, Zenon
    <3>4. Settles(rs, D, fills, v, Failed(fills))
      BY <3>2, FailedSettles
    <3> QED
      BY <1>2, <3>1, <3>2, <3>3, <3>4, VisitedThenSettled
  <2>12. CASE f = 1 /\ CompletionChainFirst(b, g) = 1 /\ 1 \in IterFillFrom(b, 1)
    <3>1. before = {}
      BY <2>12 DEF before
    <3>2. ids2 \in Seq(D) /\ {ids2[i] : i \in 1 .. Len(ids2)} = {}
      <4>1. Lists(ids2, D, rs[r].ids, before)
        BY <1>4, <3>1, IdsAtElements DEF ids2
      <4> QED
        BY <3>1, <4>1 DEF Lists
    <3>3. Begun(rs, D, fills, grp1)
      <4> HIDE DEF grp1
      <4> QED
        BY <2>6, <2>8, VisitedBegun
    <3>4. Visited(rs, D, fills, {}, grp1, all)
      <4> HIDE DEF grp1
      <4> QED
        BY <3>2, <3>3, AllVisited DEF all
    <3> DEFINE w == [all EXCEPT !.depth = Max({@, fills.depth})]
    <3>5. Visited(rs, D, begun, U, grp1, w)
      <4> HIDE DEF grp1, w
      <4>1. Visited(rs, D, begun, U \cup {}, grp1, w)
        BY <2>2, <2>6, <2>8, <3>4, VisitedTwice DEF w
      <4> QED
        BY <4>1, U \cup {} = U
    <3>6. all \in TraversalsOver(D) /\ fills \in TraversalsOver(D)
      BY <2>8, <3>4 DEF Visited
    <3>7. all.depth \in Nat /\ fills.depth \in Nat
      BY <3>6 DEF TraversalsOver
    <3>8. /\ w.sv = all.sv /\ w.groups = all.groups /\ w.ok = all.ok
          /\ w.depth = Max({all.depth, fills.depth})
      BY <3>6 DEF TraversalsOver
    <3> HIDE DEF w
    <3>9. /\ Ahead(vs, all.sv) /\ Sound(rs, all.sv)
          /\ Grown(rs, D, begun.groups, all.groups, grp1, U)
          /\ all.ok => st.ok /\ Ready(all.sv, U) /\ IsDepth(all.sv, U, w.depth)
      BY <2>5, <3>5, <3>8 DEF Visited
    <3>10. Grown(rs, D, st.groups, all.groups, grp, {v})
      BY <2>10, <3>6, <3>9, Zenon
    <3>11. depth = w.depth + 1 /\ depth \in Nat /\ w.depth \in Nat
      <4>1. I \cup before # {}
        BY <2>12 DEF I
      <4>2. {all.depth, fills.depth} = {fills.depth, all.depth}
        OBVIOUS
      <4>3. w.depth \in Nat
        BY <3>7, <3>8, MaxOfTwo
      <4>4. w.depth = Max({fills.depth, all.depth})
        BY <3>8, <4>2, Zenon
      <4>5. depth = w.depth + 1
        BY <4>1, <4>4, Zenon
      <4> QED
        BY <4>3, <4>5
    <3> HIDE DEF depth
    <3>12. all.sv[v].prod = vs[v].prod
      BY <1>2, <3>9 DEF Ahead
    <3>13. NeededIn(rs, all.sv, v) = U /\ Extra(rs, all.sv, v) = 1
      <4>1. NeededIn(rs, all.sv, v) = NeededIn(rs, vs, v)
        BY <3>12, NeededSame
      <4>2. FillsIn(rs, r, g) = I
        BY <2>12 DEF FillsIn, b, I
      <4> QED
        BY <1>3, <3>12, <4>1, <4>2 DEF Extra, U
    <3>14. Settles(rs, D, all, v, t)
      <4>1. all.sv[v].prod[1] # 0
        BY <3>12
      <4>2. all.ok => /\ Ready(all.sv, NeededIn(rs, all.sv, v))
                      /\ \E d : /\ IsDepth(all.sv, NeededIn(rs, all.sv, v), d)
                                /\ depth = d + Extra(rs, all.sv, v)
        BY <3>9, <3>11, <3>13
      <4> QED
        BY <3>6, <3>9, <3>11, <4>1, <4>2, ActivateSettles DEF t
    <3>15. TraverseGen(visit, rs, st, v, crit, grp, r, g) = t
      BY <1>0, <1>6, <3>1
    <3>16. all.ok => st.ok
      BY <3>9
    <3> QED
      BY <1>2, <3>9, <3>10, <3>14, <3>15, <3>16, VisitedThenSettled
  <2> QED
    BY <2>1, <2>11, <2>12
<1> QED
  BY <1>5, <1>6, Zenon

LEMMA VisitVisited ==
  ASSUME NEW rs, NEW D, NEW visit, Correct(rs, D, visit),
         NEW st, NEW grp, Begun(rs, D, st, grp), NEW v \in D, NEW crit \in Criteria
  PROVE  Visited(rs, D, st, {v}, grp, Visit(visit, rs, st, v, crit, grp))
<1> DEFINE r == st.sv[v].prod[1]
           g == st.sv[v].prod[2]
<1>1. Visit(visit, rs, st, v, crit, grp) =
        IF ~ st.ok \/ crit \notin {"LATENCY", "THROUGHPUT"} THEN Failed(st)
        ELSE IF r = 0 THEN [st EXCEPT !.depth = 0]
        ELSE IF rs[r].native THEN TraverseNative(visit, rs, st, v, crit, grp, r)
        ELSE TraverseGen(visit, rs, st, v, crit, grp, r, g)
  BY Zenon DEF Visit
<1>2. CASE ~ st.ok \/ crit \notin {"LATENCY", "THROUGHPUT"}
  <2>1. Visit(visit, rs, st, v, crit, grp) = Failed(st)
    BY <1>1, <1>2, Zenon
  <2> QED
    BY <2>1, SkippedVisited
<1>3. CASE st.ok /\ crit \in {"LATENCY", "THROUGHPUT"}
  <2>1. CASE r = 0
    <3>1. Visit(visit, rs, st, v, crit, grp) = [st EXCEPT !.depth = 0]
      BY <1>1, <1>3, <2>1, Zenon
    <3>2. Visited(rs, D, st, {v}, grp, [st EXCEPT !.depth = 0])
      BY <1>3, <2>1, SkippedVisited, Zenon
    <3> QED
      BY <3>1, <3>2, Zenon
  <2>2. CASE r # 0 /\ rs[r].native
    <3>1. Visit(visit, rs, st, v, crit, grp) = TraverseNative(visit, rs, st, v, crit, grp, r)
      BY <1>1, <1>3, <2>2, Zenon
    <3> QED
      BY <2>2, <3>1, NativeVisited
  <2>3. CASE r # 0 /\ ~ rs[r].native
    <3>1. Visit(visit, rs, st, v, crit, grp) = TraverseGen(visit, rs, st, v, crit, grp, r, g)
      BY <1>1, <1>3, <2>3, Zenon
    <3> HIDE DEF g
    <3>2. st.sv[v].prod[2] = g
      BY DEF g
    <3> QED
      BY <1>3, <2>3, <3>1, <3>2, GenVisited
  <2> QED
    BY <2>1, <2>2, <2>3
<1> QED
  BY <1>2, <1>3, Zenon

-----------------------------------------------------------------------------
(* The recursion *)

\* The visits of one level, given those of the level below.
Level(rs, vs, crit, n, below) ==
    [s \in Traversals(vs) |-> [u \in DOMAIN vs |-> [grp \in Nat |->
        IF n = 0 THEN Failed(s) ELSE Visit(below, rs, s, u, crit, grp)]]]

AreLevels(rs, vs, crit, m, f) ==
    f = [n \in 0 .. m |-> Level(rs, vs, crit, n, f[n - 1])]
HasLevels(rs, vs, crit, m) == \E f : AreLevels(rs, vs, crit, m, f)

\* The levels of Traverse are defined, whatever there is below the first.
LEMMA LevelsDefined ==
  ASSUME NEW rs, NEW vs, NEW crit, NEW m \in Nat
  PROVE  HasLevels(rs, vs, crit, m)
<1> DEFINE L(n, below) == Level(rs, vs, crit, n, below)
           Is(f, k) == f = [n \in 0 .. k |-> L(n, f[n - 1])]
           P == {k \in Nat : \E f : Is(f, k)}
           none == L(0, 0)
<1>1. \A below : L(0, below) = none
  <2> DEFINE base == [s \in Traversals(vs) |-> [u \in DOMAIN vs |-> [grp \in Nat |-> Failed(s)]]]
  <2>1. ASSUME NEW below PROVE Level(rs, vs, crit, 0, below) = base
    BY DEF Level
  <2> HIDE DEF base
  <2> QED
    BY <2>1
<1> HIDE DEF L
<1>2. 0 \in P
  <2>1. Is([n \in 0 .. 0 |-> none], 0)
    <3> DEFINE f == [n \in 0 .. 0 |-> none]
    <3>1. \A n \in 0 .. 0 : f[n] = L(n, f[n - 1])
      <4>1. f[0] = none /\ \A n \in 0 .. 0 : n = 0
        OBVIOUS
      <4> HIDE DEF f, none
      <4> QED
        BY <1>1, <4>1
    <3>2. f = [n \in 0 .. 0 |-> f[n]]
      OBVIOUS
    <3> HIDE DEF f
    <3>3. Is(f, 0)
      BY <3>1, <3>2
    <3> QED
      BY <3>3 DEF f
  <2> QED
    BY <2>1, Zenon
<1>3. ASSUME NEW k \in Nat, k \in P PROVE k + 1 \in P
  <2>1. PICK f : Is(f, k)
    BY <1>3
  <2> DEFINE h == [i \in 0 .. (k + 1) |-> IF i = k + 1 THEN L(k + 1, f[k]) ELSE f[i]]
  <2>2. \A i \in 0 .. k : h[i] = f[i] /\ f[i] = L(i, f[i - 1])
    BY <2>1
  <2>3. h[k + 1] = L(k + 1, f[k]) /\ h[k] = f[k]
    OBVIOUS
  <2>4. DOMAIN h = 0 .. (k + 1)
    OBVIOUS
  <2>5. \A i \in 0 .. (k + 1) : h[i] = L(i, h[i - 1])
    <3> HIDE DEF h, none
    <3> SUFFICES ASSUME NEW i \in 0 .. (k + 1) PROVE h[i] = L(i, h[i - 1])
      OBVIOUS
    <3>1. CASE i = k + 1
      <4>1. i - 1 = k
        BY <3>1
      <4> QED
        BY <2>3, <3>1, <4>1
    <3>2. CASE i \in 1 .. k
      <4>1. i - 1 \in 0 .. k /\ i \in 0 .. k
        BY <3>2
      <4> QED
        BY <2>2, <4>1
    <3>3. CASE i = 0
      <4>1. h[0] = f[0] /\ f[0] = L(0, f[0 - 1])
        BY <2>2
      <4> QED
        BY <1>1, <3>3, <4>1
    <3> QED
      BY <3>1, <3>2, <3>3
  <2>6. h = [i \in 0 .. (k + 1) |-> h[i]]
    OBVIOUS
  <2> HIDE DEF h
  <2>7. Is(h, k + 1)
    BY <2>4, <2>5, <2>6
  <2> QED
    BY <2>7, k + 1 \in Nat, Zenon
<1> HIDE DEF P
<1>4. m \in P
  BY <1>2, <1>3, SetInduction
<1> QED
  BY <1>4, Zenon DEF P, L, HasLevels, AreLevels

LEMMA LevelValue ==
  ASSUME NEW rs, NEW vs, NEW crit, NEW n, NEW below,
         NEW s \in Traversals(vs), NEW u \in DOMAIN vs, NEW grp \in Nat
  PROVE  Level(rs, vs, crit, n, below)[s][u][grp] =
            IF n = 0 THEN Failed(s) ELSE Visit(below, rs, s, u, crit, grp)
BY DEF Level

\* Every level is correct.
LEMMA LevelCorrect ==
  ASSUME NEW rs, NEW vs, NEW crit \in Criteria, NEW n \in Nat, NEW below,
         n # 0 => Correct(rs, DOMAIN vs, below)
  PROVE  Correct(rs, DOMAIN vs, Level(rs, vs, crit, n, below))
<1> DEFINE D == DOMAIN vs
           visit == Level(rs, vs, crit, n, below)
<1>1. Traversals(vs) = TraversalsOver(D)
  BY Zenon DEF Traversals, TraversalsOver
<1>2. ASSUME NEW s \in TraversalsOver(D), NEW u \in D, NEW grp \in Nat, Begun(rs, D, s, grp)
      PROVE  Visited(rs, D, s, {u}, grp, visit[s][u][grp])
  <2>1. visit[s][u][grp] = IF n = 0 THEN Failed(s) ELSE Visit(below, rs, s, u, crit, grp)
    BY <1>1, LevelValue
  <2> HIDE DEF visit
  <2>2. CASE n = 0
    <3>1. visit[s][u][grp] = Failed(s)
      BY <2>1, <2>2
    <3> HIDE DEF D
    <3> QED
      BY <1>2, <3>1, SkippedVisited
  <2>3. CASE n # 0
    <3>1. visit[s][u][grp] = Visit(below, rs, s, u, crit, grp)
      BY <2>1, <2>3
    <3>2. Correct(rs, D, below)
      BY <2>3
    <3> HIDE DEF D
    <3> QED
      BY <1>2, <3>1, <3>2, VisitVisited
  <2> QED
    BY <2>2, <2>3
<1> HIDE DEF visit, D
<1>3. Correct(rs, D, visit)
  BY <1>2 DEF Correct
<1> QED
  BY <1>3 DEF D, visit

\* A traversal visits the variable, as whatever graph it starts from.
LEMMA TraverseVisited ==
  ASSUME NEW rs, NEW st, st \in TraversalsOver(DOMAIN st.sv), Sound(rs, st.sv),
         NEW v \in DOMAIN st.sv, NEW crit \in Criteria
  PROVE  Visited(rs, DOMAIN st.sv, st, {v}, 0, Traverse(rs, st, v, crit))
<1> DEFINE vs == st.sv
           D == DOMAIN vs
           m == Cardinality(D) + 1
           Is(f) == f = [n \in 0 .. m |-> Level(rs, vs, crit, n, f[n - 1])]
           visits == CHOOSE f : Is(f)
<1>1. m \in Nat
  BY FS_CardinalityType DEF Sound, WellFormed
<1>2. Traverse(rs, st, v, crit) = visits[m][st][v][0]
  BY Zenon DEF Traverse, Level
<1> HIDE DEF m
<1>3. Is(visits)
  <2>1. \E f : Is(f)
    <3>1. HasLevels(rs, vs, crit, m)
      BY <1>1, LevelsDefined
    <3> QED
      BY <3>1, Zenon DEF HasLevels, AreLevels
  <2> HIDE DEF Is
  <2> QED
    BY <2>1
<1> HIDE DEF visits
<1>4. \A n \in 0 .. m : visits[n] = Level(rs, vs, crit, n, visits[n - 1])
  BY <1>3
<1> DEFINE P == {n \in Nat : n <= m => Correct(rs, D, visits[n])}
<1>5. 0 \in P
  <2>1. visits[0] = Level(rs, vs, crit, 0, visits[0 - 1])
    BY <1>1, <1>4
  <2> QED
    BY <2>1, LevelCorrect
<1>6. ASSUME NEW n \in Nat, n \in P PROVE n + 1 \in P
  <2> SUFFICES ASSUME n + 1 <= m PROVE Correct(rs, D, visits[n + 1])
    OBVIOUS
  <2>1. visits[n + 1] = Level(rs, vs, crit, n + 1, visits[(n + 1) - 1])
    BY <1>1, <1>4
  <2>2. (n + 1) - 1 = n /\ Correct(rs, D, visits[n])
    BY <1>1, <1>6
  <2>3. Correct(rs, D, Level(rs, vs, crit, n + 1, visits[n]))
    BY <2>2, LevelCorrect
  <2> QED
    BY <2>1, <2>2, <2>3
<1> HIDE DEF P
<1>7. m \in P
  BY <1>1, <1>5, <1>6, SetInduction
<1>8. Correct(rs, D, visits[m])
  BY <1>1, <1>7 DEF P
<1>9. Begun(rs, D, st, 0)
  <2>1. 0 <= Len(st.groups)
    BY DEF TraversalsOver
  <2> QED
    BY <2>1 DEF Begun
<1> HIDE DEF vs, D
<1>10. Visited(rs, D, st, {v}, 0, visits[m][st][v][0])
  BY <1>8, <1>9 DEF Correct, Begun, D, vs
<1> QED
  BY <1>2, <1>10 DEF D, vs

-----------------------------------------------------------------------------
(* An activation, from the outside *)

\* What activations have made of the variables vs: a sound graph, whose groups
\* have a consumer.
Arrived(rs, vs, t) ==
    /\ t \in TraversalsOver(DOMAIN vs) /\ Ahead(vs, t.sv) /\ Sound(rs, t.sv)
    /\ \A k \in 1 .. Len(t.groups) : HasConsumer(rs, DOMAIN vs, t.groups[k])

LEMMA NewArrived ==
  ASSUME NEW rs, NEW vs, Sound(rs, vs)
  PROVE  Arrived(rs, vs, NewTraversal(vs))
<1> DEFINE t == NewTraversal(vs)
<1>1. vs \in [DOMAIN vs -> SemanticVariables]
  BY DEF Sound, WellFormed
<1>2. /\ t \in TraversalsOver(DOMAIN vs) /\ t.sv = vs /\ Len(t.groups) = 0
  BY <1>1 DEF NewTraversal, TraversalsOver
<1>3. Ahead(vs, vs)
  BY DEF Ahead
<1> HIDE DEF t
<1>4. Arrived(rs, vs, t)
  BY <1>2, <1>3 DEF Arrived
<1> QED
  BY <1>4 DEF t

LEMMA FewerConsumed ==
  ASSUME NEW rs, NEW D, NEW G, HasConsumer(rs, D, G), NEW H, H \subseteq G
  PROVE  HasConsumer(rs, D, H)
BY Zenon DEF HasConsumer, Consumes

LEMMA ActivateSvArrived ==
  ASSUME NEW rs, NEW vs, NEW st, Arrived(rs, vs, st), NEW v \in DOMAIN vs,
         NEW crit \in Criteria
  PROVE  Arrived(rs, vs, ActivateSv(rs, st, v, crit))
<1> DEFINE D == DOMAIN vs
           t == ActivateSv(rs, st, v, crit)
<1>1. st \in TraversalsOver(D) /\ Ahead(vs, st.sv) /\ Sound(rs, st.sv)
  BY DEF Arrived
<1>2. DOMAIN st.sv = D /\ st.groups \in Seq(SUBSET (Nat \X Nat)) /\ Len(st.groups) \in Nat
  BY <1>1 DEF TraversalsOver
<1>3. Visited(rs, D, st, {v}, 0, t)
  <2>1. Visited(rs, D, st, {v}, 0, Failed(st))
    <3>1. Begun(rs, D, st, 0)
      BY <1>1, <1>2 DEF Begun
    <3> HIDE DEF D
    <3>2. v \in D
      BY DEF D
    <3> QED
      BY <3>1, <3>2, SkippedVisited
  <2>2. Visited(rs, D, st, {v}, 0, Traverse(rs, st, v, crit))
    BY <1>1, <1>2, TraverseVisited
  <2> QED
    BY <2>1, <2>2, Zenon DEF ActivateSv
<1> HIDE DEF t, D
<1>4. ASSUME NEW k \in 1 .. Len(t.groups) PROVE HasConsumer(rs, D, t.groups[k])
  <2>1. Grown(rs, D, st.groups, t.groups, 0, {v})
    BY <1>3 DEF Visited
  <2>2. t.groups \in Seq(SUBSET (Nat \X Nat)) /\ Len(t.groups) \in Nat
    BY <1>3 DEF Visited, TraversalsOver
  <2>3. CASE k > Len(st.groups)
    BY <2>1, <2>3 DEF Grown
  <2>4. CASE k \in 1 .. Len(st.groups)
    <3>1. k # 0
      BY <2>4
    <3>2. t.groups[k] \subseteq st.groups[k]
      BY <2>1, <2>4, <3>1 DEF Grown
    <3>3. HasConsumer(rs, D, st.groups[k])
      BY <2>4 DEF Arrived, D
    <3> QED
      BY <3>2, <3>3, FewerConsumed
  <2> QED
    BY <1>2, <2>2, <2>3, <2>4
<1>5. Ahead(vs, t.sv)
  BY <1>1, <1>3, AheadTwice DEF Visited
<1>6. Arrived(rs, vs, t)
  BY <1>3, <1>4, <1>5 DEF Arrived, Visited, D
<1> QED
  BY <1>6 DEF t

\* Several activations in turn, until one fails.
Step(rs, ids, crit, st, i) == IF st.ok THEN ActivateSv(rs, st, ids[i], crit) ELSE st
Activations(rs, ids, crit, st, n, f) ==
    f = [i \in 0 .. n |-> IF i = 0 THEN st ELSE Step(rs, ids, crit, f[i - 1], i)]
HasActivations(rs, ids, crit, st, n) ==
    \E f : Activations(rs, ids, crit, st, n, f)

LEMMA ActivationsDefined ==
  ASSUME NEW rs, NEW ids, NEW crit, NEW st, NEW m \in Nat
  PROVE  HasActivations(rs, ids, crit, st, m)
<1> DEFINE next(acc, i) == Step(rs, ids, crit, acc, i)
           Is(f, k) == f = [i \in 0 .. k |-> IF i = 0 THEN st ELSE next(f[i - 1], i)]
           P == {k \in Nat : \E f : Is(f, k)}
<1> HIDE DEF next
<1>1. 0 \in P
  <2>1. Is([i \in 0 .. 0 |-> st], 0)
    OBVIOUS
  <2> QED
    BY <2>1, Zenon
<1>2. ASSUME NEW k \in Nat, k \in P PROVE k + 1 \in P
  <2>1. PICK f : Is(f, k)
    BY <1>2
  <2> DEFINE h == [i \in 0 .. (k + 1) |-> IF i = k + 1 THEN next(f[k], k + 1) ELSE f[i]]
  <2>2. \A i \in 0 .. k : h[i] = f[i] /\ f[i] = IF i = 0 THEN st ELSE next(f[i - 1], i)
    BY <2>1
  <2>3. h[k + 1] = next(f[k], k + 1) /\ h[k] = f[k]
    OBVIOUS
  <2>4. DOMAIN h = 0 .. (k + 1)
    OBVIOUS
  <2>5. \A i \in 0 .. (k + 1) : h[i] = IF i = 0 THEN st ELSE next(h[i - 1], i)
    <3> HIDE DEF h
    <3> SUFFICES ASSUME NEW i \in 0 .. (k + 1)
                 PROVE  h[i] = IF i = 0 THEN st ELSE next(h[i - 1], i)
      OBVIOUS
    <3>1. CASE i = k + 1
      <4>1. i # 0 /\ i - 1 = k
        BY <3>1
      <4> QED
        BY <2>3, <3>1, <4>1
    <3>2. CASE i \in 0 .. k
      <4>1. i = 0 \/ i - 1 \in 0 .. k
        BY <3>2
      <4> QED
        BY <2>2, <3>2, <4>1
    <3> QED
      BY <3>1, <3>2
  <2>6. h = [i \in 0 .. (k + 1) |-> h[i]]
    OBVIOUS
  <2> HIDE DEF h
  <2>7. Is(h, k + 1)
    BY <2>4, <2>5, <2>6
  <2> QED
    BY <2>7, k + 1 \in Nat, Zenon
<1> HIDE DEF P
<1>3. m \in P
  BY <1>1, <1>2, SetInduction
<1> QED
  BY <1>3, Zenon DEF P, next, HasActivations, Activations

LEMMA ActivationsArrived ==
  ASSUME NEW rs, NEW vs, NEW ids \in Seq(DOMAIN vs), NEW crit \in Criteria,
         NEW st, Arrived(rs, vs, st), NEW f,
         Activations(rs, ids, crit, st, Len(ids), f)
  PROVE  \A i \in 0 .. Len(ids) : Arrived(rs, vs, f[i])
<1> DEFINE n == Len(ids)
           P == {i \in Nat : i <= n => Arrived(rs, vs, f[i])}
<1>1. n \in Nat /\ \A i \in 1 .. n : ids[i] \in DOMAIN vs
  OBVIOUS
<1> HIDE DEF n
<1>2. \A i \in 0 .. n : f[i] = IF i = 0 THEN st ELSE Step(rs, ids, crit, f[i - 1], i)
  BY DEF Activations, n
<1>3. 0 \in P
  BY <1>1, <1>2
<1>4. ASSUME NEW k \in Nat, k \in P PROVE k + 1 \in P
  <2> SUFFICES ASSUME k + 1 <= n PROVE Arrived(rs, vs, f[k + 1])
    OBVIOUS
  <2>1. k + 1 # 0 /\ (k + 1) - 1 = k /\ k + 1 \in 0 .. n /\ k + 1 \in 1 .. n
    BY <1>1
  <2>2. f[k + 1] = Step(rs, ids, crit, f[k], k + 1)
    BY <1>2, <2>1
  <2>3. Arrived(rs, vs, f[k])
    BY <1>1, <1>4
  <2>4. ids[k + 1] \in DOMAIN vs
    BY <1>1, <2>1
  <2>5. Arrived(rs, vs, ActivateSv(rs, f[k], ids[k + 1], crit))
    BY <2>3, <2>4, ActivateSvArrived
  <2> QED
    BY <2>2, <2>3, <2>5, Zenon DEF Step
<1> HIDE DEF P
<1>5. Nat \subseteq P
  BY <1>3, <1>4, SetInduction
<1> QED
  BY <1>1, <1>5 DEF P, n

-----------------------------------------------------------------------------
(* New variables *)

\* ws has the variables vs and new ones that nothing has been done with.
Extends(vs, ws) ==
    /\ DOMAIN vs \subseteq DOMAIN ws /\ IsFiniteSet(DOMAIN ws)
    /\ ws \in [DOMAIN ws -> SemanticVariables]
    /\ \A v \in DOMAIN vs : ws[v] = vs[v]
    /\ \A v \in DOMAIN ws \ DOMAIN vs : Untouched(ws, v)

Fresh(x) ==
    /\ x \in SemanticVariables /\ x.prod = NoProducer
    /\ x.act = FALSE /\ x.depth = 0

LEMMA NewVarFresh ==
  Fresh(NewVar) /\ Fresh(SetTo(NewVar, "text")) /\ NewVar.content = "None"
<1>1. /\ NewVar \in SemanticVariables /\ NewVar.prod = NoProducer
      /\ NewVar.act = FALSE /\ NewVar.depth = 0 /\ NewVar.content = "None"
  BY DEF NewVar, SemanticVariables, Contents, NoProducer
<1>2. /\ SetTo(NewVar, "text") \in SemanticVariables
      /\ SetTo(NewVar, "text").prod = NoProducer
      /\ SetTo(NewVar, "text").act = FALSE /\ SetTo(NewVar, "text").depth = 0
  BY <1>1 DEF SetTo, NewVar, SemanticVariables, Contents, NoProducer
<1> QED
  BY <1>1, <1>2 DEF Fresh

LEMMA WithExtends ==
  ASSUME NEW vs, NEW ws, Extends(vs, ws), NEW id, id \notin DOMAIN ws,
         NEW x, Fresh(x)
  PROVE  /\ Extends(vs, With(ws, id, x))
         /\ DOMAIN With(ws, id, x) = DOMAIN ws \cup {id}
<1> DEFINE us == With(ws, id, x)
<1>1. /\ DOMAIN us = DOMAIN ws \cup {id} /\ us[id] = x
      /\ \A v \in DOMAIN ws : us[v] = ws[v]
  BY DEF With
<1>2. us = [v \in DOMAIN us |-> us[v]]
  BY DEF With
<1>3. IsFiniteSet(DOMAIN us)
  BY <1>1, FS_AddElement DEF Extends
<1> HIDE DEF us
<1>4. us \in [DOMAIN us -> SemanticVariables]
  BY <1>1, <1>2 DEF Extends, Fresh
<1>5. \A v \in DOMAIN vs : us[v] = vs[v]
  BY <1>1 DEF Extends
<1>6. ASSUME NEW v \in DOMAIN us \ DOMAIN vs PROVE Untouched(us, v)
  <2>1. CASE v = id
    BY <1>1, <2>1 DEF Untouched, Fresh
  <2>2. CASE v \in DOMAIN ws
    <3>1. Untouched(ws, v)
      BY <1>6, <2>2 DEF Extends
    <3> QED
      BY <1>1, <2>2, <3>1 DEF Untouched
  <2> QED
    BY <1>1, <2>1, <2>2
<1>7. Extends(vs, us)
  BY <1>1, <1>3, <1>4, <1>5, <1>6 DEF Extends
<1> QED
  BY <1>1, <1>7 DEF us

IsAcc(acc) ==
    /\ acc = [sv |-> acc.sv, seed |-> acc.seed, ids |-> acc.ids, ok |-> acc.ok,
              prefix |-> acc.prefix]
    /\ acc.ok \in BOOLEAN

\* t is acc after one more node; isNew: its variable is none of sv.
Added(acc, t, isNew) ==
    /\ IsAcc(t) /\ Extends(sv, t.sv) /\ DOMAIN acc.sv \subseteq DOMAIN t.sv
    /\ IF t.ok THEN \E id \in DOMAIN t.sv :
                       t.ids = Append(acc.ids, id) /\ (isNew => id \notin DOMAIN sv)
               ELSE t.ids = acc.ids

LEMMA ByContentAdds ==
  ASSUME NEW acc, IsAcc(acc), Extends(sv, acc.sv), acc.ok, NEW id
  PROVE  Added(acc, ByContent(acc, id), FALSE)
<1> DEFINE t == ByContent(acc, id)
           x == SetTo(NewVar, "text")
           vs == IF id \in DOMAIN acc.sv THEN acc.sv ELSE With(acc.sv, id, x)
<1>1. t = [acc EXCEPT !.ids = Append(@, id), !.sv = vs]
  BY DEF ByContent
<1>2. /\ t.sv = vs /\ t.ok = acc.ok /\ t.ids = Append(acc.ids, id) /\ IsAcc(t)
  <2> HIDE DEF vs
  <2> QED
    BY <1>1 DEF IsAcc
<1>3. Extends(sv, vs) /\ DOMAIN acc.sv \subseteq DOMAIN vs /\ id \in DOMAIN vs
  <2>1. CASE id \in DOMAIN acc.sv
    BY <2>1
  <2>2. CASE id \notin DOMAIN acc.sv
    <3>1. vs = With(acc.sv, id, x)
      BY <2>2
    <3>0. Fresh(x)
      BY NewVarFresh
    <3> HIDE DEF vs, x
    <3>2. /\ Extends(sv, With(acc.sv, id, x))
          /\ DOMAIN With(acc.sv, id, x) = DOMAIN acc.sv \cup {id}
      BY <2>2, <3>0, WithExtends
    <3> QED
      BY <3>1, <3>2
  <2> QED
    BY <2>1, <2>2
<1> HIDE DEF t, vs
<1>4. Added(acc, t, FALSE)
  BY <1>2, <1>3 DEF Added
<1> QED
  BY <1>4 DEF t

LEMMA ByNameAdds ==
  ASSUME NEW acc, IsAcc(acc), Extends(sv, acc.sv), acc.ok, NEW x, Fresh(x)
  PROVE  Added(acc, ByName(acc, x), TRUE)
<1> DEFINE t == ByName(acc, x)
           id == Local(acc.seed)
<1>1. CASE id \in DOMAIN acc.sv
  <2>1. t = [acc EXCEPT !.ok = FALSE, !.seed = @ + 1]
    BY <1>1 DEF ByName
  <2>2. t.sv = acc.sv /\ t.ok = FALSE /\ t.ids = acc.ids /\ IsAcc(t)
    BY <2>1 DEF IsAcc
  <2> HIDE DEF t
  <2>3. Added(acc, t, TRUE)
    BY <2>2 DEF Added
  <2> QED
    BY <2>3 DEF t
<1>2. CASE id \notin DOMAIN acc.sv
  <2> DEFINE vs == With(acc.sv, id, x)
  <2>1. t = [acc EXCEPT !.sv = vs, !.seed = @ + 1, !.ids = Append(@, id)]
    BY <1>2 DEF ByName
  <2>2. Extends(sv, vs) /\ DOMAIN vs = DOMAIN acc.sv \cup {id}
    <3> HIDE DEF id, vs, t
    <3>1. /\ Extends(sv, With(acc.sv, id, x))
          /\ DOMAIN With(acc.sv, id, x) = DOMAIN acc.sv \cup {id}
      BY <1>2, WithExtends, ZenonT(30)
    <3> QED
      BY <3>1 DEF vs
  <2>3. id \notin DOMAIN sv
    BY <1>2 DEF Extends
  <2> HIDE DEF vs, id
  <2>4. t.sv = vs /\ t.ok = acc.ok /\ t.ids = Append(acc.ids, id) /\ IsAcc(t)
    BY <2>1 DEF IsAcc
  <2> HIDE DEF t
  <2>5. Added(acc, t, TRUE)
    BY <2>2, <2>3, <2>4 DEF Added
  <2> QED
    BY <2>5 DEF t
<1> QED
  BY <1>1, <1>2

LEMMA ByIdAdds ==
  ASSUME NEW acc, IsAcc(acc), Extends(sv, acc.sv), acc.ok, NEW id
  PROVE  Added(acc, ById(acc, id), FALSE)
<1> DEFINE t == ById(acc, id)
<1>1. CASE id \in DOMAIN acc.sv
  <2>1. t = [acc EXCEPT !.ids = Append(@, id)]
    BY <1>1 DEF ById
  <2>2. t.sv = acc.sv /\ t.ok = acc.ok /\ t.ids = Append(acc.ids, id) /\ IsAcc(t)
    BY <2>1 DEF IsAcc
  <2> HIDE DEF t
  <2>3. Added(acc, t, FALSE)
    BY <1>1, <2>2 DEF Added
  <2> QED
    BY <2>3 DEF t
<1>2. CASE id \notin DOMAIN acc.sv
  <2>1. t = [acc EXCEPT !.ok = FALSE]
    BY <1>2 DEF ById
  <2>2. t.sv = acc.sv /\ t.ok = FALSE /\ t.ids = acc.ids /\ IsAcc(t)
    BY <2>1 DEF IsAcc
  <2> HIDE DEF t
  <2>3. Added(acc, t, FALSE)
    BY <2>2 DEF Added
  <2> QED
    BY <2>3 DEF t
<1> QED
  BY <1>1, <1>2

LEMMA CreateVarAdds ==
  ASSUME NEW acc, IsAcc(acc), Extends(sv, acc.sv), acc.ok,
         NEW node, node.kind \in {"text", "in", "val", "gen"}
  PROVE  Added(acc, CreateVar(acc, node), node.kind = "gen")
<1> DEFINE p == acc.prefix /\ node.kind = "text"
           a == [acc EXCEPT !.prefix = @ /\ node.kind = "text"]
           t == CreateVar(acc, node)
<1>1. a = [acc EXCEPT !.prefix = p]
  OBVIOUS
<1>2. IsAcc(a) /\ a.sv = acc.sv /\ a.ok /\ a.ids = acc.ids
  <2> HIDE DEF p, a
  <2> QED
    BY <1>1 DEF IsAcc
<1>3. t = CASE node.kind = "text" ->
                      ByContent(a, IF a.prefix THEN Prefix(node.arg)
                                               ELSE Local(node.arg))
            [] node.kind = "val" -> ByName(a, SetTo(NewVar, "text"))
            [] node.kind = "gen" -> ByName(a, NewVar)
            [] node.kind = "in" -> ById(a, Local(node.arg))
  BY Zenon DEF CreateVar
<1> HIDE DEF a, t
<1>4. Extends(sv, a.sv)
  BY <1>2
<1>5. CASE node.kind = "text"
  <2> DEFINE id == IF a.prefix THEN Prefix(node.arg) ELSE Local(node.arg)
  <2> HIDE DEF id
  <2>1. t = ByContent(a, id)
    BY <1>3, <1>5 DEF id
  <2>2. Added(a, t, FALSE)
    BY <1>2, <1>4, <2>1, ByContentAdds
  <2>3. Added(acc, t, FALSE)
    BY <1>2, <2>2 DEF Added
  <2> QED
    BY <1>5, <2>3 DEF t
<1>6. CASE node.kind = "val"
  <2> DEFINE x == SetTo(NewVar, "text")
  <2>1. t = ByName(a, x)
    BY <1>3, <1>6
  <2>2. Fresh(x)
    BY NewVarFresh
  <2> HIDE DEF x
  <2>3. Added(a, t, TRUE)
    BY <1>2, <1>4, <2>1, <2>2, ByNameAdds
  <2>4. Added(acc, t, FALSE)
    BY <1>2, <2>3 DEF Added
  <2> QED
    BY <1>6, <2>4 DEF t
<1>7. CASE node.kind = "gen"
  <2>1. t = ByName(a, NewVar)
    BY <1>3, <1>7
  <2>2. Added(a, t, TRUE)
    BY <1>2, <1>4, <2>1, NewVarFresh, ByNameAdds
  <2>3. Added(acc, t, TRUE)
    BY <1>2, <2>2 DEF Added
  <2> QED
    BY <1>7, <2>3 DEF t
<1>8. CASE node.kind = "in"
  <2> DEFINE id == Local(node.arg)
  <2>1. t = ById(a, id)
    BY <1>3, <1>8
  <2> HIDE DEF id
  <2>2. Added(a, t, FALSE)
    BY <1>2, <1>4, <2>1, ByIdAdds
  <2>3. Added(acc, t, FALSE)
    BY <1>2, <2>2 DEF Added
  <2> QED
    BY <1>8, <2>3 DEF t
<1> QED
  BY <1>5, <1>6, <1>7, <1>8

\* What has become of a request after k nodes.
Created(nodes, k, acc) ==
    /\ IsAcc(acc) /\ Extends(sv, acc.sv)
    /\ acc.ids \in Seq(DOMAIN acc.sv)
    /\ k = 0 => acc.ok
    /\ acc.ok => /\ Len(acc.ids) = k
                 /\ \A j \in 1 .. k :
                       nodes[j].kind = "gen" => acc.ids[j] \notin DOMAIN sv

LEMMA CreatedStep ==
  ASSUME NEW nodes, NEW k \in Nat, NEW acc, Created(nodes, k, acc),
         nodes[k + 1].kind \in {"text", "in", "val", "gen"}
  PROVE  Created(nodes, k + 1, CreateVar(acc, nodes[k + 1]))
<1> DEFINE t == CreateVar(acc, nodes[k + 1])
           isNew == nodes[k + 1].kind = "gen"
<1>1. CASE ~ acc.ok
  <2>1. t = acc
    BY <1>1, Zenon DEF CreateVar
  <2> QED
    BY <1>1, <2>1 DEF Created
<1>2. CASE acc.ok
  <2>1. Added(acc, t, isNew)
    BY <1>2, CreateVarAdds DEF Created
  <2> HIDE DEF t
  <2>2. acc.ids \in Seq(DOMAIN t.sv)
    BY <2>1 DEF Added, Created
  <2>3. CASE ~ t.ok
    BY <2>1, <2>2, <2>3 DEF Added, Created, t
  <2>4. CASE t.ok
    <3> HIDE DEF isNew
    <3>1. PICK id \in DOMAIN t.sv : t.ids = Append(acc.ids, id) /\ (isNew => id \notin DOMAIN sv)
      BY <2>1, <2>4, Zenon DEF Added
    <3>2. Len(acc.ids) = k
      BY <1>2 DEF Created
    <3>3. /\ t.ids \in Seq(DOMAIN t.sv) /\ Len(t.ids) = k + 1 /\ t.ids[k + 1] = id
          /\ \A j \in 1 .. k : t.ids[j] = acc.ids[j]
      <4> DEFINE q == acc.ids
                 W == DOMAIN t.sv
      <4>1. q \in Seq(W) /\ id \in W /\ Len(q) = k /\ t.ids = Append(q, id)
        BY <2>2, <3>1, <3>2
      <4> HIDE DEF q, W
      <4>2. /\ Append(q, id) \in Seq(W) /\ Len(Append(q, id)) = k + 1
            /\ Append(q, id)[k + 1] = id
        BY <4>1
      <4>3. ASSUME NEW j \in 1 .. k PROVE Append(q, id)[j] = q[j]
        BY <4>1
      <4> QED
        BY <4>1, <4>2, <4>3 DEF q, W
    <3>4. \A j \in 1 .. (k + 1) : nodes[j].kind = "gen" => t.ids[j] \notin DOMAIN sv
      <4> SUFFICES ASSUME NEW j \in 1 .. (k + 1), nodes[j].kind = "gen"
                   PROVE  t.ids[j] \notin DOMAIN sv
        OBVIOUS
      <4>1. CASE j = k + 1
        BY <3>1, <3>3, <4>1 DEF isNew
      <4>2. CASE j \in 1 .. k
        BY <1>2, <3>3, <4>2 DEF Created
      <4> QED
        BY <4>1, <4>2
    <3>5. Created(nodes, k + 1, t)
      BY <2>1, <3>3, <3>4 DEF Added, Created
    <3> QED
      BY <3>5 DEF t
  <2> QED
    BY <2>3, <2>4
<1> QED
  BY <1>1, <1>2

NoneCreated(prefix) == [sv |-> sv, seed |-> seed, ids |-> <<>>, ok |-> TRUE, prefix |-> prefix]
AreCreated(nodes, prefix, m, f) ==
    f = [i \in 0 .. m |-> IF i = 0 THEN NoneCreated(prefix)
                          ELSE CreateVar(f[i - 1], nodes[i])]
HaveCreated(nodes, prefix, m) == \E f : AreCreated(nodes, prefix, m, f)

LEMMA CreatedDefined ==
  ASSUME NEW nodes, NEW prefix, NEW m \in Nat
  PROVE  HaveCreated(nodes, prefix, m)
<1> DEFINE a == NoneCreated(prefix)
           next(acc, i) == CreateVar(acc, nodes[i])
           Is(f, k) == f = [i \in 0 .. k |-> IF i = 0 THEN a ELSE next(f[i - 1], i)]
           P == {k \in Nat : \E f : Is(f, k)}
<1> HIDE DEF next, a
<1>1. 0 \in P
  <2>1. Is([i \in 0 .. 0 |-> a], 0)
    OBVIOUS
  <2> QED
    BY <2>1, Zenon
<1>2. ASSUME NEW k \in Nat, k \in P PROVE k + 1 \in P
  <2>1. PICK f : Is(f, k)
    BY <1>2
  <2> DEFINE h == [i \in 0 .. (k + 1) |-> IF i = k + 1 THEN next(f[k], k + 1) ELSE f[i]]
  <2>2. \A i \in 0 .. k : h[i] = f[i] /\ f[i] = IF i = 0 THEN a ELSE next(f[i - 1], i)
    BY <2>1
  <2>3. h[k + 1] = next(f[k], k + 1) /\ h[k] = f[k]
    OBVIOUS
  <2>4. DOMAIN h = 0 .. (k + 1)
    OBVIOUS
  <2>5. \A i \in 0 .. (k + 1) : h[i] = IF i = 0 THEN a ELSE next(h[i - 1], i)
    <3> HIDE DEF h
    <3> SUFFICES ASSUME NEW i \in 0 .. (k + 1)
                 PROVE  h[i] = IF i = 0 THEN a ELSE next(h[i - 1], i)
      OBVIOUS
    <3>1. CASE i = k + 1
      <4>1. i # 0 /\ i - 1 = k
        BY <3>1
      <4> QED
        BY <2>3, <3>1, <4>1
    <3>2. CASE i \in 0 .. k
      <4>1. i = 0 \/ i - 1 \in 0 .. k
        BY <3>2
      <4> QED
        BY <2>2, <3>2, <4>1
    <3> QED
      BY <3>1, <3>2
  <2>6. h = [i \in 0 .. (k + 1) |-> h[i]]
    OBVIOUS
  <2> HIDE DEF h
  <2>7. Is(h, k + 1)
    BY <2>4, <2>5, <2>6
  <2> QED
    BY <2>7, k + 1 \in Nat, Zenon
<1> HIDE DEF P
<1>3. m \in P
  BY <1>1, <1>2, SetInduction
<1> QED
  BY <1>3, Zenon DEF P, next, a, HaveCreated, AreCreated

\* The variables of a request: with an error some of them, but sound.
LEMMA CreateVarsCreated ==
  ASSUME NEW nodes, Len(nodes) \in Nat, NEW prefix,
         \A i \in 1 .. Len(nodes) : nodes[i].kind \in {"text", "in", "val", "gen"},
         IsFiniteSet(DOMAIN sv), sv \in [DOMAIN sv -> SemanticVariables]
  PROVE  Created(nodes, Len(nodes), CreateVars(nodes, prefix))
<1> DEFINE n == Len(nodes)
           Is(f) == f = [i \in 0 .. n |-> IF i = 0 THEN NoneCreated(prefix)
                                          ELSE CreateVar(f[i - 1], nodes[i])]
           created == CHOOSE f : Is(f)
<1>1. CreateVars(nodes, prefix) = created[n]
  BY Zenon DEF CreateVars, NoneCreated
<1> HIDE DEF n
<1>2. Is(created)
  <2>1. \E f : Is(f)
    <3>1. HaveCreated(nodes, prefix, n)
      BY CreatedDefined DEF n
    <3> QED
      BY <3>1, Zenon DEF HaveCreated, AreCreated
  <2> HIDE DEF Is
  <2> QED
    BY <2>1
<1> HIDE DEF created
<1>3. \A i \in 0 .. n : created[i] = IF i = 0 THEN NoneCreated(prefix)
                                     ELSE CreateVar(created[i - 1], nodes[i])
  BY <1>2
<1>4. n \in Nat
  BY DEF n
<1> DEFINE P == {k \in Nat : k <= n => Created(nodes, k, created[k])}
<1>5. 0 \in P
  <2> DEFINE a == NoneCreated(prefix)
  <2>1. created[0] = a
    BY <1>3, <1>4
  <2>2. a.sv = sv /\ a.ids = <<>> /\ a.ok = TRUE /\ IsAcc(a)
    BY DEF NoneCreated, IsAcc
  <2> HIDE DEF a
  <2>3. Extends(sv, sv)
    BY DEF Extends
  <2>4. Created(nodes, 0, a)
    BY <2>2, <2>3 DEF Created
  <2> QED
    BY <2>1, <2>4
<1>6. ASSUME NEW k \in Nat, k \in P PROVE k + 1 \in P
  <2> SUFFICES ASSUME k + 1 <= n PROVE Created(nodes, k + 1, created[k + 1])
    OBVIOUS
  <2>1. k + 1 # 0 /\ (k + 1) - 1 = k /\ k + 1 \in 0 .. n /\ k + 1 \in 1 .. n
    BY <1>4
  <2>2. created[k + 1] = CreateVar(created[k], nodes[k + 1])
    BY <1>3, <2>1
  <2>3. Created(nodes, k, created[k])
    BY <1>4, <1>6
  <2>4. nodes[k + 1].kind \in {"text", "in", "val", "gen"}
    BY <2>1 DEF n
  <2>5. Created(nodes, k + 1, CreateVar(created[k], nodes[k + 1]))
    BY <2>3, <2>4, CreatedStep
  <2> QED
    BY <2>2, <2>5
<1> HIDE DEF P
<1>7. n \in P
  BY <1>4, <1>5, <1>6, SetInduction
<1> QED
  BY <1>1, <1>4, <1>7 DEF P, n

-----------------------------------------------------------------------------
(* A larger graph *)

Enlarges(rs, D, qs, E) ==
    /\ DOMAIN rs \subseteq DOMAIN qs /\ D \subseteq E
    /\ \A r \in DOMAIN rs : qs[r] = rs[r] /\ Request(rs[r], D)

\* Fills and outputs are in the graph.
LEMMA RequestIds ==
  ASSUME NEW q, NEW D, Request(q, D)
  PROVE  /\ \A g \in Gens(q.bits) : q.ids[g] \in D
         /\ \A E : D \subseteq E => Request(q, E)
<1>1. PICK n \in Nat : /\ q.bits \in [1 .. n -> BOOLEAN] /\ q.ids \in [1 .. n -> D]
                       /\ ~ q.native => n > 0 /\ q.bits[1] = FALSE
  BY DEF Request
<1>2. \A g \in Gens(q.bits) : q.ids[g] \in D
  BY <1>1 DEF Gens
<1>3. ASSUME NEW E, D \subseteq E PROVE Request(q, E)
  <2>1. q.ids \in [1 .. n -> E]
    BY <1>1, <1>3
  <2> QED
    BY <1>1, <2>1 DEF Request
<1> QED
  BY <1>2, <1>3

LEMMA FillsKept ==
  ASSUME NEW rs, NEW qs, NEW r, qs[r] = rs[r], NEW g
  PROVE  FillsIn(qs, r, g) = FillsIn(rs, r, g)
BY DEF FillsIn

LEMMA DerivedKept ==
  ASSUME NEW rs, NEW D, NEW qs, NEW E, Enlarges(rs, D, qs, E),
         NEW u \in D, NEW v, v \in DerivedIn(rs, D, u)
  PROVE  v \in DerivedIn(qs, E, u)
<1>1. v \in D /\ D \subseteq E
  BY DEF DerivedIn, Enlarges
<1>2. ASSUME NEW W \in SUBSET E, u \in W, FollowsIn(qs, W)
      PROVE  v \in W
  <2> DEFINE V == W \cap D
  <2>1. ASSUME NEW r \in DOMAIN rs, rs[r].native, NEW i \in FillsIn(rs, r, 0),
               rs[r].ids[i] \in V, NEW g \in Gens(rs[r].bits)
        PROVE  rs[r].ids[g] \in V
    <3>1. r \in DOMAIN qs /\ qs[r] = rs[r] /\ Request(rs[r], D)
      BY DEF Enlarges
    <3>2. i \in FillsIn(qs, r, 0)
      BY <3>1, FillsKept
    <3>3. qs[r].native /\ qs[r].ids[i] \in W /\ g \in Gens(qs[r].bits)
      BY <2>1, <3>1
    <3>4. qs[r].ids[g] \in W
      BY <1>2, <3>1, <3>2, <3>3, Zenon DEF FollowsIn
    <3>5. rs[r].ids[g] \in D
      BY <3>1, RequestIds
    <3> QED
      BY <3>1, <3>4, <3>5
  <2>2. u \in V /\ V \in SUBSET D
    BY <1>2
  <2> HIDE DEF V
  <2>3. FollowsIn(rs, V)
    BY <2>1, Zenon DEF FollowsIn
  <2>4. v \in V
    BY <2>2, <2>3 DEF DerivedIn
  <2> QED
    BY <2>4 DEF V
<1> QED
  BY <1>1, <1>2 DEF DerivedIn

\* A chain keeps its consumer.
LEMMA ConsumerKept ==
  ASSUME NEW rs, NEW D, NEW qs, NEW E, Enlarges(rs, D, qs, E),
         NEW G, HasConsumer(rs, D, G)
  PROVE  HasConsumer(qs, E, G)
<1>1. ASSUME NEW x, NEW v, Linked(rs, D, x, v) PROVE Linked(qs, E, x, v)
  <2>1. ChainIn(rs, x)
    BY <1>1 DEF Linked
  <2>2. /\ x[1] \in DOMAIN rs /\ x[1] \in DOMAIN qs /\ qs[x[1]] = rs[x[1]]
        /\ Request(rs[x[1]], D)
    BY <2>1 DEF ChainIn, Enlarges
  <2>3. ChainIn(qs, x)
    BY <2>1, <2>2 DEF ChainIn
  <2>4. ASSUME Cardinality(Gens(qs[x[1]].bits)) = 1
        PROVE  v \in DerivedIn(qs, E, qs[x[1]].ids[x[2]])
    <3>1. v \in DerivedIn(rs, D, rs[x[1]].ids[x[2]])
      BY <1>1, <2>2, <2>4 DEF Linked
    <3>2. rs[x[1]].ids[x[2]] \in D
      BY <2>1, <2>2, RequestIds DEF ChainIn
    <3>3. v \in DerivedIn(qs, E, rs[x[1]].ids[x[2]])
      BY <3>1, <3>2, DerivedKept
    <3> QED
      BY <2>2, <3>3
  <2> QED
    BY <2>3, <2>4, Zenon DEF Linked
<1>2. PICK r \in DOMAIN rs : \E c \in Gens(rs[r].bits) :
                                ~ rs[r].native /\ Consumes(rs, D, r, c, G)
  BY Zenon DEF HasConsumer
<1>3. PICK c \in Gens(rs[r].bits) : ~ rs[r].native /\ Consumes(rs, D, r, c, G)
  BY <1>2
<1>4. r \in DOMAIN qs /\ qs[r] = rs[r]
  BY DEF Enlarges
<1>5. FillsIn(qs, r, c) = FillsIn(rs, r, c)
  BY <1>4, FillsKept
<1>6. Consumes(qs, E, r, c, G)
  BY <1>1, <1>3, <1>4, <1>5, Zenon DEF Consumes
<1> QED
  BY <1>3, <1>4, <1>6, Zenon DEF HasConsumer

\* What is new is not activated, so nothing that has been activated changes.
LEMMA EnlargedSound ==
  ASSUME NEW rs, NEW vs, Sound(rs, vs), NEW qs, NEW ws,
         Enlarges(rs, DOMAIN vs, qs, DOMAIN ws), WellFormed(qs, ws),
         \A v \in DOMAIN vs : ws[v] = vs[v],
         \A v \in DOMAIN ws \ DOMAIN vs : ws[v].act = FALSE
  PROVE  Sound(qs, ws)
<1>1. ASSUME NEW v \in DOMAIN ws, ws[v].act PROVE Layered(qs, ws, v)
  <2>1. v \in DOMAIN vs /\ ws[v] = vs[v]
    BY <1>1
  <2>2. Layered(rs, vs, v) /\ WellFormed(rs, vs)
    BY <1>1, <2>1 DEF Sound
  <2>3. ~ Untouched(vs, v)
    BY <1>1, <2>1 DEF Untouched
  <2>4. Owned(rs, vs, v)
    BY <2>1, <2>2, <2>3 DEF WellFormed
  <2>5. PICK r \in DOMAIN rs : \E g \in Gens(rs[r].bits) :
              vs[v].prod = <<r, g>> /\ rs[r].ids[g] = v
    BY <2>4 DEF Owned
  <2>6. vs[v].prod[1] = r
    BY <2>5
  <2>7. qs[r] = rs[r]
    BY DEF Enlarges
  <2>8. NeededIn(qs, vs, v) = NeededIn(rs, vs, v) /\ Extra(qs, vs, v) = Extra(rs, vs, v)
    <3> DEFINE g == vs[v].prod[2]
    <3> HIDE DEF g
    <3>1. FillsIn(qs, r, g) = FillsIn(rs, r, g)
      BY <2>7, FillsKept
    <3>2. NeededIn(rs, vs, v) = IF r = 0 THEN {} ELSE {rs[r].ids[i] : i \in FillsIn(rs, r, g)}
      BY <2>6 DEF NeededIn, g
    <3>3. NeededIn(qs, vs, v) = IF r = 0 THEN {} ELSE {qs[r].ids[i] : i \in FillsIn(qs, r, g)}
      BY <2>6 DEF NeededIn, g
    <3> QED
      BY <2>6, <2>7, <3>1, <3>2, <3>3 DEF Extra
  <2>9. Layered(qs, vs, v)
    BY <2>2, <2>8, Zenon DEF Layered
  <2>10. NeededIn(qs, vs, v) \subseteq DOMAIN vs
    BY <2>1, <2>2, <2>8, NeededType
  <2> QED
    BY <2>1, <2>9, <2>10, LayeredSame
<1> QED
  BY <1>1 DEF Sound

\* New variables alone.
LEMMA ExtendedSound ==
  ASSUME NEW rs, NEW vs, Sound(rs, vs), NEW ws, Extends(vs, ws)
  PROVE  Sound(rs, ws) /\ Enlarges(rs, DOMAIN vs, rs, DOMAIN ws)
<1>1. WellFormed(rs, vs) /\ DOMAIN vs \subseteq DOMAIN ws
  BY DEF Sound, Extends
<1>2. Enlarges(rs, DOMAIN vs, rs, DOMAIN ws)
  BY <1>1 DEF WellFormed, Enlarges
<1>3. \A r \in DOMAIN rs : Request(rs[r], DOMAIN ws)
  BY <1>1, RequestIds DEF WellFormed
<1>4. ASSUME NEW v \in DOMAIN ws PROVE Untouched(ws, v) \/ Owned(rs, ws, v)
  <2>1. CASE v \in DOMAIN vs
    <3>1. ws[v] = vs[v] /\ (Untouched(vs, v) \/ Owned(rs, vs, v))
      BY <1>1, <2>1 DEF WellFormed, Extends
    <3> QED
      BY <3>1, Zenon DEF Untouched, Owned
  <2>2. CASE v \notin DOMAIN vs
    BY <2>2 DEF Extends
  <2> QED
    BY <2>1, <2>2
<1>5. WellFormed(rs, ws)
  BY <1>1, <1>3, <1>4 DEF WellFormed, Extends
<1>6. \A v \in DOMAIN ws \ DOMAIN vs : ws[v].act = FALSE
  BY DEF Extends, Untouched
<1>7. \A v \in DOMAIN vs : ws[v] = vs[v]
  BY DEF Extends
<1>8. Sound(rs, ws)
  BY <1>2, <1>5, <1>6, <1>7, EnlargedSound
<1> QED
  BY <1>2, <1>8

\* A sequence of whatever it holds.
IsList(q) == q \in Seq({q[i] : i \in DOMAIN q})

LEMMA SeqIsList ==
  ASSUME NEW S, NEW q \in Seq(S)
  PROVE  IsList(q)
<1> DEFINE n == Len(q)
           R == {q[i] : i \in DOMAIN q}
<1>1. n \in Nat /\ DOMAIN q = 1 .. n /\ q = [i \in 1 .. n |-> q[i]]
  OBVIOUS
<1>2. \A i \in 1 .. n : q[i] \in R
  BY <1>1
<1> HIDE DEF n, R
<1>3. q \in [1 .. n -> R]
  BY <1>1, <1>2
<1>4. q \in Seq(R)
  BY <1>1, <1>3
<1> QED
  BY <1>4 DEF IsList, R

LEMMA AppendList ==
  ASSUME NEW rs, IsList(rs), NEW q
  PROVE  LET qs == Append(rs, q)
         IN  /\ IsList(qs) /\ Len(rs) \in Nat /\ DOMAIN rs = 1 .. Len(rs)
             /\ Len(qs) = Len(rs) + 1 /\ DOMAIN qs = 1 .. (Len(rs) + 1)
             /\ qs[Len(rs) + 1] = q /\ \A r \in 1 .. Len(rs) : qs[r] = rs[r]
<1>1. PICK S : rs \in Seq(S)
  BY DEF IsList
<1> DEFINE T == S \cup {q}
           qs == Append(rs, q)
           n == Len(rs)
<1>2. rs \in Seq(T) /\ q \in T /\ n \in Nat
  BY <1>1
<1> HIDE DEF T
<1>3. qs \in Seq(T) /\ Len(qs) = n + 1 /\ qs[n + 1] = q
  BY <1>2
<1>4. \A r \in 1 .. n : qs[r] = rs[r]
  BY <1>2
<1> QED
  <2>1. IsList(qs)
    BY <1>3, SeqIsList
  <2>2. DOMAIN rs = 1 .. n /\ DOMAIN qs = 1 .. (n + 1)
    BY <1>2, <1>3
  <2> QED
    BY <1>2, <1>3, <1>4, <2>1, <2>2

\* A request and its new variables.
Grows(rs, vs, us, q, qs, ws) ==
    /\ qs[Len(rs) + 1] = q /\ DOMAIN ws = DOMAIN us
    /\ Sound(qs, ws) /\ Enlarges(rs, DOMAIN vs, qs, DOMAIN ws)
    /\ \A v \in DOMAIN vs : ws[v] = vs[v]

LEMMA InsertedSound ==
  ASSUME NEW rs, IsList(rs), NEW vs, Sound(rs, vs), NEW us, Extends(vs, us),
         NEW q, Request(q, DOMAIN us),
         \A g \in Gens(q.bits) : q.ids[g] \notin DOMAIN vs,
         NEW qs, qs = Append(rs, q),
         NEW ws, ws = Inserted(us, q.ids, q.bits, Len(rs) + 1)
  PROVE  Grows(rs, vs, us, q, qs, ws)
<1> DEFINE n == Len(rs)
           b == q.bits
           D == DOMAIN us
<1>1. /\ IsList(qs) /\ n \in Nat /\ DOMAIN rs = 1 .. n
      /\ Len(qs) = n + 1 /\ DOMAIN qs = 1 .. (n + 1)
      /\ qs[n + 1] = q /\ \A r \in 1 .. n : qs[r] = rs[r]
  BY AppendList
<1>2. WellFormed(rs, vs) /\ DOMAIN vs \subseteq D /\ us \in [D -> SemanticVariables]
  BY DEF Sound, Extends
<1>3. PICK m \in Nat : b \in [1 .. m -> BOOLEAN] /\ q.ids \in [1 .. m -> D]
  BY DEF Request
<1> DEFINE out(v) == \E g \in Gens(b) : q.ids[g] = v
           gen(v) == CHOOSE g \in Gens(b) : q.ids[g] = v
<1>4. /\ DOMAIN ws = D
      /\ \A v \in D : ws[v] = IF out(v) THEN [us[v] EXCEPT !.prod = <<n + 1, gen(v)>>]
                                        ELSE us[v]
      /\ ws = [v \in D |-> ws[v]]
  BY Zenon DEF Inserted
<1>5. ASSUME NEW v \in D, out(v)
      PROVE  /\ ws[v] \in SemanticVariables /\ ws[v].act = FALSE
             /\ Owned(qs, ws, v) /\ v \notin DOMAIN vs
  <2>1. gen(v) \in Gens(b) /\ q.ids[gen(v)] = v
    BY <1>5
  <2>2. v \notin DOMAIN vs
    BY <1>5
  <2>3. us[v] \in SemanticVariables /\ us[v].act = FALSE
    BY <1>2, <2>2 DEF Extends, Untouched
  <2> DEFINE g == gen(v)
             x == us[v]
             y == ws[v]
  <2>4. y = [x EXCEPT !.prod = <<n + 1, g>>]
    BY <1>4, <1>5
  <2> HIDE DEF g, x, y, n
  <2>5. g \in Nat /\ n + 1 \in Nat
    <3>1. g \in Gens(b)
      BY <2>1 DEF g
    <3> HIDE DEF b
    <3>2. g \in 1 .. m
      BY <1>3, <3>1 DEF Gens
    <3> QED
      BY <1>1, <3>2
  <2>6. y \in SemanticVariables /\ y.act = FALSE /\ y.prod = <<n + 1, g>>
    BY <2>3, <2>4, <2>5 DEF SemanticVariables, x
  <2>7. Owned(qs, ws, v)
    <3>1. n + 1 \in DOMAIN qs /\ qs[n + 1] = q
      BY <1>1
    <3>2. g \in Gens(qs[n + 1].bits) /\ qs[n + 1].ids[g] = v
      BY <2>1, <3>1 DEF g
    <3> QED
      BY <2>6, <3>1, <3>2, Zenon DEF Owned, y
  <2> QED
    BY <2>2, <2>6, <2>7 DEF y
<1>6. ASSUME NEW v \in D, ~ out(v) PROVE ws[v] = us[v]
  BY <1>4, <1>6
<1>7. \A v \in DOMAIN vs : ws[v] = vs[v] /\ us[v] = vs[v]
  <2> SUFFICES ASSUME NEW v \in DOMAIN vs PROVE ws[v] = vs[v] /\ us[v] = vs[v]
    OBVIOUS
  <2>1. v \in D /\ ~ out(v) /\ us[v] = vs[v]
    BY <1>2 DEF Extends
  <2> QED
    BY <1>6, <2>1
<1> HIDE DEF out
<1>8. \A v \in D : ws[v] \in SemanticVariables
  BY <1>2, <1>5, <1>6
<1>9. Enlarges(rs, DOMAIN vs, qs, DOMAIN ws)
  BY <1>1, <1>2, <1>4 DEF Enlarges, WellFormed
<1>10. \A v \in DOMAIN ws \ DOMAIN vs : ws[v].act = FALSE
  <2> SUFFICES ASSUME NEW v \in D \ DOMAIN vs PROVE ws[v].act = FALSE
    BY <1>4
  <2>1. us[v].act = FALSE
    BY DEF Extends, Untouched
  <2> QED
    BY <1>5, <1>6, <2>1
<1>11. WellFormed(qs, ws)
  <2>1. ASSUME NEW r \in DOMAIN qs PROVE Request(qs[r], D)
    <3>1. CASE r = n + 1
      BY <1>1, <3>1
    <3>2. CASE r \in 1 .. n
      <4>1. qs[r] = rs[r] /\ Request(rs[r], DOMAIN vs)
        BY <1>1, <1>2, <3>2 DEF WellFormed
      <4> QED
        BY <1>2, <4>1, RequestIds
    <3> QED
      BY <1>1, <2>1, <3>1, <3>2
  <2>2. ASSUME NEW v \in D PROVE Untouched(ws, v) \/ Owned(qs, ws, v)
    <3>1. CASE out(v)
      BY <1>5, <3>1
    <3>2. CASE ~ out(v) /\ v \in DOMAIN vs
      <4>1. ws[v] = vs[v] /\ (Untouched(vs, v) \/ Owned(rs, vs, v))
        BY <1>2, <1>7, <3>2 DEF WellFormed
      <4>2. CASE Untouched(vs, v)
        BY <4>1, <4>2 DEF Untouched
      <4>3. CASE Owned(rs, vs, v)
        <5>1. \A r \in DOMAIN rs : r \in DOMAIN qs /\ qs[r] = rs[r]
          BY <1>9 DEF Enlarges
        <5> QED
          BY <4>1, <4>3, <5>1, Zenon DEF Owned
      <4> QED
        BY <4>1, <4>2, <4>3
    <3>3. CASE ~ out(v) /\ v \notin DOMAIN vs
      <4>1. Untouched(us, v) /\ ws[v] = us[v]
        BY <1>6, <3>3 DEF Extends
      <4> QED
        BY <4>1 DEF Untouched
    <3> QED
      BY <3>1, <3>2, <3>3
  <2>3. Len(qs) \in Nat /\ DOMAIN qs = 1 .. Len(qs)
    BY <1>1
  <2>4. ws \in [D -> SemanticVariables] /\ IsFiniteSet(D)
    BY <1>4, <1>8 DEF Extends
  <2> HIDE DEF D
  <2> QED
    BY <1>4, <2>1, <2>2, <2>3, <2>4 DEF WellFormed
<1>12. Sound(qs, ws)
  BY <1>7, <1>9, <1>10, <1>11, EnlargedSound
<1> QED
  BY <1>1, <1>4, <1>7, <1>9, <1>12 DEF Grows

-----------------------------------------------------------------------------
(* The steps *)

\* The inductive invariant: the requests in the graph name variables of the
\* session, every variable belongs to the Gen that produces it, what has been
\* activated is layered over what it needs, and every group has a consumer.
IInv ==
    /\ IsList(reqs) /\ Sound(reqs, sv)
    /\ \A grp \in groups : HasConsumer(reqs, DOMAIN sv, grp)

\* What a step may not do to a text.
Kept ==
    \A v \in DOMAIN sv :
        /\ sv[v].ready => sv'[v].ready
        /\ sv[v].content # "None" => sv'[v].content = sv[v].content

LEMMA SetToFacts ==
  ASSUME NEW x \in SemanticVariables, NEW c \in Contents
  PROVE  /\ SetTo(x, c) \in SemanticVariables /\ SetTo(x, c).content = c
         /\ SetTo(x, c).ready = TRUE /\ SetTo(x, c).prod = x.prod
         /\ SetTo(x, c).act = x.act /\ SetTo(x, c).depth = x.depth
BY DEF SetTo, SemanticVariables

\* Texts do not matter to the graph.
LEMMA SameShape ==
  ASSUME NEW rs, NEW vs, Sound(rs, vs), NEW ws \in [DOMAIN vs -> SemanticVariables],
         \A v \in DOMAIN vs : /\ ws[v].prod = vs[v].prod /\ ws[v].act = vs[v].act
                              /\ ws[v].depth = vs[v].depth
  PROVE  Sound(rs, ws)
<1>1. WellFormed(rs, vs) /\ DOMAIN ws = DOMAIN vs
  BY DEF Sound
<1>2. ASSUME NEW v \in DOMAIN ws PROVE Untouched(ws, v) \/ Owned(rs, ws, v)
  <2>1. Untouched(vs, v) \/ Owned(rs, vs, v)
    BY <1>1 DEF WellFormed
  <2>2. ws[v].prod = vs[v].prod /\ ws[v].act = vs[v].act /\ ws[v].depth = vs[v].depth
    BY <1>1
  <2> QED
    BY <2>1, <2>2, Zenon DEF Untouched, Owned
<1>3. WellFormed(rs, ws)
  BY <1>1, <1>2 DEF WellFormed
<1>4. ASSUME NEW v \in DOMAIN ws, ws[v].act PROVE Layered(rs, ws, v)
  <2>1. v \in DOMAIN vs /\ Layered(rs, vs, v) /\ ws[v].prod = vs[v].prod
        /\ ws[v].depth = vs[v].depth
    BY <1>1, <1>4 DEF Sound
  <2>2. NeededIn(rs, vs, v) \subseteq DOMAIN vs
    BY <1>1, <2>1, NeededType
  <2>3. \A u \in NeededIn(rs, vs, v) :
            /\ ws[u].depth = vs[u].depth /\ ws[u].prod = vs[u].prod
            /\ ws[u].act = vs[u].act
    BY <2>2
  <2> QED
    BY <2>1, <2>3, LayeredSame
<1> QED
  BY <1>3, <1>4 DEF Sound

\* A step that sets texts only.
LEMMA TextStep ==
  ASSUME IInv, sv' \in [DOMAIN sv -> SemanticVariables], UNCHANGED <<reqs, groups>>,
         \A v \in DOMAIN sv : /\ sv'[v].prod = sv[v].prod /\ sv'[v].act = sv[v].act
                              /\ sv'[v].depth = sv[v].depth
  PROVE  IInv'
<1>1. Sound(reqs, sv')
  BY SameShape DEF IInv
<1>2. DOMAIN sv' = DOMAIN sv
  OBVIOUS
<1> QED
  BY <1>1, <1>2 DEF IInv

\* A step that makes variables only.
LEMMA ExtendStep ==
  ASSUME IInv, Extends(sv, sv'), UNCHANGED <<reqs, groups>>
  PROVE  IInv' /\ Kept
<1>1. Sound(reqs, sv') /\ Enlarges(reqs, DOMAIN sv, reqs, DOMAIN sv')
  BY ExtendedSound DEF IInv
<1>2. ASSUME NEW grp \in groups PROVE HasConsumer(reqs, DOMAIN sv', grp)
  <2>1. HasConsumer(reqs, DOMAIN sv, grp)
    BY DEF IInv
  <2> QED
    BY <1>1, <2>1, ConsumerKept
<1>3. Kept
  BY DEF Kept, Extends
<1> QED
  BY <1>1, <1>2, <1>3 DEF IInv

LEMMA RegisterStep ==
  ASSUME IInv, Register
  PROVE  IInv' /\ Kept
<1> DEFINE acc == CreateVars(<<>>, FALSE)
           t == ByName(acc, NewVar)
<1>1. IsFiniteSet(DOMAIN sv) /\ sv \in [DOMAIN sv -> SemanticVariables]
  BY DEF IInv, Sound, WellFormed
<1>2. Created(<<>>, 0, acc)
  <2>1. Len(<<>>) = 0
    OBVIOUS
  <2>2. \A i \in 1 .. Len(<<>>) : <<>>[i].kind \in {"text", "in", "val", "gen"}
    BY <2>1
  <2>3. Created(<<>>, Len(<<>>), acc)
    BY <1>1, <2>1, <2>2, CreateVarsCreated
  <2> QED
    BY <2>1, <2>3
<1> HIDE DEF acc
<1>3. IsAcc(acc) /\ Extends(sv, acc.sv) /\ acc.ok
  BY <1>2 DEF Created
<1>4. Added(acc, t, TRUE)
  BY <1>3, NewVarFresh, ByNameAdds
<1>5. Extends(sv, t.sv)
  BY <1>4 DEF Added
<1>6. sv' = t.sv /\ UNCHANGED <<reqs, groups>>
  BY Zenon DEF Register, acc
<1> QED
  BY <1>5, <1>6, ExtendStep

LEMMA SetVarStep ==
  ASSUME IInv, NEW v \in DOMAIN sv, SetVar(v)
  PROVE  IInv' /\ Kept
<1>1. sv \in [DOMAIN sv -> SemanticVariables]
  BY DEF IInv, Sound, WellFormed
<1> DEFINE x == SetTo(sv[v], "client")
<1>2. /\ x \in SemanticVariables /\ x.ready = TRUE /\ x.prod = sv[v].prod
      /\ x.act = sv[v].act /\ x.depth = sv[v].depth
  BY <1>1, SetToFacts DEF Contents
<1>3. sv' = [sv EXCEPT ![v] = x] /\ sv[v].content = "None" /\ UNCHANGED <<reqs, groups>>
  BY DEF SetVar
<1> HIDE DEF x
<1>4. IInv'
  BY <1>1, <1>2, <1>3, TextStep
<1>5. Kept
  BY <1>1, <1>2, <1>3 DEF Kept
<1> QED
  BY <1>4, <1>5

\* What activations have made of a graph with the requests qs.
LEMMA ArrivedStep ==
  ASSUME IInv, NEW vs, NEW t, IsList(reqs'), Arrived(reqs', vs, t),
         Enlarges(reqs, DOMAIN sv, reqs', DOMAIN vs), \A v \in DOMAIN sv : vs[v] = sv[v],
         sv' = t.sv, groups' = groups \cup MadeGroups(t)
  PROVE  IInv' /\ Kept
<1>1. t \in TraversalsOver(DOMAIN vs) /\ Ahead(vs, sv') /\ Sound(reqs', sv')
  BY DEF Arrived
<1>2. DOMAIN sv' = DOMAIN vs
  BY <1>1 DEF Ahead
<1>3. ASSUME NEW grp \in groups' PROVE HasConsumer(reqs', DOMAIN vs, grp)
  <2>1. CASE grp \in groups
    <3>1. HasConsumer(reqs, DOMAIN sv, grp)
      BY <2>1 DEF IInv
    <3> QED
      BY <3>1, ConsumerKept
  <2>2. CASE grp \in MadeGroups(t)
    <3>1. t.groups \in Seq(SUBSET (Nat \X Nat))
      BY <1>1 DEF TraversalsOver
    <3>2. grp \in {t.groups[k] : k \in DOMAIN t.groups}
      BY <2>2, Zenon DEF MadeGroups, ToSet
    <3>3. DOMAIN t.groups = 1 .. Len(t.groups)
      BY <3>1
    <3> QED
      BY <3>2, <3>3 DEF Arrived
  <2> QED
    BY <1>3, <2>1, <2>2
<1>4. Kept
  <2>1. ASSUME NEW v \in DOMAIN sv
        PROVE  sv'[v].ready = sv[v].ready /\ sv'[v].content = sv[v].content
    <3>1. v \in DOMAIN vs /\ vs[v] = sv[v]
      BY DEF Enlarges
    <3> QED
      BY <1>1, <3>1 DEF Ahead
  <2> QED
    BY <2>1 DEF Kept
<1> QED
  BY <1>1, <1>2, <1>3, <1>4 DEF IInv

LEMMA GetStep ==
  ASSUME IInv, NEW v \in DOMAIN sv, NEW crit \in Criteria, Get(v, crit)
  PROVE  IInv' /\ Kept
<1> DEFINE t == ActivateSv(reqs, NewTraversal(sv), v, crit)
<1>1. sv' = t.sv /\ groups' = groups \cup MadeGroups(t) /\ reqs' = reqs
  BY Zenon DEF Get
<1>2. IsList(reqs) /\ Sound(reqs, sv)
  BY DEF IInv
<1>3. Arrived(reqs, sv, t)
  BY <1>2, NewArrived, ActivateSvArrived
<1>4. Enlarges(reqs, DOMAIN sv, reqs, DOMAIN sv)
  BY <1>2 DEF Enlarges, Sound, WellFormed
<1> HIDE DEF t
<1>5. \A u \in DOMAIN sv : sv[u] = sv[u]
  OBVIOUS
<1> QED
  BY <1>1, <1>2, <1>3, <1>4, <1>5, ArrivedStep

\* A filled-in shape.
LEMMA InstanceFacts ==
  ASSUME NEW K, NEW shape \in Seq(K), NEW nodes \in Instances(shape)
  PROVE  /\ Len(shape) \in Nat /\ Len(nodes) = Len(shape)
         /\ DOMAIN nodes = 1 .. Len(shape)
         /\ \A i \in 1 .. Len(shape) : nodes[i].kind = shape[i] /\ shape[i] \in K
<1> DEFINE n == Len(shape)
<1>1. n \in Nat /\ DOMAIN shape = 1 .. n /\ \A i \in 1 .. n : shape[i] \in K
  OBVIOUS
<1>2. PICK a : nodes = [i \in DOMAIN shape |-> [kind |-> shape[i], arg |-> a[i]]]
  BY Zenon DEF Instances
<1> HIDE DEF n
<1>3. DOMAIN nodes = 1 .. n /\ \A i \in 1 .. n : nodes[i].kind = shape[i]
  BY <1>1, <1>2
<1>4. Len(nodes) = n
  <2>1. nodes \in Seq({nodes[i] : i \in 1 .. n})
    BY <1>1, <1>2, <1>3
  <2> QED
    BY <1>1, <1>3, <2>1
<1> QED
  BY <1>1, <1>3, <1>4 DEF n

\* A request that can be added: it has a Gen unless it is native, and does not
\* start with one.
Addable(nodes, native) ==
    /\ Len(nodes) \in Nat /\ DOMAIN nodes = 1 .. Len(nodes)
    /\ \A i \in 1 .. Len(nodes) : nodes[i].kind \in {"text", "in", "val", "gen"}
    /\ ~ native => /\ Len(nodes) > 0 /\ nodes[1].kind # "gen"
                   /\ \E i \in 1 .. Len(nodes) : nodes[i].kind = "gen"

LEMMA ShapesAddable ==
  /\ \A shape \in Shapes : \A nodes \in Instances(shape) : Addable(nodes, FALSE)
  /\ \A shape \in NativeShapes : \A nodes \in Instances(shape) : Addable(nodes, TRUE)
<1>1. ASSUME NEW shape \in Shapes, NEW nodes \in Instances(shape)
      PROVE  Addable(nodes, FALSE)
  <2> DEFINE K == {"text", "in", "val", "gen"}
  <2>1. /\ shape \in Seq(K) /\ shape # <<>> /\ shape[1] # "gen"
        /\ \E i \in DOMAIN shape : shape[i] = "gen"
    BY ShapesAssumption
  <2>2. Len(shape) > 0 /\ DOMAIN shape = 1 .. Len(shape)
    BY <2>1
  <2> HIDE DEF K
  <2>3. /\ Len(shape) \in Nat /\ Len(nodes) = Len(shape)
        /\ DOMAIN nodes = 1 .. Len(shape)
        /\ \A i \in 1 .. Len(shape) : nodes[i].kind = shape[i] /\ shape[i] \in K
    BY <2>1, InstanceFacts
  <2>4. nodes[1].kind = shape[1]
    BY <2>2, <2>3
  <2> QED
    BY <2>1, <2>2, <2>3, <2>4 DEF Addable, K
<1>2. ASSUME NEW shape \in NativeShapes, NEW nodes \in Instances(shape)
      PROVE  Addable(nodes, TRUE)
  <2> DEFINE K == {"in", "val", "gen"}
  <2>1. shape \in Seq(K)
    BY ShapesAssumption
  <2> HIDE DEF K
  <2>2. /\ Len(shape) \in Nat /\ Len(nodes) = Len(shape)
        /\ DOMAIN nodes = 1 .. Len(shape)
        /\ \A i \in 1 .. Len(shape) : nodes[i].kind = shape[i] /\ shape[i] \in K
    BY <2>1, InstanceFacts
  <2> QED
    BY <2>2 DEF Addable, K
<1> QED
  BY <1>1, <1>2

LEMMA SubmitStep ==
  ASSUME IInv, NEW nodes, NEW native \in BOOLEAN, Addable(nodes, native), NEW prefix,
         NEW crit \in Criteria, Submit(nodes, native, prefix, crit)
  PROVE  IInv' /\ Kept
<1> DEFINE acc == CreateVars(nodes, prefix)
           n == Len(nodes)
           b == [i \in DOMAIN nodes |-> nodes[i].kind = "gen"]
           r == Len(reqs) + 1
           q == [native |-> native, bits |-> b, ids |-> acc.ids]
           rs == Append(reqs, q)
           vs == Inserted(acc.sv, acc.ids, b, r)
           targets == IF native THEN Gens(b) ELSE {Max(Gens(b))}
           ids == IdsAt(rs[r], targets)
           none == NewTraversal(vs)
           activated == CHOOSE f :
               f = [i \in 0 .. Len(ids) |->
                      IF i = 0 THEN none
                      ELSE IF f[i - 1].ok THEN ActivateSv(rs, f[i - 1], ids[i], crit)
                      ELSE f[i - 1]]
           st == activated[IF crit = "NONE" THEN 0 ELSE Len(ids)]
<1>1. IF ~ acc.ok
      THEN sv' = acc.sv /\ UNCHANGED <<reqs, groups>>
      ELSE reqs' = rs /\ sv' = st.sv /\ groups' = groups \cup MadeGroups(st)
  BY Zenon DEF Submit
<1>2. /\ n \in Nat /\ DOMAIN nodes = 1 .. n
      /\ \A i \in 1 .. n : nodes[i].kind \in {"text", "in", "val", "gen"}
      /\ ~ native => /\ n > 0 /\ nodes[1].kind # "gen"
                     /\ \E i \in 1 .. n : nodes[i].kind = "gen"
  BY DEF Addable
<1> HIDE DEF activated, acc
<1>3. Created(nodes, n, acc)
  <2>1. IsFiniteSet(DOMAIN sv) /\ sv \in [DOMAIN sv -> SemanticVariables]
    BY DEF IInv, Sound, WellFormed
  <2> QED
    BY <1>2, <2>1, CreateVarsCreated DEF acc
<1> HIDE DEF n
<1>4. CASE ~ acc.ok
  BY <1>1, <1>3, <1>4, ExtendStep DEF Created
<1>5. CASE acc.ok
  <2>1. /\ Extends(sv, acc.sv) /\ acc.ids \in Seq(DOMAIN acc.sv) /\ Len(acc.ids) = n
        /\ \A j \in 1 .. n : nodes[j].kind = "gen" => acc.ids[j] \notin DOMAIN sv
    BY <1>3, <1>5 DEF Created
  <2>2. IsList(reqs) /\ Sound(reqs, sv)
    BY DEF IInv
  <2>3. /\ b \in [1 .. n -> BOOLEAN] /\ acc.ids \in [1 .. n -> DOMAIN acc.sv]
        /\ \A i \in 1 .. n : b[i] <=> nodes[i].kind = "gen"
    <3>1. acc.ids \in [1 .. n -> DOMAIN acc.sv]
      <4> HIDE DEF b, q, r, rs, vs, targets, ids, none, st
      <4> QED
        BY <1>2, <2>1
    <3>2. b \in [1 .. n -> BOOLEAN]
      BY <1>2
    <3>3. \A i \in 1 .. n : b[i] <=> nodes[i].kind = "gen"
      BY <1>2
    <3> QED
      BY <3>1, <3>2, <3>3
  <2>4. Gens(b) = {i \in 1 .. n : nodes[i].kind = "gen"}
    BY <2>3 DEF Gens
  <2> HIDE DEF b
  <2>5. q.native = native /\ q.bits = b /\ q.ids = acc.ids
    OBVIOUS
  <2> HIDE DEF q
  <2>6. Request(q, DOMAIN acc.sv)
    <3>1. ~ native => n > 0 /\ b[1] = FALSE
      BY <1>2, <2>3
    <3> QED
      BY <1>2, <2>3, <2>5, <3>1 DEF Request
  <2>7. \A g \in Gens(q.bits) : q.ids[g] \notin DOMAIN sv
    BY <2>1, <2>4, <2>5
  <2>8. /\ Sound(rs, vs) /\ Enlarges(reqs, DOMAIN sv, rs, DOMAIN vs)
        /\ DOMAIN vs = DOMAIN acc.sv /\ \A v \in DOMAIN sv : vs[v] = sv[v]
    <3>1. vs = Inserted(acc.sv, q.ids, q.bits, Len(reqs) + 1)
      BY <2>5
    <3> HIDE DEF rs, vs, r, targets, ids, none, st
    <3>2. rs = Append(reqs, q)
      BY DEF rs
    <3> DEFINE us == acc.sv
    <3>3. /\ Extends(sv, us) /\ Request(q, DOMAIN us)
          /\ vs = Inserted(us, q.ids, q.bits, Len(reqs) + 1)
      BY <2>1, <2>6, <3>1
    <3> HIDE DEF us
    <3>4. Grows(reqs, sv, us, q, rs, vs)
      BY <2>2, <2>7, <3>2, <3>3, InsertedSound
    <3> QED
      BY <3>4 DEF Grows, us
  <2>9. IsList(rs) /\ rs[r] = q
    BY <2>2, AppendList
  <2> HIDE DEF rs, vs, r
  <2>10. targets \subseteq 1 .. n
    <3>1. Gens(b) \subseteq 1 .. n
      BY <2>4
    <3>2. CASE native
      BY <3>1, <3>2
    <3>3. CASE ~ native
      <4>1. Gens(b) # {}
        BY <1>2, <2>4, <3>3
      <4>2. Max(Gens(b)) \in Gens(b)
        BY <1>2, <3>1, <4>1, MaxFacts
      <4> QED
        BY <3>1, <3>3, <4>2
    <3> QED
      BY <3>2, <3>3
  <2> HIDE DEF targets
  <2>11. ids \in Seq(DOMAIN vs)
    <3>1. q.ids \in [1 .. n -> DOMAIN vs]
      BY <2>3, <2>5, <2>8
    <3>2. Lists(IdsAt(q, targets), DOMAIN vs, q.ids, targets)
      BY <1>2, <2>10, <3>1, IdsAtElements
    <3> QED
      BY <2>9, <3>2 DEF Lists
  <2> HIDE DEF ids
  <2>12. Arrived(rs, vs, none)
    BY <2>8, NewArrived
  <2> HIDE DEF none
  <2>13. Activations(rs, ids, crit, none, Len(ids), activated)
    <3>1. HasActivations(rs, ids, crit, none, Len(ids))
      BY <2>11, ActivationsDefined
    <3> QED
      BY <3>1, Zenon DEF HasActivations, Activations, Step, activated
  <2>14. Arrived(rs, vs, st)
    <3>1. \A i \in 0 .. Len(ids) : Arrived(rs, vs, activated[i])
      BY <2>11, <2>12, <2>13, ActivationsArrived
    <3>2. Len(ids) \in Nat
      BY <2>11
    <3> QED
      BY <3>1, <3>2
  <2> HIDE DEF st
  <2>15. reqs' = rs /\ sv' = st.sv /\ groups' = groups \cup MadeGroups(st)
    BY <1>1, <1>5
  <2> QED
    BY <2>8, <2>9, <2>14, <2>15, ArrivedStep
<1> QED
  BY <1>4, <1>5

LEMMA FinishGenStep ==
  ASSUME IInv, NEW r \in DOMAIN reqs, NEW g \in Gens(reqs[r].bits), FinishGen(r, g)
  PROVE  IInv' /\ Kept
<1> DEFINE v == reqs[r].ids[g]
           fine == /\ sv[v].content = "None"
                   /\ \A i \in FillsOf(r, g) : sv[reqs[r].ids[i]].content # "None"
           x == SetTo(sv[v], "generated")
<1>1. sv \in [DOMAIN sv -> SemanticVariables] /\ Request(reqs[r], DOMAIN sv)
  BY DEF IInv, Sound, WellFormed
<1>2. v \in DOMAIN sv
  BY <1>1, RequestIds
<1>3. /\ sv' = IF fine THEN [sv EXCEPT ![v] = x] ELSE sv
      /\ UNCHANGED <<reqs, groups>>
  BY Zenon DEF FinishGen
<1> HIDE DEF v
<1>4. /\ x \in SemanticVariables /\ x.ready = TRUE /\ x.prod = sv[v].prod
      /\ x.act = sv[v].act /\ x.depth = sv[v].depth
  BY <1>1, <1>2, SetToFacts DEF Contents
<1> HIDE DEF x
<1>5. IInv'
  BY <1>1, <1>2, <1>3, <1>4, TextStep
<1>6. Kept
  BY <1>1, <1>2, <1>3, <1>4 DEF Kept
<1> QED
  BY <1>5, <1>6

\* A step that leaves the graph alone.
LEMMA IdleStep ==
  ASSUME IInv, UNCHANGED <<sv, reqs, groups>>
  PROVE  IInv' /\ Kept
BY DEF IInv, Kept

LEMMA RunNativeStep ==
  ASSUME IInv, NEW r \in DOMAIN reqs, NEW written, RunNative(r, written)
  PROVE  IInv' /\ Kept
<1> DEFINE gens == Gens(reqs[r].bits)
           taken == {g \in gens : sv[reqs[r].ids[g]].content # "None"}
           set == {g \in gens : \A h \in taken : g < h}
           out(id) == \E g \in set : reqs[r].ids[g] = id
           c(id) == IF \E g \in written : reqs[r].ids[g] = id THEN "computed" ELSE "None"
<1>1. sv \in [DOMAIN sv -> SemanticVariables]
  BY DEF IInv, Sound, WellFormed
<1>2. /\ sv' = [id \in DOMAIN sv |-> IF out(id) THEN SetTo(sv[id], c(id)) ELSE sv[id]]
      /\ UNCHANGED <<reqs, groups>>
  BY Zenon DEF RunNative
<1>3. ASSUME NEW id \in DOMAIN sv, out(id)
      PROVE  sv[id].content = "None"
  <2>1. PICK g \in gens : reqs[r].ids[g] = id /\ \A h \in taken : g < h
    BY <1>3
  <2>2. ~ (g < g)
    <3>1. PICK n \in Nat : reqs[r].bits \in [1 .. n -> BOOLEAN]
      BY DEF IInv, Sound, WellFormed, Request
    <3>2. g \in 1 .. n
      BY <3>1 DEF Gens
    <3> QED
      BY <3>2
  <2>3. g \notin taken
    BY <2>1, <2>2
  <2> QED
    BY <2>1, <2>3
<1> HIDE DEF out
<1>4. ASSUME NEW id \in DOMAIN sv
      PROVE  LET y == SetTo(sv[id], c(id))
             IN  /\ y \in SemanticVariables /\ y.ready = TRUE
                 /\ y.prod = sv[id].prod /\ y.act = sv[id].act /\ y.depth = sv[id].depth
  <2>1. c(id) \in Contents
    BY DEF Contents
  <2> HIDE DEF c
  <2> QED
    BY <1>1, <2>1, SetToFacts
<1> HIDE DEF c
<1>5. ASSUME NEW id \in DOMAIN sv
      PROVE  /\ sv'[id] \in SemanticVariables /\ sv'[id].prod = sv[id].prod
             /\ sv'[id].act = sv[id].act /\ sv'[id].depth = sv[id].depth
             /\ sv'[id] = sv[id] \/ (sv'[id].ready = TRUE /\ sv[id].content = "None")
  <2>1. sv'[id] = IF out(id) THEN SetTo(sv[id], c(id)) ELSE sv[id]
    BY <1>2
  <2>2. CASE out(id)
    BY <1>3, <1>4, <2>1, <2>2
  <2>3. CASE ~ out(id)
    BY <1>1, <2>1, <2>3
  <2> QED
    BY <2>2, <2>3
<1>6. sv' \in [DOMAIN sv -> SemanticVariables]
  <2>1. DOMAIN sv' = DOMAIN sv /\ sv' = [id \in DOMAIN sv |-> sv'[id]]
    BY <1>2
  <2> QED
    BY <1>5, <2>1
<1>7. IInv'
  BY <1>2, <1>5, <1>6, TextStep
<1>8. Kept
  BY <1>5 DEF Kept
<1> QED
  BY <1>7, <1>8

LEMMA NextStep ==
  IInv /\ [Next]_vars => IInv' /\ Kept
<1> SUFFICES ASSUME IInv, [Next]_vars PROVE IInv' /\ Kept
  OBVIOUS
<1>1. CASE Register
  BY <1>1, RegisterStep
<1>2. ASSUME NEW v \in DOMAIN sv, SetVar(v) PROVE IInv' /\ Kept
  BY <1>2, SetVarStep
<1>3. ASSUME NEW v \in DOMAIN sv, NEW crit \in Criteria, Get(v, crit) PROVE IInv' /\ Kept
  BY <1>3, GetStep
<1>4. ASSUME NEW shape \in Shapes, NEW prefix, NEW crit \in Criteria,
             NEW nodes \in Instances(shape), SubmitSemantic(nodes, prefix, crit)
      PROVE  IInv' /\ Kept
  <2>1. Addable(nodes, FALSE) /\ Submit(nodes, FALSE, prefix, crit)
    BY <1>4, ShapesAddable DEF SubmitSemantic
  <2> QED
    BY <2>1, SubmitStep
<1>5. ASSUME NEW shape \in NativeShapes, NEW crit \in Criteria,
             NEW nodes \in Instances(shape), SubmitNative(nodes, crit)
      PROVE  IInv' /\ Kept
  <2>1. Addable(nodes, TRUE) /\ Submit(nodes, TRUE, FALSE, crit)
    BY <1>5, ShapesAddable DEF SubmitNative
  <2> QED
    BY <2>1, SubmitStep
<1>6. ASSUME NEW r \in DOMAIN reqs, Coroutine(r) PROVE IInv' /\ Kept
  <2>1. ASSUME NEW g \in Gens(reqs[r].bits), FinishGen(r, g) PROVE IInv' /\ Kept
    BY <2>1, FinishGenStep
  <2>2. ASSUME NEW g \in Gens(reqs[r].bits), FailGen(r, g) PROVE IInv' /\ Kept
    BY <2>2, IdleStep DEF FailGen
  <2>3. ASSUME NEW written, RunNative(r, written) PROVE IInv' /\ Kept
    BY <2>3, RunNativeStep
  <2>4. CASE RaiseNative(r)
    BY <2>4, IdleStep DEF RaiseNative
  <2> QED
    BY <1>6, <2>1, <2>2, <2>3, <2>4, Zenon DEF Coroutine
<1>7. CASE UNCHANGED vars
  BY <1>7, IdleStep DEF vars
<1> QED
  BY <1>1, <1>2, <1>3, <1>4, <1>5, <1>6, <1>7, Zenon DEF Next

LEMMA InitIInv == Init => IInv
<1> SUFFICES ASSUME Init PROVE IInv
  OBVIOUS
<1>1. sv = <<>> /\ reqs = <<>> /\ groups = {}
  BY DEF Init
<1>2. DOMAIN sv = {} /\ Len(reqs) = 0 /\ DOMAIN reqs = {} /\ 1 .. 0 = {}
  BY <1>1
<1>3. sv \in [DOMAIN sv -> SemanticVariables] /\ IsFiniteSet(DOMAIN sv)
  BY <1>1, <1>2, FS_EmptySet
<1>4. IsList(reqs)
  <2>1. reqs \in Seq({})
    BY <1>1
  <2> QED
    BY <2>1, SeqIsList
<1>5. Sound(reqs, sv)
  BY <1>2, <1>3 DEF Sound, WellFormed
<1> QED
  BY <1>1, <1>4, <1>5 DEF IInv

LEMMA AlwaysIInv == Spec => []IInv
<1>1. IInv /\ [Next]_vars => IInv'
  BY NextStep
<1> QED
  BY InitIInv, <1>1, PTL DEF Spec

-----------------------------------------------------------------------------
(* The properties *)

LEMMA NeededByIn ==
  ASSUME NEW v
  PROVE  NeededBy(v) = NeededIn(reqs, sv, v)
BY DEF NeededBy, NeededIn, FillsOf, FillsIn

\* The largest of some numbers and 0.
LEMMA MaxIsDepth ==
  ASSUME NEW vs, NEW N, \A u \in N : vs[u].depth \in Nat, NEW d, IsDepth(vs, N, d)
  PROVE  Max({0} \cup {vs[u].depth : u \in N}) = d
<1> DEFINE S == {0} \cup {vs[u].depth : u \in N}
<1>1. d \in S /\ \A y \in S : y \in Nat /\ d >= y
  BY DEF IsDepth
<1>2. Max(S) \in S /\ \A y \in S : Max(S) >= y
  <2> HIDE DEF S
  <2>1. \E x \in S : \A y \in S : x >= y
    BY <1>1
  <2> QED
    BY <2>1 DEF Max
<1>3. Max(S) \in Nat /\ d \in Nat /\ d >= Max(S) /\ Max(S) >= d
  <2> HIDE DEF S
  <2> QED
    BY <1>1, <1>2
<1> QED
  BY <1>3

\* activate_completion_chain and _activate_sv: whatever assertion stops a
\* traversal half-way, the producers of what an activated variable waits for
\* are activated too.
THEOREM AlwaysActivationClosed == Spec => []ActivationClosed
<1>1. IInv => ActivationClosed
  <2> SUFFICES ASSUME IInv, NEW v \in Activated, NEW u \in NeededBy(v) \cap Produced
               PROVE  sv[u].act
    BY DEF ActivationClosed
  <2>1. Layered(reqs, sv, v)
    BY DEF IInv, Sound, Activated
  <2>2. u \in NeededIn(reqs, sv, v) /\ sv[u].prod # NoProducer
    BY NeededByIn DEF Produced
  <2> QED
    BY <2>1, <2>2 DEF Layered, Ready
<1> QED
  BY AlwaysIInv, <1>1, PTL

\* The depth a traversal computes lies one layer above the deepest input of a
\* chain, and in the layer of the deepest input of a native function, also
\* when earlier gets have activated some of the inputs.
THEOREM AlwaysLayersOrdered == Spec => []LayersOrdered
<1>1. IInv => LayersOrdered
  <2> SUFFICES ASSUME IInv, NEW v \in Activated
               PROVE  sv[v].depth = Max({0} \cup {sv[u].depth : u \in NeededBy(v)})
                                    + Extra(reqs, sv, v)
    BY DEF LayersOrdered, Extra
  <2>1. Layered(reqs, sv, v) /\ WellFormed(reqs, sv) /\ v \in DOMAIN sv
    BY DEF IInv, Sound, Activated
  <2>2. PICK d \in Nat : /\ IsDepth(sv, NeededIn(reqs, sv, v), d)
                         /\ sv[v].depth = d + Extra(reqs, sv, v)
    BY <2>1 DEF Layered
  <2>3. NeededIn(reqs, sv, v) \subseteq DOMAIN sv
    BY <2>1, NeededType
  <2>4. \A u \in DOMAIN sv : sv[u].depth \in Nat
    BY <2>1 DEF WellFormed, SemanticVariables
  <2>5. \A u \in NeededIn(reqs, sv, v) : sv[u].depth \in Nat
    BY <2>3, <2>4
  <2>6. Max({0} \cup {sv[u].depth : u \in NeededIn(reqs, sv, v)}) = d
    BY <2>2, <2>5, MaxIsDepth
  <2> QED
    BY <2>2, <2>6, NeededByIn
<1> QED
  BY AlwaysIInv, <1>1, PTL

LEMMA ReadersLinked ==
  ASSUME NEW x, NEW r \in DOMAIN reqs, NEW c \in Gens(reqs[r].bits), ~ reqs[r].native,
         NEW i \in FillsIn(reqs, r, c), Linked(reqs, DOMAIN sv, x, reqs[r].ids[i]),
         Cardinality(Gens(reqs[x[1]].bits)) = 1
  PROVE  <<r, c>> \in Readers(reqs[x[1]].ids[x[2]])
<1> DEFINE v == reqs[x[1]].ids[x[2]]
<1>1. reqs[r].ids[i] \in DerivedIn(reqs, DOMAIN sv, v)
  BY DEF Linked
<1>2. \A r1, g : FillsOf(r1, g) = FillsIn(reqs, r1, g)
  BY DEF FillsOf, FillsIn
<1>3. \A W : Follows(W) <=> FollowsIn(reqs, W)
  BY <1>2, Zenon DEF Follows, FollowsIn
<1>4. reqs[r].ids[i] \in Derived(v)
  BY <1>1, <1>3 DEF Derived, DerivedIn
<1> HIDE DEF v
<1>5. c \in {h \in Gens(reqs[r].bits) : \E j \in FillsOf(r, h) : reqs[r].ids[j] \in Derived(v)}
  BY <1>2, <1>4
<1>6. <<r, c>> \in {<<r, g>> : g \in {h \in Gens(reqs[r].bits) :
                        \E j \in FillsOf(r, h) : reqs[r].ids[j] \in Derived(v)}}
  BY <1>5, Zenon
<1>7. r \in {q \in DOMAIN reqs : ~ reqs[q].native}
  OBVIOUS
<1>8. <<r, c>> \in Readers(v)
  BY <1>6, <1>7 DEF Readers
<1> QED
  BY <1>8 DEF v

\* "A ChainGroup is a set of parallel chains that point to the same consumer":
\* one chain reads the outputs of all the chains of a group, directly or
\* through native functions.
THEOREM AlwaysGroupHasOneConsumer == Spec => []GroupHasOneConsumer
<1>1. IInv => GroupHasOneConsumer
  <2> SUFFICES ASSUME IInv, NEW grp \in groups
               PROVE  \E r \in DOMAIN reqs : \E c \in {r} \X Gens(reqs[r].bits) :
                        \A x \in grp : Cardinality(Gens(reqs[x[1]].bits)) = 1 =>
                            c \in Readers(reqs[x[1]].ids[x[2]])
    BY DEF GroupHasOneConsumer
  <2>0. PICK r \in DOMAIN reqs : \E g \in Gens(reqs[r].bits) :
                 ~ reqs[r].native /\ Consumes(reqs, DOMAIN sv, r, g, grp)
    BY DEF IInv, HasConsumer
  <2>1. PICK g \in Gens(reqs[r].bits) :
                 ~ reqs[r].native /\ Consumes(reqs, DOMAIN sv, r, g, grp)
    BY <2>0
  <2>2. <<r, g>> \in {r} \X Gens(reqs[r].bits)
    OBVIOUS
  <2>3. ASSUME NEW x \in grp, Cardinality(Gens(reqs[x[1]].bits)) = 1
        PROVE  <<r, g>> \in Readers(reqs[x[1]].ids[x[2]])
    <3>1. PICK i \in FillsIn(reqs, r, g) : Linked(reqs, DOMAIN sv, x, reqs[r].ids[i])
      BY <2>1 DEF Consumes
    <3> QED
      BY <2>1, <2>3, <3>1, ReadersLinked
  <2> QED
    BY <2>2, <2>3, Zenon
<1> QED
  BY AlwaysIInv, <1>1, PTL

\* set_content asserts that there is no content: a client, a Gen and a native
\* function never overwrite each other's text, and what is ready stays ready.
THEOREM AlwaysContentIsFinal == Spec => ContentIsFinal
<1>1. IInv /\ [Next]_vars
        => [\A v \in DOMAIN sv :
              /\ sv[v].ready => sv'[v].ready
              /\ sv[v].content # "None" => sv'[v].content = sv[v].content]_vars
  BY NextStep, Zenon DEF Kept
<1> QED
  BY AlwaysIInv, <1>1, PTL DEF Spec, ContentIsFinal
=============================================================================
