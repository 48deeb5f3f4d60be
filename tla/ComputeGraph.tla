---------------------------- MODULE ComputeGraph ----------------------------
(***************************************************************************)
(* The variables and the compute graph of one session: registering and     *)
(* setting variables, submitting semantic and native calls, the activation *)
(* of everything a `get` needs (serve/graph/graph_traverse.py) and the     *)
(* execution of what was activated, seen from the graph.                   *)
(*                                                                         *)
(* A variable id is the hash of a seed or of a text, in the namespace of   *)
(* the session or in the one of constant prefixes.  Texts are numbers: one *)
(* below MaxSeed reads like the seed of that number.                       *)
(***************************************************************************)
EXTENDS RequestChains, SequencesExt, Subsequences

CONSTANTS
    Shapes,        \* kinds of the nodes of a semantic request:
                   \* "text", "in" (by id), "val" (by value), "gen"
    NativeShapes,  \* the same for a native call: "in", "val", "gen"
    Texts,         \* the constants of the requests
    CachePrefix,   \* the values of cache_prefix the requests come with
    Criteria,      \* the criteria clients ask for ("NONE" with a submission)
    MaxSeed,       \* bound: the seeds of a session (MaxSeed is an unknown id)
    MaxRequests    \* bound: the requests of a session

VARIABLES
    sv,       \* id -> semantic variable
    seed,     \* the next seed
    reqs,     \* the requests in the graph, in order
    groups,   \* the chain groups activation has made, each the set of its
              \* chains (empty ones and copies left out)
    done,     \* the chains and native functions whose coroutine has ended
    bad       \* the executors that hold a bad_exception

vars == <<sv, seed, reqs, groups, done, bad>>

Local(k) == <<"local", k>>
Prefix(t) == <<"prefix", t>>

NoProducer == <<0, 0>>

NewVar == [content |-> "None", ready |-> FALSE, prod |-> NoProducer,
           act |-> FALSE, depth |-> 0, crit |-> "NONE"]
Contents == {"None", "text", "client", "generated", "computed"}
SemanticVariables ==
    [content : Contents, ready : BOOLEAN, prod : Nat \X Nat,
     act : BOOLEAN, depth : Nat, crit : Criteria \cup {"NONE"}]
SetTo(v, content) == [v EXCEPT !.content = content, !.ready = TRUE]

\* A semantic request has a Gen and does not start with one: refused before it
\* comes here.
ASSUME ShapesAssumption ==
    /\ \A shape \in Shapes :
          /\ shape \in Seq({"text", "in", "val", "gen"}) \ {<<>>}
          /\ shape[1] # "gen"
          /\ \E i \in DOMAIN shape : shape[i] = "gen"
    /\ \A shape \in NativeShapes : shape \in Seq({"in", "val", "gen"})

With(f, k, x) == [i \in DOMAIN f \cup {k} |-> IF i = k THEN x ELSE f[i]]

Init ==
    /\ sv = << >> /\ seed = 0
    /\ reqs = <<>> /\ groups = {}
    /\ done = {} /\ bad = {}

(* ------------------------------ namespaces ------------------------------ *)

\* new_var_by_content: the existing variable, or a new one that is ready.
ByContent(acc, id) ==
    [acc EXCEPT !.ids = Append(@, id),
                !.sv = IF id \in DOMAIN @ THEN @
                       ELSE With(@, id, SetTo(NewVar, "text"))]

\* new_var_by_name: the seed is spent also when the id is taken.
ByName(acc, v) ==
    LET id == Local(acc.seed)
    IN  IF id \in DOMAIN acc.sv THEN [acc EXCEPT !.ok = FALSE, !.seed = @ + 1]
        ELSE [acc EXCEPT !.sv = With(@, id, v), !.seed = @ + 1,
                         !.ids = Append(@, id)]

\* _get_local_var_by_id.
ById(acc, id) ==
    IF id \in DOMAIN acc.sv THEN [acc EXCEPT !.ids = Append(@, id)]
    ELSE [acc EXCEPT !.ok = FALSE]

\* The variable of one node.  Texts before the first placeholder are
\* constant prefixes when the request caches them.
CreateVar(acc, node) ==
    IF ~ acc.ok THEN acc
    ELSE LET a == [acc EXCEPT !.prefix = @ /\ node.kind = "text"]
         IN  CASE node.kind = "text" ->
                      ByContent(a, IF a.prefix THEN Prefix(node.arg)
                                               ELSE Local(node.arg))
               [] node.kind = "val" -> ByName(a, SetTo(NewVar, "text"))
               [] node.kind = "gen" -> ByName(a, NewVar)
               [] node.kind = "in" -> ById(a, Local(node.arg))

CreateVars(nodes, prefix) ==
    LET created[i \in 0 .. Len(nodes)] ==
          IF i = 0 THEN [sv |-> sv, seed |-> seed, ids |-> <<>>, ok |-> TRUE,
                         prefix |-> prefix]
                   ELSE CreateVar(created[i - 1], nodes[i])
    IN  created[Len(nodes)]

\* The ways to fill in a shape: any text, any variable or an unknown one.
Arguments(kind) ==
    CASE kind = "text" -> Texts
      [] kind = "in" -> {k \in 0 .. MaxSeed - 1 : Local(k) \in DOMAIN sv}
                            \cup {MaxSeed}
      [] OTHER -> {0}
Instances(shape) ==
    LET some == UNION {Arguments(shape[i]) : i \in DOMAIN shape}
        args == {a \in [DOMAIN shape -> some] :
                    \A i \in DOMAIN shape : a[i] \in Arguments(shape[i])}
    IN  {[i \in DOMAIN shape |-> [kind |-> shape[i], arg |-> a[i]]] : a \in args}

(* ------------------------------ activation ------------------------------ *)

\* The positions of request r that its chain of Gen g, or the native
\* function, takes its inputs from.
FillsOf(r, g) ==
    IF reqs[r].native THEN DOMAIN reqs[r].ids \ Gens(reqs[r].bits)
    ELSE IterFillFrom(reqs[r].bits, CompletionChainFirst(reqs[r].bits, g))

\* The ids at the positions S of a request, in order.
IdsAt(req, S) == SelectAt(req.ids, S)

\* A traversal over vs in progress: the variables and groups it has changed,
\* the depth it returns, and whether an assertion has stopped it.
Traversals(vs) ==
    [sv : [DOMAIN vs -> SemanticVariables], groups : Seq(SUBSET (Nat \X Nat)),
     depth : Nat, ok : BOOLEAN]
NewTraversal(vs) == [sv |-> vs, groups |-> <<>>, depth |-> 0, ok |-> TRUE]
Failed(st) == [st EXCEPT !.ok = FALSE]

\* activate: asserts that the variable has not been activated before.
Activate(st, v, crit, depth) ==
    IF st.ok /\ ~ st.sv[v].act
    THEN [st EXCEPT !.sv[v].act = TRUE, !.sv[v].depth = depth,
                    !.sv[v].crit = crit, !.depth = depth]
    ELSE Failed(st)

\* Mutant: the depth of the last variable wins.
TraverseAll_LastDepth(visit, st, ids, grp) ==
    LET upTo[i \in 0 .. Len(ids)] ==
          IF i = 0 THEN [st EXCEPT !.depth = 0]
                   ELSE visit[upTo[i - 1]][ids[i]][grp]
    IN  upTo[Len(ids)]

\* Several variables in turn; the depth is the largest one met.
TraverseAll(visit, st, ids, grp) ==
    LET next(acc, v) == [visit[acc][v][grp] EXCEPT !.depth = Max({@, acc.depth})]
        upTo[i \in 0 .. Len(ids)] ==
          IF i = 0 THEN [st EXCEPT !.depth = 0] ELSE next(upTo[i - 1], ids[i])
    IN  upTo[Len(ids)]

Joined(st, grp, chain) ==
    IF grp = 0 THEN st.groups
    ELSE [st.groups EXCEPT ![grp] = @ \cup {chain}]

\* Mutant: the inputs of the chain are put into the chain's own group.
EnterGroup_NoNewGroup(st, grp, chain) ==
    [st EXCEPT !.groups = IF grp = 0 THEN <<{}>> ELSE Joined(st, grp, chain)]

\* The chain joins the group of its consumer, and a new group is begun for
\* the chains of its inputs.
EnterGroup(st, grp, chain) ==
    [st EXCEPT !.groups = Append(Joined(st, grp, chain), {})]

\* A variable that Gen g of request r produces: the fills of its chain are
\* visited, then the Gen before it.
TraverseGen(visit, rs, st, v, crit, grp, r, g) ==
    LET b == rs[r].bits
        c == CompChainOf(b, g)
        f == CompletionChainFirst(b, c)
        begun == EnterGroup(st, grp, <<r, c>>)
        before == {f - 1} \ {0}
        grp1 == Len(begun.groups)
        fills == TraverseAll(visit, begun, IdsAt(rs[r], IterFillFrom(b, f)), grp1)
        all == TraverseAll(visit, fills, IdsAt(rs[r], before), grp1)
        depth == IF IterFillFrom(b, f) \cup before = {} THEN 0
                 ELSE Max({fills.depth, all.depth}) + 1
    IN  IF c = 0 THEN Failed(st)
        ELSE IF st.sv[v].act THEN [st EXCEPT !.depth = st.sv[v].depth]
        ELSE IF \E p \in before : ~ b[p] THEN Failed(fills)
        ELSE Activate(all, v, crit, depth)

\* Mutant: the inputs of the native function are not visited.
TraverseNative_OutputOnly(visit, rs, st, v, crit, grp, r) ==
    Activate(st, v, crit, st.depth)

\* A native function passes the group on and adds no layer.  It does not ask
\* whether the variable has been activated.
TraverseNative(visit, rs, st, v, crit, grp, r) ==
    LET inputs == DOMAIN rs[r].ids \ Gens(rs[r].bits)
        visited == TraverseAll(visit, st, IdsAt(rs[r], inputs), grp)
    IN  Activate(visited, v, crit, visited.depth)

\* One variable, given how the variables it is made of are visited.
Visit(visit, rs, st, v, crit, grp) ==
    LET r == st.sv[v].prod[1]
        g == st.sv[v].prod[2]
    IN  IF ~ st.ok \/ crit \notin {"LATENCY", "THROUGHPUT"} THEN Failed(st)
        ELSE IF r = 0 THEN [st EXCEPT !.depth = 0]
        ELSE IF rs[r].native THEN TraverseNative(visit, rs, st, v, crit, grp, r)
        ELSE TraverseGen(visit, rs, st, v, crit, grp, r, g)

\* The recursion: a path through the graph meets no variable twice, so it is
\* never deeper than there are variables.
Traverse(rs, st, v, crit) ==
    LET vs == st.sv
        deepest == Cardinality(DOMAIN vs) + 1
        visits[n \in 0 .. deepest] ==
          [s \in Traversals(vs) |-> [u \in DOMAIN vs |-> [grp \in Nat |->
              IF n = 0 THEN Failed(s)
                       ELSE Visit(visits[n - 1], rs, s, u, crit, grp)]]]
    IN  visits[deepest][st][v][0]

ActivateSv(rs, st, v, crit) ==
    IF st.sv[v].act THEN Failed(st) ELSE Traverse(rs, st, v, crit)

MadeGroups(st) == ToSet(st.groups) \ {{}}

(* -------------------------------- the API ------------------------------- *)

\* register_semantic_variable.
Register ==
    LET acc == ByName(CreateVars(<<>>, FALSE), NewVar)
    IN  /\ seed < MaxSeed
        /\ sv' = acc.sv /\ seed' = acc.seed
        /\ UNCHANGED <<reqs, groups, done, bad>>

\* Mutant: a variable may be set again.
SetVar_Again(v) ==
    /\ sv' = [sv EXCEPT ![v] = SetTo(@, "client")]
    /\ UNCHANGED <<seed, reqs, groups, done, bad>>

\* set_semantic_variable, which asserts that there is no content yet.
SetVar(v) ==
    /\ sv[v].content = "None"
    /\ sv' = [sv EXCEPT ![v] = SetTo(@, "client")]
    /\ UNCHANGED <<seed, reqs, groups, done, bad>>

\* get_semantic_variable of a variable with a producer: activation.  (Once
\* activated, and without a producer, it only waits.)
Get(v, crit) ==
    LET st == ActivateSv(reqs, NewTraversal(sv), v, crit)
    IN  /\ sv[v].prod # NoProducer /\ ~ sv[v].act
        /\ sv' = st.sv /\ groups' = groups \cup MadeGroups(st)
        /\ UNCHANGED <<seed, reqs, done, bad>>

\* Insert the request into the graph: its outputs get their producer.
Inserted(vs, ids, b, r) ==
    [id \in DOMAIN vs |->
        IF \E g \in Gens(b) : ids[g] = id
        THEN [vs[id] EXCEPT !.prod = <<r, CHOOSE g \in Gens(b) : ids[g] = id>>]
        ELSE vs[id]]

\* add_request: variables first, then the graph, then (with a criterion) the
\* activation of the last chain, or of all outputs of a native function.  An
\* error leaves what was done before it.
Submit(nodes, native, prefix, crit) ==
    LET acc == CreateVars(nodes, prefix)
        b == [i \in DOMAIN nodes |-> nodes[i].kind = "gen"]
        r == Len(reqs) + 1
        rs == Append(reqs, [native |-> native, bits |-> b, ids |-> acc.ids])
        vs == Inserted(acc.sv, acc.ids, b, r)
        targets == IF native THEN Gens(b) ELSE {Max(Gens(b))}
        ids == IdsAt(rs[r], targets)
        activated[i \in 0 .. Len(ids)] ==
          IF i = 0 THEN NewTraversal(vs)
          ELSE IF activated[i - 1].ok
          THEN ActivateSv(rs, activated[i - 1], ids[i], crit)
          ELSE activated[i - 1]
        st == activated[IF crit = "NONE" THEN 0 ELSE Len(ids)]
    IN  /\ acc.seed <= MaxSeed
        /\ Len(reqs) < MaxRequests
        /\ seed' = acc.seed
        /\ IF ~ acc.ok
           THEN sv' = acc.sv /\ UNCHANGED <<reqs, groups>>
           ELSE /\ reqs' = rs
                /\ sv' = st.sv
                /\ groups' = groups \cup MadeGroups(st)
        /\ UNCHANGED <<done, bad>>

SubmitSemantic(nodes, prefix, crit) == Submit(nodes, FALSE, prefix, crit)
SubmitNative(nodes, crit) == Submit(nodes, TRUE, FALSE, crit)

(* ------------------------------- execution ------------------------------ *)

\* The coroutine of a chain: activated, and the variables of its fills and
\* of the nodes before them are ready.
CanRun(r, g) ==
    /\ ~ reqs[r].native /\ g \in Gens(reqs[r].bits)
    /\ <<r, g>> \notin done
    /\ sv[reqs[r].ids[g]].act
    /\ \A i \in FillsOf(r, g), j \in {0, 1} :
           i > j => sv[reqs[r].ids[i - j]].ready

\* The Gen's text is set; a fill without a text (tokenizing it fails) or a
\* text that is there already raises, which marks the executor as bad.
FinishGen(r, g) ==
    LET v == reqs[r].ids[g]
        fine == /\ sv[v].content = "None"
                /\ \A i \in FillsOf(r, g) : sv[reqs[r].ids[i]].content # "None"
    IN  /\ CanRun(r, g)
        /\ done' = done \cup {<<r, g>>}
        /\ sv' = IF fine THEN [sv EXCEPT ![v] = SetTo(@, "generated")] ELSE sv
        /\ bad' = IF fine THEN bad ELSE bad \cup {"graph"}
        /\ UNCHANGED <<seed, reqs, groups>>

\* The task cannot be scheduled or its engine fails.
FailGen(r, g) ==
    /\ CanRun(r, g)
    /\ done' = done \cup {<<r, g>>}
    /\ bad' = bad \cup {"graph"}
    /\ UNCHANGED <<sv, seed, reqs, groups>>

\* Mutant: it waits until all of its outputs are activated.
CanRunNative_AllOutputs(r) ==
    /\ reqs[r].native
    /\ <<r, 0>> \notin done
    /\ \A g \in Gens(reqs[r].bits) : sv[reqs[r].ids[g]].act
    /\ \A i \in FillsOf(r, 0) : sv[reqs[r].ids[i]].ready

\* The coroutine of a native function: one of its outputs activated, all its
\* inputs ready.
CanRunNative(r) ==
    /\ reqs[r].native
    /\ <<r, 0>> \notin done
    /\ \E g \in Gens(reqs[r].bits) : sv[reqs[r].ids[g]].act
    /\ \A i \in FillsOf(r, 0) : sv[reqs[r].ids[i]].ready

\* The function returns; `written` are the outputs it has set.  An output it
\* has not set becomes ready without content.  The outputs are written in
\* turn until one of them has content already.
RunNative(r, written) ==
    LET gens == Gens(reqs[r].bits)
        taken == {g \in gens : sv[reqs[r].ids[g]].content # "None"}
        set == {g \in gens : \A h \in taken : g < h}
    IN  /\ CanRunNative(r)
        /\ written \subseteq gens
        /\ done' = done \cup {<<r, 0>>}
        /\ sv' = [id \in DOMAIN sv |->
                    IF \E g \in set : reqs[r].ids[g] = id
                    THEN SetTo(sv[id],
                               IF \E g \in written : reqs[r].ids[g] = id
                               THEN "computed" ELSE "None")
                    ELSE sv[id]]
        /\ bad' = IF taken = {} THEN bad ELSE bad \cup {"native"}
        /\ UNCHANGED <<seed, reqs, groups>>

\* The function raises.
RaiseNative(r) ==
    /\ CanRunNative(r)
    /\ done' = done \cup {<<r, 0>>}
    /\ bad' = bad \cup {"native"}
    /\ UNCHANGED <<sv, seed, reqs, groups>>

Coroutine(r) ==
    \/ \E g \in Gens(reqs[r].bits) : FinishGen(r, g) \/ FailGen(r, g)
    \/ \E written \in SUBSET Gens(reqs[r].bits) : RunNative(r, written)
    \/ RaiseNative(r)

\* Bound: the clients of a session whose executor holds an error stop.  (The
\* serve loop sweeps it when the error is one of the graph executor.)
Next ==
    \/ /\ bad = {}
       /\ Register \/ \E v \in DOMAIN sv : SetVar(v)
    \/ /\ bad = {}
       /\ \E v \in DOMAIN sv, crit \in Criteria \ {"NONE"} : Get(v, crit)
    \/ /\ bad = {}
       /\ \E shape \in Shapes, prefix \in CachePrefix, crit \in Criteria :
              \E nodes \in Instances(shape) :
                  SubmitSemantic(nodes, prefix, crit)
    \/ /\ bad = {}
       /\ \E shape \in NativeShapes, crit \in Criteria :
              \E nodes \in Instances(shape) : SubmitNative(nodes, crit)
    \/ \E r \in DOMAIN reqs : Coroutine(r)

\* The event loop runs every coroutine that can run.
Spec ==
    /\ Init
    /\ [][Next]_vars
    /\ \A r \in 1 .. MaxRequests : WF_vars(r \in DOMAIN reqs /\ Coroutine(r))

(* ------------------------------ properties ------------------------------ *)

\* The variables the producer of v takes its inputs from.
NeededBy(v) ==
    LET r == sv[v].prod[1]
    IN  IF r = 0 THEN {}
        ELSE {reqs[r].ids[i] : i \in FillsOf(r, sv[v].prod[2])}

Produced == {v \in DOMAIN sv : sv[v].prod # NoProducer}
Activated == {v \in DOMAIN sv : sv[v].act}

\* Every variable an activated producer waits for is activated itself, unless
\* nobody produces it: whatever assertion stops a traversal half-way, no
\* coroutine is started that waits for a chain that never will be.
ActivationClosed ==
    \A v \in Activated : \A u \in NeededBy(v) \cap Produced : sv[u].act

\* The layers of the performance deduction: a chain lies one layer above the
\* deepest of its inputs, a native function in the layer of its deepest one,
\* although the inputs may have been activated by other gets, with other
\* criteria, long before.
LayersOrdered ==
    \A v \in Activated :
        LET depths == {0} \cup {sv[u].depth : u \in NeededBy(v)}
        IN  sv[v].depth = Max(depths)
                          + (IF reqs[sv[v].prod[1]].native THEN 0 ELSE 1)

\* What a chain gives to: the chains that read its output, directly or
\* through native functions.
\* W contains what native functions make of its variables.
Follows(W) ==
    \A r \in DOMAIN reqs :
        reqs[r].native /\ (\E i \in FillsOf(r, 0) : reqs[r].ids[i] \in W)
            => \A g \in Gens(reqs[r].bits) : reqs[r].ids[g] \in W
Derived(v) ==
    {u \in DOMAIN sv : \A W \in SUBSET DOMAIN sv : v \in W /\ Follows(W) => u \in W}

Readers(v) ==
    UNION {{<<r, g>> : g \in {h \in Gens(reqs[r].bits) :
               \E i \in FillsOf(r, h) : reqs[r].ids[i] \in Derived(v)}} :
           r \in {q \in DOMAIN reqs : ~ reqs[q].native}}

\* "A ChainGroup is a set of parallel chains that point to the same consumer":
\* the scheduler places a group on one engine, so a chain that joined the
\* group of somebody else's consumer would be placed wrongly.  (For requests
\* with one output: with two, the group records the wrong chain.)
GroupHasOneConsumer ==
    \A grp \in groups :
        \E r \in DOMAIN reqs : \E c \in {r} \X Gens(reqs[r].bits) :
            \A x \in grp : Cardinality(Gens(reqs[x[1]].bits)) = 1 =>
                c \in Readers(reqs[x[1]].ids[x[2]])

\* A text is final: what a client, a Gen or a native function has written is
\* never overwritten by another of them, and a ready variable stays ready.
ContentIsFinal ==
    [][\A v \in DOMAIN sv :
          /\ sv[v].ready => sv'[v].ready
          /\ sv[v].content # "None" => sv'[v].content = sv[v].content]_vars

\* What a get has activated becomes ready, or some executor holds an error,
\* if the variables nobody produces have been set.
ActivatedBecomesReady ==
    \A k \in 0 .. MaxSeed - 1 :
        LET v == Local(k)
        IN  (/\ v \in Activated
             /\ \A u \in DOMAIN sv \ Produced : sv[u].ready)
            ~> (bad # {} \/ (v \in DOMAIN sv /\ sv[v].ready))
=============================================================================
