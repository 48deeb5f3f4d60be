--------------------------- MODULE RequestChains ---------------------------
(***************************************************************************)
(* How a parsed request is cut into completion chains                      *)
(* (serve/graph/graph.py).  A request is a sequence of nodes linked by     *)
(* edges of type A in the order of its body; `b` is the sequence that says *)
(* of every node whether it is a Gen.  A chain is named by the position of *)
(* the Gen it was created for.                                             *)
(***************************************************************************)
EXTENDS Naturals, Sequences, FiniteSets, FiniteSetsExt

Gens(b) == {i \in DOMAIN b : b[i]}

\* The Gens of b before position i.
GensBefore(b, i) == {g \in Gens(b) : g < i}

\* Mutant: every chain starts at the node before its own Gen.
CompletionChainFirst_OwnGen(b, g) == g - 1

\* The node a chain starts from: the first node of the request and, after a
\* Gen, the node *before* that Gen.
CompletionChainFirst(b, g) ==
    IF GensBefore(b, g) = {} THEN 1 ELSE Max(GensBefore(b, g)) - 1

\* What CompletionChain.iter yields from node f: nothing when the node before
\* f is a Gen, else everything up to and including the next Gen.
IterFrom(b, f) ==
    {i \in DOMAIN b : /\ i >= f
                      /\ ~ (f > 1 /\ b[f - 1])
                      /\ \A j \in f .. i - 1 : ~ b[j]}

\* What CompletionChain.iter_fill yields: everything before the next Gen.
IterFillFrom(b, f) == {i \in DOMAIN b : i >= f /\ \A j \in f .. i : ~ b[j]}

\* The chain a node belongs to (0 for none): every chain claims the nodes it
\* iterates over when it is created, and a later chain overwrites the claim.
CompChainOf(b, i) ==
    LET claims == {g \in Gens(b) :
                      i \in IterFrom(b, CompletionChainFirst(b, g))}
    IN  IF claims = {} THEN 0 ELSE Max(claims)

\* Reference: "Fill -> Fill -> Fill -> Gen", the nodes after the previous Gen.
ProperChain(b, g) ==
    {i \in 1 .. g : \A h \in GensBefore(b, g) : i > h}
=============================================================================
