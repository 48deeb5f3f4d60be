---------------------------- MODULE Subsequences -----------------------------
EXTENDS Naturals, Sequences, FiniteSets

\* The elements of q at the positions in I, in the order of q.
SelectAt(q, I) ==
    [i \in 1 .. Cardinality(I) |->
        q[CHOOSE k \in I : Cardinality({l \in I : l < k}) = i - 1]]

\* The elements of q that are in X, in the order of q.
Only(q, X) == SelectAt(q, {i \in DOMAIN q : q[i] \in X})

\* The elements of q that are not in X, in the order of q.
Without(q, X) == SelectAt(q, {i \in DOMAIN q : q[i] \notin X})
=============================================================================
