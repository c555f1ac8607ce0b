------------------------------- MODULE Lists --------------------------------
(* What the lists of core are put through: Array.sort and Array.filter.         *)
EXTENDS Naturals, FiniteSets, SequencesExt

\* The members of `S`, each at the place that as many as come before it leave it: what a
\* sort makes of them, for an order that leaves no two of them undecided.
ranked(S, before(_,_)) ==
    [n \in 1 .. Cardinality(S) |-> CHOOSE x \in S : Cardinality({y \in S : before(y, x)}) = n - 1]

\* The elements of `q` that are in `S`, in their order.
within(q, S) == FoldLeft(LAMBDA kept, x : IF x \in S THEN Append(kept, x) ELSE kept, <<>>, q)
=============================================================================
