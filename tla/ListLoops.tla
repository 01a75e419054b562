------------------------------ MODULE ListLoops ------------------------------
(***************************************************************************)
(* What the loops of the SLAM code do with a list: keep some of its        *)
(* elements, or put the elements of a set in order.                        *)
(***************************************************************************)
EXTENDS Integers, SequencesExt

\* A loop over a list that keeps the elements of a set, in their order.
Selected(list, kept) ==
    FoldLeft(LAMBDA so_far, e : IF e \in kept THEN Append(so_far, e) ELSE so_far,
             <<>>, list)

\* std::sort: the elements of a set in the order a set of pairs gives.
SortedBy(set, before) ==
    CHOOSE list \in [1 .. Cardinality(set) -> set] :
        \A i, j \in DOMAIN list : i < j => <<list[i], list[j]>> \in before
=============================================================================
