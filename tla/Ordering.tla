------------------------------ MODULE Ordering ------------------------------
(* The order std::sort and std::map keep: the elements of a finite set in  *)
(* ascending order, where below is the set of pairs whose first element    *)
(* comes before the second one.                                            *)
EXTENDS Integers, FiniteSets

Rank(S, below, e) == Cardinality({f \in S : <<f, e>> \in below})

Arranged(S, below) ==
    [n \in 1..Cardinality(S) |-> CHOOSE e \in S : Rank(S, below, e) = n - 1]
=============================================================================
