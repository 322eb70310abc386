----------------------------- MODULE MCTaskTree -----------------------------
(***************************************************************************)
(* Instances of TaskTree for TLC: the root run and a pool of child runs.   *)
(***************************************************************************)
EXTENDS TaskTree, TLC

CONSTANTS root, c1, c2, c3

OneChild    == {root, c1}
TwoChildren == {root, c1, c2}
ThreeChildren == {root, c1, c2, c3}

NoDedicated == [r \in Runs |-> 0]
\* Every child has a dedicated cap larger than the run's whole budget.
Generous == [r \in Runs |-> MaxCost + 1]

\* Child runs are interchangeable.
ChildSymmetry == Permutations(Runs \ {root})

=============================================================================
