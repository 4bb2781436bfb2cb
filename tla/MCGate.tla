------------------------------- MODULE MCGate -------------------------------
(* Gate on small instances: README.md gives the bounds of each .cfg. *)
EXTENDS Gate, Folds

\* The sum over the map f as the loop of settledLocked computes it.
LoopSum(f) == MapThenFoldSet(LAMBDA m, n : m + n, 0, LAMBDA k : f[k],
                             LAMBDA S : CHOOSE k \in S : TRUE, DOMAIN f)

\* Counting units, which the provers can reason about, gives that sum.
ASSUME UnitsAreTheSum ==
    \A f \in [Key -> 0..4] : Cardinality(Units(f)) = LoopSum(f)
=============================================================================
