------------------------- MODULE MCSymmetricSolver -------------------------
(***************************************************************************)
(* SymmetricSolver for TLC: every symmetric matrix with costs of small     *)
(* sets in which vertex 0 is farther from vertex 1 than any other is, so   *)
(* far for LagrangeanSolver that no prices make up for it.                 *)
(***************************************************************************)
EXTENDS SymmetricSolver

CONSTANTS Weights, ZeroWeights, FarWeight, PricedWeights, PricedFarWeight

Matrices(weights, far) ==
  {[c \in Cells |->
      IF c[1] = c[2] THEN MVal
      ELSE IF {c[1], c[2]} = {0, 1} THEN far
      ELSE IF 0 \in {c[1], c[2]} THEN z[Max({c[1], c[2]})]
      ELSE w[{c[1], c[2]}]] :
     w \in [kSubset(2, Outside) -> weights], z \in [2 .. Size - 1 -> ZeroWeights]}

\* Vertices 2, 3 and 4 in the order of their distance from vertex 0, then from vertex 1,
\* and the last two of them close together.
Sorted(m) ==
  /\ m[3, 4] = Min(PricedWeights)
  /\ \A i, j \in 2 .. Size - 1 :
       i <= j => m[0, i] < m[0, j] \/ (m[0, i] = m[0, j] /\ m[1, i] <= m[1, j])

MCProblems ==
  [matrix : Matrices(Weights, FarWeight), rule : {"classical"}]
    \cup [matrix : {m \in Matrices(PricedWeights, PricedFarWeight) : Sorted(m)},
          rule : Rules \ {"classical"}]
=============================================================================
