---------------------------- MODULE MCTransformNode ----------------------------
(* TransformNode for TLC. *)
EXTENDS TransformNode

CONSTANT Shapes   \* the off-diagonal costs that a row may have

ShortRows == {<<1, 3, 3>>, <<3, 3, 1>>}

\* Every row of shape s has its costs in order, and M_VAL on the diagonal.
MCMatrices ==
  {[p \in Cells |->
      IF p[1] = p[2] THEN MVal
      ELSE shape[p[1]][IF p[2] > p[1] THEN p[2] ELSE p[2] + 1]] :
     shape \in [Vertex -> Shapes]}
=============================================================================
