----------------------------- MODULE MCAntColony -----------------------------
(* AntColony for TLC: matrices whose rows have a few shapes. *)
EXTENDS AntColony

\* The costs of a row in order, the diagonal left out.
Rows == {[r \in Vertex |-> IF r % 2 = 0 THEN <<1, 2, 3, 4>> ELSE <<4, 1, 2, 2>>],
         [r \in Vertex |-> IF r < 2 THEN <<2, 4, 1, 3>> ELSE <<1, 2, 3, 4>>]}

MCMatrices ==
  {[p \in Cells |->
      IF p[1] = p[2] THEN MVal
      ELSE row[p[1]][IF p[2] > p[1] THEN p[2] ELSE p[2] + 1]] : row \in Rows}

MCShuffles == {<<0, 1>>, <<4, 2>>}
=============================================================================
