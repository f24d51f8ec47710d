------------------------- MODULE MCAsymmetricSolver -------------------------
(***************************************************************************)
(* AsymmetricSolver for TLC: examples, given by their rows without the     *)
(* diagonal.                                                               *)
(***************************************************************************)
EXTENDS AsymmetricSolver

Matrix(rowsOf) ==
  [p \in Cells |->
     IF p[1] = p[2] THEN MVal
     ELSE rowsOf[p[1] + 1][IF p[2] > p[1] THEN p[2] ELSE p[2] + 1]]

\* The relaxation of the root falls into subtours, and of some nodes below it too.
WithSubtours ==
  {<<<<3, 4, 3, 4>>, <<8, 5, 7, 2>>, <<5, 8, 5, 1>>, <<1, 8, 1, 6>>, <<2, 1, 5, 7>>>>,
   <<<<1, 3, 7, 9>>, <<7, 1, 3, 1>>, <<5, 8, 5, 8>>, <<4, 8, 9, 3>>, <<9, 4, 9, 8>>>>,
   <<<<8, 5, 2, 5>>, <<4, 3, 2, 9>>, <<8, 1, 5, 3>>, <<1, 5, 1, 8>>, <<2, 2, 3, 2>>>>,
   <<<<1, 1, 3, 4>>, <<1, 1, 2, 3>>, <<4, 2, 2, 2>>, <<3, 2, 4, 4>>, <<2, 3, 1, 4>>>>,
   <<<<4, 2, 4, 1>>, <<2, 3, 3, 1>>, <<3, 3, 2, 2>>, <<1, 4, 1, 3>>, <<1, 3, 4, 3>>>>,
   <<<<1, 1, 1, 2>>, <<3, 1, 4, 1>>, <<3, 4, 3, 3>>, <<2, 1, 2, 4>>, <<4, 2, 4, 3>>>>}

\* The relaxation of the root is a tour, shorter than the initial solution.
RootTours ==
  {<<<<5, 1, 1, 2>>, <<2, 1, 4, 4>>, <<2, 2, 3, 5>>, <<4, 4, 4, 5>>, <<1, 2, 5, 1>>>>,
   <<<<1, 5, 2, 4>>, <<4, 5, 2, 3>>, <<4, 1, 3, 5>>, <<1, 2, 2, 4>>, <<1, 1, 3, 3>>>>,
   <<<<2, 5, 2, 5>>, <<2, 4, 5, 5>>, <<1, 3, 3, 4>>, <<5, 5, 4, 1>>, <<1, 1, 5, 3>>>>}

MCProblems ==
  {<<Matrix(m), r>> : m \in WithSubtours, r \in 2..5}
    \cup {<<Matrix(m), 3>> : m \in RootTours}
=============================================================================
