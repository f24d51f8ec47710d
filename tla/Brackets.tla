------------------------------ MODULE Brackets ------------------------------
(***************************************************************************)
(* How tools/cpplint.py finds the other end of a bracket over several      *)
(* lines: CloseExpression for ( [ {, and the two scans that tell a         *)
(* template bracket from a comparison.                                     *)
(***************************************************************************)
EXTENDS CleanLines

Closing == [c \in {"(", "[", "{"} |->
              CASE c = "(" -> ")" [] c = "[" -> "]" [] c = "{" -> "}"]

\* Brackets that a piece of text leaves open.
Net(line, open) == Count(line, open) - Count(line, Closing[open])

\* Mutant: the depth at the start of the line is forgotten.
EndInLine_DepthLost(line, from, depth, open) ==
  LET ends == {i \in At(line, Closing[open]) :
                 i >= from /\ Net(SubSeq(line, from, i), open) = 0}
  IN IF ends = {} THEN 0 ELSE Min(ends)

\* FindEndOfExpressionInLine: where the depth comes down to zero, 0 if nowhere.
EndInLine(line, from, depth, open) ==
  LET ends == {i \in At(line, Closing[open]) :
                 i >= from /\ depth + Net(SubSeq(line, from, i), open) = 0}
  IN IF ends = {} THEN 0 ELSE Min(ends)

\* Brackets left open at the end of line k, by what stands from (n, i) on.
OpenAfter(elided, n, i, open, k) ==
  FoldSet(LAMBDA j, sum : sum + Net(elided[j], open),
          Net(From(elided[n], i), open), n + 1 .. k)

\* CloseExpression: line and position of the closing bracket.  Beyond the first
\* line only the balance of whole lines is looked at.
CloseExpression(elided, n, i) ==
  LET open == elided[n][i]
      near == EndInLine(elided[n], i, 0, open)
      far  == {k \in n + 1 .. LastLine(elided) : OpenAfter(elided, n, i, open, k) <= 0}
      k    == Min(far)
  IN IF near # 0 THEN <<n, near>>
     ELSE IF far = {} THEN <<LastLine(elided) + 1, 0>>
     ELSE <<k, EndInLine(elided[k], 1, OpenAfter(elided, n, i, open, k - 1), open)>>

\* Token by token, the brackets open after a place on the same line or a later one.
Depth(elided, n, i, place) ==
  LET open == elided[n][i]
      Tokens(k) == IF k = n THEN From(elided[n], i) ELSE elided[k]
      here == IF place[1] = n THEN SubSeq(elided[n], i, place[2])
              ELSE Upto(elided[place[1]], place[2])
  IN FoldSet(LAMBDA k, sum : sum + Net(Tokens(k), open), Net(here, open), n .. place[1] - 1)

-----------------------------------------------------------------------------
(* Templates: < is followed line by line until something decides.          *)

Stops == {"<", ">", "(", ")", "[", "]", ",", ";"}

\* The tokens that decide, from a place on to the end of the file.
Ahead(elided, n, rest) ==
  SelectSeq(rest \o FlattenSeq([k \in 1 .. LastLine(elided) - n |-> elided[n + k]]),
            LAMBDA t : t \in Stops)

Behind(elided, n, rest) ==
  SelectSeq(FlattenSeq([k \in 1 .. n |-> elided[k - 1]]) \o rest, LAMBDA t : t \in Stops)

\* The two scans differ in which brackets open, which one closes the template
\* and what the end of the file means.
Match(tokens, own, opening, closing, partner, atEnd) ==
  LET Step(st, t) ==
        IF st.verdict # "open" THEN st
        ELSE IF Last(st.stack) = own
        THEN IF t \in opening THEN [st EXCEPT !.stack = Append(@, t)]
             ELSE IF t = partner
             THEN IF Len(st.stack) = 1 THEN [st EXCEPT !.verdict = "yes"]
                  ELSE [st EXCEPT !.stack = Front(@)]
             ELSE IF t = "," THEN [st EXCEPT !.verdict = "yes"]
             ELSE [st EXCEPT !.verdict = "no"]
        ELSE IF t \in opening THEN [st EXCEPT !.stack = Append(@, t)]
        ELSE IF t \in closing THEN [st EXCEPT !.stack = Front(@)]
        ELSE st
      end == FoldLeft(Step, [stack |-> <<own>>, verdict |-> "open"], tokens)
  IN IF end.verdict = "open" THEN atEnd ELSE end.verdict = "yes"

FindNextMatchingAngleBracket(elided, n, suffix) ==
  Match(Ahead(elided, n, suffix), "<", {"<", "(", "["}, {")", "]"}, ">", TRUE)

FindPreviousMatchingAngleBracket(elided, n, prefix) ==
  Match(Reverse(Behind(elided, n, prefix)), ">", {">", ")", "]"}, {"(", "["}, "<", FALSE)

=============================================================================
