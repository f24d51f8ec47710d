----------------------------- MODULE CleanLines -----------------------------
(***************************************************************************)
(* The text a static check of tools/cpplint.py sees: a file is a function  *)
(* from line numbers to lines, with a marker line at either end, and a     *)
(* line is a sequence of tokens, where two words side by side have one     *)
(* space between them.  Comments and strings are taken out token by token. *)
(***************************************************************************)
EXTENDS Integers, SequencesExt, FiniteSetsExt

Space == " "
Quote == "quote"

Directives == {"#if", "#else", "#endif", "#ifndef", "#define", "#include"}

\* Tokens that no regular expression of the tool takes for part of a word.
Marks == {Space, Quote, "(", ")", "{", "}", "[", "]", "<", ">", ";", ",", ":",
          "=", "//", "/*", "*/"} \cup Directives

At(line, token) == {i \in DOMAIN line : line[i] = token}

Count(line, token) == Cardinality(At(line, token))

Has(line, token) == At(line, token) # {}

Words(line) == {i \in DOMAIN line : line[i] # Space}

\* IsBlankLine: the line is empty or consists of white space.
IsBlankLine(line) == Words(line) = {}

FirstWord(line) == IF IsBlankLine(line) THEN "" ELSE line[Min(Words(line))]

LastWord(line) == IF IsBlankLine(line) THEN "" ELSE line[Max(Words(line))]

\* The word after the one at place i.
Follower(line, i) == LET w == {j \in Words(line) : j > i}
                     IN IF w = {} THEN "" ELSE line[Min(w)]

Stripped(line) == IF IsBlankLine(line) THEN << >> ELSE SubSeq(line, 1, Max(Words(line)))

From(line, i) == SubSeq(line, i, Len(line))

Upto(line, i) == SubSeq(line, 1, i)

LastLine(lines) == Max(DOMAIN lines)

\* The lines of a file between their two markers.
WithMarkers(text) ==
  [n \in 0 .. Len(text) + 1 |-> IF n \in DOMAIN text THEN text[n] ELSE <<"//">>]

-----------------------------------------------------------------------------
(* Comments and strings                                                    *)

\* FindNextMultiLineCommentStart: a comment that goes beyond the line.
OpensComment(line) == FirstWord(line) = "/*" /\ ~Has(line, "*/")

\* FindNextMultiLineCommentEnd: only a mark at the end of a line ends it.
ClosesComment(line) == LastWord(line) = "*/"

\* RemoveMultiLineComments: the lines to blank out from line n on, and the
\* first line of a comment that has no end.
MultiLineComments(lines) ==
  LET Scan[n \in 0 .. LastLine(lines) + 1] ==
        LET first == {k \in DOMAIN lines : k >= n /\ OpensComment(lines[k])}
            end   == {k \in DOMAIN lines : k >= Min(first) /\ ClosesComment(lines[k])}
        IN IF first = {} THEN [inside |-> {}, endless |-> {}]
           ELSE IF end = {} THEN [inside |-> {}, endless |-> {Min(first)}]
           ELSE LET rest == Scan[Min(end) + 1]
                IN [rest EXCEPT !.inside = @ \cup Min(first) .. Min(end)]
  IN Scan[0]

RemoveMultiLineComments(lines) ==
  LET inside == MultiLineComments(lines).inside
  IN [n \in DOMAIN lines |-> IF n \in inside THEN <<"//">> ELSE lines[n]]

\* IsCppString: the next token is inside a string.
IsCppString(line) == Count(line, Quote) % 2 = 1

\* CleanseComments: the line without a // comment, unless the first // is in a
\* string, and without what lies between its /* and its last */.
CleanseComments(line) ==
  LET slashes == At(line, "//")
      code == IF slashes # {} /\ ~IsCppString(Upto(line, Min(slashes) - 1))
              THEN Stripped(Upto(line, Min(slashes) - 1))
              ELSE line
      begin == At(code, "/*")
      end   == {i \in At(code, "*/") : i > Min(begin)}
  IN IF begin # {} /\ end # {}
     THEN Upto(code, Min(begin) - 1) \o From(code, Max(end) + 1)
     ELSE code

\* CleansedLines._CollapseStrings: what stands between two quotes is dropped,
\* except on an #include line.
CollapseStrings(line) ==
  LET quotes == At(line, Quote)
      Within(i) == /\ i \notin quotes
                   /\ IsCppString(Upto(line, i))
                   /\ \E q \in quotes : q > i
  IN IF FirstWord(line) = "#include" THEN line
     ELSE FoldLeftDomain(
            LAMBDA kept, i : IF Within(i) THEN kept ELSE Append(kept, line[i]),
            << >>, line)

\* CleansedLines: the lines without comments, and without strings either.
CleansedLines(raw) ==
  [raw    |-> raw,
   lines  |-> [n \in DOMAIN raw |-> CleanseComments(raw[n])],
   elided |-> [n \in DOMAIN raw |-> CleanseComments(CollapseStrings(raw[n]))]]

\* GetPreviousNonBlankLine: the number of the line, -1 if there is none.
PreviousNonBlank(elided, n) ==
  LET before == {k \in DOMAIN elided : k < n /\ ~IsBlankLine(elided[k])}
  IN IF before = {} THEN -1 ELSE Max(before)

LineAt(elided, n) == IF n \in DOMAIN elided THEN elided[n] ELSE << >>

=============================================================================
