----------------------------- MODULE StyleChecks ----------------------------
(***************************************************************************)
(* The checks of tools/cpplint.py that look beyond one line: braces, loops,*)
(* sections of a class, blank lines, template brackets, header guards,     *)
(* includes and what needs them.  Each is the sequence of complaints it    *)
(* makes about a line, or about the file.                                  *)
(***************************************************************************)
EXTENDS Brackets, FileStates, LintErrors

CONSTANTS LargeClass,     \* classes of more lines are checked for section spacing (24)
          CopyrightLines  \* the copyright message stands in these first lines (10)

Braces        == <<"readability", "braces">>
SpaceBraces   == <<"whitespace", "braces">>
NewLine       == <<"whitespace", "newline">>
EmptyLoopBody == <<"whitespace", "empty_loop_body">>
Constructors  == <<"readability", "constructors">>
BlankLine     == <<"whitespace", "blank_line">>
Operators     == <<"whitespace", "operators">>
HeaderGuard   == <<"build", "header_guard">>
Copyright     == <<"legal", "copyright">>
EndingNewline == <<"whitespace", "ending_newline">>
MultiComment  == <<"readability", "multiline_comment">>
MultiString   == <<"readability", "multiline_string">>
Include       == <<"build", "include">>
IncludeOrder  == <<"build", "include", "order">>
IncludeAlpha  == <<"build", "include", "alpha">>
Streams       == <<"readability", "streams">>
Printf        == <<"runtime", "printf">>
WhatYouUse    == <<"build", "include", "what_you_use">>

\* The complaint if the condition holds.
When(condition, n, category, confidence) ==
  IF condition THEN <<Complaint(n, category, confidence)>> ELSE << >>

-----------------------------------------------------------------------------
(* Braces                                                                  *)

\* The places where one of the tokens is followed, after white space, by another.
Before(line, token, next) ==
  {i \in At(line, token) :
     \E j \in At(line, next) : i < j /\ \A k \in i + 1 .. j - 1 : line[k] = Space}

\* "{", later "}" and ";".
BracedStatement(line) ==
  At(line, "{") # {} /\ \E i \in Before(line, "}", ";") : i > Min(At(line, "{"))

\* White space, a braced statement: the lines before are put in front of it.
LooksBack(line) ==
  line # << >> /\ line[1] = Space /\ FirstWord(line) = "{" /\ BracedStatement(line)

Joined(elided, k, n) ==
  FlattenSeq([j \in 1 .. n - k + 1 |->
                IF IsBlankLine(elided[k + j - 1]) THEN << >> ELSE elided[k + j - 1]])

\* Mutant: the lines before are looked at, but not put in front.
LookBack_NotJoined(elided, n) ==
  LET Back[k \in 0 .. n] ==
        LET p == PreviousNonBlank(elided, k)
        IN IF ~LooksBack(elided[n]) \/ Has(LineAt(elided, p), ";") THEN k
           ELSE IF p = -1 THEN -1
           ELSE Back[p]
  IN Back[n]

\* The first of the lines that are joined.  Once there is no line left and the
\* text still looks back, GetPreviousNonBlankLine answers '' for ever: -1.
LookBack(elided, n) ==
  LET Back[k \in 0 .. n] ==
        LET p == PreviousNonBlank(elided, k)
        IN IF ~LooksBack(Joined(elided, k, n)) \/ Has(LineAt(elided, p), ";") THEN k
           ELSE IF p = -1 THEN -1
           ELSE Back[p]
  IN Back[n]

\* An open brace on a line of its own, after a line that does not end a statement.
LoneBrace(elided, n) ==
  LET prev == LineAt(elided, PreviousNonBlank(elided, n))
  IN /\ Stripped(elided[n]) # << >> /\ Words(elided[n]) = At(elided[n], "{")
     /\ Cardinality(At(elided[n], "{")) = 1
     /\ LastWord(prev) \notin {";", ":", "{", "}"}
     /\ FirstWord(prev) \notin Directives

\* An else with a brace on one side only.  After "} else if (" the brace may
\* stand behind the closing parenthesis, lines later.
HalfBraced(elided, n) ==
  LET line == elided[n]
      After(i)  == \A j \in i .. Len(line) : line[j] # "{"
      left  == {i \in Before(line, "}", "else") : After(i)}
      right == {i \in Before(line, "else", "{") : ~Has(Upto(line, i), "}")}
      elseIf == {i \in At(line, "else") : i < Len(line) /\ line[i + 1] = "if"}
      multi == left # {} /\ \E i \in elseIf : \E j \in left : j < i
      paren == {i \in At(line, "(") : i > Min(elseIf)}
      close == CloseExpression(elided, n, Min(paren))
  IN /\ left # {} \/ right # {}
     /\ multi => /\ paren # {}
                 /\ \/ close[2] = 0
                    \/ ~Has(From(elided[close[1]], close[2] + 1), "{")

ElseOnSameLine(line) ==
  /\ \E i \in At(line, "else") : i < Len(line) /\ line[i + 1] \notin Marks \cup {"if"}
  /\ \A i \in At(line, "else") : Follower(line, i) # "if"

\* CheckBraces up to its loop.
BracesHead(elided, n) ==
  LET line == elided[n]
      prev == LineAt(elided, PreviousNonBlank(elided, n))
      first == Min(Words(line))
  IN When(LoneBrace(elided, n), n, SpaceBraces, 4)
     \o When(FirstWord(line) = "else" /\ FirstWord(prev) = "}"
               /\ Cardinality(Words(prev)) = 1, n, NewLine, 4)
     \o When(HalfBraced(elided, n), n, Braces, 5)
     \o When(ElseOnSameLine(line), n, NewLine, 4)
     \o When(FirstWord(line) = "do" /\ first < Len(line) /\ line[first + 1] \notin Marks,
             n, NewLine, 4)

\* CheckBraces after its loop: a ; after } where neither a class nor an array ends.
BracesTail(elided, n) ==
  LET full == Joined(elided, LookBack(elided, n), n)
  IN When(/\ BracedStatement(full)
          /\ Count(full, "{") = Count(full, "}")
          /\ ~(Has(full, "class") \/ Has(full, "struct") \/ Has(full, "enum"))
          /\ Before(full, "=", "{") = {}, n, Braces, 4)

\* CheckEmptyLoopBody: the complaint is about the line on which the condition ends.
CheckEmptyLoopBody(elided, n) ==
  LET line == elided[n]
      close == CloseExpression(elided, n, Min(At(line, "(")))
  IN IF /\ FirstWord(line) \in {"for", "while"}
        /\ Follower(line, Min(Words(line))) = "("
     THEN When(/\ close[2] > 0
               /\ close[2] < Len(elided[close[1]])
               /\ elided[close[1]][close[2] + 1] = ";", close[1], EmptyLoopBody, 5)
     ELSE << >>

-----------------------------------------------------------------------------
(* Classes, templates, comments                                            *)

\* CheckAccess
CheckAccess(elided, n, stack) ==
  When(/\ FirstWord(elided[n]) = "DISALLOW"
       /\ stack # << >> /\ Last(stack).kind = "class"
       /\ Last(stack).access # "private", n, Constructors, 3)

\* CheckSectionSpacing, for the innermost class.
CheckSectionSpacing(lines, class, n) ==
  LET prev == lines[n - 1]
      heads == {k \in class.start .. n - 1 : LastWord(lines[k]) = "{"}
      head == IF heads = {} THEN class.start ELSE Min(heads)
  IN IF class.last - class.start <= LargeClass \/ n <= class.start THEN << >>
     ELSE When(/\ Label(lines[n]) # "none"
               /\ ~IsBlankLine(prev) /\ ~Has(prev, "class") /\ ~Has(prev, "struct")
               /\ (prev # << >> => Last(prev) # "backslash")
               /\ head < n - 1, n, BlankLine, 3)

\* The part of CheckSpacing that tells template brackets from comparisons: < and
\* > without white space on either side.
CheckAngles(elided, n) ==
  LET line == elided[n]
      Tight(i, left, right) == /\ i - 1 \in DOMAIN line /\ line[i - 1] \notin left
                               /\ i + 1 \in DOMAIN line /\ line[i + 1] \notin right
      less == {i \in At(line, "<") : Tight(i, {Space, "<"}, {Space, "=", "<"})}
      more == {i \in At(line, ">") : Tight(i, {Space, ">"}, {Space, "=", ">"})}
  IN IF FirstWord(line) = "#include" THEN << >>
     ELSE When(/\ less # {}
               /\ ~FindNextMatchingAngleBracket(elided, n, From(line, Min(less) + 1)),
               n, Operators, 3)
          \o When(/\ more # {}
                  /\ ~FindPreviousMatchingAngleBracket(elided, n, Upto(line, Max(more) - 1)),
                  n, Operators, 3)

\* The part of CheckSpacing about blank lines, for code that is not indented by
\* four or six spaces, in blocks that are not namespaces.
CheckBlankLines(clean, n, stack) ==
  LET prev == clean.elided[n - 1]
      next == clean.raw[n + 1]
      open == At(prev, "{")
      Continued == \E i \in 1 .. Len(next) - 3 :
                     /\ SubSeq(next, i, i + 2) = <<"}", Space, "else">>
                     /\ next[i + 3] \notin Marks \ {Space}
  IN IF ~IsBlankLine(clean.raw[n]) \/ InNamespaceBody(stack) THEN << >>
     ELSE When(open # {} /\ \A i \in At(prev, "}") : i < Max(open), n, BlankLine, 2)
          \o When(FirstWord(next) = "}" /\ ~Continued, n, BlankLine, 3)
          \o When(Label(prev) # "none", n, BlankLine, 3)

\* The part of CheckStyle about two statements on a line.
MoreThanOneCommand(elided, n) ==
  LET line == elided[n]
      prev == LineAt(elided, PreviousNonBlank(elided, n))
      Case == (Has(line, "case") \/ Before(line, "default", ":") # {})
              /\ Before(line, "break", ";") # {}
  IN When(/\ Count(line, ";") > 1 /\ ~Has(line, "for")
          /\ ~Has(prev, "for") \/ Has(prev, ";")
          /\ ~Case, n, NewLine, 0)

CheckForMultilineCommentsAndStrings(line, n) ==
  When(Count(line, "/*") > Count(line, "*/"), n, MultiComment, 5)
  \o When(IsCppString(line), n, MultiString, 5)

-----------------------------------------------------------------------------
(* Whole files                                                             *)

CheckForCopyright(lines) ==
  When(\A k \in 1 .. Min({LastLine(lines), CopyrightLines}) : ~Has(lines[k], "Copyright"),
       0, Copyright, 5)

\* CheckForHeaderGuard: the first #ifndef and #define, and the last #endif at the
\* left margin.  It reads the NOLINT marks of the lines it complains about.
CheckForHeaderGuard(lines, file) ==
  LET Split(k)  == SelectSeq(lines[k], LAMBDA t : t # Space)
      Args(word) == {k \in DOMAIN lines : Len(Split(k)) >= 2 /\ Split(k)[1] = word}
      ends  == {k \in DOMAIN lines : lines[k] # << >> /\ lines[k][1] = "#endif"}
      start == Min(Args("#ifndef"))
      end   == IF ends = {} THEN 0 ELSE Max(ends)
      name  == Split(start)[2]
      Style(k, level) == <<Mark(lines[k], k), Complaint(k, HeaderGuard, level)>>
      Closed(g) == lines[end] = <<"#endif", "//", g>>
  IN IF Args("#ifndef") = {} \/ Args("#define") = {} THEN <<Complaint(0, HeaderGuard, 5)>>
     ELSE (IF name = file.guard THEN << >>
           ELSE Style(start, IF name = file.oldGuard THEN 0 ELSE 5))
          \o (IF Split(Min(Args("#define")))[2] # name THEN <<Complaint(0, HeaderGuard, 5)>>
              ELSE IF Closed(file.guard) THEN << >>
              ELSE Style(end, IF Closed(file.oldGuard) THEN 0 ELSE 5))

\* CheckForNewlineAtEOF: the text ends with an empty line.
CheckForNewlineAtEOF(lines) ==
  When(lines[LastLine(lines) - 1] # << >>, LastLine(lines) - 1, EndingNewline, 5)

-----------------------------------------------------------------------------
(* Includes                                                                *)

IsInclude(line) == FirstWord(line) = "#include"

IncludedHeader(line) == Header[line[Min(Words(line)) + 1]]

\* CheckIncludeLine: the state after the line, and the complaints.
CheckIncludeLine(inc, file, line, n) ==
  LET h == IncludedHeader(line)
      kind == ClassifyInclude(file, h)
      next == CheckNextIncludeOrder([inc EXCEPT !.seen = @ \cup {h.path}], kind)
      sorted == IsInAlphabeticalOrder(next, h)
      again == h.path \in inc.seen
  IN [includes |-> IF again THEN inc
                   ELSE IF sorted THEN [next EXCEPT !.last = h.order] ELSE next,
      errors |-> When(~h.system /\ h.bare, n, Include, 4)
                 \o (IF again THEN When(TRUE, n, Include, 4)
                     ELSE When(OutOfOrder(inc.section, kind), n, IncludeOrder, 4)
                          \o When(~sorted, n, IncludeAlpha, 4))
                 \o When(h.stream /\ ~file.test, n, Streams, 3)]

-----------------------------------------------------------------------------
(* Format strings                                                          *)

\* _GetTextInside: what stands between the bracket at i and its partner, nothing
\* if it has none or another one closes first.
TextInside(line, i) ==
  LET Step(stack, j) ==
        IF j < i \/ stack = <<"stop">> THEN stack
        ELSE IF line[j] \in DOMAIN Closing THEN Append(stack, Closing[line[j]])
        ELSE IF stack # << >> /\ line[j] = Last(stack) THEN Front(stack)
        ELSE IF line[j] \in {")", "]", "}"} THEN <<"stop">>
        ELSE stack
      Open(k) == FoldLeftDomain(Step, << >>, Upto(line, k))
      ends == {k \in i + 1 .. Len(line) : Open(k) = << >>}
  IN IF ends = {} THEN << >> ELSE SubSeq(line, i + 1, Min(ends) - 1)

\* The part of CheckLanguage about printf(x): x looks like a format string.
CheckFormatString(line, n) ==
  LET calls == {i \in At(line, "printf") : Follower(line, i) = "("}
      args == TextInside(line, Min({i \in At(line, "(") : i > Min(calls)}))
  IN IF calls = {} THEN << >>
     ELSE When(/\ args # << >> /\ args # <<"__VA_ARGS__">>
               /\ \A i \in DOMAIN args : args[i] \notin Marks \ {"(", ")"},
               n, Printf, 4)

-----------------------------------------------------------------------------
(* CheckForIncludeWhatYouUse: at the end of a file, names of the standard   *)
(* library are held against the headers the file, and the header it         *)
(* implements, include.  A header of the project is found on the disk under *)
(* the name it is included by.                                              *)

CONSTANTS Needs,          \* from names of the library to [header, template]
          Disk            \* from paths of readable headers to their lines

\* FilesBelongToSameModule: the path of the header, with neither suffix nor
\* public and internal directories, ends the path of the .cc file.
FilesBelongToSameModule(file, h) ==
  file.ext = "cc" /\ h.own /\ IsSuffix(h.module, file.module)

\* What a line uses: the name itself, or a template of this name.
Uses(line, name) ==
  IF Needs[name].template THEN Before(line, name, "<") # {} ELSE Has(line, name)

\* The last line of the file that needs the header, 0 if none does.
RequiredAt(elided, header) ==
  Max({0} \cup {n \in DOMAIN elided :
                  /\ elided[n] # << >> /\ elided[n][1] \notin Directives
                  /\ \E name \in DOMAIN Needs :
                       Needs[name].header = header /\ Uses(elided[n], name)})

\* UpdateIncludeState: the headers that a header includes itself.
IncludedBy(text) ==
  {IncludedHeader(CleanseComments(text[n])).path :
     n \in {m \in DOMAIN text : IsInclude(CleanseComments(text[m]))}}

\* The headers of the file's own module that can be read.
OwnHeaders(file, seen) ==
  {p \in seen \cap DOMAIN Disk :
     \E t \in DOMAIN Header : Header[t].path = p /\ FilesBelongToSameModule(file, Header[t])}

CheckForIncludeWhatYouUse(file, elided, seen) ==
  LET own == OwnHeaders(file, seen)
      known == seen \cup UNION {IncludedBy(Disk[p]) : p \in own}
      missing == {h \in {Needs[name].header : name \in DOMAIN Needs} :
                    RequiredAt(elided, h) > 0 /\ h \notin known}
  IN IF file.ext = "cc" /\ own = {} THEN << >>
     ELSE LET order == SetToSeq(missing)
          IN [i \in DOMAIN order |-> Complaint(RequiredAt(elided, order[i]), WhatYouUse, 4)]

=============================================================================
