----------------------------- MODULE FileStates -----------------------------
(***************************************************************************)
(* What tools/cpplint.py carries from line to line of a file.              *)
(*                                                                         *)
(* _NestingState: the stack of open namespaces, classes and blocks,        *)
(* updated line by line, and the copies of it that are kept at #if and     *)
(* #else.                                                                  *)
(*                                                                         *)
(* _IncludeState: the order of the #include lines.  A header is a record   *)
(* of what its name says: where it lies, its name without the common       *)
(* suffixes, the first part of that name, whether it is a system or a C++  *)
(* header, and its place in alphabetical order.                            *)
(*                                                                         *)
(* _FunctionState: the lines of the function being read, and the complaint *)
(* at its end.                                                             *)
(***************************************************************************)
EXTENDS CleanLines

CONSTANTS
  NamespaceLines,  \* from this size on a namespace must be closed by a comment (10)
  Header,          \* from the names on #include lines to header records
  NormalTrigger,   \* lines a function may have at verbosity 0 (250)
  TestTrigger      \* lines a test may have at verbosity 0 (400)

ASSUME TriggerAssumption == NormalTrigger \in Nat \ {0} /\ TestTrigger \in Nat \ {0}

Access == {"public", "protected", "private"}

Label(line) == IF Len(Stripped(line)) > 0 /\ FirstWord(line) \in Access
                  /\ Cardinality(Words(line)) > 1
                  /\ line[Min(Words(line)) + 1] = ":"
               THEN FirstWord(line) ELSE "none"

Complaint(line, category, confidence) ==
  [kind |-> "error", line |-> line, category |-> category, confidence |-> confidence]

BuildClass == <<"build", "class">>
Namespace  == <<"readability", "namespace">>

-----------------------------------------------------------------------------
(* The blocks on the stack                                                 *)

BlockInfo == [kind |-> "block", seen |-> TRUE, parens |-> 0, asm |-> "no",
              name |-> "", start |-> 0, last |-> 0, access |-> "none"]

\* _ClassInfo: the end of the class is where the braces first balance, which is
\* the line of the head itself when the head has no brace.
ClassInfo(word, name, elided, n) ==
  LET balanced == {k \in n .. LastLine(elided) :
                     FoldSet(LAMBDA j, sum : sum + Count(elided[j], "{") - Count(elided[j], "}"),
                             0, n .. k) = 0}
  IN [BlockInfo EXCEPT !.kind = "class", !.seen = FALSE, !.name = name, !.start = n,
                       !.last = IF balanced = {} THEN 0 ELSE Min(balanced),
                       !.access = IF word = "struct" THEN "public" ELSE "private"]

NamespaceInfo(name, n) ==
  [BlockInfo EXCEPT !.kind = "namespace", !.seen = FALSE, !.name = name, !.start = n]

\* _NamespaceInfo.CheckEnd: a long namespace ends with a comment that names it,
\* a short one may do without but not name another.
CheckEnd(block, raw, n) ==
  LET line == raw[n]
      mark == At(line, "//") \cup At(line, "/*")
      tail == {i \in At(line, "namespace") : mark # {} /\ i > Min(mark)}
      Ends == /\ line # << >> /\ line[1] = "}" /\ tail # {}
              /\ \A i \in 2 .. Min(mark) - 1 : line[i] \in {";", Space}
      rest == SelectSeq(From(line, Max(tail) + 1), LAMBDA t : t \notin {Space, "*/"})
  IN IF \/ block.kind # "namespace"
        \/ n - block.start < NamespaceLines /\ ~Ends
        \/ Ends /\ rest = (IF block.name = "" THEN << >> ELSE <<block.name>>)
     THEN << >>
     ELSE <<Complaint(n, Namespace, 5)>>

SeenOpenBrace(stack) == stack = << >> \/ Last(stack).seen

InNamespaceBody(stack) == stack # << >> /\ Last(stack).kind = "namespace"

Top(stack, field, value) ==
  [stack EXCEPT ![Len(stack)] = [@ EXCEPT ![field] = value]]

\* InnermostClass: the number of the innermost class on the stack, 0 if none.
InnermostClass(stack) ==
  LET classes == {i \in DOMAIN stack : stack[i].kind = "class"}
  IN IF classes = {} THEN 0 ELSE Max(classes)

-----------------------------------------------------------------------------
(* #if, #else and #endif                                                   *)

PreprocessorInfo(stack) == [beforeIf |-> stack, beforeElse |-> << >>, seenElse |-> FALSE]

\* Mutant: every #else and #elif overwrites the stack to be kept after #endif.
UpdatePreprocessor_LastElse(st, line) ==
  LET word == FirstWord(line)
      top  == Last(st.pp)
  IN IF word \in {"#if", "#ifndef"}
     THEN [st EXCEPT !.pp = Append(@, PreprocessorInfo(st.stack))]
     ELSE IF word = "#else" /\ st.pp # << >>
     THEN [stack |-> top.beforeIf,
           pp |-> Append(Front(st.pp), [top EXCEPT !.seenElse = TRUE, !.beforeElse = st.stack])]
     ELSE IF word = "#endif" /\ st.pp # << >>
     THEN [stack |-> IF top.seenElse THEN top.beforeElse ELSE st.stack, pp |-> Front(st.pp)]
     ELSE st

\* UpdatePreprocessor: the stack after #endif is the one before the first #else;
\* "#else" stands for #elif too, "#if" for #ifdef and #ifndef.
UpdatePreprocessor(st, line) ==
  LET word == FirstWord(line)
      top  == Last(st.pp)
  IN IF word \in {"#if", "#ifndef"}
     THEN [st EXCEPT !.pp = Append(@, PreprocessorInfo(st.stack))]
     ELSE IF word = "#else" /\ st.pp # << >>
     THEN [stack |-> top.beforeIf,
           pp |-> IF top.seenElse THEN st.pp
                  ELSE Append(Front(st.pp),
                              [top EXCEPT !.seenElse = TRUE, !.beforeElse = st.stack])]
     ELSE IF word = "#endif" /\ st.pp # << >>
     THEN [stack |-> IF top.seenElse THEN top.beforeElse ELSE st.stack, pp |-> Front(st.pp)]
     ELSE st

-----------------------------------------------------------------------------
(* One line                                                                *)

StartsAsm(line) ==
  FirstWord(line) = "asm" /\ Follower(line, Min(Words(line))) \in {"{", "("}

\* The parentheses of the innermost block, and whether they hold assembly.
CountParentheses(stack, line) ==
  IF stack = << >> THEN stack
  ELSE LET change == Count(line, "(") - Count(line, ")")
           parens == Last(stack).parens + change
           asm == Last(stack).asm
       IN Top(Top(stack, "parens", parens), "asm",
              IF asm \in {"no", "end"}
              THEN IF change # 0 /\ parens = 1 /\ StartsAsm(line) THEN "inside" ELSE "no"
              ELSE IF asm = "inside" /\ parens = 0 THEN "end" ELSE asm)

\* Namespace heads at the beginning of the line; a name is the token after it.
OpenNamespaces(stack, line, n) ==
  LET Strip(st, token) ==
        LET w == Min(Words(st.line))
            named == w < Len(st.line) /\ st.line[w + 1] \notin Marks
            rest == From(st.line, IF named THEN w + 2 ELSE w + 1)
            info == NamespaceInfo(IF named THEN st.line[w + 1] ELSE "", n)
            brace == At(rest, "{")
        IN IF FirstWord(st.line) # "namespace" THEN st
           ELSE IF brace = {}
           THEN [stack |-> Append(st.stack, info), line |-> rest]
           ELSE [stack |-> Append(st.stack, [info EXCEPT !.seen = TRUE]),
                 line |-> From(rest, Min(brace) + 1)]
  IN FoldLeft(Strip, [stack |-> stack, line |-> line], line)

\* A class head: what follows the name has no = and no > but in template brackets.
IsClassHead(line) ==
  LET w == Min(Words(line))
      rest == From(line, w + 2)
      InAngles(i) == \E a, b \in DOMAIN rest :
                       /\ a < i /\ i <= b /\ rest[a] = "<" /\ rest[b] = ">"
                       /\ \A j \in a + 1 .. b - 1 : rest[j] \notin {"<", ">"}
  IN /\ FirstWord(line) \in {"class", "struct"}
     /\ w < Len(line) /\ line[w + 1] \notin Marks
     /\ \A i \in DOMAIN rest : rest[i] \in {"=", ">"} => InAngles(i)

OpenClass(st, elided, n) ==
  LET w == Min(Words(st.line))
  IN IF IsClassHead(st.line) /\ (st.stack = << >> \/ Last(st.stack).parens = 0)
     THEN [stack |-> Append(st.stack, ClassInfo(st.line[w], st.line[w + 1], elided, n)),
           line |-> From(st.line, w + 2)]
     ELSE st

SetAccess(st) ==
  IF st.stack # << >> /\ Last(st.stack).kind = "class" /\ Label(st.line) # "none"
  THEN [st EXCEPT !.stack = Top(@, "access", Label(st.line))]
  ELSE st

\* One token of what is left of the line.
ConsumeToken(st, token, raw, n) ==
  LET here == Append(st.segment, token)
      next == IF token \in {"{", ";", ")", "}"} THEN [st EXCEPT !.segment = << >>]
              ELSE [st EXCEPT !.segment = here]
  IN IF token = "{"
     THEN IF ~SeenOpenBrace(st.stack) THEN [next EXCEPT !.stack = Top(@, "seen", TRUE)]
          ELSE [next EXCEPT !.stack = Append(@, [BlockInfo EXCEPT !.asm =
                                        IF StartsAsm(here) THEN "block" ELSE "no"])]
     ELSE IF token \in {";", ")"} /\ ~SeenOpenBrace(st.stack)
     THEN [next EXCEPT !.stack = Front(@)]
     ELSE IF token = "}" /\ st.stack # << >>
     THEN [next EXCEPT !.stack = Front(@),
                       !.errors = @ \o CheckEnd(Last(st.stack), raw, n)]
     ELSE next

\* What Update does to the stack once the preprocessor has been dealt with.
UpdateStack(stack, clean, n) ==
  LET line == clean.elided[n]
      head == SetAccess(OpenClass(OpenNamespaces(CountParentheses(stack, line), line, n),
                                  clean.elided, n))
  IN FoldLeft(LAMBDA st, token : ConsumeToken(st, token, clean.raw, n),
              [stack |-> head.stack, errors |-> << >>, segment |-> << >>], head.line)

\* _NestingState.Update.
Update(st, clean, n) ==
  LET pre == UpdatePreprocessor(st, clean.elided[n])
      res == UpdateStack(pre.stack, clean, n)
  IN [nesting |-> [pre EXCEPT !.stack = res.stack], errors |-> res.errors]

InAssembly(stack) == stack # << >> /\ Last(stack).asm # "no"

\* CheckClassFinished: classes that are still open at the end of the file.
CheckClassFinished(stack) ==
  LET open == SelectSeq(stack, LAMBDA b : b.kind = "class")
  IN [i \in DOMAIN open |-> Complaint(open[i].start, BuildClass, 5)]

NoNesting == [stack |-> << >>, pp |-> << >>]

-----------------------------------------------------------------------------
(* The comment of UpdatePreprocessor: lines from #else up to #endif do not *)
(* affect the nesting.                                                     *)

\* The groups line n is in: TRUE for those whose #else has been passed.
Branches(elided, n) ==
  LET Step(groups, word) ==
        CASE word \in {"#if", "#ifndef"} -> Append(groups, FALSE)
          [] word = "#else" /\ groups # << >> -> Append(Front(groups), TRUE)
          [] word = "#endif" /\ groups # << >> -> Front(groups)
          [] OTHER -> groups
  IN FoldLeft(Step, << >>, [i \in 1 .. n + 1 |-> FirstWord(elided[i - 1])])

InElse(elided, n) == TRUE \in ToSet(Branches(elided, n))

\* The stack after line n when such lines are passed over altogether.
FirstBranches(clean, n) ==
  FoldLeft(LAMBDA stack, k : IF InElse(clean.elided, k) THEN stack
                             ELSE UpdateStack(stack, clean, k).stack,
           << >>, [i \in 1 .. n + 1 |-> i - 1])

-----------------------------------------------------------------------------
(* The order of the includes                                               *)

InitialSection == 0
MyHSection     == 1
CSection       == 2
CppSection     == 3
OtherHSection  == 4

NoIncludes == [seen |-> {}, section |-> InitialSection, last |-> 0]

\* _ClassifyInclude: what kind of header it is for the file.
ClassifyInclude(file, h) ==
  CASE h.system /\ h.cpp -> "cpp_sys"
    [] h.system -> "c_sys"
    [] ~h.system /\ h.base = file.base /\ h.dir \in {file.dir, file.public} -> "likely_my"
    [] OTHER -> IF h.first = file.first THEN "possible_my" ELSE "other"

\* CheckNextIncludeOrder: the section may only go up; a header of the file
\* itself that comes too late counts as any other header.
SectionAfter(section, kind) ==
  CASE kind = "c_sys"   -> IF section <= CSection THEN CSection ELSE section
    [] kind = "cpp_sys" -> IF section <= CppSection THEN CppSection ELSE section
    [] kind = "other"   -> OtherHSection
    [] OTHER -> IF section <= MyHSection THEN MyHSection ELSE OtherHSection

OutOfOrder(section, kind) ==
  \/ kind = "c_sys" /\ section > CSection
  \/ kind = "cpp_sys" /\ section > CppSection

\* Mutant: the last header is remembered across sections.
CheckNextIncludeOrder_LastKept(inc, kind) ==
  [inc EXCEPT !.section = SectionAfter(inc.section, kind)]

CheckNextIncludeOrder(inc, kind) ==
  LET next == SectionAfter(inc.section, kind)
  IN [inc EXCEPT !.section = next,
                 !.last = IF next # inc.section \/ OutOfOrder(inc.section, kind)
                          THEN 0 ELSE @]

\* IsInAlphabeticalOrder, with the canonical names as numbers.
IsInAlphabeticalOrder(inc, h) == inc.last <= h.order

-----------------------------------------------------------------------------
MyHeader == {"likely_my", "possible_my"}

\* The types of the comment in CheckIncludeLine: a header of the file itself has the
\* first place when no other header is before it, and the deprecated one otherwise.
TypeOfHeader(kind, first) ==
  CASE kind \in MyHeader -> IF first THEN 1 ELSE 4
    [] kind = "c_sys"   -> 2
    [] kind = "cpp_sys" -> 3
    [] OTHER            -> 5

-----------------------------------------------------------------------------
(* The length of functions                                                 *)

FnSize == <<"readability", "fn_size">>

NoFunction == [inside |-> FALSE, lines |-> 0, name |-> ""]

\* Mutant: the lines of the function before are counted too.
Begin_NotReset(fn, name) == [fn EXCEPT !.inside = TRUE, !.name = name]

Begin(fn, name) == [inside |-> TRUE, lines |-> 0, name |-> name]

CountLine(fn) == IF fn.inside THEN [fn EXCEPT !.lines = @ + 1] ELSE fn

End(fn) == [fn EXCEPT !.inside = FALSE]

BaseTrigger(name) == IF name = "TEST" THEN TestTrigger ELSE NormalTrigger

TooLong(lines, name, verbose) == lines > BaseTrigger(name) * 2 ^ verbose

\* The integer logarithm of how many times the base is reached, at most 5.
Level(lines, name) == Max({k \in 0 .. 5 : 2 ^ k <= lines \div BaseTrigger(name)})

\* _FunctionState.Check: also called when no function has begun since the last end.
Check(fn, n, verbose) ==
  IF TooLong(fn.lines, fn.name, verbose)
  THEN <<Complaint(n, FnSize, Level(fn.lines, fn.name))>>
  ELSE << >>

-----------------------------------------------------------------------------
\* The place of the ( in a line that starts like a function at the left margin.
HeadEnd(line) ==
  LET open == At(line, "(")
  IN IF /\ open # {} /\ Min(open) > 1
        /\ line[1] # Space
        /\ \A i \in 1 .. Min(open) - 1 : line[i] \notin Marks \ {Space}
     THEN Min(open) ELSE 0

\* A name in capitals is a macro, unless it is TEST.
StartsFunction(line, macros) == HeadEnd(line) # 0 /\ line[HeadEnd(line) - 1] \notin macros

\* The first line from n on that shows what has started, 0 if there is none.
Revealing(lines, n) ==
  LET shown == {k \in n .. LastLine(lines) : \E t \in {";", "}", "{"} : Has(lines[k], t)}
  IN IF shown = {} THEN 0 ELSE Min(shown)

\* It is the body of a function if that line has a brace, but no ; and no }.
HasBody(lines, n) == LET k == Revealing(lines, n) IN
  k # 0 /\ ~Has(lines[k], ";") /\ ~Has(lines[k], "}")

ClosesFunction(line) == Stripped(line) = <<"}">>

\* CheckForFunctionLengths: the state after the line, and the complaints.
CheckForFunctionLengths(fn, lines, n, verbose, macros) ==
  LET line == lines[n]
  IN IF StartsFunction(line, macros)
     THEN [fn |-> IF HasBody(lines, n) THEN Begin(fn, line[HeadEnd(line) - 1]) ELSE fn,
           errors |-> IF Revealing(lines, n) # 0 THEN << >>
                      ELSE <<Complaint(n, FnSize, 5)>>]
     ELSE IF ClosesFunction(line)
     THEN [fn |-> End(fn), errors |-> Check(fn, n, verbose)]
     ELSE [fn |-> IF IsBlankLine(line) THEN fn ELSE CountLine(fn), errors |-> << >>]

-----------------------------------------------------------------------------
\* The functions that begin in the lines up to n, by their first lines.
Begun(lines, n, macros) ==
  {k \in DOMAIN lines : k <= n /\ StartsFunction(lines[k], macros) /\ HasBody(lines, k)}

\* Line n is the end of the function that began last.
EndsFunction(lines, n, macros) ==
  /\ ClosesFunction(lines[n])
  /\ Begun(lines, n, macros) # {}
  /\ \A k \in Max(Begun(lines, n, macros)) .. n - 1 : ~ClosesFunction(lines[k])

\* The lines of that function: neither blank nor, at the left margin, like a head.
Body(lines, n, macros) ==
  {k \in Max(Begun(lines, n, macros)) + 1 .. n - 1 :
     ~IsBlankLine(lines[k]) /\ ~StartsFunction(lines[k], macros)}

=============================================================================
