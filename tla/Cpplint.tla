------------------------------- MODULE Cpplint ------------------------------
(***************************************************************************)
(* The driver of tools/cpplint.py: the command line, then one file after   *)
(* the other, a file line by line, and the exit status.  What a line does  *)
(* to the state of the file is one step.                                   *)
(*                                                                         *)
(* A job is a command line: a sequence of options, each with a name, the   *)
(* number, word or filters that is its value, and whether that value can   *)
(* be read at all, and the files named behind them.                        *)
(***************************************************************************)
EXTENDS StyleChecks

CONSTANTS Jobs,           \* the command lines, as a sequence of sets
          Macros          \* names that are taken for macros, not functions

VARIABLES job, pc, settings, fileno, clean, linenum,
          includes, function, nesting, log, status

vars == <<job, pc, settings, fileno, clean, linenum,
          includes, function, nesting, log, status>>

perFile == <<clean, linenum, includes, function, nesting>>

NotExited == 2            \* status while the tool runs

File == job.files[fileno]

NoText == CleansedLines(WithMarkers(<< << >> >>))

Init == /\ \E kind \in DOMAIN Jobs : job \in Jobs[kind]
        /\ pc = "arguments"
        /\ settings = [verbose |-> 1, filters |-> DefaultFilters, counting |-> "total"]
        /\ fileno = 1
        /\ clean = NoText /\ linenum = 0
        /\ includes = NoIncludes /\ function = NoFunction /\ nesting = NoNesting
        /\ log = NoErrors
        /\ status = NotExited

-----------------------------------------------------------------------------
(* The command line                                                        *)

\* What reading one option gives; the first exit ends it.
ReadOption(st, o) ==
  IF st.exit # NotExited THEN st
  ELSE CASE o.name = "help" -> [st EXCEPT !.exit = 1]
         [] o.name = "output" -> [st EXCEPT !.exit = IF o.valid THEN @ ELSE 1]
         [] o.name = "verbose" -> IF o.valid THEN [st EXCEPT !.settings.verbose = o.number]
                                  ELSE [st EXCEPT !.exit = 1]
         [] o.name = "filter" -> IF o.filters = << >> THEN [st EXCEPT !.exit = 0]
                                 ELSE [st EXCEPT !.filters = o.filters]
         [] o.name = "counting" -> IF o.valid THEN [st EXCEPT !.settings.counting = o.word]
                                   ELSE [st EXCEPT !.exit = 1]
         [] OTHER -> st

\* ParseArguments and what main does before the first file.
ParseArguments ==
  LET none == [exit |-> NotExited, filters |-> << >>,
               settings |-> [settings EXCEPT !.counting = "none"]]
      unknown == \E i \in DOMAIN job.options : job.options[i].name = "unknown"
      st == FoldLeft(ReadOption, none, job.options)
      unsigned == \E i \in DOMAIN st.filters : st.filters[i].sign \notin {"+", "-"}
      exit == IF unknown THEN 1
              ELSE IF st.exit # NotExited THEN st.exit
              ELSE IF job.files = << >> \/ unsigned THEN 1
              ELSE NotExited
  IN /\ pc = "arguments"
     /\ status' = exit
     /\ IF exit # NotExited
        THEN pc' = "done" /\ UNCHANGED <<settings, log>>
        ELSE /\ pc' = "next"
             /\ settings' = [st.settings EXCEPT !.filters = DefaultFilters \o st.filters]
             /\ log' = [log EXCEPT !.count = 0, !.byCategory = << >>]
     /\ UNCHANGED <<job, fileno, perFile>>

-----------------------------------------------------------------------------
(* Files                                                                   *)

Where(at) == [file |-> fileno, at |-> at]

\* ProcessFile, for a file that cannot be read or is not C++.
Skip == /\ pc = "next" /\ fileno \in DOMAIN job.files
        /\ \/ ~File.readable
           \/ File.name # "-" /\ File.ext \notin {"cc", "h", "cpp", "hpp"}
        /\ fileno' = fileno + 1
        /\ UNCHANGED <<job, pc, settings, perFile, log, status>>

\* ProcessFile and ProcessFileData up to the first line.
OpenFile ==
  LET lines == WithMarkers(File.text)
      endless == SetToSeq(MultiLineComments(lines).endless)
      events == CheckForCopyright(lines)
                \o (IF File.ext = "h" THEN CheckForHeaderGuard(lines, File) ELSE << >>)
                \o [i \in DOMAIN endless |-> Complaint(endless[i] + 1, MultiComment, 5)]
  IN /\ pc = "next" /\ fileno \in DOMAIN job.files
     /\ File.readable
     /\ File.name = "-" \/ File.ext \in {"cc", "h", "cpp", "hpp"}
     /\ clean' = CleansedLines(RemoveMultiLineComments(lines))
     /\ linenum' = 0
     /\ includes' = NoIncludes /\ function' = NoFunction /\ nesting' = NoNesting
     /\ log' = Report(ResetNolintSuppressions(log), settings, Where(-1), events)
     /\ pc' = "lines"
     /\ UNCHANGED <<job, settings, fileno, status>>

\* The rest of ProcessFileData and ProcessFile, when the last line is done.
CloseFile ==
  LET last == LastLine(clean.raw)
      events == CheckClassFinished(nesting.stack)
                \o CheckForIncludeWhatYouUse(File, clean.elided, includes.seen)
                \o CheckForNewlineAtEOF(clean.raw)
                \o When(File.cr, 0, NewLine, 1)
  IN /\ pc = "lines" /\ linenum > last
     /\ log' = Report(log, settings, Where(last + 1), events)
     /\ fileno' = fileno + 1
     /\ pc' = "next"
     /\ UNCHANGED <<job, settings, perFile, status>>

\* PrintErrorCounts, and sys.exit at the end of main.
Finish == /\ pc = "next" /\ fileno > Len(job.files)
          /\ status' = IF log.count > 0 THEN 1 ELSE 0
          /\ pc' = "done"
          /\ UNCHANGED <<job, settings, fileno, perFile, log>>

-----------------------------------------------------------------------------
(* Lines                                                                   *)

\* CheckStyle after CheckBraces, and CheckLanguage but for includes.
StyleAfterBraces(stack, n) ==
  LET elided == clean.elided
      class == InnermostClass(stack)
  IN BracesTail(elided, n)
     \o CheckEmptyLoopBody(elided, n)
     \o CheckAccess(elided, n, stack)
     \o CheckBlankLines(clean, n, stack)
     \o CheckAngles(elided, n)
     \o (IF class = 0 THEN << >> ELSE CheckSectionSpacing(clean.lines, stack[class], n))
     \o (IF IsInclude(elided[n]) THEN << >> ELSE CheckFormatString(elided[n], n))

\* ProcessLine
ProcessLine ==
  LET n == linenum
      line == clean.elided[n]
      up == Update(nesting, clean, n)
      stack == up.nesting.stack
      fn == CheckForFunctionLengths(function, clean.lines, n, settings.verbose, Macros)
      hung == LookBack(clean.elided, n) = -1
      inc == IF IsInclude(line) THEN CheckIncludeLine(includes, File, clean.lines[n], n)
             ELSE [includes |-> includes, errors |-> << >>]
      nolint == <<Mark(clean.raw[n], n)>> \o up.errors
      style == fn.errors
               \o CheckForMultilineCommentsAndStrings(line, n)
               \o MoreThanOneCommand(clean.elided, n)
               \o BracesHead(clean.elided, n)
      events == IF InAssembly(stack) THEN nolint
                ELSE IF hung THEN nolint \o style
                ELSE nolint \o style \o StyleAfterBraces(stack, n) \o inc.errors
  IN /\ pc = "lines" /\ n \in DOMAIN clean.raw
     /\ nesting' = up.nesting
     /\ log' = Report(log, settings, Where(n), events)
     /\ function' = IF InAssembly(stack) THEN function ELSE fn.fn
     /\ includes' = IF InAssembly(stack) \/ hung THEN includes ELSE inc.includes
     /\ pc' = IF ~InAssembly(stack) /\ hung THEN "spinning" ELSE "lines"
     /\ linenum' = IF pc' = "spinning" THEN n ELSE n + 1
     /\ UNCHANGED <<job, settings, fileno, clean, status>>

\* The process is gone, or in the loop of CheckBraces for ever.
Halted == pc \in {"done", "spinning"} /\ UNCHANGED vars

Next == ParseArguments \/ Skip \/ OpenFile \/ ProcessLine \/ CloseFile \/ Finish \/ Halted

Spec == Init /\ [][Next]_vars

-----------------------------------------------------------------------------
(* Properties                                                              *)

\* The NOLINT of a line is about complaints of this category.
Excuses(line, category) ==
  LET marks == {i \in DOMAIN line : line[i] \in NolintTokens}
  IN marks # {} /\ NolintCategory[line[Min(marks)]] \in {category, Every}

\* Among these lines of its file, the complaint's own line has a NOLINT about it.
HasMark(e, lines) == e.line \in DOMAIN lines /\ Excuses(lines[e.line], e.category)

TextOf(e) == WithMarkers(job.files[e.file].text)

\* The tool has read that NOLINT by the time it complains: it has come to the line,
\* which is not in a comment, or the check of the header guard has looked at it.
MarkRead(i) ==
  LET e == log.raised[i]
  IN \/ e.at >= e.line /\ HasMark(e, RemoveMultiLineComments(TextOf(e)))
     \/ /\ \E j \in 1 .. i : /\ log.raised[j].file = e.file
                             /\ log.raised[j].line = e.line
                             /\ log.raised[j].category = HeaderGuard
        /\ HasMark(e, TextOf(e))

\* The last filter about a category is not a negative one.
Wanted(category) ==
  \A i \in DOMAIN settings.filters :
    LET f == settings.filters[i]
    IN (f.sign = "-" /\ IsPrefix(f.prefix, category))
         => \E j \in i + 1 .. Len(settings.filters) :
              /\ settings.filters[j].sign = "+"
              /\ IsPrefix(settings.filters[j].prefix, category)

\* A complaint that the confidence and the filters ask for is withheld for no other
\* reason than a NOLINT about it on its own line of its own file, and always for
\* one that has been read; what is printed is what is counted
\* (ParseNolintSuppressions, ResetNolintSuppressions, Error).  Nothing is said of a
\* complaint made before its mark is read.
MarksApplyToTheirLine ==
  /\ \A i \in DOMAIN log.raised :
       LET e == log.raised[i]
           wanted == e.confidence >= settings.verbose /\ Wanted(e.category)
       IN /\ wanted /\ ~e.printed => HasMark(e, TextOf(e))
          /\ e.printed => wanted /\ ~MarkRead(i)
  /\ log.count = Cardinality({i \in DOMAIN log.raised : log.raised[i].printed})

\* Outside #else branches the stack is the one that the first branches alone
\* would have led to, however the groups are nested and whatever the other
\* branches leave open (the comment of UpdatePreprocessor).
NestingFollowsFirstBranches ==
  (pc = "lines" /\ linenum > 0 /\ ~InElse(clean.elided, linenum - 1))
    => nesting.stack = FirstBranches(clean, linenum - 1)

NoAssembly == \A n \in DOMAIN clean.elided : FirstWord(clean.elided[n]) # "asm"

\* The lines read so far that include a header no line before them includes.
FirstIncludes ==
  LET Included(n) == IncludedHeader(clean.lines[n]).path
      lines == {n \in 0 .. linenum - 1 : IsInclude(clean.elided[n])}
  IN {n \in lines : \A m \in lines : m < n => Included(m) # Included(n)}

Kind(n) == ClassifyInclude(File, IncludedHeader(clean.lines[n]))

\* The type of the header on line n, in the order of the comment in CheckIncludeLine.
Place(n) == TypeOfHeader(Kind(n), \A m \in FirstIncludes : m < n => Kind(m) \in MyHeader)

Complained(n, category) ==
  \E i \in DOMAIN log.raised : /\ log.raised[i].file = fileno
                               /\ log.raised[i].line = n
                               /\ log.raised[i].category = category

\* A system header is reported exactly if a header of a higher type has come before
\* it, the file's own headers behind others included (the comment in
\* CheckIncludeLine); and while all headers are in order, exactly those system headers
\* break the alphabet that follow a greater name of their own type.
SystemIncludesInOrder ==
  (pc = "lines" /\ NoAssembly)
    => \A n \in FirstIncludes :
         LET header == IncludedHeader(clean.lines[n])
             upTo == {m \in FirstIncludes : m <= n}
             inOrder == \A k, m \in upTo : k < m => Place(k) <= Place(m)
         IN header.system
              => /\ Complained(n, IncludeOrder) <=> \E m \in upTo : Place(m) > Place(n)
                 /\ inOrder => ( Complained(n, IncludeAlpha)
                                 <=> \E m \in upTo : /\ Place(m) = Place(n)
                                                     /\ IncludedHeader(clean.lines[m]).order
                                                          > header.order )

\* At the brace that closes a function there is a complaint about its length
\* exactly if its own lines are too many, whatever came before it
\* (CheckForFunctionLengths).
LongFunctionsReported ==
  LET n == linenum - 1
  IN (pc = "lines" /\ linenum > 0 /\ NoAssembly /\ EndsFunction(clean.lines, n, Macros))
       => (TooLong(Cardinality(Body(clean.lines, n, Macros)), function.name, settings.verbose)
           <=> \E i \in DOMAIN log.raised : /\ log.raised[i].file = fileno
                                            /\ log.raised[i].at = n
                                            /\ log.raised[i].category = FnSize)

\* Where CloseExpression says that an expression ends, all that it has opened is
\* closed again: the rest of it, over however many lines, is never taken for what
\* follows it.
ExpressionsEndBalanced ==
  \A n \in DOMAIN clean.elided : \A i \in DOMAIN clean.elided[n] :
    clean.elided[n][i] \in DOMAIN Closing
      => LET end == CloseExpression(clean.elided, n, i)
         IN end[1] <= LastLine(clean.elided)
              => /\ end[2] \in DOMAIN clean.elided[end[1]]
                 /\ Depth(clean.elided, n, i, end) = 0

\* The first line of code of the file is an indented open brace.
StartsWithBrace ==
  \E n \in DOMAIN clean.elided :
    /\ FirstWord(clean.elided[n]) = "{" /\ Head(clean.elided[n]) = Space
    /\ PreviousNonBlank(clean.elided, n) = -1

\* The loop of CheckBraces, which puts the lines before in front of the line it
\* looks at, comes to an end unless the file starts with an indented brace: then
\* no line before can end it, and the tool hangs.
BraceLoopEnds == pc = "spinning" => StartsWithBrace

=============================================================================
