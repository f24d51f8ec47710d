----------------------------- MODULE LintErrors -----------------------------
(***************************************************************************)
(* How tools/cpplint.py decides whether a complaint is printed, and counts *)
(* it: NOLINT comments, the filters, the verbosity, _CppLintState, Error.  *)
(*                                                                         *)
(* A category is the sequence of the parts of its name, so that a filter   *)
(* applies to every category it is a prefix of.  A log holds the NOLINT    *)
(* marks read so far and all complaints, printed or not.                   *)
(***************************************************************************)
EXTENDS CleanLines

CONSTANT NolintCategory   \* what each NOLINT token suppresses; << >> is everything

Every == << >>
Unknown == <<"unknown">>   \* a NOLINT category that is not in _ERROR_CATEGORIES
Nolint  == <<"readability", "nolint">>

NolintTokens == DOMAIN NolintCategory

\* _CppLintState.__init__ and ResetErrorCounts.
NoErrors == [suppressed |-> {}, count |-> 0, byCategory |-> << >>, raised |-> << >>]

DefaultFilters == <<[sign |-> "-", prefix |-> <<"build", "include", "alpha">>]>>

-----------------------------------------------------------------------------
\* IsErrorSuppressedByNolint
IsErrorSuppressedByNolint(log, category, line) ==
  \E c \in {category, Every} : <<c, line>> \in log.suppressed

\* The filters apply in turn, the last one that matches decides.
IsFiltered(filters, category) ==
  LET matching == {i \in DOMAIN filters : IsPrefix(filters[i].prefix, category)}
  IN matching # {} /\ filters[Max(matching)].sign = "-"

\* _ShouldPrintError
ShouldPrintError(log, settings, e) ==
  /\ ~IsErrorSuppressedByNolint(log, e.category, e.line)
  /\ e.confidence >= settings.verbose
  /\ ~IsFiltered(settings.filters, e.category)

Increment(counts, category) ==
  [c \in {category} \cup DOMAIN counts |->
     (IF c \in DOMAIN counts THEN counts[c] ELSE 0) + (IF c = category THEN 1 ELSE 0)]

\* _CppLintState.IncrementErrorCount
IncrementErrorCount(log, settings, category) ==
  [log EXCEPT
     !.count = @ + 1,
     !.byCategory = CASE settings.counting = "detailed" -> Increment(@, category)
                      [] settings.counting = "toplevel" -> Increment(@, <<Head(category)>>)
                      [] OTHER -> @]

\* Error: "at" is the line being processed when the complaint is made.
Error(log, settings, where, e) ==
  LET printed == ShouldPrintError(log, settings, e)
      entry == [file |-> where.file, at |-> where.at, line |-> e.line,
                category |-> e.category, confidence |-> e.confidence, printed |-> printed]
      next == [log EXCEPT !.raised = Append(@, entry)]
  IN IF printed THEN IncrementErrorCount(next, settings, e.category) ELSE next

\* ParseNolintSuppressions: the first NOLINT of the line.
ParseNolintSuppressions(log, settings, where, line, n) ==
  LET marks == {i \in DOMAIN line : line[i] \in NolintTokens}
      category == NolintCategory[line[Min(marks)]]
  IN IF marks = {} THEN log
     ELSE IF category = Unknown
     THEN Error(log, settings, where,
                [line |-> n, category |-> Nolint, confidence |-> 5])
     ELSE [log EXCEPT !.suppressed = @ \cup {<<category, n>>}]

\* Mutant: the marks of the file before stay.
ResetNolintSuppressions_Forgotten(log) == log

ResetNolintSuppressions(log) == [log EXCEPT !.suppressed = {}]

\* A check's complaints, and the NOLINT marks it reads itself, in their order.
Mark(line, n) == [kind |-> "nolint", text |-> line, line |-> n]

Report(log, settings, where, events) ==
  FoldLeft(LAMBDA acc, ev :
             IF ev.kind = "nolint"
             THEN ParseNolintSuppressions(acc, settings, where, ev.text, ev.line)
             ELSE Error(acc, settings, where, ev),
           log, events)

=============================================================================
