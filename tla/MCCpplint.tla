------------------------------ MODULE MCCpplint -----------------------------
(***************************************************************************)
(* Command lines for Cpplint: every text of a few lines from each of these *)
(* alphabets, one for each kind of state the tool keeps.                   *)
(***************************************************************************)
EXTENDS Cpplint

S == Space

MCHeader ==
  LET H(path, dir, base, first, order, own, module) ==
        [path |-> path, dir |-> dir, base |-> base, first |-> first,
         system |-> FALSE, cpp |-> FALSE, order |-> order, bare |-> FALSE,
         stream |-> FALSE, own |-> own, module |-> module]
      Sys(path, cpp, order, stream) ==
        [H(path, "none", path, path, order, FALSE, <<path>>) EXCEPT
           !.system = TRUE, !.cpp = cpp, !.stream = stream]
  IN [own     |-> H("d/foo.h", "d", "foo", "foo", 3, TRUE, <<"d", "foo">>),
      public  |-> H("public/foo.h", "public", "foo", "foo", 6, TRUE, <<"public", "foo">>),
      cousin  |-> H("d/foo_x.h", "d", "foo_x", "foo", 4, TRUE, <<"d", "foo_x">>),
      other   |-> H("d/bar.h", "d", "bar", "bar", 2, TRUE, <<"d", "bar">>),
      bare    |-> [H("zoo.h", "", "zoo", "zoo", 9, TRUE, <<"zoo">>) EXCEPT !.bare = TRUE],
      stdio   |-> Sys("stdio.h", FALSE, 7, FALSE),
      assert  |-> Sys("assert.h", FALSE, 1, FALSE),
      stream  |-> Sys("iostream", TRUE, 5, TRUE),
      vector  |-> Sys("vector", TRUE, 8, FALSE)]

MCNeeds == [vector |-> [header |-> "vector", template |-> TRUE],
            sort   |-> [header |-> "algorithm", template |-> FALSE]]

MCDisk == [p \in {"d/foo.h"} |-> << <<"#include", "vector">>, << >> >>]

MCNolint == [NOLINT         |-> Every,
             NOLINT_printf  |-> Printf,
             NOLINT_guard   |-> HeaderGuard,
             NOLINT_size    |-> FnSize,
             NOLINT_unknown |-> Unknown]

Texts(lines, length) == [1 .. length -> lines]

CC(text) == [name |-> "d/foo.cc", ext |-> "cc", readable |-> TRUE, cr |-> FALSE,
             text |-> text, dir |-> "d", public |-> "public", base |-> "foo",
             first |-> "foo", test |-> FALSE, guard |-> "FOO", oldGuard |-> "FOO_",
             module |-> <<"src", "d", "foo">>]

HH(text) == [CC(text) EXCEPT !.name = "d/foo.h", !.ext = "h"]

Run(options, files) == [options |-> options, files |-> files]

Option(name) ==
  [name |-> name, number |-> 0, word |-> "", filters |-> << >>, valid |-> TRUE]

Bad(name) == [Option(name) EXCEPT !.valid = FALSE]

Verbose(n) == [Option("verbose") EXCEPT !.number = n]

Counting(style) == [Option("counting") EXCEPT !.word = style]

Filters(filters) == [Option("filter") EXCEPT !.filters = filters]

Minus(prefix) == [sign |-> "-", prefix |-> prefix]
Plus(prefix)  == [sign |-> "+", prefix |-> prefix]

\* The filter of tools/static_checker.sh.
StaticChecker ==
  Filters(<<Minus(Include), Minus(<<"runtime", "reference">>), Minus(Streams),
            Minus(<<"readability", "check">>), Minus(Braces)>>)

-----------------------------------------------------------------------------
Namespaces == {Run(<<Verbose(0)>>, <<CC(t)>>) :
  t \in Texts({<<"#if", "A">>, <<"#else">>, <<"#endif">>,
               <<"namespace", "n", S, "{">>, <<"}", S, "//", "namespace", "n">>}, 5)}

Classes == {Run(<<Verbose(0)>>, <<CC(t)>>) :
  t \in Texts({<<"class", "A", S, "{">>, <<S, "public", ":">>, <<S, "DISALLOW", "(", "A", ")", ";">>,
               << >>, <<"}", ";">>, <<"struct", "B", ";">>}, 4)}

Blocks == {Run(<<Verbose(0)>>, <<CC(t)>>) :
  t \in Texts({<<"#if", "A">>, <<"#else">>, <<"#endif">>, <<"asm", "(">>, <<")", ";">>,
               <<"class", "A">>, <<"{", "x", ";", "y", ";", "}">>, <<"{">>}, 4)}

Marked == {<<S, "printf", "(", "x", ")", ";", S, "//", "NOLINT">>,
           <<S, "printf", "(", "x", ")", ";", "//", "NOLINT_printf">>,
           <<S, "printf", "(", "x", ")", ";">>,
           <<S, "while", "(", "x">>,
           <<S, ")", ";", "//", "NOLINT">>,
           <<S, "y", "//", "NOLINT_unknown">>}

Suppressions ==
  {Run(o, <<CC(t), CC(u)>>) :
     o \in {<< >>, <<StaticChecker>>},
     t \in Texts(Marked, 2), u \in Texts(Marked, 2)}

Comments == {Run(<<Verbose(0)>>, <<CC(t)>>) :
  t \in Texts({<<"/*">>, <<"x", S, "*/">>, <<"x", "/*", "y", "*/", "{">>,
               <<Quote, "//", "(", Quote, "(", "//", Quote>>, <<"(", Quote, ")">>,
               <<S, ")", "//", "NOLINT">>}, 4)}

Included(headers) == {<<"#include", h>> : h \in headers}

Includes ==
  {Run(<<StaticChecker>>, <<CC(t)>>) :
     t \in Texts(Included({"own", "public", "cousin", "other", "stdio", "assert", "stream"}), 4)}
  \cup {Run(<<Filters(<<Minus(Include), Plus(IncludeAlpha)>>)>>, <<CC(t)>>) :
          t \in Texts(Included({"own", "bare", "other", "stdio", "assert"}), 3)}

Functions ==
  {Run(<<Verbose(0)>>, <<CC(t)>>) :
     t \in Texts({<<"f", "(", ")", S, "{">>, <<S, "x", ";">>, <<"}", S, "//", "NOLINT_size">>}, 6)
           \cup Texts({<<"f", "(", ")">>, <<"TEST", "(", "x">>, <<"MACRO", "(", "x", ")">>,
                       <<")", S, "{">>, <<S, "x", ";">>, <<"}">>}, 4)}

Loops == {Run(<<Verbose(0)>>, <<CC(t)>>) :
  t \in Texts({<<S, "{">>, <<S, "{", "x", "}", ";">>, <<S, "}", ";">>, <<"}", S, "else", "if", S, "(", "x">>,
               <<"else", S, "{">>, <<S, ")", S, "(", "y", ")", "{">>, <<"int", "x", S, "=", S, "{">>,
               <<"}">>, <<"else", "do", "x", ";">>}, 3)}

Brackets3 == {Run(<<Verbose(0)>>, <<CC(t)>>) :
  t \in Texts({<<S, "while", S, "(", "a", "[", "0", "]">>, <<S, ")", ";">>, <<S, ")", "(">>,
               <<"v", "<", "int", ">", "x">>, <<"a", "<", "b", ";">>, <<"a", ">", "b", ",">>,
               <<S, "printf", "(", "(", "x", ")">>}, 3)}

Guards == {Run(<<Verbose(0)>>, <<HH(t)>>) :
  t \in Texts({<<"#ifndef", S, "FOO">>, <<"#ifndef", S, "FOO_", S, "//", "NOLINT_guard">>,
               <<"#define", S, "FOO">>, <<"#define", S, "FOO_">>, <<"/*">>,
               <<"#endif", "//", "FOO">>, <<"#endif", "//", "NOLINT_guard">>}, 4)}

Libraries == {Run(<< >>, <<f>>) :
  f \in UNION {{CC(t), HH(t)} :
  t \in Texts({<<"#include", "own">>, <<"#include", "vector">>, <<"vector", "<", "x", ">">>,
               <<S, "sort", "(", "x", ")", ";">>, <<"//", "Copyright">>}, 3)}}

Simple == CC(<< <<"//", "Copyright">>, <<S, "printf", "(", "x", ")", ";">>, << >> >>)

Arguments ==
  {Run(o, f) :
     o \in {<<a, b>> : a, b \in {Bad("help"), Bad("output"), Bad("verbose"), Bad("counting"),
                                 Bad("unknown"), Option("output"), Option("root"),
                                 Verbose(5), Counting("toplevel"), Counting("detailed"),
                                 Filters(<< >>), Filters(<<Minus(<<"runtime">>)>>),
                                 Filters(<<[sign |-> "?", prefix |-> Printf]>>)}},
     f \in {<< >>, <<[Simple EXCEPT !.readable = FALSE], Simple,
                     [Simple EXCEPT !.name = "-", !.ext = "-", !.cr = TRUE]>>,
            <<[Simple EXCEPT !.name = "d/foo.py", !.ext = "py"]>>}}

MCJobs == <<Namespaces, Classes, Blocks, Suppressions, Comments, Includes, Functions,
            Loops, Brackets3, Guards, Libraries, Arguments>>

=============================================================================
